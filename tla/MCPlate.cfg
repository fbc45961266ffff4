\* Three slots, a deposit of one unit a take, frames shorter than a take is drawn.
SPECIFICATION Spec
CONSTANTS
  SLOTS = 3
  TS = 1
  DECAY = 16
  DWELL = 2
  MARGIN = 3
  Gaps = {2, 3}
  TAKE_FADE = 2
  ROUTE_OPEN = 1
  Waits = {4, 5}
  MAX_QUEUED = 4
  Payments = {5}
  WarmDeposits = 1
  OpeningAges = {0, 4}
  Frames = {1}
  PRE = 1
  PRE_ROLL = 2
  STILL = 2
  STILLS = 2
  MaxTime = 13
  MaxSeeds = 2
INVARIANTS
  PaymentsLandWhenDrawn
CHECK_DEADLOCK FALSE
