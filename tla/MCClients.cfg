\* The parts stop when their bounds are used up.
SPECIFICATION Spec
CONSTANTS
  None = None
INVARIANTS
  PanelsFollowTheReader
PROPERTIES
  NothingMovesUnderTheReader
  BegunIsEnded
  SettlesInTheEnd
  OnScreenRuns
CHECK_DEADLOCK FALSE
