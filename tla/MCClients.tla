------------------------------ MODULE MCClients ------------------------------
(***************************************************************************)
(* What has to go on: a governed launch, the SDK's views, the subgraph, and *)
(* the loops and timers of the pages, on small instances, for TLC: one run  *)
(* for components that share no state.                                      *)
(*                                                                         *)
(* A behaviour is one of a single part, chosen at the start.  No part sees *)
(* what another does, so what holds of each of them alone holds of all of  *)
(* them side by side.  x1, x2, ... stand for the variables of the part at  *)
(* hand, in the order in which its module declares them.                   *)
(***************************************************************************)
EXTENDS Integers, Sequences, FiniteSets, TLC

CONSTANTS None  \* null, no such file, nobody

VARIABLES part,
  x1, x2, x3, x4, x5, x6, x7, x8, x9, x10, x11, x12, x13, x14, x15, x16, x17, x18, x19, x20, x21

all == <<part,
         x1, x2, x3, x4, x5, x6, x7, x8, x9, x10, x11, x12, x13, x14, x15, x16, x17, x18, x19, x20,
         x21>>

(* Two launchers, and a single unit that outsiders send, which spoils one   *)
(* launcher at most; nobody is called back.                                 *)
GovernedLaunch == INSTANCE Launch WITH
  Launchers <- {"l1", "l2"}, Governance <- "governance", Deployer <- "deployer", Nobody <- "nobody",
  GENESIS_USDG <- 1, GENESIS_GBX <- 4, MINIMUM_LIQUIDITY <- 1, Wallet <- 1, MaxGiven <- 1, MaxCalls <- 0,
  graph <- x1, wallet <- x2, step <- x3, running <- x4, saved <- x5, calls <- x6, given <- x7,
  outcome <- x8

-----------------------------------------------------------------------------
(* Two blocks of every height; in "x" blocks the supply is too small to     *)
(* redeem from.                                                             *)
ReadRouter(b) == "router"
ReadTokens(b) == {"token"}
ReadSupply(b) == IF b[Len(b)] = "x" THEN 1 ELSE 2
Reads == INSTANCE BlockReads WITH
  Labels <- {"o", "x"}, MaxHeight <- 2, MaxReorgs <- 1, MaxViews <- 1, BlocksReturn <- FALSE,
  Readers <- {"readMineRevenueDestinationView", "readRedemptionPreview"}, GbxAmount <- 2,
  RouterOf <- ReadRouter, RewardTokensOf <- ReadTokens, SupplyOf <- ReadSupply,
  chain <- x1, seen <- x2, reorgs <- x3, request <- x4, views <- x5

(* Four blocks, one of which may be replaced: a strategy is added, killed   *)
(* and rewarded in every order.                                             *)
Indexing == INSTANCE Subgraph WITH
  Accounts <- {"a"}, Strategies <- {"s1", "s2"}, Slots <- {0}, Routers <- {"r1", "r2"},
  NoAddress <- "none", FundAddr <- "fund", MaxBlocks <- 4, MaxReorgs <- 1,
  Kinds <- {"strategy", "bribe"},
  blocks <- x1, store <- x2, halted <- x3, reorgs <- x4

-----------------------------------------------------------------------------
(* One panel, with motion allowed.                                          *)
Panel == INSTANCE Harness WITH
  Sims <- {"p1"}, Throwing <- {}, Preferences <- {FALSE}, MaxStarts <- 1,
  mode <- x1, starts <- x2, reduced <- x3, place <- x4, sims <- x5, visible <- x6, seen <- x7,
  lastSeen <- x8, watched <- x9, awaited <- x10, told <- x11, pending <- x12, sighted <- x13,
  shown <- x14, stepped <- x15, rewound <- x16, going <- x17, due <- x18, spent <- x19

(* One vacancy and two occupied slots; a frame is one unit.                 *)
Tenure == INSTANCE MineBoard WITH
  SLOTS <- 1 .. 3, OPEN_AT_START <- {2}, DETAIL <- {1, 3}, Frames <- {1},
  t <- x1, owner <- x2, age <- x3, beatIdx <- x4, nextBeat <- x5, youLegB <- x6, youSlot <- x7,
  featured <- x8, warming <- x9

(* The fund's board and one other, without burns.                           *)
Boards == INSTANCE LiveBoards WITH
  Boards <- {"mine", "fund"}, Fund <- "fund", Shares <- {1}, BurnFrames <- 1, InitialAmount <- 1,
  MaxAmount <- 1, MaxBurns <- 0, BurnsOverlap <- FALSE,
  reduced <- x1, announced <- x2, pinned <- x3, stage <- x4, effects <- x5, inView <- x6,
  entries <- x7, onScreen <- x8, activeRef <- x9, visible <- x10, motion <- x11, frame <- x12,
  scheduled <- x13, parity <- x14, amount <- x15, leaving <- x16, progress <- x17, playing <- x18,
  receipt <- x19, owed <- x20, burns <- x21

(* Two of the page's four swatches, with its times, in 50 ms.               *)
Swatches == INSTANCE SpecimenEvents WITH
  EVT_CYCLE <- 60, ANIMATION <- 20, BELT <- 28, Offset <- <<6, 34>>, MayReduce <- TRUE,
  t <- x1, owed <- x2, reduced <- x3, lit <- x4, held <- x5, text <- x6, animation <- x7,
  timer <- x8, fired <- x9

-----------------------------------------------------------------------------
(* What every part takes for granted of its constants. *)
ASSUME ClientsAssumption ==
  /\ GovernedLaunch!LaunchConstants
  /\ Reads!BlockReadsAssumption
  /\ Panel!HarnessAssumption
  /\ Tenure!MineBoardAssumption
  /\ Boards!LiveBoardsAssumption
  /\ Swatches!SpecimenEventsAssumption

(* The variables that a part with n of its own leaves at zero, and unchanged. *)
Rest4 == <<part, x5, x6, x7, x8, x9, x10, x11, x12, x13, x14, x15, x16, x17, x18, x19, x20, x21>>
Rest5 == <<part, x6, x7, x8, x9, x10, x11, x12, x13, x14, x15, x16, x17, x18, x19, x20, x21>>
Rest8 == <<part, x9, x10, x11, x12, x13, x14, x15, x16, x17, x18, x19, x20, x21>>
Rest9 == <<part, x10, x11, x12, x13, x14, x15, x16, x17, x18, x19, x20, x21>>
Rest19 == <<part, x20, x21>>

Blank19 == x20 = 0 /\ x21 = 0
Blank9 == x10 = 0 /\ x11 = 0 /\ x12 = 0 /\ x13 = 0 /\ x14 = 0 /\ x15 = 0 /\ x16 = 0 /\ x17 = 0 /\ x18 = 0 /\ x19 = 0 /\ Blank19
Blank8 == x9 = 0 /\ Blank9
Blank5 == x6 = 0 /\ x7 = 0 /\ x8 = 0 /\ Blank8
Blank4 == x5 = 0 /\ Blank5

Init ==
  \/ part = "governed launch" /\ GovernedLaunch!Init /\ Blank8
  \/ part = "reads" /\ Reads!Init /\ Blank5
  \/ part = "indexing" /\ Indexing!Init /\ Blank4
  \/ part = "panel" /\ Panel!Init /\ Blank19
  \/ part = "tenure" /\ Tenure!Init /\ Blank9
  \/ part = "boards" /\ Boards!Init
  \/ part = "swatches" /\ Swatches!Init /\ Blank9

GovernedLaunchSteps == part = "governed launch" /\ GovernedLaunch!Next /\ UNCHANGED Rest8
ReadsSteps == part = "reads" /\ Reads!Next /\ UNCHANGED Rest5
IndexingSteps == part = "indexing" /\ Indexing!Next /\ UNCHANGED Rest4
PanelSteps == part = "panel" /\ Panel!Next /\ UNCHANGED Rest19
TenureSteps == part = "tenure" /\ Tenure!Next /\ UNCHANGED Rest9
BoardsSteps == part = "boards" /\ Boards!Next /\ UNCHANGED part
SwatchesSteps == part = "swatches" /\ Swatches!Next /\ UNCHANGED Rest9

Next ==
  \/ GovernedLaunchSteps
  \/ ReadsSteps
  \/ IndexingSteps
  \/ PanelSteps
  \/ TenureSteps
  \/ BoardsSteps
  \/ SwatchesSteps

(* Where something has to happen in the end: what has begun of a launch    *)
(* ends, the authority tries every launcher and governance accepts what is *)
(* pending; a client's requests are answered or fail; graph-node goes on   *)
(* indexing; the browser renders frames and delivers what it has queued,   *)
(* and React flushes effects.  The part is chosen once, so that one that   *)
(* is fair to a disjunction over the parts is fair to the step of each.    *)
Of(p, step, rest) == part = p /\ step /\ UNCHANGED rest

Renders ==
  \/ Of("panel", Panel!Frame, Rest19) \/ Of("boards", Boards!Frame, part)
  \/ Of("tenure", Tenure!Next, Rest9) \/ Of("swatches", Swatches!Pass, Rest9)
Serves ==
  \/ Of("reads", Reads!Client, Rest5)
  \/ Of("indexing", Indexing!IndexBlock, Rest4)
  \/ Of("governed launch", GovernedLaunch!Collect \/ GovernedLaunch!Seed \/ GovernedLaunch!LaunchEnd, Rest8)
Hears == Of("panel", Panel!Deliver, Rest19) \/ Of("boards", Boards!SetMotion, part)
Flushes == Of("boards", Boards!ActiveEffects, part)
Mounts == Of("boards", Boards!MountEffects, part)
Delivers(b) == Of("boards", Boards!Deliver(b), part)
Begins(l) == Of("governed launch", GovernedLaunch!LaunchBegin(l), Rest8)
Accepts == Of("governed launch", GovernedLaunch!Accepting, Rest8)
Expires(s) == Of("swatches", Swatches!TimerFires(s), Rest9)
Animates(s) == Of("swatches", Swatches!AnimationEnd(s), Rest9)

Fairness ==
  /\ WF_all(Renders \/ Serves)
  /\ WF_all(Hears \/ Expires(1)) /\ WF_all(Flushes \/ Expires(2))
  /\ WF_all(Mounts \/ Animates(1)) /\ WF_all(Delivers("mine") \/ Animates(2)) /\ WF_all(Delivers("fund"))
  /\ SF_all(Begins("l1")) /\ SF_all(Begins("l2")) /\ SF_all(Accepts)

Spec == Init /\ [][Next]_all /\ Fairness

-----------------------------------------------------------------------------
(* What runs is what the reader has before them: nothing steps before it   *)
(* has been seen or after an absence it was to begin anew from, no board   *)
(* but the open stage runs, the reader holds the slot the board says, and  *)
(* a swatch prints what it wears, flashing or held.                        *)
PanelsFollowTheReader ==
  /\ part = "panel" => Panel!NothingRunsBeforeItIsSeen /\ Panel!ReturnsAfresh
  /\ part = "boards" => Boards!OnlyTheOpenStageRuns
  /\ part = "tenure" => Tenure!YouHoldOne /\ Tenure!MineBoardTypeOK
  /\ part = "swatches" => Swatches!TextIsTheClass /\ Swatches!SpecimenEventsTypeOK

(* No step does under the reader's eyes what only a return or the script   *)
(* may do: rewind a panel, displace the reader, narrate one column twice   *)
(* running, leave a swatch out.                                            *)
NothingMovesUnderTheReader ==
  [][/\ part = "panel" => Panel!NeverRewoundInView
     /\ part = "tenure" => Tenure!ReaderLeavesOnTheScript /\ Tenure!AnotherColumn
     /\ part = "swatches" => Swatches!NoneIsSkipped]_all

(* A requested view is returned or fails, and the flash of a swatch comes  *)
(* off, whatever becomes of the chain, of the animation and of the frames. *)
BegunIsEnded ==
  \A s \in {1, 2} :
    ((part = "reads" /\ Reads!Waiting) \/ (part = "swatches" /\ Swatches!Flashes(s)))
      ~> ((part = "reads" => ~Reads!Waiting) /\ (part = "swatches" => ~Swatches!Flashes(s)))

(* In the end the subgraph has caught up with a chain that rests, the last *)
(* vacancy of the board is spent, and, if outsiders cannot spoil every     *)
(* launcher, a launch is governed, its Mine and its Resonance both.        *)
SettlesInTheEnd ==
  <>[](/\ part = "indexing" => Indexing!CaughtUp
       /\ part = "tenure" => Tenure!EveryVacancyIsSpent
       /\ part = "governed launch" => GovernedLaunch!Governed)

(* What stays on screen for good keeps being stepped: no order of scrolls, *)
(* starts, effects and reports leaves the loop asleep over it.             *)
OnScreenRuns ==
  \A b \in {"mine", "fund"} :
    <>[]((part = "panel" /\ Panel!OnScreen("p1")) \/ (part = "boards" /\ Boards!Shown(b)))
      => []<>(part = "panel" /\ Panel!Stepped("p1")) \/ []<><<part = "boards" /\ Boards!Stepped(b)>>_all
=============================================================================
