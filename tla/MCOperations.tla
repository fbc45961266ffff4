---------------------------- MODULE MCOperations ----------------------------
(***************************************************************************)
(* The launch, the release tooling, the reads and the arithmetic of the    *)
(* SDK, the subgraph, the simulations, and the models behind the pages'    *)
(* figures, on small instances, for TLC: one run for components that share *)
(* no state.                                                               *)
(*                                                                         *)
(* A behaviour is one of a single part, chosen at the start.  No part sees *)
(* what another does, so what holds of each of them alone holds of all of  *)
(* them side by side.  x1, x2, ... stand for the variables of the part at  *)
(* hand, in the order in which its module declares them.                   *)
(***************************************************************************)
EXTENDS Integers, Sequences, FiniteSets, TLC

CONSTANTS None  \* null, no such file, nobody

VARIABLES part,
  x1, x2, x3, x4, x5, x6, x7, x8, x9, x10, x11, x12, x13, x14, x15, x16, x17, x18, x19, x20, x21

all == <<part,
         x1, x2, x3, x4, x5, x6, x7, x8, x9, x10, x11, x12, x13, x14, x15, x16, x17, x18, x19, x20,
         x21>>

(* Two launchers and one USDG unit of genesis liquidity.                   *)
Launched == INSTANCE Launch WITH
  Launchers <- {"l1", "l2"}, Governance <- "governance", Deployer <- "deployer", Nobody <- "nobody",
  GENESIS_USDG <- 1, GENESIS_GBX <- 4, MINIMUM_LIQUIDITY <- 1, Wallet <- 1, MaxGiven <- 2, MaxCalls <- 1,
  graph <- x1, wallet <- x2, step <- x3, running <- x4, saved <- x5, calls <- x6, given <- x7,
  outcome <- x8

(* Two roles, two accounts, two implementations, one token: an account can *)
(* gain, lose and regain control, and lose it while another one stays.     *)
Ev(kind, role, who, previous) == [kind |-> kind, role |-> role, who |-> who, previous |-> previous]
Events == {Ev(k, "upgrader", a, None) : k \in {"role-granted", "role-revoked"}, a \in {"a1", "a2"}}
          \cup {Ev("upgraded", None, "i2", None), Ev("role-admin-changed", "upgrader", "upgrader", "admin")}
          \cup {Ev(k, None, "a1", None) : k \in {"blocked", "unblocked"}}
          \cup {Ev(k, None, None, None) : k \in {"paused", "unpaused"}}

Stock == INSTANCE StockCandidate WITH
  Tokens <- {"t1"}, Roles <- {"admin", "upgrader"}, DefaultAdmin <- "admin", BeaconUpgrader <- "upgrader",
  Accounts <- {"a1", "a2"}, Impls <- {"i1", "i2"}, Nothing <- None, Height <- 2, MaxReorgs <- 1,
  Events <- Events, Lossy <- FALSE,
  chain <- x1, reorgs <- x2, listed <- x3, pc <- x4, read <- x5, ranges <- x6, rawLogs <- x7,
  named <- x8

(* The same without a reorganisation, from an endpoint that omits events.  *)
LossyStock == INSTANCE StockCandidate WITH
  Tokens <- {"t1"}, Roles <- {"admin", "upgrader"}, DefaultAdmin <- "admin", BeaconUpgrader <- "upgrader",
  Accounts <- {"a1", "a2"}, Impls <- {"i1", "i2"}, Nothing <- None, Height <- 2, MaxReorgs <- 0,
  Events <- Events, Lossy <- TRUE,
  chain <- x1, reorgs <- x2, listed <- x3, pc <- x4, read <- x5, ranges <- x6, rawLogs <- x7,
  named <- x8

-----------------------------------------------------------------------------
(* Two commits whose policies differ in one of two signers; authorizations *)
(* good and bad.  Once one preflight against four changes of the world,    *)
(* once two of them over one ledger.                                       *)
Quorum(signers) == [signers |-> signers, threshold |-> 2]
PolicyOf == "released" :> Quorum({"s1", "s2"}) @@ "later" :> Quorum({"s1", "s3"}) @@ "Edited" :> Quorum({"s2", "s3"})
By(s) == [signer |-> s, payload |-> "this"]
Deploy == [id |-> 1, commit |-> "released", phase |-> "deploy", start |-> 0, safeNonce |-> 0, config |-> "signed",
           prior |-> None, issued |-> 0, expires |-> 1, policy |-> PolicyOf["released"],
           signatures |-> <<By("s1"), By("s2")>>]
Schedule == [Deploy EXCEPT !.id = 2, !.phase = "schedule", !.expires = 2,
                           !.prior = [phase |-> "DEPLOYED_AND_WIRED", step |-> 0]]
Execute == [Deploy EXCEPT !.id = 3, !.phase = "execute", !.start = 1,
                          !.prior = [phase |-> "TIMELOCK_EXECUTING", step |-> 1]]
Docs == {Deploy, Execute,
         [Deploy EXCEPT !.signatures = <<By("s1"), By("s1")>>],
         [Deploy EXCEPT !.signatures = <<By("s2"), By("s3")>>, !.policy = PolicyOf["Edited"]],
         [Schedule EXCEPT !.commit = "later", !.signatures = <<By("s1"), By("s2")>>],
         [Schedule EXCEPT !.signatures = <<By("s1"), [signer |-> "s2", payload |-> "other"]>>]}
FewDocs == {Deploy, Schedule}
ApprovesSafe == [v \in DOMAIN PolicyOf |-> v # "later"]

OnePreflight == INSTANCE Preflight WITH
  Procs <- {"p1"}, Commits <- {"released", "later"}, Edited <- "Edited", Configs <- {"signed", "edited"},
  Docs <- Docs, PolicyOf <- PolicyOf, CandidateIn <- "signed" :> "released" @@ "edited" :> "later",
  ApprovesSafe <- ApprovesSafe, Absent <- None, Nobody <- None, MaxMoves <- 3,
  head <- x1, tree <- x2, config <- x3, state <- x4, chain <- x5, clock <- x6, moves <- x7, proc <- x8,
  ledger <- x9, receipts <- x10

TwoPreflights == INSTANCE Preflight WITH
  Procs <- {"p1", "p2"}, Commits <- {"released", "later"}, Edited <- "Edited", Configs <- {"signed", "edited"},
  Docs <- FewDocs, PolicyOf <- PolicyOf, CandidateIn <- "signed" :> "released" @@ "edited" :> "later",
  ApprovesSafe <- ApprovesSafe, Absent <- None, Nobody <- None, MaxMoves <- 1,
  head <- x1, tree <- x2, config <- x3, state <- x4, chain <- x5, clock <- x6, moves <- x7, proc <- x8,
  ledger <- x9, receipts <- x10

-----------------------------------------------------------------------------
(* Two roles with three signers, two contracts, one external, two bindings. *)
(* Once edited, signed and committed while it is validated, once recorded   *)
(* in every way and signed by those who must.                               *)
Names == {"GBXToken", "MiningPool"}
LinkedTo == [canonicalMiningPool |-> "MiningPool", usdG |-> "USDG"]
ManifestPolicy == [security |-> [signers |-> {"s1", "s2"}, threshold |-> 1],
                   release |-> [signers |-> {"s3"}, threshold |-> 1]]
OwnPolicy == [ManifestPolicy EXCEPT !.release.signers = {"s4"}]
Policies == {ManifestPolicy, OwnPolicy, None}
Sources == {[id |-> 1, policy |-> ManifestPolicy], [id |-> 2, policy |-> None]}
Entry(n, a, s) == [name |-> n, address |-> a, state |-> s]
Good == [status |-> "release-approved", source |-> 1, policy |-> ManifestPolicy, actions |-> <<"mint">>,
         contracts |-> <<Entry("GBXToken", "a1", "verified"), Entry("MiningPool", "a2", "verified")>>,
         externals |-> <<Entry("USDG", "a3", "verified")>>, initial |-> [canonicalMiningPool |-> "a2", usdG |-> "a3"],
         gates |-> [audit |-> "passed"], closed |-> TRUE, hash |-> [config |-> "x1", state |-> "x1"],
         created |-> 0, observed |-> 0, expires |-> 2]
Contents == {Good, [Good EXCEPT !.hash.state = "x2"], [Good EXCEPT !.policy = OwnPolicy],
             [Good EXCEPT !.status = "testnet-candidate", !.policy = None]}
Signed(c, signers) == [content |-> c, signatures |-> [i \in DOMAIN signers |-> [signer |-> signers[i], payload |-> c]]]
Entries(names, states) ==
  {<<Entry(m, a, s), Entry(n, b, "verified")>> : m, n \in names, a, b \in {"a1", "a2", "a3"}, s \in states}
  \cup {<<Entry(m, a, "verified")>> : m \in names, a \in {"a1", "a2", "a3", "zero"}}
Graphs == {Signed([Good EXCEPT !.contracts = c, !.externals = <<Entry("USDG", a, "verified")>>, !.initial = i],
                  <<"s1", "s3">>) :
             c \in Entries(Names, {"deployed", "verified"}), a \in {"a1", "a2", "a3", "zero"},
             i \in [DOMAIN LinkedTo -> {"a1", "a2", "a3"}]}

Manifest == INSTANCE ReleaseManifest WITH
  ContractNames <- Names, ExternalKeys <- {"USDG"}, Actions <- {"mint"}, Gates <- {"audit"},
  Roles <- {"security", "release"}, Zero <- "zero", Nothing <- None, LinkedTo <- LinkedTo,
  InitialFiles <- {Signed(Good, <<>>)}, Contents <- Contents, Versions <- {}, Signers <- {"s1", "s2", "s3"},
  Bytes <- {"x1"}, Sources <- Sources, Policies <- Policies, MaxMoves <- 2, MaxSignatures <- 2,
  tree <- x1, head <- x2, commits <- x3, clock <- x4, moves <- x5, run <- x6, accepted <- x7

RecordedGraph == INSTANCE ReleaseManifest WITH
  ContractNames <- Names, ExternalKeys <- {"USDG"}, Actions <- {"mint"}, Gates <- {"audit"},
  Roles <- {"security", "release"}, Zero <- "zero", Nothing <- None, LinkedTo <- LinkedTo,
  InitialFiles <- Graphs, Contents <- {}, Versions <- {}, Signers <- {"s1", "s2", "s3"},
  Bytes <- {"x1"}, Sources <- Sources, Policies <- Policies, MaxMoves <- 1, MaxSignatures <- 0,
  tree <- x1, head <- x2, commits <- x3, clock <- x4, moves <- x5, run <- x6, accepted <- x7

-----------------------------------------------------------------------------
(* Chains of a few blocks, a depth of one block and an age of one unit:    *)
(* once with blocks enough to replace a buried one, once with the code of  *)
(* two accounts, once with time.                                           *)
Pin == INSTANCE PinnedEvidence WITH
  Keys <- {}, Codes <- {0}, NoCode <- 0, Depth <- 1, MinConfirmations <- 1, Lag <- 1, Age <- 1,
  Skew <- 0, Validity <- 0, MaxBlocks <- 6, MaxHeight <- 4, MaxTime <- 0,
  chain <- x1, made <- x2, now <- x3, evidence <- x4, run <- x5, results <- x6

Bytecode == INSTANCE PinnedEvidence WITH
  Keys <- {"k1", "k2"}, Codes <- {0, 1}, NoCode <- 0, Depth <- 1, MinConfirmations <- 1, Lag <- 1, Age <- 1,
  Skew <- 0, Validity <- 0, MaxBlocks <- 4, MaxHeight <- 2, MaxTime <- 0,
  chain <- x1, made <- x2, now <- x3, evidence <- x4, run <- x5, results <- x6

Fork == INSTANCE PinnedEvidence WITH
  Keys <- {}, Codes <- {0}, NoCode <- 0, Depth <- 1, MinConfirmations <- 1, Lag <- 1, Age <- 1,
  Skew <- 0, Validity <- 2, MaxBlocks <- 4, MaxHeight <- 4, MaxTime <- 2,
  chain <- x1, made <- x2, now <- x3, evidence <- x4, run <- x5, results <- x6

(* A sound bridge; once replaced by one that differs in one of the facts   *)
(* that others depend on, once different in a fact from the beginning.     *)
Accounts == {"router", "token", "gateway", "admin", "owner", "impl", "beacon"}
Facts == {"code", "identity", "roles", "token", "gateway", "l1", "beacon", "impl", "admin", "owner", "implementation"}
SoundBridge ==
  [k \in Accounts \X Facts |->
     CASE k[2] = "code" -> "valid"
       [] k[2] = "identity" /\ k[1] = "token" -> "valid"
       [] k[2] = "roles" /\ k[1] = "owner" -> "valid"
       [] k = <<"router", "token">> -> "token"
       [] k[2] = "gateway" /\ k[1] \in {"router", "token"} -> "gateway"
       [] k = <<"token", "l1">> -> "router"
       [] k = <<"token", "beacon">> -> "beacon"
       [] k[2] = "impl" /\ k[1] \in {"router", "gateway", "owner"} -> "impl"
       [] k[2] = "admin" /\ k[1] \in {"router", "gateway", "owner"} -> "admin"
       [] k = <<"admin", "owner">> -> "owner"
       [] k = <<"beacon", "implementation">> -> "impl"
       [] OTHER -> "zero"]

Unsteady ==
  {<<"router", "token">>, <<"router", "admin">>, <<"router", "impl">>, <<"gateway", "admin">>, <<"token", "beacon">>,
   <<"admin", "owner">>, <<"owner", "code">>, <<"beacon", "implementation">>}

\* Every fact that a sound bridge is judged by.
Relied ==
  ({"router", "gateway", "owner"} \X {"impl", "admin", "beacon"}) \cup (Accounts \X {"code"})
  \cup {<<"router", "token">>, <<"router", "gateway">>, <<"token", "identity">>, <<"token", "l1">>, <<"token", "gateway">>,
        <<"token", "beacon">>, <<"admin", "owner">>, <<"owner", "roles">>, <<"beacon", "implementation">>}

Bridge == INSTANCE BridgeCandidate WITH
  Addresses <- Accounts, Zero <- "zero", Router <- "router", L1Token <- "router", Valid <- "valid",
  Canonical <- SoundBridge, Changing <- Unsteady, Flaws <- {}, MaxReorgs <- 1,
  worlds <- x1, step <- x2, version <- x3, pending <- x4, seen <- x5

FlawedBridge == INSTANCE BridgeCandidate WITH
  Addresses <- Accounts, Zero <- "zero", Router <- "router", L1Token <- "router", Valid <- "valid",
  Canonical <- SoundBridge, Changing <- {}, Flaws <- Relied, MaxReorgs <- 0,
  worlds <- x1, step <- x2, version <- x3, pending <- x4, seen <- x5

-----------------------------------------------------------------------------
(* Two builds: one sound, one with a package found to be vulnerable later. *)
Gate == INSTANCE ContainerGate WITH
  Images <- {"i1", "i2"}, Packages <- {"p1", "p2"}, WellBuilt <- {"i1", "i2"}, Probes <- {1, 2},
  Passes <- "i1" :> {1, 2} @@ "i2" :> {1}, Healthy <- {"i1", "i2"},
  Inventory <- "i1" :> {"p1"} @@ "i2" :> {"p1", "p2"},
  Blocked <- 0 :> {} @@ 1 :> {"p2"} @@ 2 :> {"p1", "p2"} @@ 3 :> {"p1", "p2"},
  MaxAge <- 1, MaxSkew <- 1, MaxTime <- 2, MaxMoves <- 2, MaxRuns <- 2,
  tag <- x1, now <- x2, moves <- x3, files <- x4, smoke <- x5, runs <- x6, gate <- x7

(* One source commit with two evidence commits, the second signed later,   *)
(* and a second source commit that knows another identity.                 *)
Commits == {"s1", "e1", "e2", "s3", "e3"}
Parent == "s1" :> None @@ "e1" :> "s1" @@ "e2" :> "s1" @@ "s3" :> None @@ "e3" :> "s3"
Committed == [c \in Commits |-> IF c = "e2" THEN 1 ELSE 0]
Candidate(x) == [identity |-> x, pinned |-> 0]
Config(x) == [review |-> Candidate(x), target |-> x]
Asset(x, s, t) == [candidate |-> Candidate(x), config |-> Config(x), asset |-> x, source |-> s, created |-> t]
Source(x) == [policy |-> "policy", candidate |-> Candidate(x), config |-> None, manifest |-> None]
Evidence(x, s, t) == [Source(x) EXCEPT !.config = Config(x), !.manifest = Asset(x, s, t)]
Tree == "s1" :> Source("a") @@ "e1" :> Evidence("a", "s1", 0) @@ "e2" :> Evidence("a", "s1", 1)
        @@ "s3" :> Source("b") @@ "e3" :> Evidence("b", "s3", 0)

Registry == INSTANCE RegistryRevalidation WITH
  Processes <- {"r1"}, Commits <- Commits, Identities <- {"a", "b"}, Parent <- Parent, Tree <- Tree,
  Committed <- Committed, Paths <- {"out"}, Validity <- 1, MaxTime <- 1, MaxMoves <- 2,
  head <- x1, tree <- x2, official <- x3, now <- x4, moves <- x5, archive <- x6, artifact <- x7, proc <- x8,
  accepted <- x9

Few == {"s1", "e1", "e2"}
TwoRevalidations == INSTANCE RegistryRevalidation WITH
  Processes <- {"r1", "r2"}, Commits <- Few, Identities <- {"a", "b"}, Parent <- [c \in Few |-> Parent[c]],
  Tree <- [c \in Few |-> Tree[c]], Committed <- [c \in Few |-> Committed[c]], Paths <- {"out"}, Validity <- 1, MaxTime <- 1, MaxMoves <- 1,
  head <- x1, tree <- x2, official <- x3, now <- x4, moves <- x5, archive <- x6, artifact <- x7, proc <- x8,
  accepted <- x9


-----------------------------------------------------------------------------
(* Two blocks of every height; "x" blocks redirect the Mine, register a     *)
(* second reward token and hold too little supply to redeem from.  Once one *)
(* view by every reader, once two views that are to be combined.            *)
ReadRouter(b) == IF b[Len(b)] = "x" THEN "newRouter" ELSE "oldRouter"
ReadTokens(b) == IF b[Len(b)] = "x" THEN {"t1", "t2"} ELSE {"t1"}
ReadSupply(b) == IF b[Len(b)] = "x" THEN 1 ELSE 2
PairedReaders == {"readMineRevenueDestinationView", "readRedemptionPreview"}
AllReaders == PairedReaders \cup
  {"readSupplyView", "readMineSlotView", "readSignalView", "readSignalPortfolio", "readResonanceView",
   "readStrategyView", "readBribeRewardView", "readBribeRouterView"}
Reads == INSTANCE BlockReads WITH
  Labels <- {"o", "x"}, MaxHeight <- 2, MaxReorgs <- 1, MaxViews <- 1, BlocksReturn <- FALSE,
  Readers <- AllReaders, GbxAmount <- 2,
  RouterOf <- ReadRouter, RewardTokensOf <- ReadTokens, SupplyOf <- ReadSupply,
  chain <- x1, seen <- x2, reorgs <- x3, request <- x4, views <- x5

PairedReads == INSTANCE BlockReads WITH
  Labels <- {"o", "x"}, MaxHeight <- 2, MaxReorgs <- 1, MaxViews <- 2, BlocksReturn <- FALSE,
  Readers <- PairedReaders, GbxAmount <- 2,
  RouterOf <- ReadRouter, RewardTokensOf <- ReadTokens, SupplyOf <- ReadSupply,
  chain <- x1, seen <- x2, reorgs <- x3, request <- x4, views <- x5

(* Four blocks, one of which may be replaced, with the transactions of      *)
(* signal, those of money and those of rewards.                             *)
Signals == INSTANCE Subgraph WITH
  Accounts <- {"a", "b"}, Strategies <- {"s1", "s2"}, Slots <- {0}, Routers <- {"r1", "r2"},
  NoAddress <- "none", FundAddr <- "fund", MaxBlocks <- 4, MaxReorgs <- 1,
  Kinds <- {"strategy", "addSignal", "removeSignal", "delegate"},
  blocks <- x1, store <- x2, halted <- x3, reorgs <- x4

Money == INSTANCE Subgraph WITH
  Accounts <- {"a", "b"}, Strategies <- {"s1", "s2"}, Slots <- {0}, Routers <- {"r1", "r2"},
  NoAddress <- "none", FundAddr <- "fund", MaxBlocks <- 4, MaxReorgs <- 1,
  Kinds <- {"mine", "genesis", "claim", "burn", "router", "revenue"},
  blocks <- x1, store <- x2, halted <- x3, reorgs <- x4

Bribed == INSTANCE Subgraph WITH
  Accounts <- {"a"}, Strategies <- {"s1", "s2"}, Slots <- {0}, Routers <- {"r1", "r2"},
  NoAddress <- "none", FundAddr <- "fund", MaxBlocks <- 4, MaxReorgs <- 1,
  Kinds <- {"strategy", "bribe", "revenue"},
  blocks <- x1, store <- x2, halted <- x3, reorgs <- x4

(* A Mine with two slots and two users; halvings at 1 and 2, then the tail. *)
Quotes == INSTANCE MineQuotes WITH
  NumGBXHolders <- 3, SetupAuthority <- 90, MineAddr <- 91, NoAddress <- 92, Routers <- {93}, InitialRouter <- 93,
  Pair <- 2, NumAccounts <- 2, InitialUSDG <- 2, SLOT_COUNT <- 2, PRICE_DECAY_PERIOD <- 2, HALVING_PERIOD <- 1,
  BPS <- 10, PREVIOUS_MINER_BPS <- 8, PRICE_MULTIPLIER <- 2, MIN_INITIAL_PRICE <- 2, MAX_INITIAL_PRICE <- 4,
  INITIAL_TPS <- 8, TAIL_TPS <- 2, GENESIS_LIQUIDITY_GBX <- 1, MaxTime <- 2, MaxEpoch <- 2,
  Deadlines <- {1, 2}, MaximumPayments <- {4}, Amounts <- {}, BpsOf <- 10,
  minter <- x1, minterLocked <- x2, totalSupply <- x3, gbxBalance <- x4, lifetimeMinted <- x5,
  lifetimeBurned <- x6, now <- x7, slots <- x8, aggregateTps <- x9, storedPendingEmission <- x10,
  pendingUpdatedAt <- x11, totalMined <- x12, totalClaimableMinerPayments <- x13,
  claimableMinerPayment <- x14, resonanceRouter <- x15, genesisAuthority <- x16,
  genesisLiquidityMinted <- x17, usdg <- x18, view <- x19

(* Two strategies, three rows: a strategy may be entered twice around the   *)
(* other, and sums may exceed a word.                                       *)
Plans == INSTANCE SignalPlan WITH
  Strategies <- {"s1", "s2"}, ZeroAddress <- "zero", WordMax <- 4, EnteredAmounts <- {0, 1, 3},
  MaxRows <- 3, MaxPlans <- 2, InitialGBX <- 5,
  allowance <- x1, gbx <- x2, position <- x3, live <- x4, plan <- x5, planned <- x6

(* Curves whose halvings divide evenly, odd rates, a tail that is reached   *)
(* exactly, skipped over, or in force from the start.                       *)
Curves == {[initialTps |-> i, halvingPeriod |-> h, tailTps |-> t] : i \in {8, 11, 3}, h \in {1, 2, 5}, t \in {1, 2, 3}}


Schedules == INSTANCE Emissions WITH
  Curves <- Curves, MaxElapsed <- 24, Payments <- {1, 7, 13}, BpsOf <- 10, BribeRates <- {0, 1, 2},
  curve <- x1, elapsed <- x2, issued <- x3, paid <- x4, classified <- x5

(* Two strategies, and two users, whose weights do not divide the amounts.  *)
Revenue == INSTANCE RevenueModel WITH
  REWARD_DURATION <- 2, REWARD_PRECISION <- 5, WORD_MAX <- 1000, Strategies <- {"s1", "s2"}, Amounts <- {3},
  Weights <- {0, 2}, MaxTime <- 3, MaxReceived <- 6,
  weights <- x1, strategyIndex <- x2, claimable <- x3, alive <- x4, totalWeight <- x5,
  revenueIndex <- x6, received <- x7, donations <- x8, paid <- x9, balance <- x10,
  routerBalance <- x11, now <- x12, stream <- x13

Rewards == INSTANCE RewardModel WITH
  Users <- {"a", "b"}, Weights <- {0, 1, 2}, Amounts <- {1, 2}, BribeShares <- {0, 5}, RewardsLeft <- {0, 2},
  Precision <- 5, SettlementBps <- 10, DefaultBribeBps <- 3, MaxPaid <- 3,
  bribeBps <- x1, fundReceived <- x2, routerBalance <- x3, weights <- x4, userIndex <- x5,
  accrued <- x6, rewardIndex <- x7, received <- x8, spent <- x9, leastFund <- x10

-----------------------------------------------------------------------------
(* One panel under a preference that changes and a page started twice; two  *)
(* panels, of which one may throw, under a steady one.                      *)
Restarts == INSTANCE Harness WITH
  Sims <- {"p1"}, Throwing <- {}, Preferences <- BOOLEAN, MaxStarts <- 2,
  mode <- x1, starts <- x2, reduced <- x3, place <- x4, sims <- x5, visible <- x6, seen <- x7,
  lastSeen <- x8, watched <- x9, awaited <- x10, told <- x11, pending <- x12, sighted <- x13,
  shown <- x14, stepped <- x15, rewound <- x16, going <- x17, due <- x18, spent <- x19

Panels == INSTANCE Harness WITH
  Sims <- {"p1", "p2"}, Throwing <- {"p2"}, Preferences <- {FALSE}, MaxStarts <- 1,
  mode <- x1, starts <- x2, reduced <- x3, place <- x4, sims <- x5, visible <- x6, seen <- x7,
  lastSeen <- x8, watched <- x9, awaited <- x10, told <- x11, pending <- x12, sighted <- x13,
  shown <- x14, stepped <- x15, rewound <- x16, going <- x17, due <- x18, spent <- x19

(* Lots of two sizes and the ruler of the page.                             *)
Auction == INSTANCE AuctionPanel WITH
  Payments <- {90, 130}, CAP0 <- 1000, MaxEpoch <- 18,
  phase <- x1, u <- x2, epoch <- x3, fundTotal <- x4, fundShown <- x5, cap <- x6, capTo <- x7,
  capShown <- x8, payFund0 <- x9, payCap0 <- x10

(* Three Strategies of 5,000, 3,500 and 2,500 GBX, lots of 1,000 and 2,000. *)
Stakes == INSTANCE ResonancePanel WITH
  Assets <- 0 .. 2, STRATEGIES <- 0 :> 10 @@ 1 :> 7 @@ 2 :> 5, LOTS <- {4}, SCRIPTED_LOT <- 4, Spare <- 1,
  stage <- x1, left <- x2, target <- x3, stake <- x4, moved <- x5, dwell <- x6, nextMove <- x7

(* The fund's board with its burns.                                         *)
Burns == INSTANCE LiveBoards WITH
  Boards <- {"fund"}, Fund <- "fund", Shares <- {5}, BurnFrames <- 2, InitialAmount <- 3,
  MaxAmount <- 4, MaxBurns <- 2, BurnsOverlap <- FALSE,
  reduced <- x1, announced <- x2, pinned <- x3, stage <- x4, effects <- x5, inView <- x6,
  entries <- x7, onScreen <- x8, activeRef <- x9, visible <- x10, motion <- x11, frame <- x12,
  scheduled <- x13, parity <- x14, amount <- x15, leaving <- x16, progress <- x17, playing <- x18,
  receipt <- x19, owed <- x20, burns <- x21

(* Two Strategies; amounts divide by 4 (duration and weight) four times.    *)
Flow == INSTANCE LiveFlow WITH
  Strategies <- {"s1", "s2"}, InitialWeight <- "s1" :> 3 @@ "s2" :> 1, Lots <- {2}, MIN_WEIGHT <- 0,
  DURATION <- 4, ATTEMPT <- 2, INFLOW <- 256, Fills <- {2, 3}, Shifts <- {2, 3}, Steps <- {1, 2, 3},
  MaxTime <- 7, MaxRoutes <- 3,
  t <- x1, weight <- x2, pot <- x3, epochStartedAt <- x4, fillAt <- x5, pending <- x6, rate <- x7,
  finish <- x8, nextRouteAttempt <- x9, nextShift <- x10, routes <- x11, credited <- x12,
  sold <- x13

(* Two slots; an hour is 20, and the rate halves at 7 and 14.               *)
Slots == INSTANCE LiveMine WITH
  Slots <- {1, 2}, INITIAL_RATE <- 4, TAIL_RATE <- 1, HALVING <- 7, DECAY <- 20, DWELL <- 1,
  MIN_PRICE <- 10, MULTIPLIER <- 2, OpeningPrices <- {20, 90}, OpeningAges <- {0, 17}, Reserves <- {25, 80},
  Steps <- {1, 2}, MaxTime <- 15,
  t <- x1, slots <- x2, minted <- x3, toMiners <- x4, toResonance <- x5, settled <- x6

(* Three bays; in half seconds, frames of two and a half seconds and    *)
(* substeps of at most one and a half.                                      *)
Grammar == INSTANCE FlowGrammar WITH
  Bays <- {1, 2, 3}, Weights <- {7, 20}, FrameTimes <- {5}, MAX_SUB <- 3, MaxCycles <- 1,
  t <- x1, cycle <- x2, inCycle <- x3, chargedIn <- x4, held <- x5, bay <- x6, claimedOut <- x7,
  burned <- x8, left <- x9

(* Layouts of eight and ten cells; a burn is marked for two frames and   *)
(* lasts three, an arrival flies for four.  Once resized, once not.         *)
Vessel == INSTANCE OverviewVessel WITH
  CYCLE <- 16, Starts <- <<0, 1, 2, 3, 4>>, FUND_AT <- 3, MARK_AT <- 4, BURN_AT <- 6, BURN_TIME <- 3, FLIGHT <- 4,
  EMIT_GAP <- 1, SETTLE <- 1, DRAIN <- 2, MAX_PENDING <- 3, Caps <- {8, 10}, Lots <- {0, 2}, MayReduce <- TRUE,
  MayResize <- TRUE,
  cap <- x1, t <- x2, marked <- x3, struck <- x4, burnP <- x5, frac <- x6, pile <- x7, occ <- x8,
  emitPend <- x9, emitCd <- x10, outs <- x11, next <- x12, posed <- x13, reduced <- x14,
  painted <- x15, burned <- x16, stays <- x17

SteadyVessel == INSTANCE OverviewVessel WITH
  CYCLE <- 16, Starts <- <<0, 1, 2, 3, 4>>, FUND_AT <- 3, MARK_AT <- 4, BURN_AT <- 6, BURN_TIME <- 3, FLIGHT <- 4,
  EMIT_GAP <- 1, SETTLE <- 1, DRAIN <- 2, MAX_PENDING <- 3, Caps <- {8, 10}, Lots <- {0, 2}, MayReduce <- TRUE,
  MayResize <- FALSE,
  cap <- x1, t <- x2, marked <- x3, struck <- x4, burnP <- x5, frac <- x6, pile <- x7, occ <- x8,
  emitPend <- x9, emitCd <- x10, outs <- x11, next <- x12, posed <- x13, reduced <- x14,
  painted <- x15, burned <- x16, stays <- x17

(* Three slots, a deposit of one unit a take, frames shorter than a take   *)
(* is drawn, two seeds, of which either may be a still.                    *)
Plate == INSTANCE PlateMachine WITH
  SLOTS <- 3, TS <- 1, DECAY <- 16, DWELL <- 2, MARGIN <- 3, Gaps <- {2, 3}, TAKE_FADE <- 2,
  ROUTE_OPEN <- 1, Waits <- {4, 5}, MAX_QUEUED <- 4, Payments <- {5}, WarmDeposits <- 1, OpeningAges <- {0, 4}, Frames <- {1},
  PRE <- 1, PRE_ROLL <- 2, STILL <- 2, STILLS <- 2, MaxTime <- 13, MaxSeeds <- 2,
  mode <- x1, left <- x2, still <- x3, seeds <- x4, t <- x5, slots <- x6, sched <- x7,
  routerDeposits <- x8, totalMined <- x9, emis <- x10, packets <- x11, queued <- x12, router <- x13

-----------------------------------------------------------------------------
(* What every part takes for granted of its constants. *)
ASSUME OperationsAssumption ==
  /\ Launched!LaunchConstants
  /\ Stock!StockCandidateAssumption /\ LossyStock!StockCandidateAssumption
  /\ OnePreflight!PreflightAssumption /\ TwoPreflights!PreflightAssumption
  /\ Manifest!ReleaseManifestAssumption /\ RecordedGraph!ReleaseManifestAssumption
  /\ Pin!PinnedEvidenceAssumption /\ Bytecode!PinnedEvidenceAssumption /\ Fork!PinnedEvidenceAssumption
  /\ Bridge!BridgeAssumption /\ FlawedBridge!BridgeAssumption
  /\ Gate!ContainerGateAssumption
  /\ Registry!RevalidationAssumption /\ TwoRevalidations!RevalidationAssumption
  /\ Reads!BlockReadsAssumption /\ PairedReads!BlockReadsAssumption
  /\ Quotes!GBXAssumption /\ Quotes!MineConstants /\ Quotes!MineAddresses
  /\ \A c \in Curves : Schedules!ValidCurve(c)
  /\ Rewards!RewardModelAssumption
  /\ Restarts!HarnessAssumption /\ Panels!HarnessAssumption /\ Auction!AuctionPanelAssumption
  /\ Stakes!ResonancePanelAssumption /\ Burns!LiveBoardsAssumption
  /\ Flow!LiveFlowAssumption /\ Slots!LiveMineAssumption /\ Grammar!FlowGrammarAssumption
  /\ Vessel!OverviewVesselAssumption /\ SteadyVessel!OverviewVesselAssumption
  /\ Plate!PlateMachineAssumption

(* The variables that a part with n of its own leaves at zero, and unchanged. *)
Rest4 == <<part, x5, x6, x7, x8, x9, x10, x11, x12, x13, x14, x15, x16, x17, x18, x19, x20, x21>>
Rest5 == <<part, x6, x7, x8, x9, x10, x11, x12, x13, x14, x15, x16, x17, x18, x19, x20, x21>>
Rest6 == <<part, x7, x8, x9, x10, x11, x12, x13, x14, x15, x16, x17, x18, x19, x20, x21>>
Rest7 == <<part, x8, x9, x10, x11, x12, x13, x14, x15, x16, x17, x18, x19, x20, x21>>
Rest8 == <<part, x9, x10, x11, x12, x13, x14, x15, x16, x17, x18, x19, x20, x21>>
Rest9 == <<part, x10, x11, x12, x13, x14, x15, x16, x17, x18, x19, x20, x21>>
Rest10 == <<part, x11, x12, x13, x14, x15, x16, x17, x18, x19, x20, x21>>
Rest13 == <<part, x14, x15, x16, x17, x18, x19, x20, x21>>
Rest17 == <<part, x18, x19, x20, x21>>
Rest19 == <<part, x20, x21>>

Blank19 == x20 = 0 /\ x21 = 0
Blank17 == x18 = 0 /\ x19 = 0 /\ Blank19
Blank13 == x14 = 0 /\ x15 = 0 /\ x16 = 0 /\ x17 = 0 /\ Blank17
Blank10 == x11 = 0 /\ x12 = 0 /\ x13 = 0 /\ Blank13
Blank9 == x10 = 0 /\ Blank10
Blank8 == x9 = 0 /\ Blank9
Blank7 == x8 = 0 /\ Blank8
Blank6 == x7 = 0 /\ Blank7
Blank5 == x6 = 0 /\ Blank6
Blank4 == x5 = 0 /\ Blank5

Init ==
  \/ part = "launch" /\ Launched!Init /\ Blank8
  \/ part = "stock" /\ Stock!Init /\ Blank8
  \/ part = "lossy stock" /\ LossyStock!Init /\ Blank8
  \/ part = "preflight" /\ OnePreflight!Init /\ Blank10
  \/ part = "preflights" /\ TwoPreflights!Init /\ Blank10
  \/ part = "manifest" /\ Manifest!Init /\ Blank7
  \/ part = "graph" /\ RecordedGraph!Init /\ Blank7
  \/ part = "pin" /\ Pin!Init /\ Blank6
  \/ part = "bytecode" /\ Bytecode!Init /\ Blank6
  \/ part = "fork" /\ Fork!Init /\ Blank6
  \/ part = "bridge" /\ Bridge!Init /\ Blank5
  \/ part = "flawed bridge" /\ FlawedBridge!Init /\ Blank5
  \/ part = "gate" /\ Gate!Init /\ Blank7
  \/ part = "registry" /\ Registry!Init /\ Blank9
  \/ part = "registries" /\ TwoRevalidations!Init /\ Blank9
  \/ part = "reads" /\ Reads!Init /\ Blank5
  \/ part = "paired reads" /\ PairedReads!Init /\ Blank5
  \/ part = "signals" /\ Signals!Init /\ Blank4
  \/ part = "money" /\ Money!Init /\ Blank4
  \/ part = "bribed" /\ Bribed!Init /\ Blank4
  \/ part = "quotes" /\ Quotes!QInit /\ Blank19
  \/ part = "plans" /\ Plans!Init /\ Blank6
  \/ part = "schedules" /\ Schedules!Init /\ Blank5
  \/ part = "revenue" /\ Revenue!Init /\ Blank13
  \/ part = "rewards" /\ Rewards!Init /\ Blank10
  \/ part = "restarts" /\ Restarts!Init /\ Blank19
  \/ part = "panels" /\ Panels!Init /\ Blank19
  \/ part = "auction" /\ Auction!Init /\ Blank10
  \/ part = "stakes" /\ Stakes!Init /\ Blank7
  \/ part = "burns" /\ Burns!Init
  \/ part = "flow" /\ Flow!Init /\ Blank13
  \/ part = "slots" /\ Slots!Init /\ Blank6
  \/ part = "grammar" /\ Grammar!Init /\ Blank9
  \/ part = "plate" /\ Plate!Init /\ Blank13
  \/ part = "vessel" /\ Vessel!Init /\ Blank17
  \/ part = "steady vessel" /\ SteadyVessel!Init /\ Blank17

LaunchedSteps == part = "launch" /\ Launched!Next /\ UNCHANGED Rest8
StockSteps == part = "stock" /\ Stock!Next /\ UNCHANGED Rest8
LossyStockSteps == part = "lossy stock" /\ LossyStock!Next /\ UNCHANGED Rest8
OnePreflightSteps == part = "preflight" /\ OnePreflight!Next /\ UNCHANGED Rest10
TwoPreflightsSteps == part = "preflights" /\ TwoPreflights!Next /\ UNCHANGED Rest10
ManifestSteps == part = "manifest" /\ Manifest!Next /\ UNCHANGED Rest7
RecordedGraphSteps == part = "graph" /\ RecordedGraph!Next /\ UNCHANGED Rest7
PinSteps == part = "pin" /\ Pin!Next /\ UNCHANGED Rest6
BytecodeSteps == part = "bytecode" /\ Bytecode!Next /\ UNCHANGED Rest6
ForkSteps == part = "fork" /\ Fork!Next /\ UNCHANGED Rest6
BridgeSteps == part = "bridge" /\ Bridge!Next /\ UNCHANGED Rest5
FlawedBridgeSteps == part = "flawed bridge" /\ FlawedBridge!Next /\ UNCHANGED Rest5
GateSteps == part = "gate" /\ Gate!Next /\ UNCHANGED Rest7
RegistrySteps == part = "registry" /\ Registry!Next /\ UNCHANGED Rest9
TwoRevalidationsSteps == part = "registries" /\ TwoRevalidations!Next /\ UNCHANGED Rest9
ReadsSteps == part = "reads" /\ Reads!Next /\ UNCHANGED Rest5
PairedReadsSteps == part = "paired reads" /\ PairedReads!Next /\ UNCHANGED Rest5
SignalsSteps == part = "signals" /\ Signals!Next /\ UNCHANGED Rest4
MoneySteps == part = "money" /\ Money!Next /\ UNCHANGED Rest4
BribedSteps == part = "bribed" /\ Bribed!Next /\ UNCHANGED Rest4
QuotesSteps == part = "quotes" /\ Quotes!QNext /\ UNCHANGED Rest19
PlansSteps == part = "plans" /\ Plans!Next /\ UNCHANGED Rest6
SchedulesSteps == part = "schedules" /\ Schedules!Next /\ UNCHANGED Rest5
RevenueSteps == part = "revenue" /\ Revenue!Next /\ UNCHANGED Rest13
RewardsSteps == part = "rewards" /\ Rewards!Next /\ UNCHANGED Rest10
RestartsSteps == part = "restarts" /\ Restarts!Next /\ UNCHANGED Rest19
PanelsSteps == part = "panels" /\ Panels!Next /\ UNCHANGED Rest19
AuctionSteps == part = "auction" /\ Auction!Next /\ UNCHANGED Rest10
StakesSteps == part = "stakes" /\ Stakes!Next /\ UNCHANGED Rest7
BurnsSteps == part = "burns" /\ Burns!Next /\ UNCHANGED part
FlowSteps == part = "flow" /\ Flow!Next /\ UNCHANGED Rest13
SlotsSteps == part = "slots" /\ Slots!Next /\ UNCHANGED Rest6
GrammarSteps == part = "grammar" /\ Grammar!Next /\ UNCHANGED Rest9
PlateSteps == part = "plate" /\ Plate!Next /\ UNCHANGED Rest13
VesselSteps == part = "vessel" /\ Vessel!Next /\ UNCHANGED Rest17
SteadyVesselSteps == part = "steady vessel" /\ SteadyVessel!Next /\ UNCHANGED Rest17

Next ==
  \/ LaunchedSteps
  \/ StockSteps
  \/ LossyStockSteps
  \/ OnePreflightSteps
  \/ TwoPreflightsSteps
  \/ ManifestSteps
  \/ RecordedGraphSteps
  \/ PinSteps
  \/ BytecodeSteps
  \/ ForkSteps
  \/ BridgeSteps
  \/ FlawedBridgeSteps
  \/ GateSteps
  \/ RegistrySteps
  \/ TwoRevalidationsSteps
  \/ ReadsSteps
  \/ PairedReadsSteps
  \/ SignalsSteps
  \/ MoneySteps
  \/ BribedSteps
  \/ QuotesSteps
  \/ PlansSteps
  \/ SchedulesSteps
  \/ RevenueSteps
  \/ RewardsSteps
  \/ RestartsSteps
  \/ PanelsSteps
  \/ AuctionSteps
  \/ StakesSteps
  \/ BurnsSteps
  \/ FlowSteps
  \/ SlotsSteps
  \/ GrammarSteps
  \/ PlateSteps
  \/ VesselSteps
  \/ SteadyVesselSteps

Spec == Init /\ [][Next]_all

-----------------------------------------------------------------------------
(* Every part's state keeps its types, the bounds of its queues, marks,    *)
(* prices and clocks among them, and what is accepted was read in full.    *)
TypeInvariant ==
  /\ part = "launch" => Launched!TypeOK
  /\ part = "stock" => Stock!TypeOK
  /\ part = "lossy stock" => LossyStock!TypeOK
  /\ part = "preflight" => OnePreflight!TypeOK
  /\ part = "preflights" => TwoPreflights!TypeOK
  /\ part = "manifest" => Manifest!TypeOK
  /\ part = "graph" => RecordedGraph!TypeOK
  /\ part = "reads" => Reads!TypeOK
  /\ part = "paired reads" => PairedReads!TypeOK
  /\ part = "restarts" => Restarts!HarnessTypeOK
  /\ part = "panels" => Panels!HarnessTypeOK
  /\ part = "auction" => Auction!AuctionTypeOK
  /\ part = "stakes" => Stakes!ResonancePanelTypeOK
  /\ part = "burns" => Burns!LiveBoardsTypeOK
  /\ part = "flow" => Flow!LiveFlowTypeOK
  /\ part = "slots" => Slots!LiveMineTypeOK
  /\ part = "grammar" => Grammar!FlowGrammarTypeOK
  /\ part = "plate" => Plate!PlateMachineTypeOK
  /\ part = "vessel" => Vessel!OverviewVesselTypeOK
  /\ part = "steady vessel" => SteadyVessel!OverviewVesselTypeOK

(* Evidence of a chain is of one block of it, buried deep enough, and what *)
(* was read at that block: the nightly pin, the fork's confirmations and   *)
(* the bridge, whatever is reorganised between two reads; and the accounts *)
(* of the bridge that is accepted are under one control plane.             *)
EvidenceIsOfOneBlock ==
  /\ part = "pin" => Pin!PinIsBuried
  /\ part = "bytecode" => Bytecode!BytecodeIsOfThatBlock
  /\ part = "fork" => Fork!ConfirmationsAreReal
  /\ part = "bridge" => Bridge!FactsAreOfOneBlock
  /\ part = "flawed bridge" => FlawedBridge!OneControlPlane

(* Every controller the asset manifest records has control at its block,   *)
(* even from an endpoint that omits events, and, from one that does not,   *)
(* all who have it are recorded, over pages that cover all of history.     *)
ManifestIsOfTheAsset ==
  /\ part = "stock" => Stock!RecordedControlsAreReal /\ Stock!ControlsAreComplete /\ Stock!PagesCoverHistory
  /\ part = "lossy stock" => LossyStock!RecordedControlsAreReal

(* Nothing is reserved or accepted but what those who must have signed: a  *)
(* reservation, what enough signers of the committed policy signed, with   *)
(* one consumer, whatever is edited while it is checked; a manifest, what  *)
(* every role signed and is committed, and deploys one graph of contracts. *)
ApprovalsAreSigned ==
  /\ part = "preflight" => OnePreflight!ReceiptsHoldWhatWasSigned /\ OnePreflight!AuthorizedByCommittedPolicy
  /\ part = "preflights" => TwoPreflights!ReceiptsHoldWhatWasSigned /\ TwoPreflights!OneConsumer
  /\ part = "manifest" => Manifest!ApprovedByEveryRole /\ Manifest!AcceptedIsCommitted
  /\ part = "graph" => RecordedGraph!DeploymentIsOneGraph

(* A scan that passes is of the image whose id the smoke evidence it read  *)
(* names, and that image has no blocked package.  What was probed is what  *)
(* the tag meant when it was run (container-smoke.mjs:287), so another one *)
(* if the tag moved; and a later smoke run may have begun meanwhile.  A    *)
(* revalidation that is accepted is of its commit and of a registry        *)
(* archived with it.                                                       *)
EvidenceIsOfTheBuild ==
  /\ part = "gate" => Gate!SmokeIsOfTheLastRun /\ Gate!PassedIsOneImage /\ Gate!PassedIsClean
  /\ part = "registry" => Registry!AcceptedIsOfTheCommit
  /\ part = "registries" => TwoRevalidations!ArtifactHasItsArchive

(* What a client reads is of one block, and of the chain.  A view that is  *)
(* returned has every fact in it from the block it is pinned to, and views *)
(* taken with one expected hash are of one block, whatever is reorganised  *)
(* between their reads; the subgraph's entities at a block are the         *)
(* contracts' state in it, and its index holds every position.             *)
ReadsAreOfTheChain ==
  /\ part = "reads" => Reads!ViewsAreOfOneBlock
  /\ part = "paired reads" => PairedReads!ViewsAreOfOneBlock /\ PairedReads!ExpectedHashBinds
  /\ part = "money" => Money!EntitiesAreProjection
  /\ part = "bribed" => Bribed!EntitiesAreProjection
  /\ part = "signals" => Signals!EntitiesAreProjection /\ Signals!PositionsDiscoverable

(* What is computed off the chain is what the contracts do: the SDK's      *)
(* quotes, what the Mine charges, assigns and owes; a plan's calls, what   *)
(* its rows say, within the allowance that was read; the simulations'      *)
(* closed forms, what is issued and classified second by second.           *)
ClientsComputeTheSame ==
  /\ part = "quotes" => Quotes!QuotesMatchMine
  /\ part = "plans" => Plans!AllowanceCoversPlan /\ Plans!ExecutedAsEntered /\ Plans!NoRedundantCheckpoints
  /\ part = "schedules" => Schedules!SchedulesAgree /\ Schedules!PartitionFavoursFund

(* The books of every model balance, those of the simulations and those    *)
(* behind the figures, and none runs that the reader has not seen or that  *)
(* is to begin anew, in any sequence of operations, frames, resizes,       *)
(* absences, changes of the reader's preference, and burns taken one at a  *)
(* time: of two that overlap, the first does not leave whole               *)
(* (live-sim.ts:482).                                                      *)
ModelsKeepTheirBooks ==
  /\ part = "revenue" => Revenue!SurplusCoversDonations /\ Revenue!BooksBalance
  /\ part = "rewards" => Rewards!RewardsNeverExceedReceived /\ Rewards!PaymentsConserved
  /\ part = "restarts" => Restarts!NothingRunsBeforeItIsSeen /\ Restarts!ReturnsAfresh
  /\ part = "panels" => Panels!NothingRunsBeforeItIsSeen /\ Panels!ReturnsAfresh
  /\ part = "auction" => Auction!PileFits
  /\ part = "stakes" => Stakes!HoldReallyHolds /\ Stakes!StakeIsConserved
  /\ part = "burns" => Burns!OneLoop /\ Burns!SlicesLeaveWhole
  /\ part = "flow" => Flow!FlowBooksBalance
  /\ part = "slots" => Slots!MintedIsTenures
  /\ part = "grammar" => Grammar!GrammarBalances /\ Grammar!EachCycleClears /\ Grammar!VesselFits
  /\ part = "plate" => Plate!RouterInventsNothing /\ Plate!StaircaseIsTheTally
  /\ part = "vessel" => Vessel!SolidRun
  /\ part = "steady vessel" => SteadyVessel!SolidRun

(* What others do in between does not change what a launch deploys or an   *)
(* order is filled at: a launch that succeeds leaves a graph nobody has    *)
(* touched, and only what is at the predicted pair, a callback or an empty *)
(* wallet makes it fail; an order that fills has the miner, the price and  *)
(* the rate its client was shown; no output of a revalidation is replaced  *)
(* by that of another one.                                                 *)
OutsidersChangeNothing ==
  [][/\ part = "launch" => Launched!LaunchesUntouched /\ Launched!RevertsForThePair
     /\ part = "quotes" => Quotes!FilledAsQuoted
     /\ part = "registries" => TwoRevalidations!KeepsArtifacts]_all

(* No step of a model does to a stream, a weight or a figure what only the *)
(* contracts' kernel, a script or a standing position may do: pay by a     *)
(* weight that came later, rewind a panel in view, call one that has       *)
(* thrown, lower a pile, let two moves overlap, take a slot for nothing    *)
(* or one that is not lit, move a sphere that survives, leave a burn out.  *)
ModelsMoveByTheScript ==
  [][/\ part = "revenue" => Revenue!FollowsTheKernel
     /\ part = "rewards" => Rewards!WeightsActForward
     /\ part = "panels" => Panels!NeverRewoundInView /\ Panels!ThrowingIsQuarantined
     /\ part = "auction" => Auction!PileNeverFalls
     /\ part = "stakes" => Stakes!MovesNeverOverlap /\ Stakes!ScriptedMoveFires
     /\ part = "flow" => Flow!SplitByStandingSignal
     /\ part = "slots" => Slots!EveryTakePays
     /\ part = "plate" => Plate!LitCardIsTaken
     /\ part = "vessel" => Vessel!SurvivorsStay
     /\ part = "steady vessel" => SteadyVessel!SurvivorsStay /\ SteadyVessel!EveryCycleBurns]_all
=============================================================================
