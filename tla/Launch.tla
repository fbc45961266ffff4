-------------------------------- MODULE Launch --------------------------------
(***************************************************************************)
(* The atomic launcher (launch/GBXLauncher.sol and the four deployers).    *)
(* launch() is one transaction, and it calls two contracts that may call   *)
(* somebody else back: the pair is public from the moment it exists, and   *)
(* USDG may be a token that notifies.  So launch() is four steps, up to    *)
(* USDG's transferFrom, its end, up to the transfer of what the launcher   *)
(* held itself, and the rest; anybody may act in between.  A check that    *)
(* fails reverts them all, and what was done in between with them.         *)
(*                                                                         *)
(* A launcher's addresses follow from its own, so they are known, and may  *)
(* be sent USDG, before anything is deployed; another launcher has others. *)
(* A graph is the contracts of one launcher, of which the model keeps what *)
(* _assertFinalState looks at and an outsider could have changed.          *)
(***************************************************************************)
EXTENDS Integers, FiniteSets

CONSTANTS
  Launchers,         \* deployed launchers, each for one graph of its own
  Governance,        \* the reviewed owner
  Deployer,          \* "the launcher", as an owner
  Nobody,
  GENESIS_USDG, GENESIS_GBX,
  MINIMUM_LIQUIDITY,
  Wallet,            \* USDG of the launch authority
  MaxGiven,          \* bound: USDG units outsiders send to the addresses
  MaxCalls           \* bound: calls of outsiders inside one launch

LaunchConstants ==
  /\ IsFiniteSet(Launchers)
  /\ {GENESIS_USDG, GENESIS_GBX} \subseteq Nat \ {0}
  /\ {MINIMUM_LIQUIDITY, Wallet, MaxGiven, MaxCalls} \subseteq Nat
  /\ GENESIS_GBX * GENESIS_USDG > MINIMUM_LIQUIDITY
  /\ Cardinality({Governance, Deployer, Nobody}) = 3

VARIABLES
  graph,             \* of each launcher: its contracts
  wallet,            \* USDG the authority still has
  step,              \* where the running launch() is, or "none"
  running,           \* the launcher it is of
  saved,             \* what a revert restores
  calls,             \* calls of outsiders inside it
  given,             \* USDG units outsiders have sent
  outcome            \* how the last launch() to end has ended

vars == <<graph, wallet, step, running, saved, calls, given, outcome>>

Places == {"launcher", "fund", "router", "resonance", "pair"}
Steps == {"none", "collecting", "collected", "forwarding"}
Owners == {Governance, Deployer, Nobody}

Graph ==
  [built: BOOLEAN, launched: BOOLEAN, pairExists: BOOLEAN, usdg: [Places -> Nat],
   pairGBX: Nat, otherGBX: Nat, reserveGBX: Nat, reserveUSDG: Nat, lpSupply: Nat, lpLocked: Nat,
   strategies: Nat, tenures: Nat, signal: Nat, notified: Nat,
   setupOwner: Owners, mineOwner: Owners, minePending: Owners, resonanceOwner: Owners, resonancePending: Owners]

TypeOK ==
  /\ graph \in [Launchers -> Graph]
  /\ wallet \in 0 .. Wallet
  /\ step \in Steps
  /\ running \in Launchers
  /\ saved \in [graph: [Launchers -> Graph], wallet: Nat]
  /\ calls \in 0 .. MaxCalls
  /\ given \in 0 .. MaxGiven
  /\ outcome \in {"none", "launched", "reverted"}

NoGraph ==
  [built |-> FALSE, launched |-> FALSE, pairExists |-> FALSE, usdg |-> [p \in Places |-> 0],
   pairGBX |-> 0, otherGBX |-> 0, reserveGBX |-> 0, reserveUSDG |-> 0, lpSupply |-> 0, lpLocked |-> 0,
   strategies |-> 0, tenures |-> 0, signal |-> 0, notified |-> 0,
   setupOwner |-> Nobody, mineOwner |-> Nobody, minePending |-> Nobody,
   resonanceOwner |-> Nobody, resonancePending |-> Nobody]

Init ==
  /\ graph = [l \in Launchers |-> NoGraph]
  /\ wallet = Wallet
  /\ step = "none"
  /\ running \in Launchers
  /\ saved = [graph |-> graph, wallet |-> wallet]
  /\ calls = 0
  /\ given = 0
  /\ outcome = "none"

-----------------------------------------------------------------------------
(* launch(). *)

G == graph[running]

Becomes(g) == graph' = [graph EXCEPT ![running] = g]

Revert ==
  /\ graph' = saved.graph
  /\ wallet' = saved.wallet
  /\ step' = "none"
  /\ outcome' = "reverted"
  /\ UNCHANGED <<running, saved, calls, given>>

Continue(next) == step' = next /\ UNCHANGED <<running, saved, calls, given, outcome>>

(* _deployCore and _bindCore. *)
DeployCore(g) ==
  [g EXCEPT !.built = TRUE, !.setupOwner = Deployer, !.mineOwner = Deployer, !.resonanceOwner = Deployer]

(* The pair is created here or not at all. *)
PairIsFree(l) == ~graph[l].pairExists

(* launch() up to USDG's transferFrom: the whole core, the pair, and the    *)
(* genesis GBX in it.                                                       *)
LaunchBegin(l) ==
  /\ step = "none"
  /\ ~graph[l].launched
  /\ running' = l
  /\ saved' = [graph |-> graph, wallet |-> wallet]
  /\ calls' = 0
  /\ IF PairIsFree(l)
     THEN /\ graph' = [graph EXCEPT ![l] =
                          [DeployCore(graph[l]) EXCEPT !.pairExists = TRUE, !.pairGBX = @ + GENESIS_GBX]]
          /\ step' = "collecting"
          /\ UNCHANGED outcome
     ELSE /\ outcome' = "reverted"
          /\ UNCHANGED <<graph, step>>
  /\ UNCHANGED <<wallet, given>>

(* transferFrom moves the USDG, and may then call somebody.                 *)
Collect ==
  /\ step = "collecting"
  /\ \/ /\ wallet >= GENESIS_USDG
        /\ wallet' = wallet - GENESIS_USDG
        /\ Becomes([G EXCEPT !.usdg["pair"] = @ + GENESIS_USDG])
        /\ Continue("collected")
     \/ wallet < GENESIS_USDG /\ Revert

DepositIsExact(g) == g.usdg["pair"] = GENESIS_USDG

(* The pair's mint(to): what has come in since its reserves were recorded.  *)
(* Of a first deposit the minimum is locked; the model's unit of liquidity  *)
(* is the product.                                                          *)
Minted(g) == (g.pairGBX - g.reserveGBX) * (g.usdg["pair"] - g.reserveUSDG)

GenesisLiquidity == GENESIS_GBX * GENESIS_USDG

MintTo(g, locked) ==
  [g EXCEPT !.reserveGBX = g.pairGBX, !.reserveUSDG = g.usdg["pair"],
            !.lpSupply = @ + Minted(g),
            !.lpLocked = @ + (IF locked THEN Minted(g) ELSE IF g.lpSupply = 0 THEN MINIMUM_LIQUIDITY ELSE 0)]

CanMint(g) == Minted(g) > (IF g.lpSupply = 0 THEN MINIMUM_LIQUIDITY ELSE 0)

SeededPair(g) ==
  /\ g.pairGBX = GENESIS_GBX
  /\ g.usdg["pair"] = GENESIS_USDG
  /\ g.reserveGBX = GENESIS_GBX
  /\ g.reserveUSDG = GENESIS_USDG

LockedLiquidity(g) == g.lpSupply = GenesisLiquidity /\ g.lpLocked = GenesisLiquidity

(* The rest of _createAndSeedPair, _addInitialStrategies, and the transfer  *)
(* that _forwardLauncherUSDG makes if there is anything to forward.         *)
Seed ==
  /\ step = "collected"
  /\ LET seeded == [MintTo(G, TRUE) EXCEPT !.strategies = @ + 2]
     IN  \/ /\ DepositIsExact(G)
            /\ CanMint(G)
            /\ LockedLiquidity(seeded) /\ SeededPair(seeded)
            /\ Becomes([seeded EXCEPT !.usdg["fund"] = @ + G.usdg["launcher"], !.usdg["launcher"] = 0])
            /\ Continue("forwarding")
            /\ UNCHANGED wallet
         \/ /\ ~(DepositIsExact(G) /\ CanMint(G) /\ LockedLiquidity(seeded) /\ SeededPair(seeded))
            /\ Revert

(* _beginGovernanceHandoff. *)
BeginGovernanceHandoff(g) ==
  [g EXCEPT !.setupOwner = Nobody, !.minePending = Governance, !.resonancePending = Governance]

(* What _assertFinalState finds different if somebody interfered: mining,   *)
(* signal, revenue, strategies, custody, the pair's balances, reserves, LP. *)
FinalState(g) ==
  /\ g.tenures = 0
  /\ g.signal = 0
  /\ g.notified = 0
  /\ g.strategies = 2
  /\ g.usdg["launcher"] = 0
  /\ LockedLiquidity(g) /\ SeededPair(g)

LaunchEnd ==
  /\ step = "forwarding"
  /\ \/ /\ FinalState(G)
        /\ Becomes([BeginGovernanceHandoff(G) EXCEPT !.launched = TRUE])
        /\ step' = "none"
        /\ outcome' = "launched"
        /\ UNCHANGED <<wallet, running, saved, calls, given>>
     \/ ~FinalState(G) /\ Revert

-----------------------------------------------------------------------------
(* Outsiders, at any time: inside a launch they are called back, outside of *)
(* one they send transactions.                                              *)

Outside(l, g) ==
  /\ step # "none" => calls < MaxCalls
  /\ calls' = IF step = "none" THEN 0 ELSE calls + 1
  /\ graph' = [graph EXCEPT ![l] = g]
  /\ UNCHANGED <<wallet, step, running, saved, outcome>>

(* USDG for any address of the graph, deployed or not. *)
Give(l, place) ==
  /\ given < MaxGiven
  /\ given' = given + 1
  /\ Outside(l, [graph[l] EXCEPT !.usdg[place] = @ + 1])

(* The pair of a GBX that is not deployed yet. *)
CreatePair(l) ==
  /\ ~graph[l].pairExists
  /\ given < MaxGiven
  /\ given' = given + 1
  /\ Outside(l, [graph[l] EXCEPT !.pairExists = TRUE])

(* Anyone may take what the pair holds beyond its reserves, or be minted    *)
(* liquidity for it.                                                        *)
Skim(l) ==
  LET g == graph[l]
  IN  /\ g.pairExists
      /\ g.pairGBX > g.reserveGBX \/ g.usdg["pair"] > g.reserveUSDG
      /\ Outside(l, [g EXCEPT !.otherGBX = @ + (g.pairGBX - g.reserveGBX), !.pairGBX = g.reserveGBX,
                              !.usdg["pair"] = g.reserveUSDG])
      /\ UNCHANGED given

PairMint(l) ==
  /\ graph[l].pairExists
  /\ CanMint(graph[l])
  /\ Outside(l, MintTo(graph[l], FALSE))
  /\ UNCHANGED given

SendGBX(l) ==
  LET g == graph[l]
  IN  /\ g.otherGBX > 0
      /\ Outside(l, [g EXCEPT !.pairGBX = @ + g.otherGBX, !.otherGBX = 0])
      /\ UNCHANGED given

(* One USDG unit for one GBX. *)
Swap(l) ==
  LET g == graph[l]
  IN  /\ g.lpSupply > 0
      /\ given < MaxGiven
      /\ given' = given + 1
      /\ g.reserveGBX > 1
      /\ (g.reserveGBX - 1) * (g.reserveUSDG + 1) >= g.reserveGBX * g.reserveUSDG
      /\ Outside(l, [g EXCEPT !.usdg["pair"] = @ + 1, !.pairGBX = @ - 1, !.otherGBX = @ + 1,
                              !.reserveGBX = g.pairGBX - 1, !.reserveUSDG = g.usdg["pair"] + 1])

(* Mine.mine of an empty slot; its payment goes to the router.              *)
MineSlot(l) ==
  LET g == graph[l]
  IN  /\ g.built
      /\ given < MaxGiven
      /\ given' = given + 1
      /\ Outside(l, [g EXCEPT !.tenures = @ + 1, !.usdg["router"] = @ + 1])

(* ResonanceRouter.route. *)
Route(l) ==
  LET g == graph[l]
  IN  /\ g.built
      /\ g.usdg["router"] > 0
      /\ Outside(l, [g EXCEPT !.usdg["resonance"] = @ + g.usdg["router"], !.usdg["router"] = 0,
                              !.notified = @ + g.usdg["router"]])
      /\ UNCHANGED given

(* SignalGBX.signal for one of the strategies. *)
Signal(l) ==
  LET g == graph[l]
  IN  /\ g.built /\ g.strategies > 0
      /\ g.otherGBX > 0
      /\ Outside(l, [g EXCEPT !.signal = @ + g.otherGBX, !.otherGBX = 0])
      /\ UNCHANGED given

(* acceptOwnership of the two contracts, separately. *)
AcceptMine(l) ==
  /\ step = "none"
  /\ graph[l].minePending = Governance
  /\ Outside(l, [graph[l] EXCEPT !.mineOwner = Governance, !.minePending = Nobody])
  /\ UNCHANGED given

AcceptResonance(l) ==
  /\ step = "none"
  /\ graph[l].resonancePending = Governance
  /\ Outside(l, [graph[l] EXCEPT !.resonanceOwner = Governance, !.resonancePending = Nobody])
  /\ UNCHANGED given

Launching == (\E l \in Launchers : LaunchBegin(l)) \/ Collect \/ Seed \/ LaunchEnd

Accepting == \E l \in Launchers : AcceptMine(l) \/ AcceptResonance(l)

Next ==
  \/ Launching
  \/ Accepting
  \/ \E l \in Launchers :
       \/ \E place \in Places : Give(l, place)
       \/ CreatePair(l) \/ Skim(l) \/ PairMint(l) \/ SendGBX(l) \/ Swap(l)
       \/ MineSlot(l) \/ Route(l) \/ Signal(l)

(* A launch that has begun ends; the authority goes on to launchers it has  *)
(* not tried, and governance accepts what is pending.  Strong fairness, as  *)
(* no transaction is possible in the middle of another.                     *)
Fairness ==
  /\ WF_vars(Collect) /\ WF_vars(Seed) /\ WF_vars(LaunchEnd)
  /\ \A l \in Launchers :
       SF_vars(LaunchBegin(l)) /\ SF_vars(AcceptMine(l)) /\ SF_vars(AcceptResonance(l))

Spec == Init /\ [][Next]_vars /\ Fairness
-----------------------------------------------------------------------------
(* Correctness. *)

(* A launch that succeeds leaves a graph nobody has touched, whatever was   *)
(* called back: the pair holds the genesis amounts at the genesis price,    *)
(* all of its liquidity is locked, nobody else has GBX, mines or signals.   *)
LaunchesUntouched ==
  \A l \in Launchers : graph'[l].launched /\ ~graph[l].launched =>
    LET g == graph'[l]
    IN  /\ SeededPair(g) /\ LockedLiquidity(g)
        /\ g.otherGBX = 0 /\ g.tenures = 0 /\ g.signal = 0 /\ g.notified = 0
        /\ g.usdg["launcher"] = 0

(* USDG at the predictable addresses does not veto a launch: unless         *)
(* somebody was called back, it fails only for the pair, which was there or *)
(* had been sent something, or because the authority cannot pay.            *)
RevertsForThePair ==
  step # "none" /\ step' = "none" /\ outcome' = "reverted" =>
    calls > 0 \/ saved.graph[running].usdg["pair"] > 0 \/ saved.wallet < GENESIS_USDG

(* If outsiders cannot spoil every launcher, one is launched in the end,    *)
(* and its Mine and its Resonance are governed, both of them.               *)
Governed ==
  \E l \in Launchers :
    graph[l].launched /\ graph[l].mineOwner = Governance /\ graph[l].resonanceOwner = Governance
=============================================================================
