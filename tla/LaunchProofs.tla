----------------------------- MODULE LaunchProofs -----------------------------
(***************************************************************************)
(* Theorems about the launcher, for any number of launchers and outsiders: *)
(* whoever is called back inside a launch, and whatever is sent before it, *)
(* one that succeeds leaves an untouched graph, and one that nobody was    *)
(* called back in fails only for the pair or for the authority's wallet.   *)
(***************************************************************************)
EXTENDS Launch, TLAPS

(* The reserves a pair has recorded are there.                             *)
Held(g) == g.reserveGBX <= g.pairGBX /\ g.reserveUSDG <= g.usdg["pair"]

(* Nothing is deployed but, perhaps, the pair; USDG may be anywhere.       *)
Fresh(g) ==
  /\ ~g.built
  /\ g.pairGBX = 0 /\ g.otherGBX = 0
  /\ g.reserveGBX = 0 /\ g.reserveUSDG = 0
  /\ g.lpSupply = 0 /\ g.lpLocked = 0
  /\ g.strategies = 0 /\ g.tenures = 0 /\ g.signal = 0 /\ g.notified = 0

FreshUnlessLaunched(g) == ~g.launched => Fresh(g)

(* All GBX there is, wherever outsiders take it.                           *)
SupplyOf(g) == g.pairGBX + g.otherGBX + g.signal

(* What an outsider does to a graph.                                       *)
Harmless(g, h) ==
  /\ h \in Graph
  /\ Held(h)
  /\ h.launched = g.launched
  /\ SupplyOf(h) = SupplyOf(g)
  /\ Fresh(g) => Fresh(h)

(* A launch in which nobody has been called back, at its three pauses.     *)
Quiet(g) ==
  g.otherGBX = 0 /\ g.tenures = 0 /\ g.signal = 0 /\ g.notified = 0

Unseeded(g) ==
  /\ g.pairGBX = GENESIS_GBX
  /\ g.reserveGBX = 0 /\ g.reserveUSDG = 0
  /\ g.lpSupply = 0 /\ g.lpLocked = 0 /\ g.strategies = 0

Undisturbed(g) ==
  /\ Quiet(g)
  /\ step = "collecting" =>
       Unseeded(g) /\ wallet = saved.wallet /\ g.usdg["pair"] = saved.graph[running].usdg["pair"]
  /\ step = "collected" =>
       Unseeded(g) /\ g.usdg["pair"] = saved.graph[running].usdg["pair"] + GENESIS_USDG
  /\ step = "forwarding" => FinalState(g)

Between == step = "none" => \A l \in Launchers : FreshUnlessLaunched(graph[l])

Within ==
  step # "none" =>
    /\ saved.wallet <= Wallet
    /\ \A l \in Launchers :
         /\ Held(saved.graph[l]) /\ FreshUnlessLaunched(saved.graph[l])
         /\ graph[l].launched = saved.graph[l].launched
         /\ l # running => FreshUnlessLaunched(graph[l])
    /\ ~G.launched /\ SupplyOf(G) = GENESIS_GBX
    /\ calls = 0 => Undisturbed(G)

LaunchInv ==
  /\ TypeOK
  /\ \A l \in Launchers : Held(graph[l])
  /\ Between
  /\ Within

-----------------------------------------------------------------------------
(* Outsiders are harmless. *)

LEMMA ProductNatural == ASSUME NEW x \in Nat, NEW y \in Nat PROVE x * y \in Nat
OBVIOUS

LEMMA GiveIsHarmless ==
  ASSUME NEW g \in Graph, Held(g), NEW place \in Places
  PROVE  Harmless(g, [g EXCEPT !.usdg[place] = @ + 1])
<1> DEFINE h == [g EXCEPT !.usdg[place] = @ + 1]
<1>1. h \in Graph
  BY DEF Graph
<1>2. Held(h)
  BY DEF Graph, Held, Places
<1>3. h.launched = g.launched /\ SupplyOf(h) = SupplyOf(g)
  BY DEF Graph, SupplyOf
<1>4. Fresh(g) => Fresh(h)
  BY DEF Graph, Fresh
<1> QED
  BY <1>1, <1>2, <1>3, <1>4 DEF Harmless

LEMMA SkimIsHarmless ==
  ASSUME NEW g \in Graph, Held(g)
  PROVE  Harmless(g, [g EXCEPT !.otherGBX = @ + (g.pairGBX - g.reserveGBX),
                               !.pairGBX = g.reserveGBX,
                               !.usdg["pair"] = g.reserveUSDG])
<1> DEFINE h == [g EXCEPT !.otherGBX = @ + (g.pairGBX - g.reserveGBX),
                          !.pairGBX = g.reserveGBX,
                          !.usdg["pair"] = g.reserveUSDG]
<1>1. h \in Graph
  <2>1. g.otherGBX + (g.pairGBX - g.reserveGBX) \in Nat /\ g.reserveGBX \in Nat
    BY DEF Graph, Held
  <2>2. [g.usdg EXCEPT !["pair"] = g.reserveUSDG] \in [Places -> Nat]
    BY DEF Graph
  <2> QED
    BY <2>1, <2>2 DEF Graph
<1>2. Held(h)
  BY DEF Graph, Held, Places
<1>3. h.launched = g.launched /\ SupplyOf(h) = SupplyOf(g)
  BY DEF Graph, SupplyOf
<1>4. Fresh(g) => Fresh(h)
  BY DEF Graph, Fresh
<1> QED
  BY <1>1, <1>2, <1>3, <1>4 DEF Harmless

LEMMA MintIsHarmless ==
  ASSUME LaunchConstants, NEW g \in Graph, Held(g), CanMint(g)
  PROVE  Harmless(g, MintTo(g, FALSE))
<1>1. PICK m \in Nat : m = Minted(g)
  BY ProductNatural DEF Graph, Held, Minted, Places
<1> DEFINE h == MintTo(g, FALSE)
<1>2. h \in Graph
  <2> DEFINE supply == g.lpSupply + m
             locked == g.lpLocked + (IF g.lpSupply = 0 THEN MINIMUM_LIQUIDITY ELSE 0)
  <2>1. supply \in Nat /\ locked \in Nat
    BY DEF Graph, LaunchConstants
  <2>2. g.pairGBX \in Nat /\ g.usdg["pair"] \in Nat
    BY DEF Graph, Places
  <2>3. h = [g EXCEPT !.reserveGBX = g.pairGBX, !.reserveUSDG = g.usdg["pair"],
                      !.lpSupply = supply, !.lpLocked = locked]
    BY <1>1 DEF MintTo, Graph
  <2> HIDE DEF supply, locked, h
  <2> QED
    BY <2>1, <2>2, <2>3 DEF Graph
<1>3. Held(h)
  BY DEF Graph, Held, Places, MintTo
<1>4. h.launched = g.launched /\ SupplyOf(h) = SupplyOf(g)
  BY DEF Graph, SupplyOf, MintTo
<1>5. ~Fresh(g)
  <2> SUFFICES ASSUME Fresh(g) PROVE FALSE
    OBVIOUS
  <2>1. Minted(g) = 0
    BY DEF Graph, Places, Minted, Fresh
  <2> QED
    BY <2>1 DEF CanMint, LaunchConstants, Fresh
<1> QED
  BY <1>2, <1>3, <1>4, <1>5 DEF Harmless

(* Swap, signal and the like move GBX of a pair that has been seeded, or    *)
(* of somebody who has some: neither is there before the deployment.        *)
LEMMA SwapIsHarmless ==
  ASSUME NEW g \in Graph, Held(g), g.lpSupply > 0, g.reserveGBX > 1
  PROVE  Harmless(g, [g EXCEPT !.usdg["pair"] = @ + 1, !.pairGBX = @ - 1, !.otherGBX = @ + 1,
                               !.reserveGBX = g.pairGBX - 1, !.reserveUSDG = g.usdg["pair"] + 1])
<1> DEFINE h == [g EXCEPT !.usdg["pair"] = @ + 1, !.pairGBX = @ - 1, !.otherGBX = @ + 1,
                          !.reserveGBX = g.pairGBX - 1, !.reserveUSDG = g.usdg["pair"] + 1]
<1>1. h \in Graph
  <2>1. g.pairGBX - 1 \in Nat /\ g.otherGBX + 1 \in Nat
    BY DEF Graph, Held
  <2>2. [g.usdg EXCEPT !["pair"] = @ + 1] \in [Places -> Nat] /\ g.usdg["pair"] + 1 \in Nat
    BY DEF Graph, Places
  <2> QED
    BY <2>1, <2>2 DEF Graph
<1>2. Held(h)
  BY DEF Graph, Held, Places
<1>3. h.launched = g.launched /\ SupplyOf(h) = SupplyOf(g)
  BY DEF Graph, SupplyOf
<1>4. ~Fresh(g)
  BY DEF Graph, Fresh
<1> QED
  BY <1>1, <1>2, <1>3, <1>4 DEF Harmless

LEMMA SendIsHarmless ==
  ASSUME NEW g \in Graph, Held(g), g.otherGBX > 0
  PROVE  Harmless(g, [g EXCEPT !.pairGBX = @ + g.otherGBX, !.otherGBX = 0])
<1> DEFINE h == [g EXCEPT !.pairGBX = @ + g.otherGBX, !.otherGBX = 0]
<1>1. h \in Graph
  <2>1. g.pairGBX + g.otherGBX \in Nat
    BY DEF Graph
  <2> QED
    BY <2>1 DEF Graph
<1>2. Held(h) /\ h.launched = g.launched /\ SupplyOf(h) = SupplyOf(g) /\ ~Fresh(g)
  BY DEF Graph, Held, SupplyOf, Fresh
<1> QED
  BY <1>1, <1>2 DEF Harmless

LEMMA SignalIsHarmless ==
  ASSUME NEW g \in Graph, Held(g), g.built
  PROVE  Harmless(g, [g EXCEPT !.signal = @ + g.otherGBX, !.otherGBX = 0])
<1> DEFINE h == [g EXCEPT !.signal = @ + g.otherGBX, !.otherGBX = 0]
<1>1. h \in Graph
  <2>1. g.signal + g.otherGBX \in Nat
    BY DEF Graph
  <2> QED
    BY <2>1 DEF Graph
<1>2. Held(h) /\ h.launched = g.launched /\ SupplyOf(h) = SupplyOf(g) /\ ~Fresh(g)
  BY DEF Graph, Held, SupplyOf, Fresh
<1> QED
  BY <1>1, <1>2 DEF Harmless

LEMMA MineIsHarmless ==
  ASSUME NEW g \in Graph, Held(g), g.built
  PROVE  Harmless(g, [g EXCEPT !.tenures = @ + 1, !.usdg["router"] = @ + 1])
<1> DEFINE h == [g EXCEPT !.tenures = @ + 1, !.usdg["router"] = @ + 1]
<1>1. h \in Graph
  <2>1. g.tenures + 1 \in Nat
    BY DEF Graph
  <2>2. [g.usdg EXCEPT !["router"] = @ + 1] \in [Places -> Nat]
    BY DEF Graph, Places
  <2> QED
    BY <2>1, <2>2 DEF Graph
<1>2. Held(h) /\ h.launched = g.launched /\ SupplyOf(h) = SupplyOf(g) /\ ~Fresh(g)
  BY DEF Graph, Held, SupplyOf, Fresh, Places
<1> QED
  BY <1>1, <1>2 DEF Harmless

LEMMA RouteIsHarmless ==
  ASSUME NEW g \in Graph, Held(g), g.built
  PROVE  Harmless(g, [g EXCEPT !.usdg["resonance"] = @ + g.usdg["router"],
                               !.usdg["router"] = 0,
                               !.notified = @ + g.usdg["router"]])
<1> DEFINE h == [g EXCEPT !.usdg["resonance"] = @ + g.usdg["router"],
                          !.usdg["router"] = 0,
                          !.notified = @ + g.usdg["router"]]
<1>1. h \in Graph
  <2>1. g.notified + g.usdg["router"] \in Nat
    BY DEF Graph, Places
  <2>2. [[g.usdg EXCEPT !["resonance"] = @ + g.usdg["router"]] EXCEPT !["router"] = 0]
          \in [Places -> Nat]
    BY DEF Graph, Places
  <2> QED
    BY <2>1, <2>2 DEF Graph
<1>2. Held(h) /\ h.launched = g.launched /\ SupplyOf(h) = SupplyOf(g) /\ ~Fresh(g)
  BY DEF Graph, Held, SupplyOf, Fresh, Places
<1> QED
  BY <1>1, <1>2 DEF Harmless

(* The pair's creation and a change of owner leave all of it alone.         *)
LEMMA ControlIsHarmless ==
  ASSUME NEW g \in Graph, Held(g)
  PROVE  /\ Harmless(g, [g EXCEPT !.pairExists = TRUE])
         /\ Harmless(g, [g EXCEPT !.mineOwner = Governance, !.minePending = Nobody])
         /\ Harmless(g, [g EXCEPT !.resonanceOwner = Governance, !.resonancePending = Nobody])
<1>1. Harmless(g, [g EXCEPT !.pairExists = TRUE])
  BY DEF Harmless, Graph, Held, SupplyOf, Fresh
<1>2. Harmless(g, [g EXCEPT !.mineOwner = Governance, !.minePending = Nobody])
  BY DEF Harmless, Graph, Held, SupplyOf, Fresh, Owners
<1>3. Harmless(g, [g EXCEPT !.resonanceOwner = Governance, !.resonancePending = Nobody])
  BY DEF Harmless, Graph, Held, SupplyOf, Fresh, Owners
<1> QED
  BY <1>1, <1>2, <1>3

(* A step of somebody else, whichever it is, is one of these.               *)
Interference ==
  \E l \in Launchers, h \in Graph :
    Outside(l, h) /\ Harmless(graph[l], h) /\ given' \in 0 .. MaxGiven

Others ==
  \E l \in Launchers :
    \/ \E place \in Places : Give(l, place)
    \/ CreatePair(l) \/ Skim(l) \/ PairMint(l) \/ SendGBX(l) \/ Swap(l)
    \/ MineSlot(l) \/ Route(l) \/ Signal(l)

LEMMA OthersInterfere ==
  ASSUME LaunchConstants, LaunchInv, Others \/ Accepting
  PROVE  Interference
<1>1. /\ \A l \in Launchers : graph[l] \in Graph /\ Held(graph[l])
      /\ given \in 0 .. MaxGiven /\ MaxGiven \in Nat
  BY DEF LaunchInv, TypeOK, LaunchConstants
<1>2. given' \in 0 .. MaxGiven
  <2>1. given' = given \/ (given < MaxGiven /\ given' = given + 1)
    BY DEF Others, Accepting, Give, CreatePair, Skim, PairMint, SendGBX, Swap, MineSlot, Route,
           Signal, AcceptMine, AcceptResonance
  <2> QED
    BY <1>1, <2>1
<1>3. \E l \in Launchers : \E h \in Graph : Outside(l, h) /\ Harmless(graph[l], h)
  <2>1. CASE Others
    <3>1. PICK l \in Launchers :
            \/ \E place \in Places : Give(l, place)
            \/ CreatePair(l) \/ Skim(l) \/ PairMint(l) \/ SendGBX(l) \/ Swap(l)
            \/ MineSlot(l) \/ Route(l) \/ Signal(l)
      BY <2>1 DEF Others
    <3>2. graph[l] \in Graph /\ Held(graph[l])
      BY <1>1
    <3>3. \A h : Harmless(graph[l], h) => h \in Graph
      BY DEF Harmless
    <3>4. CASE \E place \in Places : Give(l, place)
      BY <3>2, <3>3, <3>4, GiveIsHarmless DEF Give
    <3>5. CASE CreatePair(l)
      BY <3>2, <3>3, <3>5, ControlIsHarmless DEF CreatePair
    <3>6. CASE Skim(l)
      BY <3>2, <3>3, <3>6, SkimIsHarmless DEF Skim
    <3>7. CASE PairMint(l)
      BY <3>2, <3>3, <3>7, MintIsHarmless DEF PairMint
    <3>8. CASE SendGBX(l)
      BY <3>2, <3>3, <3>8, SendIsHarmless DEF SendGBX
    <3>9. CASE Swap(l)
      BY <3>2, <3>3, <3>9, SwapIsHarmless DEF Swap
    <3>10. CASE MineSlot(l)
      BY <3>2, <3>3, <3>10, MineIsHarmless DEF MineSlot
    <3>11. CASE Route(l)
      BY <3>2, <3>3, <3>11, RouteIsHarmless DEF Route
    <3>12. CASE Signal(l)
      BY <3>2, <3>3, <3>12, SignalIsHarmless DEF Signal
    <3> QED
      BY <3>1, <3>4, <3>5, <3>6, <3>7, <3>8, <3>9, <3>10, <3>11, <3>12
  <2>2. CASE Accepting
    <3>1. PICK l \in Launchers : AcceptMine(l) \/ AcceptResonance(l)
      BY <2>2 DEF Accepting
    <3>2. graph[l] \in Graph /\ Held(graph[l])
      BY <1>1
    <3>3. \A h : Harmless(graph[l], h) => h \in Graph
      BY DEF Harmless
    <3> QED
      BY <3>1, <3>2, <3>3, ControlIsHarmless DEF AcceptMine, AcceptResonance
  <2> QED
    BY <2>1, <2>2
<1> QED
  BY <1>2, <1>3 DEF Interference

-----------------------------------------------------------------------------
(* What every step keeps. *)

LEMMA InterferenceKeeps ==
  ASSUME LaunchConstants, LaunchInv, Interference
  PROVE  LaunchInv' /\ \A l \in Launchers : graph'[l].launched = graph[l].launched
<1>1. PICK l \in Launchers, h \in Graph :
        Outside(l, h) /\ Harmless(graph[l], h) /\ given' \in 0 .. MaxGiven
  BY DEF Interference
<1>2. /\ graph' = [graph EXCEPT ![l] = h]
      /\ graph \in [Launchers -> Graph]
      /\ wallet' = wallet /\ step' = step /\ running' = running /\ saved' = saved
      /\ outcome' = outcome
      /\ step = "none" => calls' = 0
      /\ step # "none" => calls < MaxCalls /\ calls' = calls + 1
  BY <1>1 DEF Outside, LaunchInv, TypeOK
<1>3. \A k \in Launchers :
        /\ graph'[k] = IF k = l THEN h ELSE graph[k]
        /\ graph'[k].launched = graph[k].launched
  BY <1>1, <1>2 DEF Harmless
<1>4. TypeOK'
  <2>1. calls' \in 0 .. MaxCalls
    BY <1>2 DEF LaunchInv, TypeOK, LaunchConstants
  <2> QED
    BY <1>1, <1>2, <2>1 DEF LaunchInv, TypeOK
<1>5. \A k \in Launchers : Held(graph'[k])
  BY <1>1, <1>3 DEF Harmless, LaunchInv
<1>6. \A k \in Launchers : FreshUnlessLaunched(graph[k]) => FreshUnlessLaunched(graph'[k])
  BY <1>1, <1>3 DEF Harmless, FreshUnlessLaunched
<1>7. Between'
  BY <1>2, <1>6 DEF LaunchInv, Between
<1>8. Within'
  <2> SUFFICES ASSUME step # "none" PROVE Within'
    BY <1>2 DEF Within
  <2>1. running \in Launchers /\ calls' # 0
    BY <1>2 DEF LaunchInv, TypeOK
  <2>2. ~G'.launched /\ SupplyOf(G') = GENESIS_GBX
    BY <1>1, <1>2, <1>3, <2>1 DEF LaunchInv, Within, Harmless, G
  <2>3. \A k \in Launchers :
          /\ Held(saved'.graph[k]) /\ FreshUnlessLaunched(saved'.graph[k])
          /\ graph'[k].launched = saved'.graph[k].launched
          /\ k # running' => FreshUnlessLaunched(graph'[k])
    BY <1>2, <1>3, <1>6 DEF LaunchInv, Within
  <2> QED
    BY <1>2, <2>1, <2>2, <2>3 DEF LaunchInv, Within
<1> QED
  BY <1>3, <1>4, <1>5, <1>7, <1>8 DEF LaunchInv

LEMMA RevertKeeps ==
  ASSUME LaunchInv, step # "none", Revert
  PROVE  LaunchInv' /\ \A l \in Launchers : graph'[l].launched = graph[l].launched
<1>1. /\ graph' = saved.graph /\ wallet' = saved.wallet /\ step' = "none"
      /\ outcome' = "reverted"
      /\ running' = running /\ saved' = saved /\ calls' = calls /\ given' = given
  BY DEF Revert
<1>2. TypeOK'
  <2>1. wallet' \in 0 .. Wallet
    BY <1>1 DEF LaunchInv, TypeOK, Within
  <2> QED
    BY <1>1, <2>1 DEF LaunchInv, TypeOK, Steps
<1> QED
  BY <1>1, <1>2 DEF LaunchInv, Within, Between

(* The graph as LaunchBegin leaves it. *)
LEMMA BegunGraph ==
  ASSUME LaunchConstants, NEW g \in Graph, ~g.launched, Fresh(g),
         NEW h, h = [DeployCore(g) EXCEPT !.pairExists = TRUE, !.pairGBX = @ + GENESIS_GBX]
  PROVE  /\ h \in Graph /\ Held(h)
         /\ h.launched = g.launched /\ SupplyOf(h) = GENESIS_GBX
         /\ Quiet(h) /\ Unseeded(h) /\ h.usdg = g.usdg
<1>1. GENESIS_GBX \in Nat /\ g.pairGBX + GENESIS_GBX \in Nat /\ Deployer \in Owners
  BY DEF LaunchConstants, Graph, Owners
<1>2. h \in Graph
  BY <1>1 DEF Graph, DeployCore
<1>3. /\ h.launched = g.launched /\ h.usdg = g.usdg /\ h.pairGBX = GENESIS_GBX
      /\ h.otherGBX = 0 /\ h.reserveGBX = 0 /\ h.reserveUSDG = 0 /\ h.lpSupply = 0 /\ h.lpLocked = 0
      /\ h.strategies = 0 /\ h.tenures = 0 /\ h.signal = 0 /\ h.notified = 0
  BY <1>1 DEF Graph, DeployCore, Fresh
<1>4. h.usdg["pair"] \in Nat
  BY <1>2 DEF Graph, Places
<1> QED
  BY <1>1, <1>2, <1>3, <1>4 DEF Held, SupplyOf, Quiet, Unseeded

LEMMA BeginKeeps ==
  ASSUME LaunchConstants, LaunchInv, NEW l \in Launchers, LaunchBegin(l)
  PROVE  LaunchInv' /\ \A k \in Launchers : graph'[k].launched = graph[k].launched
<1>1. /\ step = "none" /\ ~graph[l].launched
      /\ running' = l /\ saved' = [graph |-> graph, wallet |-> wallet] /\ calls' = 0
      /\ wallet' = wallet /\ given' = given
  BY DEF LaunchBegin
<1>2. /\ graph \in [Launchers -> Graph] /\ wallet \in 0 .. Wallet /\ given \in 0 .. MaxGiven
      /\ 0 \in 0 .. MaxCalls /\ wallet \in Nat
      /\ Fresh(graph[l])
      /\ \A k \in Launchers : Held(graph[k]) /\ FreshUnlessLaunched(graph[k])
      /\ outcome \in {"none", "launched", "reverted"}
  BY <1>1 DEF LaunchInv, TypeOK, Between, FreshUnlessLaunched, LaunchConstants
<1>3. CASE PairIsFree(l)
  <2> DEFINE h == [DeployCore(graph[l]) EXCEPT !.pairExists = TRUE, !.pairGBX = @ + GENESIS_GBX]
  <2>1. graph' = [graph EXCEPT ![l] = h] /\ step' = "collecting" /\ outcome' = outcome
    BY <1>3 DEF LaunchBegin
  <2>2. /\ h \in Graph /\ Held(h)
        /\ h.launched = graph[l].launched /\ SupplyOf(h) = GENESIS_GBX
        /\ Quiet(h) /\ Unseeded(h) /\ h.usdg = graph[l].usdg
    BY <1>1, <1>2, BegunGraph
  <2> HIDE DEF h
  <2>3. TypeOK'
    BY <1>1, <1>2, <2>1, <2>2 DEF TypeOK, Steps
  <2>4. \A k \in Launchers : graph'[k] = IF k = l THEN h ELSE graph[k]
    BY <1>2, <2>1
  <2>5. Undisturbed(G)'
    BY <1>1, <2>1, <2>2, <2>4 DEF Undisturbed, G, Quiet, Unseeded
  <2>6. Within'
    <3>1. G' = h
      BY <1>1, <2>4 DEF G
    <3>2. \A k \in Launchers :
            /\ Held(saved'.graph[k]) /\ FreshUnlessLaunched(saved'.graph[k])
            /\ graph'[k].launched = saved'.graph[k].launched
            /\ k # running' => FreshUnlessLaunched(graph'[k])
      BY <1>1, <1>2, <2>2, <2>4
    <3>3. saved'.wallet <= Wallet /\ ~G'.launched /\ SupplyOf(G)' = GENESIS_GBX
      BY <1>1, <1>2, <2>2, <3>1 DEF SupplyOf
    <3> QED
      BY <2>5, <3>2, <3>3 DEF Within
  <2> QED
    BY <1>1, <1>2, <2>1, <2>2, <2>3, <2>4, <2>6 DEF LaunchInv, Between
<1>4. CASE ~PairIsFree(l)
  <2>1. graph' = graph /\ step' = "none" /\ outcome' = "reverted"
    BY <1>1, <1>4 DEF LaunchBegin
  <2>2. TypeOK'
    BY <1>1, <1>2, <2>1 DEF TypeOK, Steps
  <2> QED
    BY <1>1, <1>2, <2>1, <2>2 DEF LaunchInv, Between, Within
<1> QED
  BY <1>3, <1>4

LEMMA PaidGraph ==
  ASSUME LaunchConstants, NEW g \in Graph, Held(g),
         NEW h, h = [g EXCEPT !.usdg["pair"] = @ + GENESIS_USDG]
  PROVE  /\ h \in Graph /\ Held(h)
         /\ h.launched = g.launched /\ SupplyOf(h) = SupplyOf(g)
         /\ Quiet(g) => Quiet(h)
         /\ Unseeded(g) => Unseeded(h)
         /\ h.usdg["pair"] = g.usdg["pair"] + GENESIS_USDG
<1>1. GENESIS_USDG \in Nat
  BY DEF LaunchConstants
<1>2. h \in Graph
  BY <1>1 DEF Graph, Places
<1>3. Held(h) /\ h.usdg["pair"] = g.usdg["pair"] + GENESIS_USDG
  BY <1>1 DEF Graph, Places, Held
<1>4. h.launched = g.launched /\ SupplyOf(h) = SupplyOf(g)
  BY DEF Graph, SupplyOf
<1>5. (Quiet(g) => Quiet(h)) /\ (Unseeded(g) => Unseeded(h))
  BY DEF Graph, Quiet, Unseeded
<1> QED
  BY <1>2, <1>3, <1>4, <1>5

(* What a step of the launch that changes its graph has to show.            *)
LEMMA LaunchGoesOn ==
  ASSUME LaunchConstants, LaunchInv, step # "none",
         NEW h \in Graph, Becomes(h), Held(h), h.launched = G.launched, SupplyOf(h) = SupplyOf(G),
         wallet' \in 0 .. wallet,
         NEW next \in Steps, next # "none", Continue(next),
         calls = 0 => Undisturbed(G)'
  PROVE  LaunchInv' /\ \A l \in Launchers : graph'[l].launched = graph[l].launched
<1>1. /\ step' = next /\ running' = running /\ saved' = saved /\ calls' = calls
      /\ given' = given /\ outcome' = outcome
      /\ graph \in [Launchers -> Graph] /\ running \in Launchers
      /\ graph' = [graph EXCEPT ![running] = h]
  BY DEF Continue, LaunchInv, TypeOK, Becomes
<1>2. \A l \in Launchers : graph'[l] = IF l = running THEN h ELSE graph[l]
  BY <1>1
<1>3. TypeOK'
  <2>1. wallet' \in 0 .. Wallet
    BY DEF LaunchInv, TypeOK, LaunchConstants
  <2> QED
    BY <1>1, <2>1 DEF LaunchInv, TypeOK
<1>4. G' = h /\ graph[running] = G
  BY <1>1, <1>2 DEF G
<1>5. \A l \in Launchers : Held(graph'[l]) /\ graph'[l].launched = graph[l].launched
  BY <1>2, <1>4 DEF LaunchInv
<1>6. Within'
  <2>1. \A l \in Launchers :
          /\ Held(saved'.graph[l]) /\ FreshUnlessLaunched(saved'.graph[l])
          /\ graph'[l].launched = saved'.graph[l].launched
          /\ l # running' => FreshUnlessLaunched(graph'[l])
    BY <1>1, <1>2, <1>5 DEF LaunchInv, Within
  <2>2. saved'.wallet <= Wallet /\ ~G'.launched /\ SupplyOf(G)' = GENESIS_GBX
    BY <1>1, <1>4 DEF LaunchInv, Within, SupplyOf
  <2> QED
    BY <1>1, <2>1, <2>2 DEF Within
<1> QED
  BY <1>1, <1>3, <1>5, <1>6 DEF LaunchInv, Between

LEMMA CollectKeeps ==
  ASSUME LaunchConstants, LaunchInv, Collect
  PROVE  LaunchInv' /\ \A l \in Launchers : graph'[l].launched = graph[l].launched
<1>1. step = "collecting" /\ G \in Graph /\ Held(G) /\ wallet \in 0 .. Wallet
  BY DEF Collect, LaunchInv, TypeOK, G
<1>2. CASE wallet < GENESIS_USDG /\ Revert
  BY <1>1, <1>2, RevertKeeps
<1>3. CASE ~(wallet < GENESIS_USDG /\ Revert)
  <2> DEFINE h == [G EXCEPT !.usdg["pair"] = @ + GENESIS_USDG]
  <2>1. wallet >= GENESIS_USDG /\ wallet' = wallet - GENESIS_USDG /\ Becomes(h) /\ Continue("collected")
    BY <1>3 DEF Collect
  <2>2. /\ h \in Graph /\ Held(h)
        /\ h.launched = G.launched /\ SupplyOf(h) = SupplyOf(G)
        /\ Quiet(G) => Quiet(h)
        /\ Unseeded(G) => Unseeded(h)
        /\ h.usdg["pair"] = G.usdg["pair"] + GENESIS_USDG
    BY <1>1, PaidGraph
  <2>3. wallet' \in 0 .. wallet
    BY <1>1, <2>1 DEF LaunchConstants
  <2>4. "collected" \in Steps /\ step # "none" /\ "collected" # "none"
    BY <1>1 DEF Steps
  <2> HIDE DEF h
  <2>5. ASSUME calls = 0 PROVE Undisturbed(G)'
    <3>1. Undisturbed(G)
      BY <1>1, <2>5 DEF LaunchInv, Within
    <3>2. /\ G' = h /\ step' = "collected" /\ saved' = saved /\ running' = running
      BY <2>1 DEF G, Becomes, Continue, LaunchInv, TypeOK
    <3> QED
      BY <1>1, <2>2, <3>1, <3>2 DEF Undisturbed, Quiet, Unseeded
  <2> QED
    BY <2>1, <2>2, <2>3, <2>4, <2>5, LaunchGoesOn
<1> QED
  BY <1>2, <1>3

RecordedAs(g, supply, locked, added, paid, h) ==
  h = [g EXCEPT !.reserveGBX = g.pairGBX, !.reserveUSDG = g.usdg["pair"],
                !.lpSupply = supply, !.lpLocked = locked, !.strategies = added, !.usdg = paid]

LEMMA SeededRecord ==
  ASSUME NEW g \in Graph, NEW supply \in Nat, NEW locked \in Nat, NEW added \in Nat,
         NEW paid \in [Places -> Nat], paid["pair"] = g.usdg["pair"],
         NEW h, RecordedAs(g, supply, locked, added, paid, h)
  PROVE  /\ h \in Graph /\ Held(h)
         /\ h.launched = g.launched /\ SupplyOf(h) = SupplyOf(g)
         /\ h.reserveGBX = g.pairGBX /\ h.pairGBX = g.pairGBX
         /\ h.reserveUSDG = g.usdg["pair"] /\ h.usdg = paid
         /\ h.lpSupply = supply /\ h.lpLocked = locked /\ h.strategies = added
         /\ Quiet(g) => Quiet(h)
<1>1. g.pairGBX \in Nat /\ g.usdg["pair"] \in Nat
  BY DEF Graph, Places
<1>2. h \in Graph
  BY <1>1 DEF Graph, RecordedAs
<1>3. /\ h.reserveGBX = g.pairGBX /\ h.pairGBX = g.pairGBX
      /\ h.reserveUSDG = g.usdg["pair"] /\ h.usdg = paid
      /\ h.lpSupply = supply /\ h.lpLocked = locked /\ h.strategies = added
      /\ h.launched = g.launched /\ h.otherGBX = g.otherGBX /\ h.signal = g.signal
      /\ h.tenures = g.tenures /\ h.notified = g.notified
  BY DEF Graph, RecordedAs
<1> QED
  BY <1>1, <1>2, <1>3 DEF Held, SupplyOf, Quiet

(* What minting to the pair and adding the strategies make of a graph, and  *)
(* what forwarding makes of that.                                           *)
SeededOf(g, s) == s = [MintTo(g, TRUE) EXCEPT !.strategies = @ + 2]

ForwardedOf(g, s, h) ==
  h = [s EXCEPT !.usdg["fund"] = @ + g.usdg["launcher"], !.usdg["launcher"] = 0]

LEMMA SeededGraph ==
  ASSUME LaunchConstants, NEW g \in Graph, Held(g),
         NEW s, SeededOf(g, s), NEW h, ForwardedOf(g, s, h)
  PROVE  /\ h \in Graph /\ Held(h)
         /\ h.launched = g.launched /\ SupplyOf(h) = SupplyOf(g)
         /\ LockedLiquidity(s) /\ SeededPair(s) /\ Quiet(g) /\ g.strategies = 0 =>
              Quiet(h) /\ FinalState(h)
<1>1. PICK m \in Nat : m = Minted(g)
  BY ProductNatural DEF Graph, Held, Minted, Places
<1> DEFINE supply == g.lpSupply + m
           locked == g.lpLocked + m
           added == g.strategies + 2
           paid == [g.usdg EXCEPT !["fund"] = @ + g.usdg["launcher"], !["launcher"] = 0]
<1>2. /\ supply \in Nat /\ locked \in Nat /\ added \in Nat
      /\ g.pairGBX \in Nat /\ g.usdg["pair"] \in Nat
      /\ g.usdg \in [Places -> Nat]
  BY DEF Graph, Places
<1>3. /\ paid \in [Places -> Nat]
      /\ paid["pair"] = g.usdg["pair"] /\ paid["launcher"] = 0
  BY <1>2 DEF Places
<1>4. s = [g EXCEPT !.reserveGBX = g.pairGBX, !.reserveUSDG = g.usdg["pair"],
                    !.lpSupply = supply, !.lpLocked = locked, !.strategies = added]
  BY <1>1 DEF SeededOf, MintTo, Graph
<1>5. RecordedAs(g, supply, locked, added, paid, h)
  BY <1>4 DEF ForwardedOf, RecordedAs, Graph, Places
<1>6. /\ s.pairGBX = g.pairGBX /\ s.usdg["pair"] = g.usdg["pair"]
      /\ s.reserveGBX = g.pairGBX /\ s.reserveUSDG = g.usdg["pair"]
      /\ s.lpSupply = supply /\ s.lpLocked = locked
  BY <1>4 DEF Graph
<1>7. g.strategies = 0 => added = 2
  OBVIOUS
<1> HIDE DEF supply, locked, added, paid
<1>8. /\ h \in Graph /\ Held(h)
      /\ h.launched = g.launched /\ SupplyOf(h) = SupplyOf(g)
      /\ h.reserveGBX = g.pairGBX /\ h.pairGBX = g.pairGBX
      /\ h.reserveUSDG = g.usdg["pair"] /\ h.usdg = paid
      /\ h.lpSupply = supply /\ h.lpLocked = locked /\ h.strategies = added
      /\ Quiet(g) => Quiet(h)
  BY <1>2, <1>3, <1>5, SeededRecord
<1>9. LockedLiquidity(s) /\ SeededPair(s) => LockedLiquidity(h) /\ SeededPair(h)
  BY <1>3, <1>6, <1>8 DEF LockedLiquidity, SeededPair
<1>10. Quiet(h) /\ g.strategies = 0 /\ LockedLiquidity(h) /\ SeededPair(h) => FinalState(h)
  BY <1>3, <1>7, <1>8 DEF Quiet, FinalState
<1> QED
  BY <1>8, <1>9, <1>10

(* Of the genesis amounts and nothing else, all is minted and all locked.   *)
LEMMA GenesisMints ==
  ASSUME LaunchConstants, NEW g \in Graph, Unseeded(g), g.usdg["pair"] = GENESIS_USDG,
         NEW s, SeededOf(g, s)
  PROVE  DepositIsExact(g) /\ CanMint(g) /\ LockedLiquidity(s) /\ SeededPair(s)
<1>1. GENESIS_GBX - 0 = GENESIS_GBX /\ GENESIS_USDG - 0 = GENESIS_USDG
  BY DEF LaunchConstants
<1>2. Minted(g) = GenesisLiquidity
  BY <1>1 DEF Unseeded, Minted, GenesisLiquidity
<1>3. GenesisLiquidity \in Nat /\ GenesisLiquidity > MINIMUM_LIQUIDITY
  BY ProductNatural DEF LaunchConstants, GenesisLiquidity
<1>4. /\ s.lpSupply = 0 + Minted(g) /\ s.lpLocked = 0 + Minted(g)
      /\ s.pairGBX = GENESIS_GBX /\ s.usdg["pair"] = GENESIS_USDG
      /\ s.reserveGBX = GENESIS_GBX /\ s.reserveUSDG = GENESIS_USDG
  BY DEF SeededOf, Graph, MintTo, Unseeded
<1>5. LockedLiquidity(s)
  <2>1. 0 + GenesisLiquidity = GenesisLiquidity
    BY <1>3
  <2> QED
    BY <1>2, <1>4, <2>1 DEF LockedLiquidity
<1> QED
  BY <1>2, <1>3, <1>4, <1>5 DEF DepositIsExact, CanMint, SeededPair, Unseeded

SeedChecks(g, s) == DepositIsExact(g) /\ CanMint(g) /\ LockedLiquidity(s) /\ SeededPair(s)

(* Seed as a choice between its two outcomes. *)
LEMMA SeedOutcome ==
  ASSUME Seed
  PROVE  \E s, h :
           /\ SeededOf(G, s) /\ ForwardedOf(G, s, h)
           /\ \/ SeedChecks(G, s) /\ Becomes(h) /\ Continue("forwarding") /\ wallet' = wallet
              \/ ~SeedChecks(G, s) /\ Revert
<1> DEFINE s == [MintTo(G, TRUE) EXCEPT !.strategies = @ + 2]
           h == [s EXCEPT !.usdg["fund"] = @ + G.usdg["launcher"], !.usdg["launcher"] = 0]
<1>1. SeededOf(G, s) /\ ForwardedOf(G, s, h)
  BY DEF SeededOf, ForwardedOf
<1>2. \/ SeedChecks(G, s) /\ Becomes(h) /\ Continue("forwarding") /\ wallet' = wallet
      \/ ~SeedChecks(G, s) /\ Revert
  BY DEF Seed, SeedChecks
<1> QED
  BY <1>1, <1>2

LEMMA SeedKeeps ==
  ASSUME LaunchConstants, LaunchInv, Seed
  PROVE  LaunchInv' /\ \A l \in Launchers : graph'[l].launched = graph[l].launched
<1>1. step = "collected" /\ G \in Graph /\ Held(G) /\ wallet \in 0 .. Wallet
  BY DEF Seed, LaunchInv, TypeOK, G
<1>2. PICK s, h :
        /\ SeededOf(G, s) /\ ForwardedOf(G, s, h)
        /\ \/ SeedChecks(G, s) /\ Becomes(h) /\ Continue("forwarding") /\ wallet' = wallet
           \/ ~SeedChecks(G, s) /\ Revert
  BY SeedOutcome
<1>3. CASE ~SeedChecks(G, s) /\ Revert
  BY <1>1, <1>3, RevertKeeps
<1>4. CASE SeedChecks(G, s) /\ Becomes(h) /\ Continue("forwarding") /\ wallet' = wallet
  <2>1. /\ h \in Graph /\ Held(h)
        /\ h.launched = G.launched /\ SupplyOf(h) = SupplyOf(G)
        /\ LockedLiquidity(s) /\ SeededPair(s) /\ Quiet(G) /\ G.strategies = 0 =>
             Quiet(h) /\ FinalState(h)
    BY <1>1, <1>2, SeededGraph
  <2>2. wallet' \in 0 .. wallet
    BY <1>1, <1>4 DEF LaunchConstants
  <2>3. "forwarding" \in Steps /\ step # "none" /\ "forwarding" # "none"
    BY <1>1 DEF Steps
  <2>4. ASSUME calls = 0 PROVE Undisturbed(G)'
    <3>1. Undisturbed(G)
      BY <1>1, <2>4 DEF LaunchInv, Within
    <3>2. G' = h /\ step' = "forwarding"
      BY <1>4 DEF G, Becomes, Continue, LaunchInv, TypeOK
    <3>3. Quiet(h) /\ FinalState(h)
      BY <1>1, <1>4, <2>1, <3>1 DEF Undisturbed, Unseeded, SeedChecks
    <3>4. FinalState(G)' /\ Quiet(G)'
      BY <3>2, <3>3 DEF FinalState, Quiet, LockedLiquidity, SeededPair
    <3> QED
      BY <3>2, <3>4 DEF Undisturbed
  <2> QED
    BY <1>4, <2>1, <2>2, <2>3, <2>4, LaunchGoesOn
<1> QED
  BY <1>2, <1>3, <1>4

(* The last step of a launch: it fails, or leaves what FinalState found.    *)
LEMMA EndOutcome ==
  ASSUME LaunchConstants, LaunchInv, LaunchEnd, ~Revert
  PROVE  \E h \in Graph :
           /\ step = "forwarding" /\ FinalState(G)
           /\ graph' = [graph EXCEPT ![running] = h]
           /\ h.pairGBX = G.pairGBX /\ h.usdg = G.usdg /\ h.otherGBX = G.otherGBX
           /\ h.reserveGBX = G.reserveGBX /\ h.reserveUSDG = G.reserveUSDG
           /\ h.lpSupply = G.lpSupply /\ h.lpLocked = G.lpLocked
           /\ h.tenures = G.tenures /\ h.signal = G.signal /\ h.notified = G.notified
           /\ h.launched = TRUE
           /\ step' = "none" /\ outcome' = "launched"
           /\ wallet' = wallet /\ running' = running /\ saved' = saved
           /\ calls' = calls /\ given' = given
<1>1. G \in Graph /\ {Governance, Nobody} \subseteq Owners
  BY DEF LaunchInv, TypeOK, G, Owners
<1> DEFINE h == [BeginGovernanceHandoff(G) EXCEPT !.launched = TRUE]
<1>2. h \in Graph
  BY <1>1 DEF Graph, BeginGovernanceHandoff
<1>3. /\ h.pairGBX = G.pairGBX /\ h.usdg = G.usdg /\ h.otherGBX = G.otherGBX
      /\ h.reserveGBX = G.reserveGBX /\ h.reserveUSDG = G.reserveUSDG
      /\ h.lpSupply = G.lpSupply /\ h.lpLocked = G.lpLocked
      /\ h.tenures = G.tenures /\ h.signal = G.signal /\ h.notified = G.notified
      /\ h.launched = TRUE
  BY <1>1 DEF Graph, BeginGovernanceHandoff
<1>4. /\ step = "forwarding" /\ FinalState(G)
      /\ Becomes(h) /\ step' = "none" /\ outcome' = "launched"
      /\ UNCHANGED <<wallet, running, saved, calls, given>>
  BY DEF LaunchEnd
<1> QED
  BY <1>2, <1>3, <1>4 DEF Becomes

(* What FinalState looks at, and that no GBX has come from elsewhere, is    *)
(* all that LaunchesUntouched asks for.                                     *)
LEMMA EndKeeps ==
  ASSUME LaunchConstants, LaunchInv, LaunchEnd
  PROVE  LaunchInv' /\ LaunchesUntouched
<1>1. CASE Revert
  <2>1. step # "none"
    BY DEF LaunchEnd
  <2> QED
    BY <1>1, <2>1, RevertKeeps DEF LaunchesUntouched
<1>2. CASE ~Revert
  <2>1. PICK h \in Graph :
           /\ step = "forwarding" /\ FinalState(G)
           /\ graph' = [graph EXCEPT ![running] = h]
           /\ h.pairGBX = G.pairGBX /\ h.usdg = G.usdg /\ h.otherGBX = G.otherGBX
           /\ h.reserveGBX = G.reserveGBX /\ h.reserveUSDG = G.reserveUSDG
           /\ h.lpSupply = G.lpSupply /\ h.lpLocked = G.lpLocked
           /\ h.tenures = G.tenures /\ h.signal = G.signal /\ h.notified = G.notified
           /\ h.launched = TRUE
           /\ step' = "none" /\ outcome' = "launched"
           /\ wallet' = wallet /\ running' = running /\ saved' = saved
           /\ calls' = calls /\ given' = given
    BY <1>2, EndOutcome
  <2>2. /\ graph \in [Launchers -> Graph] /\ running \in Launchers /\ G = graph[running]
        /\ \A l \in Launchers : Held(graph[l])
        /\ \A l \in Launchers : l # running => FreshUnlessLaunched(graph[l])
        /\ SupplyOf(G) = GENESIS_GBX
    BY <2>1 DEF LaunchInv, TypeOK, Within, G
  <2>3. \A l \in Launchers : graph'[l] = IF l = running THEN h ELSE graph[l]
    BY <2>1, <2>2
  <2>4. TypeOK'
    BY <2>1, <2>2 DEF LaunchInv, TypeOK, Steps
  <2>5. \A l \in Launchers : Held(graph'[l]) /\ FreshUnlessLaunched(graph'[l])
    BY <2>1, <2>2, <2>3 DEF Held, FreshUnlessLaunched
  <2>6. SeededPair(h) /\ LockedLiquidity(h) /\ h.tenures = 0 /\ h.signal = 0 /\ h.notified = 0
        /\ h.usdg["launcher"] = 0
    BY <2>1 DEF FinalState, SeededPair, LockedLiquidity
  <2>7. h.otherGBX = 0
    <3>1. G.pairGBX = GENESIS_GBX /\ G.signal = 0 /\ G.otherGBX \in Nat /\ GENESIS_GBX \in Nat
      BY <2>1, <2>2 DEF FinalState, SeededPair, LaunchConstants, Graph
    <3> QED
      BY <2>1, <2>2, <3>1 DEF SupplyOf
  <2>8. LaunchesUntouched
    BY <2>3, <2>6, <2>7 DEF LaunchesUntouched
  <2> QED
    BY <2>1, <2>4, <2>5, <2>8 DEF LaunchInv, Between, Within
<1> QED
  BY <1>1, <1>2

-----------------------------------------------------------------------------
(* The theorems. *)

LEMMA InitSound == ASSUME LaunchConstants, Init PROVE LaunchInv
<1>1. NoGraph \in Graph /\ Held(NoGraph) /\ FreshUnlessLaunched(NoGraph)
  BY DEF NoGraph, Graph, Owners, Held, Places, FreshUnlessLaunched, Fresh
<1>2. /\ graph = [l \in Launchers |-> NoGraph] /\ wallet = Wallet /\ step = "none"
      /\ running \in Launchers /\ saved = [graph |-> graph, wallet |-> wallet]
      /\ calls = 0 /\ given = 0 /\ outcome = "none"
  BY DEF Init
<1>3. TypeOK
  BY <1>1, <1>2 DEF TypeOK, Steps, LaunchConstants
<1> QED
  BY <1>1, <1>2, <1>3 DEF LaunchInv, Between, Within

LEMMA NextSound ==
  ASSUME LaunchConstants, LaunchInv, [Next]_vars
  PROVE  LaunchInv' /\ (LaunchesUntouched \/ UNCHANGED vars)
<1>1. CASE \E l \in Launchers : LaunchBegin(l)
  BY <1>1, BeginKeeps DEF LaunchesUntouched
<1>2. CASE Collect
  BY <1>2, CollectKeeps DEF LaunchesUntouched
<1>3. CASE Seed
  BY <1>3, SeedKeeps DEF LaunchesUntouched
<1>4. CASE LaunchEnd
  BY <1>4, EndKeeps
<1>5. CASE Others \/ Accepting
  BY <1>5, OthersInterfere, InterferenceKeeps DEF LaunchesUntouched
<1>6. CASE UNCHANGED vars
  BY <1>6 DEF vars, LaunchInv, TypeOK, Held, Between, Within, Undisturbed, G, SupplyOf, Quiet,
              Unseeded, FinalState, LockedLiquidity, SeededPair
<1> QED
  BY <1>1, <1>2, <1>3, <1>4, <1>5, <1>6 DEF Next, Launching, Others

(* Why a launch that nobody was called back in can fail: of its steps only  *)
(* the payment has a condition that is not met by what the others left.     *)
LEMMA RevertHasReason ==
  ASSUME LaunchConstants, LaunchInv, Next
  PROVE  RevertsForThePair
<1> SUFFICES ASSUME step # "none", step' = "none", outcome' = "reverted", calls = 0,
                    saved.graph[running].usdg["pair"] = 0
             PROVE  saved.wallet < GENESIS_USDG
  <2>1. step # "none" => calls \in Nat /\ saved.graph[running].usdg["pair"] \in Nat
    BY DEF LaunchInv, TypeOK, Graph, Places, LaunchConstants
  <2> QED
    BY <2>1 DEF RevertsForThePair
<1>1. Undisturbed(G) /\ G \in Graph
  BY DEF LaunchInv, Within, TypeOK, G
<1>2. CASE Collect
  <2>1. step = "collecting" /\ wallet < GENESIS_USDG
    BY <1>2 DEF Collect, Continue
  <2> QED
    BY <1>1, <2>1 DEF Undisturbed
<1>3. CASE Seed
  <2>1. step = "collected"
    BY <1>3 DEF Seed
  <2>2. Unseeded(G) /\ G.usdg["pair"] = GENESIS_USDG
    BY <1>1, <2>1 DEF Undisturbed, LaunchConstants
  <2>3. PICK s, h :
          /\ SeededOf(G, s) /\ ForwardedOf(G, s, h)
          /\ \/ SeedChecks(G, s) /\ Becomes(h) /\ Continue("forwarding") /\ wallet' = wallet
             \/ ~SeedChecks(G, s) /\ Revert
    BY <1>3, SeedOutcome
  <2>4. SeedChecks(G, s)
    BY <1>1, <2>2, <2>3, GenesisMints DEF SeedChecks
  <2> QED
    BY <2>3, <2>4 DEF Continue
<1>4. CASE LaunchEnd
  BY <1>1, <1>4 DEF LaunchEnd, Undisturbed
<1>5. CASE \E l \in Launchers : LaunchBegin(l)
  BY <1>5 DEF LaunchBegin
<1>6. CASE Others \/ Accepting
  <2>1. step' = step
    BY <1>6, OthersInterfere DEF Interference, Outside
  <2> QED
    BY <2>1
<1> QED
  BY <1>2, <1>3, <1>4, <1>5, <1>6 DEF Next, Launching, Others

LEMMA LaunchSound == ASSUME LaunchConstants PROVE Spec => []LaunchInv
<1>1. Init => LaunchInv
  BY InitSound
<1>2. LaunchInv /\ [Next]_vars => LaunchInv'
  BY NextSound
<1> QED
  BY <1>1, <1>2, PTL DEF Spec

(* The ledgers of the launch are as typed: above all, no balance, reserve   *)
(* or liquidity of a pair becomes negative, whatever outsiders take.        *)
THEOREM LaunchTyped == ASSUME LaunchConstants PROVE Spec => []TypeOK
<1>1. LaunchInv => TypeOK
  BY DEF LaunchInv
<1> QED
  BY <1>1, LaunchSound, PTL

(* A launch that succeeds leaves a graph nobody has touched, whoever was    *)
(* called back inside it and whatever was sent before it.                   *)
THEOREM LaunchesStayUntouched == ASSUME LaunchConstants PROVE Spec => [][LaunchesUntouched]_vars
<1>1. LaunchInv /\ [Next]_vars => [LaunchesUntouched]_vars
  BY NextSound
<1> QED
  BY <1>1, LaunchSound, PTL DEF Spec

(* USDG sent to the predictable addresses does not veto a launch: one that  *)
(* nobody was called back in fails only for the pair or for want of USDG.   *)
THEOREM OnlyThePairReverts == ASSUME LaunchConstants PROVE Spec => [][RevertsForThePair]_vars
<1>1. LaunchInv /\ [Next]_vars => [RevertsForThePair]_vars
  BY RevertHasReason
<1> QED
  BY <1>1, LaunchSound, PTL DEF Spec
=============================================================================
