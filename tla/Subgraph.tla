----------------------------- MODULE Subgraph -----------------------------
(***************************************************************************)
(* The subgraph (packages/subgraph): entities folded from the events of the  *)
(* contracts.  Blocks are added to and replaced on a chain; graph-node hands *)
(* the events of a block to the handlers one by one, commits the entities    *)
(* of the block together, and returns to the entities of an earlier block    *)
(* when the chain is reorganised.                                            *)
(*                                                                         *)
(* A block holds one transaction.  Its events, and the state the contracts   *)
(* are in after it, are what the emit statements of packages/contracts say;  *)
(* how that state comes about is the subject of the other modules.           *)
(***************************************************************************)
EXTENDS Integers, Sequences, SequencesExt, FiniteSetsExt

CONSTANTS Accounts, Strategies, Slots, Routers, NoAddress, FundAddr,
          Kinds,       \* bound: the transactions that happen
          MaxBlocks,   \* bound: length of the chain
          MaxReorgs    \* bound: number of reorganisations

VARIABLES blocks,   \* the canonical chain: [events, ledger after it]
          store,    \* store[n]: the entities committed for block n
          halted,   \* a handler has failed: graph-node stops the subgraph
          reorgs

vars == <<blocks, store, halted, reorgs>>

Zero(S) == [x \in S |-> 0]
Positions == Accounts \X Strategies
DEFAULT_BRIBE_BPS == 10
GenesisAmount == 3

-----------------------------------------------------------------------------
(* Entities *)
EmptyEntities ==
  [protocol |-> [minted |-> 0, burned |-> 0, totalSupply |-> 0, genesisLiquidity |-> 0, mined |-> 0,
                 miningPayments |-> 0, previousMinerPayments |-> 0, revenueDeposited |-> 0,
                 routed |-> 0, notified |-> 0, distributed |-> 0, signaled |-> 0, fundBurned |-> 0, redeemed |-> 0,
                 strategyCount |-> 0, liveStrategyCount |-> 0, bribeBps |-> DEFAULT_BRIBE_BPS,
                 mineRevenueRouter |-> NoAddress],
   account  |-> [a \in Accounts \cup {FundAddr} |->
                  [mined |-> 0, burned |-> 0, accrued |-> 0, claimed |-> 0, signaled |-> 0, weight |-> 0,
                   delegate |-> NoAddress, votes |-> 0, redeemed |-> 0]],
   slot     |-> [i \in Slots |-> [epoch |-> 0, miner |-> NoAddress, mined |-> 0, paid |-> 0]],
   strategy |-> [s \in {} |-> 0],     \* the Strategy entities that exist
   position |-> [p \in {} |-> 0]]     \* the SignalPosition entities that exist

NewStrategy == [live |-> TRUE, weight |-> 0, distributed |-> 0, notified |-> 0, paid |-> 0, routed |-> 0]
GetStrategy(e, s) == IF s \in DOMAIN e.strategy THEN e.strategy[s] ELSE NewStrategy
GetPosition(e, p) == IF p \in DOMAIN e.position THEN e.position[p] ELSE 0
Put(f, k, v) == [x \in DOMAIN f \cup {k} |-> IF x = k THEN v ELSE f[x]]
Drop(f, k) == [x \in DOMAIN f \ {k} |-> f[x]]

(* Handlers: entities after event v. *)
HandleMinted(e, v) ==
  [e EXCEPT !.protocol.minted = @ + v.amount, !.protocol.totalSupply = @ + v.amount]
HandleBurned(e, v) ==
  [e EXCEPT !.protocol.burned = @ + v.amount, !.protocol.totalSupply = @ - v.amount,
            !.account[v.account].burned = @ + v.amount]
HandleGenesisLiquidityMinted(e, v) == [e EXCEPT !.protocol.genesisLiquidity = v.amount]
HandleMined(e, v) ==
  [e EXCEPT !.protocol.miningPayments = @ + v.amount,
            !.slot[v.slot] = [epoch |-> v.epoch + 1, miner |-> v.account, mined |-> @.mined, paid |-> @.paid + v.amount]]
HandleEmissionSettled(e, v) ==
  [e EXCEPT !.protocol.mined = @ + v.amount, !.account[v.account].mined = @ + v.amount,
            !.slot[v.slot].mined = @ + v.amount]
HandleMinerPaymentAccrued(e, v) ==
  [e EXCEPT !.protocol.previousMinerPayments = @ + v.amount, !.account[v.account].accrued = @ + v.amount]
HandleMinerPaymentClaimed(e, v) == [e EXCEPT !.account[v.account].claimed = @ + v.amount]
HandleMiningRevenueDeposited(e, v) ==
  [e EXCEPT !.protocol.revenueDeposited = @ + v.amount, !.protocol.mineRevenueRouter = v.router]
HandleResonanceRouterUpdated(e, v) == [e EXCEPT !.protocol.mineRevenueRouter = v.router]
HandleResonanceRouterSet(e, v) == [e EXCEPT !.protocol.mineRevenueRouter = v.router]

HandleDelegateChanged(e, v) == [e EXCEPT !.account[v.account].delegate = v.delegate]
HandleDelegateVotesChanged(e, v) == [e EXCEPT !.account[v.account].votes = v.amount]
HandleSignaled(e, v) == [e EXCEPT !.protocol.signaled = @ + v.amount, !.account[v.account].signaled = @ + v.amount]
HandleSignalWithdrawn(e, v) == [e EXCEPT !.protocol.signaled = @ - v.amount, !.account[v.account].signaled = @ - v.amount]

HandleBribeBpsSet(e, v) == [e EXCEPT !.protocol.bribeBps = v.amount]
HandleRevenueRouted(e, v) == [e EXCEPT !.protocol.routed = @ + v.amount]
HandleRevenueNotified(e, v) == [e EXCEPT !.protocol.notified = @ + v.amount]
HandleRevenueDistributed(e, v) ==
  LET st == GetStrategy(e, v.strategy)
  IN  [e EXCEPT !.protocol.distributed = @ + v.amount,
                !.strategy = Put(@, v.strategy, [st EXCEPT !.distributed = @ + v.amount])]
HandleStrategyAdded(e, v) ==
  [e EXCEPT !.protocol.strategyCount = @ + 1, !.protocol.liveStrategyCount = @ + 1,
            !.strategy = Put(@, v.strategy, [GetStrategy(e, v.strategy) EXCEPT !.live = TRUE])]
Bug_KilledEntityRemoved(e, v) ==
  [e EXCEPT !.protocol.liveStrategyCount = @ - 1, !.strategy = Drop(@, v.strategy)]
HandleStrategyKilled(e, v) ==
  [e EXCEPT !.protocol.liveStrategyCount = @ - 1,
            !.strategy = Put(@, v.strategy, [GetStrategy(e, v.strategy) EXCEPT !.live = FALSE])]

Signalled(e, v, change, positions) ==
  [e EXCEPT !.account[v.account].weight = @ + change,
            !.strategy = Put(@, v.strategy, [GetStrategy(e, v.strategy) EXCEPT !.weight = @ + change]),
            !.position = positions]
HandleSignalAdded(e, v) ==
  LET p == <<v.account, v.strategy>>
  IN  Signalled(e, v, v.amount, Put(e.position, p, GetPosition(e, p) + v.amount))
\* A position is removed when nothing is left of it.
HandleSignalRemoved(e, v) ==
  LET p == <<v.account, v.strategy>>
      left == GetPosition(e, p) - v.amount
  IN  Signalled(e, v, -v.amount, IF left = 0 THEN Drop(e.position, p) ELSE Put(e.position, p, left))

HandleRewardNotified(e, v) == [e EXCEPT !.strategy[v.strategy].notified = @ + v.amount]
HandleRewardPaid(e, v) == [e EXCEPT !.strategy[v.strategy].paid = @ + v.amount]
HandleRouterRewardRouted(e, v) == [e EXCEPT !.strategy[v.strategy].routed = @ + v.amount]

HandleFundGBXBurned(e, v) == [e EXCEPT !.protocol.fundBurned = @ + v.amount]
HandleRedeemed(e, v) == [e EXCEPT !.protocol.redeemed = @ + v.amount, !.account[v.account].redeemed = @ + v.amount]

\* The Bribe and BribeRouter templates assert their Strategy entity.
Fails(e, v) ==
  v.type \in {"RewardNotified", "RewardPaid", "RewardRouted"} /\ v.strategy \notin DOMAIN e.strategy

Handle(e, v) ==
  CASE v.type = "Minted" -> HandleMinted(e, v)
    [] v.type = "Burned" -> HandleBurned(e, v)
    [] v.type = "GenesisLiquidityMinted" -> HandleGenesisLiquidityMinted(e, v)
    [] v.type = "Mined" -> HandleMined(e, v)
    [] v.type = "EmissionSettled" -> HandleEmissionSettled(e, v)
    [] v.type = "MinerPaymentAccrued" -> HandleMinerPaymentAccrued(e, v)
    [] v.type = "MinerPaymentClaimed" -> HandleMinerPaymentClaimed(e, v)
    [] v.type = "RevenueDeposited" -> HandleMiningRevenueDeposited(e, v)
    [] v.type = "ResonanceRouterUpdated" -> HandleResonanceRouterUpdated(e, v)
    [] v.type = "ResonanceRouterSet" -> HandleResonanceRouterSet(e, v)
    [] v.type = "DelegateChanged" -> HandleDelegateChanged(e, v)
    [] v.type = "DelegateVotesChanged" -> HandleDelegateVotesChanged(e, v)
    [] v.type = "Signaled" -> HandleSignaled(e, v)
    [] v.type = "SignalWithdrawn" -> HandleSignalWithdrawn(e, v)
    [] v.type = "BribeBpsSet" -> HandleBribeBpsSet(e, v)
    [] v.type = "RevenueRouted" -> HandleRevenueRouted(e, v)
    [] v.type = "RevenueNotified" -> HandleRevenueNotified(e, v)
    [] v.type = "RevenueDistributed" -> HandleRevenueDistributed(e, v)
    [] v.type = "StrategyAdded" -> HandleStrategyAdded(e, v)
    [] v.type = "StrategyKilled" -> HandleStrategyKilled(e, v)
    [] v.type = "SignalAdded" -> HandleSignalAdded(e, v)
    [] v.type = "SignalRemoved" -> HandleSignalRemoved(e, v)
    [] v.type = "RewardNotified" -> HandleRewardNotified(e, v)
    [] v.type = "RewardPaid" -> HandleRewardPaid(e, v)
    [] v.type = "RewardRouted" -> HandleRouterRewardRouted(e, v)
    [] v.type = "GBXBurned" -> HandleFundGBXBurned(e, v)
    [] v.type = "Redeemed" -> HandleRedeemed(e, v)

-----------------------------------------------------------------------------
(* The contracts: a transaction is its events and the ledger after it. *)
NewLedger ==
  [minted |-> 0, burned |-> 0, genesis |-> FALSE, slot |-> [i \in Slots |-> [epoch |-> 0, miner |-> NoAddress]],
   claimable |-> Zero(Accounts), router |-> CHOOSE r \in Routers : TRUE, bribeBps |-> DEFAULT_BRIBE_BPS,
   notified |-> 0, status |-> [s \in Strategies |-> "none"], signal |-> Zero(Positions),
   delegate |-> [a \in Accounts |-> NoAddress], reward |-> Zero(Strategies)]

Tx(l, events) == [ledger |-> l, events |-> events]
Balance(l, a) == MapThenSumSet(LAMBDA s : l.signal[<<a, s>>], Strategies)
Votes(l, d) == MapThenSumSet(LAMBDA a : IF l.delegate[a] = d THEN Balance(l, a) ELSE 0, Accounts)
VotesEvent(l, d) == IF d = NoAddress THEN <<>> ELSE <<[type |-> "DelegateVotesChanged", account |-> d, amount |-> Votes(l, d)]>>
When(condition, event) == IF condition THEN <<event>> ELSE <<>>

MineTxs(l) ==
  {LET old == l.slot[i]
       occupied == old.miner # NoAddress
       emission == IF occupied THEN e ELSE 0
       previous == IF occupied THEN p \div 2 ELSE 0
       l1 == [l EXCEPT !.minted = @ + emission, !.slot[i] = [epoch |-> old.epoch + 1, miner |-> a]]
   IN  Tx(IF previous > 0 THEN [l1 EXCEPT !.claimable[old.miner] = @ + previous] ELSE l1,
          When(emission > 0, [type |-> "Minted", amount |-> emission])
          \o When(emission > 0, [type |-> "EmissionSettled", account |-> old.miner, slot |-> i, amount |-> emission])
          \o When(previous > 0, [type |-> "MinerPaymentAccrued", account |-> old.miner, amount |-> previous])
          \o When(p > 0, [type |-> "RevenueDeposited", router |-> l.router, amount |-> p - previous])
          \o <<[type |-> "Mined", account |-> a, slot |-> i, epoch |-> old.epoch, amount |-> p]>>)
   : a \in Accounts, i \in Slots, e \in {0, 2}, p \in {0, 3}}

GenesisTxs(l) ==
  {Tx([l EXCEPT !.minted = @ + GenesisAmount, !.genesis = TRUE],
      <<[type |-> "Minted", amount |-> GenesisAmount], [type |-> "GenesisLiquidityMinted", amount |-> GenesisAmount]>>)
   : x \in {y \in {1} : ~l.genesis}}

ClaimTxs(l) ==
  {Tx([l EXCEPT !.claimable[a] = 0], <<[type |-> "MinerPaymentClaimed", account |-> a, amount |-> l.claimable[a]]>>)
   : a \in {b \in Accounts : l.claimable[b] > 0}}

\* A holder burns, the Fund burns what it was sent, or a redemption burns
\* through the Fund.
BurnTxs(l) ==
  LET burnt == [l EXCEPT !.burned = @ + 1]
      Burned(a) == [type |-> "Burned", account |-> a, amount |-> 1]
  IN  IF l.minted = l.burned THEN {}
      ELSE {Tx(burnt, <<Burned(a)>>) : a \in Accounts}
             \cup {Tx(burnt, <<Burned(FundAddr), [type |-> "GBXBurned", amount |-> 1]>>)}
             \cup {Tx(burnt, <<Burned(FundAddr), [type |-> "Redeemed", account |-> a, amount |-> 1]>>) : a \in Accounts}

RouterTxs(l) ==
  {Tx([l EXCEPT !.router = r], <<[type |-> "ResonanceRouterUpdated", router |-> r]>>) : r \in Routers \ {l.router}}

Live(l) == {s \in Strategies : l.status[s] = "live"}
Known(l) == {s \in Strategies : l.status[s] # "none"}

StrategyTxs(l) ==
  {Tx([l EXCEPT !.status[s] = "live"], <<[type |-> "StrategyAdded", strategy |-> s]>>) : s \in Strategies \ Known(l)}
  \cup {Tx([l EXCEPT !.status[s] = "dead"], <<[type |-> "StrategyKilled", strategy |-> s]>>)
        : s \in {x \in Live(l) : Live(l) # {x}}}

AddSignalTxs(l) ==
  {LET l1 == [l EXCEPT !.signal[<<a, s>>] = @ + n]
       self == l.delegate[a] = NoAddress
       l2 == IF self THEN [l1 EXCEPT !.delegate[a] = a] ELSE l1
   IN  Tx(l2, (IF self THEN <<[type |-> "DelegateChanged", account |-> a, delegate |-> a]>> ELSE <<>>)
              \o VotesEvent(l2, l2.delegate[a])
              \o <<[type |-> "SignalAdded", account |-> a, strategy |-> s, amount |-> n],
                   [type |-> "Signaled", account |-> a, amount |-> n]>>)
   : a \in Accounts, s \in Live(l), n \in {1, 2}}

RemoveSignalTxs(l) ==
  {LET l1 == [l EXCEPT !.signal[<<r[1], r[2]>>] = @ - r[3]]
   IN  Tx(l1, <<[type |-> "SignalRemoved", account |-> r[1], strategy |-> r[2], amount |-> r[3]]>>
              \o VotesEvent(l1, l.delegate[r[1]])
              \o <<[type |-> "SignalWithdrawn", account |-> r[1], amount |-> r[3]]>>)
   : r \in {x \in Accounts \X Strategies \X {1, 2} : x[3] <= l.signal[<<x[1], x[2]>>]}}

DelegateTxs(l) ==
  {LET l1 == [l EXCEPT !.delegate[d[1]] = d[2]]
       moved == Balance(l, d[1]) > 0 /\ l.delegate[d[1]] # d[2]
   IN  Tx(l1, <<[type |-> "DelegateChanged", account |-> d[1], delegate |-> d[2]]>>
              \o IF moved THEN VotesEvent(l1, l.delegate[d[1]]) \o VotesEvent(l1, d[2]) ELSE <<>>)
   : d \in Accounts \X (Accounts \cup {NoAddress})}

RevenueTxs(l) ==
  {Tx([l EXCEPT !.notified = @ + 1], <<[type |-> "RevenueNotified", amount |-> 1], [type |-> "RevenueRouted", amount |-> 1]>>)}
  \cup {Tx(l, <<[type |-> "RevenueDistributed", strategy |-> s, amount |-> 1]>>) : s \in {x \in Known(l) : l.notified > 0}}
  \cup {Tx([l EXCEPT !.bribeBps = b], <<[type |-> "BribeBpsSet", amount |-> b]>>) : b \in {0, DEFAULT_BRIBE_BPS}}

\* A Bribe of a known strategy, dead ones included, is funded directly or by
\* its router, and pays.
BribeTxs(l) ==
  {Tx([l EXCEPT !.reward[s] = @ + 1],
      <<[type |-> "RewardNotified", strategy |-> s, amount |-> 1]>>
      \o When(routed, [type |-> "RewardRouted", strategy |-> s, amount |-> 1])) : s \in Known(l), routed \in BOOLEAN}
  \cup {Tx([l EXCEPT !.reward[s] = @ - 1], <<[type |-> "RewardPaid", strategy |-> s, amount |-> 1]>>)
        : s \in {x \in Known(l) : l.reward[x] > 0}}

Transactions(l) ==
  UNION {CASE k = "mine" -> MineTxs(l) [] k = "genesis" -> GenesisTxs(l) [] k = "claim" -> ClaimTxs(l)
           [] k = "burn" -> BurnTxs(l) [] k = "router" -> RouterTxs(l) [] k = "strategy" -> StrategyTxs(l)
           [] k = "addSignal" -> AddSignalTxs(l) [] k = "removeSignal" -> RemoveSignalTxs(l)
           [] k = "delegate" -> DelegateTxs(l) [] k = "revenue" -> RevenueTxs(l) [] k = "bribe" -> BribeTxs(l)
         : k \in Kinds}

-----------------------------------------------------------------------------
LedgerAt(n) == blocks[n].ledger
EntitiesAt(n) == store[n]

\* The launch binds the Router and registers the first strategy.
Launch ==
  LET first == CHOOSE s \in Strategies : TRUE
  IN  Tx([NewLedger EXCEPT !.status[first] = "live"],
         <<[type |-> "ResonanceRouterSet", router |-> NewLedger.router], [type |-> "StrategyAdded", strategy |-> first]>>)

Init == blocks = <<Launch>> /\ store = <<>> /\ halted = FALSE /\ reorgs = 0

AddBlock ==
  /\ Len(blocks) < MaxBlocks
  /\ \E t \in Transactions(LedgerAt(Len(blocks))) : blocks' = Append(blocks, t)
  /\ UNCHANGED <<store, halted, reorgs>>

\* The blocks after n are replaced, entities of replaced blocks are dropped.
Reorganise ==
  /\ reorgs < MaxReorgs
  /\ \E n \in 1..Len(blocks) - 1 :
       /\ \E t \in Transactions(LedgerAt(n)) \ {blocks[n + 1]} : blocks' = Append(SubSeq(blocks, 1, n), t)
       /\ store' = SubSeq(store, 1, IF Len(store) < n THEN Len(store) ELSE n)
  /\ reorgs' = reorgs + 1
  /\ UNCHANGED halted

\* The handlers run over the next block's events in order.
IndexBlock ==
  /\ ~halted /\ Len(store) < Len(blocks)
  /\ LET before == IF store = <<>> THEN EmptyEntities ELSE Last(store)
         events == blocks[Len(store) + 1].events
         after[n \in 0..Len(events)] == IF n = 0 THEN before ELSE Handle(after[n - 1], events[n])
     IN  IF \E n \in DOMAIN events : Fails(after[n - 1], events[n])
         THEN halted' = TRUE /\ UNCHANGED store
         ELSE store' = Append(store, after[Len(events)]) /\ UNCHANGED halted
  /\ UNCHANGED <<blocks, reorgs>>

Next == AddBlock \/ Reorganise \/ IndexBlock

\* graph-node goes on indexing.
Spec == Init /\ [][Next]_vars /\ WF_vars(IndexBlock)
-----------------------------------------------------------------------------
(* The entities of a block and the contracts' state in it, whatever blocks   *)
(* were replaced before: supply, slots, claims, counts, weights, votes and   *)
(* rewards.                                                                  *)
EntitiesMatch(e, l) ==
  /\ e.protocol.minted = l.minted /\ e.protocol.burned = l.burned
  /\ e.protocol.totalSupply = l.minted - l.burned
  /\ e.protocol.mined + e.protocol.genesisLiquidity = l.minted
  /\ e.protocol.miningPayments = e.protocol.previousMinerPayments + e.protocol.revenueDeposited
  /\ \A i \in Slots : e.slot[i].epoch = l.slot[i].epoch /\ e.slot[i].miner = l.slot[i].miner
  /\ \A a \in Accounts : e.account[a].accrued - e.account[a].claimed = l.claimable[a]
  /\ e.protocol.mineRevenueRouter = l.router /\ e.protocol.bribeBps = l.bribeBps
  /\ e.protocol.notified = l.notified
  /\ e.protocol.strategyCount = Cardinality(Known(l)) /\ e.protocol.liveStrategyCount = Cardinality(Live(l))
  /\ DOMAIN e.strategy = Known(l)
  /\ \A s \in DOMAIN e.strategy :
       e.strategy[s].live = (l.status[s] = "live") /\ e.strategy[s].notified - e.strategy[s].paid = l.reward[s]

EntitiesAreProjection == \A n \in DOMAIN store : EntitiesMatch(EntitiesAt(n), LedgerAt(n))

(* The discovery index holds exactly the positions an account can remove,    *)
(* in live and dead strategies, and the three counters that are kept from    *)
(* different events - receipts, weights per account and per strategy - agree *)
(* with it at every block; so do the votes.                                  *)
PositionsDiscoverable ==
  \A n \in DOMAIN store :
    LET e == EntitiesAt(n)
        l == LedgerAt(n)
    IN  /\ DOMAIN e.position = {p \in Positions : l.signal[p] > 0}
        /\ \A p \in DOMAIN e.position : e.position[p] = l.signal[p]
        /\ \A a \in Accounts :
             /\ e.account[a].weight = Balance(l, a) /\ e.account[a].signaled = Balance(l, a)
             /\ e.account[a].votes = Votes(l, a) /\ e.account[a].delegate = l.delegate[a]
        /\ \A s \in DOMAIN e.strategy :
             e.strategy[s].weight = MapThenSumSet(LAMBDA a : l.signal[<<a, s>>], Accounts)
        /\ e.protocol.signaled = MapThenSumSet(LAMBDA p : l.signal[p], Positions)

(* Indexing never stops for good and catches up with the chain whenever the  *)
(* chain rests: no transaction produces an event a handler fails on.         *)
CaughtUp == Len(store) = Len(blocks)
=============================================================================
