----------------------------- MODULE BlockReads -----------------------------
(***************************************************************************)
(* The SDK's composed views (packages/sdk/src/readers.ts, block-snapshot.ts): *)
(* a view is assembled from many RPC reads, each made by block number while   *)
(* the chain goes on growing and reorganising.                               *)
(*                                                                         *)
(* A block is identified with the sequence of labels from genesis to it: its *)
(* hash commits to its ancestry.  An answer is recorded as the block it was  *)
(* served from, for every mutable fact may differ between two blocks; only   *)
(* the facts that decide which reads come next are given values.             *)
(***************************************************************************)
EXTENDS Naturals, Sequences, FiniteSets

CONSTANTS Labels,       \* what can distinguish two blocks of one height
          MaxHeight,    \* bound: length of the chain
          MaxReorgs,    \* bound: number of reorganisations
          MaxViews,     \* bound: number of views requested
          BlocksReturn, \* may a replaced block become canonical again?
          Readers,      \* the readers a client calls
          GbxAmount,    \* the amount a redemption is previewed for
          RouterOf(_), RewardTokensOf(_), SupplyOf(_)  \* facts of a block

BlockReadsAssumption ==
  /\ MaxHeight \in Nat \ {0} /\ MaxReorgs \in Nat /\ MaxViews \in Nat
  /\ BlocksReturn \in BOOLEAN /\ GbxAmount \in Nat \ {0}

VARIABLES chain,    \* the canonical chain, a sequence of labels
          seen,     \* every block that was ever canonical
          reorgs,   \* reorganisations so far
          request,  \* the view being read
          views     \* what was returned to the caller

vars == <<chain, seen, reorgs, request, views>>

NoBlock == <<"none">>
Block(n) == SubSeq(chain, 1, n)
Canonical(b) == Len(b) <= Len(chain) /\ Block(Len(b)) = b

-----------------------------------------------------------------------------
(* What each reader asks for: one set of reads per round of Promise.all, a   *)
(* read being a contract and a function; the reads of a later round may      *)
(* depend on the answers `a' of the earlier ones.  Constants of a contract,  *)
(* the same in every block, are left out, and of the facts that one round    *)
(* reads from a contract a few stand for the others.                         *)
Of(contract, functions) == {contract} \X functions
Answered(a, read) == read \in DOMAIN a

SupplyView == <<Of("gbx", {"lifetimeBurned", "lifetimeMinted", "minter", "totalSupply"})>>

MineSlotView == <<Of("mine", {"aggregateTps", "slot", "nextGlobalTps", "pendingEmission"})>>

MineRevenueDestinationView(a) ==
  LET router == <<"mine", "resonanceRouter">>
  IN  <<{<<"mine", "owner">>, router},
        IF Answered(a, router) THEN {<<RouterOf(a[router]), "resonance">>} ELSE {}>>

SignalView == <<Of("signalGBX", {"balanceOf", "delegates", "getVotes"})>>

\* The lens answers for account and strategies in a single call.
SignalPortfolio == <<Of("lens", {"portfolio"})>>

ResonanceView ==
  <<Of("resonance", {"bribeBps", "totalSignalWeight"}),
    Of("resonance", {"revenueData", "remainingRevenue"}) \cup Of("usdg", {"balanceOf"})>>

StrategyView == <<Of("strategy", {"currentPrice", "epochId"}), Of("usdg", {"balanceOf"})>>

BribeRewardView(a) ==
  LET tokens == <<"bribe", "rewardTokens">>
  IN  <<Of("bribe", {"rewardTokens", "totalSignalWeight", "signalWeightOf"}),
        IF Answered(a, tokens) THEN RewardTokensOf(a[tokens]) \X {"earned", "remainingReward"} ELSE {}>>

\* Bribe and payment token of a BribeRouter are immutable: only the second
\* round reads facts that change.
BribeRouterView == <<{}, Of("paymentToken", {"balanceOf"}) \cup Of("bribe", {"remainingReward"})>>

SupplyRead == <<"mine", "effectiveTotalSupply">>
RedemptionPreview == <<{SupplyRead}, Of("token", {"balanceOf"})>>

Rounds(reader, a) ==
  CASE reader = "readSupplyView"                 -> SupplyView
    [] reader = "readMineSlotView"               -> MineSlotView
    [] reader = "readMineRevenueDestinationView" -> MineRevenueDestinationView(a)
    [] reader = "readSignalView"                 -> SignalView
    [] reader = "readSignalPortfolio"            -> SignalPortfolio
    [] reader = "readResonanceView"              -> ResonanceView
    [] reader = "readStrategyView"               -> StrategyView
    [] reader = "readBribeRewardView"            -> BribeRewardView(a)
    [] reader = "readBribeRouterView"            -> BribeRouterView
    [] reader = "readRedemptionPreview"          -> RedemptionPreview

Idle == [reader |-> "none", pinned |-> NoBlock, expected |-> NoBlock, answers |-> <<>>]

\* The keys asked for and not yet answered: a round starts when the one before
\* it is complete.
Outstanding(r) ==
  LET rounds == IF r = Idle THEN <<>> ELSE Rounds(r.reader, r.answers)
      open   == {i \in DOMAIN rounds : rounds[i] \ DOMAIN r.answers # {}}
  IN  UNION {rounds[i] \ DOMAIN r.answers : i \in {j \in open : \A k \in open : j <= k}}

\* The checks on the answers that do not hold of every block.
AnswersAccepted(r) ==
  r.reader = "readRedemptionPreview" /\ Answered(r.answers, SupplyRead)
    => GbxAmount <= SupplyOf(r.answers[SupplyRead])

-----------------------------------------------------------------------------
Init ==
  /\ chain \in {<<l>> : l \in Labels}
  /\ seen = {chain}
  /\ reorgs = 0
  /\ request = Idle
  /\ views = {}

\* The chain: a block is mined, or the blocks from a height on are replaced.
NewChain(c) ==
  /\ BlocksReturn \/ c \notin seen
  /\ chain' = c
  /\ seen' = seen \cup {c}
  /\ UNCHANGED <<request, views>>

MineBlock(l) ==
  /\ Len(chain) < MaxHeight
  /\ NewChain(Append(chain, l))
  /\ UNCHANGED reorgs

Reorganise(n, l) ==
  /\ reorgs < MaxReorgs
  /\ l # chain[n]
  /\ reorgs' = reorgs + 1
  /\ NewChain(Append(Block(n - 1), l))

\* A plausible slip: the hash is only looked at when the caller gives a height too.
Bug_ExpectedIgnored(height, expected) == height = Len(chain) \/ expected \in {NoBlock, Block(height)}

\* The hash the caller expects of the pinned block, where it gives one.
HashAsExpected(height, expected) == expected \in {NoBlock, Block(height)}

\* pinBlockSnapshot: the latest block or the one at a height the caller gives,
\* refused when the caller expects another hash.
PinBlockSnapshot(reader, height, expected) ==
  /\ request = Idle
  /\ Cardinality(views) < MaxViews
  /\ HashAsExpected(height, expected)
  /\ request' = [reader |-> reader, pinned |-> Block(height), expected |-> expected, answers |-> <<>>]
  /\ UNCHANGED <<chain, seen, reorgs, views>>

\* read: one readContract by block number, answered from whatever block has
\* that number now.
Read(key) ==
  /\ request # Idle
  /\ key \in Outstanding(request)
  /\ Len(request.pinned) <= Len(chain)
  /\ request' = [request EXCEPT !.answers =
                   [k \in DOMAIN @ \cup {key} |->
                      IF k = key THEN Block(Len(request.pinned)) ELSE @[k]]]
  /\ UNCHANGED <<chain, seen, reorgs, views>>

\* revalidateBlockSnapshot: the pinned number still has the pinned hash.
Bug_NumberOnly(r) == Len(r.pinned) <= Len(chain)
Revalidates(r) == Canonical(r.pinned)

\* The RPC has no block of that number any more: the read fails, and with it
\* the whole view.
Bug_AwaitBlock(r) == FALSE
BlockMissing(r) == Len(r.pinned) > Len(chain)

Fail ==
  /\ request # Idle
  /\ \/ BlockMissing(request)
     \/ ~AnswersAccepted(request)
     \/ Outstanding(request) = {} /\ ~Revalidates(request)
  /\ request' = Idle
  /\ UNCHANGED <<chain, seen, reorgs, views>>

Return ==
  /\ request # Idle
  /\ Outstanding(request) = {}
  /\ AnswersAccepted(request)
  /\ Revalidates(request)
  /\ views' = views \cup {request}
  /\ request' = Idle
  /\ UNCHANGED <<chain, seen, reorgs>>

Client == (\E key \in Outstanding(request) : Read(key)) \/ Fail \/ Return

Next ==
  \/ \E l \in Labels : MineBlock(l)
  \/ \E n \in DOMAIN chain, l \in Labels : Reorganise(n, l)
  \/ \E reader \in Readers, n \in DOMAIN chain, e \in seen \cup {NoBlock} : PinBlockSnapshot(reader, n, e)
  \/ Client

\* Every RPC request ends with an answer or an error.
Spec == Init /\ [][Next]_vars /\ WF_vars(Client)

-----------------------------------------------------------------------------
BlocksType == {NoBlock} \cup seen

TypeOK ==
  /\ chain \in seen
  /\ \A b \in seen : b # <<>> /\ Len(b) <= MaxHeight /\ \A i \in DOMAIN b : b[i] \in Labels
  /\ reorgs \in 0..MaxReorgs
  /\ \A r \in views \cup {request} :
       /\ r.pinned \in BlocksType /\ r.expected \in {NoBlock, r.pinned}
       /\ \A k \in DOMAIN r.answers : r.answers[k] \in seen

\* A view that reaches the caller is complete and every fact in it is of the
\* pinned block, although its reads were served one by one while the chain
\* was reorganised (readers.ts: "from one canonical block").
ViewsAreOfOneBlock ==
  \A v \in views :
    /\ Outstanding(v) = {}
    /\ \A k \in DOMAIN v.answers : v.answers[k] = v.pinned

\* Views taken with the same expected hash can be combined: each fact of each
\* is of the block with that hash (ReadOptions.expectedBlockHash).
ExpectedHashBinds ==
  \A v, w \in views :
    v.expected = w.expected /\ v.expected # NoBlock =>
      \A j \in DOMAIN v.answers, k \in DOMAIN w.answers : v.answers[j] = w.answers[k]

\* A requested view has to be returned or fail: whatever happens to the chain,
\* no request hangs between its rounds.
Waiting == request # Idle
=============================================================================
