# Gumball: specification and verification

TLA+ specifications of the Gumball repository: the protocol's contracts
(`src/packages/contracts/src`), their launch, the subgraph and the SDK that read
them, the simulations and release tooling that vouch for them, and the models
that drive the figures of the two web applications; the TLC runs that check them
on small instances; and TLAPS proofs of theorems about the Mine that hold for
every value of the constants. `PROJECT.json` lists, for every definition, the
source lines it models, for every run, its properties, and for every property a
plausible mistake in the code that breaks it.

    tlc -workers 2 -config MCMine.cfg Mine             # a run
    tlapm MineProofs.tla                                # the proofs

## The system

GBX is a token that is issued by mining slots, each in a Dutch auction paid in
USDG. Most of a payment goes to the miner who is replaced, the rest is protocol
revenue. Holders deposit GBX to signal for strategies; revenue is streamed to
the strategies in proportion to their signal. A strategy sells the USDG it has
earned, again in a Dutch auction, for its payment token, which goes partly to
the Fund and partly, as a bribe, to those who signalled for the strategy. GBX is
redeemed for its part of the Fund.

### The contracts

| Component | State it keeps | Operations that change it |
|---|---|---|
| `GBX` | the one minter, balances, lifetime minted and burned | `setMinter` `mint` `burn` |
| `Mine` | slots (epoch, start, price, miner, rate, start of emission), claims of replaced miners, the aggregate rate and pending-emission accumulators | `mine` `claimMinerPayment` `mintGenesisLiquidity` `setResonanceRouter` |
| `ResonanceRouter` | its USDG balance | `route` |
| `Resonance` | registered and live strategies, total signal, the revenue stream and its index, what each strategy has earned, the bribe share | `addSignalFor` `removeSignalFor` `claimBribeRewards` `notifyRevenue` `distributeRevenue` `setResonanceRouter` `setBribeBps` `addStrategy` `killStrategy` `addBribeRewardToken` |
| `Bribe`, one per strategy | the weight of each account, a reward stream and index for each token | `addSignalWeight` `removeSignalWeight` `addRewardToken` `notifyReward` `claimReward` `claimRewards` |
| `SignalGBX` | sGBX balances, delegates and votes | `addSignal` `addSignalMany` `removeSignal` `removeSignalMany` `setResonance` `delegate` |
| `Strategy`, one per strategy | epoch, its price and start, USDG | `buy` |
| `BribeRouter`, one per strategy | its balance of the payment token | `route` |
| `Fund` | its token balances | `redeem` `burnGBX` |
| factories, `GBXLauncher` and its four deployers | one-time bindings, pending owners | `setResonance` `createStrategy` `createBribe` `launch` `acceptOwnership` |
| `SignalPortfolioLens` | none | |

How they interact:

- `Mine.mine` takes a payment, settles the replaced tenure (it mints the GBX),
  credits the replaced miner and transfers the revenue to the `ResonanceRouter`.
- Anyone calls `ResonanceRouter.route`, which holds what would make too thin a
  stream and otherwise starts a new seven-day period in `Resonance`. Anyone
  calls `distributeRevenue`; `Strategy.buy` does so itself.
- `SignalGBX` is the only caller of `addSignalFor` and `removeSignalFor`, and
  `Resonance` the only caller of a Bribe's weight changes, so an account's
  sGBX, its weights in the Bribes and the totals change in one transaction.
- `Strategy.buy` calls `Resonance`, then the payment token, which may call the
  buyer, who may call anything; it pays the `Fund` and the `BribeRouter`.
- `Fund.redeem` divides by the effective supply that the `Mine` reports, which
  counts emission not minted yet, and calls every selected token in turn.
- `GBXLauncher.launch` deploys and binds everything at addresses that follow from
  its own, seeds the Uniswap pair, checks the graph it has made and offers Mine
  and Resonance to governance, which accepts each later.

### Around the contracts

| Component | State it keeps | What changes it |
|---|---|---|
| subgraph | entities folded from events, block by block | handlers; a reorganisation returns to an earlier block's entities |
| SDK | none between calls; within one, the block a view is pinned to and what was read | `read...` views, `build...` orders, `planAddSignals` and its executions |
| simulations | the books of the independent conservation models | `notify` `setWeight` `distribute` `claim` ... |
| deployment configuration and release tooling | files of evidence: asset manifest, pin, authorization ledger, deployment manifest, registry archive, smoke and vulnerability reports | one program each, run by operators who may edit, check out, crash and run again |
| landing page | one animation loop, observers, a model per figure | frames, scrolls, the reduced-motion preference, absences |
| web application's home page | the live boards' loop and models | frames, React effects, observers, burns |
| demo contracts, test doubles, audit harnesses | not part of the running system | |

What is hard about it:

- **Sums kept in constant time.** The Mine's pending emission, the signal
  totals and the reward indexes are each updated incrementally and stand for a
  sum over parties nobody visits. One wrong order of "settle, then change the
  weight" is only visible several transactions later, as insolvency.
- **Rounding.** Every share is floored, in contracts that must stay able to pay
  every claim whatever the order of claims.
- **Callbacks.** `buy`, `redeem` and `launch` hand over control half way through.
- **Ordering.** Every call is permissionless and may come between any two
  others: kill against signal, route against route, a burn inside a redemption.
- **Limits.** Lifetime caps, clamps of prices, at most sixteen reward tokens, the
  final live strategy, an index that must never overflow because withdrawal of
  signal would then revert forever.
- **Reorganisations.** A view, a candidate, a pin or a confirmation is made of
  many reads by block *number*; the block under that number may be replaced
  between any two.
- **Evidence.** A tool reads files that somebody may edit, in a repository that
  may be checked out elsewhere, and may be killed between two of its outputs or
  be running twice.
- **Stale clients.** A quote, an allowance, a boundary is read at one block and
  used at a later one.
- **Loops.** A frame, an observer's report, a media query's event, an effect and a
  timer each arrive in a task of their own; a loop that stops itself must be
  started again by whoever becomes visible later.

Each hazard is in `PROJECT.json` at its line, with the properties that would
catch it, or the reason why none does.

What makes each component correct:

| Component | Properties |
|---|---|
| GBX and Mine | issuance is bounded by the schedule, minted supply reconciles with tenures, pending emission is exact, all claims are backed by USDG |
| Resonance and Bribe | solvency, the totals are the sums they divide for, nothing already earned changes, dead strategies earn nothing, no withdrawal is ever blocked, what is held back is routed in the end |
| SignalGBX | receipts are signal and are backed by GBX, votes follow delegation, every account can always leave |
| Strategy and BribeRouter | an open purchase always completes as priced, all revenue and payments are accounted for |
| Fund | a completed redemption dilutes no selected token, honest tokens always redeem |
| launch | outsiders can spoil a launch but not alter one; it is governed in the end |
| subgraph | entities are the contracts' state at their block; it never stops for good |
| SDK | a view is of one block; an order fills as quoted; a plan does what was entered |
| simulations | the same numbers as the contracts, books that balance |
| release tooling | what is accepted is of one block, one build, one signed document, whatever changed meanwhile |
| applications | what is drawn balances; what is on screen runs, what has not been seen or is over does not |

The rows of the contracts correspond to the identities in
`src/docs/INVARIANTS.md` and `src/docs/SECURITY-INVARIANTS.md`, read off the code
rather than the documents.

## The modules

| Module | Models | Builds on |
|---|---|---|
| `Sums` | the sum of a table over its first n entries, as a recursive function; what it does when an entry changes, when tables are added, its bounds, all proved | |
| `GBX` | `core/GBX.sol` | `Sums` |
| `Mine` | `core/Mine.sol` | `GBX` |
| `Issuance` | abstract: what the Mine promises about issuance | |
| `MineProofs` | the theorems about the Mine, and about orders quoted from it | `MineQuotes` |
| `RewardStream` | the stream and index that Resonance and every Bribe share, as operators on a record | |
| `Bribe` | `core/Bribe.sol`, all Bribes at once | `RewardStream` |
| `Resonance` | `core/Resonance.sol`, `core/ResonanceRouter.sol` | `Bribe` |
| `ResonanceProofs` | what one stream keeps: solvency, the bound of its index, what a settlement may change; the theorems about Resonance and the Bribes | `Resonance`, `Sums` |
| `SignalGBX` | `core/SignalGBX.sol` | `Resonance` |
| `SignalProofs` | the theorems about SignalGBX, and Resonance's under it | `SignalGBX`, `ResonanceProofs` |
| `Strategy` | `core/Strategy.sol`, `core/BribeRouter.sol` | `Resonance` |
| `StrategyProofs` | the theorems about the auctions and the BribeRouter, and Resonance's under them | `Strategy`, `ResonanceProofs` |
| `Fund` | `core/Fund.sol` | `GBX` |
| `FundProofs` | the theorems about redemption | `Fund` |
| `Launch` | `launch/GBXLauncher.sol`, its deployers, the handover of ownership | |
| `LaunchProofs` | the theorems about the launch | `Launch` |
| `Subgraph` | the handlers of `packages/subgraph`, graph-node, the events of the contracts | |
| `BlockReads` | the composed views of the SDK over a chain that reorganises | |
| `Emissions` | the SDK's and the simulations' copies of the issuance and settlement arithmetic | |
| `MineQuotes` | a client that quotes, orders and is filled later | `Mine`, `Emissions` |
| `SignalPlan` | the SDK's signal allocations and planner | |
| `RevenueModel` | the simulations' model of Resonance | `RewardStream` |
| `RewardModel` | the simulations' models of Strategy payments and Bribe rewards | |
| `StockCandidate` | the asset manifest: who controls the stock tokens, from logs and pinned reads | |
| `Preflight` | the deployment authorization, its checks, ledger and receipt | |
| `ReleaseManifest` | the deployment manifest's recording, signing and validation | |
| `PinnedEvidence` | the nightly pin, the bytecode manifest, the fork evidence | |
| `BridgeCandidate` | the wrapped-Bitcoin bridge resolution | |
| `RegistryRevalidation` | the registry revalidation, its archive and artifact | |
| `ContainerGate` | smoke test, inventory and vulnerability gate of the web image | |
| `EvidenceProofs` | the theorems about the eight modules `BlockReads` and `StockCandidate` to `ContainerGate`, a section each | these, `Sums` |
| `Harness` | the landing page's loop, observers and preference | |
| `MineBoard`, `AuctionPanel`, `ResonancePanel` | the landing page's models of the Mine, one auction, the stream | |
| `OverviewVessel` | the fund's vessel in the landing page's overview | |
| `PlateMachine` | the landing page's plate down to its Router: its schedule of takes, what is drawn and what waits, what is booked and routed | |
| `FlowGrammar`, `SpecimenEvents` | the specimen page's running figure and its flashes | |
| `LiveBoards`, `LiveFlow`, `LiveMine` | the home page's loop with the fund's burn, its Resonance, its Mine | |
| `MCFund` | model values and small tables for TLC; the other contracts need none, their configurations give the constants | `Fund` |
| `MCOperations`, `MCClients` | the same for everything around the contracts, as unions | below |

### How state and actions correspond to the code

- **One action of a contract is one transaction.** A transaction runs alone and
  entirely or not at all, so an action models a whole external function with all
  it calls: a `require`, a checked subtraction, a transfer that would fail are
  guards, and a transaction that reverts is no step. `nonReentrant` functions
  whose callees are trusted need no more.
- **Except where control leaves the protocol.** `Strategy.buy` is `BuyBegin` and
  `BuyFinish`, with the payment token's call between them; any other action may
  run there, purchases from other Strategies included, and the open purchases form
  a stack. Time stands still while one is open. `Fund.redeem` is `RedeemBegin`, one
  `PayToken` for each selected token, and `RedeemEnd` or `Revert`, which restores
  the state saved at the beginning, what the callbacks changed included. `launch` is
  cut in the same way at USDG's `transferFrom` and at the launcher's own transfer
  to the pair; a check that fails restores what was there before it.
- **One action of an asynchronous program is what runs between two awaits.** In the
  SDK and the release tooling every `await` of a read is a step, answered by the
  chain, the file system or the registry as it is at that moment; the reads of one
  `Promise.all` are answered in any order. Where two answers cannot differ in the
  model, their reads are one step: the facts of one token in `StockCandidate`, of
  which only its pauses are data of the chain there. The world moves in between: blocks are
  added and replaced, files edited, branches checked out, time passes, a process is
  killed.
- **In the browser** one action is one task: an animation frame, a delivery of an
  observer's entries, a media-query event, a flush of effects, a timer.
- **Time** is `now`, a block timestamp; `Tick` advances it and any number of
  transactions may share it. The figures' clocks are in units named in their
  modules, coarse enough that what a frame may skip can be skipped.
- **Addresses** are numbers where a sum ranges over them (accounts, slots,
  strategies) and model values elsewhere. A strategy, its Bribe and its
  BribeRouter, which are created together and bound to each other for ever, share
  a number.
- **Solidity constants** are CONSTANTS with named assumptions that say what the
  code relies on, so the configurations can use small ones and the theorems hold
  for all.
- **Words.** `WORD_MAX` is `type(uint256).max` for the indexes and lifetime caps,
  where the code itself guards against overflow with lifetime caps; the other
  values are unbounded integers here, being bounded far below a word by token
  supplies and by clamps. Division truncates as in Solidity. The `e18`
  fixed-point precisions are constants, and small enough that rounding happens in
  almost every step. The Mine's locked rates are whole GBX units per second, with
  the truncation of `globalTps / SLOT_COUNT` in them.
- **Batches** (`addSignalMany`, `removeSignalMany`, `claimBribeRewards`) are written in
  closed form. Settling the same stream twice at one timestamp is idempotent, so
  taking the iterations of one transaction together does not change its result,
  and a batch that names a strategy twice is the batch that names it once with the
  sum.
- **Blocks** have an identity their hash stands for: in `BlockReads` the labels of
  their whole ancestry, in the tooling the reorganisation or number that made them.
- **Hashes and signatures are perfect**: a hash stands for what it hashes, a
  signature says what it signs.
- **`Bug_...` definitions** stand before the definition they are a variant of. No
  specification uses them: each is a mistake that the property `PROJECT.json`
  pairs it with detects.

Definitions of inherited or external code (ERC-20 transfers, `ERC20Votes`, RPC
endpoints, graph-node, the browser) are modelled as the code uses them and marked
external in the map.

### External tokens

USDG is a token that transfers exactly what it is told, as `SafeERC20` and the
deployment assume. The Fund is different, because it lets the redeemer name any
address: there, `Reports` says which ledger a token reports, `AlsoDebits` which
others its transfer debits, and `Fee` what it keeps. The launch is different,
because USDG is taken there before anything is checked: it may call anybody
back (`MaxCalls`).

## The runs

| Run | Question | Instance |
|---|---|---|
| `mine` | Is the constant-time accumulator exact and issuance on schedule, whatever slot is replaced when, and can the Mine always pay its claims, with donations, burns and changes of Router? | two slots, two users, two Routers, a halving at 2, a tail rate, time up to 4 |
| `resonance_revenue` | Is the revenue stream solvent while signal moves and strategies die, up to the lifetime cap, and is held revenue routed in the end? | two strategies, one account, a stream of 2 seconds, precision 3, words up to 18, time up to 3 |
| `resonance_rewards` | The same for the rewards of one Bribe, with partial withdrawals and batched claims | one strategy, two accounts, time up to 4 |
| `resonance_lifecycle` | Does the total that divides revenue survive adding, killing and withdrawing from the dead? | three strategies, two accounts, two tokens, a changing bribe share, no time |
| `signal_receipts` | Do receipts, signal, escrow and votes stay the same numbers? | two accounts, three strategies, no time |
| `signal_exits` | Can every account always withdraw everything? | one account, two strategies, the caps reachable |
| `strategy_nested` | Does a purchase survive whatever its callback does? | two strategies, nested purchases |
| `strategy_payments` | Does every unit sold and paid arrive where it should? | one strategy, several epochs, a changing bribe share |
| `fund_redemption` | Does a completed redemption ever dilute? | an honest token, an alias of it, a facade that debits it, a taxed token; one redeemer |
| `operations` | Is what is launched, accepted, read, quoted, indexed and drawn of one block, one build, one signed document, and the contracts' own numbers? | thirty-four parts, below |
| `clients` | Does what has begun end, and what is on screen run, under fair scheduling? | seven parts, below |
| `plate` | Is a payment booked when its stream lands, as the landing page's plate says? It is not: see below | three slots, two seeds, frames shorter than a take is drawn; alone, since TLC is to stop at it |

The configurations of the contracts turn off what another run covers (an empty
set of amounts disables an action), which is how each stays small enough to be
exhausted while together they fire every action. Why the bounds are enough:

- The accounting is linear in each party, and every error the properties exclude
  is between a party that acts and one that does not: two of them show it.
- Where time matters to the question, it runs past the end of a period (stream,
  auction, halving), so that calls fall within one, exactly at its end, and after
  it; a second period starts both by rollover and after the first has ended.
  `resonance_lifecycle` and `signal_receipts` ask about sums that time does not touch, and `strategy_nested` about one timestamp's nested calls at several prices.
- Precision, basis points and multipliers are not divisors of the amounts, so
  rounding happens; caps and clamps lie within reach of the amounts allowed.
- Every property has a mutant of the code that breaks it within the same bounds.

### The two unions

`MCOperations` and `MCClients` check many small components that share no state.
Each *part* is an instance of one module over the variables `x1`, `x2`, ..., in the
order in which the module declares its own; `part` is chosen in the initial state
and never changes. A behaviour of the union is therefore a behaviour of one part,
and since no part can see another, what holds of each of them alone holds of all
of them side by side. A property of the union is a conjunction of implications
`part = "..." => ...`, each naming the properties of that part, which are defined
and explained in the part's own module. `OperationsAssumption` and
`ClientsAssumption` assert the parts' assumptions on their constants.

| Parts of `operations` | Module | Instance |
|---|---|---|
| launch | `Launch` | two launchers, one USDG of genesis liquidity, outsiders who send at most 2 and are called back at most once |
| stock, lossy stock | `StockCandidate` | one token, two accounts and roles, histories of two blocks; once with a reorganisation, once from an endpoint that omits events |
| preflight, preflights | `Preflight` | one process against three changes of the world and six documents; two processes over one ledger |
| manifest, graph | `ReleaseManifest` | edited, signed (twice at most) and committed while it is validated; recorded in every way, with a repeated, missing or zero address |
| pin, bytecode, fork | `PinnedEvidence` | a depth of one block; six blocks in all, so that a buried one can be replaced; the code of two accounts; chains of up to four blocks with time |
| bridge, flawed bridge | `BridgeCandidate` | a sound bridge replaced in one of eight facts between two reads; different from the beginning in any one of the facts it is judged by |
| gate | `ContainerGate` | two builds, one vulnerable later; two runs of the smoke test, two moves of the tag |
| registry, registries | `RegistryRevalidation` | two source commits with three evidence commits, one of which comes later; two processes with one output path |
| reads, paired reads | `BlockReads` | two blocks of every height, one reorganisation; all ten views, then two views with one expected hash |
| signals, money, bribed | `Subgraph` | four blocks, one of them replaced; the transactions of signal, those of money, those of rewards |
| quotes | `MineQuotes` | two slots and two users, halvings at 1 and 2 |
| plans | `SignalPlan` | two strategies in three rows, sums beyond a word |
| schedules | `Emissions` | twenty-seven curves whose halvings divide or do not, up to time 24 |
| revenue, rewards | `RevenueModel`, `RewardModel` | two strategies, two users, weights that do not divide the amounts |
| restarts, panels | `Harness` | one panel under a changing preference and a page started twice; two panels, one of which may throw |
| auction, stakes, burns, flow, slots, grammar, plate, vessel, steady vessel | the models of the figures | the page's constants in coarse units |

| Parts of `clients` | Module | Instance |
|---|---|---|
| governed launch | `Launch` | two launchers, one unit that outsiders can spoil one of them with |
| reads | `BlockReads` | two views, one reorganisation |
| indexing | `Subgraph` | two strategies added, killed and rewarded over four blocks, one of them replaced |
| panel, boards | `Harness`, `LiveBoards` | one panel; the fund's board and another |
| tenure | `MineBoard` | one vacancy and two occupied slots |
| swatches | `SpecimenEvents` | two swatches with the page's times |

Bounds that have a name of their own (`MaxReorgs`, `MaxMoves`, `MaxRuns`,
`MaxStarts`, `MaxViews`, `MaxBlocks`, ...) limit what the environment does; each is
at least the number of interferences that the property's mutant needs.
`Changing` limits which of the bridge's facts differ after a reorganisation to
those that other reads depend on.

**Deadlock** is not checked: the bounds on time, epochs, blocks and moves stop a
model in which the real system goes on.

### Fairness

Nothing in the protocol runs by itself: every contract step is somebody's
transaction, so what says that something remains possible (`ExitsStayOpen`,
`RewardsRoutable`, `PurchasesComplete`, `HonestTokensRedeem`) is stated as a state
property, with `ENABLED` or with the guard that must hold. Fairness is assumed in
two places.

`HeldSpec`, of `Resonance`, assumes that time goes on and that somebody calls `route` whenever
it would do something (weak fairness of `Tick` and of `Route`): `route` is
permissionless so that anyone who wants the strategies to earn may call it.

`MCClients` assumes

- weak fairness of a client's next request, of graph-node's next block and of the
  steps of a running launch transaction: an RPC endpoint answers or fails, a
  transaction ends;
- weak fairness of the browser's frames, deliveries, timers and animations and of
  React's effects, each by itself: what is queued is run;
- strong fairness of the beginning of each launch and of governance's acceptance:
  outsiders can make the attempt impossible for a while, and those who want a
  launch try again. That a launch then succeeds uses that a unit sent to one
  predicted pair is spent: outsiders cannot spoil every launcher.

Nothing is assumed of reorganisations, scrolls, preferences and outsiders.

## What the properties say

- **Mine.** `PendingIsSum` and `AggregateRateIsSum`: the accumulators equal the
  sums over all slots that they replace. `ClaimsBacked`: USDG held covers all
  claims. `IssuanceReconciles`, `IssuanceBounded`: minted GBX is genesis plus
  settled tenures, and with what is pending never exceeds what the initial rate
  would have produced plus genesis, although old tenures keep their rate over
  halvings. `ImplementsIssuance`: the Mine refines `Issuance`, with emission
  counted in the second it accrues.
- **Resonance and Bribe.** `RevenueBacked`, `RewardsBacked`: all that could be
  claimed now plus all that is still to stream is held. `EarnedOnlyPaid`,
  `RewardsOnlyPaid`: at one timestamp no transaction changes what anyone has
  earned except the one that pays it, which is what "settle before you change a
  weight" is for. `SignalTotals`, `DeadStrategiesEarnNothing`, `RoutedStreamsPay`.
  `HeldRevenueIsRouted`: what the Router holds because it would make too thin a
  stream becomes routable when the running one ends, and is routed.
- **SignalGBX.** `ReceiptsAreSignal`, `VotesAreDelegated`, `ExitsStayOpen`: the
  whole position can be withdrawn in one transaction in every reachable state, the
  lifetime caps reached included.
- **Strategy.** `PurchasesComplete`: an open purchase is still for the epoch on
  sale, at its price, with its USDG there, whatever happened in the callback.
  `PurchaseTakesEverything`, `RevenueConserved`, `PaymentsReachRecipients`,
  `RewardsRoutable`.
- **Fund.** `RedemptionDoesNotDilute`: after a redemption that completes, each
  selected token's balance per unit of effective supply is at least what it was,
  aliased and side-effecting tokens included. `HonestTokensRedeem`: the checks
  that achieve this never stop an honest selection.
- **Launch.** `LaunchesUntouched`: a launch that succeeds leaves every binding,
  balance and owner as an undisturbed one does. `RevertsForThePair`: only USDG at
  the predicted pair, a callback or an empty wallet makes it fail. Both are in
  `OutsidersChangeNothing`. In `SettlesInTheEnd`, `Governed`: some graph's Mine and
  Resonance are both accepted.
- **SDK and subgraph.** `ReadsAreOfTheChain`: every fact of a view is of the block
  it names, two views with one expected hash are of one block; an entity at a block
  is what the contracts hold there. `FilledAsQuoted`: an order that fills replaces
  the miner that was shown, for no more than the price shown, and at the rate
  promised if its deadline is before the boundary shown. `ClientsComputeTheSame`:
  the arithmetic copies agree with the Mine in all its reachable states; a plan
  executes as entered, within the allowance. `SettlesInTheEnd`, `CaughtUp`: no event
  stops the subgraph. `BegunIsEnded`: no view waits for ever.
- **Simulations.** `FollowsTheKernel`: each operation of the independent model does
  to the stream what `RewardStream` does, which the contracts share; its books
  balance. `WeightsActForward`: a weight earns from its own moment on.
- **Release tooling.** `EvidenceIsOfOneBlock`, `ManifestIsOfTheAsset`,
  `ApprovalsAreSigned`, `EvidenceIsOfTheBuild`: what is accepted was true at one
  block, signed by those who must, committed as it was checked, and about the one
  image its evidence names, whatever moved between the reads; one authorization has one consumer, and
  no archive is replaced.
- **Applications.** `ModelsKeepTheirBooks`, `ModelsMoveByTheScript`: stakes, streams,
  minted emission, vessels and their spheres balance over any sequence of frames,
  burns taken one at a time, resizes and absences, no frame does what only the script may do, and
  the slot that changes hands on the plate is the one that was lit.
  `PanelsFollowTheReader`, `NothingMovesUnderTheReader`: nothing runs before it has
  been seen, what was away too long begins anew, and nothing in view is rewound.
  `OnScreenRuns`: what stays on screen is stepped for ever.

Types are checked with the property that needs them most: `TypeOK` of Resonance in
`RevenueBacked`, `SignalTypeOK` in `ReceiptsAreSignal`, `StrategyTypeOK` in
`RevenueConserved`, `FundTypeOK` in `HonestTokensRedeem`; those of the union's
parts in `TypeInvariant` and `PanelsFollowTheReader`. The Mine's `TypeOK` is a
property, and a theorem, of its own.

### What the models showed of the code

One comment is contradicted by what its code does in a run of its own, which is the
finding in `PROJECT.json` and the run `plate`:

- `Plate.tsx:1593` says that a payment is held back until its stream lands, and line
  2687 that what came in less what was routed, is held and is in flight closes in a
  frame. Lines 1608-1612 move the take that begins from `queued` to `packets` after the
  packets have been added up and before the queue is: in that frame its deposit is
  in neither sum and is booked, and may be routed, at the beginning of the drawing
  instead of its end. `PaymentsLandWhenDrawn` fails at the first take. What does
  hold, and is checked in `operations`, is `RouterInventsNothing`: nothing is booked that
  was not deposited, and what is not booked is on its way.

The rest are choices of the code that a reader of the properties should know, and
that bound what they say:

- `sdk/src/block-snapshot.ts:47` reads the pinned header once more after the reads. If
  a replaced block *returned* in between (A, B, A), reads of B would be accepted as
  A's. The model excludes it (`BlocksReturn <- FALSE`): a replaced branch does not
  come back within one view.
- `validate-deployment-manifest.ts` takes the evidence paths and digests from the
  first of its two parses of the manifest (line 118); `AcceptedIsCommitted` says
  that the second one, of the committed bytes, is the same document.
- `robinhood-asset-manifest.ts:1280` compares the pinned block's hash and then reads
  beacon, implementation and every token once more (1284-1338). A reorganisation
  during these last reads goes unnoticed if their answers stay the same, so
  `RecordedControlsAreReal` is about the block the candidate names, which the
  chain need not hold any more when the candidate is written.
- `container-smoke.mjs:287` gives `docker run` the image reference again, not the id
  inspected at line 269. `PassedIsOneImage` is about the image the evidence names;
  the container that was probed is what the tag meant at that line, and is sure to be that
  image only if the tag never moved. A new smoke run may begin after the gate
  has read its inputs; the summary is of the evidence it read.
- `harness.ts:129` stops every panel when reduced motion is switched on, and
  switching it off starts none: a panel runs again when its observer next reports
  it. `OnScreenRuns` is about readers whose preference is steady. A page that is
  started again may rewind a board in view, so `NeverRewoundInView` is asked of
  one start.
- `live-boards.tsx:726` says that a chosen slice of the supply is exactly the slice of
  every holding that leaves. `onBurn` (lines 781-788) may be called while a burn is
  played, and `live-sim.ts:482` then starts from nothing with the new slice, or
  line 474 drops the old one when motion was turned off: what was left of the
  earlier slice stays, although its receipt was given. `SlicesLeaveWhole` fails
  at such a second burn (with `BurnsOverlap <- TRUE`); `operations` checks what does
  hold, that burns taken one at a time (`BurnsOverlap <- FALSE`) leave whole across scrolls,
  stages and preferences.
- `Overview.tsx:741`: a resize seats the vessel anew and forgets the slice that was
  marked, so that cycle may end without a burn; `EveryCycleBurns` is asked of
  the steady vessel. The comment at line 1428 is about the moment an arrival is
  sent: one already in flight when a slice begins to leave can still cross it.
  `staticMode` (line 2603) is never taken back: a still stays one.
- The header of `redeem.ts` speaks of refills that push an amount above its base,
  which the `Math.min` of its line 149 prevents.

## What is proved

The core contracts, for every number of slots, accounts, strategies, tokens and
ledgers, every amount and every value of the configuration that satisfies the
named assumptions (`GBXAssumption`, `MineConstants`, `MineAddresses`,
`StreamConstants`, `BribeConstants`, `ResonanceConstants`, `SignalConstants`,
`StrategyConstants`, `FundConstants`, `LaunchConstants`): sets of accounts are not empty, durations,
precisions and scales are positive, amounts are naturals, a bribe share is at most
the whole, a price lies within the clamps that the constructors enforce. The bounds
that make TLC's instances finite (`MaxTime`, `MaxEpoch`, `MaxSignal`, `Deadlines`, the
sets of amounts, ...) are arbitrary in the theorems, so they restrict nothing, and
`WORD_MAX`, from which the lifetime cap follows, is any natural. What is assumed of the
tools around the contracts is listed under Evidence.

| Theorem | Establishes |
|---|---|
| **`MineProofs`** | |
| `TypeCorrect` | the clamp of prices and the non-negativity of all balances |
| `PendingExact`, `AggregateExact` | the pending emission and the aggregate rate are the sums over the slots (`PendingIsSum`, `AggregateRateIsSum`) |
| `ClaimsAlwaysBacked` | every claim can be paid (`ClaimsBacked`) |
| `IssuanceSound`, `IssuanceUnderCurve` | issuance reconciles with GBX's counters and is bounded by the schedule (`IssuanceReconciles`, `IssuanceBounded`) |
| `MineImplementsIssuance` | every step of the Mine is a step of `Issuance` or leaves it alone |
| `OrdersAreFilledAsQuoted` | `FilledAsQuoted` of `MineQuotes`: an order from any view, however stale, replaces the miner that was seen, for no more than the price that was seen, and in time at the rate that was promised |
| **`ResonanceProofs`** | |
| `TotalsAreSums` | `SignalTotals` |
| `RevenueAlwaysBacked`, `RewardsAlwaysBacked` | all that could be claimed now plus all that is still to stream is held (`RevenueBacked`, `RewardsBacked`) |
| `StreamsPay` | `RoutedStreamsPay` |
| `UpdatesAlwaysFit` | no update of an index overflows its word, and no distribution asks for more than is held: no call can be blocked by either |
| `RevenueOnlyPaid`, `BribesOnlyPay` | at one timestamp nothing already earned changes, except by being paid (`EarnedOnlyPaid`, `RewardsOnlyPaid`) |
| `DeadStrategiesStay` | `DeadStrategiesEarnNothing` |
| **`SignalProofs`** | |
| `ReceiptsStaySignal`, `VotesStayDelegated` | `ReceiptsAreSignal`, `VotesAreDelegated` |
| `ExitsAreNeverBlocked` | every guard of the withdrawal of any part of one's own signal holds in every reachable state |
| `ResonanceSoundUnderSignal` | all invariants of Resonance and the Bribes, under `SignalSpec` |
| **`StrategyProofs`** | |
| `PurchasesAlwaysComplete` | `PurchasesComplete`, for any nesting of purchases |
| `PurchasesTakeEverything` | an epoch ends with nothing left to sell (`PurchaseTakesEverything`) |
| `RevenueIsConserved`, `PaymentsArrive` | `RevenueConserved`, `PaymentsReachRecipients` |
| `RewardsAlwaysRoutable` | every guard of routing a payment to its Bribe holds when the minimum and the cap allow it |
| `ResonanceSoundUnderTrade` | all invariants of Resonance and the Bribes, under `StrategySpec` |
| **`FundProofs`** | |
| `HonestSelectionsRedeem` | `HonestTokensRedeem` |
| `RedemptionsNeverDilute` | `RedemptionDoesNotDilute`, whatever the transfers debit and whoever burns, mints or deposits in between |
| **`LaunchProofs`** | |
| `LaunchTyped` | no balance, reserve or liquidity of a pair becomes negative, whatever outsiders take |
| `LaunchesStayUntouched` | `LaunchesUntouched`: a launch that succeeds is the one that was asked for |
| `OnlyThePairReverts` | `RevertsForThePair`: nothing but the pair, or want of USDG, vetoes a launch in which nobody is called back |
| **`EvidenceProofs`** | |
| `ViewsReadOneBlock`, `ExpectedHashesBind` | `BlockReads`: `ViewsAreOfOneBlock`, `ExpectedHashBinds` |
| `CandidatesAreOfOneBlock`, `CandidatesHaveOneControlPlane` | `BridgeCandidate`: `FactsAreOfOneBlock`, `OneControlPlane` |
| `RecordedControlsAreReal`, `PagesCoverHistory` | `StockCandidate`: the properties of these names |
| `PinsAreBuried`, `BytecodeReportsAreOfTheirBlock`, `ForkConfirmationsAreReal` | `PinnedEvidence`: `PinIsBuried`, `BytecodeIsOfThatBlock`, `ConfirmationsAreReal` |
| `ArtifactsKeepTheirArchive`, `ArtifactsAreNeverReplaced`, `AcceptedEvidenceIsOfItsCommit` | `RegistryRevalidation`: `ArtifactHasItsArchive`, `KeepsArtifacts`, `AcceptedIsOfTheCommit` |
| `SmokeIsAlwaysTheLast`, `GatePassesOneCleanImage` | `ContainerGate`: `SmokeIsOfTheLastRun`, `PassedIsOneImage` and `PassedIsClean`, of the image the evidence names |
| `AuthorizationsAreConsumedOnce`, `ReceiptsAreOfWhatWasSigned`, `ReceiptsAreAuthorized` | `Preflight`: `OneConsumer`, `ReceiptsHoldWhatWasSigned`, `AuthorizedByCommittedPolicy` |
| `AcceptedManifestsAreCommitted`, `AcceptedManifestsAreApproved`, `ApprovedDeploymentsAreOneGraph` | `ReleaseManifest`: `AcceptedIsCommitted`, `ApprovedByEveryRole`, `DeploymentIsOneGraph` |

### The Mine

The argument is one inductive invariant `IInv`. None of the properties is
inductive alone: `PendingIsSum` needs that no slot's clock is in the future
(`ClocksPast`, or settling would take out more than has accrued) and
`AggregateRateIsSum` (or time would add something other than the sum of what the
slots earn); `IssuanceBounded` needs that the rate locked in a slot is at most that
slot's share of `INITIAL_TPS` and zero in a slot without a miner (`TenureRates`),
summed over the slots; `ClaimsBacked` needs, besides types, only its own sum. A step
is taken action by action, and every action is reduced to lemmas on sums: only the
replaced slot's term changes (`SumUpdate`), time adds the rates to the terms
(`SumAdd`). The recursive definition of a sum is unfolded only in `SumTable` and
`SumStep`; everything else uses those facts.

What `OrdersAreFilledAsQuoted` adds is about time. A view is kept, in `ViewSound`, together with
what can happen to its slot since: while the epoch it saw lasts, the slot is the one it saw, and
its price can only have fallen; when the epoch is over it never returns, and the order is refused. The rate
is that of the last halving before the order, so it is the promised one unless a boundary lay
between, and the first boundary there can be is the one the view names.

### Resonance and the Bribes

`RevenueBacked` and `RewardsBacked` speak of what could be claimed at this second. As
such they are not inductive: what each participant has earned is rounded down, and
a second that passes may lift many roundings at once. The invariant of one stream,
`StreamSound`, is therefore stated at its last update and in units of one over the
precision, where nothing has been rounded: what is owed, times the precision, plus
each weight times the index it is behind (`Booked`), plus all that has still to
stream, is at most the balance (`Backed`). Settling moves rate times elapsed time from
the stream into the index and from the index into what is owed, and each division
only drops a remainder (`SettledSound`); a new period, a payment, a change of weight
and a participant that joins at the current index each have a lemma of the same
kind. `StreamSolvent` then derives the property of this second. `IndexBounded`, the
index by the precision times what was ever notified, is what keeps an update inside its
word once the lifetime cap keeps that number inside it (`IndexAlwaysFits`).

All of it holds for the weights that really divide the stream. That these add up to
the stored total is `SignalTotals`, and has to be part of the invariant: were
the total smaller than the sum, the index would promise more than it streams. So is
that a token not yet registered, or a strategy not yet added, has nothing that an
update would have to settle (`IdleUntilAdded`), since updates skip it.

The action properties come from the same lemmas: settling at one timestamp moves what
is earned from the index to what is owed without changing it (`SettledEarned`), so a
change of weight after a settlement changes nobody's earnings, and one before it would.

### SignalGBX

`SignalInv` adds to Resonance's `IInv` that receipts are the sum of an account's signal and
votes the sum of the receipts delegated (both are needed: a withdrawal is a
subtraction from each of them). `ExitsAreNeverBlocked` is what the run checks as
`ExitsStayOpen` with `ENABLED`: `ExitIsItsGuards` proves that a withdrawal is the
conjunction of its guards and of assignments, and the theorem that the guards hold, for
every part of one's signal and not only for all of it. It uses nearly everything: the totals
for the checked subtractions, `UpdatesFit` for the indexes, the backing of
receipts for the burn, that only registered strategies carry signal, and that there is no
receipt before Resonance is bound (`BoundBeforeReceipts`).

### Strategies

`PurchasesComplete` is not inductive: that finishing one purchase leaves the others
complete needs the lock, that all open purchases are of different Strategies
(`OpenOnce`); that the USDG is still there, and exactly what was bought, needs that an
open purchase took all its Strategy had and that at its timestamp nothing more can
be earned (`OpenTakeAll`), which is `RevenueStands`, what `ResonanceProofs` shows of every call
of Resonance at one timestamp; that no call moves its price needs that it is of a
Strategy that exists. The ledgers (`RevenueConserved`, `PaymentsReachRecipients`)
follow from what each call does to the money (`KeepsBooks`).

### The Fund

The payouts of a redemption are fixed before anything is burned or called, so what must
hold during the calls is that the supply, pending emission included, does not exceed what the
redemption leaves of its denominator (`CallIsPriced`): others may burn, and what the Mine
mints in a callback was pending and is counted already. `RedeemEnd` then
compares balances, and `NoDilution` is the arithmetic. `HonestLedgersHold` follows the
payments one by one: a ledger holds what was read of it until its payout, and that less the
payout afterwards, provided no other selected token debits it. A payout is no more than its
balance only because the burned amount is part of the supply, and so because the supply is the sum of
the balances. A failed check restores `before`, whose soundness is part of the invariant.

### The launch

`FinalState` does not look at who holds GBX, so that nobody does has another reason: all
there is of it is the genesis amount (`SupplyOf`), wherever outsiders move it, and the
final check finds that amount in the pair. What outsiders do is one lemma, that each of
their actions is `Harmless`: it keeps that amount, keeps the reserves within the pair's
balances (a skim subtracts one from the other), deploys nothing, and finds nothing to do in a
graph that is not deployed. Seeding and the payment have lemmas of the same kind. A reverted
launch restores `saved`, whose soundness is part of the invariant; and as long as nobody was called
back, the invariant says what the graph is at each pause (`Undisturbed`), so that every
check of the rest passes (`GenesisMints`). This uses the one relation the constants have: what is
minted for the genesis deposit is more than Uniswap's locked minimum, as it is in
`GBXLauncher` (31,622,776,601,683 to 1,000).

`LaunchesUntouched` and `RevertsForThePair` are the launch's parts of `OutsidersChangeNothing`.

### Evidence

The run `operations` checks the properties of these eight modules as parts of its unions
`EvidenceIsOfOneBlock`, `ManifestIsOfTheAsset`, `ApprovalsAreSigned`, `EvidenceIsOfTheBuild`,
`ReadsAreOfTheChain` and `OutsidersChangeNothing`. The theorems state them module by module, for any
number of processes, readers, signers, accounts and blocks. Assumed is what the part's named
assumption says (`BlockReadsAssumption`, `StockCandidateAssumption`, `PreflightAssumption`,
`ReleaseManifestAssumption`, `PinnedEvidenceAssumption`, `BridgeAssumption`,
`RevalidationAssumption`, `ContainerGateAssumption`, all evaluated by TLC in `OperationsAssumption`), and for `BlockReads`
that no replaced block returns (`~BlocksReturn`; see Assumptions).

*Reading a chain.* Every tool reads the hash first and again at the end, and believes what lies between. The
invariants say why it may: what was read can be mixed, but only if the block it was to be of
has been replaced, and then for good (`RequestSound`, `Steady`, `ReadSound`, `RunSound`). For
`BlockReads`, blocks are sequences that contain their ancestors, so that an ancestor of a block
that is still there is still there. A reorganisation of the stock candidate always replaces the
pinned block, whose tag therefore counts them (`ChainSound`); the hash read first is still
there at the comparison only if there was none since, and then all live reads before it are
those of the block that was named (`named`, which the model remembers for this). From the comparison on the chain may
change: the last reads can only refuse the candidate. What the replay holds of members and blocked accounts is all mentioned in
the log (`ReplayMentioned`), so the comparison leaves none of it out, even if the log
had holes. For `PagesCoverHistory` the log is served piece by piece (`ServedJoin`), and halving
keeps the pieces adjacent. A pin is buried since the head that was read is lowered by the depth and
heads do not decrease.

*Keeping evidence.* For each process the invariant says what it has found in the files so
far, and which other process may have written since (`WritersApart`, `RevalidationSound`,
`SigningInv`, `GateInv`). An artifact has its archive because a process writes either only where
nothing was, under a name of its own first. An authorization is consumed once because the
directory that reserves it is made by one process and never removed. Receipts, and manifests
accepted beyond the trust boundary, are of the commit since what was checked was read through
the commit and not from the worktree, which may show anything in between.

*Counting signers.* The code counts signatures; the properties speak of different
signers. `ReceiptsAreAuthorized` and `AcceptedManifestsAreApproved` need that a sequence without
repetition has as many elements as places, and `ApprovedDeploymentsAreOneGraph` that a
sequence as long as a set, with the elements of the set, repeats none of them.

### Only model-checked

- Liveness under fairness is out of the prover's reach: `HeldRevenueIsRouted`,
  `BegunIsEnded`, `SettlesInTheEnd`, `OnScreenRuns`.
- So is `ENABLED`, in `ExitsStayOpen` and `RewardsRoutable`. The two theorems about the guards
  above say the same without it.
- `ControlsAreComplete` of `StockCandidate`: the log is replayed in the order of `SortSeq`, which the
  provers know by name only. What does not depend on it is proved.
- `QuotesMatchMine` of `MineQuotes`, `Emissions`: the rate after n halvings is a quotient by 2 to
  the n, and the provers have no exponentiation.
- `SignalPlan`, `Subgraph` and the simulations' `RewardModel`: folds over rows, events and users whose
  result for every input is an induction over data.
- The models of the applications (`MCClients` and their parts of `MCOperations`), which are over
  fixed numbers of panels and pieces with the page's own constants: TLC covers what there is.

## Not modelled

- A Strategy that is itself paid in USDG, whose payment and revenue are the same
  token, and USDG sent to a Strategy or to Resonance directly.
- `ERC20Votes` checkpoints of past blocks, ERC-2612 permits, transfers of
  ownership (`Ownable2Step`) other than the launch's handover, plain transfers of
  GBX between holders.
- Gas. That batches and loops over at most sixteen reward tokens fit a block is
  measured by the repository's tests.
- The lens, which keeps no state, and the demo contracts.
- Of the SDK: generated ABIs and addresses, subgraph queries, calldata builders
  other than those of the Mine and of signal plans. They keep no state and decide nothing.
- Of the simulations: the scenarios, which choose inputs for the models, and reports.
- Of the release tooling: the schemas of single documents, formatting and network
  clients, and release preparation, which refuses to start at this commit
  (`assertCurrentReleaseToolingAvailable`).
- Of the applications: painting, layout, text, routing, the wallet, and the
  figure Fund and the plate below its Router, which are drawing over the same loop
  and the models of Resonance and an auction checked already. The names that
  `mine.ts` deals to its miners are left out of `MineBoard`, real-valued positions
  out of all figures.

The definitions stand for about sixteen per cent of the repository's 50,869 lines of
TypeScript and JavaScript, besides nearly all of the contracts' Solidity. Most of
the rest has no behaviour to specify: generated ABIs (7,000 lines), the markup and
canvas drawing of the two applications, tests, and validation of single fields.

### Assumptions

- Hashes and signatures are perfect; a block's hash is its own.
- A replaced branch does not return within one reading, and the number of the head
  that an endpoint reports does not decrease.
- An endpoint answers with what its chain holds, except where a part says it is lossy.
- USDG calls nobody back in the governed launch (`MaxCalls <- 0`); the launch of
  `operations` allows it.
- In the vessel's model the lot at `FUND_AT` is always there: the fullest channel then
  holds enough.

## Plan

Done, in this order: `Sums`, `GBX`, `Mine`, `Issuance` and their proofs;
`RewardStream`, `Bribe`, `Resonance`; `SignalGBX`; `Strategy`; `Fund`; `Launch`;
the SDK, the subgraph, the simulations; the release tooling; the
models of the applications and their loops; the proofs about Resonance, the
Bribes, SignalGBX, the Strategies, the Fund and the launch; the proofs about orders
quoted from the Mine, the SDK's reads and the evidence of the release tooling.

Next, the model: Strategies paid in USDG, and USDG donated to a Strategy, which
need the payment token's ledger and the USDG ledger to be one.

Next, the proofs: the simulations' books (`RevenueModel`) from the lemmas about one
stream in `ResonanceProofs`, once its sums are those of `Sums` and not a fold over a set;
that a plan (`SignalPlan`) moves what was entered, which needs its rows as a
recursive function and an induction over them step by step.
