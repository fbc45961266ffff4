--------------------------- MODULE StockCandidate ---------------------------
(***************************************************************************)
(* The stock-asset candidate of the deployment tooling (packages/config/    *)
(* tooling/robinhood-asset-manifest.ts): who controls the stock tokens is   *)
(* reconstructed from the complete event log of their shared beacon, read   *)
(* page by page from an RPC endpoint, and compared with live reads at one   *)
(* pinned block number, while the chain may reorganise and the endpoint may *)
(* refuse ranges or, with Lossy, leave events out of its answers.           *)
(*                                                                         *)
(* A step is the answer to one request, or to requests whose answers the    *)
(* model cannot tell apart: of a token only its pauses change with the      *)
(* chain here, so what is read of one token is one step.  The shape checks  *)
(* of single fields (hex, padding, decimals, symbol, uid, multiplier) are   *)
(* one outcome, "the token is not the recorded one".  A block's hash is     *)
(* represented by the reorganisation that made it: a replaced block does    *)
(* not come back.  The code of implementations and members is left out.     *)
(***************************************************************************)
EXTENDS Integers, Sequences, FiniteSets, SequencesExt

CONSTANTS Tokens, Roles, DefaultAdmin, BeaconUpgrader, Accounts, Impls,
          Nothing,     \* the null value of the code
          Height,      \* the pinned block number
          MaxReorgs,   \* bound: reorganisations
          Events,      \* what may happen in a block
          Lossy        \* may the endpoint omit events of a page?

StockCandidateAssumption ==
  /\ {DefaultAdmin, BeaconUpgrader} \subseteq Roles /\ Tokens # {}
  /\ Height \in Nat /\ MaxReorgs \in Nat /\ Lossy \in BOOLEAN

VARIABLES chain,     \* block number -> [tag, code, log, paused tokens]
          reorgs,    \* reorganisations so far
          listed,    \* tokens with one active, matching record in the official registry
          pc,        \* where buildRobinhoodAssetManifest is
          read,      \* what it has read
          ranges,    \* ranges of the log still to be requested
          rawLogs,   \* control events received, each with its block and the block's hash
          named      \* the branch of the block the candidate names, kept for the properties alone

vars == <<chain, reorgs, listed, pc, read, ranges, rawLogs, named>>

Blocks == 0..Height
Ev(kind, role, who, previous) == [kind |-> kind, role |-> role, who |-> who, previous |-> previous]
Grant(r, a) == Ev("role-granted", r, a, Nothing)
Revoke(r, a) == Ev("role-revoked", r, a, Nothing)

-----------------------------------------------------------------------------
(* The contracts at a block: state is what the last event about it says.    *)
History(c, n) == FlattenSeq([i \in 1..(n + 1) |-> c[i - 1].log])
LastOf(h, S) == LET at == {i \in DOMAIN h : h[i] \in S}
                IN  IF at = {} THEN Ev("none", Nothing, Nothing, Nothing) ELSE h[CHOOSE i \in at : \A j \in at : j <= i]
Holds(h, r, a) == LastOf(h, {Grant(r, a), Revoke(r, a)}).kind = "role-granted"
AdminChanges(r) == {Ev("role-admin-changed", r, n, p) : n \in Roles, p \in Roles}
AdminOf(h, r) == LET e == LastOf(h, AdminChanges(r)) IN IF e.kind = "none" THEN DefaultAdmin ELSE e.who
Blocking(a) == {Ev("blocked", Nothing, a, Nothing), Ev("unblocked", Nothing, a, Nothing)}
IsBlocked(h, a) == LastOf(h, Blocking(a)).kind = "blocked"
Implementation(h) == LastOf(h, {Ev("upgraded", Nothing, i, Nothing) : i \in Impls}).who
Paused(h) == LastOf(h, {Ev("paused", Nothing, Nothing, Nothing), Ev("unpaused", Nothing, Nothing, Nothing)}).kind = "paused"

Legal(h, e) == CASE e.kind = "role-granted" -> ~Holds(h, e.role, e.who)
                 [] e.kind = "role-revoked" -> Holds(h, e.role, e.who)
                 [] e.kind = "role-admin-changed" -> e.previous = AdminOf(h, e.role)
                 [] e.kind = "paused" -> ~Paused(h)
                 [] e.kind = "unpaused" -> Paused(h)
                 [] OTHER -> TRUE

Pinned == chain[Height]
State == History(chain, Height)

-----------------------------------------------------------------------------
(* The chain: the beacon is deployed in one block, later blocks hold at     *)
(* most one control event and may pause or resume a token.                  *)
BeaconDeployed(impl) == <<Ev("upgraded", Nothing, impl, Nothing)>>
DeploymentLogs == {BeaconDeployed(i) \o <<Grant(DefaultAdmin, a), Grant(BeaconUpgrader, a)>> : i \in Impls, a \in Accounts}
Empty(tag) == [tag |-> tag, code |-> FALSE, log |-> <<>>, stopped |-> {}]

\* What block n may hold on top of the blocks of c before it.
Candidates(c, n, tag) ==
  IF n = 0 \/ ~c[n - 1].code
  THEN {Empty(tag)} \cup {[tag |-> tag, code |-> TRUE, log |-> l, stopped |-> {}] : l \in DeploymentLogs}
  ELSE LET h == History(c, n - 1) before == c[n - 1].stopped IN
       {[tag |-> tag, code |-> TRUE, log |-> l, stopped |-> before] :
           l \in {<<>>} \cup {<<e>> : e \in {x \in Events : Legal(h, x)}}}
       \cup {[tag |-> tag, code |-> TRUE, log |-> <<>>, stopped |-> s] :
              s \in {before \cup {t} : t \in Tokens} \cup {before \ {t} : t \in Tokens}}

Extend(c, n) == {[c EXCEPT ![n] = b] : b \in Candidates(c, n, 0)}
Chains == LET upTo[n \in 0..(Height + 1)] ==
                IF n = 0 THEN {[m \in Blocks |-> Empty(0)]} ELSE UNION {Extend(c, n - 1) : c \in upTo[n - 1]}
          IN  upTo[Height + 1]

\* Blocks from n on are replaced: block n by another one, the later ones by blocks that add nothing.
Reorganise ==
  /\ reorgs < MaxReorgs /\ pc \notin {"done", "failed"} /\ reorgs' = reorgs + 1
  /\ \E n \in Blocks : \E b \in Candidates(chain, n, reorgs + 1) :
       chain' = [m \in Blocks |-> IF m < n THEN chain[m] ELSE IF m = n THEN b
                                  ELSE [b EXCEPT !.log = <<>>]]
  /\ UNCHANGED <<listed, pc, read, ranges, rawLogs, named>>

-----------------------------------------------------------------------------
(* buildRobinhoodAssetManifest.                                             *)
At(step) == pc = step
Then(step) == pc' = step /\ UNCHANGED <<chain, reorgs, listed, named>>
Keeping(step) == Then(step) /\ UNCHANGED <<read, ranges, rawLogs>>
NoReplay == [ok |-> TRUE, members |-> [r \in Roles |-> {}], seen |-> [r \in Roles |-> {}],
             admins |-> [r \in Roles |-> DefaultAdmin], impl |-> Nothing, paused |-> FALSE,
             blocked |-> {}, everBlocked |-> {}, control |-> 0]

NothingRead == [hash |-> 0, verified |-> {}, impl |-> Nothing, low |-> 0, high |-> 0, headers |-> {},
                replayed |-> NoReplay, agreed |-> {}, final |-> {}]
Refused == Then("failed") /\ read' = NothingRead /\ ranges' = <<>> /\ rawLogs' = <<>>

ReadPinnedBlock ==
  /\ At("start") /\ read' = [read EXCEPT !.hash = Pinned.tag] /\ named' = chain
  /\ pc' = "assets" /\ UNCHANGED <<chain, reorgs, listed, ranges, rawLogs>>

VerifyAsset(t) ==
  /\ At("assets") /\ t \notin read.verified
  /\ IF t \in listed /\ t \notin Pinned.stopped
     THEN read' = [read EXCEPT !.verified = @ \cup {t}] /\ Then("assets") /\ UNCHANGED <<ranges, rawLogs>>
     ELSE Refused

ReadBeaconCode ==
  /\ At("assets") /\ read.verified = Tokens
  /\ IF Pinned.code THEN Keeping("implementation") ELSE Refused

\* A call of an address without code answers nothing that can be decoded.
ReadImplementation ==
  /\ At("implementation")
  /\ IF Pinned.code
     THEN read' = [read EXCEPT !.impl = Implementation(State)] /\ Then("paused") /\ UNCHANGED <<ranges, rawLogs>>
     ELSE Refused

ReadBeaconPaused ==
  /\ At("paused")
  /\ IF Pinned.code /\ ~Paused(State)
     THEN read' = [read EXCEPT !.high = Height] /\ Then("search") /\ UNCHANGED <<ranges, rawLogs>>
     ELSE Refused

\* findContractCreationBlock: the first block with code, by bisection.
SearchCreation ==
  /\ At("search") /\ read.low < read.high
  /\ LET middle == (read.low + read.high) \div 2
     IN  read' = IF chain[middle].code THEN [read EXCEPT !.high = middle] ELSE [read EXCEPT !.low = middle + 1]
  /\ Then("search") /\ UNCHANGED <<ranges, rawLogs>>

CheckCreated ==
  /\ At("search") /\ read.low = read.high
  /\ IF chain[read.low].code THEN Keeping("created") ELSE Refused

CheckNotBefore ==
  /\ At("created")
  /\ IF read.low = 0 \/ ~chain[read.low - 1].code
     THEN ranges' = <<<<read.low, Height>>>> /\ Then("logs") /\ UNCHANGED <<read, rawLogs>>
     ELSE Refused

LogsOf(c, n) == [k \in DOMAIN c[n].log |->
                  [block |-> n, tag |-> c[n].tag, index |-> k, event |-> c[n].log[k]]]
Served(c, from, to) == IF from > to \/ to > Height THEN <<>> ELSE
                       FlattenSeq([i \in 1..(to - from + 1) |-> LogsOf(c, from + i - 1)])
Omitting(page, lost) ==
  LET kept[k \in 0..Len(page)] ==
        IF k = 0 THEN <<>> ELSE IF k \in lost THEN kept[k - 1] ELSE Append(kept[k - 1], page[k])
  IN  kept[Len(page)]

\* requestControlLogs: a page is served, or its range refused and requested in two halves.
ServeLogs ==
  /\ At("logs") /\ ranges # <<>>
  /\ LET page == Served(chain, ranges[1][1], ranges[1][2])
     IN  \E lost \in (IF Lossy THEN SUBSET DOMAIN page ELSE {{}}) : rawLogs' = rawLogs \o Omitting(page, lost)
  /\ ranges' = Tail(ranges) /\ Then("logs") /\ UNCHANGED read

\* A plausible bug: the block in the middle is asked for twice.
Bug_HalvesOverlap(from, to) == LET middle == (from + to) \div 2 IN <<<<from, middle>>, <<middle, to>>>>

Halves(from, to) == LET middle == (from + to) \div 2 IN <<<<from, middle>>, <<middle + 1, to>>>>

RefuseRange ==
  /\ At("logs") /\ ranges # <<>>
  /\ IF ranges[1][1] = ranges[1][2]
     THEN Refused
     ELSE ranges' = Halves(ranges[1][1], ranges[1][2]) \o Tail(ranges) /\ Then("logs") /\ UNCHANGED <<read, rawLogs>>

CheckPositions ==
  /\ At("logs") /\ ranges = <<>>
  /\ IF Cardinality({<<rawLogs[i].block, rawLogs[i].index>> : i \in DOMAIN rawLogs}) = Len(rawLogs)
     THEN Keeping("headers") ELSE Refused

\* The headers of the log's blocks, in any order; the code compares after the last, which refuses no less.
EventBlocks == {rawLogs[i].block : i \in DOMAIN rawLogs}

ReadEventBlock(n) ==
  /\ At("headers") /\ n \in EventBlocks \ read.headers
  /\ IF \A i \in DOMAIN rawLogs : rawLogs[i].block = n => rawLogs[i].tag = chain[n].tag
     THEN read' = [read EXCEPT !.headers = @ \cup {n}] /\ Then("headers") /\ UNCHANGED <<ranges, rawLogs>>
     ELSE Refused

Before(l, m) == l.block < m.block \/ (l.block = m.block /\ l.index < m.index)
\* One event folded into the reconstructed state; ok is lost where the code throws.
ReplayEvent(s, e) ==
  CASE e.kind = "role-granted" ->
         [s EXCEPT !.ok = @ /\ e.who \notin s.members[e.role], !.control = @ + 1,
                   !.members[e.role] = @ \cup {e.who}, !.seen[e.role] = @ \cup {e.who}]
    [] e.kind = "role-revoked" ->
         [s EXCEPT !.ok = @ /\ e.who \in s.members[e.role], !.control = @ + 1,
                   !.members[e.role] = @ \ {e.who}, !.seen[e.role] = @ \cup {e.who}]
    [] e.kind = "role-admin-changed" ->
         [s EXCEPT !.ok = @ /\ s.admins[e.role] = e.previous, !.control = @ + 1, !.admins[e.role] = e.who]
    [] e.kind = "blocked" -> [s EXCEPT !.blocked = @ \cup {e.who}, !.everBlocked = @ \cup {e.who}]
    [] e.kind = "unblocked" -> [s EXCEPT !.blocked = @ \ {e.who}, !.everBlocked = @ \cup {e.who}]
    [] e.kind = "upgraded" -> [s EXCEPT !.impl = e.who]
    [] OTHER -> [s EXCEPT !.paused = (e.kind = "paused")]

Replay(logs) == LET sorted == SortSeq(logs, Before)
                    after[i \in 0..Len(logs)] ==
                      IF i = 0 THEN NoReplay ELSE ReplayEvent(after[i - 1], sorted[i].event)
                IN  after[Len(logs)]

Reconstruct ==
  /\ At("headers") /\ read.headers = EventBlocks
  /\ LET s == Replay(rawLogs)
     IN  IF /\ s.ok /\ s.control > 0 /\ s.impl # Nothing /\ s.impl = read.impl /\ ~s.paused
            /\ s.members[DefaultAdmin] # {} /\ s.members[BeaconUpgrader] # {}
         THEN read' = [read EXCEPT !.replayed = s] /\ Then("crosscheck") /\ UNCHANGED <<ranges, rawLogs>>
         ELSE Refused

\* Every account and role the log mentions is asked for live at the pinned number.
Ask(call, role, who) == [call |-> call, role |-> role, who |-> who]
BlockedCalls(s) == {Ask("isBlocked", Nothing, a) : a \in s.everBlocked}
RoleCalls(s) == UNION {{Ask("getRoleAdmin", r, Nothing)} \cup {Ask("hasRole", r, a) : a \in s.seen[r]} : r \in Roles}

\* The answer of a beacon of history h is the replayed one.
Agrees(h, s, q) ==
  CASE q.call = "isBlocked" -> IsBlocked(h, q.who) = (q.who \in s.blocked)
    [] q.call = "getRoleAdmin" -> AdminOf(h, q.role) = s.admins[q.role]
    [] q.call = "hasRole" -> Holds(h, q.role, q.who) = (q.who \in s.members[q.role])

\* Blocked accounts first; then the roles, each one's admin before its accounts.
MayAsk(q) == /\ q.call # "isBlocked" => BlockedCalls(read.replayed) \subseteq read.agreed
             /\ q.call = "hasRole" => Ask("getRoleAdmin", q.role, Nothing) \in read.agreed

CrossCheck(q) ==
  /\ At("crosscheck") /\ q \notin read.agreed /\ MayAsk(q)
  /\ IF Pinned.code /\ Agrees(State, read.replayed, q)
     THEN read' = [read EXCEPT !.agreed = @ \cup {q}] /\ Then("crosscheck") /\ UNCHANGED <<ranges, rawLogs>>
     ELSE Refused

Calls == BlockedCalls(read.replayed) \cup RoleCalls(read.replayed)
AllAgreed == At("crosscheck") /\ Calls \subseteq read.agreed

FinalBlock ==
  /\ AllAgreed
  /\ IF Pinned.tag = read.hash THEN Keeping("finalCode") ELSE Refused

\* The last reads come after it, and the hash is not compared again.
FinalBeaconCode ==
  At("finalCode") /\ IF Pinned.code THEN Keeping("finalImplementation") ELSE Refused

FinalImplementation ==
  /\ At("finalImplementation")
  /\ IF Pinned.code /\ Implementation(State) = read.impl THEN Keeping("finalPaused") ELSE Refused

FinalBeaconPaused ==
  At("finalPaused") /\ IF Pinned.code /\ ~Paused(State) THEN Keeping("finalAssets") ELSE Refused

FinalAsset(t) ==
  /\ At("finalAssets") /\ t \notin read.final
  /\ IF t \in Pinned.stopped
     THEN Refused
     ELSE /\ read' = [read EXCEPT !.final = @ \cup {t}] /\ UNCHANGED <<ranges, rawLogs>>
          /\ Then(IF read.final \cup {t} = Tokens THEN "done" ELSE "finalAssets")

\* The answer is an error or none within 20 s, or the input is not what was asked for.
RequestFails == pc \notin {"done", "failed", "logs"} /\ Refused

ReadLogs == CheckNotBefore \/ ServeLogs \/ RefuseRange
Generate == \/ ReadPinnedBlock \/ (\E t \in Tokens : VerifyAsset(t) \/ FinalAsset(t))
            \/ ReadBeaconCode \/ ReadImplementation \/ ReadBeaconPaused
            \/ SearchCreation \/ CheckCreated \/ ReadLogs
            \/ CheckPositions \/ (\E n \in Blocks : ReadEventBlock(n)) \/ Reconstruct
            \/ (\E q \in Calls : CrossCheck(q))
            \/ FinalBlock \/ FinalBeaconCode \/ FinalImplementation \/ FinalBeaconPaused
            \/ RequestFails

Init == /\ chain \in Chains /\ reorgs = 0 /\ pc = "start"
        /\ listed \in {Tokens} \cup {Tokens \ {t} : t \in Tokens}
        /\ read = NothingRead
        /\ ranges = <<>> /\ rawLogs = <<>> /\ named = chain

Next == Generate \/ Reorganise
Spec == Init /\ [][Next]_vars

-----------------------------------------------------------------------------
TypeOK ==
  /\ DOMAIN chain = Blocks /\ DOMAIN named = Blocks /\ reorgs \in 0..MaxReorgs /\ listed \subseteq Tokens
  /\ pc \in {"start", "assets", "implementation", "paused", "search", "created", "logs", "headers", "crosscheck",
             "finalCode", "finalImplementation", "finalPaused", "finalAssets", "done", "failed"}
  /\ read.verified \cup read.final \subseteq Tokens /\ read.agreed \subseteq Calls
  /\ {read.low, read.high} \cup read.headers \subseteq Blocks
  /\ \A i \in DOMAIN ranges : ranges[i][1] \in Blocks /\ ranges[i][2] \in Blocks

\* Every controller, block and implementation the candidate records is the beacon's
\* state in the block whose hash it names, whatever was reorganised while it was
\* read, the last reads after the comparison included, and whatever the endpoint
\* omitted ('differs from replayed event state').  Of the block the chain has in the
\* end it says nothing: a reorganisation during the last reads goes unnoticed.
RecordedControlsAreReal ==
  pc = "done" =>
    LET s == read.replayed h == History(named, Height) IN
    /\ named[Height].tag = read.hash
    /\ \A r \in Roles : s.admins[r] = AdminOf(h, r) /\ (\A a \in s.members[r] : Holds(h, r, a))
    /\ \A a \in s.blocked : IsBlocked(h, a)
    /\ s.impl = Implementation(h) /\ ~Paused(h) /\ named[Height].stopped = {} /\ listed = Tokens

\* From an endpoint that omits nothing the record is complete as well: no account
\* holds a role or is blocked there that is missing (accessControlStateReconstructed).
ControlsAreComplete ==
  pc = "done" /\ ~Lossy =>
    LET h == History(named, Height) IN
    /\ \A r \in Roles, a \in Accounts : Holds(h, r, a) => a \in read.replayed.members[r]
    /\ \A a \in Accounts : IsBlocked(h, a) => a \in read.replayed.blocked
    /\ read.low = CHOOSE n \in Blocks : named[n].code /\ \A m \in Blocks : m < n => ~named[m].code

\* However ranges are refused and halved, what is read and what is still to be read
\* cover the beacon's history from its creation once, without a gap or an overlap.
PagesCoverHistory ==
  pc = "logs" =>
    LET left == IF ranges = <<>> THEN Height + 1 ELSE ranges[1][1] IN
    /\ \A i \in 1..(Len(ranges) - 1) : ranges[i][2] + 1 = ranges[i + 1][1]
    /\ ranges # <<>> => ranges[Len(ranges)][2] = Height
    /\ \A i \in DOMAIN ranges : ranges[i][1] <= ranges[i][2]
    /\ reorgs = 0 /\ ~Lossy => rawLogs = Served(chain, read.low, left - 1)

=============================================================================
