----------------------------- MODULE Preflight -----------------------------
(***************************************************************************)
(* The deployment preflight (packages/config/scripts/preflight-deployment- *)
(* authorization.ts and the tooling it calls): an operator presents a      *)
(* signed authorization, which is checked against the repository's commit, *)
(* the committed policies, the chain, the deployment files and the Safes,  *)
(* consumed in a ledger directory, and turned into a receipt.              *)
(*                                                                         *)
(* Several preflights may run at once over the same files and ledger, and  *)
(* crash anywhere; everything they read may be changed by somebody else    *)
(* between two of their reads.  A tracked file is represented by the       *)
(* commit whose blob it equals, or by Edited.  Hashes and signatures are   *)
(* perfect: a hash is what it hashes, a signature says what it signs.      *)
(***************************************************************************)
EXTENDS Integers, Sequences, FiniteSets, SequencesExt

CONSTANTS Procs, Commits, Edited, Configs, Docs,
          PolicyOf,      \* content of the signer policy: version -> [signers, threshold]
          CandidateIn,   \* the commit whose asset candidate a config names
          ApprovesSafe,  \* does the Safe policy of this version approve the Safes?
          Absent, Nobody, MaxMoves

Paths == {"policy", "candidate", "safes", "code"}
Versions == Commits \cup {Edited}
Window == 2              \* the 24 hours an authorization may live
PreflightAssumption ==
  /\ Edited \notin Commits /\ Nobody \notin Procs /\ MaxMoves \in Nat
  /\ \A d \in Docs : /\ d.config \in Configs
                      /\ d.signatures \in Seq({d.signatures[i] : i \in DOMAIN d.signatures})
  /\ CandidateIn \in [Configs -> Versions] /\ ApprovesSafe \in [Versions -> BOOLEAN]

VARIABLES head, tree,    \* the repository: commit checked out, version of every tracked path
          config, state, \* the operator's files: deployment config, deployment state or Absent
          chain,         \* [nonce of the broadcaster, identity of the Safes, assets still listed]
          clock, moves,
          proc,          \* the running preflights
          ledger,        \* authorization id -> who made its directory
          receipts       \* reservations written, in order

vars == <<head, tree, config, state, chain, clock, moves, proc, ledger, receipts>>
world == <<head, tree, config, state, chain, clock, moves>>

Ids == {d.id : d \in Docs}
Idle == [pc |-> "idle", nonce |-> 0, safes |-> Absent, commit |-> Absent, doc |-> Absent, policy |-> Absent,
         config |-> Absent, candidate |-> Absent, state |-> Absent]
States == {Absent} \cup {d.prior : d \in Docs}

-----------------------------------------------------------------------------
(* What the schema and the signatures must satisfy.                        *)
HardhatPriorPhases == ("execute" :> {"TIMELOCK_OPERATIONS_SCHEDULED", "TIMELOCK_EXECUTING"})
                   @@ ("fund-genesis" :> {"REGISTRY_CONFIGURED"})
                   @@ ("schedule" :> {"DEPLOYED_AND_WIRED", "TIMELOCK_SCHEDULING"})
                   @@ ("settle-genesis" :> {"GENESIS_OPENED"})

ParseDeploymentAuthorization(d) ==
  /\ d.issued < d.expires /\ d.expires - d.issued <= Window
  /\ d.policy.threshold \in 2..Cardinality(d.policy.signers)
  /\ d.phase = "deploy" <=> d.prior = Absent
  /\ d.phase = "schedule" => d.safeNonce = d.start
  /\ \A i \in DOMAIN d.signatures : d.signatures[i].payload = "this"

\* One pass over the signatures: each is by an authorised signer not met before.
ValidateDeploymentAuthorization(d) ==
  LET signer(i) == d.signatures[i].signer IN
  /\ ParseDeploymentAuthorization(d)
  /\ Len(d.signatures) >= d.policy.threshold
  /\ \A i \in DOMAIN d.signatures : /\ signer(i) \in d.policy.signers
                                    /\ \A j \in 1..(i - 1) : signer(j) # signer(i)

AssertTrustedDeploymentAuthorizationPolicy(d, policy) == d.policy = policy

-----------------------------------------------------------------------------
Init == /\ head \in Commits /\ tree = [f \in Paths |-> head]
        /\ config \in Configs /\ state \in States
        /\ chain = [nonce |-> 0, safes |-> "signed", listed |-> TRUE]
        /\ clock = 0 /\ moves = 0
        /\ proc = [p \in Procs |-> Idle] /\ ledger = [i \in Ids |-> Nobody] /\ receipts = <<>>

(* One step of a preflight: the process with what it learnt, or the error  *)
(* that ends it.                                                           *)
Step(p, from, to, ok, learnt) ==
  /\ proc[p].pc = from
  /\ proc' = [proc EXCEPT ![p] = IF ok THEN [learnt EXCEPT !.pc = to] ELSE Idle]
  /\ UNCHANGED world

Learn(p, from, to, ok, learnt) == Step(p, from, to, ok, learnt) /\ UNCHANGED <<ledger, receipts>>
Check(p, from, to, ok) == Learn(p, from, to, ok, proc[p])

\* The operator's tooling has observed nonce and Safes when it starts the script.
Observe(p) == Learn(p, "idle", "observed", TRUE, [proc[p] EXCEPT !.nonce = chain.nonce, !.safes = chain.safes])
ReadCommit(p) == Learn(p, "observed", "committed", TRUE, [proc[p] EXCEPT !.commit = head])
AssertExactTrackedWorktreeAtHead(p) == Check(p, "committed", "clean", \A f \in Paths : tree[f] = proc[p].commit)

\* A tracked file's bytes are read once, compared with the commit's blob, and these bytes used.
Tracked(p, f) == tree[f] = proc[p].commit

ReadTrustedPolicy(p) ==
  \E d \in Docs : Learn(p, "clean", "trusted", Tracked(p, "policy"),
                        [proc[p] EXCEPT !.doc = d, !.policy = PolicyOf[tree["policy"]]])

Authorize(p) ==
  LET d == proc[p].doc IN
  Check(p, "trusted", "authorized",
        /\ head = proc[p].commit
        /\ ValidateDeploymentAuthorization(d)
        /\ d.commit = proc[p].commit /\ d.start = proc[p].nonce
        /\ AssertTrustedDeploymentAuthorizationPolicy(d, proc[p].policy)
        /\ d.issued <= clock /\ clock < d.expires)

ResolveFiles(p) == Check(p, "authorized", "resolved", (proc[p].doc.phase = "deploy") <=> (state = Absent))

ReadConfig(p) == Learn(p, "resolved", "configured", config = proc[p].doc.config,
                       [proc[p] EXCEPT !.config = config])

ReadCandidate(p) ==
  Learn(p, "configured", "reviewed", Tracked(p, "candidate") /\ CandidateIn[proc[p].config] = proc[p].commit,
        [proc[p] EXCEPT !.candidate = tree["candidate"]])

FetchRegistry(p) == Check(p, "reviewed", "listed", chain.listed)

\* The first phase has no prior state; the others sign it by hash, in a phase they may start from.
StateIsSigned(d) == d.phase = "deploy" \/ (state = d.prior /\ state.phase \in HardhatPriorPhases[d.phase])
ReadState(p) == Learn(p, "listed", "stated", StateIsSigned(proc[p].doc),
                      [proc[p] EXCEPT !.state = IF proc[p].doc.phase = "deploy" THEN Absent ELSE state])

CheckSafes(p) ==
  Check(p, "stated", "checked", /\ Tracked(p, "safes") /\ ApprovesSafe[tree["safes"]]
                                /\ proc[p].safes = "signed")

AssertRepositoryHead(p) == Check(p, "checked", "ready", head = proc[p].commit)

\* reserveAuthorization: making the directory consumes the authorization, or fails.
Claim(p) ==
  LET id == proc[p].doc.id IN
  /\ Step(p, "ready", "claimed", ledger[id] = Nobody, proc[p])
  /\ ledger' = IF ledger[id] = Nobody THEN [ledger EXCEPT ![id] = p] ELSE ledger
  /\ UNCHANGED receipts

Snapshot(p) == [doc |-> proc[p].doc, config |-> proc[p].config, state |-> proc[p].state,
                candidate |-> proc[p].candidate, commit |-> proc[p].commit]

Record(p) ==
  /\ Step(p, "claimed", "idle", FALSE, proc[p])
  /\ receipts' = Append(receipts, Snapshot(p)) /\ UNCHANGED ledger

Crash(p) == proc[p] # Idle /\ proc' = [proc EXCEPT ![p] = Idle] /\ UNCHANGED <<world, ledger, receipts>>

-----------------------------------------------------------------------------
(* What everybody else may do meanwhile.                                   *)
Move == moves < MaxMoves /\ moves' = moves + 1 /\ UNCHANGED <<proc, ledger, receipts>>

Checkout(c) == /\ Move /\ c # head /\ head' = c /\ tree' = [f \in Paths |-> c]
               /\ UNCHANGED <<config, state, chain, clock>>
EditPath(f, v) == /\ Move /\ v # tree[f] /\ tree' = [tree EXCEPT ![f] = v]
                  /\ UNCHANGED <<head, config, state, chain, clock>>
EditFiles(c, s) == /\ Move /\ config' = c /\ state' = s
                   /\ UNCHANGED <<head, tree, chain, clock>>
ChainMoves(n) == /\ Move /\ chain' = n /\ UNCHANGED <<head, tree, config, state, clock>>
Tick == /\ Move /\ clock' = clock + 1 /\ UNCHANGED <<head, tree, config, state, chain>>

World == \/ \E c \in Commits : Checkout(c)
         \/ \E f \in Paths : EditPath(f, Edited) \/ EditPath(f, head)
         \/ \E c \in Configs : EditFiles(c, state)
         \/ \E s \in States : EditFiles(config, s)
         \/ ChainMoves([chain EXCEPT !.nonce = @ + 1])
         \/ ChainMoves([chain EXCEPT !.safes = "rotated"])
         \/ ChainMoves([chain EXCEPT !.listed = FALSE])
         \/ Tick

Preflight(p) == \/ Observe(p) \/ ReadCommit(p) \/ AssertExactTrackedWorktreeAtHead(p)
                \/ ReadTrustedPolicy(p) \/ Authorize(p) \/ ResolveFiles(p) \/ ReadConfig(p)
                \/ ReadCandidate(p) \/ FetchRegistry(p) \/ ReadState(p) \/ CheckSafes(p)
                \/ AssertRepositoryHead(p) \/ Claim(p) \/ Record(p)

Next == World \/ \E p \in Procs : Preflight(p) \/ Crash(p)
Spec == Init /\ [][Next]_vars

-----------------------------------------------------------------------------
(* Everything has its type: in particular a preflight past its claim is the *)
(* one the ledger names, unless it crashed, and a crash releases nothing.   *)
TypeOK ==
  /\ head \in Commits /\ tree \in [Paths -> Versions] /\ config \in Configs /\ state \in States
  /\ clock \in 0..MaxMoves /\ moves \in 0..MaxMoves /\ chain.nonce \in 0..MaxMoves
  /\ ledger \in [Ids -> Procs \cup {Nobody}] /\ Len(receipts) <= Cardinality(Ids)
  /\ \A p \in Procs : proc[p].pc = "claimed" => ledger[proc[p].doc.id] = p

(* An authorization is consumed once: however many preflights hold it, run *)
(* at once, crash between claiming and recording and are started again,    *)
(* at most one receipt is ever written for its id (the mkdir of            *)
(* reserveAuthorization).                                                  *)
OneConsumer == \A i, j \in DOMAIN receipts : receipts[i].doc.id = receipts[j].doc.id => i = j

(* What a receipt hands to the runner is what the signers signed, whatever *)
(* happened to the files while they were being checked: the config, the    *)
(* prior state, and the candidate of the authorised commit which that      *)
(* config names.                                                           *)
ReceiptsHoldWhatWasSigned ==
  \A i \in DOMAIN receipts : LET r == receipts[i] IN
    /\ r.commit = r.doc.commit /\ r.config = r.doc.config /\ r.state = r.doc.prior
    /\ r.candidate = r.commit /\ CandidateIn[r.config] = r.commit

(* Every receipt rests on the quorum that the policy committed in the      *)
(* authorised commit asks for: threshold-many different authorised signers *)
(* of exactly this authorization, though the worktree may have shown       *)
(* another policy or another commit during the checks.                     *)
AuthorizedByCommittedPolicy ==
  \A i \in DOMAIN receipts :
    LET d == receipts[i].doc policy == PolicyOf[d.commit]
    IN  Cardinality({s \in policy.signers : \E k \in DOMAIN d.signatures :
                       d.signatures[k].signer = s /\ d.signatures[k].payload = "this"}) >= policy.threshold
=============================================================================
