-------------------------- MODULE ReleaseManifest --------------------------
(***************************************************************************)
(* Approval of a release (packages/config/schemas/deployment-manifest.ts   *)
(* and scripts/validate-deployment-manifest.ts): a manifest that records a *)
(* deployment is written, signed by several roles, committed together with *)
(* two snapshots on top of the source commit, and validated against that   *)
(* commit, while the worktree may change between any two reads.            *)
(*                                                                         *)
(* Hashes and signatures are perfect: a payload hash is the content it     *)
(* hashes.  The names of the fourteen contracts, four externals, seven     *)
(* gates and of every recorded address binding are constants.              *)
(***************************************************************************)
EXTENDS Integers, Sequences, FiniteSets, SequencesExt

CONSTANTS ContractNames, ExternalKeys, Actions, Gates, Roles, Zero, Nothing,
          LinkedTo,       \* binding recorded in the initial state -> the name it must resolve to
          InitialFiles,   \* manifests the worktree may start with
          Contents,       \* what an edit may make of the manifest
          Versions,       \* manifests that may be put (back) into the worktree
          Signers, Bytes, Sources, Policies,
          MaxMoves, MaxSignatures

Snapshots == {"config", "state"}
Validity == 2             \* the 24 hours an observation may be valid

ReleaseManifestAssumption ==
  /\ ContractNames \cap ExternalKeys = {}
  /\ \A b \in DOMAIN LinkedTo : LinkedTo[b] \in ContractNames \cup ExternalKeys
  /\ \A s \in Sources : s.policy \in Policies /\ MaxMoves \in Nat /\ MaxSignatures \in Nat

VARIABLES tree,      \* worktree: manifest, both snapshots, signature policy
          head,      \* the commit checked out
          commits,   \* evidence commits made so far
          clock, moves,
          run,       \* the running validation
          accepted   \* validations that succeeded

vars == <<tree, head, commits, clock, moves, run, accepted>>
NoCommit == [source |-> Nothing, evidence |-> Nothing]
Idle == [pc |-> "idle", required |-> FALSE, first |-> Nothing, manifest |-> Nothing, policy |-> Nothing,
         commit |-> NoCommit]

-----------------------------------------------------------------------------
(* The structure of a manifest.                                            *)
Field(entries, f) == [i \in DOMAIN entries |-> entries[i][f]]
Resolved(entries) == {i \in DOMAIN entries : entries[i].address # Zero}
Unique(seq) == \A i, j \in DOMAIN seq : seq[i] = seq[j] => i = j
ExactSet(seq, set) == Len(seq) = Cardinality(set) /\ ToSet(seq) = set
Addresses(entries) == {entries[i].address : i \in Resolved(entries)}
Entries(c) == ToSet(c.contracts) \cup ToSet(c.externals)

EntryIsEvidenced(e) == e.state # "unresolved" => e.address # Zero

IdentitiesAreUnique(c) ==
  /\ \A entries \in {c.contracts, c.externals} :
       /\ Unique(Field(entries, "name"))
       /\ \A i, j \in Resolved(entries) : entries[i].address = entries[j].address => i = j
  /\ Addresses(c.contracts) \cap Addresses(c.externals) = {}
  /\ Unique(c.actions)

CandidateIsComplete(c) ==
  c.status # "draft" => /\ ExactSet(Field(c.contracts, "name"), ContractNames)
                        /\ ExactSet(Field(c.externals, "name"), ExternalKeys)

\* A plausible slip: a recorded address is looked up among all the addresses.
Bug_AnyRecordedAddress(c) ==
  c.initial # Nothing => \A b \in DOMAIN LinkedTo : c.initial[b] \in Addresses(c.contracts) \cup Addresses(c.externals)

\* linkedAddress: a recorded address must be the one recorded for the name it stands for.
BindingsResolve(c) ==
  c.initial # Nothing =>
    \A b \in DOMAIN LinkedTo : \E e \in Entries(c) :
      e.address # Zero /\ e.name = LinkedTo[b] /\ e.address = c.initial[b]

\* signerRoleQuorumsSchema: nobody sits in two roles, thresholds can be met.
PolicyIsSound(p) ==
  p # Nothing => /\ \A r \in Roles : p[r].threshold \in 1..Cardinality(p[r].signers)
                 /\ \A q, r \in Roles : q # r => p[q].signers \cap p[r].signers = {}
AuthorizedSigners(p) == UNION {p[r].signers : r \in Roles}
Threshold(p) == FoldSet(LAMBDA r, sum : p[r].threshold + sum, 0, Roles)

ApprovalIsComplete(m) ==
  LET c == m.content IN
  c.status = "release-approved" =>
    /\ c.initial # Nothing /\ c.hash # Nothing /\ c.closed
    /\ \A e \in Entries(c) : e.state = "verified"
    /\ ExactSet(c.actions, Actions) /\ \A g \in Gates : c.gates[g] = "passed"
    /\ c.policy # Nothing /\ Len(m.signatures) >= Threshold(c.policy)

ParseDeploymentManifest(m) ==
  /\ \A e \in Entries(m.content) : EntryIsEvidenced(e)
  /\ IdentitiesAreUnique(m.content) /\ CandidateIsComplete(m.content) /\ BindingsResolve(m.content)
  /\ PolicyIsSound(m.content.policy) /\ (m.content.policy = Nothing => m.signatures = <<>>)
  /\ \A i \in DOMAIN m.signatures : m.signatures[i].payload = m.content
  /\ ApprovalIsComplete(m)

RequiresTrustedPolicy(m) ==
  m.content.status \in {"mainnet-candidate", "release-approved"} \/ m.content.policy # Nothing

AssertTrustedSignaturePolicy(m, trusted) == RequiresTrustedPolicy(m) => trusted # Nothing /\ m.content.policy = trusted

ValidateDeploymentManifest(m, trusted) ==
  LET recovered == Field(m.signatures, "signer") IN
  /\ ParseDeploymentManifest(m) /\ AssertTrustedSignaturePolicy(m, trusted) /\ Unique(recovered)
  /\ m.content.status = "release-approved" \/ m.content.policy # Nothing =>
       /\ ToSet(recovered) \subseteq AuthorizedSigners(m.content.policy)
       /\ Len(recovered) >= Threshold(m.content.policy)
       /\ \A r \in Roles : LET q == m.content.policy[r] IN Cardinality(ToSet(recovered) \cap q.signers) >= q.threshold

AssertFreshReleaseEvidence(c) ==
  /\ c.status = "release-approved" /\ c.created <= clock
  /\ c.observed <= clock /\ clock < c.expires /\ c.expires - c.observed <= Validity

-----------------------------------------------------------------------------
Init == /\ \E m \in InitialFiles, b \in [Snapshots -> Bytes], s \in Sources :
             /\ tree = [manifest |-> m, snaps |-> b, policy |-> s.policy]
             /\ head = [source |-> s, evidence |-> Nothing]
        /\ commits = {} /\ clock = 0 /\ moves = 0 /\ run = Idle /\ accepted = {}

(* One step of validate-deployment-manifest.ts, or the error that ends it. *)
Step(from, to, ok, learnt) ==
  /\ run.pc = from /\ run' = IF ok THEN [learnt EXCEPT !.pc = to] ELSE Idle
  /\ UNCHANGED <<tree, head, commits, clock, moves, accepted>>
Check(from, to, ok) == Step(from, to, ok, run)

ReadManifest(requireReleaseEvidence) ==
  LET m == tree.manifest IN
  Step("idle", IF requireReleaseEvidence \/ RequiresTrustedPolicy(m) THEN "read" ELSE "trusted",
       ParseDeploymentManifest(m) /\ (requireReleaseEvidence => m.content.status = "release-approved"),
       [run EXCEPT !.first = m, !.required = requireReleaseEvidence, !.manifest = m])

\* One parent, which is the source; and nothing added but the evidence.
ReadEvidenceCommit ==
  Step("read", "committed",
       head.evidence # Nothing /\ head.source.id = run.first.content.source /\ ~head.evidence.more,
       [run EXCEPT !.commit = head])

\* Bytes of the worktree that equal the commit's are the commit's.
Evidence == run.commit.evidence
CheckSnapshot(s) ==
  /\ run.pc = IF s = "config" THEN "committed" ELSE "config"
  /\ Check(run.pc, s, run.first.content.hash = Nothing
                      \/ (tree.snaps[s] = Evidence.snaps[s] /\ tree.snaps[s] = run.first.content.hash[s]))

CheckWorktree ==
  Check("state", "clean", /\ run.commit.source.policy = Evidence.policy
                          /\ tree = [manifest |-> Evidence.manifest, snaps |-> Evidence.snaps, policy |-> Evidence.policy])

ReadCommittedManifest ==
  LET m == tree.manifest IN
  Step("clean", "manifest",
       /\ m = Evidence.manifest /\ ParseDeploymentManifest(m) /\ RequiresTrustedPolicy(m)
       /\ run.required => m.content.status = "release-approved"
       /\ m.content.source = run.commit.source.id,
       [run EXCEPT !.manifest = m])

ReadTrustedPolicy == Step("manifest", "policy", tree.policy = Evidence.policy,
                          [run EXCEPT !.policy = tree.policy])
AssertHead == Check("policy", "trusted", head = run.commit)

Validate == Check("trusted", "valid", /\ ValidateDeploymentManifest(run.manifest, run.policy)
                                      /\ run.required => AssertFreshReleaseEvidence(run.manifest.content))

Accept ==
  /\ run.pc = "valid" /\ run' = Idle
  /\ accepted' = IF run.commit = NoCommit \/ head = run.commit
                 THEN accepted \cup {[manifest |-> run.manifest, commit |-> run.commit]} ELSE accepted
  /\ UNCHANGED <<tree, head, commits, clock, moves>>

-----------------------------------------------------------------------------
(* The people around it.                                                   *)
Move == moves < MaxMoves /\ moves' = moves + 1 /\ UNCHANGED <<run, accepted>>

EditTree(t) == Move /\ t # tree /\ tree' = t /\ UNCHANGED <<head, commits, clock>>
EditManifest == \/ \E c \in Contents : EditTree([tree EXCEPT !.manifest.content = c])
                \/ \E m \in Versions : EditTree([tree EXCEPT !.manifest = m])
EditSnapshot == \E s \in Snapshots, b \in Bytes : EditTree([tree EXCEPT !.snaps[s] = b])
EditPolicy == \E p \in Policies : EditTree([tree EXCEPT !.policy = p])

\* A signer signs what the manifest says now.
Sign(s) ==
  /\ Len(tree.manifest.signatures) < MaxSignatures
  /\ tree' = [tree EXCEPT !.manifest.signatures = Append(@, [signer |-> s, payload |-> tree.manifest.content])]
  /\ UNCHANGED <<head, commits, clock, moves, run, accepted>>

CommitEvidence(more) ==
  /\ Move /\ head.evidence = Nothing
  /\ head' = [head EXCEPT !.evidence = [manifest |-> tree.manifest, snaps |-> tree.snaps, policy |-> tree.policy,
                                        more |-> more \/ tree.policy # head.source.policy]]
  /\ commits' = commits \cup {head'} /\ UNCHANGED <<tree, clock>>

Checkout(c) ==
  /\ Move /\ head' = c /\ UNCHANGED <<commits, clock>>
  /\ tree' = IF c.evidence = Nothing THEN [tree EXCEPT !.policy = c.source.policy]
             ELSE [manifest |-> c.evidence.manifest, snaps |-> c.evidence.snaps, policy |-> c.evidence.policy]

Tick == Move /\ clock' = clock + 1 /\ UNCHANGED <<tree, head, commits>>

Next == \/ \E b \in BOOLEAN : ReadManifest(b) \/ CommitEvidence(b)
        \/ ReadEvidenceCommit \/ (\E s \in Snapshots : CheckSnapshot(s)) \/ CheckWorktree
        \/ ReadCommittedManifest \/ ReadTrustedPolicy \/ AssertHead \/ Validate \/ Accept
        \/ EditManifest \/ EditSnapshot \/ EditPolicy \/ Tick
        \/ \E s \in Signers : Sign(s)
        \/ \E c \in commits \cup {[source |-> s, evidence |-> Nothing] : s \in Sources} : c # head /\ Checkout(c)

Spec == Init /\ [][Next]_vars

-----------------------------------------------------------------------------
Boundary == {a \in accepted : a.commit # NoCommit}

(* Accepted manifests are what they claim: a validation without a commit   *)
(* is one of a manifest that needs no trusted policy, and every record has *)
(* its type.                                                               *)
TypeOK ==
  /\ clock \in 0..MaxMoves /\ moves \in 0..MaxMoves /\ tree.snaps \in [Snapshots -> Bytes]
  /\ \A c \in commits : c.source \in Sources /\ c.evidence # Nothing
  /\ \A a \in accepted \ Boundary : ~RequiresTrustedPolicy(a.manifest)

(* Whoever has to approve has approved exactly this: an accepted manifest  *)
(* carries, for every role of the policy in the source commit, as many     *)
(* different members' signatures over its present content as that role     *)
(* asks for; edits after signing, signatures of others, repeated ones and  *)
(* a policy of the worktree's own do not help.                             *)
SignedBy(m, s) == \E i \in DOMAIN m.signatures : m.signatures[i].signer = s /\ m.signatures[i].payload = m.content
ApprovedByEveryRole ==
  \A a \in Boundary : LET policy == a.commit.source.policy IN
    /\ policy # Nothing
    /\ \A r \in Roles : Cardinality({s \in policy[r].signers : SignedBy(a.manifest, s)}) >= policy[r].threshold

(* What is accepted is the manifest of the evidence commit, whose parent   *)
(* is the source the manifest names, and nothing but evidence lies between *)
(* the two, whatever the worktree showed while it was read.                *)
AcceptedIsCommitted ==
  \A a \in Boundary :
    /\ a.manifest = a.commit.evidence.manifest /\ a.manifest.content.source = a.commit.source.id
    /\ a.commit.evidence.policy = a.commit.source.policy /\ ~a.commit.evidence.more

(* An accepted approval describes one deployment: the required names stand *)
(* for as many different addresses, and every binding of the recorded      *)
(* state is the address of the name it stands for.                         *)
DeploymentIsOneGraph ==
  \A a \in Boundary : LET c == a.manifest.content entries == Entries(c) IN
    c.status = "release-approved" =>
      \E at \in [ContractNames \cup ExternalKeys -> {e.address : e \in entries} \ {Zero}] :
        /\ \A e \in entries : e.address = at[e.name] /\ e.state = "verified"
        /\ \A m, n \in DOMAIN at : at[m] = at[n] => m = n
        /\ \A b \in DOMAIN LinkedTo : c.initial[b] = at[LinkedTo[b]]

=============================================================================
