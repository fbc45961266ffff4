------------------------ MODULE RegistryRevalidation ------------------------
(***************************************************************************)
(* scripts/release/robinhood-registry-revalidation.mjs with what it uses   *)
(* of release-lib.mjs: shortly before a release the identities of the      *)
(* stock tokens are fetched once more from the official registry, compared *)
(* with the signed ones, and archived as evidence tied to one evidence     *)
(* commit.  Several processes may run at once, be killed, and be started   *)
(* again with the same output paths, while the repository is checked out,  *)
(* its files edited, and the registry moves on.                            *)
(*                                                                         *)
(* A file's bytes are its contents and stand for their hash.  prepare-     *)
(* release.mjs, which would consume the evidence, refuses to start in this *)
(* release; Validate is the check it makes of an artifact.                 *)
(***************************************************************************)
EXTENDS Integers, FiniteSets

CONSTANTS Processes, Commits, Identities, None,
          Parent,     \* commit -> its only parent, or None
          Tree,       \* commit -> contents of policy, candidate, config and manifest
          Committed,  \* commit -> time
          Paths,      \* output paths
          Validity,   \* 24 hours
          MaxTime, MaxMoves

Files == {"policy", "candidate", "config", "manifest"}

RevalidationAssumption ==
  /\ Parent \in [Commits -> Commits \cup {None}] /\ Committed \in [Commits -> Nat]
  /\ {Validity, MaxTime, MaxMoves} \subseteq Nat /\ \A c \in Commits : DOMAIN Tree[c] = Files
  /\ None \notin Identities

VARIABLES head, tree,      \* the worktree
          official,        \* the registry: identities, and the times each was served from
          now, moves,
          archive, artifact,  \* output files by path
          proc,            \* the processes
          accepted         \* artifacts somebody accepted, with the commit and time

vars == <<head, tree, official, now, moves, archive, artifact, proc, accepted>>

Idle == [pc |-> "idle", commit |-> None, source |-> None, manifest |-> None, bytes |-> <<>>,
         response |-> None, asked |-> 0, result |-> None, path |-> None, own |-> None]

Init == /\ head \in {c \in Commits : Committed[c] = 0} /\ tree = Tree[head]
        /\ official \in Identities /\ now = 0 /\ moves = 0
        /\ archive = [p \in Paths |-> None] /\ artifact = [p \in Paths |-> None]
        /\ proc = [i \in Processes |-> Idle] /\ accepted = {}

World == UNCHANGED <<head, tree, official, now, moves>>
Outputs == <<archive, artifact, accepted>>
Move == moves < MaxMoves /\ moves' = moves + 1 /\ UNCHANGED <<now, Outputs, proc>>

Checkout(c) == Move /\ Committed[c] <= now /\ head' = c /\ tree' = Tree[c] /\ UNCHANGED official
EditFile(f, c) == Move /\ tree' = [tree EXCEPT ![f] = Tree[c][f]] /\ UNCHANGED <<head, official>>
RegistryMoves == Move /\ official' \in Identities \ {official} /\ UNCHANGED <<head, tree>>
Tick == now < MaxTime /\ now' = now + 1 /\ UNCHANGED <<head, tree, official, moves, Outputs, proc>>

-----------------------------------------------------------------------------
At(i, pc) == proc[i].pc = pc
Step(i, p) == proc' = [proc EXCEPT ![i] = p]
Stop(i) == Step(i, Idle)
Quiet == World /\ UNCHANGED Outputs

Start(i, c, s, p) == /\ At(i, "idle") /\ Quiet
                     /\ Step(i, [Idle EXCEPT !.pc = "ancestry", !.commit = c, !.source = s, !.path = p])

CheckAncestry(i) ==
  /\ At(i, "ancestry") /\ Quiet
  /\ IF head = proc[i].commit /\ proc[i].source # None /\ Parent[head] = proc[i].source
     THEN Step(i, [proc[i] EXCEPT !.pc = "manifest"]) ELSE Stop(i)

\* A tracked file is of the commit: HEAD is the commit and the bytes are its blob.
ResolveTrackedRepositoryFile(f, c) == head = c /\ tree[f] # None /\ tree[f] = Tree[c][f]

ReadManifest(i) ==
  /\ At(i, "manifest") /\ Quiet
  /\ IF ResolveTrackedRepositoryFile("manifest", proc[i].commit)
     THEN Step(i, [proc[i] EXCEPT !.pc = "evidence", !.manifest = tree["manifest"]]) ELSE Stop(i)

\* The evidence commit adds the manifest and its config and changes nothing else.
AddsOnlyEvidence(c, s) == \A f \in Files : IF f \in {"manifest", "config"} THEN Tree[s][f] = None /\ Tree[c][f] # None
                                                                           ELSE Tree[c][f] = Tree[s][f]

ValidateReleaseEvidenceCommit(i) ==
  /\ At(i, "evidence") /\ Quiet
  /\ IF /\ \A f \in Files \ {"manifest"} : ResolveTrackedRepositoryFile(f, proc[i].commit)
        /\ AddsOnlyEvidence(proc[i].commit, proc[i].source)
        /\ tree["config"] = proc[i].manifest.config /\ tree["candidate"] = proc[i].manifest.candidate
     THEN Step(i, [proc[i] EXCEPT !.pc = "read"]) ELSE Stop(i)

\* The files are read again, once they were proved to be of the commit.
ReadFiles(i) == /\ At(i, "read") /\ Quiet
                /\ Step(i, [proc[i] EXCEPT !.pc = "fetch", !.bytes = <<tree["manifest"], tree["config"], tree["candidate"]>>])

FetchRobinhoodRegistryResponse(i) ==
  /\ At(i, "fetch") /\ Quiet
  /\ Step(i, [proc[i] EXCEPT !.pc = "build", !.response = official, !.asked = now])
FetchFails(i) == At(i, "fetch") /\ Quiet /\ Stop(i)

\* The candidate, the config and the manifest name the same identities.
SelectedCandidateContext(m, config, candidate) ==
  /\ config.review = candidate /\ config.target = candidate.identity /\ m.asset = candidate.identity

SelectOfficialRecords(response, candidate) == response = candidate.identity

Predates(t, c, m, candidate) == t < Committed[c] \/ t < m.created \/ t < candidate.pinned

Build(i) ==
  /\ At(i, "build") /\ Quiet
  /\ LET p == proc[i]  m == p.bytes[1]  config == p.bytes[2]  candidate == p.bytes[3] IN
     IF /\ m # None /\ config # None /\ candidate # None
        /\ candidate = m.candidate /\ config = m.config
        /\ SelectedCandidateContext(m, config, candidate)
        /\ SelectOfficialRecords(p.response, candidate)
        /\ ~Predates(now, p.commit, m, candidate) /\ m.source = p.source
     THEN Step(i, [p EXCEPT !.pc = "archive", !.result =
            [fetched |-> now, expires |-> now + Validity, records |-> candidate.identity, source |-> p.response,
             commit |-> p.commit, manifest |-> m, asked |-> p.asked]])
     ELSE Stop(i)

\* atomicWrite links its temporary file: an existing output is never replaced.
AtomicWrite(file) == file = None

WriteArchive(i) ==
  /\ At(i, "archive") /\ World /\ UNCHANGED <<artifact, accepted>>
  /\ LET p == proc[i].path IN
     IF AtomicWrite(archive[p])
     THEN archive' = [archive EXCEPT ![p] = proc[i].response] /\ Step(i, [proc[i] EXCEPT !.pc = "artifact"])
     ELSE Stop(i) /\ UNCHANGED archive

WriteArtifact(i) ==
  /\ At(i, "artifact") /\ World /\ UNCHANGED accepted /\ Stop(i)
  /\ LET p == proc[i].path IN
     IF AtomicWrite(artifact[p])
     THEN artifact' = [artifact EXCEPT ![p] = proc[i].result] /\ UNCHANGED archive
     ELSE archive' = [archive EXCEPT ![p] = None] /\ UNCHANGED artifact

Kill(i) == ~At(i, "idle") /\ Quiet /\ Stop(i)

-----------------------------------------------------------------------------
RequireFresh(a) == a.fetched <= now /\ now < a.expires /\ a.expires - a.fetched = Validity

LinkageIs(a, c) == a.commit = c /\ a.manifest = Tree[c]["manifest"]

\* validateRobinhoodRegistryRevalidation, with the files of the commit c.
Validate(p, c) ==
  /\ World /\ UNCHANGED <<archive, artifact, proc>>
  /\ artifact[p] # None /\ archive[p] # None
  /\ LET a == artifact[p]  m == Tree[c]["manifest"]  candidate == Tree[c]["candidate"] IN
     /\ m # None
     /\ RequireFresh(a) /\ a.records = candidate.identity
     /\ SelectedCandidateContext(m, Tree[c]["config"], candidate)
     /\ archive[p] = a.source /\ SelectOfficialRecords(archive[p], candidate)
     /\ LinkageIs(a, c) /\ ~Predates(a.fetched, c, m, candidate)
     /\ accepted' = {[artifact |-> a, commit |-> c, at |-> now]}

Process(i) == \/ CheckAncestry(i) \/ ReadManifest(i) \/ ValidateReleaseEvidenceCommit(i) \/ ReadFiles(i)
              \/ FetchRobinhoodRegistryResponse(i) \/ FetchFails(i) \/ Build(i) \/ WriteArchive(i) \/ WriteArtifact(i) \/ Kill(i)
Next == \/ \E i \in Processes : Process(i) \/ \E c, s \in Commits, p \in Paths : Start(i, c, s, p)
        \/ (\E c \in Commits : Checkout(c)) \/ (\E c \in Commits, f \in Files : EditFile(f, c)) \/ RegistryMoves \/ Tick
        \/ \E p \in Paths, c \in Commits : Validate(p, c)
Spec == Init /\ [][Next]_vars

-----------------------------------------------------------------------------
(* Accepted evidence is about the commit it is accepted for: it was built  *)
(* from the signed manifest of that commit although the worktree may have  *)
(* been edited between the proof and the read of its files, the registry   *)
(* was asked when the commit existed, less than a day ago, and what it     *)
(* answered are the identities in that commit.                             *)
AcceptedIsOfTheCommit ==
  \A x \in accepted : LET a == x.artifact IN
    /\ a.manifest = Tree[x.commit]["manifest"] /\ a.source = Tree[x.commit]["candidate"].identity
    /\ Committed[x.commit] <= a.asked /\ x.at - a.fetched < Validity

(* Evidence has its source: an artifact in place stands beside the archive *)
(* of the very response it was built from, and neither is ever replaced by *)
(* those of another run, whichever of two runs is killed or refused when.  *)
ArtifactHasItsArchive == \A p \in Paths : artifact[p] # None => archive[p] = artifact[p].source

(* No step replaces an artifact, nor the archive beside it.                *)
KeepsArtifacts == \A p \in Paths : artifact[p] # None => artifact'[p] = artifact[p] /\ archive'[p] = archive[p]
=============================================================================
