--------------------------- MODULE EvidenceProofs ---------------------------
(***************************************************************************)
(* What the tools around the contracts may rely on, proved for every       *)
(* number of readers, processes, runs, signers, accounts and blocks: what  *)
(* is read from a chain that reorganises is of one block, and what is kept *)
(* in files beside other processes, edits and crashes is of one build, one *)
(* commit and one signature.                                               *)
(*                                                                         *)
(* The tools do not interact, so each has a section, which names the       *)
(* module it is about once and states an inductive invariant of it.  Its   *)
(* shape is the same wherever a chain is read: what has been read may be   *)
(* mixed, but then the block it was meant to be of has been replaced, for  *)
(* good, and the last read will tell.  Where files are kept, it says of    *)
(* every process what the files held when it looked at them and who else   *)
(* may have changed them since.                                            *)
(*                                                                         *)
(* A named instance has its own copy of a library operator that is not     *)
(* built in, such as Cardinality: facts of the library about it are first  *)
(* carried over.                                                           *)
(***************************************************************************)
EXTENDS Integers, Sequences, SequenceTheorems, FiniteSetTheorems, Sums, TLAPS

-----------------------------------------------------------------------------
(* BlockReads.                                                             *)
CONSTANTS Labels, MaxHeight, MaxReorgs, MaxViews, BlocksReturn, Readers, GbxAmount,
          RouterOf(_), RewardTokensOf(_), SupplyOf(_)
VARIABLES chain, seen, reorgs, request, views

Reads == INSTANCE BlockReads

(* Blocks are nonempty sequences of labels, closed under nonempty prefixes: *)
(* an ancestor of a block that was canonical was canonical itself.          *)
BlocksSound ==
  /\ chain \in seen /\ seen \subseteq Seq(Labels) \ {<<>>}
  /\ \A b \in seen : Len(b) <= MaxHeight
  /\ \A b \in seen : \A n \in 1..Len(b) : SubSeq(b, 1, n) \in seen
  /\ reorgs \in 0..MaxReorgs

(* What a request has read so far.  The answers may be mixed, but then a    *)
(* block they were pinned to has been replaced, which is for good.          *)
PinSound(r) ==
  /\ r = [reader |-> r.reader, pinned |-> r.pinned, expected |-> r.expected, answers |-> r.answers]
  /\ r.pinned \in seen /\ r.expected \in {Reads!NoBlock, r.pinned}
  /\ \A k \in DOMAIN r.answers : r.answers[k] \in seen

RequestSound ==
  request # Reads!Idle =>
    /\ PinSound(request)
    /\ Reads!Canonical(request.pinned) => \A k \in DOMAIN request.answers : request.answers[k] = request.pinned

ReadsInv ==
  /\ BlocksSound /\ RequestSound
  /\ \A v \in views : PinSound(v)
  /\ Reads!ViewsAreOfOneBlock

LEMMA ReadsInit ==
  ASSUME Reads!BlockReadsAssumption, Reads!Init
  PROVE  ReadsInv
<1>1. PICK l \in Labels : chain = <<l>>
  BY DEF Reads!Init
<1>2. seen = {chain} /\ reorgs = 0 /\ request = Reads!Idle /\ views = {}
  BY DEF Reads!Init
<1>3. chain \in Seq(Labels) /\ Len(chain) = 1 /\ chain # <<>>
  BY <1>1
<1>4. SubSeq(chain, 1, 1) = chain
  BY <1>3, SubSeqFull
<1>5. BlocksSound
  BY <1>2, <1>3, <1>4 DEF BlocksSound, Reads!BlockReadsAssumption
<1>. QED  BY <1>2, <1>5 DEF ReadsInv, RequestSound, Reads!ViewsAreOfOneBlock

(* A sequence cut off at m and continued with l agrees with it up to m. *)
LEMMA Continued ==
  ASSUME NEW S, NEW c \in Seq(S), NEW m \in 0..Len(c), NEW l \in S,
         NEW d, d = Append(SubSeq(c, 1, m), l)
  PROVE  /\ d \in Seq(S) /\ Len(d) = m + 1
         /\ \A n \in 1..m : SubSeq(d, 1, n) = SubSeq(c, 1, n)
         /\ SubSeq(d, 1, m + 1) = d
<1>. DEFINE p == SubSeq(c, 1, m)
<1>1. p \in Seq(S) /\ Len(p) = m /\ \A i \in 1..m : p[i] = c[i]
  OBVIOUS
<1>0. d = Append(p, l)
  OBVIOUS
<1>. HIDE DEF p
<1>2. d \in Seq(S) /\ Len(d) = m + 1 /\ \A i \in 1..m : d[i] = c[i]
  BY <1>1, <1>0, AppendProperties
<1>3. ASSUME NEW n \in 1..m PROVE SubSeq(d, 1, n) = SubSeq(c, 1, n)
  <2>1. SubSeq(d, 1, n) \in Seq(S) /\ SubSeq(c, 1, n) \in Seq(S)
    BY <1>2
  <2>2. /\ Len(SubSeq(d, 1, n)) = n /\ Len(SubSeq(c, 1, n)) = n
        /\ \A i \in 1..n : SubSeq(d, 1, n)[i] = SubSeq(c, 1, n)[i]
    BY <1>2
  <2>. QED  BY <2>1, <2>2, SeqEqual
<1>4. SubSeq(d, 1, m + 1) = d
  BY <1>2, SubSeqFull
<1>. QED  BY <1>2, <1>3, <1>4

(* A new canonical block extends one of the old chain, and is itself new. *)
LEMMA NewBlock ==
  ASSUME BlocksSound, NEW m \in 0..Len(chain), NEW l \in Labels,
         chain' = Append(SubSeq(chain, 1, m), l), Len(chain') <= MaxHeight,
         chain' \notin seen, seen' = seen \cup {chain'}, reorgs' \in 0..MaxReorgs
  PROVE  /\ BlocksSound'
         /\ \A b \in seen : Reads!Canonical(b)' => Reads!Canonical(b)
<1>1. chain \in Seq(Labels) /\ chain # <<>>
  BY DEF BlocksSound
<1>2. /\ chain' \in Seq(Labels) /\ chain' # <<>> /\ Len(chain') = m + 1
      /\ \A n \in 1..m : SubSeq(chain', 1, n) = SubSeq(chain, 1, n)
      /\ SubSeq(chain', 1, m + 1) = chain'
  <2>1. chain' \in Seq(Labels)
    BY <1>1, Continued
  <2>3. Len(chain') = m + 1
    BY <1>1, Continued
  <2>2. chain' # <<>>
    <3>1. m + 1 # 0 /\ Len(<<>>) = 0
      BY EmptySeq
    <3>. QED  BY <2>3, <3>1
  <2>4. \A n \in 1..m : SubSeq(chain', 1, n) = SubSeq(chain, 1, n)
    BY <1>1, Continued
  <2>5. SubSeq(chain', 1, m + 1) = chain'
    BY <1>1, Continued
  <2>. QED  BY <2>1, <2>2, <2>3, <2>4, <2>5
<1>3. ASSUME NEW b \in seen', NEW n \in 1..Len(b) PROVE SubSeq(b, 1, n) \in seen'
  <2>1. CASE b \in seen
    BY <2>1 DEF BlocksSound
  <2>2. CASE b = chain' /\ n <= m
    <3>1. n \in 1..m /\ n \in 1..Len(chain)
      BY <2>2, <1>1, <1>2
    <3>2. SubSeq(chain, 1, n) \in seen
      BY <3>1 DEF BlocksSound
    <3>. QED  BY <2>2, <3>1, <3>2, <1>2
  <2>3. CASE b = chain' /\ n = m + 1
    BY <2>3, <1>2
  <2>. QED  BY <2>1, <2>2, <2>3, <1>2
<1>4. BlocksSound'
  BY <1>2, <1>3 DEF BlocksSound
<1>5. ASSUME NEW b \in seen, Reads!Canonical(b)' PROVE Reads!Canonical(b)
  <2>1. b \in Seq(Labels) /\ b # <<>> /\ b # chain'
    BY DEF BlocksSound
  <2>2. Len(b) <= Len(chain') /\ SubSeq(chain', 1, Len(b)) = b
    BY <1>5 DEF Reads!Canonical, Reads!Block
  <2>3. Len(b) \in Nat \ {0} /\ Len(chain) \in Nat
    BY <2>1, <1>1
  <2>4. Len(b) # m + 1
    BY <2>1, <2>2, <1>2
  <2>7. Len(b) <= m + 1
    BY <2>2, <1>2
  <2>5. Len(b) \in 1..m /\ Len(b) <= Len(chain)
    BY <2>3, <2>4, <2>7
  <2>6. SubSeq(chain, 1, Len(b)) = b
    BY <2>2, <2>5, <1>2
  <2>. QED  BY <2>5, <2>6 DEF Reads!Canonical, Reads!Block
<1>. QED  BY <1>4, <1>5

LEMMA ReadsStep ==
  ASSUME Reads!BlockReadsAssumption, ~BlocksReturn, ReadsInv, [Reads!Next]_Reads!vars
  PROVE  ReadsInv'
<1>1. BlocksSound /\ RequestSound /\ chain \in Seq(Labels) /\ chain # <<>> /\ Len(chain) \in Nat \ {0}
  BY DEF ReadsInv, BlocksSound
<1>2. (\A v \in views : PinSound(v)) /\ Reads!ViewsAreOfOneBlock
  BY DEF ReadsInv
<1>3. ASSUME NEW m \in 0..Len(chain), NEW l \in Labels, Reads!NewChain(Append(SubSeq(chain, 1, m), l)),
             Len(chain') <= MaxHeight, reorgs' \in 0..MaxReorgs
      PROVE  ReadsInv'
  <2>1. /\ chain' = Append(SubSeq(chain, 1, m), l) /\ chain' \notin seen /\ seen' = seen \cup {chain'}
        /\ UNCHANGED <<request, views>>
    BY <1>3 DEF Reads!NewChain
  <2>2. BlocksSound' /\ \A b \in seen : Reads!Canonical(b)' => Reads!Canonical(b)
    BY <2>1, <1>1, <1>3, NewBlock
  <2>3. RequestSound'
    BY <2>1, <2>2, <1>1 DEF RequestSound, PinSound
  <2>4. (\A v \in views : PinSound(v))' /\ Reads!ViewsAreOfOneBlock'
    BY <2>1, <1>2 DEF PinSound, Reads!ViewsAreOfOneBlock
  <2>. QED  BY <2>2, <2>3, <2>4 DEF ReadsInv
<1>4. ASSUME UNCHANGED <<chain, seen, reorgs>>, RequestSound', (\A v \in views : PinSound(v))',
             Reads!ViewsAreOfOneBlock'
      PROVE  ReadsInv'
  BY <1>4, <1>1 DEF ReadsInv, BlocksSound
<1>5. ASSUME NEW l \in Labels, Reads!MineBlock(l) PROVE ReadsInv'
  <2>1. SubSeq(chain, 1, Len(chain)) = chain
    BY <1>1, SubSeqFull
  <2>2. Len(chain) < MaxHeight /\ Reads!NewChain(Append(chain, l)) /\ reorgs' = reorgs
    BY <1>5 DEF Reads!MineBlock
  <2>3. Len(chain') = Len(chain) + 1
    BY <2>2, <1>1, AppendProperties DEF Reads!NewChain
  <2>4. Len(chain') <= MaxHeight /\ reorgs' \in 0..MaxReorgs /\ Len(chain) \in 0..Len(chain)
    BY <2>2, <2>3, <1>1 DEF BlocksSound, Reads!BlockReadsAssumption
  <2>5. Reads!NewChain(Append(SubSeq(chain, 1, Len(chain)), l))
    BY <2>1, <2>2
  <2>. QED  BY <2>4, <2>5, <1>3
<1>6. ASSUME NEW n \in DOMAIN chain, NEW l \in Labels, Reads!Reorganise(n, l) PROVE ReadsInv'
  <2>1. /\ reorgs < MaxReorgs /\ reorgs' = reorgs + 1 /\ n \in 1..Len(chain)
        /\ Reads!NewChain(Append(SubSeq(chain, 1, n - 1), l))
    BY <1>6, <1>1 DEF Reads!Reorganise, Reads!Block
  <2>2. Len(chain') = n /\ Len(chain) <= MaxHeight
    BY <2>1, <1>1, AppendProperties DEF Reads!NewChain, BlocksSound
  <2>3. reorgs' \in 0..MaxReorgs /\ Len(chain') <= MaxHeight /\ n - 1 \in 0..Len(chain)
    BY <2>1, <2>2, <1>1 DEF BlocksSound, Reads!BlockReadsAssumption
  <2>. QED  BY <2>1, <2>3, <1>3
<1>7. ASSUME NEW reader \in Readers, NEW n \in DOMAIN chain, NEW e \in seen \cup {Reads!NoBlock},
             Reads!PinBlockSnapshot(reader, n, e)
      PROVE  ReadsInv'
  <2>1. /\ request' = [reader |-> reader, pinned |-> SubSeq(chain, 1, n), expected |-> e, answers |-> <<>>]
        /\ e \in {Reads!NoBlock, SubSeq(chain, 1, n)} /\ UNCHANGED <<chain, seen, reorgs, views>>
    BY <1>7 DEF Reads!PinBlockSnapshot, Reads!HashAsExpected, Reads!Block
  <2>2. SubSeq(chain, 1, n) \in seen
    BY <1>1 DEF BlocksSound
  <2>3. RequestSound'
    BY <2>1, <2>2 DEF RequestSound, PinSound
  <2>4. (\A v \in views : PinSound(v))' /\ Reads!ViewsAreOfOneBlock'
    BY <2>1, <1>2 DEF PinSound, Reads!ViewsAreOfOneBlock
  <2>. QED  BY <2>1, <2>3, <2>4, <1>4
<1>8. ASSUME NEW key, Reads!Read(key) PROVE ReadsInv'
  <2>. DEFINE b == SubSeq(chain, 1, Len(request.pinned))
  <2>1. /\ request # Reads!Idle /\ Len(request.pinned) <= Len(chain) /\ UNCHANGED <<chain, seen, reorgs, views>>
        /\ request' = [request EXCEPT !.answers = [k \in DOMAIN request.answers \cup {key} |->
                                                     IF k = key THEN b ELSE request.answers[k]]]
    BY <1>8 DEF Reads!Read, Reads!Block
  <2>2. PinSound(request) /\ request.pinned \in Seq(Labels) /\ Len(request.pinned) \in 1..Len(chain)
    BY <2>1, <1>1 DEF RequestSound, BlocksSound, PinSound
  <2>3. b \in seen /\ (Reads!Canonical(request.pinned) => b = request.pinned)
    BY <2>2, <1>1 DEF BlocksSound, Reads!Canonical, Reads!Block
  <2>4. /\ request'.pinned = request.pinned /\ request'.expected = request.expected
        /\ request' = [reader |-> request'.reader, pinned |-> request'.pinned, expected |-> request'.expected,
                       answers |-> request'.answers]
        /\ request'.answers = [k \in DOMAIN request.answers \cup {key} |->
                                 IF k = key THEN b ELSE request.answers[k]]
    <3>. HIDE DEF b
    <3>. QED  BY <2>1, <2>2 DEF PinSound
  <2>5. \A k \in DOMAIN request'.answers :
          \/ request'.answers[k] = b
          \/ k \in DOMAIN request.answers /\ request'.answers[k] = request.answers[k]
    <3>. HIDE DEF b
    <3>. QED  BY <2>4
  <2>. HIDE DEF b
  <2>6. PinSound(request)'
    BY <2>1, <2>2, <2>3, <2>4, <2>5 DEF PinSound
  <2>7. Reads!Canonical(request.pinned)' => Reads!Canonical(request.pinned)
    BY <2>1, <2>4 DEF Reads!Canonical, Reads!Block
  <2>8. RequestSound'
    BY <2>1, <2>3, <2>4, <2>5, <2>6, <2>7, <1>1 DEF RequestSound
  <2>9. (\A v \in views : PinSound(v))' /\ Reads!ViewsAreOfOneBlock'
    BY <2>1, <1>2 DEF PinSound, Reads!ViewsAreOfOneBlock
  <2>. QED  BY <2>1, <2>8, <2>9, <1>4
<1>9. ASSUME Reads!Fail PROVE ReadsInv'
  <2>1. request' = Reads!Idle /\ UNCHANGED <<chain, seen, reorgs, views>>
    BY <1>9 DEF Reads!Fail
  <2>2. (\A v \in views : PinSound(v))' /\ Reads!ViewsAreOfOneBlock'
    BY <2>1, <1>2 DEF PinSound, Reads!ViewsAreOfOneBlock
  <2>. QED  BY <2>1, <2>2, <1>4 DEF RequestSound, Reads!Idle, Reads!NoBlock
<1>10. ASSUME Reads!Return PROVE ReadsInv'
  <2>1. /\ request # Reads!Idle /\ Reads!Outstanding(request) = {} /\ Reads!Canonical(request.pinned)
        /\ views' = views \cup {request} /\ request' = Reads!Idle /\ UNCHANGED <<chain, seen, reorgs>>
    BY <1>10 DEF Reads!Return, Reads!Revalidates
  <2>2. PinSound(request) /\ \A k \in DOMAIN request.answers : request.answers[k] = request.pinned
    BY <2>1, <1>1 DEF RequestSound
  <2>3. (\A v \in views : PinSound(v))'
    BY <2>1, <2>2, <1>2 DEF PinSound
  <2>4. Reads!ViewsAreOfOneBlock'
    BY <2>1, <2>2, <1>2 DEF Reads!ViewsAreOfOneBlock
  <2>. QED  BY <2>1, <2>3, <2>4, <1>4 DEF RequestSound, Reads!Idle, Reads!NoBlock
<1>11. ASSUME UNCHANGED Reads!vars PROVE ReadsInv'
  BY <1>11, <1>1, <1>2 DEF ReadsInv, Reads!vars, BlocksSound, RequestSound, PinSound,
     Reads!ViewsAreOfOneBlock, Reads!Canonical, Reads!Block, Reads!Idle, Reads!NoBlock
<1>. QED  BY <1>5, <1>6, <1>7, <1>8, <1>9, <1>10, <1>11 DEF Reads!Next, Reads!Client

LEMMA ReadsSound == ASSUME Reads!BlockReadsAssumption, ~BlocksReturn PROVE Reads!Spec => []ReadsInv
BY ReadsInit, ReadsStep, PTL DEF Reads!Spec

(* Whatever is reorganised between the reads of a view, and whichever reads *)
(* it takes, every fact in a view that is returned is of the block whose    *)
(* hash the view carries, and no read of it is missing (readers.ts,         *)
(* revalidateBlockSnapshot).                                                *)
THEOREM ViewsReadOneBlock ==
  ASSUME Reads!BlockReadsAssumption, ~BlocksReturn
  PROVE  Reads!Spec => []Reads!ViewsAreOfOneBlock
BY ReadsSound, PTL DEF ReadsInv

(* Views taken with one expected hash can be combined: all facts of all of  *)
(* them are of the block with that hash (ReadOptions.expectedBlockHash).    *)
THEOREM ExpectedHashesBind ==
  ASSUME Reads!BlockReadsAssumption, ~BlocksReturn
  PROVE  Reads!Spec => []Reads!ExpectedHashBinds
<1>1. ReadsInv => Reads!ExpectedHashBinds
  BY DEF ReadsInv, PinSound, Reads!ViewsAreOfOneBlock, Reads!ExpectedHashBinds
<1>. QED  BY <1>1, ReadsSound, PTL


-----------------------------------------------------------------------------
(* RegistryRevalidation.                                                   *)
CONSTANTS Processes, Commits, Identities, None, Parent, Tree, Committed, Paths, Validity, MaxTime, MaxMoves
VARIABLES head, tree, official, now, moves, archive, artifact, proc, accepted

Registry == INSTANCE RegistryRevalidation

(* What is signed off by a process: what the registry answered, when the    *)
(* commit existed.                                                          *)
ResultSound(a) ==
  /\ a.source \in Identities /\ a.commit \in Commits
  /\ a.asked \in Nat /\ Committed[a.commit] <= a.asked
  /\ a.fetched \in Nat /\ a.expires \in Nat

IsProcess(p) ==
  p = [f \in {"pc", "commit", "source", "manifest", "bytes", "response", "asked", "result", "path", "own"} |-> p[f]]

(* A process that has proved its ancestry knows a commit that exists; one   *)
(* that is to write its artifact has its archive in place, beside no other  *)
(* artifact.                                                                *)
RevalidationSound(p) ==
  /\ IsProcess(p)
  /\ p.pc # "idle" => p.commit \in Commits /\ p.path \in Paths
  /\ p.pc \notin {"idle", "ancestry"} => Committed[p.commit] <= now
  /\ p.pc \in {"build", "archive", "artifact"} =>
       p.response \in Identities /\ p.asked \in Nat /\ Committed[p.commit] <= p.asked
  /\ p.pc \in {"archive", "artifact"} => ResultSound(p.result) /\ p.result.source = p.response
  /\ p.pc = "artifact" => archive[p.path] = p.response /\ artifact[p.path] = None

WritersApart ==
  \A i, j \in Processes : proc[i].pc = "artifact" /\ proc[j].pc = "artifact" /\ proc[i].path = proc[j].path => i = j

OutputsSound ==
  /\ archive = [p \in Paths |-> archive[p]] /\ artifact = [p \in Paths |-> artifact[p]]
  /\ \A p \in Paths : artifact[p] # None => ResultSound(artifact[p])

RegistryInv ==
  /\ now \in Nat /\ head \in Commits /\ Committed[head] <= now /\ official \in Identities
  /\ proc = [i \in Processes |-> proc[i]]
  /\ \A i \in Processes : RevalidationSound(proc[i])
  /\ WritersApart /\ OutputsSound
  /\ Registry!ArtifactHasItsArchive /\ Registry!AcceptedIsOfTheCommit

USE DEF Registry!World, Registry!Outputs, Registry!At, Registry!Step, Registry!Quiet

LEMMA IdleSound == RevalidationSound(Registry!Idle)
BY DEF RevalidationSound, IsProcess, Registry!Idle

LEMMA RegistryInit ==
  ASSUME Registry!RevalidationAssumption, Registry!Init
  PROVE  RegistryInv
<1>1. /\ now = 0 /\ head \in Commits /\ Committed[head] = 0 /\ official \in Identities
      /\ proc = [i \in Processes |-> Registry!Idle] /\ accepted = {}
      /\ archive = [p \in Paths |-> None] /\ artifact = [p \in Paths |-> None]
  BY DEF Registry!Init
<1>2. /\ \A i \in Processes : proc[i] = Registry!Idle
      /\ Registry!Idle.pc = "idle"
      /\ proc = [i \in Processes |-> proc[i]]
  BY <1>1 DEF Registry!Idle
<1>3. WritersApart /\ \A i \in Processes : RevalidationSound(proc[i])
  BY <1>2, IdleSound DEF WritersApart
<1>4. \A p \in Paths : artifact[p] = None
  BY <1>1
<1>5. OutputsSound /\ Registry!ArtifactHasItsArchive
  BY <1>1, <1>4 DEF OutputsSound, Registry!ArtifactHasItsArchive
<1>. QED  BY <1>1, <1>2, <1>3, <1>5 DEF RegistryInv, Registry!AcceptedIsOfTheCommit

(* A step of a process that writes no file and does not come to write one. *)
LEMMA QuietStep ==
  ASSUME RegistryInv, NEW i \in Processes, Registry!Quiet, NEW p, Registry!Step(i, p),
         RevalidationSound(p), p.pc # "artifact"
  PROVE  RegistryInv'
<1>1. /\ UNCHANGED <<head, tree, official, now, moves, archive, artifact, accepted>>
      /\ proc' = [proc EXCEPT ![i] = p] /\ proc = [j \in Processes |-> proc[j]]
  BY DEF RegistryInv
<1>2. /\ proc' = [j \in Processes |-> proc'[j]]
      /\ \A j \in Processes : proc'[j] = IF j = i THEN p ELSE proc[j]
  BY <1>1
<1>3. (\A j \in Processes : RevalidationSound(proc[j]))'
  BY <1>1, <1>2 DEF RegistryInv, RevalidationSound
<1>4. WritersApart'
  BY <1>2 DEF RegistryInv, WritersApart
<1>5. OutputsSound' /\ Registry!ArtifactHasItsArchive' /\ Registry!AcceptedIsOfTheCommit'
  BY <1>1 DEF RegistryInv, OutputsSound, Registry!ArtifactHasItsArchive, Registry!AcceptedIsOfTheCommit
<1>. QED  BY <1>1, <1>2, <1>3, <1>4, <1>5 DEF RegistryInv

LEMMA StopStep ==
  ASSUME RegistryInv, NEW i \in Processes, Registry!Quiet, Registry!Stop(i)
  PROVE  RegistryInv'
<1>1. Registry!Idle.pc # "artifact"
  BY DEF Registry!Idle
<1>. QED  BY <1>1, IdleSound, QuietStep DEF Registry!Stop

(* The processes before they write.                                        *)
LEMMA ReadingSteps ==
  ASSUME Registry!RevalidationAssumption, RegistryInv, NEW i \in Processes,
         \/ Registry!CheckAncestry(i) \/ Registry!ReadManifest(i) \/ Registry!ValidateReleaseEvidenceCommit(i)
         \/ Registry!ReadFiles(i) \/ Registry!FetchRobinhoodRegistryResponse(i) \/ Registry!FetchFails(i)
         \/ Registry!Build(i) \/ Registry!Kill(i)
  PROVE  RegistryInv'
<1>1. RevalidationSound(proc[i]) /\ now \in Nat /\ official \in Identities /\ Committed[head] <= now
  BY DEF RegistryInv
<1>2. Committed \in [Commits -> Nat] /\ Validity \in Nat
  BY DEF Registry!RevalidationAssumption
<1>3. CASE Registry!CheckAncestry(i)
  <2>1. CASE head = proc[i].commit /\ Registry!Step(i, [proc[i] EXCEPT !.pc = "manifest"])
    <3>. DEFINE p == [proc[i] EXCEPT !.pc = "manifest"]
    <3>1. IsProcess(p) /\ p.pc = "manifest" /\ p.commit = proc[i].commit /\ p.path = proc[i].path
      BY <1>1 DEF RevalidationSound, IsProcess
    <3>2. RevalidationSound(p)
      BY <2>1, <1>1, <1>3, <3>1 DEF RevalidationSound, Registry!CheckAncestry
    <3>3. Registry!Quiet /\ Registry!Step(i, p)
      BY <2>1, <1>3 DEF Registry!CheckAncestry
    <3>. HIDE DEF p
    <3>. QED  BY <3>1, <3>2, <3>3, QuietStep
  <2>2. \/ Registry!Stop(i)
        \/ head = proc[i].commit /\ Registry!Step(i, [proc[i] EXCEPT !.pc = "manifest"])
    BY <1>3 DEF Registry!CheckAncestry
  <2>3. CASE Registry!Stop(i)
    BY <1>3, <2>3, StopStep DEF Registry!CheckAncestry
  <2>. QED  BY <2>1, <2>2, <2>3
<1>4. CASE Registry!ReadManifest(i)
  <2>. DEFINE p == [proc[i] EXCEPT !.pc = "evidence", !.manifest = tree["manifest"]]
  <2>1. CASE Registry!Step(i, p)
    <3>1. IsProcess(p) /\ p.pc = "evidence" /\ p.commit = proc[i].commit /\ p.path = proc[i].path
      BY <1>1 DEF RevalidationSound, IsProcess
    <3>2. RevalidationSound(p)
      BY <1>1, <1>4, <3>1 DEF RevalidationSound, Registry!ReadManifest
    <3>. HIDE DEF p
    <3>. QED  BY <2>1, <1>4, <3>1, <3>2, QuietStep DEF Registry!ReadManifest
  <2>. QED  BY <1>4, <2>1, StopStep DEF Registry!ReadManifest
<1>5. CASE Registry!ValidateReleaseEvidenceCommit(i)
  <2>. DEFINE p == [proc[i] EXCEPT !.pc = "read"]
  <2>1. CASE Registry!Step(i, p)
    <3>1. IsProcess(p) /\ p.pc = "read" /\ p.commit = proc[i].commit /\ p.path = proc[i].path
      BY <1>1 DEF RevalidationSound, IsProcess
    <3>2. RevalidationSound(p)
      BY <1>1, <1>5, <3>1 DEF RevalidationSound, Registry!ValidateReleaseEvidenceCommit
    <3>. HIDE DEF p
    <3>. QED  BY <2>1, <1>5, <3>1, <3>2, QuietStep DEF Registry!ValidateReleaseEvidenceCommit
  <2>. QED  BY <1>5, <2>1, StopStep DEF Registry!ValidateReleaseEvidenceCommit
<1>6. CASE Registry!ReadFiles(i)
  <2>. DEFINE p == [proc[i] EXCEPT !.pc = "fetch", !.bytes = <<tree["manifest"], tree["config"], tree["candidate"]>>]
  <2>1. IsProcess(p) /\ p.pc = "fetch" /\ p.commit = proc[i].commit /\ p.path = proc[i].path
    BY <1>1 DEF RevalidationSound, IsProcess
  <2>2. RevalidationSound(p)
    BY <1>1, <1>2, <1>6, <2>1 DEF RevalidationSound, Registry!ReadFiles
  <2>3. Registry!Quiet /\ Registry!Step(i, p)
    BY <1>6 DEF Registry!ReadFiles
  <2>. HIDE DEF p
  <2>. QED  BY <2>1, <2>2, <2>3, QuietStep
<1>7. CASE Registry!FetchRobinhoodRegistryResponse(i)
  <2>. DEFINE p == [proc[i] EXCEPT !.pc = "build", !.response = official, !.asked = now]
  <2>1. IsProcess(p) /\ p.pc = "build" /\ p.commit = proc[i].commit /\ p.path = proc[i].path /\ p.response = official /\ p.asked = now
    BY <1>1 DEF RevalidationSound, IsProcess
  <2>2. RevalidationSound(p)
    BY <1>1, <1>2, <1>7, <2>1 DEF RevalidationSound, Registry!FetchRobinhoodRegistryResponse
  <2>3. Registry!Quiet /\ Registry!Step(i, p)
    BY <1>7 DEF Registry!FetchRobinhoodRegistryResponse
  <2>. HIDE DEF p
  <2>. QED  BY <2>1, <2>2, <2>3, QuietStep
<1>8. CASE Registry!Build(i)
  <2>1. PICK r : /\ r = [fetched |-> now, expires |-> now + Validity, records |-> proc[i].bytes[3].identity,
                         source |-> proc[i].response, commit |-> proc[i].commit, manifest |-> proc[i].bytes[1],
                         asked |-> proc[i].asked]
    OBVIOUS
  <2>2. proc[i].pc = "build" /\ Registry!Quiet
    BY <1>8 DEF Registry!Build
  <2>3. ResultSound(r) /\ r.source = proc[i].response
    BY <2>1, <2>2, <1>1, <1>2 DEF RevalidationSound, ResultSound
  <2>. DEFINE p == [proc[i] EXCEPT !.pc = "archive", !.result = r]
  <2>4. Registry!Step(i, p) \/ Registry!Stop(i)
    BY <1>8, <2>1 DEF Registry!Build
  <2>5. /\ IsProcess(p) /\ p.pc = "archive" /\ p.commit = proc[i].commit /\ p.path = proc[i].path
        /\ p.response = proc[i].response /\ p.asked = proc[i].asked /\ p.result = r
    BY <1>1 DEF RevalidationSound, IsProcess
  <2>6. RevalidationSound(p)
    BY <1>1, <2>2, <2>3, <2>5 DEF RevalidationSound
  <2>. HIDE DEF p
  <2>. QED  BY <2>2, <2>4, <2>5, <2>6, QuietStep, StopStep
<1>9. CASE Registry!FetchFails(i) \/ Registry!Kill(i)
  BY <1>9, StopStep DEF Registry!FetchFails, Registry!Kill
<1>. QED  BY <1>3, <1>4, <1>5, <1>6, <1>7, <1>8, <1>9

(* The archive is linked where nothing is; nobody else then writes there. *)
LEMMA ArchiveStep ==
  ASSUME Registry!RevalidationAssumption, RegistryInv, NEW i \in Processes, Registry!WriteArchive(i)
  PROVE  RegistryInv' /\ Registry!KeepsArtifacts
<1>. DEFINE p == proc[i].path
            q == [proc[i] EXCEPT !.pc = "artifact"]
<1>1. /\ proc[i].pc = "archive" /\ UNCHANGED <<head, tree, official, now, moves, artifact, accepted>>
      /\ RevalidationSound(proc[i]) /\ proc = [j \in Processes |-> proc[j]]
      /\ OutputsSound /\ Registry!ArtifactHasItsArchive
  BY DEF Registry!WriteArchive, RegistryInv
<1>2. CASE Registry!Stop(i) /\ UNCHANGED archive
  <2>1. RegistryInv'
    BY <1>1, <1>2, StopStep
  <2>. QED  BY <2>1, <1>1, <1>2 DEF Registry!KeepsArtifacts
<1>3. CASE archive[p] = None /\ archive' = [archive EXCEPT ![p] = proc[i].response] /\ Registry!Step(i, q)
  <2>1. /\ p \in Paths /\ proc[i].response \in Identities /\ proc[i].asked \in Nat
        /\ ResultSound(proc[i].result) /\ proc[i].result.source = proc[i].response
    BY <1>1 DEF RevalidationSound
  <2>2. proc[i].response # None
    BY <2>1 DEF Registry!RevalidationAssumption
  <2>3. artifact[p] = None
    BY <1>1, <1>3, <2>1 DEF OutputsSound, ResultSound, Registry!ArtifactHasItsArchive, Registry!RevalidationAssumption
  <2>4. /\ archive' = [x \in Paths |-> archive'[x]] /\ archive'[p] = proc[i].response
        /\ \A x \in Paths : x # p => archive'[x] = archive[x]
    BY <1>1, <1>3, <2>1 DEF OutputsSound
  <2>5. /\ IsProcess(q) /\ q.pc = "artifact" /\ q.commit = proc[i].commit /\ q.path = p
        /\ q.response = proc[i].response /\ q.asked = proc[i].asked /\ q.result = proc[i].result
    BY <1>1 DEF RevalidationSound, IsProcess
  <2>6. /\ proc' = [j \in Processes |-> proc'[j]]
        /\ \A j \in Processes : proc'[j] = IF j = i THEN q ELSE proc[j]
    BY <1>1, <1>3
  <2>. HIDE DEF p, q
  <2>7. RevalidationSound(proc[i])'
    BY <1>1, <2>1, <2>3, <2>4, <2>5, <2>6 DEF RevalidationSound, ResultSound
  <2>8. ASSUME NEW j \in Processes, j # i
        PROVE  RevalidationSound(proc[j])' /\ (proc[j].pc = "artifact" => proc[j].path # p)
    <3>1. RevalidationSound(proc[j]) /\ proc'[j] = proc[j]
      BY <2>6, <2>8 DEF RegistryInv
    <3>2. proc[j].pc = "artifact" => /\ proc[j].response # None /\ proc[j].path \in Paths
                                     /\ archive[proc[j].path] = proc[j].response
      BY <3>1 DEF RevalidationSound, Registry!RevalidationAssumption
    <3>3. proc[j].pc = "artifact" => proc[j].path # p
      BY <3>2, <1>3
    <3>. QED  BY <3>1, <3>2, <3>3, <2>4, <1>1 DEF RevalidationSound
  <2>9. WritersApart'
    BY <2>5, <2>6, <2>8 DEF WritersApart, RegistryInv
  <2>10. (\A j \in Processes : RevalidationSound(proc[j]))'
    BY <2>7, <2>8
  <2>11. OutputsSound' /\ Registry!ArtifactHasItsArchive'
    BY <1>1, <2>3, <2>4 DEF OutputsSound, Registry!ArtifactHasItsArchive
  <2>12. Registry!AcceptedIsOfTheCommit' /\ Registry!KeepsArtifacts
    BY <1>1, <2>3, <2>4 DEF RegistryInv, Registry!AcceptedIsOfTheCommit, Registry!KeepsArtifacts
  <2>. QED  BY <1>1, <2>6, <2>9, <2>10, <2>11, <2>12 DEF RegistryInv
<1>. QED  BY <1>2, <1>3 DEF Registry!WriteArchive, Registry!AtomicWrite

(* The artifact is linked beside its archive, where nothing is. *)
LEMMA ArtifactStep ==
  ASSUME Registry!RevalidationAssumption, RegistryInv, NEW i \in Processes, Registry!WriteArtifact(i)
  PROVE  RegistryInv' /\ Registry!KeepsArtifacts
<1>. DEFINE p == proc[i].path
<1>1. /\ proc[i].pc = "artifact" /\ UNCHANGED <<head, tree, official, now, moves, accepted>>
      /\ RevalidationSound(proc[i]) /\ proc = [j \in Processes |-> proc[j]]
      /\ OutputsSound /\ Registry!ArtifactHasItsArchive
      /\ proc' = [proc EXCEPT ![i] = Registry!Idle]
  BY DEF Registry!WriteArtifact, RegistryInv, Registry!Stop
<1>2. /\ p \in Paths /\ artifact[p] = None /\ archive[p] = proc[i].response
      /\ ResultSound(proc[i].result) /\ proc[i].result.source = proc[i].response
  BY <1>1 DEF RevalidationSound
<1>3. artifact' = [artifact EXCEPT ![p] = proc[i].result] /\ archive' = archive
  BY <1>2 DEF Registry!WriteArtifact, Registry!AtomicWrite
<1>4. /\ artifact' = [x \in Paths |-> artifact'[x]] /\ artifact'[p] = proc[i].result
      /\ \A x \in Paths : x # p => artifact'[x] = artifact[x]
  BY <1>1, <1>2, <1>3 DEF OutputsSound
<1>5. /\ proc' = [j \in Processes |-> proc'[j]]
      /\ \A j \in Processes : proc'[j] = IF j = i THEN Registry!Idle ELSE proc[j]
  BY <1>1
<1>6. OutputsSound' /\ Registry!ArtifactHasItsArchive' /\ Registry!KeepsArtifacts /\ Registry!AcceptedIsOfTheCommit'
  BY <1>1, <1>2, <1>3, <1>4
  DEF OutputsSound, ResultSound, Registry!ArtifactHasItsArchive, Registry!KeepsArtifacts, RegistryInv,
      Registry!AcceptedIsOfTheCommit
<1>. HIDE DEF p
<1>7. ASSUME NEW j \in Processes PROVE RevalidationSound(proc[j])'
  <2>1. CASE j = i
    BY <2>1, <1>5 DEF RevalidationSound, IsProcess, Registry!Idle
  <2>2. CASE j # i
    <3>1. proc'[j] = proc[j] /\ RevalidationSound(proc[j])
      BY <2>2, <1>5 DEF RegistryInv
    <3>2. proc[j].pc = "artifact" => proc[j].path # p /\ proc[j].path \in Paths
      BY <3>1, <2>2, <1>1 DEF RegistryInv, WritersApart, RevalidationSound, p
    <3>. QED  BY <3>1, <3>2, <1>1, <1>3, <1>4 DEF RevalidationSound
  <2>. QED  BY <2>1, <2>2
<1>8. WritersApart'
  <2>1. Registry!Idle.pc = "idle"
    BY DEF Registry!Idle
  <2>. QED  BY <2>1, <1>5 DEF RegistryInv, WritersApart
<1>. QED  BY <1>1, <1>5, <1>6, <1>7, <1>8 DEF RegistryInv

(* Whoever validates checks the artifact against its own commit. *)
LEMMA ValidateStep ==
  ASSUME Registry!RevalidationAssumption, RegistryInv, NEW p \in Paths, NEW c \in Commits, Registry!Validate(p, c)
  PROVE  RegistryInv'
<1>. DEFINE a == artifact[p]
<1>1. /\ UNCHANGED <<head, tree, official, now, moves, archive, artifact, proc>>
      /\ a # None /\ Registry!RequireFresh(a) /\ archive[p] = a.source
      /\ archive[p] = Tree[c]["candidate"].identity /\ a.commit = c /\ a.manifest = Tree[c]["manifest"]
      /\ accepted' = {[artifact |-> a, commit |-> c, at |-> now]}
  BY DEF Registry!Validate, Registry!SelectOfficialRecords, Registry!LinkageIs
<1>2. ResultSound(a) /\ now \in Nat /\ Validity \in Nat
  BY <1>1 DEF RegistryInv, OutputsSound, Registry!RevalidationAssumption
<1>3. Committed[c] <= a.asked /\ now - a.fetched < Validity
  BY <1>1, <1>2 DEF ResultSound, Registry!RequireFresh
<1>. HIDE DEF a
<1>4. Registry!AcceptedIsOfTheCommit'
  <2>1. \A x \in accepted' : x.artifact = a /\ x.commit = c /\ x.at = now
    BY <1>1
  <2>. QED  BY <2>1, <1>1, <1>3 DEF Registry!AcceptedIsOfTheCommit
<1>. QED  BY <1>1, <1>4 DEF RegistryInv, RevalidationSound, WritersApart, OutputsSound, Registry!ArtifactHasItsArchive

(* Whatever the world does concerns no process and no output. *)
LEMMA WorldStep ==
  ASSUME Registry!RevalidationAssumption, RegistryInv, UNCHANGED <<archive, artifact, accepted, proc>>,
         now' \in Nat, now <= now', head' \in Commits, Committed[head'] <= now', official' \in Identities
  PROVE  RegistryInv'
<1>1. ASSUME NEW i \in Processes PROVE RevalidationSound(proc[i])'
  <2>1. RevalidationSound(proc[i]) /\ now \in Nat /\ Committed \in [Commits -> Nat] /\ proc'[i] = proc[i]
    BY DEF RegistryInv, Registry!RevalidationAssumption
  <2>2. proc[i].pc \notin {"idle", "ancestry"} => Committed[proc[i].commit] <= now'
    <3>1. proc[i].pc # "idle" => Committed[proc[i].commit] \in Nat
      BY <2>1 DEF RevalidationSound
    <3>. QED  BY <2>1, <3>1 DEF RevalidationSound
  <2>. QED  BY <2>1, <2>2 DEF RevalidationSound
<1>. QED  BY <1>1 DEF RegistryInv, WritersApart, OutputsSound, Registry!ArtifactHasItsArchive, Registry!AcceptedIsOfTheCommit

LEMMA RegistryStep ==
  ASSUME Registry!RevalidationAssumption, RegistryInv, [Registry!Next]_Registry!vars
  PROVE  RegistryInv' /\ Registry!KeepsArtifacts
<1>1. /\ now \in Nat /\ head \in Commits /\ Committed[head] <= now /\ official \in Identities
      /\ Committed \in [Commits -> Nat]
  BY DEF RegistryInv, Registry!RevalidationAssumption
<1>2. UNCHANGED <<archive, artifact>> => Registry!KeepsArtifacts
  BY DEF Registry!KeepsArtifacts
<1>3. ASSUME NEW c \in Commits, Registry!Checkout(c) PROVE RegistryInv' /\ Registry!KeepsArtifacts
  BY <1>1, <1>2, <1>3, WorldStep DEF Registry!Checkout, Registry!Move
<1>4. ASSUME NEW c \in Commits, NEW f \in Registry!Files, Registry!EditFile(f, c)
      PROVE  RegistryInv' /\ Registry!KeepsArtifacts
  BY <1>1, <1>2, <1>4, WorldStep DEF Registry!EditFile, Registry!Move
<1>5. ASSUME Registry!RegistryMoves PROVE RegistryInv' /\ Registry!KeepsArtifacts
  BY <1>1, <1>2, <1>5, WorldStep DEF Registry!RegistryMoves, Registry!Move
<1>6. ASSUME Registry!Tick PROVE RegistryInv' /\ Registry!KeepsArtifacts
  <2>1. Committed[head] <= now + 1 /\ now + 1 \in Nat
    BY <1>1
  <2>. QED  BY <2>1, <1>1, <1>2, <1>6, WorldStep DEF Registry!Tick
<1>7. ASSUME NEW i \in Processes, NEW c \in Commits, NEW s \in Commits, NEW p \in Paths, Registry!Start(i, c, s, p)
      PROVE  RegistryInv' /\ Registry!KeepsArtifacts
  <2>. DEFINE q == [Registry!Idle EXCEPT !.pc = "ancestry", !.commit = c, !.source = s, !.path = p]
  <2>1. RevalidationSound(q) /\ q.pc = "ancestry"
    BY DEF RevalidationSound, IsProcess, Registry!Idle
  <2>2. Registry!Quiet /\ Registry!Step(i, q)
    BY <1>7 DEF Registry!Start
  <2>. HIDE DEF q
  <2>. QED  BY <2>1, <2>2, <1>2, QuietStep
<1>8. ASSUME NEW i \in Processes, Registry!Process(i) PROVE RegistryInv' /\ Registry!KeepsArtifacts
  <2>1. CASE \/ Registry!CheckAncestry(i) \/ Registry!ReadManifest(i) \/ Registry!ValidateReleaseEvidenceCommit(i)
             \/ Registry!ReadFiles(i) \/ Registry!FetchRobinhoodRegistryResponse(i) \/ Registry!FetchFails(i)
             \/ Registry!Build(i) \/ Registry!Kill(i)
    <3>1. UNCHANGED <<archive, artifact>>
      BY <2>1 DEF Registry!CheckAncestry, Registry!ReadManifest, Registry!ValidateReleaseEvidenceCommit,
         Registry!ReadFiles, Registry!FetchRobinhoodRegistryResponse, Registry!FetchFails, Registry!Build, Registry!Kill
    <3>. QED  BY <2>1, <3>1, <1>2, ReadingSteps
  <2>. QED  BY <1>8, <2>1, ArchiveStep, ArtifactStep DEF Registry!Process
<1>9. ASSUME NEW p \in Paths, NEW c \in Commits, Registry!Validate(p, c) PROVE RegistryInv' /\ Registry!KeepsArtifacts
  BY <1>2, <1>9, ValidateStep DEF Registry!Validate
<1>10. ASSUME UNCHANGED Registry!vars PROVE RegistryInv' /\ Registry!KeepsArtifacts
  BY <1>1, <1>2, <1>10, WorldStep DEF Registry!vars
<1>. QED  BY <1>3, <1>4, <1>5, <1>6, <1>7, <1>8, <1>9, <1>10 DEF Registry!Next

LEMMA RegistrySound == ASSUME Registry!RevalidationAssumption PROVE Registry!Spec => []RegistryInv
BY RegistryInit, RegistryStep, PTL DEF Registry!Spec

(* An artifact in place stands beside the archive of the very response it   *)
(* was built from, whichever of any number of runs is killed or refused     *)
(* when (atomicWrite, robinhood-registry-revalidation.mjs).                 *)
THEOREM ArtifactsKeepTheirArchive ==
  ASSUME Registry!RevalidationAssumption
  PROVE  Registry!Spec => []Registry!ArtifactHasItsArchive
BY RegistrySound, PTL DEF RegistryInv

(* No step of any run replaces an artifact, nor the archive beside it.      *)
THEOREM ArtifactsAreNeverReplaced ==
  ASSUME Registry!RevalidationAssumption
  PROVE  Registry!Spec => [][Registry!KeepsArtifacts]_Registry!vars
<1>1. RegistryInv /\ [Registry!Next]_Registry!vars => [Registry!KeepsArtifacts]_Registry!vars
  BY RegistryStep
<1>. QED  BY <1>1, RegistrySound, PTL DEF Registry!Spec

(* Accepted evidence was built from the signed manifest of the commit it is *)
(* accepted for, from what the registry answered once that commit existed   *)
(* and less than a day ago (validateRobinhoodRegistryRevalidation).         *)
THEOREM AcceptedEvidenceIsOfItsCommit ==
  ASSUME Registry!RevalidationAssumption
  PROVE  Registry!Spec => []Registry!AcceptedIsOfTheCommit
BY RegistrySound, PTL DEF RegistryInv

HIDE DEF Registry!World, Registry!Outputs, Registry!At, Registry!Step, Registry!Quiet

-----------------------------------------------------------------------------
(* ContainerGate.                                                          *)
CONSTANTS Images, Packages, WellBuilt, Probes, Passes, Healthy, Inventory, Blocked, MaxAge, MaxSkew, MaxRuns
VARIABLES tag, files, smoke, runs, gate

Gating == INSTANCE ContainerGate

IsEvidence(f) == f = [x \in {"smoke", "sbom", "scan", "status", "summary"} |-> f[x]]

(* The scan in f is one of all the packages of the image that f lists.     *)
ScanSound(f) ==
  /\ f.sbom.packages = Inventory[f.sbom.image]
  /\ f.scan.blocked \cup f.scan.ignored = f.sbom.packages \cap Blocked[f.scan.built]

(* What the gate has put into the directory by its present step.           *)
GateSound ==
  /\ gate.pc \in {"database", "scan"} => files.sbom.packages = Inventory[files.sbom.image]
  /\ gate.pc = "read" => ScanSound(files)
  /\ gate.pc = "evaluate" => ScanSound(gate.input)

(* Evidence of a container that passed, of what the tag means if it never   *)
(* moved.                                                                   *)
Probed(e) == /\ e.image \in WellBuilt /\ Probes \subseteq Passes[e.tested] /\ e.tested \in Healthy
             /\ moves = 0 => e.image = tag /\ e.tested = tag

(* What the smoke test knows by its present step, and has left.             *)
SmokeSound ==
  /\ moves \in Nat
  /\ smoke.pc \in {"run", "probe", "write"} => smoke.image \in WellBuilt /\ (moves = 0 => smoke.image = tag)
  /\ smoke.pc \in {"probe", "write"} => (moves = 0 => smoke.container = tag)
  /\ smoke.pc = "probe" => /\ smoke.next \in Nat \ {0}
                           /\ \A p \in Probes : p < smoke.next => p \in Passes[smoke.container]
  /\ smoke.pc = "write" => Probes \subseteq Passes[smoke.container] /\ smoke.container \in Healthy
  /\ files.smoke # None => Probed(files.smoke)

PassedSound ==
  /\ gate.pc = "evaluate" /\ gate.input.smoke # None => Probed(gate.input.smoke)
  /\ files.summary # None => files.summary.smoke.image = files.summary.image /\ Probed(files.summary.smoke)

GateInv ==
  /\ IsEvidence(files)
  /\ smoke = [x \in {"pc", "image", "container", "next"} |-> smoke[x]]
  /\ gate = [x \in {"pc", "image", "database", "input"} |-> gate[x]]
  /\ GateSound /\ SmokeSound /\ PassedSound
  /\ Gating!SmokeIsOfTheLastRun /\ Gating!PassedIsClean

LEMMA GateInit == Gating!Init => GateInv
BY DEF Gating!Init, Gating!NoSmoke, Gating!NoGate, GateInv, IsEvidence, GateSound, SmokeSound, PassedSound,
   Gating!SmokeIsOfTheLastRun, Gating!PassedIsClean

(* Steps of the smoke test: of the directory they touch its own result.    *)
LEMMA SmokeSteps ==
  ASSUME Gating!ContainerGateAssumption, GateInv, Gating!Smoke
  PROVE  GateInv'
<1>1. /\ IsEvidence(files) /\ smoke = [x \in {"pc", "image", "container", "next"} |-> smoke[x]]
      /\ Gating!SmokeIsOfTheLastRun /\ SmokeSound
  BY DEF GateInv
<1>. USE DEF Gating!World, Gating!Outside
<1>2. ASSUME UNCHANGED <<gate, moves, tag>>, IsEvidence(files)', SmokeSound',
             files'.sbom = files.sbom, files'.scan = files.scan, files'.summary = files.summary,
             smoke' = [x \in {"pc", "image", "container", "next"} |-> smoke'[x]],
             files'.smoke # None => files'.smoke.run = runs' /\ smoke'.pc = "idle"
      PROVE  GateInv'
  <2>1. PassedSound'
    BY <1>2 DEF GateInv, PassedSound, Probed
  <2>. QED  BY <1>2, <2>1 DEF GateInv, GateSound, ScanSound, Gating!SmokeIsOfTheLastRun, Gating!PassedIsClean
<1>3. ASSUME UNCHANGED <<gate, runs, moves, tag>>, Gating!Fail PROVE GateInv'
  <2>1. smoke'.pc = "idle" /\ files'.smoke = None /\ IsEvidence(files)' /\ files'.sbom = files.sbom
        /\ files'.scan = files.scan /\ files'.summary = files.summary
        /\ smoke' = [x \in {"pc", "image", "container", "next"} |-> smoke'[x]]
    BY <1>1, <1>3 DEF Gating!Fail, Gating!NoSmoke, IsEvidence
  <2>2. SmokeSound'
    BY <1>1, <1>3, <2>1 DEF SmokeSound
  <2>. QED  BY <1>2, <1>3, <2>1, <2>2
<1>4. ASSUME UNCHANGED <<gate, runs, files, moves, tag>>, smoke.pc # "idle", SmokeSound',
             smoke' = [x \in {"pc", "image", "container", "next"} |-> smoke'[x]]
      PROVE  GateInv'
  BY <1>1, <1>2, <1>4 DEF Gating!SmokeIsOfTheLastRun, IsEvidence
<1>5. CASE Gating!StartSmoke
  <2>1. smoke'.pc = "inspect" /\ files'.smoke = None /\ IsEvidence(files)' /\ files'.sbom = files.sbom
        /\ files'.scan = files.scan /\ files'.summary = files.summary
        /\ smoke' = [x \in {"pc", "image", "container", "next"} |-> smoke'[x]] /\ UNCHANGED <<gate, moves, tag>>
    BY <1>1, <1>5 DEF Gating!StartSmoke, Gating!NoSmoke, IsEvidence
  <2>2. SmokeSound'
    BY <1>1, <2>1 DEF SmokeSound
  <2>. QED  BY <1>2, <2>1, <2>2
<1>6. CASE Gating!ValidateImageInspection
  <2>1. CASE tag \in WellBuilt
    <3>1. /\ smoke.pc = "inspect" /\ smoke'.pc = "run" /\ smoke'.image = tag /\ UNCHANGED <<gate, runs, files, moves, tag>>
          /\ smoke' = [x \in {"pc", "image", "container", "next"} |-> smoke'[x]]
      BY <1>1, <1>6, <2>1 DEF Gating!ValidateImageInspection
    <3>2. SmokeSound'
      BY <1>1, <2>1, <3>1 DEF SmokeSound, Probed
    <3>. QED  BY <1>4, <3>1, <3>2
  <2>. QED  BY <1>3, <1>6, <2>1 DEF Gating!ValidateImageInspection
<1>7. CASE Gating!Run
  <2>1. /\ smoke.pc = "run" /\ smoke'.pc = "probe" /\ smoke'.image = smoke.image /\ smoke'.container = tag
        /\ smoke'.next = 1 /\ UNCHANGED <<gate, runs, files, moves, tag>>
        /\ smoke' = [x \in {"pc", "image", "container", "next"} |-> smoke'[x]]
    BY <1>1, <1>7 DEF Gating!Run
  <2>2. \A p \in Probes : ~(p < 1)
    BY DEF Gating!ContainerGateAssumption
  <2>3. SmokeSound'
    BY <1>1, <2>1, <2>2 DEF SmokeSound, Probed
  <2>. QED  BY <1>4, <2>1, <2>3
<1>8. CASE Gating!ProbeHealth \/ Gating!ProbeDocument
  <2>1. smoke.pc = "probe" /\ Gating!Answered(smoke.next) /\ Gating!Outside
    BY <1>8 DEF Gating!ProbeHealth, Gating!ProbeDocument
  <2>2. CASE smoke.next \in Passes[smoke.container]
    <3>1. /\ smoke'.pc = "probe" /\ smoke'.image = smoke.image /\ smoke'.container = smoke.container
          /\ smoke'.next = smoke.next + 1 /\ UNCHANGED <<gate, runs, files, moves, tag>>
          /\ smoke' = [x \in {"pc", "image", "container", "next"} |-> smoke'[x]]
      BY <1>1, <2>1, <2>2 DEF Gating!Answered, Gating!Request
    <3>2. \A p \in Probes : p < smoke.next + 1 => p \in Passes[smoke.container]
      <4>1. smoke.next \in Nat /\ Probes \subseteq Nat
        BY <1>1, <2>1 DEF SmokeSound, Gating!ContainerGateAssumption
      <4>2. \A p \in Probes : p < smoke.next + 1 => p < smoke.next \/ p = smoke.next
        BY <4>1
      <4>. QED  BY <1>1, <2>1, <2>2, <4>2 DEF SmokeSound
    <3>3. SmokeSound'
      BY <1>1, <2>1, <3>1, <3>2 DEF SmokeSound, Probed
    <3>. QED  BY <1>4, <2>1, <3>1, <3>3
  <2>. QED  BY <1>3, <2>1, <2>2 DEF Gating!Answered, Gating!Request
<1>9. CASE Gating!WaitForDockerHealth
  <2>1. CASE smoke.container \in Healthy
    <3>1. /\ smoke.pc = "probe" /\ smoke'.pc = "write" /\ smoke'.image = smoke.image
          /\ smoke'.container = smoke.container /\ smoke.next \notin Probes
          /\ UNCHANGED <<gate, runs, files, moves, tag>>
          /\ smoke' = [x \in {"pc", "image", "container", "next"} |-> smoke'[x]]
      BY <1>1, <1>9, <2>1 DEF Gating!WaitForDockerHealth
    <3>2. Probes \subseteq Passes[smoke.container]
      <4>1. smoke.next \in Nat \ {0} /\ Probes \subseteq Nat \ {0} /\ \A p \in Probes : 1..p \subseteq Probes
        BY <1>1, <3>1 DEF SmokeSound, Gating!ContainerGateAssumption
      <4>2. \A p \in Probes : p < smoke.next
        BY <3>1, <4>1
      <4>. QED  BY <1>1, <3>1, <4>2 DEF SmokeSound
    <3>3. SmokeSound'
      BY <1>1, <2>1, <3>1, <3>2 DEF SmokeSound, Probed
    <3>. QED  BY <1>4, <3>1, <3>3
  <2>. QED  BY <1>3, <1>9, <2>1 DEF Gating!WaitForDockerHealth
<1>10. CASE Gating!WriteSmoke
  <2>1. /\ smoke.pc = "write" /\ smoke'.pc = "idle" /\ UNCHANGED <<gate, runs, moves, tag>>
        /\ files'.smoke = [image |-> smoke.image, tested |-> smoke.container, run |-> runs]
        /\ IsEvidence(files)' /\ files'.sbom = files.sbom /\ files'.scan = files.scan /\ files'.summary = files.summary
        /\ smoke' = [x \in {"pc", "image", "container", "next"} |-> smoke'[x]]
    BY <1>1, <1>10 DEF Gating!WriteSmoke, Gating!NoSmoke, IsEvidence
  <2>2. SmokeSound'
    BY <1>1, <2>1 DEF SmokeSound, Probed
  <2>. QED  BY <1>2, <2>1, <2>2
<1>11. CASE Gating!SmokeFails
  BY <1>3, <1>11 DEF Gating!SmokeFails
<1>12. CASE Gating!SmokeIsKilled
  <2>1. /\ smoke'.pc = "idle" /\ smoke.pc # "idle" /\ UNCHANGED <<files, gate, runs, moves, tag>>
        /\ smoke' = [x \in {"pc", "image", "container", "next"} |-> smoke'[x]]
    BY <1>1, <1>12 DEF Gating!SmokeIsKilled, Gating!NoSmoke
  <2>2. SmokeSound'
    BY <1>1, <2>1 DEF SmokeSound, Probed
  <2>. QED  BY <1>4, <2>1, <2>2
<1>. QED  BY <1>5, <1>6, <1>7, <1>8, <1>9, <1>10, <1>11, <1>12 DEF Gating!Smoke

(* Steps of the gate: they leave the result of the smoke test alone.       *)
LEMMA ScanSteps ==
  ASSUME GateInv, Gating!Gate
  PROVE  GateInv'
<1>1. /\ IsEvidence(files) /\ gate = [x \in {"pc", "image", "database", "input"} |-> gate[x]]
      /\ smoke = [x \in {"pc", "image", "container", "next"} |-> smoke[x]]
      /\ GateSound /\ SmokeSound /\ PassedSound /\ Gating!SmokeIsOfTheLastRun /\ Gating!PassedIsClean
  BY DEF GateInv
<1>. USE DEF Gating!World, Gating!Inside
<1>2. ASSUME UNCHANGED <<smoke, runs, moves, tag>>, IsEvidence(files)', files'.smoke = files.smoke,
             gate' = [x \in {"pc", "image", "database", "input"} |-> gate'[x]], GateSound',
             PassedSound', Gating!PassedIsClean'
      PROVE  GateInv'
  <2>1. SmokeSound'
    BY <1>1, <1>2 DEF SmokeSound, Probed
  <2>. QED  BY <1>1, <1>2, <2>1 DEF GateInv, Gating!SmokeIsOfTheLastRun
<1>3. ASSUME files'.summary \in {None, files.summary}, UNCHANGED <<moves, tag>>,
             gate'.pc # "evaluate" \/ gate'.input.smoke = files.smoke
      PROVE  PassedSound' /\ Gating!PassedIsClean'
  <2>1. PassedSound'
    BY <1>1, <1>3 DEF SmokeSound, PassedSound, Probed
  <2>. QED  BY <1>1, <1>3, <2>1 DEF Gating!PassedIsClean
<1>4. CASE Gating!StartGate
  <2>1. GateSound'
    BY <1>4 DEF Gating!StartGate, Gating!NoGate, GateSound
  <2>. QED  BY <2>1, <1>1, <1>2, <1>3, <1>4 DEF Gating!StartGate, Gating!NoGate, Gating!Inside, IsEvidence
<1>5. CASE Gating!ListPackages
  <2>1. /\ gate'.pc = "database" /\ files'.sbom = [image |-> gate.image, packages |-> Inventory[gate.image]]
        /\ files'.summary = files.summary /\ files'.smoke = files.smoke /\ IsEvidence(files)'
        /\ gate' = [x \in {"pc", "image", "database", "input"} |-> gate'[x]]
    BY <1>1, <1>5 DEF Gating!ListPackages, Gating!Go, IsEvidence
  <2>2. GateSound'
    BY <2>1 DEF GateSound
  <2>. QED  BY <2>1, <2>2, <1>2, <1>3, <1>5 DEF Gating!ListPackages, Gating!Inside
<1>6. ASSUME NEW b, Gating!UpdateDatabase(b) PROVE GateInv'
  <2>1. /\ gate'.pc = "scan" /\ files'.sbom = files.sbom
        /\ files'.summary = files.summary /\ files'.smoke = files.smoke /\ IsEvidence(files)'
        /\ gate' = [x \in {"pc", "image", "database", "input"} |-> gate'[x]]
    BY <1>1, <1>6 DEF Gating!UpdateDatabase, Gating!Go, IsEvidence
  <2>2. GateSound'
    BY <2>1, <1>1, <1>6 DEF GateSound, Gating!UpdateDatabase
  <2>. QED  BY <2>1, <2>2, <1>2, <1>3, <1>6 DEF Gating!UpdateDatabase, Gating!Inside
<1>7. ASSUME NEW i, Gating!Scan(i) PROVE GateInv'
  <2>. DEFINE found == files.sbom.packages \cap Blocked[gate.database]
  <2>1. /\ gate'.pc = "read" /\ files'.sbom = files.sbom /\ i \subseteq found
        /\ files'.scan = [blocked |-> found \ i, ignored |-> i, built |-> gate.database]
        /\ files'.summary = files.summary /\ files'.smoke = files.smoke /\ IsEvidence(files)'
        /\ gate' = [x \in {"pc", "image", "database", "input"} |-> gate'[x]]
    BY <1>1, <1>7 DEF Gating!Scan, Gating!Go, IsEvidence
  <2>2. files.sbom.packages = Inventory[files.sbom.image]
    BY <1>1, <1>7 DEF GateSound, Gating!Scan
  <2>3. GateSound'
    BY <2>1, <2>2 DEF GateSound, ScanSound
  <2>. QED  BY <2>1, <2>3, <1>2, <1>3, <1>7 DEF Gating!Scan, Gating!Inside
<1>8. CASE Gating!ReadInputs
  <2>1. /\ gate'.pc = "evaluate" /\ gate'.input = files
        /\ files'.summary = None /\ files'.smoke = files.smoke /\ IsEvidence(files)'
        /\ gate' = [x \in {"pc", "image", "database", "input"} |-> gate'[x]]
    BY <1>1, <1>8 DEF Gating!ReadInputs, Gating!Go, IsEvidence
  <2>2. GateSound'
    BY <2>1, <1>1, <1>8 DEF GateSound, ScanSound, Gating!ReadInputs
  <2>. QED  BY <2>1, <2>2, <1>2, <1>3, <1>8 DEF Gating!ReadInputs, Gating!Inside
<1>9. CASE Gating!Decide
  <2>. DEFINE in == gate.input
  <2>1. /\ gate'.pc = "idle" /\ files'.smoke = files.smoke /\ IsEvidence(files)'
        /\ gate' = [x \in {"pc", "image", "database", "input"} |-> gate'[x]]
    BY <1>1, <1>9 DEF Gating!Decide, Gating!NoGate, IsEvidence
  <2>2. GateSound'
    BY <2>1 DEF GateSound
  <2>3. \/ files'.summary = None
        \/ /\ Gating!EvaluateContainerScan(in, gate.image)
           /\ files'.summary = [image |-> gate.image, smoke |-> in.smoke, built |-> in.status.built, at |-> now]
    BY <1>1, <1>9 DEF Gating!Decide, IsEvidence
  <2>4. ASSUME Gating!EvaluateContainerScan(in, gate.image)
        PROVE  /\ in.smoke.image = gate.image /\ Probed(in.smoke)
               /\ Inventory[gate.image] \cap Blocked[in.status.built] = {}
               /\ now - in.status.built <= MaxAge
    <3>1. ScanSound(in)
      BY <1>1, <1>9 DEF GateSound, Gating!Decide
    <3>2. in.smoke # None => Probed(in.smoke)
      BY <1>1, <1>9 DEF PassedSound, Gating!Decide
    <3>. QED  BY <2>4, <3>1, <3>2 DEF ScanSound, Gating!EvaluateContainerScan, Gating!ValidateSmoke, Gating!ValidateSbom,
              Gating!NothingBlocked, Gating!ValidateDatabaseRecord
  <2>. HIDE DEF in
  <2>5. UNCHANGED <<moves, tag>>
    BY <1>9 DEF Gating!Decide
  <2>6. ASSUME files'.summary = None PROVE PassedSound' /\ Gating!PassedIsClean'
    BY <2>1, <2>5, <2>6, <1>3
  <2>7. ASSUME files'.summary # None PROVE PassedSound' /\ Gating!PassedIsClean'
    <3>1. PassedSound'
      BY <2>1, <2>3, <2>4, <2>5, <2>7 DEF PassedSound, Probed
    <3>2. Gating!PassedIsClean'
      BY <2>3, <2>4, <2>7 DEF Gating!PassedIsClean
    <3>. QED  BY <3>1, <3>2
  <2>. QED  BY <2>1, <2>2, <2>6, <2>7, <1>2, <1>9 DEF Gating!Decide, Gating!Inside
<1>10. CASE Gating!GateIsKilled
  <2>1. GateSound'
    BY <1>10 DEF Gating!GateIsKilled, Gating!NoGate, GateSound
  <2>. QED  BY <2>1, <1>1, <1>2, <1>3, <1>10 DEF Gating!GateIsKilled, Gating!NoGate, Gating!Inside, IsEvidence
<1>. QED  BY <1>4, <1>5, <1>6, <1>7, <1>8, <1>9, <1>10 DEF Gating!Gate

LEMMA GateStep ==
  ASSUME Gating!ContainerGateAssumption, GateInv, [Gating!Next]_Gating!vars
  PROVE  GateInv'
<1>1. ASSUME UNCHANGED <<files, smoke, runs, gate>>, UNCHANGED <<moves, tag>> \/ moves' = moves + 1 PROVE GateInv'
  <2>1. SmokeSound' /\ PassedSound'
    <3>1. moves \in Nat
      BY DEF GateInv, SmokeSound
    <3>2. moves' # 0 \/ UNCHANGED <<moves, tag>>
      BY <1>1, <3>1
    <3>. QED  BY <1>1, <3>1, <3>2 DEF GateInv, SmokeSound, PassedSound, Probed
  <2>. QED  BY <1>1, <2>1 DEF GateInv, IsEvidence, GateSound, ScanSound, Gating!SmokeIsOfTheLastRun, Gating!PassedIsClean
<1>. QED  BY <1>1, SmokeSteps, ScanSteps DEF Gating!Next, Gating!vars, Gating!MoveTag, Gating!Tick

LEMMA GateSafe ==
  ASSUME Gating!ContainerGateAssumption
  PROVE  Gating!Spec => []GateInv
BY GateInit, GateStep, PTL DEF Gating!Spec

(* A smoke result in the evidence directory is that of the last run: a      *)
(* later run that fails, or is killed at any point, leaves no evidence of   *)
(* an earlier success (container-smoke.mjs).                                *)
THEOREM SmokeIsAlwaysTheLast ==
  ASSUME Gating!ContainerGateAssumption
  PROVE  Gating!Spec => []Gating!SmokeIsOfTheLastRun
BY GateSafe, PTL DEF GateInv

(* A gate that passes is about the image that the smoke evidence it read    *)
(* names, none of whose packages was known to be blocked by a database not  *)
(* older than the limit, however the tag moves and whatever is killed; the  *)
(* container that was probed is the one the tag meant when it was run, and  *)
(* is sure to be that image only if the tag never moved                     *)
(* (check-container-vulnerabilities.mjs, container-smoke.mjs).              *)
THEOREM GatePassesOneCleanImage ==
  ASSUME Gating!ContainerGateAssumption
  PROVE  Gating!Spec => [](Gating!PassedIsOneImage /\ Gating!PassedIsClean)
<1>1. GateInv => Gating!PassedIsOneImage /\ Gating!PassedIsClean
  BY DEF GateInv, PassedSound, Probed, Gating!PassedIsOneImage
<1>. QED  BY <1>1, GateSafe, PTL

-----------------------------------------------------------------------------
(* Preflight.                                                              *)
CONSTANTS Procs, Edited, Configs, Docs, PolicyOf, CandidateIn, ApprovesSafe, Absent, Nobody
VARIABLES config, state, clock, ledger, receipts

Signing == INSTANCE Preflight

(* The authorizations that may be turned into a receipt, and the receipt.  *)
Approved == {d \in Docs : /\ Signing!ValidateDeploymentAuthorization(d)
                          /\ d.policy = PolicyOf[d.commit] /\ CandidateIn[d.config] = d.commit}
ReceiptFor(d) == [doc |-> d, config |-> d.config, state |-> d.prior, candidate |-> d.commit, commit |-> d.commit]

(* What a preflight knows by the stage it has reached.                     *)
Trusting == {"trusted", "authorized", "resolved", "configured", "reviewed", "listed", "stated", "checked", "ready",
             "claimed"}
Authorized == Trusting \ {"trusted"}
Configured == Authorized \ {"authorized", "resolved"}
Reviewed == Configured \ {"configured"}
Stated == Reviewed \ {"reviewed", "listed"}

IsPreflight(x) ==
  x = [f \in {"pc", "nonce", "safes", "commit", "doc", "policy", "config", "candidate", "state"} |-> x[f]]

PreflightSound(x) ==
  /\ IsPreflight(x)
  /\ x.pc \in Trusting => x.doc \in Docs /\ x.policy = PolicyOf[x.commit]
  /\ x.pc \in Authorized => /\ Signing!ValidateDeploymentAuthorization(x.doc)
                            /\ x.doc.commit = x.commit /\ x.doc.policy = x.policy
  /\ x.pc \in Configured => x.config = x.doc.config
  /\ x.pc \in Reviewed => x.candidate = x.commit /\ CandidateIn[x.config] = x.commit
  /\ x.pc \in Stated => x.state = x.doc.prior

(* An id with a receipt, or a running preflight past its claim, is taken;  *)
(* and that preflight is the one to write the first receipt for it.        *)
LedgerSound ==
  /\ ledger = [i \in Signing!Ids |-> ledger[i]]
  /\ receipts \in Seq({ReceiptFor(d) : d \in Approved})
  /\ \A i \in DOMAIN receipts : ledger[receipts[i].doc.id] # Nobody
  /\ \A p \in Procs : proc[p].pc = "claimed" =>
       /\ ledger[proc[p].doc.id] = p
       /\ \A i \in DOMAIN receipts : receipts[i].doc.id # proc[p].doc.id

SigningInv ==
  /\ proc = [p \in Procs |-> proc[p]]
  /\ \A p \in Procs : PreflightSound(proc[p])
  /\ LedgerSound /\ Signing!OneConsumer

LEMMA IdleIsSound == PreflightSound(Signing!Idle)
BY DEF PreflightSound, IsPreflight, Signing!Idle, Trusting, Authorized, Configured, Reviewed, Stated

LEMMA SigningInit == Signing!Init => SigningInv
<1>. SUFFICES ASSUME Signing!Init PROVE SigningInv
  OBVIOUS
<1>1. /\ proc = [p \in Procs |-> Signing!Idle] /\ ledger = [i \in Signing!Ids |-> Nobody] /\ receipts = <<>>
  BY DEF Signing!Init
<1>2. Signing!Idle.pc = "idle"
  BY DEF Signing!Idle
<1>3. LedgerSound
  BY <1>1, <1>2 DEF LedgerSound
<1>4. Signing!OneConsumer
  BY <1>1 DEF Signing!OneConsumer
<1>. QED  BY <1>1, <1>3, <1>4, IdleIsSound DEF SigningInv

(* A step of one preflight that neither claims nor records.                *)
LEMMA CheckingStep ==
  ASSUME SigningInv, NEW p \in Procs, NEW x, PreflightSound(x), x.pc # "claimed",
         proc' = [proc EXCEPT ![p] = x], UNCHANGED <<ledger, receipts>>
  PROVE  SigningInv'
<1>1. /\ proc = [q \in Procs |-> proc[q]] /\ (\A q \in Procs : PreflightSound(proc[q]))
      /\ LedgerSound /\ Signing!OneConsumer
  BY DEF SigningInv
<1>2. proc' = [q \in Procs |-> proc'[q]] /\ \A q \in Procs : proc'[q] = x \/ proc'[q] = proc[q]
  BY <1>1
<1>3. \A q \in Procs : PreflightSound(proc[q])'
  <2>. SUFFICES ASSUME NEW q \in Procs PROVE PreflightSound(proc[q])'
    OBVIOUS
  <2>1. PreflightSound(proc'[q])
    BY <1>1, <1>2
  <2>. QED  BY <2>1 DEF PreflightSound, IsPreflight
<1>4. LedgerSound'
  BY <1>1, <1>2 DEF LedgerSound
<1>5. Signing!OneConsumer'
  BY <1>1 DEF Signing!OneConsumer
<1>. QED  BY <1>2, <1>3, <1>4, <1>5 DEF SigningInv

(* The checks before the claim: each failure ends the preflight, and what  *)
(* was read is what was compared.                                          *)
LEMMA LearningStep ==
  ASSUME SigningInv, NEW p \in Procs, NEW from, NEW to, NEW ok, NEW x, to # "claimed",
         Signing!Learn(p, from, to, ok, x),
         ok => PreflightSound([x EXCEPT !.pc = to]) /\ IsPreflight(x)
  PROVE  SigningInv'
<1>. DEFINE y == IF ok THEN [x EXCEPT !.pc = to] ELSE Signing!Idle
<1>1. PreflightSound(y)
  BY IdleIsSound
<1>2. y.pc # "claimed"
  <2>1. Signing!Idle.pc # "claimed"
    BY DEF Signing!Idle
  <2>2. ok => y.pc = to
    BY DEF IsPreflight
  <2>. QED  BY <2>1, <2>2
<1>3. proc' = [proc EXCEPT ![p] = y] /\ UNCHANGED <<ledger, receipts>>
  BY DEF Signing!Learn, Signing!Step
<1>. HIDE DEF y
<1>. QED  BY <1>1, <1>2, <1>3, CheckingStep

(* One field of a record is replaced.                                      *)
LEMMA Learnt ==
  ASSUME NEW x, IsPreflight(x), NEW to
  PROVE  /\ LET y == [x EXCEPT !.pc = to]
            IN  IsPreflight(y) /\ y.pc = to /\ y.commit = x.commit /\ y.doc = x.doc /\ y.policy = x.policy
                /\ y.config = x.config /\ y.candidate = x.candidate /\ y.state = x.state
BY DEF IsPreflight

LEMMA CheckStep ==
  ASSUME SigningInv, NEW p \in Procs, NEW from, NEW to, NEW ok, to # "claimed", Signing!Check(p, from, to, ok),
         to \in Trusting => from \in Trusting,
         to \in Authorized => from \in Authorized \/
            (ok => /\ Signing!ValidateDeploymentAuthorization(proc[p].doc)
                   /\ proc[p].doc.commit = proc[p].commit /\ proc[p].doc.policy = proc[p].policy),
         to \in Configured => from \in Configured, to \in Reviewed => from \in Reviewed, to \in Stated => from \in Stated
  PROVE  SigningInv'
<1>. DEFINE x == [proc[p] EXCEPT !.pc = to]
<1>1. PreflightSound(proc[p]) /\ proc[p].pc = from /\ IsPreflight(proc[p])
  BY DEF SigningInv, PreflightSound, Signing!Check, Signing!Learn, Signing!Step
<1>2. IsPreflight(x) /\ x.pc = to /\ x.commit = proc[p].commit /\ x.doc = proc[p].doc /\ x.policy = proc[p].policy
      /\ x.config = proc[p].config /\ x.candidate = proc[p].candidate /\ x.state = proc[p].state
  BY <1>1, Learnt
<1>. HIDE DEF x
<1>3. ok => PreflightSound(x)
  BY <1>1, <1>2 DEF PreflightSound
<1>. USE DEF x
<1>. QED  BY <1>1, <1>3, LearningStep DEF Signing!Check

LEMMA SigningStep ==
  ASSUME Signing!PreflightAssumption, SigningInv, [Signing!Next]_Signing!vars
  PROVE  SigningInv'
<1>1. /\ proc = [q \in Procs |-> proc[q]] /\ (\A q \in Procs : PreflightSound(proc[q]))
      /\ LedgerSound /\ Signing!OneConsumer
  BY DEF SigningInv
<1>. USE DEF Trusting, Authorized, Configured, Reviewed, Stated
<1>2. ASSUME UNCHANGED <<proc, ledger, receipts>> PROVE SigningInv'
  BY <1>2, <1>1 DEF SigningInv, LedgerSound, Signing!OneConsumer, PreflightSound, IsPreflight
<1>3. ASSUME Signing!World PROVE SigningInv'
  BY <1>3, <1>2 DEF Signing!World, Signing!Move, Signing!Checkout, Signing!EditPath, Signing!EditFiles,
     Signing!ChainMoves, Signing!Tick
<1>4. ASSUME NEW p \in Procs, Signing!Crash(p) PROVE SigningInv'
  <2>1. Signing!Idle.pc # "claimed"
    BY DEF Signing!Idle
  <2>. QED  BY <1>4, <2>1, IdleIsSound, CheckingStep DEF Signing!Crash
<1>5. ASSUME NEW p \in Procs, Signing!Preflight(p) PROVE SigningInv'
  <2>1. PreflightSound(proc[p]) /\ IsPreflight(proc[p])
    BY <1>1 DEF PreflightSound
  <2>2. CASE Signing!Observe(p)
    <3>1. PreflightSound([[proc[p] EXCEPT !.nonce = chain.nonce, !.safes = chain.safes] EXCEPT !.pc = "observed"])
          /\ IsPreflight([proc[p] EXCEPT !.nonce = chain.nonce, !.safes = chain.safes])
      BY <2>1 DEF PreflightSound, IsPreflight
    <3>. QED  BY <2>2, <3>1, LearningStep DEF Signing!Observe
  <2>3. CASE Signing!ReadCommit(p)
    <3>1. PreflightSound([[proc[p] EXCEPT !.commit = head] EXCEPT !.pc = "committed"])
          /\ IsPreflight([proc[p] EXCEPT !.commit = head])
      BY <2>1 DEF PreflightSound, IsPreflight
    <3>. QED  BY <2>3, <3>1, LearningStep DEF Signing!ReadCommit
  <2>4. CASE Signing!AssertExactTrackedWorktreeAtHead(p)
    BY <2>4, CheckStep DEF Signing!AssertExactTrackedWorktreeAtHead
  <2>5. CASE Signing!ReadTrustedPolicy(p)
    <3>. DEFINE x(d) == [proc[p] EXCEPT !.doc = d, !.policy = PolicyOf[tree["policy"]]]
    <3>1. PICK d \in Docs : Signing!Learn(p, "clean", "trusted", Signing!Tracked(p, "policy"), x(d))
      BY <2>5 DEF Signing!ReadTrustedPolicy
    <3>2. /\ IsPreflight(x(d)) /\ IsPreflight([x(d) EXCEPT !.pc = "trusted"]) /\ [x(d) EXCEPT !.pc = "trusted"].pc = "trusted"
          /\ [x(d) EXCEPT !.pc = "trusted"].doc = d /\ [x(d) EXCEPT !.pc = "trusted"].commit = proc[p].commit
          /\ [x(d) EXCEPT !.pc = "trusted"].policy = PolicyOf[tree["policy"]]
      BY <2>1 DEF IsPreflight
    <3>3. Signing!Tracked(p, "policy") => PreflightSound([x(d) EXCEPT !.pc = "trusted"])
      <4>. HIDE DEF x
      <4>. QED  BY <3>2 DEF PreflightSound, Signing!Tracked
    <3>. HIDE DEF x
    <3>. QED  BY <3>1, <3>2, <3>3, LearningStep
  <2>6. CASE Signing!Authorize(p)
    BY <2>6, CheckStep DEF Signing!Authorize, Signing!AssertTrustedDeploymentAuthorizationPolicy
  <2>7. CASE Signing!ResolveFiles(p)
    BY <2>7, CheckStep DEF Signing!ResolveFiles
  <2>8. CASE Signing!ReadConfig(p)
    <3>. DEFINE x == [proc[p] EXCEPT !.config = config]
    <3>. DEFINE y == [x EXCEPT !.pc = "configured"]
    <3>1. Signing!Learn(p, "resolved", "configured", config = proc[p].doc.config, x) /\ proc[p].pc = "resolved"
      BY <2>8 DEF Signing!ReadConfig, Signing!Learn, Signing!Step
    <3>2. IsPreflight(x) /\ IsPreflight(y) /\ y.pc = "configured" /\ y.doc = proc[p].doc /\ y.commit = proc[p].commit
          /\ y.policy = proc[p].policy /\ y.config = config
      BY <2>1 DEF IsPreflight
    <3>. HIDE DEF y
    <3>3. config = proc[p].doc.config => PreflightSound(y)
      BY <2>1, <3>1, <3>2 DEF PreflightSound
    <3>4. config = proc[p].doc.config => PreflightSound([x EXCEPT !.pc = "configured"])
      BY <3>3 DEF y
    <3>. HIDE DEF x
    <3>. QED  BY <3>1, <3>2, <3>4, LearningStep
  <2>9. CASE Signing!ReadCandidate(p)
    <3>. DEFINE x == [proc[p] EXCEPT !.candidate = tree["candidate"]]
                ok == Signing!Tracked(p, "candidate") /\ CandidateIn[proc[p].config] = proc[p].commit
    <3>. DEFINE y == [x EXCEPT !.pc = "reviewed"]
    <3>1. Signing!Learn(p, "configured", "reviewed", ok, x) /\ proc[p].pc = "configured"
      BY <2>9 DEF Signing!ReadCandidate, Signing!Learn, Signing!Step
    <3>2. IsPreflight(x) /\ IsPreflight(y) /\ y.pc = "reviewed" /\ y.doc = proc[p].doc /\ y.commit = proc[p].commit
          /\ y.policy = proc[p].policy /\ y.config = proc[p].config /\ y.candidate = tree["candidate"]
      BY <2>1 DEF IsPreflight
    <3>. HIDE DEF y
    <3>3. ok => PreflightSound(y)
      BY <2>1, <3>1, <3>2 DEF PreflightSound, Signing!Tracked
    <3>4. ok => PreflightSound([x EXCEPT !.pc = "reviewed"])
      BY <3>3 DEF y
    <3>. HIDE DEF x, ok
    <3>. QED  BY <3>1, <3>2, <3>4, LearningStep
  <2>10. CASE Signing!FetchRegistry(p)
    BY <2>10, CheckStep DEF Signing!FetchRegistry
  <2>11. CASE Signing!ReadState(p)
    <3>. DEFINE s == IF proc[p].doc.phase = "deploy" THEN Absent ELSE state
                ok == Signing!StateIsSigned(proc[p].doc)
    <3>. DEFINE x == [proc[p] EXCEPT !.state = s]
    <3>. DEFINE y == [x EXCEPT !.pc = "stated"]
    <3>1. Signing!Learn(p, "listed", "stated", ok, x) /\ proc[p].pc = "listed"
      BY <2>11 DEF Signing!ReadState, Signing!Learn, Signing!Step
    <3>2. IsPreflight(x) /\ IsPreflight(y) /\ y.pc = "stated" /\ y.doc = proc[p].doc /\ y.commit = proc[p].commit
          /\ y.policy = proc[p].policy /\ y.config = proc[p].config /\ y.candidate = proc[p].candidate /\ y.state = s
      <4>. HIDE DEF s
      <4>. QED  BY <2>1 DEF IsPreflight
    <3>. HIDE DEF y
    <3>3. ok => s = proc[p].doc.prior
      BY <2>1, <3>1 DEF PreflightSound, Signing!StateIsSigned, Signing!ValidateDeploymentAuthorization,
         Signing!ParseDeploymentAuthorization
    <3>. HIDE DEF s, ok
    <3>4. ok => PreflightSound(y)
      BY <2>1, <3>1, <3>2, <3>3 DEF PreflightSound
    <3>5. ok => PreflightSound([x EXCEPT !.pc = "stated"])
      BY <3>4 DEF y
    <3>. HIDE DEF x
    <3>. QED  BY <3>1, <3>2, <3>5, LearningStep
  <2>12. CASE Signing!CheckSafes(p)
    BY <2>12, CheckStep DEF Signing!CheckSafes
  <2>13. CASE Signing!AssertRepositoryHead(p)
    BY <2>13, CheckStep DEF Signing!AssertRepositoryHead
  <2>14. CASE Signing!Claim(p)
    <3>. DEFINE id == proc[p].doc.id
    <3>. DEFINE y == [proc[p] EXCEPT !.pc = "claimed"]
    <3>0. proc[p].pc = "ready"
      BY <2>14 DEF Signing!Claim, Signing!Step
    <3>1. CASE ledger[id] # Nobody
      <4>1. proc' = [proc EXCEPT ![p] = Signing!Idle] /\ UNCHANGED <<ledger, receipts>> /\ Signing!Idle.pc # "claimed"
        BY <2>14, <3>1 DEF Signing!Claim, Signing!Step, Signing!Idle
      <4>. QED  BY <4>1, IdleIsSound, CheckingStep
    <3>2. CASE ledger[id] = Nobody
      <4>1. /\ proc' = [proc EXCEPT ![p] = y] /\ receipts' = receipts /\ ledger' = [ledger EXCEPT ![id] = p]
        BY <2>14, <3>2 DEF Signing!Claim, Signing!Step
      <4>2. IsPreflight(y) /\ y.pc = "claimed" /\ y.commit = proc[p].commit /\ y.doc = proc[p].doc
            /\ y.policy = proc[p].policy /\ y.config = proc[p].config /\ y.candidate = proc[p].candidate
            /\ y.state = proc[p].state
        BY <2>1, Learnt
      <4>. HIDE DEF y
      <4>3. PreflightSound(y)
        BY <2>1, <3>0, <4>2 DEF PreflightSound
      <4>4. /\ proc' = [q \in Procs |-> proc'[q]] /\ proc'[p] = y
            /\ \A q \in Procs : q # p => proc'[q] = proc[q]
        BY <1>1, <4>1
      <4>5. \A q \in Procs : PreflightSound(proc[q])'
        <5>. SUFFICES ASSUME NEW q \in Procs PROVE PreflightSound(proc[q])'
          OBVIOUS
        <5>1. PreflightSound(proc'[q])
          BY <1>1, <4>3, <4>4
        <5>. QED  BY <5>1 DEF PreflightSound, IsPreflight
      <4>6. id \in Signing!Ids
        BY <2>1, <3>0 DEF PreflightSound, Signing!Ids
      <4>7. /\ ledger' = [i \in Signing!Ids |-> ledger'[i]] /\ ledger'[id] = p
            /\ \A i : i # id => ledger'[i] = ledger[i]
        <5>1. ledger = [i \in Signing!Ids |-> ledger[i]]
          BY <1>1 DEF LedgerSound
        <5>. HIDE DEF id
        <5>2. ledger' = [i \in Signing!Ids |-> IF i = id THEN p ELSE ledger[i]]
          BY <4>1, <4>6, <5>1
        <5>3. ledger' = [i \in Signing!Ids |-> ledger'[i]] /\ ledger'[id] = p
          BY <4>6, <5>2
        <5>4. ASSUME NEW i, i # id PROVE ledger'[i] = ledger[i]
          BY <4>1, <5>1, <5>4
        <5>. QED  BY <5>3, <5>4
      <4>8. p # Nobody
        BY DEF Signing!PreflightAssumption
      <4>9. \A i \in DOMAIN receipts : receipts[i].doc.id # id
        BY <1>1, <3>2 DEF LedgerSound
      <4>10. LedgerSound'
        <5>1. receipts' \in Seq({ReceiptFor(d) : d \in Approved}) /\ receipts' = receipts
          BY <1>1, <4>1 DEF LedgerSound
        <5>2. \A i \in DOMAIN receipts' : ledger'[receipts'[i].doc.id] # Nobody
          BY <1>1, <4>1, <4>7, <4>8 DEF LedgerSound
        <5>3. ASSUME NEW q \in Procs, proc'[q].pc = "claimed"
              PROVE  /\ ledger'[proc'[q].doc.id] = q
                     /\ \A i \in DOMAIN receipts' : receipts'[i].doc.id # proc'[q].doc.id
          <6>1. CASE q = p
            <7>1. proc'[q].doc.id = id
              BY <4>2, <4>4, <6>1
            <7>. HIDE DEF id
            <7>. QED  BY <4>1, <4>7, <4>9, <6>1, <7>1
          <6>2. CASE q # p
            <7>1. proc'[q] = proc[q] /\ ledger[proc[q].doc.id] = q
              BY <1>1, <4>4, <5>3, <6>2 DEF LedgerSound
            <7>2. q # Nobody
              BY DEF Signing!PreflightAssumption
            <7>3. ledger'[proc[q].doc.id] = q
              BY <3>2, <4>7, <7>1, <7>2
            <7>. QED  BY <1>1, <4>1, <5>3, <7>1, <7>3 DEF LedgerSound
          <6>. QED  BY <6>1, <6>2
        <5>. QED  BY <4>7, <5>1, <5>2, <5>3 DEF LedgerSound
      <4>11. Signing!OneConsumer'
        BY <1>1, <4>1 DEF Signing!OneConsumer
      <4>. QED  BY <4>4, <4>5, <4>10, <4>11 DEF SigningInv
    <3>. QED  BY <3>1, <3>2
  <2>15. CASE Signing!Record(p)
    <3>. DEFINE d == proc[p].doc
    <3>1. /\ proc[p].pc = "claimed" /\ proc' = [proc EXCEPT ![p] = Signing!Idle] /\ ledger' = ledger
          /\ receipts' = Append(receipts, Signing!Snapshot(p))
      BY <2>15 DEF Signing!Record, Signing!Step
    <3>2. d \in Approved /\ Signing!Snapshot(p) = ReceiptFor(d)
      BY <2>1, <3>1 DEF PreflightSound, Approved, ReceiptFor, Signing!Snapshot
    <3>3. ledger[d.id] = p /\ \A i \in DOMAIN receipts : receipts[i].doc.id # d.id
      BY <1>1, <3>1 DEF LedgerSound
    <3>4. ReceiptFor(d).doc = d
      BY DEF ReceiptFor
    <3>. DEFINE R == {ReceiptFor(e) : e \in Approved}
                r == ReceiptFor(d)
    <3>5. r \in R /\ receipts \in Seq(R)
      BY <1>1, <3>2 DEF LedgerSound
    <3>6. receipts' = Append(receipts, r)
      BY <3>1, <3>2
    <3>. HIDE DEF R, r
    <3>7. /\ receipts' \in Seq(R) /\ DOMAIN receipts = 1..Len(receipts) /\ Len(receipts) \in Nat
          /\ DOMAIN receipts' = 1..(Len(receipts) + 1) /\ receipts'[Len(receipts) + 1] = r
          /\ \A i \in DOMAIN receipts : receipts'[i] = receipts[i]
      BY <3>5, <3>6
    <3>8. \A i \in DOMAIN receipts' : i \in DOMAIN receipts \/ receipts'[i].doc = d
      <4>1. r.doc = d
        BY <3>4 DEF r
      <4>. QED  BY <3>7, <4>1
    <3>9. Signing!Idle.pc # "claimed"
      BY DEF Signing!Idle
    <3>10. /\ proc' = [q \in Procs |-> proc'[q]] /\ proc'[p] = Signing!Idle
           /\ \A q \in Procs : q # p => proc'[q] = proc[q]
      BY <1>1, <3>1
    <3>11. \A q \in Procs : PreflightSound(proc[q])'
      <4>. SUFFICES ASSUME NEW q \in Procs PROVE PreflightSound(proc[q])'
        OBVIOUS
      <4>1. PreflightSound(proc'[q])
        BY <1>1, <3>10, IdleIsSound
      <4>. QED  BY <4>1 DEF PreflightSound, IsPreflight
    <3>12. p # Nobody
      BY DEF Signing!PreflightAssumption
    <3>13. \A i \in DOMAIN receipts' : ledger'[receipts'[i].doc.id] # Nobody
      BY <1>1, <3>1, <3>3, <3>7, <3>8, <3>12 DEF LedgerSound
    <3>14. ASSUME NEW q \in Procs, proc'[q].pc = "claimed"
           PROVE  /\ ledger'[proc'[q].doc.id] = q
                  /\ \A i \in DOMAIN receipts' : receipts'[i].doc.id # proc'[q].doc.id
      <4>1. q # p /\ proc'[q] = proc[q]
        BY <3>9, <3>10, <3>14
      <4>2. ledger[proc[q].doc.id] = q /\ \A i \in DOMAIN receipts : receipts[i].doc.id # proc[q].doc.id
        BY <1>1, <3>14, <4>1 DEF LedgerSound
      <4>. QED  BY <3>1, <3>3, <3>7, <3>8, <4>1, <4>2
    <3>15. ledger' = [i \in Signing!Ids |-> ledger'[i]]
      BY <1>1, <3>1 DEF LedgerSound
    <3>16. LedgerSound'
      BY <3>7, <3>13, <3>14, <3>15 DEF LedgerSound, R
    <3>17. Signing!OneConsumer'
      <4>. SUFFICES ASSUME NEW i \in DOMAIN receipts', NEW j \in DOMAIN receipts',
                           receipts'[i].doc.id = receipts'[j].doc.id
                    PROVE  i = j
        BY DEF Signing!OneConsumer
      <4>1. CASE i \in DOMAIN receipts /\ j \in DOMAIN receipts
        BY <1>1, <3>7, <4>1 DEF Signing!OneConsumer
      <4>2. \A k \in DOMAIN receipts : receipts'[k].doc.id # d.id
        BY <3>3, <3>7
      <4>3. \A k \in DOMAIN receipts' : k \in DOMAIN receipts \/ (k = Len(receipts) + 1 /\ receipts'[k].doc = d)
        BY <3>7, <3>8
      <4>. QED  BY <4>1, <4>2, <4>3
    <3>. QED  BY <3>10, <3>11, <3>16, <3>17 DEF SigningInv
  <2>. QED  BY <1>5, <2>2, <2>3, <2>4, <2>5, <2>6, <2>7, <2>8, <2>9, <2>10, <2>11, <2>12, <2>13, <2>14, <2>15
            DEF Signing!Preflight
<1>6. ASSUME UNCHANGED Signing!vars PROVE SigningInv'
  BY <1>6, <1>2 DEF Signing!vars
<1>. QED  BY <1>3, <1>4, <1>5, <1>6 DEF Signing!Next

LEMMA SigningSound == ASSUME Signing!PreflightAssumption PROVE Signing!Spec => []SigningInv
BY SigningInit, SigningStep, PTL DEF Signing!Spec

(* An authorization is consumed once, whichever of any number of preflights *)
(* crash between making its directory and recording the receipt             *)
(* (reserveAuthorization, deployment-authorization.ts).                     *)
THEOREM AuthorizationsAreConsumedOnce ==
  ASSUME Signing!PreflightAssumption
  PROVE  Signing!Spec => []Signing!OneConsumer
BY SigningSound, PTL DEF SigningInv

(* A receipt holds the config, the prior state and the candidate that were  *)
(* signed, whatever was done to the files while they were checked.          *)
THEOREM ReceiptsAreOfWhatWasSigned ==
  ASSUME Signing!PreflightAssumption
  PROVE  Signing!Spec => []Signing!ReceiptsHoldWhatWasSigned
<1>1. ASSUME SigningInv PROVE Signing!ReceiptsHoldWhatWasSigned
  <2>1. receipts \in Seq({ReceiptFor(d) : d \in Approved})
    BY <1>1 DEF SigningInv, LedgerSound
  <2>. SUFFICES ASSUME NEW i \in DOMAIN receipts
                PROVE  LET r == receipts[i] IN
                         /\ r.commit = r.doc.commit /\ r.config = r.doc.config /\ r.state = r.doc.prior
                         /\ r.candidate = r.commit /\ CandidateIn[r.config] = r.commit
    BY DEF Signing!ReceiptsHoldWhatWasSigned
  <2>2. PICK d \in Approved : receipts[i] = ReceiptFor(d)
    BY <2>1
  <2>. QED  BY <2>2 DEF ReceiptFor, Approved
<1>. QED  BY <1>1, SigningSound, PTL

(* The authorised signers of d, by the policy committed in its commit.     *)
QuorumOf(d) == {s \in PolicyOf[d.commit].signers :
                  \E k \in DOMAIN d.signatures : d.signatures[k].signer = s /\ d.signatures[k].payload = "this"}

(* Distinct signatures count.                                              *)
LEMMA SignersAreMany ==
  ASSUME NEW d, Signing!ValidateDeploymentAuthorization(d), d.policy = PolicyOf[d.commit],
         NEW S, d.signatures \in Seq(S)
  PROVE  IsFiniteSet(QuorumOf(d)) /\ Cardinality(QuorumOf(d)) = Len(d.signatures)
<1>. DEFINE sigs == d.signatures
            quorum == QuorumOf(d)
            by == [k \in 1..Len(sigs) |-> sigs[k].signer]
<1>1. /\ DOMAIN sigs = 1..Len(sigs) /\ Len(sigs) \in Nat
      /\ \A k \in DOMAIN sigs : sigs[k].payload = "this" /\ sigs[k].signer \in d.policy.signers
      /\ \A i \in DOMAIN sigs : \A j \in 1..(i - 1) : sigs[j].signer # sigs[i].signer
  BY DEF Signing!ValidateDeploymentAuthorization, Signing!ParseDeploymentAuthorization
<1>0. quorum = {s \in d.policy.signers : \E k \in DOMAIN sigs : sigs[k].signer = s /\ sigs[k].payload = "this"}
  BY DEF QuorumOf
<1>. HIDE DEF sigs, quorum
<1>2. by \in Surjection(1..Len(sigs), quorum)
  BY <1>1, <1>0 DEF Surjection
<1>3. by \in Injection(1..Len(sigs), quorum)
  <2>1. by \in [1..Len(sigs) -> quorum]
    BY <1>2 DEF Surjection
  <2>2. ASSUME NEW i \in 1..Len(sigs), NEW j \in 1..Len(sigs), by[i] = by[j] PROVE i = j
    <3>1. ASSUME i < j PROVE FALSE
      BY <1>1, <2>2, <3>1
    <3>2. ASSUME j < i PROVE FALSE
      BY <1>1, <2>2, <3>2
    <3>. QED  BY <1>1, <3>1, <3>2
  <2>. HIDE DEF by, quorum
  <2>. QED  BY <2>1, <2>2 DEF Injection, IsInjective
<1>4. by \in Bijection(1..Len(sigs), quorum)
  BY <1>2, <1>3 DEF Bijection
<1>5. IsFiniteSet(1..Len(sigs)) /\ Cardinality(1..Len(sigs)) = Len(sigs)
  <2>1. Len(sigs) \in Int /\ 1 \in Int /\ (IF 1 > Len(sigs) THEN 0 ELSE Len(sigs) - 1 + 1) = Len(sigs)
    BY <1>1
  <2>2. IsFiniteSet(1..Len(sigs))
    BY <2>1, FS_Interval
  <2>3. Cardinality(1..Len(sigs)) = IF 1 > Len(sigs) THEN 0 ELSE Len(sigs) - 1 + 1
    BY <2>1, FS_Interval
  <2>. QED  BY <2>1, <2>2, <2>3
<1>6. IsFiniteSet(quorum) /\ Cardinality(quorum) = Len(sigs)
  <2>. HIDE DEF quorum, by
  <2>1. ExistsBijection(1..Len(sigs), quorum)
    BY <1>4 DEF ExistsBijection
  <2>. QED  BY <1>5, <2>1, FS_Bijection
<1>. QED  BY <1>6 DEF sigs, quorum

(* Every receipt rests on the number of different signers which the policy  *)
(* committed in the authorised commit asks for, all of them its own         *)
(* (validateDeploymentAuthorization, readTrustedPolicy).                    *)
THEOREM ReceiptsAreAuthorized ==
  ASSUME Signing!PreflightAssumption
  PROVE  Signing!Spec => []Signing!AuthorizedByCommittedPolicy
<1>1. ASSUME SigningInv, NEW i \in DOMAIN receipts
      PROVE  Cardinality(QuorumOf(receipts[i].doc)) >= PolicyOf[receipts[i].doc.commit].threshold
  <2>1. receipts \in Seq({ReceiptFor(e) : e \in Approved})
    BY <1>1 DEF SigningInv, LedgerSound
  <2>2. PICK d \in Approved : receipts[i] = ReceiptFor(d)
    BY <2>1, <1>1
  <2>3. /\ receipts[i].doc = d /\ d \in Docs
        /\ Signing!ValidateDeploymentAuthorization(d) /\ d.policy = PolicyOf[d.commit]
    BY <2>2 DEF ReceiptFor, Approved
  <2>4. d.signatures \in Seq({d.signatures[k] : k \in DOMAIN d.signatures})
    BY <2>3 DEF Signing!PreflightAssumption
  <2>5. Cardinality(QuorumOf(d)) = Len(d.signatures)
    BY <2>3, <2>4, SignersAreMany
  <2>6. Len(d.signatures) >= d.policy.threshold
    BY <2>3 DEF Signing!ValidateDeploymentAuthorization
  <2>. QED  BY <2>3, <2>5, <2>6
<1>2. ASSUME SigningInv PROVE Signing!AuthorizedByCommittedPolicy
  <2>1. \A i \in DOMAIN receipts : Cardinality(QuorumOf(receipts[i].doc)) >= PolicyOf[receipts[i].doc.commit].threshold
    BY <1>1, <1>2
  <2>2. \A S : Signing!Cardinality(S) = Cardinality(S)
    BY DEF Signing!Cardinality, Cardinality
  <2>. QED  BY <2>1, <2>2, Zenon DEF Signing!AuthorizedByCommittedPolicy, QuorumOf
<1>. QED  BY <1>2, SigningSound, PTL

-----------------------------------------------------------------------------
(* BridgeCandidate.                                                        *)
CONSTANTS Addresses, Zero, Router, L1Token, Valid, Canonical, Flaws, Changing
VARIABLES worlds, step, version, pending

Bridge == INSTANCE BridgeCandidate

(* The stages of the tool from each of them on.                            *)
FromLast == {"last", "resolved"}
FromImplementation == {"implementation"} \cup FromLast
FromBeaconCode == {"beaconCode"} \cup FromImplementation
FromOwnerImpl == {"ownerImpl"} \cup FromBeaconCode
FromOwnerProxy == {"ownerProxy"} \cup FromOwnerImpl
FromOwnerCode == {"ownerCode"} \cup FromOwnerProxy
FromOwner == {"owner"} \cup FromOwnerCode
FromAdmin == {"admin"} \cup FromOwner
FromProxyCodes == {"proxyCodes"} \cup FromAdmin
FromProxies == {"proxies"} \cup FromProxyCodes
FromParts == {"parts"} \cup FromProxies
FromGateway == {"gateway"} \cup FromParts
FromToken == {"token"} \cup FromGateway

(* What the tool has asked for (ks) and checked by stage s, when all of its *)
(* answers are facts of w.                                                  *)
Followed(s, w, ks) ==
  LET token == w[<<Router, "token">>]  gateway == w[<<Router, "gateway">>]
      admin == w[<<Router, "admin">>]  owner == w[<<admin, "owner">>]  beacon == w[<<token, "beacon">>]
  IN  /\ s \in FromToken => <<Router, "token">> \in ks
      /\ s \in FromGateway => <<Router, "gateway">> \in ks
      /\ s \in FromParts =>
           {<<Router, "code">>, <<gateway, "code">>, <<token, "code">>, <<token, "l1">>, <<token, "gateway">>,
            <<token, "beacon">>} \subseteq ks
      /\ s \in FromProxies =>
           /\ w[<<token, "gateway">>] = gateway
           /\ {<<Router, "impl">>, <<Router, "admin">>, <<Router, "beacon">>,
               <<gateway, "impl">>, <<gateway, "admin">>, <<gateway, "beacon">>} \subseteq ks
      /\ s \in FromProxyCodes =>
           /\ w[<<Router, "beacon">>] = Zero /\ w[<<gateway, "beacon">>] = Zero
           /\ {<<w[<<Router, "impl">>], "code">>, <<w[<<gateway, "impl">>], "code">>} \subseteq ks
      /\ s \in FromAdmin => w[<<gateway, "admin">>] = admin /\ <<admin, "code">> \in ks
      /\ s \in FromOwner => <<admin, "owner">> \in ks
      /\ s \in FromOwnerCode => <<owner, "code">> \in ks
      /\ s \in FromOwnerProxy => {<<owner, "impl">>, <<owner, "admin">>, <<owner, "beacon">>} \subseteq ks
      /\ s \in FromOwnerImpl => w[<<owner, "beacon">>] = Zero /\ <<w[<<owner, "impl">>], "code">> \in ks
      /\ s \in FromBeaconCode => w[<<owner, "admin">>] = admin /\ <<beacon, "code">> \in ks
      /\ s \in FromImplementation => <<beacon, "implementation">> \in ks
      /\ s \in FromLast => <<w[<<beacon, "implementation">>], "code">> \in ks

(* The block whose hash was read first is still the one under its number.  *)
Steady == step \in FromToken /\ (step = "resolved" \/ Len(worlds) = version)

AnswersHold ==
  /\ \A k \in DOMAIN seen : seen[k] = worlds[version][k] /\ Bridge!Acceptable(k, seen[k])
  /\ Followed(step, worlds[version], DOMAIN seen \cup pending)

BridgeInv ==
  /\ worlds \in Seq([Bridge!Facts -> Bridge!Value]) /\ Len(worlds) # 0 /\ version \in 0..Len(worlds)
  /\ step \in FromToken \cup {"block", "rejected"}
  /\ step \in FromToken => version # 0
  /\ step \notin FromToken \ {"resolved"} => pending = {}
  /\ step = "block" => DOMAIN seen = {}
  /\ Steady => AnswersHold

Stages == {"last", "resolved", "implementation", "beaconCode", "ownerImpl", "ownerProxy", "ownerCode", "owner",
           "admin", "proxyCodes", "proxies", "parts", "gateway", "token"}

LEMMA StagesAre == FromToken = Stages
BY DEF Stages, FromLast, FromImplementation, FromBeaconCode, FromOwnerImpl, FromOwnerProxy, FromOwnerCode, FromOwner,
   FromAdmin, FromProxyCodes, FromProxies, FromParts, FromGateway, FromToken

LEMMA AlteredWorlds ==
  ASSUME Bridge!BridgeAssumption, NEW w \in [Bridge!Facts -> Bridge!Value], NEW ks \in {Flaws, Changing},
         NEW v \in Bridge!Altered(w, ks)
  PROVE  v \in [Bridge!Facts -> Bridge!Value]
BY DEF Bridge!BridgeAssumption, Bridge!Altered

LEMMA BridgeInit ==
  ASSUME Bridge!BridgeAssumption, Bridge!Init
  PROVE  BridgeInv
<1>1. PICK w \in {Canonical} \cup Bridge!Altered(Canonical, Flaws) : worlds = <<w>>
  BY DEF Bridge!Init
<1>2. w \in [Bridge!Facts -> Bridge!Value]
  BY <1>1, AlteredWorlds DEF Bridge!BridgeAssumption
<1>3. step = "block" /\ version = 0 /\ pending = {} /\ DOMAIN seen = {}
  BY DEF Bridge!Init
<1>. QED  BY <1>1, <1>2, <1>3, StagesAre DEF BridgeInv, Steady, Stages

(* The block is replaced: what was read before is of the one before.       *)
LEMMA Reorganised == ASSUME Bridge!BridgeAssumption, BridgeInv, Bridge!Reorganise PROVE BridgeInv'
<1>1. /\ worlds \in Seq([Bridge!Facts -> Bridge!Value]) /\ Len(worlds) # 0 /\ version \in 0..Len(worlds)
      /\ (step \in FromToken => version # 0) /\ (Steady => AnswersHold)
  BY DEF BridgeInv
<1>2. PICK w \in Bridge!Altered(Bridge!Current, Changing) : worlds' = Append(worlds, w)
  BY DEF Bridge!Reorganise
<1>3. UNCHANGED <<step, version, pending, seen>>
  BY DEF Bridge!Reorganise
<1>4. Bridge!Current \in [Bridge!Facts -> Bridge!Value]
  BY <1>1 DEF Bridge!Current
<1>5. w \in [Bridge!Facts -> Bridge!Value]
  BY <1>2, <1>4, AlteredWorlds
<1>6. /\ worlds' \in Seq([Bridge!Facts -> Bridge!Value]) /\ Len(worlds') = Len(worlds) + 1
      /\ \A i \in 1..Len(worlds) : worlds'[i] = worlds[i]
  BY <1>1, <1>2, <1>5
<1>7. Steady' => Steady /\ worlds'[version] = worlds[version]
  BY <1>1, <1>3, <1>6 DEF Steady
<1>8. Steady' => AnswersHold'
  BY <1>1, <1>3, <1>7 DEF AnswersHold, Bridge!Acceptable
<1>9. version' \in 0..Len(worlds') /\ Len(worlds') # 0
  BY <1>1, <1>3, <1>6
<1>. QED  BY <1>3, <1>6, <1>8, <1>9 DEF BridgeInv

LEMMA Rejected == ASSUME BridgeInv, Bridge!Reject PROVE BridgeInv'
<1>1. "rejected" \notin FromToken /\ "rejected" # "block"
  BY StagesAre DEF Stages
<1>. QED  BY <1>1 DEF BridgeInv, Bridge!Reject, Steady

(* The answers to one round of requests are in, and the next is asked.     *)
LEMMA Asked ==
  ASSUME BridgeInv, NEW s \in Stages \ {"resolved"}, NEW ks, step \in Stages \ {"resolved"}, pending = {},
         Bridge!Ask(s, ks),
         AnswersHold => Followed(s, worlds[version], DOMAIN seen \cup ks)
  PROVE  BridgeInv'
<1>1. step' = s /\ pending' = ks /\ UNCHANGED <<worlds, version, seen>> /\ (Steady' => Steady)
  BY StagesAre DEF Bridge!Ask, Steady
<1>2. Steady => AnswersHold
  BY DEF BridgeInv
<1>3. ASSUME Steady' PROVE AnswersHold'
  BY <1>1, <1>2, <1>3 DEF AnswersHold, Bridge!Acceptable
<1>. QED  BY <1>1, <1>3, StagesAre DEF BridgeInv, Stages

LEMMA Required ==
  ASSUME BridgeInv, NEW s \in Stages \ {"resolved"}, NEW ks, step \in Stages \ {"resolved"}, pending = {},
         NEW condition, Bridge!Require(condition, s, ks),
         condition /\ AnswersHold => Followed(s, worlds[version], DOMAIN seen \cup ks)
  PROVE  BridgeInv'
BY Asked, Rejected DEF Bridge!Require

LEMMA Answered == ASSUME BridgeInv, NEW k \in pending, Bridge!Answer(k) PROVE BridgeInv'
<1>. DEFINE v == Bridge!Current[k]
<1>0. step \in FromToken \ {"resolved"} /\ "rejected" \notin FromToken /\ "block" \notin FromToken
  BY StagesAre DEF BridgeInv, Stages
<1>1. /\ seen' = [j \in DOMAIN seen \cup {k} |-> IF j = k THEN v ELSE seen[j]]
      /\ UNCHANGED <<worlds, version>>
  BY DEF Bridge!Answer
<1>2. CASE ~Bridge!Acceptable(k, v)
  <2>1. pending' = {} /\ step' = "rejected"
    BY <1>2 DEF Bridge!Answer
  <2>. QED  BY <1>0, <1>1, <2>1 DEF BridgeInv, Steady
<1>3. CASE Bridge!Acceptable(k, v)
  <2>1. pending' = pending \ {k} /\ step' = step
    BY <1>3 DEF Bridge!Answer
  <2>2. ASSUME Steady' PROVE AnswersHold'
    <3>1. Steady /\ AnswersHold /\ v = worlds[version][k]
      BY <1>0, <1>1, <2>1, <2>2 DEF BridgeInv, Steady, Bridge!Current
    <3>2. DOMAIN seen' \cup pending' = DOMAIN seen \cup pending
      BY <1>1, <2>1
    <3>3. Followed(step, worlds[version], DOMAIN seen \cup pending)'
      BY <1>1, <2>1, <3>1, <3>2 DEF AnswersHold
    <3>4. ASSUME NEW j \in DOMAIN seen'
          PROVE  seen'[j] = worlds'[version'][j] /\ Bridge!Acceptable(j, seen'[j])
      <4>. HIDE DEF v
      <4>1. CASE j = k
        BY <1>1, <1>3, <3>1, <4>1
      <4>2. CASE j # k
        <5>1. j \in DOMAIN seen /\ seen'[j] = seen[j]
          BY <1>1, <4>2
        <5>. QED  BY <1>1, <3>1, <5>1 DEF AnswersHold
      <4>. QED  BY <4>1, <4>2
    <3>. QED  BY <3>3, <3>4 DEF AnswersHold, Bridge!Acceptable
  <2>. QED  BY <1>0, <1>1, <2>1, <2>2 DEF BridgeInv
<1>. QED  BY <1>2, <1>3

LEMMA BridgeStep ==
  ASSUME Bridge!BridgeAssumption, BridgeInv, [Bridge!Next]_Bridge!vars
  PROVE  BridgeInv'
<1>. DEFINE w == worlds[version]
<1>1. AnswersHold /\ pending = {} => /\ \A k \in DOMAIN seen : seen[k] = w[k]
                                     /\ Followed(step, w, DOMAIN seen)
  BY DEF AnswersHold
<1>2. CASE Bridge!ReadBlock
  <2>1. step = "block" /\ step' = "token" /\ pending' = {<<Router, "token">>} /\ version' = Len(worlds)
        /\ UNCHANGED <<worlds, seen>>
    BY <1>2 DEF Bridge!ReadBlock
  <2>2. DOMAIN seen = {} /\ Len(worlds) \in Nat \ {0}
    BY <2>1 DEF BridgeInv
  <2>3. AnswersHold'
    BY <2>1, <2>2 DEF AnswersHold, Followed, FromLast, FromImplementation, FromBeaconCode, FromOwnerImpl,
       FromOwnerProxy, FromOwnerCode, FromOwner, FromAdmin, FromProxyCodes, FromProxies, FromParts, FromGateway, FromToken
  <2>. QED  BY <2>1, <2>2, <2>3, StagesAre DEF BridgeInv, Stages
<1>3. ASSUME NEW k \in pending, Bridge!Answer(k) PROVE BridgeInv'
  BY <1>3, Answered
<1>4. CASE Bridge!RequestFails
  BY <1>4, Rejected DEF Bridge!RequestFails
<1>. USE DEF Stages, FromLast, FromImplementation, FromBeaconCode, FromOwnerImpl, FromOwnerProxy, FromOwnerCode,
             FromOwner, FromAdmin, FromProxyCodes, FromProxies, FromParts, FromGateway, FromToken
<1>5. CASE Bridge!DeriveToken
  <2>1. AnswersHold => Followed("gateway", w, DOMAIN seen \cup {<<Router, "gateway">>})
    BY <1>1, <1>5 DEF Followed, Bridge!DeriveToken
  <2>. QED  BY <1>5, <2>1, Asked DEF Bridge!DeriveToken
<1>6. CASE Bridge!DeriveGateway
  <2>. DEFINE ks == Bridge!Codes({Router, Bridge!Gateway, Bridge!Token})
                    \cup ({Bridge!Token} \X {"identity", "l1", "gateway", "beacon"})
  <2>1. AnswersHold => Followed("parts", w, DOMAIN seen \cup ks)
    BY <1>1, <1>6 DEF Followed, Bridge!DeriveGateway, Bridge!Codes, Bridge!Gateway, Bridge!Token
  <2>. HIDE DEF ks
  <2>2. Bridge!Ask("parts", ks)
    BY <1>6 DEF ks, Bridge!DeriveGateway
  <2>. QED  BY <1>6, <2>1, <2>2, Asked DEF Bridge!DeriveGateway
<1>7. CASE Bridge!CheckParts
  <2>. DEFINE ks == Bridge!Slots(Router) \cup Bridge!Slots(Bridge!Gateway)
              ok == seen[<<Bridge!Token, "gateway">>] = Bridge!Gateway
  <2>1. ok /\ AnswersHold => Followed("proxies", w, DOMAIN seen \cup ks)
    BY <1>1, <1>7 DEF Followed, Bridge!CheckParts, Bridge!Slots, Bridge!Gateway, Bridge!Token
  <2>2. Bridge!Require(ok, "proxies", ks)
    BY <1>7 DEF Bridge!CheckParts
  <2>. HIDE DEF ks, ok
  <2>. QED  BY <1>7, <2>1, <2>2, Required DEF Bridge!CheckParts
<1>8. CASE Bridge!ReadImplementations
  <2>. DEFINE ks == Bridge!Codes({seen[<<Router, "impl">>], seen[<<Bridge!Gateway, "impl">>]})
              ok == \A p \in {Router, Bridge!Gateway} : Bridge!ResolveTransparentProxy(p)
  <2>1. ok /\ AnswersHold => Followed("proxyCodes", w, DOMAIN seen \cup ks)
    BY <1>1, <1>8 DEF Followed, Bridge!ReadImplementations, Bridge!ResolveTransparentProxy, Bridge!Codes, Bridge!Gateway
  <2>2. Bridge!Require(ok, "proxyCodes", ks)
    BY <1>8 DEF Bridge!ReadImplementations
  <2>. HIDE DEF ks, ok
  <2>. QED  BY <1>8, <2>1, <2>2, Required DEF Bridge!ReadImplementations
<1>9. CASE Bridge!CheckSharedAdmin
  <2>. DEFINE ks == Bridge!Codes({Bridge!SharedAdmin})
              ok == seen[<<Bridge!Gateway, "admin">>] = Bridge!SharedAdmin
  <2>1. ok /\ AnswersHold => Followed("admin", w, DOMAIN seen \cup ks)
    BY <1>1, <1>9 DEF Followed, Bridge!CheckSharedAdmin, Bridge!SharedAdmin, Bridge!Codes, Bridge!Gateway
  <2>2. Bridge!Require(ok, "admin", ks)
    BY <1>9 DEF Bridge!CheckSharedAdmin
  <2>. HIDE DEF ks, ok
  <2>. QED  BY <1>9, <2>1, <2>2, Required DEF Bridge!CheckSharedAdmin
<1>10. CASE Bridge!ReadOwner
  <2>. DEFINE ks == {<<Bridge!SharedAdmin, "owner">>}
  <2>1. AnswersHold => Followed("owner", w, DOMAIN seen \cup ks)
    BY <1>1, <1>10 DEF Followed, Bridge!ReadOwner, Bridge!SharedAdmin
  <2>2. Bridge!Ask("owner", ks)
    BY <1>10 DEF Bridge!ReadOwner
  <2>. HIDE DEF ks
  <2>. QED  BY <1>10, <2>1, <2>2, Asked DEF Bridge!ReadOwner
<1>11. CASE Bridge!ReadOwnerCode
  <2>. DEFINE ks == Bridge!Codes({Bridge!Owner})
  <2>1. AnswersHold => Followed("ownerCode", w, DOMAIN seen \cup ks)
    BY <1>1, <1>11 DEF Followed, Bridge!ReadOwnerCode, Bridge!SharedAdmin, Bridge!Owner, Bridge!Codes
  <2>2. Bridge!Ask("ownerCode", ks)
    BY <1>11 DEF Bridge!ReadOwnerCode
  <2>. HIDE DEF ks
  <2>. QED  BY <1>11, <2>1, <2>2, Asked DEF Bridge!ReadOwnerCode
<1>12. CASE Bridge!ReadOwnerProxy
  <2>. DEFINE ks == Bridge!Slots(Bridge!Owner) \cup {<<Bridge!Owner, "roles">>}
  <2>1. AnswersHold => Followed("ownerProxy", w, DOMAIN seen \cup ks)
    BY <1>1, <1>12 DEF Followed, Bridge!ReadOwnerProxy, Bridge!SharedAdmin, Bridge!Owner, Bridge!Slots
  <2>2. Bridge!Ask("ownerProxy", ks)
    BY <1>12 DEF Bridge!ReadOwnerProxy
  <2>. HIDE DEF ks
  <2>. QED  BY <1>12, <2>1, <2>2, Asked DEF Bridge!ReadOwnerProxy
<1>13. CASE Bridge!ReadOwnerImplementation
  <2>. DEFINE ks == Bridge!Codes({seen[<<Bridge!Owner, "impl">>]})
              ok == Bridge!ResolveTransparentProxy(Bridge!Owner)
  <2>1. ok /\ AnswersHold => Followed("ownerImpl", w, DOMAIN seen \cup ks)
    BY <1>1, <1>13 DEF Followed, Bridge!ReadOwnerImplementation, Bridge!ResolveTransparentProxy, Bridge!SharedAdmin,
       Bridge!Owner, Bridge!Codes
  <2>2. Bridge!Require(ok, "ownerImpl", ks)
    BY <1>13 DEF Bridge!ReadOwnerImplementation
  <2>. HIDE DEF ks, ok
  <2>. QED  BY <1>13, <2>1, <2>2, Required DEF Bridge!ReadOwnerImplementation
<1>14. CASE Bridge!CheckOwner
  <2>. DEFINE ks == Bridge!Codes({Bridge!Beacon})
              ok == seen[<<Bridge!Owner, "admin">>] = Bridge!SharedAdmin /\ Bridge!Beacon # Zero
  <2>1. ok /\ AnswersHold => Followed("beaconCode", w, DOMAIN seen \cup ks)
    BY <1>1, <1>14 DEF Followed, Bridge!CheckOwner, Bridge!SharedAdmin, Bridge!Owner, Bridge!Beacon, Bridge!Token,
       Bridge!Codes
  <2>2. Bridge!Require(ok, "beaconCode", ks)
    BY <1>14 DEF Bridge!CheckOwner
  <2>. HIDE DEF ks, ok
  <2>. QED  BY <1>14, <2>1, <2>2, Required DEF Bridge!CheckOwner
<1>15. CASE Bridge!ReadImplementation
  <2>. DEFINE ks == {<<Bridge!Beacon, "implementation">>}
  <2>1. AnswersHold => Followed("implementation", w, DOMAIN seen \cup ks)
    BY <1>1, <1>15 DEF Followed, Bridge!ReadImplementation, Bridge!Beacon, Bridge!Token
  <2>2. Bridge!Ask("implementation", ks)
    BY <1>15 DEF Bridge!ReadImplementation
  <2>. HIDE DEF ks
  <2>. QED  BY <1>15, <2>1, <2>2, Asked DEF Bridge!ReadImplementation
<1>16. CASE Bridge!ReadImplementationCode
  <2>. DEFINE ks == Bridge!Codes({seen[<<Bridge!Beacon, "implementation">>]})
  <2>1. AnswersHold => Followed("last", w, DOMAIN seen \cup ks)
    BY <1>1, <1>16 DEF Followed, Bridge!ReadImplementationCode, Bridge!Beacon, Bridge!Token, Bridge!Codes
  <2>2. Bridge!Ask("last", ks)
    BY <1>16 DEF Bridge!ReadImplementationCode
  <2>. HIDE DEF ks
  <2>. QED  BY <1>16, <2>1, <2>2, Asked DEF Bridge!ReadImplementationCode
<1>17. CASE Bridge!ReadBlockAgain
  <2>1. CASE Len(worlds) # version
    BY <1>17, <2>1, Rejected DEF Bridge!ReadBlockAgain, Bridge!Require
  <2>2. CASE Len(worlds) = version
    <3>1. step = "last" /\ pending = {} /\ step' = "resolved" /\ pending' = {} /\ UNCHANGED <<worlds, version, seen>>
      BY <1>17, <2>2 DEF Bridge!ReadBlockAgain, Bridge!Require, Bridge!Ask
    <3>2. Steady /\ AnswersHold
      BY <2>2, <3>1, StagesAre DEF BridgeInv, Steady
    <3>3. Followed("resolved", w, DOMAIN seen)
      BY <1>1, <3>1, <3>2 DEF Followed
    <3>4. AnswersHold'
      BY <3>1, <3>2, <3>3 DEF AnswersHold, Bridge!Acceptable
    <3>. QED  BY <3>1, <3>4, StagesAre DEF BridgeInv
  <2>. QED  BY <2>1, <2>2
<1>18. CASE Bridge!Reorganise
  BY <1>18, Reorganised
<1>19. CASE UNCHANGED Bridge!vars
  BY <1>19 DEF Bridge!vars, BridgeInv, Steady, AnswersHold, Bridge!Acceptable
<1>. QED  BY <1>2, <1>3, <1>4, <1>5, <1>6, <1>7, <1>8, <1>9, <1>10, <1>11, <1>12, <1>13, <1>14, <1>15, <1>16, <1>17,
             <1>18, <1>19 DEF Bridge!Next, Bridge!Resolver

LEMMA BridgeSound == ASSUME Bridge!BridgeAssumption PROVE Bridge!Spec => []BridgeInv
BY BridgeInit, BridgeStep, PTL DEF Bridge!Spec

(* A resolved candidate holds facts of one block, the one whose hash was    *)
(* read first, whichever reads are answered in which order and whatever is  *)
(* reorganised meanwhile (resolveRobinhoodMainnetWrappedBtc).               *)
THEOREM CandidatesAreOfOneBlock ==
  ASSUME Bridge!BridgeAssumption
  PROVE  Bridge!Spec => []Bridge!FactsAreOfOneBlock
<1>1. BridgeInv => Bridge!FactsAreOfOneBlock
  BY StagesAre DEF BridgeInv, Steady, AnswersHold, Bridge!FactsAreOfOneBlock, Stages
<1>. QED  BY <1>1, BridgeSound, PTL

(* In that block one admin controls the router, the gateway and its own     *)
(* owner, and everything they and the token run has code, however wrong the *)
(* facts of the block may be elsewhere.                                     *)
THEOREM CandidatesHaveOneControlPlane ==
  ASSUME Bridge!BridgeAssumption
  PROVE  Bridge!Spec => []Bridge!OneControlPlane
<1>1. ASSUME BridgeInv, step = "resolved" PROVE Bridge!OneControlPlane
  <2>. DEFINE w == worlds[version]
              token == w[<<Router, "token">>]
              gateway == w[<<Router, "gateway">>]
              admin == w[<<Router, "admin">>]
              owner == w[<<admin, "owner">>]
              beacon == w[<<token, "beacon">>]
  <2>1. AnswersHold /\ pending = {}
    BY <1>1, StagesAre DEF BridgeInv, Steady, Stages
  <2>2. \A k \in DOMAIN seen : Bridge!Acceptable(k, w[k])
    BY <2>1 DEF AnswersHold
  <2>3. Followed("resolved", w, DOMAIN seen)
    BY <1>1, <2>1 DEF AnswersHold
  <2>. HIDE DEF w
  <2>4. /\ {<<Router, "code">>, <<gateway, "code">>, <<token, "code">>, <<admin, "code">>, <<owner, "code">>,
            <<beacon, "code">>, <<w[<<Router, "impl">>], "code">>, <<w[<<gateway, "impl">>], "code">>,
            <<w[<<owner, "impl">>], "code">>, <<w[<<beacon, "implementation">>], "code">>} \subseteq DOMAIN seen
        /\ <<token, "l1">> \in DOMAIN seen /\ w[<<token, "gateway">>] = gateway
        /\ w[<<gateway, "admin">>] = admin /\ w[<<owner, "admin">>] = admin
        /\ w[<<Router, "beacon">>] = Zero /\ w[<<gateway, "beacon">>] = Zero /\ w[<<owner, "beacon">>] = Zero
    BY <2>3 DEF Followed, FromLast, FromImplementation, FromBeaconCode, FromOwnerImpl,
       FromOwnerProxy, FromOwnerCode, FromOwner, FromAdmin, FromProxyCodes, FromProxies, FromParts, FromGateway, FromToken
  <2>5. ASSUME NEW a, <<a, "code">> \in DOMAIN seen PROVE w[<<a, "code">>] = Valid
    BY <2>2, <2>5 DEF Bridge!Acceptable
  <2>6. w[<<token, "l1">>] = L1Token
    BY <2>2, <2>4 DEF Bridge!Acceptable
  <2>. QED  BY <2>4, <2>5, <2>6 DEF Bridge!OneControlPlane, w
<1>2. BridgeInv => Bridge!OneControlPlane
  BY <1>1 DEF Bridge!OneControlPlane
<1>. QED  BY <1>2, BridgeSound, PTL

-----------------------------------------------------------------------------
(* PinnedEvidence.                                                         *)
CONSTANTS Keys, Codes, NoCode, Depth, MinConfirmations, Lag, Age, Skew, MaxBlocks
VARIABLES made, evidence, run, results

Pinned == INSTANCE PinnedEvidence

(* A hash names one block of those ever made.                              *)
HashesAreUnique ==
  /\ IsFiniteSet(made) /\ chain \in Seq(made)
  /\ \A b \in made : b.hash \in 1..Cardinality(made) /\ b.code = [k \in Keys |-> b.code[k]]
  /\ \A b, c \in made : b.hash = c.hash => b = c

IsRun(r) ==
  r = [f \in {"kind", "pc", "number", "block", "head", "tip", "at", "now", "pinned", "left", "code"} |-> r[f]]

(* What each tool has read: as long as the block it read first stands under *)
(* its number, so did it at every read since.                              *)
RunSound(r) ==
  /\ IsRun(r)
  /\ r.kind \in {"idle", "pin", "bytecode", "fork"}
  /\ r.kind = "pin" => r.head \in 1..Len(chain) /\ r.number = r.head - Depth /\ r.number \in 1..Len(chain)
  /\ r.kind = "bytecode" =>
       /\ r.number \in 1..Len(chain) /\ r.block \in made
       /\ r.code = [k \in DOMAIN r.code |-> r.code[k]] /\ Keys \ r.left \subseteq DOMAIN r.code /\ DOMAIN r.code \subseteq Keys
       /\ r.pinned # <<>> => r.pinned = [k \in Keys |-> r.pinned[k]] /\ \A k \in DOMAIN r.code : r.pinned[k] = r.code[k]
       /\ chain[r.number] = r.block => \A k \in DOMAIN r.code : r.code[k] = r.block.code[k]
  /\ r.kind = "fork" =>
       /\ evidence # <<>>
       /\ r.pc # "first" => r.block \in made
       /\ r.pc = "second" =>
            /\ r.head = Len(r.at) /\ r.head \in Nat /\ r.tip = r.at[r.head]
            /\ evidence[1].number \in 1..r.head /\ \A i \in 1..r.head : r.at[i] \in made
            /\ chain[evidence[1].number] = r.block => r.at[evidence[1].number] = r.block

PinnedInv ==
  /\ HashesAreUnique /\ RunSound(run)
  /\ evidence # <<>> => evidence[1].number \in 1..Len(chain)
  /\ Pinned!PinIsBuried /\ Pinned!BytecodeIsOfThatBlock /\ Pinned!ConfirmationsAreReal

LEMMA IdleRun == RunSound(Pinned!Idle)
BY DEF RunSound, IsRun, Pinned!Idle

LEMMA SameCardinality == \A S : Pinned!Cardinality(S) = Cardinality(S)
BY DEF Pinned!Cardinality, Cardinality

(* T are n new blocks with the hashes that follow those of the blocks S.   *)
NextHashes(S, n, new, T) ==
  /\ n \in Nat /\ IsFiniteSet(S) /\ \A b \in S : b.hash \in 1..Cardinality(S)
  /\ \A i \in 1..n : new[i].hash = Cardinality(S) + i
  /\ \A x : x \in T <=> \E i \in 1..n : x = new[i]

LEMMA NewHashes ==
  ASSUME NEW S, NEW n, NEW new, NEW T, NextHashes(S, n, new, T)
  PROVE  IsFiniteSet(S \cup T) /\ Cardinality(S \cup T) = Cardinality(S) + n /\ S \cap T = {}
<1>. DEFINE f == [i \in 1..n |-> new[i]]
<1>. USE DEF NextHashes
<1>0. Cardinality(S) \in Nat
  BY FS_CardinalityType
<1>1. f \in Bijection(1..n, T)
  <2>1. f \in Surjection(1..n, T)
    BY DEF Surjection
  <2>2. ASSUME NEW i \in 1..n, NEW j \in 1..n, f[i] = f[j] PROVE i = j
    BY <1>0, <2>2
  <2>3. f \in [1..n -> T]
    OBVIOUS
  <2>. HIDE DEF f
  <2>4. f \in Injection(1..n, T)
    BY <2>2, <2>3 DEF Injection, IsInjective
  <2>. QED  BY <2>1, <2>4 DEF Bijection
<1>2. IsFiniteSet(1..n)
  BY FS_Interval
<1>3. Cardinality(1..n) = n
  <2>1. Cardinality(1..n) = IF 1 > n THEN 0 ELSE n - 1 + 1
    BY FS_Interval
  <2>. QED  BY <2>1
<1>4. S \cap T = {}
  BY <1>0
<1>. HIDE DEF f
<1>5. ExistsBijection(1..n, T)
  BY <1>1 DEF ExistsBijection
<1>6. IsFiniteSet(T) /\ Cardinality(T) = n
  BY <1>2, <1>3, <1>5, FS_Bijection
<1>7. IsFiniteSet(S \cup T)
  BY <1>6, FS_Union
<1>8. Cardinality(S \cup T) = Cardinality(S) + Cardinality(T) - Cardinality(S \cap T)
  BY <1>6, FS_Union
<1>9. Cardinality(S \cap T) = 0
  BY <1>4, FS_EmptySet
<1>. QED  BY <1>0, <1>4, <1>6, <1>7, <1>8, <1>9

LEMMA PinnedInit == Pinned!Init => PinnedInv
<1>. SUFFICES ASSUME Pinned!Init PROVE PinnedInv
  OBVIOUS
<1>1. PICK c \in Pinned!AnyCode : chain = <<[hash |-> 1, time |-> 0, code |-> c]>>
  BY DEF Pinned!Init
<1>. DEFINE b == [hash |-> 1, time |-> 0, code |-> c]
<1>2. made = {b} /\ evidence = <<>> /\ run = Pinned!Idle /\ results = {}
  BY <1>1 DEF Pinned!Init, Pinned!ToSet
<1>3. b.hash = 1 /\ b.code = [k \in Keys |-> b.code[k]]
  BY DEF Pinned!AnyCode
<1>4. chain \in Seq(made)
  BY <1>1, <1>2
<1>. HIDE DEF b
<1>5. IsFiniteSet(made) /\ Cardinality(made) = 1
  <2>1. IsFiniteSet({b})
    BY FS_Singleton
  <2>2. Cardinality({b}) = 1
    BY FS_Singleton
  <2>. QED  BY <1>2, <2>1, <2>2
<1>6. HashesAreUnique
  BY <1>2, <1>3, <1>4, <1>5 DEF HashesAreUnique
<1>7. Pinned!PinIsBuried /\ Pinned!BytecodeIsOfThatBlock /\ Pinned!ConfirmationsAreReal
  BY <1>2 DEF Pinned!PinIsBuried, Pinned!BytecodeIsOfThatBlock, Pinned!ConfirmationsAreReal, Pinned!Of
<1>. QED  BY <1>2, <1>6, <1>7, IdleRun DEF PinnedInv

(* The chain is longer than it was, and a block made before stands in it    *)
(* only where it stood.                                                     *)
LEMMA Extended ==
  ASSUME PinnedInv, NEW k \in 0..Len(chain), Pinned!Extend(k)
  PROVE  /\ HashesAreUnique' /\ made \subseteq made' /\ Len(chain) <= Len(chain')
         /\ \A n \in 1..Len(chain') : chain'[n] \in made => n \in 1..Len(chain) /\ chain'[n] = chain[n]
<1>1. /\ IsFiniteSet(made) /\ chain \in Seq(made)
      /\ \A b \in made : b.hash \in 1..Cardinality(made) /\ b.code = [j \in Keys |-> b.code[j]]
      /\ \A b, c \in made : b.hash = c.hash => b = c
  BY DEF PinnedInv, HashesAreUnique
<1>2. Cardinality(made) \in Nat /\ Len(chain) \in Nat
  BY <1>1, FS_CardinalityType
<1>3. PICK codes \in [1..(k + 1) -> Pinned!AnyCode] :
        LET new == [i \in 1..(k + 1) |-> Pinned!Block(Cardinality(made) + i, codes[i])]
        IN  chain' = SubSeq(chain, 1, Len(chain) - k) \o new /\ made' = made \cup Pinned!ToSet(new)
  BY SameCardinality DEF Pinned!Extend, Pinned!HeadNumber
<1>. DEFINE new == [i \in 1..(k + 1) |-> Pinned!Block(Cardinality(made) + i, codes[i])]
            T == {new[i] : i \in 1..(k + 1)}
            kept == SubSeq(chain, 1, Len(chain) - k)
<1>4. \A i \in 1..(k + 1) : new[i].hash = Cardinality(made) + i /\ new[i].code = [j \in Keys |-> new[i].code[j]]
  BY DEF Pinned!Block, Pinned!AnyCode
<1>5. DOMAIN new = 1..(k + 1) /\ Pinned!ToSet(new) = T /\ new \in Seq(T) /\ Len(new) = k + 1
  BY DEF Pinned!ToSet
<1>6. kept \in Seq(made) /\ Len(kept) = Len(chain) - k /\ \A n \in 1..(Len(chain) - k) : kept[n] = chain[n]
  BY <1>1
<1>7. chain' = kept \o new /\ made' = made \cup T
  BY <1>3, <1>5
<1>. HIDE DEF new, T, kept
<1>8. IsFiniteSet(made \cup T) /\ Cardinality(made \cup T) = Cardinality(made) + k + 1 /\ made \cap T = {}
  <2>. DEFINE n == k + 1
  <2>1. n \in Nat /\ \A x : x \in T <=> \E i \in 1..n : x = new[i]
    BY DEF T
  <2>. HIDE DEF n
  <2>2. \A i \in 1..n : new[i].hash = Cardinality(made) + i
    BY <1>4 DEF n
  <2>3. NextHashes(made, n, new, T)
    BY <1>1, <2>1, <2>2, Zenon DEF NextHashes
  <2>4. IsFiniteSet(made \cup T)
    BY <2>3, NewHashes
  <2>5. Cardinality(made \cup T) = Cardinality(made) + n
    BY <2>3, NewHashes
  <2>6. made \cap T = {}
    BY <2>3, NewHashes
  <2>. QED  BY <1>2, <2>4, <2>5, <2>6 DEF n
<1>9. /\ chain' \in Seq(made \cup T) /\ Len(chain') = Len(chain) + 1
      /\ \A n \in 1..Len(chain') : chain'[n] = IF n <= Len(chain) - k THEN chain[n] ELSE new[n - (Len(chain) - k)]
  <2>1. kept \in Seq(made \cup T) /\ new \in Seq(made \cup T)
    BY <1>5, <1>6
  <2>2. chain' \in Seq(made \cup T) /\ Len(chain') = Len(kept) + Len(new)
    BY <1>7, <2>1
  <2>3. \A n \in 1..Len(chain') : chain'[n] = IF n <= Len(kept) THEN kept[n] ELSE new[n - Len(kept)]
    BY <1>7, <2>1
  <2>. QED  BY <1>2, <1>5, <1>6, <2>2, <2>3
<1>10. \A b \in T : /\ b.hash \in 1..(Cardinality(made) + k + 1) /\ b.hash > Cardinality(made)
                    /\ b.code = [j \in Keys |-> b.code[j]]
  BY <1>2, <1>4 DEF T
<1>11. ASSUME NEW b \in T, NEW c \in T, b.hash = c.hash PROVE b = c
  <2>1. PICK i \in 1..(k + 1) : b = new[i]
    BY DEF T
  <2>2. PICK j \in 1..(k + 1) : c = new[j]
    BY DEF T
  <2>3. Cardinality(made) + i = Cardinality(made) + j
    BY <1>4, <1>11, <2>1, <2>2
  <2>4. i = j
    BY <1>2, <2>3
  <2>. QED  BY <2>1, <2>2, <2>4
<1>12. ASSUME NEW b \in made', NEW c \in made', b.hash = c.hash PROVE b = c
  <2>1. CASE b \in made /\ c \in made
    BY <1>1, <1>12, <2>1
  <2>2. CASE b \in T /\ c \in T
    BY <1>11, <1>12, <2>2
  <2>3. ASSUME NEW x \in made PROVE x.hash \in Nat /\ x.hash <= Cardinality(made)
    <3>1. x.hash \in 1..Cardinality(made)
      BY <1>1
    <3>. QED  BY <1>2, <3>1
  <2>4. ASSUME NEW x \in T PROVE x.hash \in Nat /\ ~(x.hash <= Cardinality(made))
    <3>1. x.hash \in 1..(Cardinality(made) + k + 1) /\ x.hash > Cardinality(made)
      BY <1>10
    <3>. QED  BY <1>2, <3>1
  <2>5. (b \in made /\ c \in T) \/ (b \in T /\ c \in made) => FALSE
    BY <1>12, <2>3, <2>4
  <2>. QED  BY <1>7, <2>1, <2>2, <2>5
<1>13. \A b \in made' : b.hash \in 1..Cardinality(made') /\ b.code = [j \in Keys |-> b.code[j]]
  <2>1. Cardinality(made') = Cardinality(made) + k + 1
    BY <1>7, <1>8
  <2>. QED  BY <1>1, <1>2, <1>7, <1>10, <2>1
<1>14. HashesAreUnique'
  BY <1>7, <1>8, <1>9, <1>12, <1>13 DEF HashesAreUnique
<1>15. ASSUME NEW n \in 1..Len(chain'), chain'[n] \in made PROVE n \in 1..Len(chain) /\ chain'[n] = chain[n]
  <2>1. CASE n <= Len(chain) - k
    BY <1>2, <1>9, <2>1
  <2>2. CASE ~(n <= Len(chain) - k)
    <3>1. n - (Len(chain) - k) \in 1..(k + 1)
      BY <1>2, <1>9, <2>2
    <3>2. chain'[n] \in T
      BY <1>9, <2>2, <3>1 DEF T
    <3>. QED  BY <1>8, <1>15, <3>2
  <2>. QED  BY <2>1, <2>2
<1>. QED  BY <1>2, <1>7, <1>9, <1>14, <1>15

(* The world moves on while a tool waits.                                  *)
LEMMA WorldMoves ==
  ASSUME PinnedInv, UNCHANGED <<run, results>>, evidence = <<>> \/ evidence' = evidence,
         evidence' # <<>> => evidence'[1].number \in 1..Len(chain'),
         HashesAreUnique', made \subseteq made', Len(chain) <= Len(chain'),
         \A n \in 1..Len(chain') : chain'[n] \in made => n \in 1..Len(chain) /\ chain'[n] = chain[n]
  PROVE  PinnedInv'
<1>1. RunSound(run) /\ HashesAreUnique /\ Len(chain) \in Nat /\ Len(chain') \in Nat
  BY DEF PinnedInv, HashesAreUnique
<1>2. /\ IsRun(run') /\ run'.kind \in {"idle", "pin", "bytecode", "fork"}
      /\ run'.kind = "pin" => /\ run'.head \in 1..Len(chain') /\ run'.number = run'.head - Depth
                              /\ run'.number \in 1..Len(chain')
  BY <1>1 DEF RunSound
<1>3. ASSUME run.kind = "bytecode"
      PROVE  /\ run.number \in 1..Len(chain') /\ run.block \in made'
             /\ chain'[run.number] = run.block => \A k \in DOMAIN run.code : run.code[k] = run.block.code[k]
  BY <1>1, <1>3 DEF RunSound
<1>4. ASSUME run.kind = "fork"
      PROVE  /\ evidence' # <<>> /\ evidence' = evidence
             /\ run.pc # "first" => run.block \in made'
             /\ run.pc = "second" =>
                  /\ \A i \in 1..run.head : run.at[i] \in made'
                  /\ chain'[evidence[1].number] = run.block => run.at[evidence[1].number] = run.block
  BY <1>1, <1>4 DEF RunSound, PinnedInv
<1>5. RunSound(run)'
  BY <1>1, <1>2, <1>3, <1>4 DEF RunSound, IsRun
<1>6. Pinned!PinIsBuried' /\ Pinned!BytecodeIsOfThatBlock' /\ Pinned!ConfirmationsAreReal'
  BY DEF PinnedInv, Pinned!PinIsBuried, Pinned!BytecodeIsOfThatBlock, Pinned!ConfirmationsAreReal, Pinned!Of
<1>. QED  BY <1>5, <1>6 DEF PinnedInv

(* A step of a tool, which reports at most something true.                 *)
LEMMA ToolStep ==
  ASSUME PinnedInv, Pinned!World, RunSound(run'),
         Pinned!PinIsBuried', Pinned!BytecodeIsOfThatBlock', Pinned!ConfirmationsAreReal'
  PROVE  PinnedInv'
<1>1. RunSound(run)'
  BY DEF RunSound, IsRun, Pinned!World
<1>. QED  BY <1>1 DEF PinnedInv, Pinned!World, HashesAreUnique

LEMMA QuietTool ==
  ASSUME PinnedInv, Pinned!World, RunSound(run'), UNCHANGED results
  PROVE  PinnedInv'
<1>1. Pinned!PinIsBuried' /\ Pinned!BytecodeIsOfThatBlock' /\ Pinned!ConfirmationsAreReal'
  BY DEF PinnedInv, Pinned!PinIsBuried, Pinned!BytecodeIsOfThatBlock, Pinned!ConfirmationsAreReal, Pinned!Of, Pinned!World
<1>. QED  BY <1>1, ToolStep

LEMMA PinSteps ==
  ASSUME PinnedInv, Pinned!ReadHeadNumber \/ Pinned!ReadPinned \/ Pinned!ReadPinnedAgain, Depth \in Nat
  PROVE  PinnedInv'
<1>1. RunSound(run) /\ IsRun(run) /\ Len(chain) \in Nat /\ Pinned!World
  BY DEF PinnedInv, HashesAreUnique, RunSound, Pinned!ReadHeadNumber, Pinned!ReadPinned, Pinned!ReadPinnedAgain
<1>2. CASE Pinned!ReadHeadNumber
  <2>. DEFINE r == [Pinned!Idle EXCEPT !.kind = "pin", !.pc = "first", !.head = Len(chain), !.number = Len(chain) - Depth]
  <2>1. IsRun(r) /\ r.kind = "pin" /\ r.head = Len(chain) /\ r.number = Len(chain) - Depth
    BY DEF IsRun, Pinned!Idle
  <2>2. run' = IF Len(chain) > Depth THEN r ELSE Pinned!Idle
    BY <1>2 DEF Pinned!ReadHeadNumber, Pinned!HeadNumber
  <2>. HIDE DEF r
  <2>3. Len(chain) > Depth => RunSound(r)
    BY <1>1, <2>1 DEF RunSound
  <2>4. RunSound(run') /\ UNCHANGED results
    BY <1>2, <2>2, <2>3, IdleRun DEF Pinned!ReadHeadNumber
  <2>. QED  BY <1>1, <2>4, QuietTool
<1>3. CASE Pinned!ReadPinned
  <2>. DEFINE r == [run EXCEPT !.pc = "second", !.block = chain[run.number]]
  <2>1. run.kind = "pin" /\ run' = r /\ UNCHANGED results
    BY <1>3 DEF Pinned!ReadPinned, Pinned!At
  <2>2. IsRun(r) /\ r.kind = "pin" /\ r.head = run.head /\ r.number = run.number
    BY <1>1, <2>1 DEF IsRun
  <2>. HIDE DEF r
  <2>3. RunSound(r)
    BY <1>1, <2>1, <2>2 DEF RunSound
  <2>. QED  BY <1>1, <2>1, <2>3, QuietTool
<1>4. CASE Pinned!ReadPinnedAgain
  <2>1. run' = Pinned!Idle /\ RunSound(run')
    BY <1>4, IdleRun DEF Pinned!ReadPinnedAgain, Pinned!Done, Pinned!Abort
  <2>2. CASE UNCHANGED results
    BY <1>1, <2>1, <2>2, QuietTool
  <2>3. CASE results' # results
    <3>. DEFINE r == [kind |-> "pin", number |-> run.number, hash |-> run.block.hash, at |-> chain]
    <3>1. results' = {r} /\ chain[run.number] = run.block /\ run.kind = "pin"
      BY <1>4, <2>3 DEF Pinned!ReadPinnedAgain, Pinned!Done, Pinned!Abort, Pinned!At
    <3>2. run.head \in 1..Len(chain) /\ run.number = run.head - Depth
      BY <1>1, <3>1 DEF RunSound
    <3>3. r.at[r.number].hash = r.hash /\ Len(r.at) >= r.number + Depth /\ r.kind = "pin"
      BY <1>1, <3>1, <3>2
    <3>. HIDE DEF r
    <3>4. Pinned!PinIsBuried' /\ Pinned!BytecodeIsOfThatBlock' /\ Pinned!ConfirmationsAreReal'
      BY <3>1, <3>3 DEF Pinned!PinIsBuried, Pinned!BytecodeIsOfThatBlock, Pinned!ConfirmationsAreReal, Pinned!Of
    <3>. QED  BY <1>1, <2>1, <3>4, ToolStep
  <2>. QED  BY <2>2, <2>3
<1>. QED  BY <1>2, <1>3, <1>4

LEMMA BytecodeSteps ==
  ASSUME PinnedInv,
         \/ \E n \in 1..Len(chain), pinned \in Pinned!AnyCode \cup {<<>>} : Pinned!StartBytecode(n, pinned)
         \/ \E k \in Keys : Pinned!ReadCode(k)
         \/ Pinned!FinishBytecode
  PROVE  PinnedInv'
<1>1. RunSound(run) /\ IsRun(run) /\ HashesAreUnique
  BY DEF PinnedInv, RunSound
<1>2. ASSUME NEW n \in 1..Len(chain), NEW pinned \in Pinned!AnyCode \cup {<<>>}, Pinned!StartBytecode(n, pinned)
      PROVE  PinnedInv'
  <2>. DEFINE r == [Pinned!Idle EXCEPT !.kind = "bytecode", !.pc = "codes", !.number = n, !.block = chain[n],
                                       !.pinned = pinned, !.left = Keys]
  <2>1. run' = r /\ Pinned!World /\ UNCHANGED results
    BY <1>2 DEF Pinned!StartBytecode
  <2>2. /\ IsRun(r) /\ r.kind = "bytecode" /\ r.number = n /\ r.block = chain[n] /\ r.pinned = pinned /\ r.left = Keys
        /\ r.code = <<>>
    BY DEF IsRun, Pinned!Idle
  <2>. HIDE DEF r
  <2>3. chain[n] \in made
    BY <1>1 DEF HashesAreUnique
  <2>4. pinned # <<>> => pinned = [k \in Keys |-> pinned[k]]
    BY DEF Pinned!AnyCode
  <2>5. DOMAIN r.code = {} /\ r.code = [k \in DOMAIN r.code |-> r.code[k]]
    BY <2>2
  <2>6. RunSound(r)
    BY <2>2, <2>3, <2>4, <2>5 DEF RunSound
  <2>. QED  BY <2>1, <2>6, QuietTool
<1>3. ASSUME NEW k \in Keys, Pinned!ReadCode(k) PROVE PinnedInv'
  <2>. DEFINE c == chain[run.number].code[k]
              codes == [j \in DOMAIN run.code \cup {k} |-> IF j = k THEN c ELSE run.code[j]]
  <2>. DEFINE r == [run EXCEPT !.left = @ \ {k}, !.code = codes]
  <2>1. run.kind = "bytecode" /\ Pinned!World /\ UNCHANGED results
    BY <1>3 DEF Pinned!ReadCode, Pinned!At
  <2>2. \/ run' = Pinned!Idle
        \/ run' = r /\ (run.pinned # <<>> => run.pinned[k] = c)
    BY <1>3 DEF Pinned!ReadCode
  <2>3. /\ IsRun(r) /\ r.kind = "bytecode" /\ r.number = run.number /\ r.block = run.block /\ r.pinned = run.pinned
        /\ r.left = run.left \ {k} /\ r.code = codes
    <3>. HIDE DEF codes
    <3>. QED  BY <1>1, <2>1 DEF IsRun
  <2>4. /\ DOMAIN codes = DOMAIN run.code \cup {k} /\ codes = [j \in DOMAIN codes |-> codes[j]]
        /\ \A j \in DOMAIN codes : (j = k /\ codes[j] = c) \/ (j \in DOMAIN run.code /\ codes[j] = run.code[j])
    <3>. HIDE DEF c
    <3>. QED  OBVIOUS
  <2>. HIDE DEF r, codes
  <2>5. ASSUME run.pinned # <<>> => run.pinned[k] = c PROVE RunSound(r)
    <3>1. chain[run.number] = run.block => c = run.block.code[k]
      OBVIOUS
    <3>. HIDE DEF c
    <3>2. /\ r.number \in 1..Len(chain) /\ r.block \in made
          /\ r.code = [j \in DOMAIN r.code |-> r.code[j]] /\ Keys \ r.left \subseteq DOMAIN r.code
          /\ DOMAIN r.code \subseteq Keys
      BY <1>1, <1>3, <2>1, <2>3, <2>4 DEF RunSound
    <3>3. r.pinned # <<>> => r.pinned = [j \in Keys |-> r.pinned[j]] /\ \A j \in DOMAIN r.code : r.pinned[j] = r.code[j]
      BY <1>1, <2>1, <2>3, <2>4, <2>5 DEF RunSound
    <3>4. chain[r.number] = r.block => \A j \in DOMAIN r.code : r.code[j] = r.block.code[j]
      BY <1>1, <2>1, <2>3, <2>4, <3>1 DEF RunSound
    <3>. QED  BY <2>3, <3>2, <3>3, <3>4 DEF RunSound
  <2>6. RunSound(run')
    BY <2>2, <2>5, IdleRun
  <2>. QED  BY <2>1, <2>6, QuietTool
<1>4. CASE Pinned!FinishBytecode
  <2>1. run' = Pinned!Idle /\ RunSound(run') /\ Pinned!World /\ run.kind = "bytecode" /\ run.left = {}
    BY <1>4, IdleRun DEF Pinned!FinishBytecode, Pinned!Done, Pinned!Abort, Pinned!At
  <2>2. CASE UNCHANGED results
    BY <2>1, <2>2, QuietTool
  <2>3. CASE results' # results
    <3>. DEFINE r == [kind |-> "bytecode", hash |-> run.block.hash, code |-> run.code, pinned |-> run.pinned]
    <3>1. results' = {r} /\ chain[run.number] = run.block
      BY <1>4, <2>3 DEF Pinned!FinishBytecode, Pinned!Done, Pinned!Abort
    <3>2. /\ run.block \in made /\ run.code = [k \in Keys |-> run.code[k]]
          /\ \A k \in Keys : run.code[k] = run.block.code[k]
          /\ run.pinned # <<>> => run.pinned = [k \in Keys |-> run.pinned[k]] /\ \A k \in Keys : run.pinned[k] = run.code[k]
      <4>1. DOMAIN run.code = Keys
        BY <1>1, <2>1 DEF RunSound
      <4>. QED  BY <1>1, <2>1, <3>1, <4>1 DEF RunSound
    <3>3. run.block.code = [k \in Keys |-> run.block.code[k]]
      BY <1>1, <3>2 DEF HashesAreUnique
    <3>4. run.block.code = run.code
      BY <3>2, <3>3
    <3>5. run.pinned # <<>> => run.pinned = run.code
      BY <3>2
    <3>6. /\ r.hash = run.block.hash /\ r.code = run.block.code /\ r.kind = "bytecode"
          /\ r.pinned # <<>> => run.block.code = r.pinned
      BY <3>4, <3>5
    <3>. HIDE DEF r
    <3>7. made' = made
      BY <2>1 DEF Pinned!World
    <3>8. Pinned!PinIsBuried' /\ Pinned!BytecodeIsOfThatBlock' /\ Pinned!ConfirmationsAreReal'
      BY <3>1, <3>2, <3>6, <3>7
         DEF Pinned!PinIsBuried, Pinned!BytecodeIsOfThatBlock, Pinned!ConfirmationsAreReal, Pinned!Of
    <3>. QED  BY <2>1, <3>8, ToolStep
  <2>. QED  BY <2>2, <2>3
<1>. QED  BY <1>2, <1>3, <1>4

LEMMA ForkSteps ==
  ASSUME PinnedInv, MinConfirmations \in Nat,
         Pinned!StartFork \/ Pinned!ReadObservation \/ Pinned!ReadHead \/ Pinned!ReadObservationAgain
  PROVE  PinnedInv'
<1>. DEFINE e == evidence[1]
<1>1. /\ RunSound(run) /\ IsRun(run) /\ Len(chain) \in Nat /\ \A n \in 1..Len(chain) : chain[n] \in made
      /\ evidence # <<>> => e.number \in 1..Len(chain)
      /\ \A b, c \in made : b.hash = c.hash => b = c
  BY DEF PinnedInv, RunSound, HashesAreUnique
<1>2. Pinned!World
  BY DEF Pinned!StartFork, Pinned!ReadObservation, Pinned!ReadHead, Pinned!ReadObservationAgain
<1>3. CASE Pinned!StartFork
  <2>. DEFINE r == [Pinned!Idle EXCEPT !.kind = "fork", !.pc = "first", !.now = now]
  <2>1. IsRun(r) /\ r.kind = "fork" /\ r.pc = "first"
    BY DEF IsRun, Pinned!Idle
  <2>2. (run' = r \/ run' = Pinned!Idle) /\ evidence # <<>> /\ UNCHANGED results
    BY <1>3 DEF Pinned!StartFork
  <2>. HIDE DEF r
  <2>3. RunSound(r)
    BY <2>1, <2>2 DEF RunSound
  <2>. QED  BY <1>2, <2>2, <2>3, IdleRun, QuietTool
<1>4. CASE Pinned!ReadObservation
  <2>. DEFINE r == [run EXCEPT !.pc = "head", !.block = chain[e.number]]
  <2>1. (run' = r \/ run' = Pinned!Idle) /\ run.kind = "fork" /\ UNCHANGED results
    BY <1>4 DEF Pinned!ReadObservation, Pinned!At
  <2>2. IsRun(r) /\ r.kind = "fork" /\ r.pc = "head" /\ r.block = chain[e.number]
    <3>. HIDE DEF e
    <3>. QED  BY <1>1, <2>1 DEF IsRun
  <2>. HIDE DEF r
  <2>3. RunSound(r)
    BY <1>1, <2>1, <2>2 DEF RunSound
  <2>. QED  BY <1>2, <2>1, <2>3, IdleRun, QuietTool
<1>5. CASE Pinned!ReadHead
  <2>. DEFINE r == [run EXCEPT !.pc = "second", !.head = Len(chain), !.tip = chain[Len(chain)], !.at = chain]
  <2>1. run' = r /\ run.kind = "fork" /\ run.pc = "head" /\ UNCHANGED results
    BY <1>5 DEF Pinned!ReadHead, Pinned!At, Pinned!HeadNumber
  <2>2. /\ IsRun(r) /\ r.kind = "fork" /\ r.pc = "second" /\ r.head = Len(chain) /\ r.tip = chain[Len(chain)]
        /\ r.at = chain /\ r.block = run.block
    BY <1>1, <2>1 DEF IsRun
  <2>. HIDE DEF r
  <2>3. RunSound(r)
    BY <1>1, <2>1, <2>2 DEF RunSound
  <2>. QED  BY <1>2, <2>1, <2>3, QuietTool
<1>6. CASE Pinned!ReadObservationAgain
  <2>1. run' = Pinned!Idle /\ RunSound(run') /\ run.kind = "fork" /\ run.pc = "second"
    BY <1>6, IdleRun DEF Pinned!ReadObservationAgain, Pinned!Done, Pinned!Abort, Pinned!At
  <2>2. CASE UNCHANGED results
    BY <1>2, <2>1, <2>2, QuietTool
  <2>3. CASE results' # results
    <3>. DEFINE r == [kind |-> "fork", evidence |-> e, head |-> run.tip, at |-> run.at, now |-> run.now]
    <3>1. results' = {r} /\ run.block.hash = e.hash /\ chain[e.number].hash = e.hash /\ Pinned!HeadConfirms(e)
      BY <1>6, <2>3 DEF Pinned!ReadObservationAgain, Pinned!Done, Pinned!Abort
    <3>2. /\ run.block \in made /\ run.head = Len(run.at) /\ run.tip = run.at[run.head]
          /\ e.number \in 1..run.head /\ run.head \in Nat /\ e.number \in 1..Len(chain)
          /\ chain[e.number] = run.block => run.at[e.number] = run.block
      BY <1>1, <2>1 DEF RunSound
    <3>3. run.at[e.number] = run.block
      BY <1>1, <3>1, <3>2
    <3>4. Len(run.at) >= e.number + MinConfirmations
      BY <3>1, <3>2 DEF Pinned!HeadConfirms
    <3>5. /\ r.evidence = e /\ r.kind = "fork" /\ r.at[e.number].hash = e.hash /\ r.at[Len(r.at)] = r.head
          /\ Len(r.at) >= e.number + MinConfirmations
          /\ e.observed - r.at[e.number].time <= Lag /\ r.now - r.head.time <= Age
      <4>. HIDE DEF e
      <4>. QED  BY <3>1, <3>2, <3>3, <3>4 DEF Pinned!HeadConfirms
    <3>. HIDE DEF r, e
    <3>6. Pinned!PinIsBuried' /\ Pinned!BytecodeIsOfThatBlock' /\ Pinned!ConfirmationsAreReal'
      BY <3>1, <3>5 DEF Pinned!PinIsBuried, Pinned!BytecodeIsOfThatBlock, Pinned!ConfirmationsAreReal, Pinned!Of
    <3>. QED  BY <1>2, <2>1, <3>6, ToolStep
  <2>. QED  BY <2>2, <2>3
<1>. QED  BY <1>3, <1>4, <1>5, <1>6

LEMMA PinnedStep ==
  ASSUME Pinned!PinnedEvidenceAssumption, PinnedInv, [Pinned!Next]_Pinned!vars
  PROVE  PinnedInv'
<1>1. HashesAreUnique /\ Len(chain) \in Nat /\ \A n \in 1..Len(chain) : chain[n] \in made
  BY DEF PinnedInv, HashesAreUnique
<1>2. Depth \in Nat /\ MinConfirmations \in Nat
  BY DEF Pinned!PinnedEvidenceAssumption
<1>3. ASSUME NEW k \in 0..Len(chain), Pinned!Extend(k) PROVE PinnedInv'
  <2>1. UNCHANGED <<evidence, run, results>>
    BY <1>3 DEF Pinned!Extend
  <2>2. /\ HashesAreUnique' /\ made \subseteq made' /\ Len(chain) <= Len(chain')
        /\ \A n \in 1..Len(chain') : chain'[n] \in made => n \in 1..Len(chain) /\ chain'[n] = chain[n]
    BY <1>3, Extended
  <2>3. evidence' # <<>> => evidence'[1].number \in 1..Len(chain')
    <3>1. Len(chain') \in Nat
      BY <2>2 DEF HashesAreUnique
    <3>. QED  BY <1>1, <2>1, <2>2, <3>1 DEF PinnedInv
  <2>. QED  BY <2>1, <2>2, <2>3, WorldMoves
<1>4. ASSUME UNCHANGED <<chain, made, run, results>>, evidence = <<>> \/ evidence' = evidence,
             evidence' # <<>> => evidence'[1].number \in 1..Len(chain)
      PROVE  PinnedInv'
  <2>1. HashesAreUnique'
    BY <1>1, <1>4 DEF HashesAreUnique
  <2>. QED  BY <1>1, <1>4, <2>1, WorldMoves
<1>5. CASE Pinned!Tick
  BY <1>4, <1>5 DEF Pinned!Tick, PinnedInv
<1>6. ASSUME NEW n \in 1..Len(chain), NEW t, Pinned!Sign(n, t) PROVE PinnedInv'
  BY <1>4, <1>6 DEF Pinned!Sign
<1>7. CASE Pinned!RequestFails
  BY <1>7, IdleRun, QuietTool DEF Pinned!RequestFails, Pinned!Abort
<1>8. CASE UNCHANGED Pinned!vars
  BY <1>4, <1>8 DEF Pinned!vars, PinnedInv
<1>. QED  BY <1>2, <1>3, <1>5, <1>6, <1>7, <1>8, PinSteps, BytecodeSteps, ForkSteps DEF Pinned!Next, Pinned!HeadNumber

LEMMA PinnedSound == ASSUME Pinned!PinnedEvidenceAssumption PROVE Pinned!Spec => []PinnedInv
BY PinnedInit, PinnedStep, PTL DEF Pinned!Spec

(* The block the nightly run forks from had Depth others above it when it   *)
(* was chosen, however the chain was reorganised between the reads          *)
(* (selectNightlyMainnetPin).                                               *)
THEOREM PinsAreBuried ==
  ASSUME Pinned!PinnedEvidenceAssumption
  PROVE  Pinned!Spec => []Pinned!PinIsBuried
BY PinnedSound, PTL DEF PinnedInv

(* A bytecode report is of the one block whose hash it names, in every code *)
(* (verifyCanonicalBytecode).                                               *)
THEOREM BytecodeReportsAreOfTheirBlock ==
  ASSUME Pinned!PinnedEvidenceAssumption
  PROVE  Pinned!Spec => []Pinned!BytecodeIsOfThatBlock
BY PinnedSound, PTL DEF PinnedInv

(* The head that confirms signed fork evidence is built on the very block   *)
(* observed, enough blocks above it, and neither was old when it mattered   *)
(* (verifyLiveRobinhoodTestnetForkEvidence).                                *)
THEOREM ForkConfirmationsAreReal ==
  ASSUME Pinned!PinnedEvidenceAssumption
  PROVE  Pinned!Spec => []Pinned!ConfirmationsAreReal
BY PinnedSound, PTL DEF PinnedInv

-----------------------------------------------------------------------------
(* ReleaseManifest.                                                        *)
CONSTANTS ContractNames, ExternalKeys, Actions, Gates, Roles, Nothing, LinkedTo, InitialFiles, Contents, Versions,
          Signers, Bytes, Sources, Policies, MaxSignatures
VARIABLE commits

Release == INSTANCE ReleaseManifest

IsValidation(r) == r = [f \in {"pc", "required", "first", "manifest", "policy", "commit"} |-> r[f]]

(* What a validation has established by its stage: about the commit it      *)
(* read, the manifest of that commit and the policy; or that there is no    *)
(* commit to read, because the manifest asks for none.                      *)
Unread == {"idle", "read"}
Cleaned == {"clean", "manifest", "policy", "trusted", "valid"}
Reread == {"manifest", "policy", "trusted", "valid"}
Entrusted == {"policy", "trusted", "valid"}

ValidationSound(r) ==
  /\ IsValidation(r)
  /\ r.pc \in Unread => r.commit = Release!NoCommit
  /\ r.commit = Release!NoCommit => r.pc \in Unread \cup {"trusted", "valid"}
  /\ r.commit = Release!NoCommit /\ r.pc \in {"trusted", "valid"} => ~Release!RequiresTrustedPolicy(r.manifest)
  /\ r.commit # Release!NoCommit => r.commit.evidence # Nothing /\ ~r.commit.evidence.more
  /\ r.commit # Release!NoCommit /\ r.pc \in Cleaned => r.commit.source.policy = r.commit.evidence.policy
  /\ r.commit # Release!NoCommit /\ r.pc \in Reread =>
       /\ r.manifest = r.commit.evidence.manifest /\ r.manifest.content.source = r.commit.source.id
       /\ Release!RequiresTrustedPolicy(r.manifest)
  /\ r.commit # Release!NoCommit /\ r.pc \in Entrusted => r.policy = r.commit.evidence.policy
  /\ r.commit # Release!NoCommit /\ r.pc = "valid" => Release!ValidateDeploymentManifest(r.manifest, r.policy)

(* What was accepted: the manifest of a commit, signed for its policy, or   *)
(* one that needs no commit.                                                *)
AcceptedSound(a) ==
  IF a.commit = Release!NoCommit THEN ~Release!RequiresTrustedPolicy(a.manifest)
  ELSE /\ a.commit.evidence # Nothing /\ ~a.commit.evidence.more
       /\ a.commit.source.policy = a.commit.evidence.policy
       /\ a.manifest = a.commit.evidence.manifest /\ a.manifest.content.source = a.commit.source.id
       /\ Release!RequiresTrustedPolicy(a.manifest)
       /\ Release!ValidateDeploymentManifest(a.manifest, a.commit.source.policy)

ReleaseInv == ValidationSound(run) /\ \A a \in accepted : AcceptedSound(a)

LEMMA IdleValidation == ValidationSound(Release!Idle)
BY DEF ValidationSound, IsValidation, Release!Idle, Unread, Cleaned, Reread, Entrusted

LEMMA ReleaseInit == Release!Init => ReleaseInv
BY IdleValidation DEF Release!Init, ReleaseInv

LEMMA ValidationStep ==
  ASSUME ReleaseInv, ValidationSound(run'), UNCHANGED accepted
  PROVE  ReleaseInv'
<1>1. ValidationSound(run)'
  BY DEF ValidationSound, IsValidation, Release!RequiresTrustedPolicy, Release!ValidateDeploymentManifest
<1>2. (\A a \in accepted : AcceptedSound(a))'
  BY DEF ReleaseInv, AcceptedSound, Release!RequiresTrustedPolicy, Release!ValidateDeploymentManifest
<1>. QED  BY <1>1, <1>2 DEF ReleaseInv

(* A check of a validation, which ends it or takes it to its next stage.    *)
LEMMA Checked ==
  ASSUME ReleaseInv, NEW from, NEW to, NEW ok, NEW x, Release!Step(from, to, ok, x),
         ok => ValidationSound([x EXCEPT !.pc = to])
  PROVE  ReleaseInv'
<1>1. UNCHANGED accepted /\ run' = IF ok THEN [x EXCEPT !.pc = to] ELSE Release!Idle
  BY DEF Release!Step
<1>2. ValidationSound(run')
  BY <1>1, IdleValidation
<1>. QED  BY <1>1, <1>2, ValidationStep

LEMMA ReleaseStep ==
  ASSUME ReleaseInv, [Release!Next]_Release!vars
  PROVE  ReleaseInv'
<1>1. ValidationSound(run) /\ IsValidation(run)
  BY DEF ReleaseInv, ValidationSound
<1>. USE DEF Unread, Cleaned, Reread, Entrusted
<1>2. ASSUME UNCHANGED <<run, accepted>> PROVE ReleaseInv'
  BY <1>1, <1>2, ValidationStep
<1>3. ASSUME NEW b \in BOOLEAN, Release!ReadManifest(b) PROVE ReleaseInv'
  <2>. DEFINE m == tree.manifest
              to == IF b \/ Release!RequiresTrustedPolicy(m) THEN "read" ELSE "trusted"
              ok == Release!ParseDeploymentManifest(m) /\ (b => m.content.status = "release-approved")
  <2>. DEFINE x == [run EXCEPT !.first = m, !.required = b, !.manifest = m]
  <2>. DEFINE y == [x EXCEPT !.pc = to]
  <2>1. Release!Step("idle", to, ok, x) /\ run.pc = "idle"
    BY <1>3 DEF Release!ReadManifest, Release!Step
  <2>. HIDE DEF m
  <2>2. to = "read" \/ (to = "trusted" /\ ~Release!RequiresTrustedPolicy(m))
    OBVIOUS
  <2>. HIDE DEF to, ok
  <2>3. IsValidation(y) /\ y.pc = to /\ y.commit = run.commit /\ y.manifest = m
    BY <1>1 DEF IsValidation
  <2>. HIDE DEF y
  <2>4. ValidationSound(y)
    BY <1>1, <2>1, <2>2, <2>3 DEF ValidationSound
  <2>5. ValidationSound([x EXCEPT !.pc = to])
    BY <2>4 DEF y
  <2>. HIDE DEF x
  <2>. QED  BY <2>1, <2>5, Checked
<1>4. CASE Release!ReadEvidenceCommit
  <2>. DEFINE ok == head.evidence # Nothing /\ head.source.id = run.first.content.source /\ ~head.evidence.more
  <2>. DEFINE x == [run EXCEPT !.commit = head]
  <2>. DEFINE y == [x EXCEPT !.pc = "committed"]
  <2>1. Release!Step("read", "committed", ok, x)
    BY <1>4 DEF Release!ReadEvidenceCommit
  <2>2. IsValidation(y) /\ y.pc = "committed" /\ y.commit = head
    BY <1>1 DEF IsValidation
  <2>. HIDE DEF y
  <2>3. ok => ValidationSound(y)
    BY <2>2 DEF ValidationSound, Release!NoCommit
  <2>4. ok => ValidationSound([x EXCEPT !.pc = "committed"])
    BY <2>3 DEF y
  <2>. HIDE DEF x, ok
  <2>. QED  BY <2>1, <2>4, Checked
<1>5. ASSUME NEW s \in Release!Snapshots, Release!CheckSnapshot(s) PROVE ReleaseInv'
  <2>. DEFINE ok == run.first.content.hash = Nothing
                    \/ (tree.snaps[s] = Release!Evidence.snaps[s] /\ tree.snaps[s] = run.first.content.hash[s])
  <2>1. Release!Step(run.pc, s, ok, run) /\ run.pc \in {"committed", "config"} /\ s \in {"config", "state"}
    BY <1>5 DEF Release!CheckSnapshot, Release!Check, Release!Snapshots
  <2>. HIDE DEF ok
  <2>2. ValidationSound([run EXCEPT !.pc = s])
    <3>. DEFINE y == [run EXCEPT !.pc = s]
    <3>1. IsValidation(y) /\ y.pc = s /\ y.commit = run.commit /\ y.manifest = run.manifest
      BY <1>1 DEF IsValidation
    <3>. HIDE DEF y
    <3>2. ValidationSound(y)
      BY <1>1, <2>1, <3>1 DEF ValidationSound
    <3>. QED  BY <3>2 DEF y
  <2>. QED  BY <2>1, <2>2, Checked
<1>6. CASE Release!CheckWorktree
  <2>. DEFINE ok == /\ run.commit.source.policy = Release!Evidence.policy
                    /\ tree = [manifest |-> Release!Evidence.manifest, snaps |-> Release!Evidence.snaps,
                               policy |-> Release!Evidence.policy]
  <2>1. Release!Step("state", "clean", ok, run) /\ run.pc = "state"
    BY <1>6 DEF Release!CheckWorktree, Release!Check, Release!Step
  <2>2. ok => run.commit.source.policy = run.commit.evidence.policy
    BY DEF Release!Evidence
  <2>. HIDE DEF ok
  <2>3. ok => ValidationSound([run EXCEPT !.pc = "clean"])
    <3>. DEFINE y == [run EXCEPT !.pc = "clean"]
    <3>1. IsValidation(y) /\ y.pc = "clean" /\ y.commit = run.commit /\ y.manifest = run.manifest
      BY <1>1 DEF IsValidation
    <3>. HIDE DEF y
    <3>2. ok => ValidationSound(y)
      BY <1>1, <2>1, <2>2, <3>1 DEF ValidationSound
    <3>. QED  BY <3>2 DEF y
  <2>. QED  BY <2>1, <2>3, Checked
<1>7. CASE Release!ReadCommittedManifest
  <2>. DEFINE m == tree.manifest
              ok == /\ m = Release!Evidence.manifest /\ Release!ParseDeploymentManifest(m)
                    /\ Release!RequiresTrustedPolicy(m)
                    /\ run.required => m.content.status = "release-approved"
                    /\ m.content.source = run.commit.source.id
  <2>. DEFINE x == [run EXCEPT !.manifest = m]
  <2>. DEFINE y == [x EXCEPT !.pc = "manifest"]
  <2>1. Release!Step("clean", "manifest", ok, x) /\ run.pc = "clean"
    BY <1>7 DEF Release!ReadCommittedManifest, Release!Step
  <2>2. ok => /\ m = run.commit.evidence.manifest /\ Release!RequiresTrustedPolicy(m)
              /\ m.content.source = run.commit.source.id
    BY DEF Release!Evidence
  <2>. HIDE DEF m, ok
  <2>3. IsValidation(y) /\ y.pc = "manifest" /\ y.commit = run.commit /\ y.manifest = m
    BY <1>1 DEF IsValidation
  <2>. HIDE DEF y
  <2>4. ok => ValidationSound(y)
    BY <1>1, <2>1, <2>2, <2>3 DEF ValidationSound
  <2>5. ok => ValidationSound([x EXCEPT !.pc = "manifest"])
    BY <2>4 DEF y
  <2>. HIDE DEF x
  <2>. QED  BY <2>1, <2>5, Checked
<1>8. CASE Release!ReadTrustedPolicy
  <2>. DEFINE x == [run EXCEPT !.policy = tree.policy]
              ok == tree.policy = Release!Evidence.policy
  <2>. DEFINE y == [x EXCEPT !.pc = "policy"]
  <2>1. Release!Step("manifest", "policy", ok, x) /\ run.pc = "manifest"
    BY <1>8 DEF Release!ReadTrustedPolicy, Release!Step
  <2>2. IsValidation(y) /\ y.pc = "policy" /\ y.commit = run.commit /\ y.manifest = run.manifest /\ y.policy = tree.policy
    BY <1>1 DEF IsValidation
  <2>. HIDE DEF y
  <2>3. ok => ValidationSound(y)
    BY <1>1, <2>1, <2>2 DEF ValidationSound, Release!Evidence
  <2>4. ok => ValidationSound([x EXCEPT !.pc = "policy"])
    BY <2>3 DEF y
  <2>. HIDE DEF x, ok
  <2>. QED  BY <2>1, <2>4, Checked
<1>9. CASE Release!AssertHead
  <2>. DEFINE y == [run EXCEPT !.pc = "trusted"]
  <2>1. Release!Step("policy", "trusted", head = run.commit, run) /\ run.pc = "policy"
    BY <1>9 DEF Release!AssertHead, Release!Check, Release!Step
  <2>2. IsValidation(y) /\ y.pc = "trusted" /\ y.commit = run.commit /\ y.manifest = run.manifest /\ y.policy = run.policy
    BY <1>1 DEF IsValidation
  <2>. HIDE DEF y
  <2>3. ValidationSound(y)
    BY <1>1, <2>1, <2>2 DEF ValidationSound
  <2>4. ValidationSound([run EXCEPT !.pc = "trusted"])
    BY <2>3 DEF y
  <2>. QED  BY <2>1, <2>4, Checked
<1>10. CASE Release!Validate
  <2>. DEFINE y == [run EXCEPT !.pc = "valid"]
              ok == /\ Release!ValidateDeploymentManifest(run.manifest, run.policy)
                    /\ run.required => Release!AssertFreshReleaseEvidence(run.manifest.content)
  <2>1. Release!Step("trusted", "valid", ok, run) /\ run.pc = "trusted"
    BY <1>10 DEF Release!Validate, Release!Check, Release!Step
  <2>2. IsValidation(y) /\ y.pc = "valid" /\ y.commit = run.commit /\ y.manifest = run.manifest /\ y.policy = run.policy
    BY <1>1 DEF IsValidation
  <2>. HIDE DEF y
  <2>3. ok => ValidationSound(y)
    BY <1>1, <2>1, <2>2 DEF ValidationSound
  <2>4. ok => ValidationSound([run EXCEPT !.pc = "valid"])
    BY <2>3 DEF y
  <2>. HIDE DEF ok
  <2>. QED  BY <2>1, <2>4, Checked
<1>11. CASE Release!Accept
  <2>. DEFINE a == [manifest |-> run.manifest, commit |-> run.commit]
  <2>1. run.pc = "valid" /\ run' = Release!Idle /\ accepted' \in {accepted, accepted \cup {a}}
    BY <1>11 DEF Release!Accept
  <2>2. a.manifest = run.manifest /\ a.commit = run.commit
    OBVIOUS
  <2>. HIDE DEF a
  <2>3. AcceptedSound(a)
    BY <1>1, <2>1, <2>2 DEF ValidationSound, AcceptedSound
  <2>4. \A b \in accepted' : AcceptedSound(b)
    BY <2>1, <2>3 DEF ReleaseInv
  <2>5. ValidationSound(run')
    BY <2>1, IdleValidation
  <2>6. ValidationSound(run)' /\ (\A b \in accepted : AcceptedSound(b))'
    BY <2>4, <2>5 DEF ValidationSound, IsValidation, AcceptedSound, Release!RequiresTrustedPolicy,
       Release!ValidateDeploymentManifest
  <2>. QED  BY <2>6 DEF ReleaseInv
<1>12. CASE \/ \E b \in BOOLEAN : Release!CommitEvidence(b)
            \/ Release!EditManifest \/ Release!EditSnapshot \/ Release!EditPolicy \/ Release!Tick
            \/ \E s \in Signers : Release!Sign(s)
            \/ \E c \in commits \cup {[source |-> s, evidence |-> Nothing] : s \in Sources} : Release!Checkout(c)
  <2>1. UNCHANGED <<run, accepted>>
    BY <1>12 DEF Release!CommitEvidence, Release!EditManifest, Release!EditSnapshot, Release!EditPolicy, Release!EditTree,
       Release!Tick, Release!Sign, Release!Checkout, Release!Move
  <2>. QED  BY <2>1, <1>2
<1>13. CASE UNCHANGED Release!vars
  BY <1>2, <1>13 DEF Release!vars
<1>. QED  BY <1>3, <1>4, <1>5, <1>6, <1>7, <1>8, <1>9, <1>10, <1>11, <1>12, <1>13 DEF Release!Next

LEMMA ReleaseSound == Release!Spec => []ReleaseInv
BY ReleaseInit, ReleaseStep, PTL DEF Release!Spec

(* What is accepted beyond the trust boundary is the manifest of the        *)
(* evidence commit, on top of the source commit the manifest names, with    *)
(* nothing but evidence between, whatever the worktree showed meanwhile     *)
(* (validate-deployment-manifest.ts).                                       *)
THEOREM AcceptedManifestsAreCommitted == Release!Spec => []Release!AcceptedIsCommitted
<1>1. ReleaseInv => Release!AcceptedIsCommitted
  BY DEF ReleaseInv, AcceptedSound, Release!AcceptedIsCommitted, Release!Boundary
<1>. QED  BY <1>1, ReleaseSound, PTL

(* The signers recovered from the signatures are those SignedBy counts.     *)
LEMMA RecoveredSigners ==
  ASSUME NEW m, Release!ParseDeploymentManifest(m), NEW S
  PROVE  {s \in S : Release!SignedBy(m, s)} = Release!ToSet(Release!Field(m.signatures, "signer")) \cap S
BY DEF Release!ParseDeploymentManifest, Release!SignedBy, Release!ToSet, Release!Field

(* Every role of the policy in the source commit has approved exactly the   *)
(* accepted manifest with as many different members as it asks for          *)
(* (validateDeploymentManifest).                                            *)
THEOREM AcceptedManifestsAreApproved == Release!Spec => []Release!ApprovedByEveryRole
<1>1. ASSUME ReleaseInv, NEW a \in Release!Boundary
      PROVE  /\ a.commit.source.policy # Nothing
             /\ \A r \in Roles : Release!Cardinality({s \in a.commit.source.policy[r].signers : Release!SignedBy(a.manifest, s)})
                                   >= a.commit.source.policy[r].threshold
  <2>. DEFINE policy == a.commit.source.policy
              recovered == Release!Field(a.manifest.signatures, "signer")
  <2>1. Release!RequiresTrustedPolicy(a.manifest) /\ Release!ValidateDeploymentManifest(a.manifest, policy)
    BY <1>1 DEF ReleaseInv, AcceptedSound, Release!Boundary
  <2>2. policy # Nothing /\ a.manifest.content.policy = policy
    BY <2>1 DEF Release!ValidateDeploymentManifest, Release!AssertTrustedSignaturePolicy
  <2>3. Release!ParseDeploymentManifest(a.manifest)
    BY <2>1 DEF Release!ValidateDeploymentManifest
  <2>4. \A r \in Roles : Release!Cardinality(Release!ToSet(recovered) \cap policy[r].signers) >= policy[r].threshold
    BY <2>1, <2>2 DEF Release!ValidateDeploymentManifest
  <2>5. \A r \in Roles : {s \in policy[r].signers : Release!SignedBy(a.manifest, s)}
                           = Release!ToSet(recovered) \cap policy[r].signers
    BY <2>3, RecoveredSigners
  <2>. HIDE DEF policy, recovered
  <2>6. \A r \in Roles : Release!Cardinality({s \in policy[r].signers : Release!SignedBy(a.manifest, s)}) >= policy[r].threshold
    BY <2>4, <2>5
  <2>. QED  BY <2>2, <2>6 DEF policy
<1>2. ReleaseInv => Release!ApprovedByEveryRole
  BY <1>1, Zenon DEF Release!ApprovedByEveryRole
<1>. QED  BY <1>2, ReleaseSound, PTL

(* A set of entries has one per required name, and no two of one address.   *)
Exact(entries, names) ==
  /\ \A e \in entries : e.name \in names
  /\ \A n \in names : \E e \in entries : e.name = n
  /\ \A e, f \in entries : e.name = f.name \/ e.address = f.address => e = f

(* A complete list whose addresses are recorded is such a set.              *)
LEMMA CompleteLists ==
  ASSUME NEW entries, NEW names, Release!ExactSet(Release!Field(entries, "name"), names),
         Release!Unique(Release!Field(entries, "name")),
         \A e \in Release!ToSet(entries) : e.address # Zero,
         \A i, j \in Release!Resolved(entries) : entries[i].address = entries[j].address => i = j
  PROVE  Exact(Release!ToSet(entries), names)
<1>1. Release!ToSet(entries) = {entries[i] : i \in DOMAIN entries}
  BY DEF Release!ToSet
<1>2. Release!ToSet(Release!Field(entries, "name")) = {entries[i].name : i \in DOMAIN entries}
  BY DEF Release!ToSet, Release!Field
<1>3. {entries[i].name : i \in DOMAIN entries} = names
  BY <1>2 DEF Release!ExactSet
<1>4. \A i, j \in DOMAIN entries : entries[i].name = entries[j].name => i = j
  BY DEF Release!Unique, Release!Field
<1>5. \A i \in DOMAIN entries : i \in Release!Resolved(entries)
  BY <1>1 DEF Release!Resolved
<1>6. \A e \in Release!ToSet(entries) : e.name \in names
  BY <1>1, <1>3
<1>7. \A n \in names : \E e \in Release!ToSet(entries) : e.name = n
  BY <1>1, <1>3
<1>8. \A e, f \in Release!ToSet(entries) : e.name = f.name \/ e.address = f.address => e = f
  BY <1>1, <1>4, <1>5
<1>. QED  BY <1>6, <1>7, <1>8 DEF Exact

(* An approved manifest has one entry per required name, all verified, and  *)
(* no two of one address.                                                   *)
LEMMA ApprovedEntries ==
  ASSUME Release!ReleaseManifestAssumption, NEW m, Release!ParseDeploymentManifest(m),
         m.content.status = "release-approved"
  PROVE  /\ \A e \in Release!Entries(m.content) : e.state = "verified" /\ e.address # Zero
         /\ Exact(Release!Entries(m.content), ContractNames \cup ExternalKeys)
<1>. DEFINE contracts == m.content.contracts
            externals == m.content.externals
<1>1. Release!Entries(m.content) = Release!ToSet(contracts) \cup Release!ToSet(externals)
  BY DEF Release!Entries
<1>2. \A e \in Release!Entries(m.content) : e.state = "verified" /\ e.address # Zero
  BY DEF Release!ParseDeploymentManifest, Release!ApprovalIsComplete, Release!EntryIsEvidenced
<1>3. Release!IdentitiesAreUnique(m.content) /\ Release!CandidateIsComplete(m.content)
  BY DEF Release!ParseDeploymentManifest
<1>4. /\ Release!Unique(Release!Field(contracts, "name")) /\ Release!Unique(Release!Field(externals, "name"))
      /\ \A i, j \in Release!Resolved(contracts) : contracts[i].address = contracts[j].address => i = j
      /\ \A i, j \in Release!Resolved(externals) : externals[i].address = externals[j].address => i = j
      /\ Release!Addresses(contracts) \cap Release!Addresses(externals) = {}
  BY <1>3 DEF Release!IdentitiesAreUnique
<1>5. /\ Release!ExactSet(Release!Field(contracts, "name"), ContractNames)
      /\ Release!ExactSet(Release!Field(externals, "name"), ExternalKeys)
  BY <1>3 DEF Release!CandidateIsComplete
<1>. HIDE DEF contracts, externals
<1>6. Exact(Release!ToSet(contracts), ContractNames)
  BY <1>1, <1>2, <1>4, <1>5, CompleteLists
<1>7. Exact(Release!ToSet(externals), ExternalKeys)
  BY <1>1, <1>2, <1>4, <1>5, CompleteLists
<1>8. \A e \in Release!ToSet(contracts), f \in Release!ToSet(externals) : e.address # f.address
  BY <1>1, <1>2, <1>4 DEF Release!Addresses, Release!Resolved, Release!ToSet
<1>9. ContractNames \cap ExternalKeys = {}
  BY DEF Release!ReleaseManifestAssumption
<1>10. Exact(Release!Entries(m.content), ContractNames \cup ExternalKeys)
  BY <1>1, <1>6, <1>7, <1>8, <1>9 DEF Exact
<1>. QED  BY <1>2, <1>10

(* An approval accepted beyond the trust boundary describes one deployment: *)
(* its required names stand for as many addresses, all verified, and every  *)
(* binding of the recorded state is the address of the name it stands for   *)
(* (deployment-manifest.ts).                                                *)
THEOREM ApprovedDeploymentsAreOneGraph ==
  ASSUME Release!ReleaseManifestAssumption
  PROVE  Release!Spec => []Release!DeploymentIsOneGraph
<1>. DEFINE Names == ContractNames \cup ExternalKeys
            At(E) == [n \in Names |-> (CHOOSE e \in E : e.name = n).address]
            Graph(c, at) ==
              /\ \A e \in Release!Entries(c) : e.address = at[e.name] /\ e.state = "verified"
              /\ \A m, n \in DOMAIN at : at[m] = at[n] => m = n
              /\ \A b \in DOMAIN LinkedTo : c.initial[b] = at[LinkedTo[b]]
<1>1. ASSUME NEW m, Release!ParseDeploymentManifest(m), m.content.status = "release-approved"
      PROVE  \E at \in [Names -> {e.address : e \in Release!Entries(m.content)} \ {Zero}] : Graph(m.content, at)
  <2>. DEFINE E == Release!Entries(m.content)
              at == At(E)
  <2>1. (\A e \in E : e.state = "verified" /\ e.address # Zero) /\ Exact(E, Names)
    BY <1>1, ApprovedEntries
  <2>2. m.content.initial # Nothing /\ Release!BindingsResolve(m.content)
    BY <1>1 DEF Release!ParseDeploymentManifest, Release!ApprovalIsComplete
  <2>3. \A b \in DOMAIN LinkedTo : LinkedTo[b] \in Names /\ \E e \in E : e.name = LinkedTo[b] /\ e.address = m.content.initial[b]
    BY <2>2 DEF Release!BindingsResolve, Release!ReleaseManifestAssumption
  <2>. HIDE DEF E, Names
  <2>4. \A e \in E : (CHOOSE f \in E : f.name = e.name) = e
    BY <2>1 DEF Exact
  <2>5. \A e \in E : e.name \in Names /\ at[e.name] = e.address
    BY <2>1, <2>4 DEF Exact
  <2>. HIDE DEF At
  <2>6. \A n \in Names : \E e \in E : e.name = n /\ at[n] = e.address
    BY <2>1, <2>5 DEF Exact
  <2>7. DOMAIN at = Names /\ at = [n \in Names |-> at[n]]
    BY DEF At
  <2>. HIDE DEF at
  <2>8. at \in [Names -> {e.address : e \in E} \ {Zero}]
    BY <2>1, <2>6, <2>7
  <2>9. \A p, n \in DOMAIN at : at[p] = at[n] => p = n
    BY <2>1, <2>6, <2>7 DEF Exact
  <2>10. \A b \in DOMAIN LinkedTo : m.content.initial[b] = at[LinkedTo[b]]
    BY <2>3, <2>5
  <2>11. Graph(m.content, at)
    BY <2>1, <2>5, <2>9, <2>10 DEF E
  <2>. HIDE DEF Graph
  <2>. QED  BY <2>8, <2>11 DEF E
<1>2. ASSUME ReleaseInv, NEW a \in Release!Boundary PROVE Release!ParseDeploymentManifest(a.manifest)
  BY <1>2 DEF ReleaseInv, AcceptedSound, Release!Boundary, Release!ValidateDeploymentManifest
<1>3. ReleaseInv => Release!DeploymentIsOneGraph
  BY <1>1, <1>2 DEF Release!DeploymentIsOneGraph
<1>. QED  BY <1>3, ReleaseSound, PTL

-----------------------------------------------------------------------------
(* StockCandidate.                                                         *)
CONSTANTS Tokens, DefaultAdmin, BeaconUpgrader, Accounts, Impls, Height, Events, Lossy
VARIABLES listed, pc, read, ranges, rawLogs, named

Stock == INSTANCE StockCandidate

(* Sequences flattened one by one.                                          *)
Joined(s, u) == s \o u

LEMMA JoinedAssociative ==
  ASSUME NEW S, NEW s \in Seq(S), NEW t \in Seq(S), NEW u \in Seq(S)
  PROVE  Joined(Joined(s, t), u) = Joined(s, Joined(t, u))
BY ConcatAssociative DEF Joined

LEMMA FlattenTable ==
  ASSUME NEW t
  PROVE  \A n \in Nat : \E F : F = [i \in 1..n |-> IF i = 1 THEN t[i] ELSE Joined(F[i - 1], t[i])]
<1>. DEFINE Table(F, n) == F = [i \in 1..n |-> IF i = 1 THEN t[i] ELSE Joined(F[i - 1], t[i])]
            T == {n \in Nat : \E F : Table(F, n)}
<1>1. 0 \in T
  <2>1. Table([i \in 1..0 |-> t[i]], 0)
    OBVIOUS
  <2>. QED  BY <2>1
<1>2. ASSUME NEW n \in T PROVE n + 1 \in T
  <2>1. PICK F : Table(F, n)
    OBVIOUS
  <2>. DEFINE G == [i \in 1..n + 1 |-> IF i <= n THEN F[i] ELSE IF i = 1 THEN t[i] ELSE Joined(F[n], t[i])]
  <2>2. \A i \in 1..n + 1 : G[i] = IF i = 1 THEN t[i] ELSE Joined(G[i - 1], t[i])
    <3>. TAKE i \in 1..n + 1
    <3>1. CASE i <= n
      BY <2>1, <3>1
    <3>2. CASE i = n + 1
      BY <3>2
    <3>. QED  BY <3>1, <3>2
  <2>3. Table(G, n + 1)
    BY <2>2
  <2>4. \E H : Table(H, n + 1)
    BY <2>3
  <2>. QED  BY <2>4
<1>. HIDE DEF T
<1>3. T = Nat
  <2>1. T \in SUBSET Nat
    BY DEF T
  <2>. QED  BY <1>1, <1>2, <2>1, InductiveSet
<1>. QED  BY <1>3 DEF T

LEMMA FlattenIsTable ==
  ASSUME NEW t, Len(t) \in Nat \ {0}
  PROVE  \E F : /\ Stock!FlattenSeq(t) = F[Len(t)] /\ F[1] = t[1]
                /\ \A i \in 2..Len(t) : F[i] = Joined(F[i - 1], t[i])
<1>. DEFINE Table(F) == F = [i \in 1..Len(t) |-> IF i = 1 THEN t[i] ELSE Joined(F[i - 1], t[i])]
            F == CHOOSE f : Table(f)
<1>1. \E f : Table(f)
  BY FlattenTable
<1>2. Table(F)
  BY <1>1
<1>3. Stock!FlattenSeq(t) = F[Len(t)]
  BY Zenon DEF Stock!FlattenSeq, Joined
<1>. HIDE DEF F
<1>4. F[1] = t[1] /\ \A i \in 2..Len(t) : F[i] = Joined(F[i - 1], t[i])
  BY <1>2
<1>. QED  BY <1>3, <1>4

(* Flattening one sequence more appends it.                                 *)
LEMMA FlattenStep ==
  ASSUME NEW n \in Nat \ {0}, NEW g
  PROVE  /\ Stock!FlattenSeq([i \in 1..1 |-> g[i]]) = g[1]
         /\ Stock!FlattenSeq([i \in 1..n + 1 |-> g[i]]) = Joined(Stock!FlattenSeq([i \in 1..n |-> g[i]]), g[n + 1])
<1>. DEFINE t(m) == [i \in 1..m |-> g[i]]
<1>1. \A m \in Nat : Len(t(m)) = m /\ \A i \in 1..m : t(m)[i] = g[i]
  OBVIOUS
<1>. HIDE DEF t
<1>2. Stock!FlattenSeq(t(1)) = g[1]
  BY <1>1, FlattenIsTable
<1>3. ASSUME NEW m \in Nat \ {0}
      PROVE  \E F : /\ Stock!FlattenSeq(t(m)) = F[m] /\ F[1] = g[1]
                    /\ \A i \in 2..m : F[i] = Joined(F[i - 1], g[i])
  <2>1. Len(t(m)) = m
    BY <1>1
  <2>2. PICK F : /\ Stock!FlattenSeq(t(m)) = F[Len(t(m))] /\ F[1] = t(m)[1]
                 /\ \A i \in 2..Len(t(m)) : F[i] = Joined(F[i - 1], t(m)[i])
    BY <2>1, FlattenIsTable, Zenon
  <2>3. t(m)[1] = g[1] /\ \A i \in 2..m : t(m)[i] = g[i]
    BY <1>1
  <2>4. /\ Stock!FlattenSeq(t(m)) = F[m] /\ F[1] = g[1]
        /\ \A i \in 2..m : F[i] = Joined(F[i - 1], g[i])
    BY <2>1, <2>2, <2>3
  <2>. QED  BY <2>4
<1>4. PICK F : /\ Stock!FlattenSeq(t(n)) = F[n] /\ F[1] = g[1]
               /\ \A i \in 2..n : F[i] = Joined(F[i - 1], g[i])
  BY <1>3
<1>5. PICK G : /\ Stock!FlattenSeq(t(n + 1)) = G[n + 1] /\ G[1] = g[1]
               /\ \A i \in 2..n + 1 : G[i] = Joined(G[i - 1], g[i])
  <2>1. n + 1 \in Nat \ {0}
    OBVIOUS
  <2>. QED  BY <1>3, <2>1
<1>. DEFINE T == {i \in Nat : i + 1 <= n => F[i + 1] = G[i + 1]}
<1>6. 0 \in T
  BY <1>4, <1>5
<1>7. ASSUME NEW i \in T PROVE i + 1 \in T
  <2>. SUFFICES ASSUME i + 1 + 1 <= n PROVE F[i + 1 + 1] = G[i + 1 + 1]
    OBVIOUS
  <2>1. i \in Nat /\ i + 2 \in 2..n /\ i + 2 \in 2..n + 1 /\ i + 2 - 1 = i + 1 /\ i + 1 + 1 = i + 2 /\ i + 1 <= n
    OBVIOUS
  <2>2. F[i + 2] = Joined(F[i + 1], g[i + 2]) /\ G[i + 2] = Joined(G[i + 1], g[i + 2]) /\ F[i + 1] = G[i + 1]
    BY <1>4, <1>5, <2>1
  <2>. QED  BY <2>1, <2>2
<1>. HIDE DEF T
<1>8. T = Nat
  <2>1. T \in SUBSET Nat
    BY DEF T
  <2>. QED  BY <1>6, <1>7, <2>1, InductiveSet
<1>9. F[n] = G[n]
  <2>1. n - 1 \in T
    BY <1>8
  <2>. QED  BY <2>1 DEF T
<1>10. G[n + 1] = Joined(G[n], g[n + 1])
  BY <1>5
<1>. QED  BY <1>2, <1>4, <1>5, <1>9, <1>10 DEF t

(* The folds of the model: a page without its lost events, the events        *)
(* replayed, the chains built block by block.                               *)
KeptUpTo(page, lost, k, kept) == IF k \in lost THEN kept ELSE Append(kept, page[k])
ReplayedUpTo(sorted, k, s) == Stock!ReplayEvent(s, sorted[k].event)
ExtendedTo(n, chains) == UNION {Stock!Extend(c, n - 1) : c \in chains}
NoBlocks == {[m \in Stock!Blocks |-> Stock!Empty(0)]}

(* A page is served event by event.                                         *)
LEMMA OmitFold ==
  ASSUME NEW page, NEW lost, Len(page) \in Nat
  PROVE  \E F : /\ Stock!Omitting(page, lost) = F[Len(page)] /\ F[0] = <<>>
                /\ \A k \in 1..Len(page) : F[k] = KeptUpTo(page, lost, k, F[k - 1])
<1>. DEFINE Table(F, n) == F = [k \in 0..n |-> IF k = 0 THEN <<>> ELSE KeptUpTo(page, lost, k, F[k - 1])]
            T == {n \in Nat : \E F : Table(F, n)}
            F == CHOOSE f : Table(f, Len(page))
<1>1. 0 \in T
  <2>1. Table([k \in 0..0 |-> <<>>], 0)
    OBVIOUS
  <2>. HIDE DEF Table
  <2>. QED  BY <2>1
<1>2. ASSUME NEW n \in T PROVE n + 1 \in T
  <2>1. PICK f : Table(f, n)
    OBVIOUS
  <2>. DEFINE G == [k \in 0..n + 1 |-> IF k <= n THEN f[k] ELSE KeptUpTo(page, lost, k, f[n])]
  <2>2. \A k \in 0..n + 1 : G[k] = IF k = 0 THEN <<>> ELSE KeptUpTo(page, lost, k, G[k - 1])
    <3>. TAKE k \in 0..n + 1
    <3>1. CASE k <= n
      BY <2>1, <3>1
    <3>2. CASE k = n + 1
      BY <3>2
    <3>. QED  BY <3>1, <3>2
  <2>3. Table(G, n + 1)
    BY <2>2
  <2>. HIDE DEF Table, G
  <2>. QED  BY <2>3
<1>. HIDE DEF T
<1>3. Len(page) \in T
  <2>1. T \in SUBSET Nat
    BY DEF T
  <2>. QED  BY <1>1, <1>2, <2>1, InductiveSet
<1>4. Table(F, Len(page))
  <2>. HIDE DEF Table
  <2>. QED  BY <1>3 DEF T
<1>5. Stock!Omitting(page, lost) = F[Len(page)]
  BY Zenon DEF Stock!Omitting, KeptUpTo
<1>. HIDE DEF F
<1>6. F[0] = <<>> /\ \A k \in 1..Len(page) : F[k] = KeptUpTo(page, lost, k, F[k - 1])
  BY <1>4
<1>. QED  BY <1>5, <1>6

(* The log is replayed event by event.                                      *)
LEMMA ReplayFold ==
  ASSUME NEW logs, Len(logs) \in Nat
  PROVE  \E F : /\ Stock!Replay(logs) = F[Len(logs)] /\ F[0] = Stock!NoReplay
                /\ \A k \in 1..Len(logs) : F[k] = ReplayedUpTo(Stock!SortSeq(logs, Stock!Before), k, F[k - 1])
<1>. DEFINE Table(F, n) == F = [k \in 0..n |-> IF k = 0 THEN Stock!NoReplay ELSE ReplayedUpTo(Stock!SortSeq(logs, Stock!Before), k, F[k - 1])]
            T == {n \in Nat : \E F : Table(F, n)}
            F == CHOOSE f : Table(f, Len(logs))
<1>1. 0 \in T
  <2>1. Table([k \in 0..0 |-> Stock!NoReplay], 0)
    OBVIOUS
  <2>. HIDE DEF Table
  <2>. QED  BY <2>1
<1>2. ASSUME NEW n \in T PROVE n + 1 \in T
  <2>1. PICK f : Table(f, n)
    OBVIOUS
  <2>. DEFINE G == [k \in 0..n + 1 |-> IF k <= n THEN f[k] ELSE ReplayedUpTo(Stock!SortSeq(logs, Stock!Before), k, f[n])]
  <2>2. \A k \in 0..n + 1 : G[k] = IF k = 0 THEN Stock!NoReplay ELSE ReplayedUpTo(Stock!SortSeq(logs, Stock!Before), k, G[k - 1])
    <3>. TAKE k \in 0..n + 1
    <3>1. CASE k <= n
      BY <2>1, <3>1
    <3>2. CASE k = n + 1
      BY <3>2
    <3>. QED  BY <3>1, <3>2
  <2>3. Table(G, n + 1)
    BY <2>2
  <2>. HIDE DEF Table, G
  <2>. QED  BY <2>3
<1>. HIDE DEF T
<1>3. Len(logs) \in T
  <2>1. T \in SUBSET Nat
    BY DEF T
  <2>. QED  BY <1>1, <1>2, <2>1, InductiveSet
<1>4. Table(F, Len(logs))
  <2>. HIDE DEF Table
  <2>. QED  BY <1>3 DEF T
<1>5. Stock!Replay(logs) = F[Len(logs)]
  BY Zenon DEF Stock!Replay, ReplayedUpTo
<1>. HIDE DEF F
<1>6. F[0] = Stock!NoReplay /\ \A k \in 1..Len(logs) : F[k] = ReplayedUpTo(Stock!SortSeq(logs, Stock!Before), k, F[k - 1])
  BY <1>4
<1>. QED  BY <1>5, <1>6

(* The chains are built block by block.                                     *)
LEMMA ChainFold ==
  ASSUME (Height + 1) \in Nat
  PROVE  \E F : /\ Stock!Chains = F[(Height + 1)] /\ F[0] = NoBlocks
                /\ \A k \in 1..(Height + 1) : F[k] = ExtendedTo(k, F[k - 1])
<1>. DEFINE Table(F, n) == F = [k \in 0..n |-> IF k = 0 THEN NoBlocks ELSE ExtendedTo(k, F[k - 1])]
            T == {n \in Nat : \E F : Table(F, n)}
            F == CHOOSE f : Table(f, (Height + 1))
<1>1. 0 \in T
  <2>1. Table([k \in 0..0 |-> NoBlocks], 0)
    OBVIOUS
  <2>. HIDE DEF Table
  <2>. QED  BY <2>1
<1>2. ASSUME NEW n \in T PROVE n + 1 \in T
  <2>1. PICK f : Table(f, n)
    OBVIOUS
  <2>. DEFINE G == [k \in 0..n + 1 |-> IF k <= n THEN f[k] ELSE ExtendedTo(k, f[n])]
  <2>2. \A k \in 0..n + 1 : G[k] = IF k = 0 THEN NoBlocks ELSE ExtendedTo(k, G[k - 1])
    <3>. TAKE k \in 0..n + 1
    <3>1. CASE k <= n
      BY <2>1, <3>1
    <3>2. CASE k = n + 1
      BY <3>2
    <3>. QED  BY <3>1, <3>2
  <2>3. Table(G, n + 1)
    BY <2>2
  <2>. HIDE DEF Table, G
  <2>. QED  BY <2>3
<1>. HIDE DEF T
<1>3. (Height + 1) \in T
  <2>1. T \in SUBSET Nat
    BY DEF T
  <2>. QED  BY <1>1, <1>2, <2>1, InductiveSet
<1>4. Table(F, (Height + 1))
  <2>. HIDE DEF Table
  <2>. QED  BY <1>3 DEF T
<1>5. Stock!Chains = F[(Height + 1)]
  BY Zenon DEF Stock!Chains, ExtendedTo, NoBlocks
<1>. HIDE DEF F
<1>6. F[0] = NoBlocks /\ \A k \in 1..(Height + 1) : F[k] = ExtendedTo(k, F[k - 1])
  BY <1>4
<1>. QED  BY <1>5, <1>6

(* What a replay has reconstructed was mentioned by the log.                *)
IsReplay(s) ==
  /\ s = [f \in {"ok", "members", "seen", "admins", "impl", "paused", "blocked", "everBlocked", "control"} |-> s[f]]
  /\ s.members = [r \in Roles |-> s.members[r]] /\ s.seen = [r \in Roles |-> s.seen[r]]
Mentioned(s) == (\A r \in Roles : s.members[r] \subseteq s.seen[r]) /\ s.blocked \subseteq s.everBlocked

LEMMA ReplayStep ==
  ASSUME NEW s, NEW e, IsReplay(s), Mentioned(s)
  PROVE  IsReplay(Stock!ReplayEvent(s, e)) /\ Mentioned(Stock!ReplayEvent(s, e))
<1>. DEFINE t == Stock!ReplayEvent(s, e)
<1>1. CASE e.kind = "role-granted"
  <2>1. t = [s EXCEPT !.ok = @ /\ e.who \notin s.members[e.role], !.control = @ + 1,
                      !.members[e.role] = @ \cup {e.who}, !.seen[e.role] = @ \cup {e.who}]
    BY <1>1 DEF Stock!ReplayEvent
  <2>. HIDE DEF t
  <2>2. /\ IsReplay(t) /\ t.blocked = s.blocked /\ t.everBlocked = s.everBlocked
        /\ t.members = [s.members EXCEPT ![e.role] = @ \cup {e.who}]
        /\ t.seen = [s.seen EXCEPT ![e.role] = @ \cup {e.who}]
    BY <2>1 DEF IsReplay
  <2>3. Mentioned(t)
    BY <2>2 DEF IsReplay, Mentioned
  <2>. QED  BY <2>2, <2>3 DEF t
<1>2. CASE e.kind = "role-revoked"
  <2>1. t = [s EXCEPT !.ok = @ /\ e.who \in s.members[e.role], !.control = @ + 1,
                      !.members[e.role] = @ \ {e.who}, !.seen[e.role] = @ \cup {e.who}]
    BY <1>2 DEF Stock!ReplayEvent
  <2>. HIDE DEF t
  <2>2. /\ IsReplay(t) /\ t.blocked = s.blocked /\ t.everBlocked = s.everBlocked
        /\ t.members = [s.members EXCEPT ![e.role] = @ \ {e.who}]
        /\ t.seen = [s.seen EXCEPT ![e.role] = @ \cup {e.who}]
    BY <2>1 DEF IsReplay
  <2>3. Mentioned(t)
    BY <2>2 DEF IsReplay, Mentioned
  <2>. QED  BY <2>2, <2>3 DEF t
<1>3. CASE e.kind = "role-admin-changed"
  <2>1. t = [s EXCEPT !.ok = @ /\ s.admins[e.role] = e.previous, !.control = @ + 1, !.admins[e.role] = e.who]
    BY <1>3 DEF Stock!ReplayEvent
  <2>. HIDE DEF t
  <2>2. /\ IsReplay(t) /\ t.members = s.members /\ t.seen = s.seen
        /\ t.blocked = s.blocked /\ t.everBlocked = s.everBlocked
    BY <2>1 DEF IsReplay
  <2>. QED  BY <2>2 DEF Mentioned, t
<1>4. CASE e.kind = "blocked"
  <2>1. t = [s EXCEPT !.blocked = @ \cup {e.who}, !.everBlocked = @ \cup {e.who}]
    BY <1>4 DEF Stock!ReplayEvent
  <2>. HIDE DEF t
  <2>2. /\ IsReplay(t) /\ t.members = s.members /\ t.seen = s.seen
        /\ t.blocked = s.blocked \cup {e.who} /\ t.everBlocked = s.everBlocked \cup {e.who}
    BY <2>1 DEF IsReplay
  <2>. QED  BY <2>2 DEF Mentioned, t
<1>5. CASE e.kind = "unblocked"
  <2>1. t = [s EXCEPT !.blocked = @ \ {e.who}, !.everBlocked = @ \cup {e.who}]
    BY <1>5 DEF Stock!ReplayEvent
  <2>. HIDE DEF t
  <2>2. /\ IsReplay(t) /\ t.members = s.members /\ t.seen = s.seen
        /\ t.blocked = s.blocked \ {e.who} /\ t.everBlocked = s.everBlocked \cup {e.who}
    BY <2>1 DEF IsReplay
  <2>. QED  BY <2>2 DEF Mentioned, t
<1>6. CASE e.kind \notin {"role-granted", "role-revoked", "role-admin-changed", "blocked", "unblocked"}
  <2>1. t = [s EXCEPT !.impl = e.who] \/ t = [s EXCEPT !.paused = (e.kind = "paused")]
    BY <1>6 DEF Stock!ReplayEvent
  <2>. HIDE DEF t
  <2>2. /\ IsReplay(t) /\ t.members = s.members /\ t.seen = s.seen
        /\ t.blocked = s.blocked /\ t.everBlocked = s.everBlocked
    BY <2>1 DEF IsReplay
  <2>. QED  BY <2>2 DEF Mentioned, t
<1>. QED  BY <1>1, <1>2, <1>3, <1>4, <1>5, <1>6

LEMMA ReplayMentioned ==
  ASSUME NEW logs, Len(logs) \in Nat
  PROVE  Mentioned(Stock!Replay(logs))
<1>1. PICK F : /\ Stock!Replay(logs) = F[Len(logs)] /\ F[0] = Stock!NoReplay
               /\ \A k \in 1..Len(logs) : F[k] = ReplayedUpTo(Stock!SortSeq(logs, Stock!Before), k, F[k - 1])
  BY ReplayFold
<1>. DEFINE T == {k \in Nat : k <= Len(logs) => IsReplay(F[k]) /\ Mentioned(F[k])}
<1>2. IsReplay(Stock!NoReplay) /\ Mentioned(Stock!NoReplay)
  BY DEF Stock!NoReplay, IsReplay, Mentioned
<1>3. 0 \in T
  BY <1>1, <1>2
<1>4. ASSUME NEW k \in T PROVE k + 1 \in T
  <2>. SUFFICES ASSUME k + 1 <= Len(logs) PROVE IsReplay(F[k + 1]) /\ Mentioned(F[k + 1])
    OBVIOUS
  <2>1. k \in Nat /\ IsReplay(F[k]) /\ Mentioned(F[k]) /\ k + 1 \in 1..Len(logs) /\ k + 1 - 1 = k
    OBVIOUS
  <2>2. PICK e : F[k + 1] = Stock!ReplayEvent(F[k], e)
    <3>1. F[k + 1] = ReplayedUpTo(Stock!SortSeq(logs, Stock!Before), k + 1, F[k])
      BY <1>1, <2>1
    <3>. QED  BY <3>1, Zenon DEF ReplayedUpTo
  <2>. QED  BY <2>1, <2>2, ReplayStep
<1>. HIDE DEF T
<1>5. T = Nat
  <2>1. T \in SUBSET Nat
    BY DEF T
  <2>. QED  BY <1>3, <1>4, <2>1, InductiveSet
<1>. QED  BY <1>1, <1>5 DEF T

(* Events that a block may log, and blocks made by r reorganisations.       *)
Logged == Events \cup {Stock!Ev("upgraded", Nothing, i, Nothing) : i \in Impls}
                 \cup {Stock!Grant(r, a) : r \in {DefaultAdmin, BeaconUpgrader}, a \in Accounts}
Block(r) == [tag : 0..r, code : BOOLEAN, log : Seq(Logged), stopped : SUBSET Tokens]
IsChain(c, r) == c \in [Stock!Blocks -> Block(r)]

LEMMA CandidateTyped ==
  ASSUME Stock!StockCandidateAssumption, NEW r \in Nat, NEW c, IsChain(c, r), NEW n \in Stock!Blocks,
         NEW stamp \in Nat, NEW b \in Stock!Candidates(c, n, stamp)
  PROVE  b \in Block(stamp) /\ b.tag = stamp
<1>1. \A l \in Stock!DeploymentLogs : l \in Seq(Logged)
  <2>. TAKE l \in Stock!DeploymentLogs
  <2>2. PICK i \in Impls, a \in Accounts :
          l = Joined(Stock!BeaconDeployed(i), <<Stock!Grant(DefaultAdmin, a), Stock!Grant(BeaconUpgrader, a)>>)
    <3>. DEFINE Log(i, a) == Joined(Stock!BeaconDeployed(i), <<Stock!Grant(DefaultAdmin, a), Stock!Grant(BeaconUpgrader, a)>>)
    <3>1. Stock!DeploymentLogs = {Log(i, a) : i \in Impls, a \in Accounts}
      BY DEF Stock!DeploymentLogs, Joined
    <3>. HIDE DEF Log
    <3>2. \E i \in Impls, a \in Accounts : l = Log(i, a)
      BY <3>1
    <3>. QED  BY <3>2 DEF Log
  <2>3. /\ Stock!Ev("upgraded", Nothing, i, Nothing) \in Logged
        /\ Stock!Grant(DefaultAdmin, a) \in Logged /\ Stock!Grant(BeaconUpgrader, a) \in Logged
    BY DEF Logged
  <2>4. Stock!BeaconDeployed(i) \in Seq(Logged)
    BY <2>3 DEF Stock!BeaconDeployed
  <2>5. <<Stock!Grant(DefaultAdmin, a), Stock!Grant(BeaconUpgrader, a)>> \in Seq(Logged)
    BY <2>3
  <2>. HIDE DEF Logged
  <2>6. Joined(Stock!BeaconDeployed(i), <<Stock!Grant(DefaultAdmin, a), Stock!Grant(BeaconUpgrader, a)>>) \in Seq(Logged)
    BY <2>4, <2>5, ConcatProperties DEF Joined
  <2>. QED  BY <2>2, <2>6
<1>2. <<>> \in Seq(Logged) /\ \A e \in Events : <<e>> \in Seq(Logged)
  BY DEF Logged
<1>3. \A code \in BOOLEAN, l \in Seq(Logged), s \in SUBSET Tokens :
        [tag |-> stamp, code |-> code, log |-> l, stopped |-> s] \in [tag : {stamp}, code : BOOLEAN, log : Seq(Logged), stopped : SUBSET Tokens]
  OBVIOUS
<1>4. CASE n = 0 \/ ~c[n - 1].code
  <2>1. CASE b = Stock!Empty(stamp)
    BY <1>2, <1>3, <2>1 DEF Stock!Empty, Block
  <2>2. CASE \E l \in Stock!DeploymentLogs : b = [tag |-> stamp, code |-> TRUE, log |-> l, stopped |-> {}]
    BY <1>1, <1>3, <2>2 DEF Block
  <2>. QED  BY <1>4, <2>1, <2>2 DEF Stock!Candidates
<1>5. CASE ~(n = 0 \/ ~c[n - 1].code)
  <2>. DEFINE h == Stock!History(c, n - 1)
              before == c[n - 1].stopped
  <2>1. n - 1 \in Stock!Blocks
    BY <1>5 DEF Stock!Blocks, Stock!StockCandidateAssumption
  <2>2. before \in SUBSET Tokens
    BY <2>1 DEF IsChain, Block
  <2>. HIDE DEF h, before
  <2>3. CASE \E l \in {<<>>} \cup {<<e>> : e \in {x \in Events : Stock!Legal(h, x)}} :
               b = [tag |-> stamp, code |-> TRUE, log |-> l, stopped |-> before]
    <3>1. PICK l \in {<<>>} \cup {<<e>> : e \in {x \in Events : Stock!Legal(h, x)}} :
               b = [tag |-> stamp, code |-> TRUE, log |-> l, stopped |-> before]
      BY <2>3
    <3>2. l \in Seq(Logged)
      BY <1>2, <3>1, Zenon
    <3>. QED  BY <1>3, <2>2, <3>1, <3>2 DEF Block
  <2>4. CASE \E s \in {before \cup {t} : t \in Tokens} \cup {before \ {t} : t \in Tokens} :
               b = [tag |-> stamp, code |-> TRUE, log |-> <<>>, stopped |-> s]
    <3>1. PICK s \in {before \cup {t} : t \in Tokens} \cup {before \ {t} : t \in Tokens} :
               b = [tag |-> stamp, code |-> TRUE, log |-> <<>>, stopped |-> s]
      BY <2>4
    <3>2. s \in SUBSET Tokens
      BY <2>2, <3>1
    <3>. QED  BY <1>2, <1>3, <3>1, <3>2 DEF Block
  <2>. QED  BY <1>5, <2>3, <2>4 DEF Stock!Candidates, h, before
<1>. QED  BY <1>4, <1>5

LEMMA ChainsTyped ==
  ASSUME Stock!StockCandidateAssumption, NEW c \in Stock!Chains
  PROVE  IsChain(c, 0)
<1>1. Height \in Nat
  BY DEF Stock!StockCandidateAssumption
<1>2. PICK F : /\ Stock!Chains = F[Height + 1] /\ F[0] = NoBlocks
               /\ \A k \in 1..Height + 1 : F[k] = ExtendedTo(k, F[k - 1])
  BY <1>1, ChainFold
<1>. DEFINE T == {k \in Nat : k <= Height + 1 => \A d \in F[k] : IsChain(d, 0)}
<1>3. 0 \in T
  <2>1. Stock!Empty(0) \in Block(0)
    BY DEF Stock!Empty, Block
  <2>. QED  BY <1>2, <2>1 DEF NoBlocks, IsChain
<1>4. ASSUME NEW k \in T PROVE k + 1 \in T
  <2>. SUFFICES ASSUME k + 1 <= Height + 1, NEW d \in F[k + 1] PROVE IsChain(d, 0)
    OBVIOUS
  <2>1. k \in Nat /\ k \in Stock!Blocks /\ k + 1 \in 1..Height + 1 /\ k + 1 - 1 = k /\ \A e \in F[k] : IsChain(e, 0)
    BY <1>1 DEF Stock!Blocks
  <2>2. PICK e \in F[k] : d \in Stock!Extend(e, k)
    BY <1>2, <2>1 DEF ExtendedTo
  <2>3. PICK b \in Stock!Candidates(e, k, 0) : d = [e EXCEPT ![k] = b]
    BY <2>2 DEF Stock!Extend
  <2>4. b \in Block(0)
    BY <2>1, CandidateTyped
  <2>. QED  BY <2>1, <2>3, <2>4 DEF IsChain
<1>. HIDE DEF T
<1>5. T = Nat
  <2>1. T \in SUBSET Nat
    BY DEF T
  <2>. QED  BY <1>3, <1>4, <2>1, InductiveSet
<1>. QED  BY <1>1, <1>2, <1>5 DEF T

(* What the endpoint serves.                                                *)
LogEntry == [block : Stock!Blocks, tag : Nat, index : Nat, event : Logged]

LEMMA LogsTyped ==
  ASSUME NEW r \in Nat, NEW c, IsChain(c, r), NEW n \in Stock!Blocks
  PROVE  Stock!LogsOf(c, n) \in Seq(LogEntry)
<1>. DEFINE log == c[n].log
<1>1. log \in Seq(Logged) /\ c[n].tag \in Nat
  BY DEF IsChain, Block
<1>2. Stock!LogsOf(c, n) = [k \in 1..Len(log) |-> [block |-> n, tag |-> c[n].tag, index |-> k, event |-> log[k]]]
  BY <1>1, LenProperties DEF Stock!LogsOf
<1>. HIDE DEF log
<1>3. Len(log) \in Nat /\ \A k \in 1..Len(log) : log[k] \in Logged
  BY <1>1, ElementOfSeq
<1>4. \A k \in 1..Len(log) : [block |-> n, tag |-> c[n].tag, index |-> k, event |-> log[k]] \in LogEntry
  BY <1>1, <1>3 DEF LogEntry
<1>. QED  BY <1>2, <1>3, <1>4, SMT

LEMMA ServedStep ==
  ASSUME Height \in Nat, NEW c, NEW from \in Stock!Blocks
  PROVE  /\ Stock!Served(c, from, from) = Stock!LogsOf(c, from)
         /\ \A to \in from..Height - 1 :
              Stock!Served(c, from, to + 1) = Joined(Stock!Served(c, from, to), Stock!LogsOf(c, to + 1))
<1>. DEFINE g == [i \in Nat |-> Stock!LogsOf(c, from + i - 1)]
<1>0. from \in 0..Height
  BY DEF Stock!Blocks
<1>1. ASSUME NEW to \in from..Height
      PROVE  Stock!Served(c, from, to) = Stock!FlattenSeq([i \in 1..to - from + 1 |-> g[i]])
  <2>1. to - from + 1 \in Nat /\ ~(from > to \/ to > Height)
    BY <1>0
  <2>2. [i \in 1..to - from + 1 |-> g[i]] = [i \in 1..(to - from + 1) |-> Stock!LogsOf(c, from + i - 1)]
    BY <2>1
  <2>. QED  BY <2>1, <2>2 DEF Stock!Served
<1>2. g[1] = Stock!LogsOf(c, from) /\ \A to \in from..Height - 1 : g[to - from + 1 + 1] = Stock!LogsOf(c, to + 1)
  BY <1>0
<1>. HIDE DEF g
<1>3. Stock!Served(c, from, from) = Stock!LogsOf(c, from)
  <2>1. from \in from..Height /\ from - from + 1 = 1 /\ 1 \in Nat \ {0}
    BY <1>0
  <2>2. Stock!FlattenSeq([i \in 1..1 |-> g[i]]) = g[1]
    BY <2>1, FlattenStep
  <2>. QED  BY <1>1, <1>2, <2>1, <2>2
<1>4. ASSUME NEW to \in from..Height - 1
      PROVE  Stock!Served(c, from, to + 1) = Joined(Stock!Served(c, from, to), Stock!LogsOf(c, to + 1))
  <2>. DEFINE n == to - from + 1
  <2>1. /\ to \in from..Height /\ to + 1 \in from..Height
        /\ n \in Nat \ {0} /\ to + 1 - from + 1 = n + 1
    BY <1>0
  <2>2. Stock!FlattenSeq([i \in 1..n + 1 |-> g[i]]) = Joined(Stock!FlattenSeq([i \in 1..n |-> g[i]]), g[n + 1])
    <3>. HIDE DEF n
    <3>. QED  BY <2>1, FlattenStep
  <2>3. g[n + 1] = Stock!LogsOf(c, to + 1)
    BY <1>2
  <2>4. Stock!Served(c, from, to) = Stock!FlattenSeq([i \in 1..n |-> g[i]])
    BY <1>1, <2>1
  <2>5. Stock!Served(c, from, to + 1) = Stock!FlattenSeq([i \in 1..n + 1 |-> g[i]])
    <3>1. Stock!Served(c, from, to + 1) = Stock!FlattenSeq([i \in 1..(to + 1) - from + 1 |-> g[i]])
      BY <1>1, <2>1
    <3>2. (to + 1) - from + 1 = n + 1
      BY <1>0
    <3>. HIDE DEF n
    <3>. QED  BY <3>1, <3>2, Zenon
  <2>. QED  BY <2>2, <2>3, <2>4, <2>5
<1>. QED  BY <1>3, <1>4

LEMMA ServedTyped ==
  ASSUME Height \in Nat, NEW r \in Nat, NEW c, IsChain(c, r), NEW from \in Nat, NEW to \in Int
  PROVE  Stock!Served(c, from, to) \in Seq(LogEntry)
<1>1. CASE from > to \/ to > Height
  BY <1>1 DEF Stock!Served
<1>2. CASE ~(from > to \/ to > Height)
  <2>. DEFINE T == {n \in Nat : from + n <= Height => Stock!Served(c, from, from + n) \in Seq(LogEntry)}
  <2>1. from \in Stock!Blocks /\ to - from \in Nat /\ from + (to - from) = to /\ to <= Height
    BY <1>2 DEF Stock!Blocks
  <2>2. 0 \in T
    BY <2>1, ServedStep, LogsTyped
  <2>3. ASSUME NEW n \in T PROVE n + 1 \in T
    <3>. SUFFICES ASSUME from + (n + 1) <= Height PROVE Stock!Served(c, from, from + (n + 1)) \in Seq(LogEntry)
      OBVIOUS
    <3>1. /\ n \in Nat /\ Stock!Served(c, from, from + n) \in Seq(LogEntry)
          /\ from + n \in from..Height - 1 /\ from + n + 1 = from + (n + 1) /\ from + (n + 1) \in Stock!Blocks
      BY DEF Stock!Blocks
    <3>2. Stock!Served(c, from, from + (n + 1)) = Joined(Stock!Served(c, from, from + n), Stock!LogsOf(c, from + (n + 1)))
      BY <2>1, <3>1, ServedStep
    <3>3. Stock!LogsOf(c, from + (n + 1)) \in Seq(LogEntry)
      BY <3>1, LogsTyped
    <3>. QED  BY <3>1, <3>2, <3>3, ConcatProperties DEF Joined
  <2>. HIDE DEF T
  <2>4. T = Nat
    <3>1. T \in SUBSET Nat
      BY DEF T
    <3>. QED  BY <2>2, <2>3, <3>1, InductiveSet
  <2>. QED  BY <2>1, <2>4 DEF T
<1>. QED  BY <1>1, <1>2

(* What is served of a range continues what is served of the range before.  *)
LEMMA ServedJoin ==
  ASSUME Height \in Nat, NEW r \in Nat, NEW c, IsChain(c, r),
         NEW low \in Stock!Blocks, NEW from \in Stock!Blocks, NEW to \in Stock!Blocks,
         low <= from, from <= to
  PROVE  Joined(Stock!Served(c, low, from - 1), Stock!Served(c, from, to)) = Stock!Served(c, low, to)
<1>0. low \in 0..Height /\ from \in 0..Height /\ to \in 0..Height
  BY DEF Stock!Blocks
<1>1. CASE low = from
  <2>1. Stock!Served(c, low, from - 1) = <<>>
    BY <1>0, <1>1 DEF Stock!Served
  <2>. DEFINE u == Stock!Served(c, from, to)
  <2>2. u \in Seq(LogEntry)
    BY <1>0, ServedTyped
  <2>. HIDE DEF u
  <2>3. Joined(<<>>, u) = u
    BY <2>2, ConcatEmptySeq DEF Joined
  <2>. QED  BY <1>1, <2>1, <2>3 DEF u
<1>2. CASE low < from
  <2>. DEFINE s == Stock!Served(c, low, from - 1)
              J(n) == Joined(s, Stock!Served(c, from, from + n)) = Stock!Served(c, low, from + n)
              T == {n \in Nat : from + n <= Height => J(n)}
  <2>1. to - from \in Nat /\ from + (to - from) = to
    BY <1>0
  <2>2. 0 \in T
    <3>1. from - 1 \in low..Height - 1 /\ from - 1 + 1 = from
      BY <1>0, <1>2
    <3>2. Stock!Served(c, low, from) = Joined(s, Stock!LogsOf(c, from))
      BY <3>1, ServedStep
    <3>3. Stock!Served(c, from, from) = Stock!LogsOf(c, from) /\ from + 0 = from
      BY <1>0, ServedStep
    <3>. HIDE DEF s
    <3>4. J(0)
      BY <3>2, <3>3
    <3>. HIDE DEF J
    <3>. QED  BY <3>4
  <2>3. ASSUME NEW n \in T PROVE n + 1 \in T
    <3>. SUFFICES ASSUME from + (n + 1) <= Height
                  PROVE  Joined(s, Stock!Served(c, from, from + (n + 1))) = Stock!Served(c, low, from + (n + 1))
      OBVIOUS
    <3>. DEFINE u == Stock!Served(c, from, from + n)
                l == Stock!LogsOf(c, from + (n + 1))
    <3>1. /\ n \in Nat /\ Joined(s, u) = Stock!Served(c, low, from + n)
          /\ from + n \in from..Height - 1 /\ from + n \in low..Height - 1
          /\ from + n + 1 = from + (n + 1) /\ from + (n + 1) \in Stock!Blocks
      BY <1>0 DEF Stock!Blocks
    <3>2. Stock!Served(c, from, from + (n + 1)) = Joined(u, l) /\ Stock!Served(c, low, from + (n + 1)) = Joined(Joined(s, u), l)
      BY <3>1, ServedStep
    <3>3. s \in Seq(LogEntry) /\ u \in Seq(LogEntry) /\ l \in Seq(LogEntry)
      BY <1>0, <3>1, ServedTyped, LogsTyped
    <3>. HIDE DEF s, u, l
    <3>4. Joined(Joined(s, u), l) = Joined(s, Joined(u, l))
      BY <3>3, JoinedAssociative
    <3>. QED  BY <3>2, <3>4
  <2>. HIDE DEF T
  <2>4. T = Nat
    <3>1. T \in SUBSET Nat
      BY DEF T
    <3>. QED  BY <2>2, <2>3, <3>1, InductiveSet
  <2>5. J(to - from)
    <3>. HIDE DEF J
    <3>. QED  BY <1>0, <2>1, <2>4 DEF T
  <2>. QED  BY <2>1, <2>5, Zenon
<1>. QED  BY <1>0, <1>1, <1>2

(* A page of which nothing is lost is served as it is.                      *)
LEMMA OmittingTyped ==
  ASSUME NEW S, NEW page \in Seq(S), NEW lost
  PROVE  Stock!Omitting(page, lost) \in Seq(S) /\ (lost = {} => Stock!Omitting(page, lost) = page)
<1>0. Len(page) \in Nat
  BY LenProperties
<1>1. PICK F : /\ Stock!Omitting(page, lost) = F[Len(page)] /\ F[0] = <<>>
               /\ \A k \in 1..Len(page) : F[k] = KeptUpTo(page, lost, k, F[k - 1])
  BY <1>0, OmitFold
<1>. DEFINE T == {k \in Nat : k <= Len(page) => F[k] \in Seq(S) /\ (lost = {} => F[k] = SubSeq(page, 1, k))}
<1>2. 0 \in T
  <2>1. F[0] \in Seq(S)
    BY <1>1, EmptySeq
  <2>2. SubSeq(page, 1, 0) = F[0]
    BY <1>1, SubSeqEmpty
  <2>. QED  BY <2>1, <2>2
<1>3. ASSUME NEW k \in T PROVE k + 1 \in T
  <2>. SUFFICES ASSUME k + 1 <= Len(page)
                PROVE  F[k + 1] \in Seq(S) /\ (lost = {} => F[k + 1] = SubSeq(page, 1, k + 1))
    OBVIOUS
  <2>1. /\ k \in Nat /\ F[k] \in Seq(S) /\ (lost = {} => F[k] = SubSeq(page, 1, k))
        /\ k + 1 \in 1..Len(page) /\ k + 1 - 1 = k /\ 1 \in 1..Len(page)
    BY <1>0
  <2>2. page[k + 1] \in S
    BY <2>1, ElementOfSeq
  <2>3. F[k + 1] = IF k + 1 \in lost THEN F[k] ELSE Append(F[k], page[k + 1])
    BY <1>1, <2>1 DEF KeptUpTo
  <2>4. F[k + 1] \in Seq(S)
    BY <2>1, <2>2, <2>3, AppendProperties
  <2>5. SubSeq(page, 1, k + 1) = Append(SubSeq(page, 1, k), page[k + 1])
    BY <2>1
  <2>. QED  BY <2>1, <2>3, <2>4, <2>5
<1>. HIDE DEF T
<1>4. T = Nat
  <2>1. T \in SUBSET Nat
    BY DEF T
  <2>. QED  BY <1>2, <1>3, <2>1, InductiveSet
<1>5. F[Len(page)] \in Seq(S) /\ (lost = {} => F[Len(page)] = SubSeq(page, 1, Len(page)))
  BY <1>0, <1>4 DEF T
<1>. QED  BY <1>1, <1>5, SubSeqFull

(* Every reorganisation replaces the pinned block: the tag of that block    *)
(* counts them.  So while the hash that was read first is the block's,      *)
(* nothing was reorganised since, the chain is the branch that is named     *)
(* and what was read live was read of it.  The comparison makes this true   *)
(* for good: what is reorganised afterwards changes neither what was read   *)
(* nor the branch that is named.                                            *)
ChainSound == reorgs \in Nat /\ IsChain(chain, reorgs) /\ chain[Height].tag = reorgs

Hashed == pc \in {"finalCode", "finalImplementation", "finalPaused", "finalAssets", "done"}
Replayed == Hashed \/ pc = "crosscheck"
BeaconRead == Replayed \/ pc \in {"search", "created", "logs", "headers"}
ImplRead == BeaconRead \/ pc = "paused"
Reading == ImplRead \/ pc \in {"assets", "implementation"}
Unchanged == Reading /\ read.hash = reorgs

ReadOfNamed ==
  /\ read.verified \cap named[Height].stopped = {}
  /\ ImplRead => read.impl = Stock!Implementation(Stock!History(named, Height))
  /\ BeaconRead => ~Stock!Paused(Stock!History(named, Height))
  /\ \A q \in read.agreed : Stock!Agrees(Stock!History(named, Height), read.replayed, q)

ReadSound ==
  /\ read = [f \in {"hash", "verified", "impl", "low", "high", "headers", "replayed", "agreed", "final"} |-> read[f]]
  /\ read.verified \subseteq listed /\ listed \subseteq Tokens
  /\ read.hash \in 0..reorgs
  /\ read.low \in Stock!Blocks /\ read.high \in Stock!Blocks /\ read.low <= read.high
  /\ Reading => named[Height].tag = read.hash /\ named[Height].stopped \subseteq Tokens
  /\ Unchanged => chain = named
  /\ Hashed \/ Unchanged => ReadOfNamed
  /\ Reading /\ pc # "assets" => read.verified = Tokens
  /\ ~Reading => read.verified = {}
  /\ ~Replayed => read.agreed = {}
  /\ Replayed => Mentioned(read.replayed) /\ read.replayed.impl = read.impl
  /\ Hashed => Stock!Calls \subseteq read.agreed

Left == IF ranges = <<>> THEN Height + 1 ELSE ranges[1][1]

Contiguous ==
  /\ \A i \in 1..Len(ranges) : ranges[i][1] <= ranges[i][2]
  /\ \A i \in 1..Len(ranges) - 1 : ranges[i][2] + 1 = ranges[i + 1][1]
  /\ ranges # <<>> => ranges[Len(ranges)][2] = Height

NoLogsYet == pc \in {"start", "assets", "implementation", "paused", "search", "created"}

LogsSound ==
  /\ ranges \in Seq(Stock!Blocks \X Stock!Blocks) /\ rawLogs \in Seq(LogEntry)
  /\ NoLogsYet => rawLogs = <<>>
  /\ pc = "logs" =>
       /\ Contiguous /\ read.low <= Left
       /\ reorgs = 0 /\ ~Lossy => rawLogs = Stock!Served(chain, read.low, Left - 1)

StockInv == ChainSound /\ ReadSound /\ LogsSound

LEMMA StockInit ==
  ASSUME Stock!StockCandidateAssumption, Stock!Init
  PROVE  StockInv
<1>1. Height \in Nat
  BY DEF Stock!StockCandidateAssumption
<1>2. /\ chain \in Stock!Chains /\ reorgs = 0 /\ pc = "start" /\ ranges = <<>> /\ rawLogs = <<>>
      /\ listed \subseteq Tokens /\ read = Stock!NothingRead
  BY DEF Stock!Init
<1>3. ChainSound
  <2>1. IsChain(chain, 0)
    BY <1>2, ChainsTyped
  <2>2. Height \in Stock!Blocks
    BY <1>1 DEF Stock!Blocks
  <2>3. chain[Height].tag = 0
    BY <2>1, <2>2 DEF IsChain, Block
  <2>. QED  BY <1>2, <2>1, <2>3 DEF ChainSound
<1>4. /\ read = [f \in {"hash", "verified", "impl", "low", "high", "headers", "replayed", "agreed", "final"} |-> read[f]]
      /\ read.verified = {} /\ read.hash = 0 /\ read.low = 0 /\ read.high = 0 /\ read.agreed = {}
  BY <1>2 DEF Stock!NothingRead
<1>5. 0 \in Stock!Blocks /\ ~Reading /\ ~Replayed /\ ~Hashed /\ pc # "logs"
  BY <1>1, <1>2 DEF Stock!Blocks, Reading, ImplRead, BeaconRead, Replayed, Hashed
<1>6. ReadSound
  BY <1>2, <1>4, <1>5 DEF ReadSound, Unchanged
<1>7. LogsSound
  BY <1>2, <1>5, EmptySeq DEF LogsSound
<1>. QED  BY <1>3, <1>6, <1>7 DEF StockInv

(* A refusal leaves nothing of what was read.                               *)
LEMMA RefusedSound ==
  ASSUME Stock!StockCandidateAssumption, StockInv, Stock!Refused
  PROVE  StockInv'
<1>1. /\ UNCHANGED <<chain, reorgs, listed, named>> /\ pc' = "failed"
      /\ read' = Stock!NothingRead /\ ranges' = <<>> /\ rawLogs' = <<>>
  BY DEF Stock!Refused, Stock!Then
<1>2. ChainSound'
  BY <1>1 DEF StockInv, ChainSound
<1>3. /\ read' = [f \in {"hash", "verified", "impl", "low", "high", "headers", "replayed", "agreed", "final"} |-> read'[f]]
      /\ read'.verified = {} /\ read'.hash = 0 /\ read'.low = 0 /\ read'.high = 0 /\ read'.agreed = {}
  BY <1>1 DEF Stock!NothingRead
<1>4. /\ 0 \in Stock!Blocks /\ reorgs \in Nat /\ listed \subseteq Tokens
      /\ ~Reading' /\ ~Replayed' /\ ~Hashed' /\ pc' # "logs"
  BY <1>1 DEF Stock!StockCandidateAssumption, StockInv, ChainSound, ReadSound, Stock!Blocks, Reading, ImplRead,
              BeaconRead, Replayed, Hashed
<1>5. ReadSound'
  BY <1>1, <1>3, <1>4 DEF ReadSound, Unchanged
<1>6. LogsSound'
  BY <1>1, <1>4, EmptySeq DEF LogsSound
<1>. QED  BY <1>2, <1>5, <1>6 DEF StockInv

(* A step that reads nothing into the record: it passes the comparison of   *)
(* the hash only with the hash and with all calls answered as replayed.     *)
LEMMA ReadKept ==
  ASSUME ChainSound, ReadSound, UNCHANGED <<chain, reorgs, listed, named, read>>, Reading, Reading',
         ImplRead' => ImplRead, BeaconRead' => BeaconRead, Replayed' <=> Replayed,
         Hashed' => Hashed \/ (chain[Height].tag = read.hash /\ Stock!Calls \subseteq read.agreed),
         pc' # "assets" => read.verified = Tokens
  PROVE  ReadSound'
<1>1. Unchanged' = Unchanged /\ Stock!Calls' = Stock!Calls
  BY DEF Unchanged, Stock!Calls, Stock!BlockedCalls, Stock!RoleCalls
<1>2. Hashed' \/ Unchanged' => ReadOfNamed
  BY <1>1 DEF ReadSound, ChainSound, Unchanged
<1>3. Hashed' \/ Unchanged' => ReadOfNamed'
  BY <1>2 DEF ReadOfNamed
<1>4. Hashed' => Stock!Calls' \subseteq read'.agreed
  BY <1>1 DEF ReadSound
<1>. QED  BY <1>1, <1>3, <1>4 DEF ReadSound

LEMMA LogsKept ==
  ASSUME LogsSound, UNCHANGED <<chain, reorgs, ranges, rawLogs>>, read'.low = read.low,
         NoLogsYet' => NoLogsYet, pc' = "logs" => pc = "logs"
  PROVE  LogsSound'
BY DEF LogsSound, Contiguous, Left

LEMMA ReorganiseSound ==
  ASSUME Stock!StockCandidateAssumption, StockInv, Stock!Reorganise
  PROVE  StockInv'
<1>1. /\ Height \in Nat /\ Height \in Stock!Blocks
      /\ reorgs \in Nat /\ reorgs' = reorgs + 1 /\ pc \notin {"done", "failed"}
      /\ UNCHANGED <<listed, pc, read, ranges, rawLogs, named>>
  BY DEF Stock!StockCandidateAssumption, StockInv, ChainSound, Stock!Reorganise, Stock!Blocks
<1>. DEFINE Replaced(n, b) == chain' = [m \in Stock!Blocks |-> IF m < n THEN chain[m] ELSE IF m = n THEN b
                                                             ELSE [b EXCEPT !.log = <<>>]]
<1>a. PICK n \in Stock!Blocks : \E b \in Stock!Candidates(chain, n, reorgs + 1) : Replaced(n, b)
  BY DEF Stock!Reorganise
<1>2. PICK b \in Stock!Candidates(chain, n, reorgs + 1) : Replaced(n, b)
  BY <1>a
<1>3. b \in Block(reorgs + 1) /\ b.tag = reorgs + 1
  <2>1. reorgs + 1 \in Nat /\ IsChain(chain, reorgs)
    BY <1>1 DEF StockInv, ChainSound
  <2>. QED  BY <1>1, <1>2, <2>1, CandidateTyped
<1>4. [b EXCEPT !.log = <<>>] \in Block(reorgs + 1) /\ [b EXCEPT !.log = <<>>].tag = reorgs + 1
  <2>1. <<>> \in Seq(Logged)
    BY EmptySeq
  <2>. HIDE DEF Logged
  <2>. QED  BY <1>3, <2>1 DEF Block
<1>5. \A m \in Stock!Blocks : chain[m] \in Block(reorgs + 1)
  <2>. TAKE m \in Stock!Blocks
  <2>1. chain[m] \in Block(reorgs)
    BY DEF StockInv, ChainSound, IsChain
  <2>2. 0..reorgs \subseteq 0..reorgs + 1
    BY <1>1
  <2>. QED  BY <2>1, <2>2 DEF Block
<1>6. ChainSound'
  <2>1. IsChain(chain', reorgs')
    BY <1>1, <1>2, <1>3, <1>4, <1>5 DEF IsChain
  <2>2. chain'[Height].tag = reorgs'
    <3>1. ~(Height < n)
      BY <1>1 DEF Stock!Blocks
    <3>. QED  BY <1>1, <1>2, <1>3, <1>4, <3>1
  <2>. QED  BY <1>1, <2>1, <2>2 DEF ChainSound
<1>7. ReadSound'
  <2>1. /\ (Reading' <=> Reading) /\ (ImplRead' <=> ImplRead) /\ (BeaconRead' <=> BeaconRead) /\ (Replayed' <=> Replayed)
        /\ (Hashed' <=> Hashed) /\ Stock!Calls' = Stock!Calls
    BY <1>1 DEF Reading, ImplRead, BeaconRead, Replayed, Hashed, Stock!Calls, Stock!BlockedCalls, Stock!RoleCalls
  <2>2. ~Unchanged' /\ read.hash \in 0..reorgs'
    BY <1>1 DEF StockInv, ReadSound, Unchanged
  <2>3. ReadOfNamed' = ReadOfNamed
    BY <1>1, <2>1 DEF ReadOfNamed
  <2>. QED  BY <1>1, <2>1, <2>2, <2>3 DEF StockInv, ReadSound
<1>8. LogsSound'
  BY <1>1 DEF StockInv, LogsSound, Contiguous, Left, NoLogsYet
<1>. QED  BY <1>6, <1>7, <1>8 DEF StockInv

LEMMA Middle ==
  ASSUME NEW a \in Nat, NEW b \in Nat, a < b
  PROVE  (a + b) \div 2 \in Nat /\ a <= (a + b) \div 2 /\ (a + b) \div 2 < b
OBVIOUS

(* The actions that only move on.                                           *)
LEMMA StockMoves ==
  ASSUME Stock!StockCandidateAssumption, StockInv,
         \/ Stock!ReadBeaconCode \/ Stock!CheckCreated \/ Stock!CheckPositions \/ Stock!FinalBlock
         \/ Stock!FinalBeaconCode \/ Stock!FinalImplementation \/ Stock!FinalBeaconPaused
         \/ Stock!RequestFails \/ UNCHANGED Stock!vars
  PROVE  StockInv'
<1>. DEFINE Moves(from, to) == pc = from /\ pc' = to /\ UNCHANGED <<chain, reorgs, listed, named, read, ranges, rawLogs>>
<1>1. CASE Stock!Refused
  BY <1>1, RefusedSound
<1>2. CASE UNCHANGED Stock!vars
  <2>1. UNCHANGED <<chain, reorgs, listed, pc, read, ranges, rawLogs, named>>
    BY <1>2 DEF Stock!vars
  <2>2. ChainSound' /\ LogsSound'
    BY <2>1 DEF StockInv, ChainSound, LogsSound, NoLogsYet, Contiguous, Left
  <2>3. ReadSound'
    BY <2>1 DEF StockInv, ReadSound, ReadOfNamed, Unchanged, Reading, ImplRead, BeaconRead, Replayed, Hashed,
                Stock!Calls, Stock!BlockedCalls, Stock!RoleCalls
  <2>. QED  BY <2>2, <2>3 DEF StockInv
<1>3. CASE \/ Moves("assets", "implementation") /\ read.verified = Tokens
           \/ Moves("search", "created") \/ Moves("logs", "headers")
           \/ Moves("crosscheck", "finalCode") /\ chain[Height].tag = read.hash /\ Stock!Calls \subseteq read.agreed
           \/ Moves("finalCode", "finalImplementation") \/ Moves("finalImplementation", "finalPaused")
           \/ Moves("finalPaused", "finalAssets")
  <2>1. UNCHANGED <<chain, reorgs, listed, named, read, ranges, rawLogs>>
    BY <1>3
  <2>2. /\ Reading /\ Reading' /\ (ImplRead' => ImplRead) /\ (BeaconRead' => BeaconRead) /\ (Replayed' <=> Replayed)
        /\ Hashed' => Hashed \/ (chain[Height].tag = read.hash /\ Stock!Calls \subseteq read.agreed)
        /\ (NoLogsYet' => NoLogsYet) /\ pc' # "logs" /\ pc' # "assets"
        /\ pc = "assets" => read.verified = Tokens
    BY <1>3 DEF Reading, ImplRead, BeaconRead, Replayed, Hashed, NoLogsYet
  <2>3. read.verified = Tokens
    BY <2>2 DEF StockInv, ReadSound
  <2>4. ReadSound'
    BY <2>1, <2>2, <2>3, ReadKept DEF StockInv
  <2>5. LogsSound'
    BY <2>1, <2>2, LogsKept DEF StockInv
  <2>6. ChainSound'
    BY <2>1 DEF StockInv, ChainSound
  <2>. QED  BY <2>4, <2>5, <2>6 DEF StockInv
<1>. HIDE DEF Moves
<1>4. Stock!Keeping("implementation") /\ pc = "assets" => Moves("assets", "implementation")
  BY DEF Moves, Stock!Keeping, Stock!Then
<1>5. Stock!Keeping("created") /\ pc = "search" => Moves("search", "created")
  BY DEF Moves, Stock!Keeping, Stock!Then
<1>6. Stock!Keeping("headers") /\ pc = "logs" => Moves("logs", "headers")
  BY DEF Moves, Stock!Keeping, Stock!Then
<1>7. Stock!Keeping("finalCode") /\ pc = "crosscheck" => Moves("crosscheck", "finalCode")
  BY DEF Moves, Stock!Keeping, Stock!Then
<1>8. Stock!Keeping("finalImplementation") /\ pc = "finalCode" => Moves("finalCode", "finalImplementation")
  BY DEF Moves, Stock!Keeping, Stock!Then
<1>9. Stock!Keeping("finalPaused") /\ pc = "finalImplementation" => Moves("finalImplementation", "finalPaused")
  BY DEF Moves, Stock!Keeping, Stock!Then
<1>10. Stock!Keeping("finalAssets") /\ pc = "finalPaused" => Moves("finalPaused", "finalAssets")
  BY DEF Moves, Stock!Keeping, Stock!Then
<1>. QED  BY <1>1, <1>2, <1>3, <1>4, <1>5, <1>6, <1>7, <1>8, <1>9, <1>10
          DEF Stock!ReadBeaconCode, Stock!CheckCreated, Stock!CheckPositions, Stock!FinalBlock, Stock!AllAgreed,
              Stock!FinalBeaconCode, Stock!FinalImplementation, Stock!FinalBeaconPaused, Stock!RequestFails,
              Stock!At, Stock!Pinned

(* A step that reads more, of the branch that is named if nothing was       *)
(* reorganised.                                                             *)
LEMMA ReadMore ==
  ASSUME ChainSound, ReadSound, UNCHANGED <<chain, reorgs, listed, named>>, Reading, Reading',
         read' = [f \in {"hash", "verified", "impl", "low", "high", "headers", "replayed", "agreed", "final"} |-> read'[f]],
         read'.hash = read.hash, read'.verified \subseteq listed,
         read'.low \in Stock!Blocks, read'.high \in Stock!Blocks, read'.low <= read'.high,
         Hashed' <=> Hashed, (Hashed \/ chain = named) /\ ReadOfNamed => ReadOfNamed',
         pc' # "assets" => read'.verified = Tokens, ~Replayed' => read'.agreed = {},
         Replayed' => Mentioned(read'.replayed) /\ read'.replayed.impl = read'.impl,
         Hashed => read'.replayed = read.replayed /\ read'.agreed = read.agreed
  PROVE  ReadSound'
<1>1. Unchanged' = Unchanged
  BY DEF Unchanged
<1>2. Hashed => Stock!Calls' = Stock!Calls
  BY DEF Stock!Calls, Stock!BlockedCalls, Stock!RoleCalls
<1>3. Hashed' \/ Unchanged' => ReadOfNamed'
  BY <1>1 DEF ReadSound
<1>. QED  BY <1>1, <1>2, <1>3 DEF ReadSound, Stock!Blocks

(* The actions that read something into the record.                         *)
LEMMA StockReads ==
  ASSUME Stock!StockCandidateAssumption, StockInv,
         \/ Stock!ReadPinnedBlock \/ (\E t \in Tokens : Stock!VerifyAsset(t) \/ Stock!FinalAsset(t))
         \/ Stock!ReadImplementation \/ Stock!ReadBeaconPaused \/ Stock!SearchCreation
         \/ (\E n \in Stock!Blocks : Stock!ReadEventBlock(n)) \/ Stock!Reconstruct
         \/ (\E q \in Stock!Calls : Stock!CrossCheck(q))
  PROVE  StockInv'
<1>. USE DEF StockInv, Stock!At, Stock!Then
<1>1. Height \in Nat /\ Height \in Stock!Blocks
  BY DEF Stock!StockCandidateAssumption, Stock!Blocks
<1>2. CASE Stock!Refused
  BY <1>2, RefusedSound
<1>3. CASE Stock!ReadPinnedBlock
  <2>1. /\ pc = "start" /\ pc' = "assets" /\ named' = chain /\ read' = [read EXCEPT !.hash = chain[Height].tag]
        /\ UNCHANGED <<chain, reorgs, listed, ranges, rawLogs>>
    BY <1>3 DEF Stock!ReadPinnedBlock, Stock!Pinned
  <2>2. Reading' /\ ~ImplRead' /\ ~BeaconRead' /\ ~Replayed' /\ ~Hashed' /\ ~Replayed /\ ~Reading
        /\ NoLogsYet /\ pc' # "logs"
    BY <2>1 DEF Reading, ImplRead, BeaconRead, Replayed, Hashed, NoLogsYet
  <2>3. chain[Height].stopped \subseteq Tokens /\ chain[Height].tag = reorgs /\ reorgs \in 0..reorgs
    BY <1>1 DEF ChainSound, IsChain, Block
  <2>4. /\ read' = [f \in {"hash", "verified", "impl", "low", "high", "headers", "replayed", "agreed", "final"} |-> read'[f]]
        /\ read'.hash = reorgs /\ read'.verified = read.verified /\ read'.low = read.low /\ read'.high = read.high
        /\ read'.agreed = {}
    BY <2>1, <2>2, <2>3 DEF ReadSound
  <2>5. read.verified = {}
    BY <2>2 DEF ReadSound
  <2>6. ReadOfNamed'
    BY <2>2, <2>4, <2>5 DEF ReadOfNamed
  <2>7. ReadSound'
    BY <2>1, <2>2, <2>3, <2>4, <2>6 DEF ReadSound
  <2>8. LogsSound'
    BY <2>1, <2>2, <2>4, LogsKept
  <2>. QED  BY <2>1, <2>7, <2>8 DEF ChainSound
<1>4. ASSUME UNCHANGED <<chain, reorgs, listed, named, ranges, rawLogs>>, read'.low = read.low, ReadSound',
             NoLogsYet' => NoLogsYet, pc' # "logs"
      PROVE  StockInv'
  <2>1. LogsSound'
    BY <1>4, LogsKept
  <2>. QED  BY <1>4, <2>1 DEF ChainSound
<1>5. ASSUME NEW t \in Tokens, Stock!VerifyAsset(t), ~Stock!Refused PROVE StockInv'
  <2>1. /\ pc = "assets" /\ pc' = "assets" /\ read' = [read EXCEPT !.verified = @ \cup {t}]
        /\ t \in listed /\ t \notin chain[Height].stopped
        /\ UNCHANGED <<chain, reorgs, listed, named, ranges, rawLogs>>
    BY <1>5 DEF Stock!VerifyAsset, Stock!Pinned
  <2>2. /\ Reading /\ Reading' /\ ~ImplRead' /\ ~BeaconRead' /\ ~Replayed' /\ ~Replayed /\ ~Hashed' /\ ~Hashed
        /\ NoLogsYet /\ pc' # "logs"
    BY <2>1 DEF Reading, ImplRead, BeaconRead, Replayed, Hashed, NoLogsYet
  <2>3. /\ read' = [f \in {"hash", "verified", "impl", "low", "high", "headers", "replayed", "agreed", "final"} |-> read'[f]]
        /\ read'.hash = read.hash /\ read'.verified = read.verified \cup {t} /\ read'.low = read.low
        /\ read'.high = read.high /\ read'.agreed = read.agreed /\ read'.replayed = read.replayed
    BY <2>1 DEF ReadSound
  <2>4. chain = named /\ ReadOfNamed => ReadOfNamed'
    BY <2>1, <2>2, <2>3 DEF ReadOfNamed
  <2>5. /\ read.verified \subseteq listed /\ read.low \in Stock!Blocks /\ read.high \in Stock!Blocks
        /\ read.low <= read.high /\ read.agreed = {}
    BY <2>2 DEF ReadSound
  <2>6. ReadSound'
    BY <2>1, <2>2, <2>3, <2>4, <2>5, ReadMore
  <2>. QED  BY <1>4, <2>1, <2>2, <2>3, <2>6
<1>6. CASE Stock!ReadImplementation /\ ~Stock!Refused
  <2>1. /\ pc = "implementation" /\ pc' = "paused"
        /\ read' = [read EXCEPT !.impl = Stock!Implementation(Stock!History(chain, Height))]
        /\ UNCHANGED <<chain, reorgs, listed, named, ranges, rawLogs>>
    BY <1>6 DEF Stock!ReadImplementation, Stock!State
  <2>2. /\ Reading /\ Reading' /\ ImplRead' /\ ~BeaconRead' /\ ~Replayed' /\ ~Replayed /\ ~Hashed' /\ ~Hashed
        /\ NoLogsYet /\ pc' # "logs"
    BY <2>1 DEF Reading, ImplRead, BeaconRead, Replayed, Hashed, NoLogsYet
  <2>3. /\ read' = [f \in {"hash", "verified", "impl", "low", "high", "headers", "replayed", "agreed", "final"} |-> read'[f]]
        /\ read'.hash = read.hash /\ read'.verified = read.verified /\ read'.low = read.low
        /\ read'.high = read.high /\ read'.agreed = read.agreed /\ read'.replayed = read.replayed
        /\ read'.impl = Stock!Implementation(Stock!History(chain, Height))
    BY <2>1 DEF ReadSound
  <2>4. chain = named /\ ReadOfNamed => ReadOfNamed'
    BY <2>1, <2>2, <2>3 DEF ReadOfNamed
  <2>5. /\ read.verified \subseteq listed /\ read.low \in Stock!Blocks /\ read.high \in Stock!Blocks
        /\ read.low <= read.high /\ read.agreed = {} /\ read.verified = Tokens
    BY <2>1, <2>2 DEF ReadSound
  <2>6. ReadSound'
    BY <2>1, <2>2, <2>3, <2>4, <2>5, ReadMore
  <2>. QED  BY <1>4, <2>1, <2>2, <2>3, <2>6
<1>7. CASE Stock!ReadBeaconPaused /\ ~Stock!Refused
  <2>1. /\ pc = "paused" /\ pc' = "search" /\ read' = [read EXCEPT !.high = Height]
        /\ ~Stock!Paused(Stock!History(chain, Height))
        /\ UNCHANGED <<chain, reorgs, listed, named, ranges, rawLogs>>
    BY <1>7 DEF Stock!ReadBeaconPaused, Stock!State
  <2>2. /\ Reading /\ Reading' /\ ImplRead /\ ImplRead' /\ BeaconRead' /\ ~Replayed' /\ ~Replayed /\ ~Hashed' /\ ~Hashed
        /\ NoLogsYet /\ pc' # "logs"
    BY <2>1 DEF Reading, ImplRead, BeaconRead, Replayed, Hashed, NoLogsYet
  <2>3. /\ read' = [f \in {"hash", "verified", "impl", "low", "high", "headers", "replayed", "agreed", "final"} |-> read'[f]]
        /\ read'.hash = read.hash /\ read'.verified = read.verified /\ read'.low = read.low
        /\ read'.high = Height /\ read'.agreed = read.agreed /\ read'.replayed = read.replayed
        /\ read'.impl = read.impl
    BY <2>1 DEF ReadSound
  <2>4. chain = named /\ ReadOfNamed => ReadOfNamed'
    BY <2>1, <2>2, <2>3 DEF ReadOfNamed
  <2>5. /\ read.verified \subseteq listed /\ read.low \in Stock!Blocks /\ read.low <= Height
        /\ read.agreed = {} /\ read.verified = Tokens
    BY <1>1, <2>1, <2>2 DEF ReadSound, Stock!Blocks
  <2>6. ReadSound'
    BY <1>1, <2>1, <2>2, <2>3, <2>4, <2>5, ReadMore
  <2>. QED  BY <1>4, <2>1, <2>2, <2>3, <2>6
<1>8. CASE Stock!SearchCreation
  <2>. DEFINE middle == (read.low + read.high) \div 2
  <2>1. /\ pc = "search" /\ pc' = "search" /\ UNCHANGED <<chain, reorgs, listed, named, ranges, rawLogs>>
        /\ read.low < read.high
        /\ read' = [read EXCEPT !.high = middle] \/ read' = [read EXCEPT !.low = middle + 1]
    BY <1>8 DEF Stock!SearchCreation
  <2>2. middle \in Stock!Blocks /\ middle + 1 \in Stock!Blocks /\ read.low <= middle /\ middle + 1 <= read.high
    BY <1>1, <2>1, Middle DEF ReadSound, Stock!Blocks
  <2>3. /\ Reading /\ Reading' /\ (ImplRead' <=> ImplRead) /\ (BeaconRead' <=> BeaconRead) /\ ~Replayed' /\ ~Replayed
        /\ ~Hashed' /\ ~Hashed /\ NoLogsYet /\ pc' # "logs"
    BY <2>1 DEF Reading, ImplRead, BeaconRead, Replayed, Hashed, NoLogsYet
  <2>. HIDE DEF middle
  <2>4. /\ read' = [f \in {"hash", "verified", "impl", "low", "high", "headers", "replayed", "agreed", "final"} |-> read'[f]]
        /\ read'.hash = read.hash /\ read'.verified = read.verified
        /\ read'.agreed = read.agreed /\ read'.replayed = read.replayed /\ read'.impl = read.impl
        /\ read'.low \in Stock!Blocks /\ read'.high \in Stock!Blocks /\ read'.low <= read'.high
    BY <2>1, <2>2 DEF ReadSound
  <2>5. ReadOfNamed => ReadOfNamed'
    BY <2>1, <2>3, <2>4 DEF ReadOfNamed
  <2>6. read.verified \subseteq listed /\ read.agreed = {} /\ read.verified = Tokens
    BY <2>1, <2>3 DEF ReadSound
  <2>7. ReadSound'
    BY <2>1, <2>3, <2>4, <2>5, <2>6, ReadMore
  <2>8. LogsSound'
    BY <2>1, <2>3 DEF LogsSound
  <2>. QED  BY <2>1, <2>7, <2>8 DEF ChainSound
<1>9. ASSUME NEW n \in Stock!Blocks, Stock!ReadEventBlock(n), ~Stock!Refused PROVE StockInv'
  <2>1. /\ pc = "headers" /\ pc' = "headers" /\ read' = [read EXCEPT !.headers = @ \cup {n}]
        /\ UNCHANGED <<chain, reorgs, listed, named, ranges, rawLogs>>
    BY <1>9 DEF Stock!ReadEventBlock
  <2>2. /\ Reading /\ Reading' /\ (ImplRead' <=> ImplRead) /\ (BeaconRead' <=> BeaconRead) /\ ~Replayed' /\ ~Replayed
        /\ ~Hashed' /\ ~Hashed /\ (NoLogsYet' <=> NoLogsYet) /\ pc' # "logs"
    BY <2>1 DEF Reading, ImplRead, BeaconRead, Replayed, Hashed, NoLogsYet
  <2>3. /\ read' = [f \in {"hash", "verified", "impl", "low", "high", "headers", "replayed", "agreed", "final"} |-> read'[f]]
        /\ read'.hash = read.hash /\ read'.verified = read.verified /\ read'.low = read.low
        /\ read'.high = read.high /\ read'.agreed = read.agreed /\ read'.replayed = read.replayed
        /\ read'.impl = read.impl
    BY <2>1 DEF ReadSound
  <2>4. ReadOfNamed => ReadOfNamed'
    BY <2>1, <2>2, <2>3 DEF ReadOfNamed
  <2>5. /\ read.verified \subseteq listed /\ read.low \in Stock!Blocks /\ read.high \in Stock!Blocks
        /\ read.low <= read.high /\ read.agreed = {} /\ read.verified = Tokens
    BY <2>1, <2>2 DEF ReadSound
  <2>6. ReadSound'
    BY <2>1, <2>2, <2>3, <2>4, <2>5, ReadMore
  <2>. QED  BY <1>4, <2>1, <2>2, <2>3, <2>6
<1>10. CASE Stock!Reconstruct /\ ~Stock!Refused
  <2>. DEFINE s == Stock!Replay(rawLogs)
  <2>1. Mentioned(s)
    <3>1. Len(rawLogs) \in Nat
      BY LenProperties DEF LogsSound
    <3>. QED  BY <3>1, ReplayMentioned
  <2>2. /\ pc = "headers" /\ pc' = "crosscheck" /\ read' = [read EXCEPT !.replayed = s] /\ s.impl = read.impl
        /\ UNCHANGED <<chain, reorgs, listed, named, ranges, rawLogs>>
    BY <1>10 DEF Stock!Reconstruct
  <2>. HIDE DEF s
  <2>3. /\ Reading /\ Reading' /\ (ImplRead' <=> ImplRead) /\ (BeaconRead' <=> BeaconRead) /\ Replayed' /\ ~Replayed
        /\ ~Hashed' /\ ~Hashed /\ (NoLogsYet' <=> NoLogsYet) /\ pc' # "logs"
    BY <2>2 DEF Reading, ImplRead, BeaconRead, Replayed, Hashed, NoLogsYet
  <2>4. /\ read' = [f \in {"hash", "verified", "impl", "low", "high", "headers", "replayed", "agreed", "final"} |-> read'[f]]
        /\ read'.hash = read.hash /\ read'.verified = read.verified /\ read'.low = read.low
        /\ read'.high = read.high /\ read'.agreed = read.agreed /\ read'.replayed = s /\ read'.impl = read.impl
    BY <2>2 DEF ReadSound
  <2>5. /\ read.verified \subseteq listed /\ read.low \in Stock!Blocks /\ read.high \in Stock!Blocks
        /\ read.low <= read.high /\ read.agreed = {} /\ read.verified = Tokens
    BY <2>2, <2>3 DEF ReadSound
  <2>6. ReadOfNamed => ReadOfNamed'
    BY <2>2, <2>3, <2>4, <2>5 DEF ReadOfNamed
  <2>7. ReadSound'
    BY <2>1, <2>2, <2>3, <2>4, <2>5, <2>6, ReadMore
  <2>. QED  BY <1>4, <2>2, <2>3, <2>4, <2>7
<1>11. ASSUME NEW q, Stock!CrossCheck(q), ~Stock!Refused PROVE StockInv'
  <2>1. /\ pc = "crosscheck" /\ pc' = "crosscheck" /\ read' = [read EXCEPT !.agreed = @ \cup {q}]
        /\ Stock!Agrees(Stock!History(chain, Height), read.replayed, q)
        /\ UNCHANGED <<chain, reorgs, listed, named, ranges, rawLogs>>
    BY <1>11 DEF Stock!CrossCheck, Stock!State
  <2>2. /\ Reading /\ Reading' /\ (ImplRead' <=> ImplRead) /\ (BeaconRead' <=> BeaconRead) /\ Replayed' /\ Replayed
        /\ ~Hashed' /\ ~Hashed /\ (NoLogsYet' <=> NoLogsYet) /\ pc' # "logs"
    BY <2>1 DEF Reading, ImplRead, BeaconRead, Replayed, Hashed, NoLogsYet
  <2>3. /\ read' = [f \in {"hash", "verified", "impl", "low", "high", "headers", "replayed", "agreed", "final"} |-> read'[f]]
        /\ read'.hash = read.hash /\ read'.verified = read.verified /\ read'.low = read.low
        /\ read'.high = read.high /\ read'.agreed = read.agreed \cup {q} /\ read'.replayed = read.replayed
        /\ read'.impl = read.impl
    BY <2>1 DEF ReadSound
  <2>4. chain = named /\ ReadOfNamed => ReadOfNamed'
    <3>. SUFFICES ASSUME chain = named, ReadOfNamed PROVE ReadOfNamed'
      OBVIOUS
    <3>1. \A p \in read.agreed \cup {q} : Stock!Agrees(Stock!History(named, Height), read.replayed, p)
      BY <2>1 DEF ReadOfNamed
    <3>. QED  BY <2>1, <2>2, <2>3, <3>1 DEF ReadOfNamed
  <2>5. /\ read.verified \subseteq listed /\ read.low \in Stock!Blocks /\ read.high \in Stock!Blocks
        /\ read.low <= read.high /\ read.verified = Tokens
        /\ Mentioned(read.replayed) /\ read.replayed.impl = read.impl
    BY <2>1, <2>2 DEF ReadSound
  <2>6. ReadSound'
    BY <2>1, <2>2, <2>3, <2>4, <2>5, ReadMore
  <2>. QED  BY <1>4, <2>1, <2>2, <2>3, <2>6
<1>12. ASSUME NEW t \in Tokens, Stock!FinalAsset(t), ~Stock!Refused PROVE StockInv'
  <2>1. /\ pc = "finalAssets" /\ pc' \in {"finalAssets", "done"} /\ read' = [read EXCEPT !.final = @ \cup {t}]
        /\ UNCHANGED <<chain, reorgs, listed, named, ranges, rawLogs>>
    BY <1>12 DEF Stock!FinalAsset
  <2>2. /\ Reading /\ Reading' /\ (ImplRead' <=> ImplRead) /\ (BeaconRead' <=> BeaconRead) /\ Replayed' /\ Replayed
        /\ Hashed' /\ Hashed /\ (NoLogsYet' <=> NoLogsYet) /\ pc' # "logs"
    BY <2>1 DEF Reading, ImplRead, BeaconRead, Replayed, Hashed, NoLogsYet
  <2>3. /\ read' = [f \in {"hash", "verified", "impl", "low", "high", "headers", "replayed", "agreed", "final"} |-> read'[f]]
        /\ read'.hash = read.hash /\ read'.verified = read.verified /\ read'.low = read.low
        /\ read'.high = read.high /\ read'.agreed = read.agreed /\ read'.replayed = read.replayed
        /\ read'.impl = read.impl
    BY <2>1 DEF ReadSound
  <2>4. ReadOfNamed => ReadOfNamed'
    BY <2>1, <2>2, <2>3 DEF ReadOfNamed
  <2>5. /\ read.verified \subseteq listed /\ read.low \in Stock!Blocks /\ read.high \in Stock!Blocks
        /\ read.low <= read.high /\ read.verified = Tokens
        /\ Mentioned(read.replayed) /\ read.replayed.impl = read.impl
    BY <2>1, <2>2 DEF ReadSound
  <2>6. ReadSound'
    BY <2>1, <2>2, <2>3, <2>4, <2>5, ReadMore
  <2>. QED  BY <1>4, <2>1, <2>2, <2>3, <2>6
<1>. QED  BY <1>2, <1>3, <1>5, <1>6, <1>7, <1>8, <1>9, <1>10, <1>11, <1>12

(* The pages: the ranges that are left start where what was served ends.    *)
LEMMA StockPages ==
  ASSUME Stock!StockCandidateAssumption, StockInv,
         Stock!CheckNotBefore \/ Stock!ServeLogs \/ Stock!RefuseRange
  PROVE  StockInv'
<1>. SUFFICES ASSUME ~Stock!Refused PROVE StockInv'
  BY RefusedSound
<1>. USE DEF StockInv, Stock!At, Stock!Then
<1>1. Height \in Nat /\ Stock!Blocks = 0..Height
  BY DEF Stock!StockCandidateAssumption, Stock!Blocks
<1>2. UNCHANGED <<chain, reorgs, listed, read, named>>
  BY DEF Stock!CheckNotBefore, Stock!ServeLogs, Stock!RefuseRange
<1>3. ChainSound'
  BY <1>2 DEF ChainSound
<1>4. ReadSound'
  <2>1. pc \in {"created", "logs"} /\ pc' = "logs"
    BY DEF Stock!CheckNotBefore, Stock!ServeLogs, Stock!RefuseRange
  <2>2. /\ Reading /\ Reading' /\ ImplRead /\ BeaconRead /\ (Replayed' <=> Replayed) /\ ~Hashed' /\ pc # "assets"
    BY <2>1 DEF Reading, ImplRead, BeaconRead, Replayed, Hashed
  <2>3. read.verified = Tokens
    BY <2>2 DEF ReadSound
  <2>. QED  BY <1>2, <2>2, <2>3, ReadKept
<1>5. pc' = "logs" => ~NoLogsYet'
  BY DEF NoLogsYet
<1>6. CASE Stock!CheckNotBefore
  <2>1. pc = "created" /\ pc' = "logs" /\ ranges' = <<<<read.low, Height>>>> /\ rawLogs' = rawLogs
    BY <1>6 DEF Stock!CheckNotBefore
  <2>2. rawLogs = <<>> /\ read.low \in 0..Height
    BY <1>1, <2>1 DEF LogsSound, ReadSound, NoLogsYet
  <2>3. ranges' \in Seq(Stock!Blocks \X Stock!Blocks) /\ Len(ranges') = 1 /\ ranges'[1] = <<read.low, Height>>
    BY <1>1, <2>1, <2>2
  <2>4. Contiguous' /\ Left' = read.low
    <3>1. ranges' # <<>> /\ ranges'[1][1] = read.low /\ ranges'[1][2] = Height
      BY <2>1, <2>3
    <3>. QED  BY <1>1, <2>2, <2>3, <3>1 DEF Contiguous, Left
  <2>5. Stock!Served(chain, read.low, read.low - 1) = <<>>
    BY <1>1, <2>2 DEF Stock!Served
  <2>6. LogsSound'
    BY <1>1, <1>2, <1>5, <2>1, <2>2, <2>3, <2>4, <2>5 DEF LogsSound
  <2>. QED  BY <1>3, <1>4, <2>6
<1>7. ASSUME pc = "logs", ranges # <<>>
      PROVE  \E from, to \in Stock!Blocks :
               /\ ranges[1] = <<from, to>> /\ from <= to /\ Left = from
               /\ read.low <= from /\ Len(ranges) \in Nat \ {0}
               /\ Tail(ranges) \in Seq(Stock!Blocks \X Stock!Blocks) /\ Len(Tail(ranges)) = Len(ranges) - 1
               /\ \A i \in 1..Len(ranges) - 1 : Tail(ranges)[i] = ranges[i + 1]
  <2>1. ranges \in Seq(Stock!Blocks \X Stock!Blocks) /\ Contiguous /\ read.low <= Left
    BY <1>7 DEF LogsSound
  <2>2. /\ Len(ranges) \in Nat \ {0} /\ Tail(ranges) \in Seq(Stock!Blocks \X Stock!Blocks)
        /\ Len(Tail(ranges)) = Len(ranges) - 1 /\ \A i \in 1..Len(ranges) - 1 : Tail(ranges)[i] = ranges[i + 1]
    BY <1>7, <2>1
  <2>3. ranges[1] \in Stock!Blocks \X Stock!Blocks
    BY <2>1, <2>2
  <2>4. PICK from, to \in Stock!Blocks : ranges[1] = <<from, to>>
    BY <2>3
  <2>5. Left = from /\ from <= to
    BY <1>7, <2>1, <2>2, <2>4 DEF Left, Contiguous
  <2>. QED  BY <2>1, <2>2, <2>4, <2>5
<1>8. CASE Stock!ServeLogs
  <2>1. pc = "logs" /\ pc' = "logs" /\ ranges # <<>> /\ ranges' = Tail(ranges)
    BY <1>8 DEF Stock!ServeLogs
  <2>2. PICK from, to \in Stock!Blocks :
               /\ ranges[1] = <<from, to>> /\ from <= to /\ Left = from
               /\ read.low <= from /\ Len(ranges) \in Nat \ {0}
               /\ Tail(ranges) \in Seq(Stock!Blocks \X Stock!Blocks) /\ Len(Tail(ranges)) = Len(ranges) - 1
               /\ \A i \in 1..Len(ranges) - 1 : Tail(ranges)[i] = ranges[i + 1]
    BY <1>7, <2>1
  <2>. DEFINE page == Stock!Served(chain, from, to)
  <2>3. PICK lost : rawLogs' = Joined(rawLogs, Stock!Omitting(page, lost)) /\ (~Lossy => lost = {})
    <3>. DEFINE p == Stock!Served(chain, ranges[1][1], ranges[1][2])
    <3>0. \E lost \in (IF Lossy THEN SUBSET DOMAIN p ELSE {{}}) : rawLogs' = rawLogs \o Stock!Omitting(p, lost)
      BY <1>8, Zenon DEF Stock!ServeLogs
    <3>a. p = page
      BY <2>2
    <3>. HIDE DEF page, p
    <3>1. \E lost \in (IF Lossy THEN SUBSET DOMAIN page ELSE {{}}) : rawLogs' = rawLogs \o Stock!Omitting(page, lost)
      BY <3>0, <3>a
    <3>. QED  BY <3>1 DEF Joined
  <2>4. page \in Seq(LogEntry) /\ rawLogs \in Seq(LogEntry)
    <3>1. /\ reorgs \in Nat /\ IsChain(chain, reorgs) /\ Height \in Nat /\ rawLogs \in Seq(LogEntry)
          /\ from \in Nat /\ to \in Int
      BY <1>1 DEF ChainSound, LogsSound
    <3>. QED  BY <3>1, ServedTyped
  <2>5. Stock!Omitting(page, lost) \in Seq(LogEntry) /\ (~Lossy => Stock!Omitting(page, lost) = page)
    <3>. HIDE DEF page
    <3>. QED  BY <2>3, <2>4, OmittingTyped
  <2>6. rawLogs' \in Seq(LogEntry)
    <3>. HIDE DEF page
    <3>. QED  BY <2>3, <2>4, <2>5, ConcatProperties DEF Joined
  <2>7. Contiguous
    BY <2>1 DEF LogsSound
  <2>8. Len(ranges') = Len(ranges) - 1 /\ \A i \in 1..Len(ranges') : ranges'[i] = ranges[i + 1]
    BY <2>1, <2>2
  <2>9. ranges' # <<>> => Len(ranges') >= 1
    BY <2>1, <2>2
  <2>10. Contiguous'
    BY <2>2, <2>7, <2>8, <2>9 DEF Contiguous
  <2>11. Left' = to + 1
    <3>1. CASE ranges' = <<>>
      <4>1. Len(ranges) = 1
        <5>1. Len(ranges') = 0
          BY <3>1, EmptySeq
        <5>2. Len(ranges) \in Nat /\ Len(ranges') = Len(ranges) - 1
          BY <2>2, <2>8, Zenon
        <5>. DEFINE n == Len(ranges)
                    m == Len(ranges')
        <5>. HIDE DEF n, m
        <5>3. m = 0 /\ n \in Nat /\ m = n - 1
          BY <5>1, <5>2 DEF n, m
        <5>4. n = 1
          BY <5>3
        <5>. QED  BY <5>4 DEF n
      <4>2. to = Height
        BY <2>1, <2>2, <2>7, <4>1 DEF Contiguous
      <4>. QED  BY <3>1, <4>2 DEF Left
    <3>2. CASE ranges' # <<>>
      <4>1. 1 \in 1..Len(ranges') /\ 1 \in 1..Len(ranges) - 1
        BY <2>2, <2>8, <2>9, <3>2
      <4>2. ranges'[1] = ranges[2] /\ ranges[1][2] + 1 = ranges[1 + 1][1]
        BY <2>7, <2>8, <4>1 DEF Contiguous
      <4>. QED  BY <2>2, <3>2, <4>2 DEF Left
    <3>. QED  BY <3>1, <3>2
  <2>12. reorgs' = 0 /\ ~Lossy => rawLogs' = Stock!Served(chain', read'.low, Left' - 1)
    <3>. SUFFICES ASSUME reorgs = 0, ~Lossy PROVE rawLogs' = Stock!Served(chain, read.low, to)
      BY <1>1, <1>2, <2>11
    <3>1. rawLogs = Stock!Served(chain, read.low, from - 1)
      BY <2>1, <2>2 DEF LogsSound
    <3>2. Joined(Stock!Served(chain, read.low, from - 1), page) = Stock!Served(chain, read.low, to)
      <4>1. reorgs \in Nat /\ IsChain(chain, reorgs) /\ read.low \in Stock!Blocks /\ Height \in Nat
        BY <1>1 DEF ChainSound, ReadSound
      <4>. QED  BY <2>2, <4>1, ServedJoin
    <3>. HIDE DEF page
    <3>. QED  BY <2>3, <2>5, <3>1, <3>2
  <2>13. read'.low <= Left'
    BY <1>1, <1>2, <2>2, <2>11 DEF ReadSound
  <2>14. LogsSound'
    BY <1>5, <2>1, <2>2, <2>6, <2>10, <2>12, <2>13 DEF LogsSound
  <2>. QED  BY <1>3, <1>4, <2>14
<1>9. CASE Stock!RefuseRange
  <2>1. /\ pc = "logs" /\ pc' = "logs" /\ ranges # <<>> /\ rawLogs' = rawLogs
        /\ ranges[1][1] # ranges[1][2]
        /\ ranges' = Joined(Stock!Halves(ranges[1][1], ranges[1][2]), Tail(ranges))
    BY <1>9 DEF Stock!RefuseRange, Joined
  <2>2. PICK from, to \in Stock!Blocks :
               /\ ranges[1] = <<from, to>> /\ from <= to /\ Left = from
               /\ read.low <= from /\ Len(ranges) \in Nat \ {0}
               /\ Tail(ranges) \in Seq(Stock!Blocks \X Stock!Blocks) /\ Len(Tail(ranges)) = Len(ranges) - 1
               /\ \A i \in 1..Len(ranges) - 1 : Tail(ranges)[i] = ranges[i + 1]
    BY <1>7, <2>1
  <2>. DEFINE middle == (from + to) \div 2
  <2>3. middle \in Stock!Blocks /\ middle + 1 \in Stock!Blocks /\ from <= middle /\ middle + 1 <= to
    BY <1>1, <2>1, <2>2, Middle
  <2>. HIDE DEF middle
  <2>4. ranges' = Joined(<<<<from, middle>>, <<middle + 1, to>>>>, Tail(ranges))
    BY <2>1, <2>2 DEF Stock!Halves, middle
  <2>. DEFINE halves == <<<<from, middle>>, <<middle + 1, to>>>>
              left == Tail(ranges)
  <2>5. /\ halves \in Seq(Stock!Blocks \X Stock!Blocks) /\ Len(halves) = 2
        /\ halves[1] = <<from, middle>> /\ halves[2] = <<middle + 1, to>>
    BY <2>3
  <2>6. left \in Seq(Stock!Blocks \X Stock!Blocks) /\ ranges' = Joined(halves, left)
    BY <2>2, <2>4
  <2>7. Len(left) = Len(ranges) - 1 /\ \A i \in 1..Len(left) : left[i] = ranges[i + 1]
    BY <2>2
  <2>. HIDE DEF halves, left
  <2>8. /\ ranges' \in Seq(Stock!Blocks \X Stock!Blocks) /\ Len(ranges') = Len(ranges) + 1
        /\ ranges'[1] = <<from, middle>> /\ ranges'[2] = <<middle + 1, to>>
        /\ \A i \in 3..Len(ranges) + 1 : ranges'[i] = ranges[i - 1]
    <3>1. /\ Joined(halves, left) \in Seq(Stock!Blocks \X Stock!Blocks)
          /\ Len(Joined(halves, left)) = 2 + Len(left)
          /\ \A i \in 1..2 + Len(left) : Joined(halves, left)[i] = IF i <= 2 THEN halves[i] ELSE left[i - 2]
      <4>1. /\ Joined(halves, left) \in Seq(Stock!Blocks \X Stock!Blocks)
            /\ Len(Joined(halves, left)) = Len(halves) + Len(left)
            /\ \A i \in 1..Len(halves) + Len(left) :
                  Joined(halves, left)[i] = IF i <= Len(halves) THEN halves[i] ELSE left[i - Len(halves)]
        BY <2>5, <2>6, ConcatProperties, Zenon DEF Joined
      <4>. QED  BY <2>5, <4>1
    <3>2. Len(ranges) \in Nat \ {0}
      BY <2>2
    <3>3. ranges'[1] = halves[1] /\ ranges'[2] = halves[2]
      BY <2>6, <2>7, <3>1, <3>2
    <3>4. \A i \in 3..Len(ranges) + 1 : ranges'[i] = ranges[i - 1]
      <4>. TAKE i \in 3..Len(ranges) + 1
      <4>1. i \in 1..2 + Len(left) /\ ~(i <= 2) /\ i - 2 \in 1..Len(left) /\ i - 2 + 1 = i - 1
        BY <2>7, <3>2
      <4>2. ranges'[i] = left[i - 2] /\ left[i - 2] = ranges[i - 2 + 1]
        BY <2>6, <2>7, <3>1, <4>1
      <4>. QED  BY <4>1, <4>2
    <3>. QED  BY <2>5, <2>6, <2>7, <3>1, <3>2, <3>3, <3>4
  <2>9. Contiguous
    BY <2>1 DEF LogsSound
  <2>10. ranges' # <<>> /\ Left' = from
    BY <2>2, <2>8 DEF Left
  <2>11. Contiguous'
    <3>. DEFINE n == Len(ranges)
    <3>0. n \in Nat \ {0} /\ Len(ranges') = n + 1
      BY <2>2, <2>8
    <3>1. ASSUME NEW i \in 1..n + 1 PROVE ranges'[i][1] <= ranges'[i][2]
      <4>1. CASE i <= 2
        BY <2>3, <2>8, <3>0, <4>1
      <4>2. CASE i > 2
        <5>1. i - 1 \in 1..n /\ i \in 3..n + 1
          BY <3>0, <4>2
        <5>2. ranges[i - 1][1] <= ranges[i - 1][2]
          BY <2>9, <5>1 DEF Contiguous
        <5>. QED  BY <2>8, <5>1, <5>2
      <4>. QED  BY <3>0, <4>1, <4>2
    <3>2. ASSUME NEW i \in 1..n PROVE ranges'[i][2] + 1 = ranges'[i + 1][1]
      <4>1. CASE i = 1
        BY <2>8, <4>1
      <4>2. CASE i > 1
        <5>1. i - 1 \in 1..n - 1 /\ i - 1 + 1 = i /\ i + 1 \in 3..n + 1 /\ i + 1 - 1 = i
          BY <3>0, <4>2
        <5>2. ranges[i - 1][2] + 1 = ranges[i][1] /\ ranges'[i + 1] = ranges[i]
          BY <2>8, <2>9, <5>1 DEF Contiguous
        <5>3. ranges'[i][2] = ranges[i - 1][2]
          <6>1. CASE i = 2
            BY <2>2, <2>8, <6>1
          <6>2. CASE i # 2
            BY <2>8, <3>0, <4>2, <6>2
          <6>. QED  BY <6>1, <6>2
        <5>. QED  BY <5>2, <5>3
      <4>. QED  BY <3>0, <4>1, <4>2
    <3>3. ranges'[n + 1][2] = Height
      <4>1. ranges[n][2] = Height
        BY <2>1, <2>9 DEF Contiguous
      <4>2. CASE n = 1
        BY <2>2, <2>8, <4>1, <4>2
      <4>3. CASE n # 1
        <5>1. n + 1 \in 3..n + 1 /\ n + 1 - 1 = n
          <6>. HIDE DEF n
          <6>. QED  BY <3>0, <4>3
        <5>. QED  BY <2>8, <4>1, <5>1
      <4>. QED  BY <4>2, <4>3
    <3>. HIDE DEF n
    <3>4. Len(ranges') - 1 = n
      BY <3>0
    <3>. QED  BY <3>0, <3>1, <3>2, <3>3, <3>4 DEF Contiguous
  <2>12. LogsSound'
    BY <1>2, <1>5, <2>1, <2>2, <2>8, <2>10, <2>11 DEF LogsSound
  <2>. QED  BY <1>3, <1>4, <2>12
<1>. QED  BY <1>6, <1>8, <1>9

LEMMA StockSound == ASSUME Stock!StockCandidateAssumption PROVE Stock!Spec => []StockInv
<1>1. Stock!Init => StockInv
  BY StockInit
<1>2. StockInv /\ [Stock!Next]_(Stock!vars) => StockInv'
  <2>. SUFFICES ASSUME StockInv, [Stock!Next]_(Stock!vars) PROVE StockInv'
    OBVIOUS
  <2>. QED  BY ReorganiseSound, StockMoves, StockReads, StockPages
            DEF Stock!Next, Stock!Generate, Stock!ReadLogs
<1>. QED  BY <1>1, <1>2, PTL DEF Stock!Spec

(* What a finished candidate records of the controllers, the blocked        *)
(* accounts and the implementation is what the block holds whose hash it    *)
(* names (RecordedControlsAreReal): whatever was reorganised while it was   *)
(* read, during the last reads as well, which come after the hash was       *)
(* compared, and whatever the endpoint left out of its answers.             *)
THEOREM RecordedControlsAreReal ==
  ASSUME Stock!StockCandidateAssumption
  PROVE  Stock!Spec => []Stock!RecordedControlsAreReal
<1>1. StockInv => Stock!RecordedControlsAreReal
  <2>. SUFFICES ASSUME StockInv, pc = "done" PROVE Stock!RecordedControlsAreReal
    BY DEF Stock!RecordedControlsAreReal
  <2>. DEFINE h == Stock!History(named, Height)
              s == read.replayed
  <2>1. Hashed /\ Replayed /\ BeaconRead /\ ImplRead /\ Reading /\ pc # "assets"
    BY DEF Reading, ImplRead, BeaconRead, Replayed, Hashed
  <2>2. /\ named[Height].tag = read.hash /\ named[Height].stopped \subseteq Tokens /\ ReadOfNamed
        /\ read.verified = Tokens /\ listed = Tokens /\ Mentioned(s) /\ s.impl = read.impl
        /\ Stock!Calls \subseteq read.agreed
    BY <2>1 DEF StockInv, ReadSound
  <2>3. /\ named[Height].stopped = {} /\ s.impl = Stock!Implementation(h) /\ ~Stock!Paused(h)
        /\ \A q \in Stock!Calls : Stock!Agrees(h, s, q)
    BY <2>1, <2>2 DEF ReadOfNamed
  <2>. HIDE DEF h
  <2>4. ASSUME NEW r \in Roles
        PROVE  s.admins[r] = Stock!AdminOf(h, r) /\ \A a \in s.members[r] : Stock!Holds(h, r, a)
    <3>1. Stock!Ask("getRoleAdmin", r, Nothing) \in Stock!Calls
      BY DEF Stock!Calls, Stock!RoleCalls
    <3>2. Stock!AdminOf(h, r) = s.admins[r]
      BY <2>3, <3>1 DEF Stock!Agrees, Stock!Ask
    <3>3. ASSUME NEW a \in s.members[r] PROVE Stock!Holds(h, r, a)
      <4>1. a \in s.seen[r]
        BY <2>2 DEF Mentioned
      <4>2. Stock!Ask("hasRole", r, a) \in Stock!Calls
        BY <4>1 DEF Stock!Calls, Stock!RoleCalls
      <4>. QED  BY <2>3, <4>2 DEF Stock!Agrees, Stock!Ask
    <3>. QED  BY <3>2, <3>3
  <2>5. ASSUME NEW a \in s.blocked PROVE Stock!IsBlocked(h, a)
    <3>1. Stock!Ask("isBlocked", Nothing, a) \in Stock!Calls
      BY <2>2 DEF Mentioned, Stock!Calls, Stock!BlockedCalls
    <3>. QED  BY <2>3, <3>1 DEF Stock!Agrees, Stock!Ask
  <2>. HIDE DEF s
  <2>. QED  BY <2>2, <2>3, <2>4, <2>5, Zenon DEF h, s, Stock!RecordedControlsAreReal
<1>. QED  BY <1>1, StockSound, PTL

(* However the endpoint refuses ranges and they are halved, the ranges that *)
(* are left follow each other to the pinned block, and while nothing is     *)
(* reorganised or left out the log read so far is the beacon's log up to    *)
(* them, each event once and in order (PagesCoverHistory).                  *)
THEOREM PagesCoverHistory ==
  ASSUME Stock!StockCandidateAssumption
  PROVE  Stock!Spec => []Stock!PagesCoverHistory
<1>1. StockInv => Stock!PagesCoverHistory
  <2>. SUFFICES ASSUME StockInv, pc = "logs" PROVE Stock!PagesCoverHistory
    BY DEF Stock!PagesCoverHistory
  <2>1. DOMAIN ranges = 1..Len(ranges)
    BY LenProperties DEF StockInv, LogsSound
  <2>. QED  BY <2>1 DEF StockInv, LogsSound, Contiguous, Left, Stock!PagesCoverHistory
<1>. QED  BY <1>1, StockSound, PTL

=============================================================================
