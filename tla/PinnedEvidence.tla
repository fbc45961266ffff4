--------------------------- MODULE PinnedEvidence ---------------------------
(***************************************************************************)
(* Three tools of packages/config that make or check evidence about one    *)
(* block of a live chain, by reading it by number, while the chain grows   *)
(* and reorganises between two reads:                                      *)
(*   pin       selects the block the nightly mainnet run forks from,       *)
(*   bytecode  hashes the code of the canonical tokens at a block,         *)
(*   fork      checks signed testnet fork evidence against the chain.      *)
(*                                                                         *)
(* A block's hash is a number never given to another block; a branch that  *)
(* was replaced does not come back and the head number does not decrease.  *)
(***************************************************************************)
EXTENDS Integers, Sequences, FiniteSets, SequencesExt

CONSTANTS Keys, Codes, NoCode,
          Depth,             \* confirmation depth of the nightly pin (64)
          MinConfirmations,  \* of the fork evidence (64)
          Lag, Age, Skew,    \* 15 minutes, 5 minutes, 60 seconds
          Validity,          \* 24 hours
          MaxBlocks, MaxHeight, MaxTime

PinnedEvidenceAssumption ==
  {Depth, MinConfirmations, Lag, Age, Skew, Validity, MaxBlocks, MaxHeight, MaxTime} \subseteq Nat /\ NoCode \in Codes

VARIABLES chain,     \* blocks by number: [hash, time, code]
          made,      \* every block that ever was
          now,
          evidence,  \* the signed observation, or the empty sequence
          run,       \* the running tool
          results    \* what the last tool to succeed reported

vars == <<chain, made, now, evidence, run, results>>

NoBlock == [hash |-> 0, time |-> 0, code |-> <<>>]
Idle == [kind |-> "idle", pc |-> "idle", number |-> 0, block |-> NoBlock, head |-> 0, tip |-> NoBlock,
         at |-> <<>>, now |-> 0, pinned |-> <<>>, left |-> {}, code |-> <<>>]
HeadNumber == Len(chain)
Done(r) == results' = {r} /\ run' = Idle
Abort == run' = Idle /\ UNCHANGED results

-----------------------------------------------------------------------------
Block(h, c) == [hash |-> h, time |-> now, code |-> c]
AnyCode == [Keys -> Codes]

Init == /\ now = 0 /\ evidence = <<>> /\ run = Idle /\ results = {}
        /\ \E c \in AnyCode : chain = <<[hash |-> 1, time |-> 0, code |-> c]>>
        /\ made = ToSet(chain)

\* The last k blocks are replaced by k + 1 others; with k = 0 the chain only grows.
Extend(k) ==
  /\ Cardinality(made) + k < MaxBlocks /\ HeadNumber < MaxHeight
  /\ \E codes \in [1..(k + 1) -> AnyCode] :
       LET new == [i \in 1..(k + 1) |-> Block(Cardinality(made) + i, codes[i])]
       IN  chain' = SubSeq(chain, 1, HeadNumber - k) \o new /\ made' = made \cup ToSet(new)
  /\ UNCHANGED <<now, evidence, run, results>>

Tick == now < MaxTime /\ now' = now + 1 /\ UNCHANGED <<chain, made, evidence, run, results>>

\* Somebody observes a block and signs what they saw.
Sign(n, expires) ==
  /\ evidence = <<>>
  /\ evidence' = <<[number |-> n, hash |-> chain[n].hash, observed |-> now, expires |-> expires]>>
  /\ UNCHANGED <<chain, made, now, run, results>>

-----------------------------------------------------------------------------
World == UNCHANGED <<chain, made, now, evidence>>
At(kind, pc) == run.kind = kind /\ run.pc = pc

(* selectNightlyMainnetPin: head, then the block Depth below it, twice.    *)
ReadHeadNumber ==
  /\ run = Idle /\ World /\ UNCHANGED results
  /\ run' = IF HeadNumber > Depth
            THEN [Idle EXCEPT !.kind = "pin", !.pc = "first", !.head = HeadNumber, !.number = HeadNumber - Depth]
            ELSE Idle

ReadPinned == /\ At("pin", "first") /\ World /\ UNCHANGED results
              /\ run' = [run EXCEPT !.pc = "second", !.block = chain[run.number]]

ReadPinnedAgain ==
  /\ At("pin", "second") /\ World
  /\ IF chain[run.number] = run.block
     THEN Done([kind |-> "pin", number |-> run.number, hash |-> run.block.hash, at |-> chain])
     ELSE Abort

(* verifyCanonicalBytecode: the block, the code of one key after another,  *)
(* the block again; with pinned hashes every code must be the expected one.*)
StartBytecode(number, pinned) ==
  /\ run = Idle /\ World /\ UNCHANGED results
  /\ run' = [Idle EXCEPT !.kind = "bytecode", !.pc = "codes", !.number = number, !.block = chain[number],
                         !.pinned = pinned, !.left = Keys]

ReadCode(k) ==
  /\ At("bytecode", "codes") /\ k \in run.left /\ World /\ UNCHANGED results
  /\ LET c == chain[run.number].code[k] IN
     IF c # NoCode /\ (run.pinned # <<>> => k \in DOMAIN run.pinned /\ run.pinned[k] = c)
     THEN run' = [run EXCEPT !.left = @ \ {k},
                             !.code = [j \in DOMAIN run.code \cup {k} |-> IF j = k THEN c ELSE run.code[j]]]
     ELSE run' = Idle

\* A plausible slip: the block is not read again after the codes.
Bug_BlockReadOnce ==
  /\ At("bytecode", "codes") /\ run.left = {} /\ World
  /\ Done([kind |-> "bytecode", hash |-> run.block.hash, code |-> run.code, pinned |-> run.pinned])

FinishBytecode ==
  /\ At("bytecode", "codes") /\ run.left = {} /\ World
  /\ IF chain[run.number] = run.block
     THEN Done([kind |-> "bytecode", hash |-> run.block.hash, code |-> run.code, pinned |-> run.pinned]) ELSE Abort

(* verifyLiveRobinhoodTestnetForkEvidence: the block, the head, the block. *)
RequireFresh(e) == e.observed <= now /\ now < e.expires /\ e.expires - e.observed <= Validity

StartFork ==
  /\ run = Idle /\ evidence # <<>> /\ World /\ UNCHANGED results
  /\ run' = IF RequireFresh(evidence[1]) THEN [Idle EXCEPT !.kind = "fork", !.pc = "first", !.now = now] ELSE Idle

ReadObservation ==
  /\ At("fork", "first") /\ World /\ UNCHANGED results
  /\ LET e == evidence[1] IN
     run' = IF e.number <= HeadNumber THEN [run EXCEPT !.pc = "head", !.block = chain[e.number]] ELSE Idle

ReadHead == /\ At("fork", "head") /\ World /\ UNCHANGED results
            /\ run' = [run EXCEPT !.pc = "second", !.head = HeadNumber, !.tip = chain[HeadNumber], !.at = chain]

HeadConfirms(e) ==
  /\ run.block.time <= e.observed /\ e.observed - run.block.time <= Lag
  /\ run.head >= e.number /\ run.head - e.number >= MinConfirmations
  /\ run.tip.time >= run.block.time
  /\ run.tip.time <= run.now + Skew /\ run.now - run.tip.time <= Age

ReadObservationAgain ==
  /\ At("fork", "second") /\ World
  /\ LET e == evidence[1] IN
     IF e.number <= HeadNumber /\ run.block.hash = e.hash /\ chain[e.number].hash = e.hash /\ HeadConfirms(e)
     THEN Done([kind |-> "fork", evidence |-> e, head |-> run.tip, at |-> run.at, now |-> run.now]) ELSE Abort

RequestFails == run # Idle /\ Abort /\ World

Next == \/ \E k \in 0..HeadNumber : Extend(k)
        \/ Tick \/ RequestFails
        \/ \E n \in 1..HeadNumber, t \in 1..(Validity + MaxTime) : Sign(n, t)
        \/ ReadHeadNumber \/ ReadPinned \/ ReadPinnedAgain
        \/ \E n \in 1..HeadNumber, pinned \in AnyCode \cup {<<>>} : StartBytecode(n, pinned)
        \/ (\E k \in Keys : ReadCode(k)) \/ FinishBytecode
        \/ StartFork \/ ReadObservation \/ ReadHead \/ ReadObservationAgain

Spec == Init /\ [][Next]_vars

-----------------------------------------------------------------------------
Of(kind) == {r \in results : r.kind = kind}

(* The nightly pin is buried: when it is chosen, the chain holds the block *)
(* under its number with at least Depth blocks on top, however the chain   *)
(* reorganised since its head was read.                                    *)
PinIsBuried == \A r \in Of("pin") : r.at[r.number].hash = r.hash /\ Len(r.at) >= r.number + Depth

(* A bytecode report is about one block: every hash in it is of the code   *)
(* that account has in the block whose hash the report names, and with     *)
(* pinned hashes that block has exactly the expected code.                 *)
BytecodeIsOfThatBlock ==
  \A r \in Of("bytecode") : \E b \in made :
    /\ b.hash = r.hash /\ b.code = r.code
    /\ r.pinned # <<>> => b.code = r.pinned

(* "preventing a fresh signature from laundering an old testnet fork       *)
(* block" (testnet-fork-evidence.ts:150): the head that confirms signed    *)
(* evidence is built on the very block that was observed, enough blocks    *)
(* below it, and that block was young when it was signed.                  *)
ConfirmationsAreReal ==
  \A r \in Of("fork") : LET e == r.evidence IN
    /\ r.at[e.number].hash = e.hash /\ r.at[Len(r.at)] = r.head
    /\ Len(r.at) >= e.number + MinConfirmations
    /\ e.observed - r.at[e.number].time <= Lag /\ r.now - r.head.time <= Age
=============================================================================
