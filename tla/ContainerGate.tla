---------------------------- MODULE ContainerGate ----------------------------
(***************************************************************************)
(* The gate of the web image (scripts/release):                            *)
(*   container-smoke.mjs runs the image and probes it,                     *)
(*   run-container-security.sh inventories and scans it, and               *)
(*   check-container-vulnerabilities.mjs decides.                          *)
(* Both tools are started again and again on one evidence directory; the   *)
(* tag they are given may be moved to another build at any moment, and     *)
(* either may be killed.  Files are the evidence they leave.               *)
(*                                                                         *)
(* What an image does when it runs, and what a vulnerability database of a *)
(* given build time knows, are constants; probe 1 is /healthz, the others  *)
(* are the documents, a probe fails on any header, nonce or marker.        *)
(***************************************************************************)
EXTENDS Integers, FiniteSets

CONSTANTS Images, Packages, None,
          WellBuilt,       \* images with the platform, user, port and healthcheck
          Probes,          \* 1..n, in the order they are made
          Passes,          \* image -> probes it passes
          Healthy,         \* images Docker reports healthy in time
          Inventory,       \* image -> its packages
          Blocked,         \* time -> packages with a High or Critical entry in a database built then
          MaxAge, MaxSkew, \* 72 hours, 15 minutes
          MaxTime, MaxMoves, MaxRuns

ContainerGateAssumption ==
  /\ Probes \subseteq Nat \ {0} /\ \A p \in Probes : 1..p \subseteq Probes
  /\ WellBuilt \subseteq Images /\ Healthy \subseteq Images /\ None \notin Images
  /\ Passes \in [Images -> SUBSET Probes] /\ Inventory \in [Images -> SUBSET Packages]
  /\ Blocked \in [0..(MaxTime + MaxSkew) -> SUBSET Packages]
  /\ {MaxAge, MaxSkew, MaxTime, MaxMoves, MaxRuns} \subseteq Nat

VARIABLES tag, now, moves,
          files,    \* the evidence directory
          smoke,    \* the smoke test: its step, image inspected, container's image, next probe
          runs,     \* smoke tests started
          gate      \* the scan: its step, image, packages listed, database, inputs read

vars == <<tag, now, moves, files, smoke, runs, gate>>

NoSmoke == [pc |-> "idle", image |-> None, container |-> None, next |-> 0]
NoGate == [pc |-> "idle", image |-> None, database |-> 0, input |-> None]

Init == /\ tag \in Images /\ now = 0 /\ moves = 0 /\ runs = 0
        /\ files = [smoke |-> None, sbom |-> None, scan |-> None, status |-> None, summary |-> None]
        /\ smoke = NoSmoke /\ gate = NoGate

MoveTag == /\ moves < MaxMoves /\ moves' = moves + 1 /\ tag' \in Images \ {tag}
           /\ UNCHANGED <<now, files, smoke, runs, gate>>
Tick == now < MaxTime /\ now' = now + 1 /\ UNCHANGED <<tag, moves, files, smoke, runs, gate>>

World == UNCHANGED <<tag, now, moves>>
Outside == World /\ UNCHANGED <<runs, gate>>

-----------------------------------------------------------------------------
(* container-smoke.mjs *)
Fail == smoke' = NoSmoke /\ files' = [files EXCEPT !.smoke = None]

\* A plausible slip: the result of the last run stays until this one has its own.
Bug_ResultStays ==
  /\ smoke.pc = "idle" /\ runs < MaxRuns /\ runs' = runs + 1
  /\ smoke' = [NoSmoke EXCEPT !.pc = "inspect"] /\ World /\ UNCHANGED <<gate, files>>

StartSmoke ==
  /\ smoke.pc = "idle" /\ runs < MaxRuns /\ runs' = runs + 1
  /\ files' = [files EXCEPT !.smoke = None]
  /\ smoke' = [NoSmoke EXCEPT !.pc = "inspect"] /\ World /\ UNCHANGED gate

ValidateImageInspection ==
  /\ smoke.pc = "inspect" /\ Outside
  /\ IF tag \in WellBuilt
     THEN smoke' = [smoke EXCEPT !.pc = "run", !.image = tag] /\ UNCHANGED files
     ELSE Fail

\* docker run is given the reference again, not the image inspected.
Run == /\ smoke.pc = "run" /\ Outside /\ UNCHANGED files
       /\ smoke' = [smoke EXCEPT !.pc = "probe", !.container = tag, !.next = 1]

\* The container answers probe p in time, with everything the probe asks for.
Request(p) == p \in Passes[smoke.container]
Answered(p) == IF Request(p) THEN smoke' = [smoke EXCEPT !.next = p + 1] /\ UNCHANGED files ELSE Fail

ProbeHealth == smoke.pc = "probe" /\ smoke.next = 1 /\ Outside /\ Answered(1)

ProbeDocument == /\ smoke.pc = "probe" /\ smoke.next > 1 /\ smoke.next \in Probes /\ Outside
                 /\ Answered(smoke.next)

WaitForDockerHealth ==
  /\ smoke.pc = "probe" /\ smoke.next \notin Probes /\ Outside
  /\ IF smoke.container \in Healthy THEN smoke' = [smoke EXCEPT !.pc = "write"] /\ UNCHANGED files ELSE Fail

WriteSmoke == /\ smoke.pc = "write" /\ Outside /\ smoke' = NoSmoke
              /\ files' = [files EXCEPT !.smoke = [image |-> smoke.image, tested |-> smoke.container, run |-> runs]]

SmokeFails == smoke.pc # "idle" /\ Fail /\ Outside
SmokeIsKilled == smoke.pc # "idle" /\ smoke' = NoSmoke /\ Outside /\ UNCHANGED files

-----------------------------------------------------------------------------
(* run-container-security.sh and check-container-vulnerabilities.mjs       *)
Inside == World /\ UNCHANGED <<smoke, runs>>
Go(pc) == [gate EXCEPT !.pc = pc]

StartGate ==
  /\ gate.pc = "idle" /\ Inside
  /\ files' = [files EXCEPT !.sbom = None, !.scan = None, !.status = None, !.summary = None]
  /\ gate' = [NoGate EXCEPT !.pc = "sbom", !.image = tag]

ListPackages == /\ gate.pc = "sbom" /\ files.smoke # None /\ Inside
                /\ files' = [files EXCEPT !.sbom = [image |-> gate.image, packages |-> Inventory[gate.image]]]
                /\ gate' = Go("database")

UpdateDatabase(built) == /\ gate.pc = "database" /\ Inside
                         /\ gate' = [Go("scan") EXCEPT !.database = built]
                         /\ files' = [files EXCEPT !.status = [built |-> built]]

\* Entries an ignore rule hides are listed apart.
Scan(ignored) ==
  /\ gate.pc = "scan" /\ Inside
  /\ LET found == files.sbom.packages \cap Blocked[gate.database] IN
     /\ ignored \subseteq found
     /\ files' = [files EXCEPT !.scan = [blocked |-> found \ ignored, ignored |-> ignored, built |-> gate.database]]
  /\ gate' = Go("read")

ReadInputs == /\ gate.pc = "read" /\ Inside
              /\ gate' = [Go("evaluate") EXCEPT !.input = files]
              /\ files' = [files EXCEPT !.summary = None]

ValidateSmoke(s, image) == s # None /\ s.image = image

ValidateSbom(s, image) == s # None /\ s.image = image /\ s.packages # {}

NothingBlocked(s) == s.blocked = {} /\ s.ignored = {}

ValidateDatabaseRecord(r) == now - r.built <= MaxAge /\ r.built - now <= MaxSkew

EvaluateContainerScan(in, image) ==
  /\ ValidateSmoke(in.smoke, image) /\ ValidateSbom(in.sbom, image)
  /\ NothingBlocked(in.scan)
  /\ ValidateDatabaseRecord(in.scan) /\ ValidateDatabaseRecord(in.status) /\ in.scan.built = in.status.built

Decide ==
  /\ gate.pc = "evaluate" /\ Inside /\ gate' = NoGate
  /\ files' = [files EXCEPT !.summary =
       IF EvaluateContainerScan(gate.input, gate.image)
       THEN [image |-> gate.image, smoke |-> gate.input.smoke, built |-> gate.input.status.built, at |-> now]
       ELSE None]

GateIsKilled == gate.pc # "idle" /\ gate' = NoGate /\ Inside /\ UNCHANGED files

Smoke == \/ StartSmoke \/ ValidateImageInspection \/ Run \/ ProbeHealth \/ ProbeDocument \/ WaitForDockerHealth \/ WriteSmoke
         \/ SmokeFails \/ SmokeIsKilled
Gate == \/ StartGate \/ ListPackages \/ (\E b \in 0..(now + MaxSkew) : UpdateDatabase(b))
        \/ (\E i \in SUBSET Packages : Scan(i)) \/ ReadInputs \/ Decide \/ GateIsKilled
Next == MoveTag \/ Tick \/ Smoke \/ Gate
Spec == Init /\ [][Next]_vars

-----------------------------------------------------------------------------
(* A smoke result in the directory is that of the last run: a later run    *)
(* that fails, or is killed at any point, leaves no evidence of an earlier *)
(* success ("await rm(options.output", container-smoke.mjs:268 and 339).   *)
SmokeIsOfTheLastRun == files.smoke # None => files.smoke.run = runs /\ smoke.pc = "idle"

(* A passing summary is of the image whose id the smoke evidence it read   *)
(* names, an image that is built as required.  The container that passed   *)
(* every probe is the one the tag meant at `docker run`: another one, if   *)
(* the tag was moved in between, so only an unmoved tag makes them one.    *)
(* Nothing in the image was known to be High or Critical to a database     *)
(* that was not older than the limit when the gate passed.                 *)
PassedIsOneImage ==
  files.summary # None => LET s == files.summary IN
    /\ s.smoke.image = s.image /\ s.image \in WellBuilt
    /\ Probes \subseteq Passes[s.smoke.tested] /\ s.smoke.tested \in Healthy
    /\ moves = 0 => s.smoke.tested = s.image

PassedIsClean ==
  files.summary # None => LET s == files.summary IN
    /\ Inventory[s.image] \cap Blocked[s.built] = {}
    /\ s.at - s.built <= MaxAge

=============================================================================
