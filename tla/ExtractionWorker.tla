--------------------------- MODULE ExtractionWorker ---------------------------
(***************************************************************************)
(* Extraction of reference data by a worker process: the tree and the game  *)
(* data are extracted by a hidden command of the program itself, which      *)
(* writes an artifact or an error file to the caller's scratch directory.   *)
(* The caller polls the files, the deadline and the process, stops the      *)
(* worker whatever happened, then reads and decodes the artifact.           *)
(*                                                                         *)
(* The worker may fail, hang or be killed at any moment.  Sizes are counted *)
(* in writes, and the contents of an artifact are whole or not.             *)
(***************************************************************************)
EXTENDS Naturals

CONSTANTS
  Limit         \* the writes an artifact may have

ASSUME LimitAssumption == Limit \in Nat

Kinds == {"tree", "game data"}

VARIABLES
  kind,
  step,         \* the caller's step
  outcome,      \* "none", "exited", "admitted" or the error
  overdue,      \* the deadline has passed
  process,      \* "none", "running", "exited", "collected"
  exit,         \* "none", "success", "failure"
  work,         \* the worker's step: "extract", "write", "fail", "done"
  size,         \* what the worker has to write
  artifact,     \* what it has written
  errors,       \* the error file exists
  scratch       \* "none", "present", "removed"

caller == <<kind, step, outcome, scratch>>
worker == <<exit, work, size, artifact, errors>>
extractionVars == <<caller, worker, overdue, process>>

ExtractionInit ==
  /\ kind \in Kinds
  /\ step = "start"
  /\ outcome = "none"
  /\ overdue = FALSE
  /\ process = "none"
  /\ exit = "none"
  /\ work = "extract"
  /\ size = 0
  /\ artifact = 0
  /\ errors = FALSE
  /\ scratch = "none"

Expire ==
  /\ ~overdue
  /\ overdue' = TRUE
  /\ UNCHANGED <<caller, worker, process>>

-----------------------------------------------------------------------------
(* The worker.                                                             *)

\* Game data is serialized first and measured; the tree goes to its file at once.
Extract ==
  /\ process = "running"
  /\ work = "extract"
  /\ \/ work' = "fail" /\ UNCHANGED size
     \/ size' \in 1..Limit + 1 /\ work' = "write" /\ (kind = "tree" \/ size' <= Limit)
     \/ kind = "game data" /\ size' = Limit + 1 /\ work' = "fail"
  /\ UNCHANGED <<caller, overdue, process, exit, artifact, errors>>

Write ==
  /\ process = "running"
  /\ work = "write"
  /\ \/ artifact < size /\ artifact' = artifact + 1 /\ UNCHANGED work
     \/ artifact = size /\ work' = "done" /\ UNCHANGED artifact
     \/ work' = "fail" /\ UNCHANGED artifact
  /\ UNCHANGED <<caller, overdue, process, exit, size, errors>>

\* Writing the error file may fail and nobody hears of it.
Exit ==
  /\ process = "running"
  /\ work \in {"fail", "done"}
  /\ process' = "exited"
  /\ exit' = IF work = "done" THEN "success" ELSE "failure"
  /\ errors' \in IF work = "done" THEN {FALSE} ELSE BOOLEAN
  /\ UNCHANGED <<caller, overdue, work, size, artifact>>

Crash ==
  /\ process = "running"
  /\ process' = "exited"
  /\ exit' = "failure"
  /\ UNCHANGED <<caller, overdue, work, size, artifact, errors>>

-----------------------------------------------------------------------------
(* The caller.                                                             *)

Goto(next) ==
  /\ step' = next
  /\ UNCHANGED <<kind, outcome, scratch, worker, overdue, process>>

End(what, next) ==
  /\ outcome' = what
  /\ step' = next
  /\ UNCHANGED <<kind, scratch, worker, overdue, process>>

\* The child is reaped when its status has been taken, once; the process is then gone.
reaped == process = "collected"

\* try_wait or wait.
Collect(next) ==
  /\ process = "exited"
  /\ process' = "collected"
  /\ step' = next
  /\ UNCHANGED <<kind, outcome, scratch, worker, overdue>>

OpenScratch ==
  /\ step = "start"
  /\ scratch' = "present"
  /\ step' = "spawn"
  /\ UNCHANGED <<kind, outcome, worker, overdue, process>>

Spawn ==
  /\ step = "spawn"
  /\ \/ overdue /\ End("late", "unwind")
     \/ ~overdue /\ End("spawn", "unwind")
     \/ /\ ~overdue
        /\ process' = "running"
        /\ step' = "files"
        /\ UNCHANGED <<kind, outcome, scratch, worker, overdue>>

Poll ==
  \/ /\ step = "files"
     /\ IF artifact > Limit THEN End("size", "stop") ELSE Goto("deadline")
  \/ /\ step = "deadline"
     /\ IF overdue THEN End("late", "stop") ELSE Goto("status")
  \/ /\ step = "status"
     /\ \/ End("status", "stop")
        \/ process = "running" /\ Goto("files")
        \/ Collect("last files")

\* Seeded fault: an artifact is taken for a success.
ExitedOrWritten ==
  /\ step \in {"last files", "last deadline"}
  /\ End(IF artifact > 0 THEN "exited" ELSE "worker", "stop")

\* What the worker wrote since the last look is looked at again.
Exited ==
  \/ /\ step = "last files"
     /\ \/ artifact > Limit /\ End("size", "stop")
        \/ artifact <= Limit /\ Goto("last deadline")
  \/ /\ step = "last deadline"
     /\ \/ kind = "game data" /\ overdue /\ End("late", "stop")
        \/ ~(kind = "game data" /\ overdue) /\ exit = "success" /\ End("exited", "stop")
        \/ ~(kind = "game data" /\ overdue) /\ exit # "success" /\ End("worker", "stop")

\* The worker is stopped in any case.
After == IF outcome = "exited" THEN "read" ELSE "unwind"

\* Seeded fault: the caller waits for the worker without killing it.
WaitToStop ==
  /\ step = "stop"
  /\ Goto(IF reaped THEN After ELSE "wait")

TryStop ==
  /\ step = "stop"
  /\ \/ reaped /\ Goto(After)
     \/ ~reaped /\ Collect(After)
     \/ ~reaped /\ process = "running" /\ Goto("kill")
     \/ ~reaped /\ End("cleanup", "drop kill")

Killed(next) ==
  /\ process' = "exited"
  /\ exit' = IF process = "running" THEN "failure" ELSE exit
  /\ step' = next
  /\ UNCHANGED <<kind, outcome, scratch, overdue, work, size, artifact, errors>>

\* A kill fails only for a process that has exited.
KillAndWait ==
  \/ /\ step = "kill"
     /\ \/ Killed("wait")
        \/ process = "exited" /\ Goto("killed")
  \/ /\ step = "killed"
     /\ \/ Collect(After)
        \/ End("cleanup", "drop kill")
  \/ /\ step = "wait"
     /\ Collect(After)

\* Seeded fault: the child is forgotten.
ForgetChild ==
  /\ step = "drop kill"
  /\ Goto("unwind")

\* A status that cannot be had leaves the worker to the drop of the child.
DropChild ==
  \/ /\ step = "drop kill"
     /\ Killed("drop wait")
  \/ /\ step = "drop wait"
     /\ Collect("unwind")

\* The artifact is read and decoded while the scratch is there; only the game data
\* has its deadline looked at before.
Read ==
  \/ /\ step = "read"
     /\ IF kind = "game data" /\ overdue THEN End("late", "unwind")
        ELSE IF artifact > Limit THEN End("size", "unwind") ELSE Goto("decode")
  \/ /\ step = "decode"
     /\ \/ End("invalid", "unwind")
        \/ artifact = size /\ Goto("admit")
  \/ /\ step = "admit"
     /\ End(IF overdue THEN "late" ELSE "admitted", "unwind")

Unwind ==
  /\ step = "unwind"
  /\ scratch' = "removed"
  /\ step' = "returned"
  /\ UNCHANGED <<kind, outcome, worker, overdue, process>>

Caller == OpenScratch \/ Spawn \/ Poll \/ Exited \/ TryStop \/ KillAndWait \/ DropChild \/ Read \/ Unwind
Worker == Extract \/ Write \/ Exit \/ Crash

ExtractionNext == Caller \/ Worker \/ Expire

ExtractionSpec == ExtractionInit /\ [][ExtractionNext]_extractionVars
FairExtractionSpec == ExtractionSpec /\ WF_extractionVars(Caller) /\ WF_extractionVars(Expire)

-----------------------------------------------------------------------------
(* Properties.                                                             *)

\* Data is admitted only from a worker that finished by itself, whole, and before
\* the deadline, when nobody can write to the artifact any more.
AdmittedIsFinal ==
  [][outcome' = "admitted" /\ outcome # "admitted" =>
       /\ process = "collected" /\ exit = "success"
       /\ artifact = size /\ artifact \in 1..Limit
       /\ ~overdue]_extractionVars

\* A worker never outlives its scratch directory nor its call.
NothingLeftRunning == scratch = "removed" => process \in {"none", "collected"}

\* The call returns, whether or not the worker ever does.
CallReturns == <>(step = "returned")
=============================================================================
