--------------------------- MODULE EvaluatorWorker ---------------------------
(***************************************************************************)
(* The program's own worker process (`__worker`, src/main.rs) under the     *)
(* supervisor: hello, the whole request line, one evaluation, one answer.   *)
(***************************************************************************)
EXTENDS Supervisor

\* This worker is one of those Supervisor.tla allows.
ASSUME HelloAssumption == "hello" \in WorkerLines

VARIABLE step   \* where the worker's main function is

allVars == <<vars, step>>

WorkerInit == Init /\ step = "hello"

SendHello == step = "hello" /\ WorkerWrites("hello") /\ step' = "request"

\* read_until: one pipe read at a time until the newline.
ReadRequest ==
  /\ step = "request" /\ WorkerReads
  /\ step' = IF taken' = RequestChunks THEN "evaluate" ELSE "request"

\* The pipe ends before the newline: an unterminated request is an error.
RequestCut ==
  /\ step = "request" /\ stdin = "closed" /\ taken = sent
  /\ sent < RequestChunks
  /\ WorkerExits("failure") /\ step' = "over"

\* The evaluation may write diagnostics to stderr.
EvaluationLogs == step = "evaluate" /\ WorkerLogs /\ UNCHANGED step

\* A successful evaluation or a WorkerFailure, sent as one line.
SendAnswer(l) ==
  /\ step = "evaluate" /\ l \in {"response", "failure"}
  /\ WorkerWrites(l) /\ step' = "exit"

\* The interpreter dies, or send_json finds the answer beyond its limit or the
\* pipe broken.
Break ==
  /\ \/ step = "evaluate"
     \/ step = "hello" /\ thread["stdout"] \in Ended
  /\ WorkerExits("failure") /\ step' = "over"

ExitNormally == step = "exit" /\ WorkerExits("success") /\ step' = "over"

EvaluatorStep ==
  \/ SendHello \/ ReadRequest \/ RequestCut \/ EvaluationLogs
  \/ \E l \in WorkerLines : SendAnswer(l)
  \/ Break \/ ExitNormally

WorkerNext == (Supervise /\ UNCHANGED step) \/ EvaluatorStep

WorkerSpec == WorkerInit /\ [][WorkerNext]_allVars

\* Everything but the deadline is scheduled, and the evaluation ends.
WorkerFairness ==
  /\ WF_allVars(Main /\ UNCHANGED step)
  /\ WF_allVars(ReadStdout /\ UNCHANGED step)
  /\ WF_allVars(DrainStderr /\ UNCHANGED step)
  /\ WF_allVars(WriteStdin /\ UNCHANGED step)
  /\ WF_allVars(KillTakesEffect /\ UNCHANGED step)
  /\ WF_allVars(EvaluatorStep)

FairWorkerSpec == WorkerSpec /\ WorkerFairness

\* Errors that blame the worker, or the system, for what neither did.
Blame ==
  {"InvalidJson", "ProtocolVersion", "RequestId", "TrailingOutput",
   "MessageOrder", "ThreadPanicked", "Io", "Path", "Spawn", "ThreadSpawn"}

\* The supervisor and its own worker agree on the protocol: with no failing system
\* call, the answer that was sent is the answer reported, whichever of the exit, the
\* end of the streams and the answer is noticed first, and only the deadline beats it.
\* A worker that sent none broke: it is reported as Exit or as IncompleteLine,
\* whichever is noticed first, and an error is never put on a worker that did not.
AnswerIsReported ==
  Faults = {} /\ pc = "done" =>
    /\ Len(written) = 2 => result \in {IF written[2] = "response" THEN "ok" ELSE "Worker", "Timeout"}
    /\ result \notin Blame
    /\ result \in {"Exit", "IncompleteLine"} => code = "failure"

\* The three pipes and the channel never wait on each other in a circle: while
\* the deadline has not passed the exchange gets to its end.
NoPipeDeadlock == <>(expired \/ pc = "done")
=============================================================================
