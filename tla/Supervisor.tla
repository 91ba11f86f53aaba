------------------------------ MODULE Supervisor ------------------------------
(***************************************************************************)
(* One call of supervisor::evaluate_with_options: the calling thread, the  *)
(* worker process it spawns, the three I/O threads that own the worker's   *)
(* pipes, the channel they report on, the deadline and the scratch         *)
(* directory.  The worker here is arbitrary: it writes any lines, reads or *)
(* ignores its input, closes its pipes, hangs, exits with any status.      *)
(* EvaluatorWorker.tla replaces it with the program's own worker.          *)
(***************************************************************************)
EXTENDS Naturals, Sequences

CONSTANTS
  Faults,         \* the operating-system calls that may fail in this instance
  WorkerLines,    \* the lines the worker may write to stdout
  MaxLines,       \* bound: lines the worker writes
  MaxStderr,      \* bound: chunks the worker writes to stderr
  RetainedStderr, \* MAX_STDERR_BYTES, in chunks
  PipeCapacity,   \* lines or chunks a pipe holds before its writer blocks
  RequestChunks   \* pipe writes the serialized request takes

Streams == {"stdin", "stdout", "stderr"}

\* A stdout line is told apart only by what the two validators make of it.
\* "stale": another protocol version; "foreign": another request id;
\* "failure": a response that carries a WorkerFailure; "junk": not the JSON of
\* the message expected; "long": beyond the byte limit of its stage.
Lines == {"hello", "response", "failure", "stale", "foreign", "junk", "long"}

\* Operating-system calls that can fail: resolving a path, creating or removing
\* the scratch directory, spawning the process or a thread, waitpid without and
\* with blocking, kill, a pipe read; "panic" is an I/O thread that unwinds.
OsFaults == {"path", "create", "remove", "spawn", "thread", "status", "wait",
             "kill", "pipe", "panic"}

ErrorKinds == {"InvalidTimeout", "InputTooLarge", "Path", "OutputTooLarge",
               "Spawn", "ThreadSpawn", "Io", "IncompleteLine", "InvalidJson",
               "ProtocolVersion", "RequestId", "TrailingOutput",
               "MessageOrder", "Timeout", "Exit", "Worker", "ThreadPanicked"}

ASSUME FaultsAssumption == Faults \subseteq OsFaults
ASSUME LinesAssumption == WorkerLines \subseteq Lines
ASSUME BoundsAssumption ==
  /\ MaxLines \in Nat /\ MaxStderr \in Nat /\ RetainedStderr \in Nat
  /\ PipeCapacity \in Nat \ {0} /\ RequestChunks \in Nat \ {0}

Event == [type : {"Hello", "Response"}, arg : Lines]
           \cup [type : {"Finished"}, arg : Streams]
           \cup [type : {"Failed"}, arg : ErrorKinds]

VARIABLES
  pc, result, cleanup,                    \* the calling thread
  hello_received, response, finished, exit_status,  \* locals of exchange
  stdin,                                  \* who owns the pipe's write end
  process, code, closed, reaped,          \* the worker, and ReapedChild.reaped
  written, outRead,                       \* stdout: written lines, lines read
  errWritten, errRead, kept, truncated,   \* stderr and Diagnostics
  sent, taken,                            \* stdin: chunks written, chunks read
  thread, channel,                        \* I/O threads and their mpsc channel
  expired, scratch

main == <<pc, result, cleanup>>
locals == <<hello_received, response, finished, exit_status>>
worker == <<process, code, closed>>
outPipe == <<written, outRead>>
errPipe == <<errWritten, errRead, kept, truncated>>
inPipe == <<sent, taken>>
io == <<thread, channel>>
vars == <<main, locals, stdin, worker, reaped, outPipe, errPipe, inPipe, io,
          expired, scratch>>

MainPcs == {"entry", "check", "spawn", "start_stdout", "start_stderr", "top",
            "poll", "recv", "drop_stdin", "stop", "kill", "kill_failed",
            "wait", "join", "drop_kill", "drop_wait", "close", "done"}

Ended == {"done", "panicked"}
Running(s) == thread[s] \notin Ended \cup {"unborn"}

Init ==
  /\ pc = "entry" /\ result = "none" /\ cleanup = {}
  /\ hello_received = FALSE /\ response = FALSE
  /\ finished = {} /\ exit_status = "none"
  /\ stdin = "none"
  /\ process = "absent" /\ code = "none" /\ closed = FALSE /\ reaped = FALSE
  /\ written = <<>> /\ outRead = 0
  /\ errWritten = 0 /\ errRead = 0 /\ kept = 0 /\ truncated = FALSE
  /\ sent = 0 /\ taken = 0
  /\ thread = [s \in Streams |-> "unborn"] /\ channel = <<>>
  /\ expired = FALSE /\ scratch = "none"

-----------------------------------------------------------------------------
(* The calling thread, up to the spawned worker.                           *)

\* The early returns of evaluate_with_options: a zero or unrepresentable
\* timeout, XML or a request beyond its limit, a path that does not resolve,
\* no scratch directory.
Refuse(k) ==
  /\ pc = "entry"
  /\ \/ k \in {"InvalidTimeout", "InputTooLarge", "OutputTooLarge"}
     \/ k = "Path" /\ "path" \in Faults
     \/ k = "Io" /\ "create" \in Faults
  /\ pc' = "done" /\ result' = k
  /\ UNCHANGED <<cleanup, locals, stdin, worker, reaped, outPipe, errPipe,
                 inPipe, io, expired, scratch>>

\* The scratch directory exists; with_scratch resolves its path and, when that
\* fails, drops the TempDir, which removes it and says nothing when it cannot.
OpenScratch ==
  /\ pc = "entry"
  /\ \/ pc' = "check" /\ scratch' = "present" /\ UNCHANGED result
     \/ /\ "path" \in Faults
        /\ pc' = "done" /\ result' = "Path"
        /\ \/ scratch' = "removed"
           \/ "remove" \in Faults /\ scratch' = "leaked"
  /\ UNCHANGED <<cleanup, locals, stdin, worker, reaped, outPipe, errPipe,
                 inPipe, io, expired>>

CheckDeadline ==
  /\ pc = "check"
  /\ IF expired THEN pc' = "close" /\ result' = "Timeout"
                ELSE pc' = "spawn" /\ UNCHANGED result
  /\ UNCHANGED <<cleanup, locals, stdin, worker, reaped, outPipe, errPipe,
                 inPipe, io, expired, scratch>>

Spawn ==
  /\ pc = "spawn"
  /\ \/ /\ pc' = "start_stdout" /\ process' = "running" /\ stdin' = "held"
        /\ UNCHANGED result
     \/ /\ "spawn" \in Faults
        /\ pc' = "close" /\ result' = "Spawn" /\ UNCHANGED <<process, stdin>>
  /\ UNCHANGED <<cleanup, locals, code, closed, reaped, outPipe, errPipe,
                 inPipe, io, expired, scratch>>

\* An error inside the closure of supervise: it becomes the call's result and
\* the cleanup that follows the closure begins.
Fail(k) == pc' = "drop_stdin" /\ result' = k

\* spawn_io_thread for one of the two output streams.
StartReader(s, at, first, next) ==
  /\ pc = at
  /\ \/ /\ thread' = [thread EXCEPT ![s] = first]
        /\ pc' = next /\ UNCHANGED result
     \/ "thread" \in Faults /\ Fail("ThreadSpawn") /\ UNCHANGED thread
  /\ UNCHANGED <<cleanup, locals, stdin, worker, reaped, outPipe, errPipe,
                 inPipe, channel, expired, scratch>>

StartStdout == StartReader("stdout", "start_stdout", "hello", "start_stderr")
StartStderr == StartReader("stderr", "start_stderr", "read", "top")

-----------------------------------------------------------------------------
(* exchange: deadline, exit status, one event, again.                      *)

DeadlineCheck ==
  /\ pc = "top"
  /\ IF expired THEN Fail("Timeout") ELSE pc' = "poll" /\ UNCHANGED result
  /\ UNCHANGED <<cleanup, locals, stdin, worker, reaped, outPipe, errPipe,
                 inPipe, io, expired, scratch>>

\* Seeded faults for Decide: the exit alone ends the exchange; the diagnostics
\* are not waited for.
DecideOnExit(st) ==
  CASE st = "failure" -> Fail("Exit")
    [] st = "success" ->
         pc' = "drop_stdin" /\ result' = IF response THEN "ok" ELSE "MessageOrder"
    [] OTHER -> pc' = "recv" /\ UNCHANGED result

DecideWithoutStderr(st) ==
  CASE st = "failure" -> Fail("Exit")
    [] st = "success" /\ {"stdin", "stdout"} \subseteq finished ->
         pc' = "drop_stdin" /\ result' = IF response THEN "ok" ELSE "MessageOrder"
    [] OTHER -> pc' = "recv" /\ UNCHANGED result

\* What exchange does once it holds exit status st (or "none").
Decide(st) ==
  CASE st = "failure" -> Fail("Exit")
    [] st = "success" /\ finished = Streams ->
         /\ pc' = "drop_stdin"
         /\ result' = IF response THEN "ok" ELSE "MessageOrder"
    [] OTHER -> pc' = "recv" /\ UNCHANGED result

\* A process that has exited is collected by ReapedChild::try_wait.
Collect == process' = "collected" /\ reaped' = TRUE

Poll ==
  /\ pc = "poll"
  /\ \/ /\ exit_status # "none"
        /\ Decide(exit_status)
        /\ UNCHANGED <<exit_status, process, reaped>>
     \/ /\ exit_status = "none" /\ process = "zombie"
        /\ exit_status' = code /\ Collect
        /\ Decide(code)
     \/ /\ exit_status = "none" /\ process # "zombie"
        /\ Decide("none")
        /\ UNCHANGED <<exit_status, process, reaped>>
     \/ /\ exit_status = "none" /\ "status" \in Faults
        /\ Fail("Io")
        /\ UNCHANGED <<exit_status, process, reaped>>
  /\ UNCHANGED <<cleanup, hello_received, response, finished, stdin, code,
                 closed, outPipe, errPipe, inPipe, io, expired, scratch>>

\* recv_timeout returns nothing within EXIT_POLL_INTERVAL.
RecvNothing ==
  /\ pc = "recv" /\ channel = <<>>
  /\ pc' = "top"
  /\ UNCHANGED <<result, cleanup, locals, stdin, worker, reaped, outPipe,
                 errPipe, inPipe, io, expired, scratch>>

\* validate_hello and validate_response: "ok" or the error kind.
HelloVerdict(l) ==
  CASE l = "hello" -> "ok" [] l = "stale" -> "ProtocolVersion"
    [] OTHER -> "InvalidJson"

ResponseVerdict(l) ==
  CASE l = "response" -> "ok"     [] l = "failure" -> "Worker"
    [] l = "stale" -> "ProtocolVersion" [] l = "foreign" -> "RequestId"
    [] OTHER -> "InvalidJson"

\* Reading an event from the head of the channel; each handler below is the
\* whole match arm.
Receive(type) ==
  /\ pc = "recv" /\ channel # <<>> /\ Head(channel).type = type
  /\ channel' = Tail(channel)
  /\ UNCHANGED <<cleanup, exit_status, worker, reaped, outPipe, errPipe,
                 inPipe, expired, scratch>>

\* The hello hands the pipe and the request to the stdin thread; both are gone
\* from exchange whether or not the thread starts.
OnHello ==
  /\ Receive("Hello")
  /\ LET verdict == HelloVerdict(Head(channel).arg)
     IN  \/ /\ hello_received \/ verdict # "ok"
            /\ Fail(IF hello_received THEN "MessageOrder" ELSE verdict)
            /\ UNCHANGED <<hello_received, stdin, thread>>
         \/ /\ ~hello_received /\ verdict = "ok"
            /\ hello_received' = TRUE
            /\ \/ /\ thread' = [thread EXCEPT !["stdin"] = "write"]
                  /\ stdin' = "moved" /\ pc' = "top" /\ UNCHANGED result
               \/ /\ "thread" \in Faults
                  /\ Fail("ThreadSpawn")
                  /\ stdin' = "closed" /\ UNCHANGED thread
  /\ UNCHANGED <<response, finished>>

OnResponse ==
  /\ Receive("Response")
  /\ LET verdict == ResponseVerdict(Head(channel).arg)
     IN  \/ /\ ~hello_received \/ response \/ verdict # "ok"
            /\ Fail(IF ~hello_received \/ response THEN "MessageOrder"
                                                   ELSE verdict)
            /\ UNCHANGED response
         \/ /\ hello_received /\ ~response /\ verdict = "ok"
            /\ response' = TRUE /\ pc' = "top" /\ UNCHANGED result
  /\ UNCHANGED <<hello_received, finished, stdin, thread>>

OnFinished ==
  /\ Receive("Finished")
  /\ finished' = finished \cup {Head(channel).arg}
  /\ pc' = "top"
  /\ UNCHANGED <<result, hello_received, response, stdin, thread>>

OnFailed ==
  /\ Receive("Failed")
  /\ Fail(Head(channel).arg)
  /\ UNCHANGED <<hello_received, response, finished, stdin, thread>>

-----------------------------------------------------------------------------
(* Cleanup: close stdin, stop a worker whose call failed, join, drop, close. *)

DropStdin ==
  /\ pc = "drop_stdin"
  /\ stdin' = IF stdin = "held" THEN "closed" ELSE stdin
  /\ pc' = IF result = "ok" THEN "join" ELSE "stop"
  /\ UNCHANGED <<result, cleanup, locals, worker, reaped, outPipe, errPipe,
                 inPipe, io, expired, scratch>>

\* Seeded fault: the failed call joins its threads without stopping the worker.
JoinWithoutStop ==
  /\ pc = "stop" /\ pc' = "join"
  /\ UNCHANGED <<result, cleanup, locals, stdin, worker, reaped, outPipe,
                 errPipe, inPipe, io, expired, scratch>>

\* ReapedChild::stop: nothing to do for a collected child, otherwise try_wait.
StopCheck ==
  /\ pc = "stop"
  /\ \/ /\ reaped
        /\ pc' = "join" /\ UNCHANGED <<cleanup, process, reaped>>
     \/ /\ ~reaped /\ process = "zombie"
        /\ Collect /\ pc' = "join" /\ UNCHANGED cleanup
     \/ /\ ~reaped /\ process # "zombie"
        /\ pc' = "kill" /\ UNCHANGED <<cleanup, process, reaped>>
     \/ /\ ~reaped /\ "status" \in Faults
        /\ cleanup' = cleanup \cup {"stop"}
        /\ pc' = "join" /\ UNCHANGED <<process, reaped>>
  /\ UNCHANGED <<result, locals, stdin, code, closed, outPipe, errPipe,
                 inPipe, io, expired, scratch>>

\* kill takes a running process to "killed"; killing one that has already
\* exited succeeds on Unix and fails on Windows.
Kill ==
  /\ pc = "kill"
  /\ \/ /\ process' = IF process = "running" THEN "killed" ELSE process
        /\ pc' = "wait"
     \/ /\ "kill" \in Faults \/ process = "zombie"
        /\ pc' = "kill_failed" /\ UNCHANGED process
  /\ UNCHANGED <<result, cleanup, locals, stdin, code, closed, reaped, outPipe,
                 errPipe, inPipe, io, expired, scratch>>

\* The second try_wait of stop; a worker still running makes the kill error
\* the cleanup error.  (The wait after a successful try_wait only repeats the
\* status the handle has cached.)
KillFailed ==
  /\ pc = "kill_failed"
  /\ pc' = "join"
  /\ \/ process = "zombie" /\ Collect /\ UNCHANGED cleanup
     \/ /\ process # "zombie" \/ "status" \in Faults
        /\ cleanup' = cleanup \cup {"stop"} /\ UNCHANGED <<process, reaped>>
  /\ UNCHANGED <<result, locals, stdin, code, closed, outPipe, errPipe,
                 inPipe, io, expired, scratch>>

\* wait blocks until the process has exited, unless the call itself fails.
Wait ==
  /\ pc = "wait"
  /\ pc' = "join"
  /\ \/ process = "zombie" /\ Collect /\ UNCHANGED cleanup
     \/ /\ "wait" \in Faults
        /\ cleanup' = cleanup \cup {"stop"} /\ UNCHANGED <<process, reaped>>
  /\ UNCHANGED <<result, locals, stdin, code, closed, outPipe, errPipe,
                 inPipe, io, expired, scratch>>

\* Seeded fault: no Drop for a child that stop could not collect.
JoinWithoutDrop ==
  /\ pc = "join" /\ pc' = "close"
  /\ \A s \in Streams : ~Running(s)
  /\ UNCHANGED <<result, cleanup, locals, stdin, worker, reaped, outPipe,
                 errPipe, inPipe, io, expired, scratch>>

\* Joining blocks until every thread started has ended.
Join ==
  /\ pc = "join"
  /\ \A s \in Streams : ~Running(s)
  /\ result' = IF result = "ok" /\ \E s \in Streams : thread[s] = "panicked"
                 THEN "ThreadPanicked" ELSE result
  /\ pc' = IF reaped THEN "close" ELSE "drop_kill"
  /\ UNCHANGED <<cleanup, locals, stdin, worker, reaped, outPipe, errPipe,
                 inPipe, io, expired, scratch>>

\* Drop for ReapedChild: kill and wait, both errors ignored.
DropKill ==
  /\ pc = "drop_kill"
  /\ pc' = "drop_wait"
  /\ \/ process' = IF process = "running" THEN "killed" ELSE process
     \/ "kill" \in Faults /\ UNCHANGED process
  /\ UNCHANGED <<result, cleanup, locals, stdin, code, closed, reaped, outPipe,
                 errPipe, inPipe, io, expired, scratch>>

\* Seeded fault: Drop kills without waiting.
DropWithoutWait ==
  /\ pc = "drop_wait" /\ pc' = "close"
  /\ UNCHANGED <<result, cleanup, locals, stdin, worker, reaped, outPipe,
                 errPipe, inPipe, io, expired, scratch>>

DropWait ==
  /\ pc = "drop_wait"
  /\ pc' = "close"
  /\ \/ process = "zombie" /\ process' = "collected"
     \/ "wait" \in Faults /\ UNCHANGED process
  /\ UNCHANGED <<result, cleanup, locals, stdin, code, closed, reaped, outPipe,
                 errPipe, inPipe, io, expired, scratch>>

\* Seeded faults: a directory that cannot be removed is only noted; its error
\* replaces the first one.
CloseScratchNotes ==
  /\ pc = "close" /\ pc' = "done"
  /\ \/ scratch' = "removed" /\ UNCHANGED cleanup
     \/ /\ "remove" \in Faults
        /\ scratch' = "leaked" /\ cleanup' = cleanup \cup {"remove"}
  /\ UNCHANGED <<result, locals, stdin, worker, reaped, outPipe, errPipe,
                 inPipe, io, expired>>

CloseScratchOverrides ==
  /\ pc = "close" /\ pc' = "done"
  /\ \/ scratch' = "removed" /\ UNCHANGED <<result, cleanup>>
     \/ /\ "remove" \in Faults
        /\ scratch' = "leaked" /\ cleanup' = cleanup \cup {"remove"}
        /\ result' = "Io"
  /\ UNCHANGED <<locals, stdin, worker, reaped, outPipe, errPipe, inPipe, io,
                 expired>>

\* with_scratch closes the directory and reports a failure to do so without
\* hiding an earlier one.
CloseScratch ==
  /\ pc = "close"
  /\ pc' = "done"
  /\ \/ scratch' = "removed" /\ UNCHANGED <<result, cleanup>>
     \/ /\ "remove" \in Faults
        /\ scratch' = "leaked"
        /\ cleanup' = cleanup \cup {"remove"}
        /\ result' = IF result = "ok" THEN "Io" ELSE result
  /\ UNCHANGED <<locals, stdin, worker, reaped, outPipe, errPipe, inPipe, io,
                 expired>>

Main ==
  \/ \E k \in ErrorKinds : Refuse(k)
  \/ OpenScratch \/ CheckDeadline \/ Spawn \/ StartStdout \/ StartStderr
  \/ DeadlineCheck \/ Poll \/ RecvNothing
  \/ OnHello \/ OnResponse \/ OnFinished \/ OnFailed
  \/ DropStdin \/ StopCheck \/ Kill \/ KillFailed \/ Wait \/ Join
  \/ DropKill \/ DropWait \/ CloseScratch

-----------------------------------------------------------------------------
(* The I/O threads.  The channel is unbounded and its receiver lives until  *)
(* the threads are joined, so a send neither blocks nor fails.              *)

Alive == process \in {"running", "killed"}

\* The worker's end of a pipe is open.
Open == Alive /\ ~closed

Unread == Len(written) - outRead

\* An I/O task ends and send_completion reports how.
Complete(s, event) ==
  /\ thread' = [thread EXCEPT ![s] = "done"]
  /\ channel' = Append(channel, event)

Finish(s) == Complete(s, [type |-> "Finished", arg |-> s])
Abort(s, k) == Complete(s, [type |-> "Failed", arg |-> k])

\* read_bounded_line at one stage of read_stdout: a line within the limit is
\* sent as an event and the next stage begins.
ReadLine(stage, type, next) ==
  /\ thread["stdout"] = stage
  /\ \/ /\ Unread > 0
        /\ outRead' = outRead + 1
        /\ LET l == written[outRead + 1]
           IN  IF l = "long"
                 THEN Abort("stdout", "OutputTooLarge")
                 ELSE /\ channel' = Append(channel, [type |-> type, arg |-> l])
                      /\ thread' = [thread EXCEPT !["stdout"] = next]
     \/ /\ Unread = 0 /\ ~Open
        /\ Abort("stdout", "IncompleteLine") /\ UNCHANGED outRead

ReadTail ==
  /\ thread["stdout"] = "tail"
  /\ \/ Unread > 0 /\ Abort("stdout", "TrailingOutput")
     \/ Unread = 0 /\ ~Open /\ Finish("stdout")
  /\ UNCHANGED outRead

ReadStdout ==
  /\ \/ ReadLine("hello", "Hello", "response")
     \/ ReadLine("response", "Response", "tail")
     \/ ReadTail
     \/ /\ "pipe" \in Faults /\ Running("stdout")
        /\ Abort("stdout", "Io") /\ UNCHANGED outRead
  /\ UNCHANGED <<main, locals, stdin, worker, reaped, written, errPipe, inPipe,
                 expired, scratch>>

\* Seeded fault: nothing is read beyond the retention limit.
ChunkWithinLimit == errRead < errWritten /\ kept < RetainedStderr

ChunkWaiting == errRead < errWritten

\* drain_stderr: read to the end, retain the first chunks (Diagnostics::append).
DrainStderr ==
  /\ thread["stderr"] = "read"
  /\ \/ /\ ChunkWaiting
        /\ errRead' = errRead + 1
        /\ IF kept < RetainedStderr
             THEN kept' = kept + 1 /\ UNCHANGED truncated
             ELSE truncated' = TRUE /\ UNCHANGED kept
        /\ UNCHANGED io
     \/ /\ errRead = errWritten /\ ~Open
        /\ Finish("stderr") /\ UNCHANGED <<errRead, kept, truncated>>
     \/ /\ "pipe" \in Faults
        /\ Abort("stderr", "Io") /\ UNCHANGED <<errRead, kept, truncated>>
  /\ UNCHANGED <<main, locals, stdin, worker, reaped, outPipe, errWritten,
                 inPipe, expired, scratch>>

\* The stdin task: write_all blocks on a full pipe and fails on a broken one,
\* then the pipe is dropped and the completion sent.
WriteStdin ==
  /\ thread["stdin"] = "write"
  /\ \/ /\ sent < RequestChunks /\ Open /\ sent - taken < PipeCapacity
        /\ sent' = sent + 1 /\ UNCHANGED <<io, stdin>>
     \/ /\ sent < RequestChunks /\ (~Open \/ "pipe" \in Faults)
        /\ Abort("stdin", "Io") /\ stdin' = "closed" /\ UNCHANGED sent
     \/ /\ sent = RequestChunks
        /\ Finish("stdin") /\ stdin' = "closed" /\ UNCHANGED sent
  /\ UNCHANGED <<main, locals, worker, reaped, outPipe, errPipe, taken,
                 expired, scratch>>

Panic(s) ==
  /\ "panic" \in Faults /\ Running(s)
  /\ thread' = [thread EXCEPT ![s] = "panicked"]
  /\ stdin' = IF s = "stdin" THEN "closed" ELSE stdin
  /\ UNCHANGED <<main, locals, worker, reaped, outPipe, errPipe, inPipe,
                 channel, expired, scratch>>

-----------------------------------------------------------------------------
(* The worker process and the clock.                                       *)

\* A pipe whose reader has gone gives the worker a write error, never a line.
WorkerWrites(l) ==
  /\ process = "running" /\ ~closed
  /\ Len(written) < MaxLines /\ Unread < PipeCapacity
  /\ thread["stdout"] \notin Ended
  /\ written' = Append(written, l)
  /\ UNCHANGED <<main, locals, stdin, worker, reaped, outRead, errPipe, inPipe,
                 io, expired, scratch>>

WorkerLogs ==
  /\ process = "running" /\ ~closed
  /\ errWritten < MaxStderr /\ errWritten - errRead < PipeCapacity
  /\ thread["stderr"] \notin Ended
  /\ errWritten' = errWritten + 1
  /\ UNCHANGED <<main, locals, stdin, worker, reaped, outPipe, errRead, kept,
                 truncated, inPipe, io, expired, scratch>>

WorkerReads ==
  /\ process = "running" /\ ~closed /\ taken < sent
  /\ taken' = taken + 1
  /\ UNCHANGED <<main, locals, stdin, worker, reaped, outPipe, errPipe, sent,
                 io, expired, scratch>>

WorkerCloses ==
  /\ process = "running" /\ ~closed
  /\ closed' = TRUE
  /\ UNCHANGED <<main, locals, stdin, process, code, reaped, outPipe, errPipe,
                 inPipe, io, expired, scratch>>

WorkerExits(c) ==
  /\ process = "running"
  /\ process' = "zombie" /\ code' = c
  /\ UNCHANGED <<main, locals, stdin, closed, reaped, outPipe, errPipe, inPipe,
                 io, expired, scratch>>

Worker ==
  \/ \E l \in WorkerLines : WorkerWrites(l)
  \/ WorkerLogs \/ WorkerReads \/ WorkerCloses
  \/ \E c \in {"success", "failure"} : WorkerExits(c)

\* The operating system delivers the kill.
KillTakesEffect ==
  /\ process = "killed"
  /\ process' = "zombie" /\ code' = "failure"
  /\ UNCHANGED <<main, locals, stdin, closed, reaped, outPipe, errPipe, inPipe,
                 io, expired, scratch>>

DeadlinePasses ==
  /\ ~expired /\ pc # "done"
  /\ expired' = TRUE
  /\ UNCHANGED <<main, locals, stdin, worker, reaped, outPipe, errPipe, inPipe,
                 io, scratch>>

\* The call has returned and nothing of it is left to run.
Returned == pc = "done" /\ ~Alive /\ UNCHANGED vars

Supervise ==
  \/ Main
  \/ ReadStdout \/ DrainStderr \/ WriteStdin
  \/ \E s \in Streams : Panic(s)
  \/ KillTakesEffect \/ DeadlinePasses \/ Returned

Next == Supervise \/ Worker

\* Threads are scheduled, the clock moves and a kill arrives; nothing is
\* promised for the worker.
Fairness ==
  /\ WF_vars(Main) /\ WF_vars(ReadStdout) /\ WF_vars(DrainStderr)
  /\ WF_vars(WriteStdin) /\ WF_vars(KillTakesEffect)
  /\ WF_vars(DeadlinePasses)

Spec == Init /\ [][Next]_vars
FairSpec == Spec /\ Fairness

-----------------------------------------------------------------------------
(* Properties.                                                             *)

\* Every variable stays within its type; in particular the channel only ever
\* carries the events exchange matches on.
TypeOK ==
  /\ pc \in MainPcs
  /\ result \in {"none", "ok"} \cup ErrorKinds
  /\ cleanup \subseteq {"stop", "remove"}
  /\ hello_received \in BOOLEAN /\ response \in BOOLEAN
  /\ finished \subseteq Streams
  /\ exit_status \in {"none", "success", "failure"}
  /\ stdin \in {"none", "held", "moved", "closed"}
  /\ process \in {"absent", "running", "killed", "zombie", "collected"}
  /\ code \in {"none", "success", "failure"}
  /\ closed \in BOOLEAN /\ reaped \in BOOLEAN
  /\ written \in Seq(Lines) /\ outRead \in Nat
  /\ errWritten \in Nat /\ errRead \in Nat /\ kept \in Nat
  /\ truncated \in BOOLEAN
  /\ sent \in Nat /\ taken \in Nat
  /\ thread \in [Streams -> {"unborn", "hello", "response", "tail", "read",
                             "write", "done", "panicked"}]
  /\ channel \in Seq(Event)
  /\ expired \in BOOLEAN
  /\ scratch \in {"none", "present", "removed", "leaked"}

\* A call succeeds only for a worker that exited with status zero, was
\* collected, and wrote a hello and a response and nothing else: an exit seen
\* before the pipes are drained, or an answer from a worker that then failed,
\* is never a success (exchange, lines 447-456, and read_stdout).
SnapshotIsEarned ==
  result = "ok" =>
    /\ process = "collected" /\ exit_status = "success"
    /\ written = <<"hello", "response">>
    /\ sent = RequestChunks
    /\ \A s \in Streams : thread[s] = "done"

\* The diagnostics of a successful call are all the worker wrote to stderr, up
\* to the retention limit, and are marked truncated exactly when some of it was
\* dropped (drain_stderr, Diagnostics::append and the wait for Finished(Stderr)).
DiagnosticsAreComplete ==
  result = "ok" =>
    /\ errRead = errWritten
    /\ kept = (IF errWritten <= RetainedStderr THEN errWritten
                                               ELSE RetainedStderr)
    /\ truncated = (errWritten > RetainedStderr)

\* The scratch directory outlives the worker that uses it and the threads that
\* serve it, on every path out of supervise (doc comments of evaluate and
\* with_scratch), unless waiting for the process itself fails.
ScratchOutlivesWorker ==
  scratch \in {"removed", "leaked"} =>
    /\ process \in {"absent", "collected"} \/ "wait" \in Faults
    /\ \A s \in Streams : ~Running(s)

\* A call that returns leaves nothing behind: no scratch directory and no worker,
\* or the error it returns names what it could not clean up (close in with_scratch,
\* stop in supervise).  A directory stays unmentioned only when its own path did not
\* resolve, before any worker: the TempDir is dropped then, and ignores that it cannot
\* be removed.
NothingLeftBehind ==
  pc = "done" =>
    /\ "remove" \in cleanup => scratch = "leaked"
    /\ scratch = "leaked" =>
         "remove" \in cleanup \/ (result = "Path" /\ process = "absent" /\ cleanup = {})
    /\ cleanup # {} => result # "ok"
    /\ Alive => "wait" \in Faults

\* The first failure is the one reported: cleanup may turn a success into a
\* failure but never replaces a failure, and a failure never becomes a success.
FirstFailureKept ==
  [][result # "none" => \/ result' = result
                        \/ result = "ok" /\ result' \in {"ThreadPanicked", "Io"}
    ]_result

\* Every call returns, whatever the worker does: hangs, fills a pipe, closes its
\* streams or ignores its input.
EveryCallReturns == <>(pc = "done")

\* The call seen by its caller.
Call == INSTANCE EvaluationCall WITH
  call <- IF pc = "done" THEN "returned" ELSE "open",
  worker <- CASE process = "absent" -> "none" [] Alive -> "live"
              [] process = "zombie" -> "exited" [] OTHER -> "collected",
  storage <- CASE scratch = "none" -> "none" [] scratch = "present" -> "held"
               [] OTHER -> "gone",
  outcome <- CASE result = "none" -> "pending" [] result = "ok" -> "snapshot"
               [] OTHER -> "error"

\* The call implements its abstract promise: the scratch directory and the
\* worker are acquired and released in order, the worker is collected before
\* the call returns, and an outcome never goes back.
ImplementsEvaluationCall == Call!Spec
=============================================================================
