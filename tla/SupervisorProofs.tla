--------------------------- MODULE SupervisorProofs ---------------------------
(***************************************************************************)
(* What Supervisor.tla promises for every worker, every set of failing      *)
(* calls and every capacity, and what EvaluatorWorker.tla adds to it for    *)
(* the program's own worker.                                                *)
(***************************************************************************)
EXTENDS EvaluatorWorker, TLAPS

\* The two verdicts are "ok" or an error kind.
LEMMA Verdicts ==
  \A l \in Lines : /\ HelloVerdict(l) \in {"ok"} \cup ErrorKinds
                   /\ ResponseVerdict(l) \in {"ok"} \cup ErrorKinds
  BY DEF Lines, HelloVerdict, ResponseVerdict, ErrorKinds

\* The head of a well-typed channel carries what its type announces.
LEMMA HeadEvent ==
  ASSUME channel \in Seq(Event), channel # <<>>
  PROVE  /\ Head(channel).type \in {"Hello", "Response"}
              => Head(channel).arg \in Lines
         /\ Head(channel).type = "Finished" => Head(channel).arg \in Streams
         /\ Head(channel).type = "Failed" => Head(channel).arg \in ErrorKinds
         /\ Tail(channel) \in Seq(Event)
<1>1. Head(channel) \in Event
  OBVIOUS
<1>2. QED
  BY <1>1 DEF Event

\* What is sent on the channel is an event.
LEMMA Sent ==
  /\ \A s \in Streams : [type |-> "Finished", arg |-> s] \in Event
  /\ \A k \in ErrorKinds : [type |-> "Failed", arg |-> k] \in Event
  /\ \A l \in Lines : \A t \in {"Hello", "Response"} :
       [type |-> t, arg |-> l] \in Event
  BY DEF Event

\* The program counters of the I/O threads.
ThreadPcs == {"unborn", "hello", "response", "tail", "read", "write", "done",
              "panicked"}

\* The completion of a task keeps threads and channel typed.
LEMMA Completed ==
  ASSUME TypeOK, NEW s \in Streams,
         Finish(s) \/ \E k \in ErrorKinds : Abort(s, k)
  PROVE  thread' \in [Streams -> ThreadPcs] /\ channel' \in Seq(Event)
<1>1. PICK e \in Event : Complete(s, e)
  BY Sent DEF Finish, Abort
<1>2. QED
  BY <1>1 DEF Complete, TypeOK, ThreadPcs

\* So does a line read.
LEMMA LineRead ==
  ASSUME TypeOK, NEW stage, NEW type \in {"Hello", "Response"},
         NEW next \in ThreadPcs, ReadLine(stage, type, next)
  PROVE  /\ thread' \in [Streams -> ThreadPcs] /\ channel' \in Seq(Event)
         /\ outRead' \in Nat
<1>1. "stdout" \in Streams /\ {"OutputTooLarge", "IncompleteLine"} \subseteq ErrorKinds
  BY DEF Streams, ErrorKinds
<1>2. CASE Unread = 0 /\ Abort("stdout", "IncompleteLine") /\ UNCHANGED outRead
  BY <1>1, <1>2, Completed DEF TypeOK
<1>3. CASE Unread > 0 /\ outRead' = outRead + 1
           /\ Abort("stdout", "OutputTooLarge")
  BY <1>1, <1>3, Completed DEF TypeOK
<1>4. ASSUME Unread > 0, outRead' = outRead + 1,
             channel' = Append(channel, [type |-> type,
                                         arg |-> written[outRead + 1]]),
             thread' = [thread EXCEPT !["stdout"] = next]
      PROVE  /\ thread' \in [Streams -> ThreadPcs] /\ channel' \in Seq(Event)
             /\ outRead' \in Nat
  <2>1. written[outRead + 1] \in Lines
    BY <1>4 DEF TypeOK, Unread
  <2>2. [type |-> type, arg |-> written[outRead + 1]] \in Event
    BY <2>1, Sent
  <2>3. channel \in Seq(Event) /\ outRead \in Nat
        /\ thread \in [Streams -> ThreadPcs]
    BY DEF TypeOK, ThreadPcs
  <2>4. QED
    BY <1>1, <1>4, <2>2, <2>3
<1>5. QED
  BY <1>2, <1>3, <1>4 DEF ReadLine

\* Main-thread steps preserve the types.
LEMMA MainTypes == TypeOK /\ Main => TypeOK'
<1> SUFFICES ASSUME TypeOK, Main PROVE TypeOK'
  OBVIOUS
<1> USE DEF TypeOK, MainPcs, main, locals, worker, outPipe, errPipe, inPipe, io
<1>1. ASSUME NEW k \in ErrorKinds, Refuse(k) PROVE TypeOK'
  BY <1>1 DEF Refuse
<1>2. CASE OpenScratch
  BY <1>2 DEF OpenScratch, ErrorKinds
<1>3. CASE CheckDeadline
  BY <1>3 DEF CheckDeadline, ErrorKinds
<1>4. CASE Spawn
  BY <1>4 DEF Spawn, ErrorKinds
<1>5. CASE StartStdout
  BY <1>5 DEF StartStdout, StartReader, Fail, ErrorKinds, Streams
<1>6. CASE StartStderr
  BY <1>6 DEF StartStderr, StartReader, Fail, ErrorKinds, Streams
<1>7. CASE DeadlineCheck
  BY <1>7 DEF DeadlineCheck, Fail, ErrorKinds
<1>8. CASE Poll
  <2>1. \A st : Decide(st) => /\ pc' \in {"drop_stdin", "recv"}
                              /\ result' \in {"none", "ok"} \cup ErrorKinds
    BY DEF Decide, Fail, ErrorKinds
  <2>2. /\ pc' \in {"drop_stdin", "recv"}
        /\ result' \in {"none", "ok"} \cup ErrorKinds
    BY <1>8, <2>1 DEF Poll, Fail, ErrorKinds
  <2>3. exit_status' \in {"none", "success", "failure"}
    BY <1>8 DEF Poll
  <2>4. reaped' \in BOOLEAN
    BY <1>8 DEF Poll, Collect
  <2>5. process' \in {"absent", "running", "killed", "zombie", "collected"}
    BY <1>8 DEF Poll, Collect
  <2>6. QED
    BY <1>8, <2>2, <2>3, <2>4, <2>5 DEF Poll
<1>9. CASE RecvNothing
  BY <1>9 DEF RecvNothing
<1>10. CASE OnHello
  <2>1. Head(channel).arg \in Lines /\ Tail(channel) \in Seq(Event)
    BY <1>10, HeadEvent DEF OnHello, Receive
  <2>2. /\ pc' \in {"drop_stdin", "top"}
        /\ result' \in {"none", "ok"} \cup ErrorKinds
    BY <1>10, <2>1, Verdicts DEF OnHello, Receive, Fail, ErrorKinds
  <2>3. hello_received' \in BOOLEAN
    BY <1>10 DEF OnHello
  <2>4. stdin' \in {"none", "held", "moved", "closed"}
    BY <1>10 DEF OnHello
  <2>5. thread' \in [Streams -> {"unborn", "hello", "response", "tail", "read",
                                 "write", "done", "panicked"}]
    BY <1>10 DEF OnHello, Streams
  <2>6. QED
    BY <1>10, <2>1, <2>2, <2>3, <2>4, <2>5 DEF OnHello, Receive
<1>11. CASE OnResponse
  <2>1. Head(channel).arg \in Lines /\ Tail(channel) \in Seq(Event)
    BY <1>11, HeadEvent DEF OnResponse, Receive
  <2>2. /\ pc' \in {"drop_stdin", "top"}
        /\ result' \in {"none", "ok"} \cup ErrorKinds
    BY <1>11, <2>1, Verdicts DEF OnResponse, Receive, Fail, ErrorKinds
  <2>3. response' \in BOOLEAN
    BY <1>11 DEF OnResponse
  <2>4. QED
    BY <1>11, <2>1, <2>2, <2>3 DEF OnResponse, Receive
<1>12. CASE OnFinished
  BY <1>12, HeadEvent DEF OnFinished, Receive
<1>13. CASE OnFailed
  BY <1>13, HeadEvent DEF OnFailed, Receive, Fail
<1>14. CASE DropStdin
  BY <1>14 DEF DropStdin
<1>15. CASE StopCheck
  <2>1. cleanup' \subseteq {"stop", "remove"}
    BY <1>15 DEF StopCheck
  <2>2. reaped' \in BOOLEAN
    BY <1>15 DEF StopCheck, Collect
  <2>3. process' \in {"absent", "running", "killed", "zombie", "collected"}
    BY <1>15 DEF StopCheck, Collect
  <2>4. pc' \in MainPcs
    BY <1>15 DEF StopCheck
  <2>5. QED
    BY <1>15, <2>1, <2>2, <2>3, <2>4 DEF StopCheck
<1>16. CASE Kill
  BY <1>16 DEF Kill
<1>17. CASE KillFailed
  <2>1. cleanup' \subseteq {"stop", "remove"}
    BY <1>17 DEF KillFailed
  <2>2. reaped' \in BOOLEAN
    BY <1>17 DEF KillFailed, Collect
  <2>3. process' \in {"absent", "running", "killed", "zombie", "collected"}
    BY <1>17 DEF KillFailed, Collect
  <2>4. QED
    BY <1>17, <2>1, <2>2, <2>3 DEF KillFailed
<1>18. CASE Wait
  <2>1. cleanup' \subseteq {"stop", "remove"}
    BY <1>18 DEF Wait
  <2>2. reaped' \in BOOLEAN
    BY <1>18 DEF Wait, Collect
  <2>3. process' \in {"absent", "running", "killed", "zombie", "collected"}
    BY <1>18 DEF Wait, Collect
  <2>4. QED
    BY <1>18, <2>1, <2>2, <2>3 DEF Wait
<1>19. CASE Join
  BY <1>19 DEF Join, ErrorKinds
<1>20. CASE DropKill
  BY <1>20 DEF DropKill
<1>21. CASE DropWait
  BY <1>21 DEF DropWait
<1>22. CASE CloseScratch
  <2>1. cleanup' \subseteq {"stop", "remove"}
    BY <1>22 DEF CloseScratch
  <2>2. result' \in {"none", "ok"} \cup ErrorKinds
    BY <1>22 DEF CloseScratch, ErrorKinds
  <2>3. QED
    BY <1>22, <2>1, <2>2 DEF CloseScratch
<1>23. QED
  BY <1>1, <1>2, <1>3, <1>4, <1>5, <1>6, <1>7, <1>8, <1>9, <1>10, <1>11,
     <1>12, <1>13, <1>14, <1>15, <1>16, <1>17, <1>18, <1>19, <1>20, <1>21,
     <1>22 DEF Main

\* Steps of the I/O threads, the worker, the system and the clock do, too.
LEMMA OtherTypes ==
  ASSUME TypeOK,
         \/ ReadStdout \/ DrainStderr \/ WriteStdin
         \/ \E s \in Streams : Panic(s)
         \/ KillTakesEffect \/ DeadlinePasses \/ Returned \/ Worker
  PROVE  TypeOK'
<1> USE DEF TypeOK, main, locals, worker, outPipe, errPipe, inPipe, io
<1>1. CASE ReadStdout
  <2>1. /\ outRead' \in Nat /\ channel' \in Seq(Event)
        /\ thread' \in [Streams -> ThreadPcs]
    <3>1. CASE ReadLine("hello", "Hello", "response")
      BY <3>1, LineRead DEF ThreadPcs
    <3>2. CASE ReadLine("response", "Response", "tail")
      BY <3>2, LineRead DEF ThreadPcs
    <3>3. CASE ReadTail
      <4>1. "stdout" \in Streams /\ "TrailingOutput" \in ErrorKinds
        BY DEF Streams, ErrorKinds
      <4>2. QED
        BY <3>3, <4>1, Completed DEF ReadTail, ThreadPcs
    <3>4. CASE Abort("stdout", "Io") /\ UNCHANGED outRead
      <4>1. "stdout" \in Streams /\ "Io" \in ErrorKinds
        BY DEF Streams, ErrorKinds
      <4>2. QED
        BY <3>4, <4>1, Completed DEF ThreadPcs
    <3>5. QED
      BY <1>1, <3>1, <3>2, <3>3, <3>4 DEF ReadStdout
  <2>2. QED
    BY <1>1, <2>1 DEF ReadStdout, ThreadPcs
<1>2. CASE DrainStderr
  <2>1. "stderr" \in Streams /\ "Io" \in ErrorKinds
    BY DEF Streams, ErrorKinds
  <2>2. thread' \in [Streams -> ThreadPcs] /\ channel' \in Seq(Event)
    BY <1>2, <2>1, Completed DEF DrainStderr, ThreadPcs
  <2>3. errRead' \in Nat /\ kept' \in Nat
    BY <1>2 DEF DrainStderr
  <2>4. truncated' \in BOOLEAN
    BY <1>2 DEF DrainStderr
  <2>5. QED
    BY <1>2, <2>2, <2>3, <2>4 DEF DrainStderr, ThreadPcs
<1>3. CASE WriteStdin
  <2>1. "stdin" \in Streams /\ "Io" \in ErrorKinds
    BY DEF Streams, ErrorKinds
  <2>2. thread' \in [Streams -> ThreadPcs] /\ channel' \in Seq(Event)
    BY <1>3, <2>1, Completed DEF WriteStdin, ThreadPcs
  <2>3. sent' \in Nat /\ stdin' \in {"none", "held", "moved", "closed"}
    BY <1>3 DEF WriteStdin
  <2>4. QED
    BY <1>3, <2>2, <2>3 DEF WriteStdin, ThreadPcs
<1>4. ASSUME NEW s \in Streams, Panic(s) PROVE TypeOK'
  BY <1>4 DEF Panic
<1>5. CASE KillTakesEffect
  BY <1>5 DEF KillTakesEffect
<1>6. CASE DeadlinePasses
  BY <1>6 DEF DeadlinePasses
<1>7. CASE Returned
  BY <1>7 DEF Returned, vars
<1>8. CASE Worker
  <2>1. ASSUME NEW l \in WorkerLines, WorkerWrites(l) PROVE TypeOK'
    BY <2>1, LinesAssumption DEF WorkerWrites
  <2>2. CASE WorkerLogs
    BY <2>2 DEF WorkerLogs
  <2>3. CASE WorkerReads
    BY <2>3 DEF WorkerReads
  <2>4. CASE WorkerCloses
    BY <2>4 DEF WorkerCloses
  <2>5. ASSUME NEW c \in {"success", "failure"}, WorkerExits(c) PROVE TypeOK'
    BY <2>5 DEF WorkerExits
  <2>6. QED
    BY <1>8, <2>1, <2>2, <2>3, <2>4, <2>5 DEF Worker
<1>9. QED
  BY <1>1, <1>2, <1>3, <1>4, <1>5, <1>6, <1>7, <1>8

\* Type correctness of the supervisor under any worker.
THEOREM TypeCorrect == Spec => []TypeOK
<1>1. Init => TypeOK
  <2> SUFFICES ASSUME Init PROVE TypeOK
    OBVIOUS
  <2>1. /\ written \in Seq(Lines) /\ channel \in Seq(Event)
        /\ cleanup \subseteq {"stop", "remove"} /\ finished \subseteq Streams
    BY DEF Init
  <2>2. thread \in [Streams -> {"unborn", "hello", "response", "tail", "read",
                               "write", "done", "panicked"}]
    BY DEF Init
  <2>3. QED
    BY <2>1, <2>2 DEF Init, TypeOK, MainPcs
<1>2. TypeOK /\ [Next]_vars => TypeOK'
  <2> SUFFICES ASSUME TypeOK, [Next]_vars PROVE TypeOK'
    OBVIOUS
  <2>1. CASE Next
    BY <2>1, MainTypes, OtherTypes DEF Next, Supervise
  <2>2. CASE UNCHANGED vars
    BY <2>2 DEF TypeOK, vars, main, locals, worker, outPipe, errPipe, inPipe, io
  <2>3. QED
    BY <2>1, <2>2
<1>3. QED
  BY <1>1, <1>2, PTL DEF Spec

-----------------------------------------------------------------------------
(* The scratch directory outlives the worker.                              *)

\* Where the calling thread is decides what it can still hold: no worker before
\* it is spawned, no running thread once the join is over, no worker to collect
\* once Drop is over.
CleanupInv ==
  /\ pc \in {"entry", "check", "spawn"} => process = "absent"
  /\ process = "absent" =>
       /\ pc \in {"entry", "check", "spawn", "close", "done"}
       /\ \A s \in Streams : thread[s] = "unborn"
  /\ pc = "entry" => scratch = "none"
  /\ pc \notin {"entry", "done"} => scratch = "present"
  /\ reaped => process = "collected"
  /\ pc \in {"drop_kill", "drop_wait", "close", "done"} =>
       \A s \in Streams : ~Running(s)
  /\ pc \in {"close", "done"} =>
       process \in {"absent", "collected"} \/ "wait" \in Faults

LEMMA CleanupInductive ==
  TypeOK /\ CleanupInv /\ [Next]_vars => CleanupInv'
<1> SUFFICES ASSUME TypeOK, CleanupInv, [Next]_vars PROVE CleanupInv'
  OBVIOUS
<1> USE DEF TypeOK, CleanupInv, main, locals, worker, outPipe, errPipe, inPipe,
            io, Running, Ended
<1>1. ASSUME NEW k \in ErrorKinds, Refuse(k) PROVE CleanupInv'
  BY <1>1 DEF Refuse
<1>2. CASE OpenScratch
  BY <1>2 DEF OpenScratch
<1>3. CASE CheckDeadline
  BY <1>3 DEF CheckDeadline
<1>4. CASE Spawn
  BY <1>4 DEF Spawn
<1>5. CASE StartStdout
  BY <1>5 DEF StartStdout, StartReader, Fail, Streams
<1>6. CASE StartStderr
  BY <1>6 DEF StartStderr, StartReader, Fail, Streams
<1>7. CASE DeadlineCheck
  BY <1>7 DEF DeadlineCheck, Fail
<1>8. CASE Poll
  <2>1. pc' \in {"drop_stdin", "recv"}
    BY <1>8 DEF Poll, Decide, Fail
  <2>2. /\ process' \in {process, "collected"} /\ process # "absent"
        /\ reaped' => process' = "collected"
    BY <1>8 DEF Poll, Collect
  <2>3. scratch' = "present"
    BY <1>8 DEF Poll
  <2>4. QED
    BY <2>1, <2>2, <2>3
<1>9. CASE RecvNothing
  BY <1>9 DEF RecvNothing
<1>10. CASE OnHello
  <2>1. pc' \in {"drop_stdin", "top"} /\ pc = "recv"
    BY <1>10 DEF OnHello, Receive, Fail
  <2>2. UNCHANGED <<process, reaped, scratch>>
    BY <1>10 DEF OnHello, Receive
  <2>3. QED
    BY <2>1, <2>2
<1>11. CASE OnResponse
  BY <1>11 DEF OnResponse, Receive, Fail
<1>12. CASE OnFinished
  BY <1>12 DEF OnFinished, Receive
<1>13. CASE OnFailed
  BY <1>13 DEF OnFailed, Receive, Fail
<1>14. CASE DropStdin
  BY <1>14 DEF DropStdin
<1>15. CASE StopCheck
  BY <1>15 DEF StopCheck, Collect
<1>16. CASE Kill
  BY <1>16 DEF Kill
<1>17. CASE KillFailed
  BY <1>17 DEF KillFailed, Collect
<1>18. CASE Wait
  BY <1>18 DEF Wait, Collect
<1>19. CASE Join
  BY <1>19 DEF Join
<1>20. CASE DropKill
  BY <1>20 DEF DropKill
<1>21. CASE DropWait
  BY <1>21 DEF DropWait
<1>22. CASE CloseScratch
  BY <1>22 DEF CloseScratch
<1>23. CASE ReadStdout
  BY <1>23 DEF ReadStdout, ReadLine, ReadTail, Abort, Finish, Complete, Streams
<1>24. CASE DrainStderr
  BY <1>24 DEF DrainStderr, Abort, Finish, Complete, Streams
<1>25. CASE WriteStdin
  BY <1>25 DEF WriteStdin, Abort, Finish, Complete, Streams
<1>26. ASSUME NEW s \in Streams, Panic(s) PROVE CleanupInv'
  BY <1>26 DEF Panic
<1>27. CASE KillTakesEffect
  BY <1>27 DEF KillTakesEffect
<1>28. CASE DeadlinePasses
  BY <1>28 DEF DeadlinePasses
<1>29. CASE Worker
  BY <1>29 DEF Worker, WorkerWrites, WorkerLogs, WorkerReads, WorkerCloses,
               WorkerExits
<1>30. CASE UNCHANGED vars
  BY <1>30 DEF vars
<1>31. QED
  BY <1>1, <1>2, <1>3, <1>4, <1>5, <1>6, <1>7, <1>8, <1>9, <1>10, <1>11,
     <1>12, <1>13, <1>14, <1>15, <1>16, <1>17, <1>18, <1>19, <1>20, <1>21,
     <1>22, <1>23, <1>24, <1>25, <1>26, <1>27, <1>28, <1>29, <1>30
  DEF Next, Supervise, Main, Returned

\* On every path out of a call the worker is collected and the I/O threads have
\* ended before the scratch directory goes.
THEOREM ScratchIsSafe == Spec => []ScratchOutlivesWorker
<1>1. Init => CleanupInv
  BY DEF Init, CleanupInv
<1>2. TypeOK /\ CleanupInv => ScratchOutlivesWorker
  BY DEF TypeOK, CleanupInv, ScratchOutlivesWorker, MainPcs
<1>3. QED
  BY <1>1, <1>2, CleanupInductive, TypeCorrect, PTL DEF Spec

-----------------------------------------------------------------------------
(* A snapshot is earned.                                                   *)

\* A stream whose task reported Finished: for stdout, exactly two lines came;
\* for stdin, the whole request went; for stderr, nothing waits to be read.
Drained(s) ==
  /\ thread[s] = "done"
  /\ s = "stdin" => sent = RequestChunks
  /\ s = "stdout" => outRead = 2 /\ Len(written) = 2
  /\ s = "stderr" => errRead = errWritten

\* Lines the stdout task has handed over so far.
FirstLine(l) == outRead >= 1 /\ written[1] = l
SecondLine(l) == outRead >= 2 /\ written[2] = l

\* What an event in the channel says is so.
Truthful(e) ==
  /\ e.type = "Hello" => FirstLine(e.arg)
  /\ e.type = "Response" => SecondLine(e.arg)
  /\ e.type = "Finished" => Drained(e.arg)

ReadInv ==
  /\ outRead <= Len(written)
  /\ thread["stdout"] \in {"unborn", "hello"} => outRead = 0
  /\ thread["stdout"] = "response" => outRead = 1
  /\ thread["stdout"] = "tail" => outRead = 2

QueueInv == \A i \in 1..Len(channel) : Truthful(channel[i])

HeardInv ==
  /\ \A s \in finished : Drained(s)
  /\ hello_received => FirstLine("hello")
  /\ response => hello_received /\ SecondLine("response")

StatusInv ==
  /\ exit_status # "none" => reaped /\ exit_status = code
  /\ result = "ok" => /\ pc \in {"drop_stdin", "join", "close", "done"}
                      /\ exit_status = "success"
                      /\ finished = Streams /\ response

\* Threads are only started before their stream has said anything.
StartInv ==
  /\ pc \in {"entry", "check", "spawn", "start_stdout"} =>
       thread["stdout"] = "unborn"
  /\ pc \in {"entry", "check", "spawn", "start_stdout", "start_stderr"} =>
       thread["stderr"] = "unborn"
  /\ ~hello_received => thread["stdin"] = "unborn"

ExchangeInv == ReadInv /\ QueueInv /\ HeardInv /\ StatusInv /\ StartInv

\* What the calling thread leaves alone, and which handler moves what.
LEMMA MainFrame ==
  ASSUME Main
  PROVE  /\ UNCHANGED <<sent, outRead, written, code>>
         /\ UNCHANGED <<errWritten, errRead, kept, truncated>>
         /\ UNCHANGED thread \/ StartStdout \/ StartStderr \/ OnHello
         /\ \/ UNCHANGED channel
            \/ pc = "recv" /\ channel # <<>> /\ channel' = Tail(channel)
         /\ UNCHANGED hello_received \/ OnHello
         /\ UNCHANGED response \/ OnResponse
         /\ UNCHANGED finished \/ OnFinished
         /\ UNCHANGED exit_status \/ Poll
<1> USE DEF main, locals, worker, outPipe, errPipe, inPipe, io
<1>1. ASSUME NEW k \in ErrorKinds, Refuse(k)
      PROVE  UNCHANGED <<locals, worker, outPipe, errPipe, inPipe, io>>
  BY <1>1 DEF Refuse
<1>2. CASE OpenScratch
  BY <1>2 DEF OpenScratch
<1>3. CASE CheckDeadline
  BY <1>3 DEF CheckDeadline
<1>4. CASE Spawn
  BY <1>4 DEF Spawn
<1>5. CASE StartStdout
  BY <1>5 DEF StartStdout, StartReader
<1>6. CASE StartStderr
  BY <1>6 DEF StartStderr, StartReader
<1>7. CASE DeadlineCheck
  BY <1>7 DEF DeadlineCheck
<1>8. CASE Poll
  BY <1>8 DEF Poll
<1>9. CASE RecvNothing
  BY <1>9 DEF RecvNothing
<1>10. CASE OnHello
  BY <1>10 DEF OnHello, Receive
<1>11. CASE OnResponse
  BY <1>11 DEF OnResponse, Receive
<1>12. CASE OnFinished
  BY <1>12 DEF OnFinished, Receive
<1>13. CASE OnFailed
  BY <1>13 DEF OnFailed, Receive
<1>14. CASE DropStdin
  BY <1>14 DEF DropStdin
<1>15. CASE StopCheck
  BY <1>15 DEF StopCheck
<1>16. CASE Kill
  BY <1>16 DEF Kill
<1>17. CASE KillFailed
  BY <1>17 DEF KillFailed
<1>18. CASE Wait
  BY <1>18 DEF Wait
<1>19. CASE Join
  BY <1>19 DEF Join
<1>20. CASE DropKill
  BY <1>20 DEF DropKill
<1>21. CASE DropWait
  BY <1>21 DEF DropWait
<1>22. CASE CloseScratch
  BY <1>22 DEF CloseScratch
<1>23. QED
  BY <1>1, <1>2, <1>3, <1>4, <1>5, <1>6, <1>7, <1>8, <1>9, <1>10, <1>11,
     <1>12, <1>13, <1>14, <1>15, <1>16, <1>17, <1>18, <1>19, <1>20, <1>21,
     <1>22 DEF Main

\* What the I/O threads, the worker, the system and the clock leave alone.
Others ==
  \/ ReadStdout \/ DrainStderr \/ WriteStdin \/ \E s \in Streams : Panic(s)
  \/ KillTakesEffect \/ DeadlinePasses \/ Returned \/ Worker

LEMMA OthersFrame ==
  ASSUME Others
  PROVE  /\ UNCHANGED <<pc, result, locals, reaped>>
         /\ UNCHANGED channel \/ ReadStdout \/ DrainStderr \/ WriteStdin
         /\ process = "collected" => UNCHANGED code
<1> USE DEF main, locals, worker, outPipe, errPipe, inPipe, io
<1>1. CASE ReadStdout
  BY <1>1 DEF ReadStdout
<1>2. CASE DrainStderr
  BY <1>2 DEF DrainStderr
<1>3. CASE WriteStdin
  BY <1>3 DEF WriteStdin
<1>4. CASE \E s \in Streams : Panic(s)
  BY <1>4 DEF Panic
<1>5. CASE KillTakesEffect
  BY <1>5 DEF KillTakesEffect
<1>6. CASE DeadlinePasses
  BY <1>6 DEF DeadlinePasses
<1>7. CASE Returned
  BY <1>7 DEF Returned, vars
<1>8. CASE Worker
  BY <1>8 DEF Worker, WorkerWrites, WorkerLogs, WorkerReads, WorkerCloses,
              WorkerExits
<1>9. QED
  BY <1>1, <1>2, <1>3, <1>4, <1>5, <1>6, <1>7, <1>8 DEF Others

\* Reading and writing only add: what was true of the lines and of a finished
\* stream stays true.
LEMMA Monotone ==
  ASSUME TypeOK, ReadInv, [Next]_vars
  PROVE  /\ \A l \in Lines : FirstLine(l) => FirstLine(l)'
         /\ \A l \in Lines : SecondLine(l) => SecondLine(l)'
<1> USE DEF TypeOK, ReadInv, FirstLine, SecondLine, outPipe
<1>1. CASE UNCHANGED <<outRead, written>>
  BY <1>1
<1>2. CASE outRead' = outRead + 1 /\ UNCHANGED written
  BY <1>2
<1>3. ASSUME NEW l \in WorkerLines, written' = Append(written, l),
             UNCHANGED outRead
      PROVE  /\ \A k \in Lines : FirstLine(k) => FirstLine(k)'
             /\ \A k \in Lines : SecondLine(k) => SecondLine(k)'
  BY <1>3, LinesAssumption
<1>4. CASE Main
  BY <1>1, <1>4, MainFrame
<1>5. CASE Others
  BY <1>1, <1>2, <1>3, <1>5
  DEF Others, ReadStdout, ReadLine, ReadTail, DrainStderr, WriteStdin, Panic,
      KillTakesEffect, DeadlinePasses, Returned, vars, Worker, WorkerWrites,
      WorkerLogs, WorkerReads, WorkerCloses, WorkerExits
<1>6. CASE UNCHANGED vars
  BY <1>1, <1>6 DEF vars
<1>7. QED
  BY <1>4, <1>5, <1>6 DEF Next, Supervise, Others

\* A drained stream stays drained.
LEMMA StaysDrained ==
  ASSUME TypeOK, ReadInv, StartInv, [Next]_vars, NEW s \in Streams, Drained(s)
  PROVE  Drained(s)'
<1> USE DEF TypeOK, StartInv, Drained, Streams, main, locals, worker, outPipe,
            errPipe, inPipe, io
<1>1. CASE Main
  <2>1. CASE UNCHANGED thread
    BY <1>1, <2>1, MainFrame
  <2>2. CASE StartStdout \/ StartStderr
    BY <1>1, <2>2, MainFrame DEF StartStdout, StartStderr, StartReader
  <2>3. CASE OnHello
    BY <1>1, <2>3, MainFrame DEF OnHello
  <2>4. QED
    BY <1>1, <2>1, <2>2, <2>3, MainFrame
<1>2. CASE ReadStdout
  BY <1>2 DEF ReadStdout, ReadLine, ReadTail, Abort, Finish, Complete, Running,
              Ended
<1>3. CASE DrainStderr
  BY <1>3 DEF DrainStderr, Abort, Finish, Complete
<1>4. CASE WriteStdin
  BY <1>4 DEF WriteStdin, Abort, Finish, Complete
<1>5. CASE \E r \in Streams : Panic(r)
  BY <1>5 DEF Panic, Running, Ended
<1>6. CASE KillTakesEffect \/ DeadlinePasses
  BY <1>6 DEF KillTakesEffect, DeadlinePasses
<1>7. CASE Worker
  BY <1>7 DEF Worker, WorkerWrites, WorkerLogs, WorkerReads, WorkerCloses,
              WorkerExits, Ended
<1>8. CASE UNCHANGED vars
  BY <1>8 DEF vars
<1>9. QED
  BY <1>1, <1>2, <1>3, <1>4, <1>5, <1>6, <1>7, <1>8
  DEF Next, Supervise, Returned

\* The stdout task counts the lines it has read.
LEMMA ReadInductive ==
  TypeOK /\ ReadInv /\ StartInv /\ [Next]_vars => ReadInv'
<1> SUFFICES ASSUME TypeOK, ReadInv, StartInv, [Next]_vars PROVE ReadInv'
  OBVIOUS
<1> USE DEF TypeOK, ReadInv, StartInv, Streams, main, locals, worker, outPipe,
            errPipe, inPipe, io
<1>1. CASE Main
  <2>1. CASE UNCHANGED thread
    BY <1>1, <2>1, MainFrame
  <2>2. CASE StartStdout \/ StartStderr
    BY <1>1, <2>2, MainFrame DEF StartStdout, StartStderr, StartReader
  <2>3. CASE OnHello
    BY <1>1, <2>3, MainFrame DEF OnHello
  <2>4. QED
    BY <1>1, <2>1, <2>2, <2>3, MainFrame
<1>2. CASE ReadStdout
  BY <1>2 DEF ReadStdout, ReadLine, ReadTail, Abort, Finish, Complete, Unread
<1>3. CASE DrainStderr
  BY <1>3 DEF DrainStderr, Abort, Finish, Complete
<1>4. CASE WriteStdin
  BY <1>4 DEF WriteStdin, Abort, Finish, Complete
<1>5. CASE \E r \in Streams : Panic(r)
  BY <1>5 DEF Panic, Running, Ended
<1>6. CASE KillTakesEffect \/ DeadlinePasses
  BY <1>6 DEF KillTakesEffect, DeadlinePasses
<1>7. CASE Worker
  BY <1>7, LinesAssumption
  DEF Worker, WorkerWrites, WorkerLogs, WorkerReads, WorkerCloses, WorkerExits
<1>8. CASE UNCHANGED vars
  BY <1>8 DEF vars
<1>9. QED
  BY <1>1, <1>2, <1>3, <1>4, <1>5, <1>6, <1>7, <1>8
  DEF Next, Supervise, Returned

\* Threads start once.
LEMMA StartInductive ==
  TypeOK /\ StartInv /\ [Next]_vars => StartInv'
<1> SUFFICES ASSUME TypeOK, StartInv, [Next]_vars PROVE StartInv'
  OBVIOUS
<1> USE DEF TypeOK, StartInv, Streams, main, locals, worker, outPipe, errPipe,
            inPipe, io
<1>1. CASE Main
  <2>1. CASE StartStdout \/ StartStderr
    BY <2>1 DEF StartStdout, StartStderr, StartReader, Fail
  <2>2. CASE OnHello
    BY <2>2 DEF OnHello, Receive, Fail
  <2>3. CASE UNCHANGED thread /\ ~OnHello /\ ~StartStdout /\ ~StartStderr
    <3>1. UNCHANGED hello_received
      BY <1>1, <2>3, MainFrame
    <3>2. \/ pc' \in {"entry", "check", "spawn", "start_stdout", "start_stderr"}
               => /\ pc \in {"entry", "check", "spawn"}
                  /\ pc' # "start_stderr"
      BY <1>1, <2>3
      DEF Main, Refuse, OpenScratch, CheckDeadline, Spawn, DeadlineCheck, Poll,
          Decide, Fail, RecvNothing, OnResponse, OnFinished, OnFailed, Receive,
          DropStdin, StopCheck, Kill, KillFailed, Wait, Join, DropKill,
          DropWait, CloseScratch
    <3>3. QED
      BY <2>3, <3>1, <3>2
  <2>4. QED
    BY <1>1, <2>1, <2>2, <2>3, MainFrame
<1>2. CASE Others
  <2>1. \A s \in Streams : thread[s] = "unborn" => thread'[s] = "unborn"
    BY <1>2
    DEF Others, ReadStdout, ReadLine, ReadTail, DrainStderr, WriteStdin, Panic,
        Abort, Finish, Complete, Running, KillTakesEffect, DeadlinePasses,
        Returned, vars, Worker, WorkerWrites, WorkerLogs, WorkerReads,
        WorkerCloses, WorkerExits
  <2>2. QED
    BY <1>2, <2>1, OthersFrame
<1>3. CASE UNCHANGED vars
  BY <1>3 DEF vars
<1>4. QED
  BY <1>1, <1>2, <1>3 DEF Next, Supervise, Others

\* What a thread says when it ends, or when it has read a line, is so.
LEMMA SentTruthful ==
  ASSUME TypeOK, ReadInv, ReadStdout \/ DrainStderr \/ WriteStdin
  PROVE  \/ UNCHANGED channel
         \/ \E e \in Event : channel' = Append(channel, e) /\ Truthful(e)'
<1> USE DEF TypeOK, ReadInv, Truthful, FirstLine, SecondLine, Drained, Streams,
            main, outPipe, inPipe, io
<1>1. ASSUME NEW s \in Streams, NEW k \in ErrorKinds, Abort(s, k)
      PROVE  \E e \in Event : channel' = Append(channel, e) /\ Truthful(e)'
  <2>1. [type |-> "Failed", arg |-> k] \in Event
    BY Sent
  <2>2. QED
    BY <1>1, <2>1 DEF Abort, Complete
<1>2. ASSUME NEW s \in Streams, Finish(s),
             (s = "stdin" => sent = RequestChunks)',
             (s = "stdout" => outRead = 2 /\ Len(written) = 2)',
             (s = "stderr" => errRead = errWritten)'
      PROVE  \E e \in Event : channel' = Append(channel, e) /\ Truthful(e)'
  <2>1. [type |-> "Finished", arg |-> s] \in Event
    BY Sent
  <2>2. thread'[s] = "done"
    BY <1>2 DEF Finish, Complete
  <2>3. QED
    BY <1>2, <2>1, <2>2 DEF Finish, Complete
<1>3. CASE ReadStdout
  <2>1. ASSUME NEW type \in {"Hello", "Response"}, Unread > 0,
               outRead = (IF type = "Hello" THEN 0 ELSE 1),
               outRead' = outRead + 1,
               channel' = Append(channel, [type |-> type,
                                           arg |-> written[outRead + 1]])
        PROVE  \E e \in Event : channel' = Append(channel, e) /\ Truthful(e)'
    <3>1. UNCHANGED written
      BY <1>3 DEF ReadStdout
    <3>2. written[outRead + 1] \in Lines
      BY <2>1 DEF Unread
    <3>3. [type |-> type, arg |-> written[outRead + 1]] \in Event
      BY <3>2, Sent
    <3>4. QED
      BY <2>1, <3>1, <3>3
  <2>2. {"Io", "OutputTooLarge", "IncompleteLine", "TrailingOutput"}
          \subseteq ErrorKinds
    BY DEF ErrorKinds
  <2>3. CASE ReadLine("hello", "Hello", "response")
    BY <1>1, <2>1, <2>2, <2>3 DEF ReadLine
  <2>4. CASE ReadLine("response", "Response", "tail")
    BY <1>1, <2>1, <2>2, <2>4 DEF ReadLine
  <2>5. CASE ReadTail
    <3>1. CASE Abort("stdout", "TrailingOutput")
      BY <1>1, <2>2, <3>1
    <3>2. CASE Unread = 0 /\ Finish("stdout")
      BY <1>2, <1>3, <2>5, <3>2 DEF ReadTail, ReadStdout, Unread
    <3>3. QED
      BY <2>5, <3>1, <3>2 DEF ReadTail
  <2>6. CASE Abort("stdout", "Io")
    BY <1>1, <2>2, <2>6
  <2>7. QED
    BY <1>3, <2>3, <2>4, <2>5, <2>6 DEF ReadStdout
<1>4. CASE DrainStderr
  BY <1>1, <1>2, <1>4 DEF DrainStderr, ErrorKinds
<1>5. CASE WriteStdin
  BY <1>1, <1>2, <1>5 DEF WriteStdin, ErrorKinds
<1>6. QED
  BY <1>3, <1>4, <1>5

\* So the whole channel stays truthful.
LEMMA QueueInductive ==
  TypeOK /\ ExchangeInv /\ [Next]_vars => QueueInv'
<1> SUFFICES ASSUME TypeOK, ExchangeInv, [Next]_vars PROVE QueueInv'
  OBVIOUS
<1> USE DEF ExchangeInv, QueueInv
<1>1. channel \in Seq(Event)
  BY DEF TypeOK
<1>2. ASSUME NEW e \in Event, Truthful(e) PROVE Truthful(e)'
  BY <1>2, Monotone, StaysDrained DEF Truthful, Event
<1>3. CASE UNCHANGED channel
  BY <1>1, <1>2, <1>3
<1>4. CASE channel # <<>> /\ channel' = Tail(channel)
  BY <1>1, <1>2, <1>4
<1>5. ASSUME NEW e \in Event, channel' = Append(channel, e), Truthful(e)'
      PROVE  QueueInv'
  BY <1>1, <1>2, <1>5
<1>6. \/ UNCHANGED channel
      \/ channel # <<>> /\ channel' = Tail(channel)
      \/ ReadStdout \/ DrainStderr \/ WriteStdin
  BY MainFrame, OthersFrame DEF Next, Supervise, Others, vars, io
<1>7. QED
  BY <1>3, <1>4, <1>5, <1>6, SentTruthful

\* What exchange has heard is so.
LEMMA HeardInductive ==
  TypeOK /\ ExchangeInv /\ [Next]_vars => HeardInv'
<1> SUFFICES ASSUME TypeOK, ExchangeInv, [Next]_vars PROVE HeardInv'
  OBVIOUS
<1> USE DEF ExchangeInv, HeardInv
<1>1. /\ finished \subseteq Streams /\ "hello" \in Lines /\ "response" \in Lines
      /\ channel \in Seq(Event)
  BY DEF TypeOK, Lines
<1>2. /\ \A s \in finished : Drained(s)'
      /\ hello_received => FirstLine("hello")'
      /\ response => hello_received /\ SecondLine("response")'
  BY <1>1, Monotone, StaysDrained
<1>3. channel # <<>> => Truthful(Head(channel))
  BY <1>1 DEF QueueInv
<1>4. CASE UNCHANGED <<hello_received, response, finished>>
  BY <1>2, <1>4
<1>5. CASE OnHello
  <2>1. ASSUME ~hello_received, HelloVerdict(Head(channel).arg) = "ok",
               hello_received'
        PROVE  FirstLine("hello")'
    <3>1. Head(channel).arg = "hello"
      BY <2>1 DEF HelloVerdict
    <3>2. FirstLine("hello")
      BY <1>3, <1>5, <3>1 DEF OnHello, Receive, Truthful
    <3>3. QED
      BY <1>1, <3>2, Monotone
  <2>2. hello_received => hello_received'
    BY <1>5 DEF OnHello
  <2>3. hello_received' => FirstLine("hello")'
    BY <1>2, <1>5, <2>1 DEF OnHello
  <2>4. QED
    BY <1>2, <1>5, <2>2, <2>3 DEF OnHello
<1>6. CASE OnResponse
  <2>1. ASSUME ResponseVerdict(Head(channel).arg) = "ok"
        PROVE  SecondLine("response")'
    <3>1. Head(channel).arg = "response"
      BY <2>1 DEF ResponseVerdict
    <3>2. SecondLine("response")
      BY <1>3, <1>6, <3>1 DEF OnResponse, Receive, Truthful
    <3>3. QED
      BY <1>1, <3>2, Monotone
  <2>2. response' => hello_received /\ SecondLine("response")'
    BY <1>2, <1>6, <2>1 DEF OnResponse
  <2>3. QED
    BY <1>2, <1>6, <2>2 DEF OnResponse
<1>7. CASE OnFinished
  <2>1. PICK s \in Streams : s = Head(channel).arg
    BY <1>1, <1>7, HeadEvent DEF OnFinished, Receive
  <2>2. Drained(s)'
    BY <1>3, <1>7, <2>1, StaysDrained DEF OnFinished, Receive, Truthful
  <2>3. QED
    BY <1>2, <1>7, <2>1, <2>2 DEF OnFinished
<1>8. QED
  BY <1>4, <1>5, <1>6, <1>7, MainFrame, OthersFrame
  DEF Next, Supervise, Others, vars, locals, OnHello, OnResponse, OnFinished,
      Receive

\* An exit status comes from a collected worker, and success is only decided
\* with everything in hand.
LEMMA StatusInductive ==
  TypeOK /\ CleanupInv /\ StatusInv /\ [Next]_vars => StatusInv'
<1> SUFFICES ASSUME TypeOK, CleanupInv, StatusInv, [Next]_vars PROVE StatusInv'
  OBVIOUS
<1> USE DEF TypeOK, CleanupInv, StatusInv
<1>1. CASE Main
  <2>1. CASE Poll
    <3>1. \/ UNCHANGED <<exit_status, reaped>>
          \/ exit_status = "none" /\ exit_status' = code /\ reaped' = TRUE
      BY <2>1 DEF Poll, Collect
    <3>2. result' = "ok" =>
            /\ pc' = "drop_stdin"
            /\ exit_status' = "success" /\ finished = Streams /\ response
      BY <2>1 DEF Poll, Decide, Fail
    <3>3. UNCHANGED <<code, finished, response>>
      BY <2>1 DEF Poll
    <3>4. QED
      BY <3>1, <3>2, <3>3
  <2>2. CASE ~Poll
    <3>1. UNCHANGED <<exit_status, code>> /\ (reaped => reaped')
      BY <1>1, <2>2, MainFrame
      DEF Main, Refuse, OpenScratch, CheckDeadline, Spawn, StartStdout,
          StartStderr, StartReader, DeadlineCheck, RecvNothing, OnHello,
          OnResponse, OnFinished, OnFailed, Receive, DropStdin, StopCheck,
          Collect, Kill, KillFailed, Wait, Join, DropKill, DropWait,
          CloseScratch
    <3>2. ASSUME result' = "ok" PROVE result = "ok"
      <4>1. "ok" \notin ErrorKinds
        BY DEF ErrorKinds
      <4>2. CASE OnHello \/ OnResponse \/ OnFinished \/ OnFailed
        BY <3>2, <4>1, <4>2, HeadEvent
        DEF OnHello, OnResponse, OnFinished, OnFailed, Receive, Fail
      <4>3. CASE ~(OnHello \/ OnResponse \/ OnFinished \/ OnFailed)
        BY <1>1, <2>2, <3>2, <4>1, <4>3
        DEF Main, Refuse, OpenScratch, CheckDeadline, Spawn, StartStdout,
            StartStderr, StartReader, DeadlineCheck, RecvNothing, DropStdin,
            StopCheck, Kill, KillFailed, Wait, Join, DropKill, DropWait,
            CloseScratch, Fail
      <4>4. QED
        BY <4>2, <4>3
    <3>3. ASSUME result = "ok", result' = "ok"
          PROVE  pc' \in {"drop_stdin", "join", "close", "done"}
      BY <1>1, <2>2, <3>3
      DEF Main, Refuse, OpenScratch, CheckDeadline, Spawn, StartStdout,
          StartStderr, StartReader, DeadlineCheck, RecvNothing, OnHello,
          OnResponse, OnFinished, OnFailed, Receive, DropStdin, StopCheck,
          Kill, KillFailed, Wait, Join, DropKill, DropWait, CloseScratch, Fail
    <3>4. ASSUME result = "ok" PROVE UNCHANGED <<finished, response>>
      BY <1>1, <3>4, MainFrame DEF OnFinished, OnResponse, Receive
    <3>5. QED
      BY <3>1, <3>2, <3>3, <3>4
  <2>3. QED
    BY <2>1, <2>2
<1>2. CASE Others
  BY <1>2, OthersFrame DEF locals
<1>3. CASE UNCHANGED vars
  BY <1>3 DEF vars, main, locals, worker
<1>4. QED
  BY <1>1, <1>2, <1>3 DEF Next, Supervise, Others

\* The conjunction is inductive.
THEOREM ExchangeCorrect == Spec => [](TypeOK /\ CleanupInv /\ ExchangeInv)
<1>1. Init => CleanupInv /\ ExchangeInv
  BY DEF Init, CleanupInv, ExchangeInv, ReadInv, QueueInv, HeardInv,
         StatusInv, StartInv, Streams
<1>2. TypeOK /\ CleanupInv /\ ExchangeInv /\ [Next]_vars
        => CleanupInv' /\ ExchangeInv'
  BY CleanupInductive, ReadInductive, QueueInductive, HeardInductive,
     StatusInductive, StartInductive DEF ExchangeInv
<1>3. QED
  BY <1>1, <1>2, TypeCorrect, PTL DEF Spec

\* No interleaving of exit, stream ends, answer and deadline yields a snapshot
\* from a worker that did not earn it.
THEOREM SnapshotsAreEarned == Spec => []SnapshotIsEarned
<1>1. TypeOK /\ CleanupInv /\ ExchangeInv => SnapshotIsEarned
  <2> SUFFICES ASSUME TypeOK, CleanupInv, ExchangeInv, result = "ok"
               PROVE  SnapshotIsEarned
    BY DEF SnapshotIsEarned
  <2>1. /\ exit_status = "success" /\ process = "collected"
        /\ finished = Streams /\ response
    BY DEF ExchangeInv, StatusInv, CleanupInv
  <2>2. /\ \A s \in Streams : Drained(s)
        /\ FirstLine("hello") /\ SecondLine("response")
    BY <2>1 DEF ExchangeInv, HeardInv
  <2>3. written \in Seq(Lines) /\ Len(written) = 2
        /\ written[1] = "hello" /\ written[2] = "response"
    BY <2>2 DEF Drained, FirstLine, SecondLine, Streams, TypeOK
  <2>4. written = <<"hello", "response">>
    BY <2>3
  <2>5. QED
    BY <2>1, <2>2, <2>4 DEF SnapshotIsEarned, Drained, Streams
<1>2. QED
  BY <1>1, ExchangeCorrect, PTL

-----------------------------------------------------------------------------
(* The supervisor implements EvaluationCall.                               *)

\* The call has a result exactly when its exchange, or the attempt to begin
\* one, is over.
Undecided == {"entry", "check", "spawn", "start_stdout", "start_stderr", "top",
              "poll", "recv"}

PhaseInv == result = "none" <=> pc \in Undecided

\* Every exit from the undecided part of the program sets the result.
LEMMA PhaseInductive == TypeOK /\ PhaseInv /\ [Next]_vars => PhaseInv'
<1> SUFFICES ASSUME TypeOK, PhaseInv, [Next]_vars PROVE PhaseInv'
  OBVIOUS
<1> USE DEF TypeOK, PhaseInv, Undecided, MainPcs
<1>1. "none" \notin ErrorKinds
  BY DEF ErrorKinds
<1>2. CASE OnHello \/ OnResponse \/ OnFailed
  <2>1. /\ \A l \in Lines : HelloVerdict(l) # "none" /\ ResponseVerdict(l) # "none"
        /\ pc = "recv" /\ channel # <<>>
    BY <1>1, <1>2, Verdicts DEF OnHello, OnResponse, OnFailed, Receive
  <2>2. CASE OnHello
    BY <2>1, <2>2, HeadEvent DEF OnHello, Receive, Fail
  <2>3. CASE OnResponse
    BY <2>1, <2>3, HeadEvent DEF OnResponse, Receive, Fail
  <2>4. CASE OnFailed
    BY <1>1, <2>1, <2>4, HeadEvent DEF OnFailed, Receive, Fail
  <2>5. QED
    BY <1>2, <2>2, <2>3, <2>4
<1>3. CASE Main /\ ~(OnHello \/ OnResponse \/ OnFailed)
  BY <1>1, <1>3
  DEF Main, Refuse, OpenScratch, CheckDeadline, Spawn, StartStdout,
      StartStderr, StartReader, DeadlineCheck, Poll, Decide, RecvNothing,
      OnFinished, Receive, DropStdin, StopCheck, Kill, KillFailed, Wait, Join,
      DropKill, DropWait, CloseScratch, Fail
<1>4. CASE Others
  BY <1>4, OthersFrame
<1>5. CASE UNCHANGED vars
  BY <1>5 DEF vars, main
<1>6. QED
  BY <1>2, <1>3, <1>4, <1>5 DEF Next, Supervise, Others

\* Every step of the supervisor is a step of the call or leaves it unchanged.
LEMMA StepRefines ==
  ASSUME "wait" \notin Faults,
         TypeOK, CleanupInv, StatusInv, PhaseInv, PhaseInv', [Next]_vars
  PROVE  [Call!Next]_(Call!state)
<1> USE DEF TypeOK, CleanupInv, PhaseInv, Undecided, Alive, main, locals, worker,
            outPipe, errPipe, inPipe, io, Call!Next, Call!state
<1>1. ASSUME NEW k \in ErrorKinds, Refuse(k) PROVE Call!Return
  BY <1>1 DEF Refuse, ErrorKinds, Call!Return, Call!Settles
<1>2. CASE OpenScratch
  BY <1>2 DEF OpenScratch, Call!Acquire, Call!Return, Call!Settles
<1>3. CASE CheckDeadline
  BY <1>3 DEF CheckDeadline, Call!Settle, Call!Settles
<1>4. CASE Spawn
  BY <1>4 DEF Spawn, Call!Launch, Call!Settle, Call!Settles
<1>5. CASE StartStdout \/ StartStderr
  BY <1>5
  DEF StartStdout, StartStderr, StartReader, Fail, Call!Settle, Call!Settles
<1>6. CASE DeadlineCheck
  BY <1>6 DEF DeadlineCheck, Fail, Call!Settle, Call!Settles
<1>7. CASE Poll
  <2>1. UNCHANGED scratch /\ pc = "poll" /\ pc' # "done"
    BY <1>7 DEF Poll, Decide, Fail
  <2>2. CASE process = "zombie" /\ process' = "collected"
    BY <2>1, <2>2 DEF Call!Collect, Call!Settles
  <2>3. CASE UNCHANGED process /\ result' = "ok"
    <3>1. result' # "none"
      BY <2>3
    <3>2. exit_status # "none"
      BY <1>7, <2>1, <2>3, <3>1 DEF Poll, Decide, Fail, Collect
    <3>3. process = "collected"
      BY <3>2 DEF StatusInv
    <3>4. QED
      BY <2>1, <2>3, <3>3 DEF Call!Settle, Call!Settles
  <2>4. CASE UNCHANGED process /\ result' # "ok"
    BY <2>1, <2>4 DEF Call!Settle, Call!Settles
  <2>5. QED
    BY <1>7, <2>2, <2>3, <2>4 DEF Poll, Collect
<1>8. CASE RecvNothing
  BY <1>8 DEF RecvNothing
<1>9. CASE OnHello \/ OnResponse \/ OnFinished \/ OnFailed
  <2>1. /\ UNCHANGED <<scratch, process>> /\ pc = "recv"
        /\ pc' \in {"top", "drop_stdin"} /\ result' # "ok"
    <3>1. /\ "ok" \notin ErrorKinds
          /\ \A l \in Lines : ResponseVerdict(l) # "ok" => ResponseVerdict(l) \in ErrorKinds
      BY Verdicts DEF ErrorKinds
    <3>2. QED
      BY <1>9, <3>1, HeadEvent
      DEF OnHello, OnResponse, OnFinished, OnFailed, Receive, Fail
  <2>2. QED
    BY <2>1 DEF Call!Settle, Call!Settles
<1>10. CASE DropStdin
  BY <1>10 DEF DropStdin
<1>11. CASE StopCheck
  BY <1>11 DEF StopCheck, Collect, Call!Collect, Call!Settles
<1>12. CASE Kill \/ DropKill
  BY <1>12 DEF Kill, DropKill
<1>13. CASE KillFailed
  BY <1>13 DEF KillFailed, Collect, Call!Collect, Call!Settles
<1>14. CASE Wait
  BY <1>14 DEF Wait, Collect, Call!Collect, Call!Settles
<1>15. CASE Join
  BY <1>15 DEF Join, Call!Settle, Call!Settles
<1>16. CASE DropWait
  BY <1>16 DEF DropWait, Call!Collect, Call!Settles
<1>17. CASE CloseScratch
  BY <1>17 DEF CloseScratch, Call!Return, Call!Settles
<1>18. CASE ReadStdout \/ DrainStderr \/ WriteStdin \/ DeadlinePasses
             \/ \E s \in Streams : Panic(s)
  BY <1>18 DEF ReadStdout, DrainStderr, WriteStdin, DeadlinePasses, Panic
<1>19. CASE KillTakesEffect
  BY <1>19 DEF KillTakesEffect, Call!Exit
<1>20. CASE Worker
  BY <1>20
  DEF Worker, WorkerWrites, WorkerLogs, WorkerReads, WorkerCloses, WorkerExits,
      Call!Exit
<1>21. CASE UNCHANGED vars
  BY <1>21 DEF vars
<1>22. QED
  BY <1>1, <1>2, <1>3, <1>4, <1>5, <1>6, <1>7, <1>8, <1>9, <1>10, <1>11,
     <1>12, <1>13, <1>14, <1>15, <1>16, <1>17, <1>18, <1>19, <1>20, <1>21
  DEF Next, Supervise, Main, Returned

\* The supervisor keeps the promise of EvaluationCall whatever the worker does
\* and whatever fails, as long as waiting for an exited process succeeds.
THEOREM ImplementsCall ==
  ASSUME "wait" \notin Faults
  PROVE  Spec => ImplementsEvaluationCall
<1>1. Init => Call!Init /\ PhaseInv
  BY DEF Init, Alive, Call!Init, PhaseInv, Undecided
<1>2. TypeOK /\ CleanupInv /\ ExchangeInv /\ PhaseInv /\ PhaseInv'
        /\ [Next]_vars => [Call!Next]_(Call!state)
  BY StepRefines DEF ExchangeInv
<1>3. QED
  BY <1>1, <1>2, ExchangeCorrect, PhaseInductive, PTL
  DEF Spec, ImplementsEvaluationCall, Call!Spec

-----------------------------------------------------------------------------
(* What a successful call returns, and what a failed one leaves.           *)


\* The buffer of Diagnostics and its flag, after errRead chunks.
RetainInv ==
  /\ kept = (IF errRead <= RetainedStderr THEN errRead ELSE RetainedStderr)
  /\ truncated <=> errRead > RetainedStderr

\* Only the stderr task appends to the diagnostics.
LEMMA RetainInductive == TypeOK /\ RetainInv /\ [Next]_vars => RetainInv'
<1> SUFFICES ASSUME TypeOK, RetainInv, [Next]_vars PROVE RetainInv'
  OBVIOUS
<1>1. errRead \in Nat /\ kept \in Nat /\ truncated \in BOOLEAN
      /\ RetainedStderr \in Nat
  BY BoundsAssumption DEF TypeOK
<1>2. CASE UNCHANGED <<errRead, kept, truncated>>
  BY <1>2 DEF RetainInv
<1>3. CASE DrainStderr
  BY <1>1, <1>2, <1>3 DEF DrainStderr, RetainInv
<1>4. CASE Main
  BY <1>2, <1>4, MainFrame
<1>5. CASE Others /\ ~DrainStderr
  BY <1>2, <1>5
  DEF Others, ReadStdout, WriteStdin, Panic, KillTakesEffect, DeadlinePasses,
      Returned, vars, Worker, WorkerWrites, WorkerLogs, WorkerReads,
      WorkerCloses, WorkerExits, errPipe
<1>6. CASE UNCHANGED vars
  BY <1>2, <1>6 DEF vars, errPipe
<1>7. QED
  BY <1>3, <1>4, <1>5, <1>6 DEF Next, Supervise, Others

\* A successful call returns all that was written to stderr, up to the limit.
THEOREM DiagnosticsAreWhole == Spec => []DiagnosticsAreComplete
<1>1. Init => RetainInv
  BY BoundsAssumption DEF Init, RetainInv
<1>2. TypeOK /\ CleanupInv /\ ExchangeInv /\ RetainInv => DiagnosticsAreComplete
  <2> SUFFICES ASSUME TypeOK, ExchangeInv, RetainInv, result = "ok"
               PROVE  DiagnosticsAreComplete
    BY DEF DiagnosticsAreComplete
  <2>1. "stderr" \in finished
    BY DEF ExchangeInv, StatusInv, Streams
  <2>2. errRead = errWritten
    BY <2>1 DEF ExchangeInv, HeardInv, Drained
  <2>3. truncated <=> errWritten > RetainedStderr
    BY <2>2 DEF RetainInv
  <2>4. truncated = (errWritten > RetainedStderr)
    <3>1. /\ truncated \in BOOLEAN /\ errWritten \in Nat
          /\ RetainedStderr \in Nat
      BY BoundsAssumption DEF TypeOK
    <3>2. QED
      BY <2>3, <3>1
  <2>5. QED
    BY <2>2, <2>4 DEF RetainInv, DiagnosticsAreComplete
<1>3. QED
  BY <1>1, <1>2, ExchangeCorrect, RetainInductive, PTL DEF Spec

-----------------------------------------------------------------------------
(* What a call reports of its cleanup, and which error it reports.         *)

\* The call that ends with its directory dropped: the path did not resolve.
Dropped == pc = "done" /\ result = "Path" /\ process = "absent" /\ cleanup = {}

\* A cleanup error is noted only for a call that has failed already, or fails
\* by it; a leaked directory is noted unless it was dropped.
ReportInv ==
  /\ "remove" \in cleanup => scratch = "leaked"
  /\ scratch = "leaked" => "remove" \in cleanup \/ Dropped
  /\ cleanup # {} => result \notin {"none", "ok"}

\* Stopping notes its error in a call that has failed, closing makes a success
\* fail with it.
LEMMA ReportInductive ==
  ASSUME TypeOK, CleanupInv, StatusInv, PhaseInv, ReportInv, [Next]_vars
  PROVE  ReportInv'
<1> USE DEF ReportInv, main
<1>1. CASE StopCheck \/ KillFailed \/ Wait
  <2>1. result \notin {"none", "ok"} /\ UNCHANGED <<result, scratch>>
        /\ cleanup' \in {cleanup, cleanup \cup {"stop"}} /\ scratch = "present"
    <3>1. pc \in {"stop", "kill_failed", "wait"} /\ UNCHANGED <<result, scratch>>
          /\ cleanup' \in {cleanup, cleanup \cup {"stop"}}
      BY <1>1 DEF StopCheck, KillFailed, Wait
    <3>2. QED
      BY <3>1 DEF PhaseInv, Undecided, StatusInv, CleanupInv
  <2>2. QED
    BY <2>1
<1>2. CASE CloseScratch
  <2>1. result # "none" /\ scratch = "present"
    BY <1>2 DEF CloseScratch, PhaseInv, Undecided, CleanupInv
  <2>2. CASE scratch' = "removed" /\ UNCHANGED <<result, cleanup>>
    BY <2>1, <2>2
  <2>3. CASE /\ scratch' = "leaked" /\ cleanup' = cleanup \cup {"remove"}
             /\ result' = IF result = "ok" THEN "Io" ELSE result
    BY <2>1, <2>3
  <2>4. QED
    BY <1>2, <2>2, <2>3 DEF CloseScratch
<1>3. CASE /\ UNCHANGED <<scratch, cleanup, result, pc>>
           /\ process = "absent" => process' = "absent"
  BY <1>3 DEF Dropped
<1>4. CASE Main /\ ~(StopCheck \/ KillFailed \/ Wait \/ CloseScratch)
  <2>1. UNCHANGED cleanup
    BY <1>4
    DEF Main, Refuse, OpenScratch, CheckDeadline, Spawn, StartStdout,
        StartStderr, StartReader, DeadlineCheck, Poll, RecvNothing, OnHello,
        OnResponse, OnFinished, OnFailed, Receive, DropStdin, Kill, Join,
        DropKill, DropWait
  <2>2. scratch # "leaked" /\ "remove" \notin cleanup
    <3>1. pc # "done"
      BY <1>4
      DEF Main, Refuse, OpenScratch, CheckDeadline, Spawn, StartStdout,
          StartStderr, StartReader, DeadlineCheck, Poll, RecvNothing, OnHello,
          OnResponse, OnFinished, OnFailed, Receive, DropStdin, Kill, Join,
          DropKill, DropWait
    <3>2. QED
      BY <3>1 DEF CleanupInv
  <2>3. scratch' = "leaked" => Dropped'
    <3>1. CASE OpenScratch
      <4>1. cleanup = {} /\ process = "absent"
        BY <3>1 DEF OpenScratch, PhaseInv, Undecided, CleanupInv
      <4>2. QED
        BY <3>1, <4>1 DEF OpenScratch, Dropped, worker
    <3>2. CASE ~OpenScratch
      <4>1. UNCHANGED scratch
        BY <1>4, <3>2
        DEF Main, Refuse, CheckDeadline, Spawn, StartStdout, StartStderr,
            StartReader, DeadlineCheck, Poll, RecvNothing, OnHello, OnResponse,
            OnFinished, OnFailed, Receive, DropStdin, Kill, Join, DropKill,
            DropWait
      <4>2. QED
        BY <2>2, <4>1
    <3>3. QED
      BY <3>1, <3>2
  <2>4. result \notin {"none", "ok"} => UNCHANGED result
    BY <1>4
    DEF Main, Refuse, OpenScratch, CheckDeadline, Spawn, StartStdout,
        StartStderr, StartReader, DeadlineCheck, Poll, RecvNothing, OnHello,
        OnResponse, OnFinished, OnFailed, Receive, DropStdin, Kill, Join,
        DropKill, DropWait, PhaseInv, Undecided
  <2>5. QED
    BY <2>1, <2>2, <2>3, <2>4
<1>5. CASE Others
  BY <1>3, <1>5
  DEF Others, ReadStdout, DrainStderr, WriteStdin, Panic, KillTakesEffect,
      DeadlinePasses, Returned, vars, worker, Worker, WorkerWrites, WorkerLogs,
      WorkerReads, WorkerCloses, WorkerExits
<1>6. CASE UNCHANGED vars
  BY <1>3, <1>6 DEF vars, worker
<1>7. QED
  BY <1>1, <1>2, <1>4, <1>5, <1>6 DEF Next, Supervise, Others

\* PhaseInv with everything it is proved from.
LEMMA PhaseCorrect == Spec => [](TypeOK /\ CleanupInv /\ ExchangeInv /\ PhaseInv)
<1>1. Init => PhaseInv
  BY DEF Init, PhaseInv, Undecided
<1>2. QED
  BY <1>1, ExchangeCorrect, PhaseInductive, PTL DEF Spec

\* A call that returns leaves no directory and no worker, or says so; silent is only
\* the drop of a directory whose path did not resolve, before any worker.
THEOREM LeavesNothingBehind == Spec => []NothingLeftBehind
<1>1. Init => ReportInv
  BY DEF Init, ReportInv
<1>2. TypeOK /\ CleanupInv /\ ReportInv => NothingLeftBehind
  BY DEF TypeOK, CleanupInv, ReportInv, NothingLeftBehind, Alive, Dropped
<1>3. TypeOK /\ CleanupInv /\ ExchangeInv /\ PhaseInv /\ ReportInv /\ [Next]_vars
        => ReportInv'
  BY ReportInductive DEF ExchangeInv
<1>4. QED
  BY <1>1, <1>2, <1>3, PhaseCorrect, PTL DEF Spec

\* No step of a decided call replaces its result, but for a success lost to
\* the cleanup.
LEMMA ResultKept ==
  ASSUME TypeOK, PhaseInv, [Next]_vars, result # "none"
  PROVE  \/ result' = result
         \/ result = "ok" /\ result' \in {"ThreadPanicked", "Io"}
<1>1. pc \in {"drop_stdin", "stop", "kill", "kill_failed", "wait", "join",
              "drop_kill", "drop_wait", "close", "done"}
  BY DEF PhaseInv, Undecided, TypeOK, MainPcs
<1>2. CASE Main
  BY <1>1, <1>2
  DEF Main, Refuse, OpenScratch, CheckDeadline, Spawn, StartStdout,
      StartStderr, StartReader, DeadlineCheck, Poll, RecvNothing, OnHello,
      OnResponse, OnFinished, OnFailed, Receive, DropStdin, StopCheck, Kill,
      KillFailed, Wait, Join, DropKill, DropWait, CloseScratch
<1>3. CASE Others
  BY <1>3, OthersFrame
<1>4. CASE UNCHANGED vars
  BY <1>4 DEF vars, main
<1>5. QED
  BY <1>2, <1>3, <1>4 DEF Next, Supervise, Others

\* The first failure is the one reported, whatever the cleanup meets.
THEOREM FirstFailureIsKept == Spec => FirstFailureKept
<1>1. TypeOK /\ PhaseInv /\ [Next]_vars
        => [result # "none" => \/ result' = result
                               \/ /\ result = "ok"
                                  /\ result' \in {"ThreadPanicked", "Io"}]_result
  BY ResultKept
<1>2. QED
  BY <1>1, PhaseCorrect, PTL DEF Spec, FirstFailureKept

-----------------------------------------------------------------------------
(* With the program's own worker: the answer sent is the answer reported.  *)

\* Everything proved of the supervisor holds with its own worker.
Known == TypeOK /\ CleanupInv /\ ExchangeInv /\ PhaseInv

\* The program's own worker is one of the workers Supervisor.tla allows.
LEMMA OwnWorker == EvaluatorStep => Worker
  BY HelloAssumption
  DEF EvaluatorStep, Worker, SendHello, ReadRequest, RequestCut,
      EvaluationLogs, SendAnswer, Break, ExitNormally

\* So all that is proved of the supervisor under an arbitrary worker holds of the
\* supervisor and `__worker` together.
THEOREM WorkerImplements == WorkerSpec => Spec
<1>1. WorkerInit => Init
  BY DEF WorkerInit
<1>2. [WorkerNext]_allVars => [Next]_vars
  BY OwnWorker DEF WorkerNext, Next, allVars
<1>3. QED
  BY <1>1, <1>2, PTL DEF WorkerSpec, Spec

\* The worker has sent its one answer.
Answered ==
  /\ Len(written) = 2 /\ written[1] = "hello"
  /\ written[2] \in {"response", "failure"}

\* The worker has exited, collected or not.
Exited == process \in {"zombie", "collected"}

\* Where the worker is decides what it has written and read, and how it ends.
ProgressInv ==
  /\ taken <= sent /\ sent <= RequestChunks
  /\ process = "absent" => step = "hello"
  /\ step \in {"hello", "request", "evaluate", "exit", "over"}
  /\ step = "hello" => written = <<>> /\ taken = 0
  /\ step = "request" => written = <<"hello">> /\ taken < RequestChunks
  /\ step = "evaluate" => written = <<"hello">> /\ taken = RequestChunks
  /\ step = "exit" => Answered /\ taken = RequestChunks
  /\ step = "over" => /\ Exited
                      /\ written \in {<<>>, <<"hello">>} \/ Answered
  /\ ~Exited => code = "none"
  /\ Exited => code \in {"success", "failure"}
  /\ code = "success" => Answered

\* When no call fails no thread unwinds, and stdout ends with the process.
QuietInv ==
  /\ closed = FALSE
  /\ \A s \in Streams : thread[s] # "panicked"
  /\ thread["stdout"] = "done" => Exited

\* As long as the exchange goes on the worker is not killed, its request is not
\* cut short, and it exits with an answer or as one that broke.
OpenInv ==
  result = "none" =>
    /\ process # "killed"
    /\ stdin = "closed" => sent = RequestChunks
    /\ Exited => step = "over" /\ taken = RequestChunks
    /\ code = "failure" => Len(written) < 2

\* How the calling thread moves the process.
LEMMA MainMovesProcess ==
  ASSUME Main, CleanupInv
  PROVE  /\ UNCHANGED <<taken, closed>>
         /\ \/ UNCHANGED process
            \/ process = "absent" /\ process' = "running" /\ pc = "spawn"
            \/ process = "zombie" /\ process' = "collected"
            \/ process = "running" /\ process' = "killed"
                 /\ pc \in {"kill", "drop_kill"}
<1> USE DEF main, locals, worker, outPipe, errPipe, inPipe, io
<1>1. CASE Spawn
  BY <1>1 DEF Spawn, CleanupInv
<1>2. CASE Poll \/ StopCheck \/ KillFailed \/ Wait
  BY <1>2 DEF Poll, StopCheck, KillFailed, Wait, Collect
<1>3. CASE Kill \/ DropKill \/ DropWait
  BY <1>3 DEF Kill, DropKill, DropWait
<1>4. CASE OnHello \/ OnResponse \/ OnFinished \/ OnFailed
  BY <1>4 DEF OnHello, OnResponse, OnFinished, OnFailed, Receive
<1>5. CASE \/ \E k \in ErrorKinds : Refuse(k)
           \/ OpenScratch \/ CheckDeadline \/ StartStdout \/ StartStderr
           \/ DeadlineCheck \/ RecvNothing \/ DropStdin \/ Join \/ CloseScratch
  BY <1>5
  DEF Refuse, OpenScratch, CheckDeadline, StartStdout, StartStderr, StartReader,
      DeadlineCheck, RecvNothing, DropStdin, Join, CloseScratch
<1>6. QED
  BY <1>1, <1>2, <1>3, <1>4, <1>5 DEF Main

\* The steps of the composed system, the worker's apart.
LEMMA WorkerCases ==
  ASSUME [WorkerNext]_allVars
  PROVE  \/ UNCHANGED step /\ Main
         \/ UNCHANGED step /\ ReadStdout
         \/ UNCHANGED step /\ WriteStdin
         \/ UNCHANGED step /\ KillTakesEffect
         \/ UNCHANGED step /\ (DrainStderr \/ DeadlinePasses \/ UNCHANGED vars
                                 \/ \E s \in Streams : Panic(s))
         \/ EvaluatorStep
  BY DEF WorkerNext, Supervise, Returned, allVars

\* Each worker step moves its output, its input and its exit together.
LEMMA ProgressInductive ==
  ASSUME Known, ProgressInv, [WorkerNext]_allVars
  PROVE  ProgressInv'
<1> USE DEF ProgressInv, Answered, Exited, outPipe, errPipe, inPipe, io, worker
<1>0. /\ taken \in Nat /\ sent \in Nat /\ RequestChunks \in Nat \ {0}
      /\ written \in Seq(Lines)
      /\ process \in {"absent", "running", "killed", "zombie", "collected"}
  BY BoundsAssumption DEF Known, TypeOK
<1>1. CASE UNCHANGED step /\ Main
  <2>1. /\ UNCHANGED <<step, taken, sent, written, code>>
        /\ \/ UNCHANGED process
           \/ process = "absent" /\ process' = "running"
           \/ process = "zombie" /\ process' = "collected"
           \/ process = "running" /\ process' = "killed"
    BY <1>1, MainFrame, MainMovesProcess DEF Known
  <2>2. QED
    BY <2>1, <1>0
<1>2. CASE UNCHANGED step /\ ReadStdout
  <2>1. UNCHANGED <<step, taken, sent, written, code, process>>
    BY <1>2 DEF ReadStdout
  <2>2. QED
    BY <2>1
<1>3. CASE UNCHANGED step /\ WriteStdin
  <2>1. /\ UNCHANGED <<step, taken, written, code, process>>
        /\ \/ UNCHANGED sent
           \/ sent < RequestChunks /\ sent' = sent + 1
    BY <1>3 DEF WriteStdin
  <2>2. QED
    BY <2>1, <1>0
<1>4. CASE UNCHANGED step /\ KillTakesEffect
  <2>1. /\ UNCHANGED <<step, taken, sent, written>>
        /\ process = "killed" /\ process' = "zombie" /\ code' = "failure"
    BY <1>4 DEF KillTakesEffect
  <2>2. QED
    BY <2>1
<1>5. CASE UNCHANGED step /\ (DrainStderr \/ DeadlinePasses \/ UNCHANGED vars
                                 \/ \E s \in Streams : Panic(s))
  <2>1. UNCHANGED <<step, taken, sent, written, code, process>>
    BY <1>5 DEF DrainStderr, DeadlinePasses, vars, Panic
  <2>2. QED
    BY <2>1
<1>6. CASE SendHello
  <2>1. /\ UNCHANGED <<taken, sent, code, process>> /\ process = "running"
        /\ written' = Append(written, "hello") /\ step = "hello"
        /\ step' = "request"
    BY <1>6 DEF SendHello, WorkerWrites
  <2>2. written' = <<"hello">>
    BY <2>1
  <2>3. QED
    BY <2>1, <2>2, <1>0
<1>7. CASE ReadRequest
  <2>1. /\ UNCHANGED <<sent, written, code, process>> /\ process = "running"
        /\ taken < sent /\ taken' = taken + 1 /\ step = "request"
        /\ step' = IF taken' = RequestChunks THEN "evaluate" ELSE "request"
    BY <1>7 DEF ReadRequest, WorkerReads
  <2>2. QED
    BY <2>1, <1>0
<1>8. CASE RequestCut \/ Break \/ ExitNormally
  <2>1. /\ UNCHANGED <<taken, sent, written>> /\ process = "running"
        /\ process' = "zombie" /\ step' = "over"
        /\ \/ code' = "failure" /\ step \in {"request", "evaluate", "hello"}
           \/ code' = "success" /\ step = "exit"
    BY <1>8 DEF RequestCut, Break, ExitNormally, WorkerExits
  <2>2. QED
    BY <2>1
<1>9. CASE EvaluationLogs
  <2>1. UNCHANGED <<step, taken, sent, written, code, process>>
    BY <1>9 DEF EvaluationLogs, WorkerLogs
  <2>2. QED
    BY <2>1
<1>10. ASSUME NEW l \in WorkerLines, SendAnswer(l) PROVE ProgressInv'
  <2>1. /\ UNCHANGED <<taken, sent, code, process>> /\ process = "running"
        /\ written' = Append(written, l) /\ step = "evaluate"
        /\ step' = "exit" /\ l \in {"response", "failure"}
    BY <1>10 DEF SendAnswer, WorkerWrites
  <2>2. written' = Append(<<"hello">>, l)
    BY <2>1
  <2>3. Len(written') = 2 /\ written'[1] = "hello" /\ written'[2] = l
    BY <2>2
  <2>4. QED
    BY <2>1, <2>3
<1>11. QED
  BY <1>1, <1>2, <1>3, <1>4, <1>5, <1>6, <1>7, <1>8, <1>9, <1>10, WorkerCases
  DEF EvaluatorStep

\* The worker's output is one of four.
LEMMA Transcripts ==
  ASSUME ProgressInv, written \in Seq(Lines)
  PROVE  /\ Len(written) <= 2
         /\ \A i \in 1..Len(written) : written[i] # "long"
         /\ Len(written) >= 1 => written[1] = "hello"
         /\ Len(written) = 2 => written[2] \in {"response", "failure"}
  BY DEF ProgressInv, Answered

\* A pipe whose writer has gone while the exchange goes on.
LEMMA Gone ==
  ASSUME Known, QuietInv, ~Open, \E s \in Streams : thread[s] # "unborn"
  PROVE  process \in {"zombie", "collected"}
  BY DEF Known, TypeOK, CleanupInv, QuietInv, Open, Alive

\* The stdout task ends only with the process: no line is long, none follows the
\* answer, and the pipe stays open as long as the worker lives.
LEMMA QuietInductive ==
  ASSUME Faults = {}, Known, ProgressInv, QuietInv, [WorkerNext]_allVars
  PROVE  QuietInv'
<1> USE DEF QuietInv, Exited, outPipe, errPipe, inPipe, io, worker
<1>0. /\ written \in Seq(Lines) /\ outRead \in Nat /\ Streams # {}
      /\ thread \in [Streams -> ThreadPcs] /\ "stdout" \in Streams
      /\ "stdin" \in Streams /\ "stderr" \in Streams
  BY DEF Known, TypeOK, ThreadPcs, Streams
<1>1. CASE Main
  <2>1. /\ UNCHANGED closed
        /\ Exited => Exited'
        /\ UNCHANGED thread \/ StartStdout \/ StartStderr \/ OnHello
    BY <1>1, MainFrame, MainMovesProcess DEF Known
  <2>2. /\ \A s \in Streams : thread'[s] \in {thread[s], "hello", "read", "write"}
        /\ thread'["stdout"] = "done" => thread["stdout"] = "done"
    BY <1>0, <2>1
    DEF StartStdout, StartStderr, StartReader, OnHello, Streams
  <2>3. QED
    BY <2>1, <2>2
<1>2. CASE ReadStdout
  <2>1. /\ UNCHANGED <<closed, process, written>>
        /\ \/ ReadLine("hello", "Hello", "response")
           \/ ReadLine("response", "Response", "tail")
           \/ ReadTail
    BY <1>2 DEF ReadStdout
  <2>2. /\ thread["stdout"] \in {"hello", "response", "tail"}
        /\ ~Open => Exited
    BY <2>1, <1>0, Gone DEF ReadLine, ReadTail
  <2>3. Unread > 0 => outRead + 1 \in 1..Len(written) /\ written[outRead + 1] # "long"
    BY <1>0, Transcripts DEF Unread
  <2>4. Unread > 0 => thread["stdout"] # "tail"
    BY <1>0, Transcripts DEF Unread, Known, ExchangeInv, ReadInv
  <2>5. \/ \E e \in {"response", "tail"} : thread' = [thread EXCEPT !["stdout"] = e]
        \/ ~Open /\ thread' = [thread EXCEPT !["stdout"] = "done"]
    BY <2>1, <2>3, <2>4 DEF ReadLine, ReadTail, Abort, Finish, Complete
  <2>6. QED
    BY <1>0, <2>1, <2>2, <2>5
<1>3. CASE WriteStdin \/ DrainStderr
  <2>1. /\ UNCHANGED <<closed, process>>
        /\ \/ UNCHANGED thread
           \/ \E s \in {"stdin", "stderr"} : thread' = [thread EXCEPT ![s] = "done"]
    BY <1>3 DEF WriteStdin, DrainStderr, Abort, Finish, Complete
  <2>2. QED
    BY <1>0, <2>1
<1>4. CASE KillTakesEffect \/ DeadlinePasses \/ UNCHANGED vars
  <2>1. /\ UNCHANGED <<closed, thread>>
        /\ Exited => Exited'
    BY <1>4 DEF KillTakesEffect, DeadlinePasses, vars
  <2>2. QED
    BY <2>1
<1>5. CASE EvaluatorStep
  <2>1. UNCHANGED <<closed, thread>> /\ process = "running"
    BY <1>5
    DEF EvaluatorStep, SendHello, ReadRequest, RequestCut, EvaluationLogs,
        SendAnswer, Break, ExitNormally, WorkerWrites, WorkerReads, WorkerLogs,
        WorkerExits
  <2>2. QED
    BY <2>1
<1>6. ~\E s \in Streams : Panic(s)
  BY DEF Panic
<1>7. QED
  BY <1>1, <1>2, <1>3, <1>4, <1>5, <1>6, WorkerCases

\* A decided call stays decided.
LEMMA StaysDecided ==
  ASSUME Known, [WorkerNext]_allVars, result' = "none"
  PROVE  result = "none"
<1>1. [Next]_vars
  BY OwnWorker DEF WorkerNext, Next, allVars
<1>2. QED
  BY <1>1, ResultKept DEF Known

\* While the exchange goes on nobody kills the worker, and the stdin task ends
\* only when the whole request is sent.
LEMMA OpenInductive ==
  ASSUME Faults = {}, Known, ProgressInv, QuietInv, OpenInv,
         [WorkerNext]_allVars
  PROVE  OpenInv'
<1> SUFFICES ASSUME result' = "none" PROVE OpenInv'
  BY DEF OpenInv
<1>0. /\ taken \in Nat /\ sent \in Nat /\ RequestChunks \in Nat \ {0}
      /\ "stdin" \in Streams /\ "stdout" \in Streams
      /\ taken <= sent /\ sent <= RequestChunks
  BY BoundsAssumption DEF Known, TypeOK, Streams, ProgressInv
<1>1. /\ result = "none" /\ pc \in Undecided
      /\ process # "killed"
      /\ stdin = "closed" => sent = RequestChunks
      /\ Exited => step = "over" /\ taken = RequestChunks
      /\ code = "failure" => Len(written) < 2
  BY StaysDecided DEF OpenInv, Known, PhaseInv
<1> USE DEF OpenInv, outPipe, errPipe, inPipe, io, worker
<1>2. CASE UNCHANGED step /\ Main
  <2>1. /\ UNCHANGED <<taken, sent, written, code>>
        /\ \/ UNCHANGED process
           \/ process = "absent" /\ process' = "running"
           \/ process = "zombie" /\ process' = "collected"
    BY <1>1, <1>2, MainFrame, MainMovesProcess DEF Known, Undecided
  <2>2. stdin' = "closed" => stdin = "closed"
    BY <1>1, <1>2
    DEF Main, Refuse, OpenScratch, CheckDeadline, Spawn, StartStdout,
        StartStderr, StartReader, DeadlineCheck, Poll, RecvNothing, OnHello,
        OnResponse, OnFinished, OnFailed, Receive, DropStdin, StopCheck, Kill,
        KillFailed, Wait, Join, DropKill, DropWait, CloseScratch, Undecided
  <2>3. QED
    BY <1>1, <1>2, <2>1, <2>2 DEF Exited
<1>3. CASE UNCHANGED step /\ (ReadStdout \/ DrainStderr \/ DeadlinePasses
                                \/ UNCHANGED vars)
  <2>1. UNCHANGED <<step, stdin, process, code, written, taken, sent>>
    BY <1>3 DEF ReadStdout, DrainStderr, DeadlinePasses, vars
  <2>2. QED
    BY <1>1, <2>1 DEF Exited
<1>4. CASE UNCHANGED step /\ WriteStdin
  <2>1. UNCHANGED <<step, process, code, written, taken>>
    BY <1>4 DEF WriteStdin
  <2>2. sent < RequestChunks => Open
    <3>1. thread["stdin"] # "unborn"
      BY <1>4 DEF WriteStdin
    <3>2. ~Open => Exited
      BY <1>0, <3>1, Gone DEF Exited
    <3>3. QED
      BY <1>0, <1>1, <3>2
  <2>3. \/ UNCHANGED stdin /\ sent < RequestChunks /\ sent' = sent + 1
        \/ sent' = RequestChunks
    BY <1>4, <2>2 DEF WriteStdin
  <2>4. stdin' = "closed" => sent' = RequestChunks
    BY <1>0, <1>1, <2>3
  <2>5. QED
    BY <1>1, <2>1, <2>4 DEF Exited
<1>5. CASE SendHello \/ ReadRequest \/ EvaluationLogs
             \/ \E l \in WorkerLines : SendAnswer(l)
  <2>1. /\ process = "running" /\ UNCHANGED <<process, code, stdin, sent>>
    BY <1>5
    DEF SendHello, ReadRequest, EvaluationLogs, SendAnswer, WorkerWrites,
        WorkerReads, WorkerLogs
  <2>2. code = "none"
    BY <2>1 DEF ProgressInv, Exited
  <2>3. QED
    BY <1>1, <2>1, <2>2 DEF Exited
<1>6. CASE RequestCut
  BY <1>0, <1>1, <1>6 DEF RequestCut
<1>7. CASE Break
  <2>1. step = "evaluate"
    <3>1. \/ step = "evaluate"
          \/ process = "running" /\ thread["stdout"] \in {"done", "panicked"}
      BY <1>7 DEF Break, WorkerExits, Ended
    <3>2. QED
      BY <1>0, <3>1 DEF QuietInv, Exited
  <2>2. /\ UNCHANGED <<stdin, written, taken, sent>> /\ process' = "zombie"
        /\ step' = "over"
    BY <1>7 DEF Break, WorkerExits
  <2>3. taken = RequestChunks /\ Len(written) < 2
    <3>1. taken = RequestChunks /\ written = <<"hello">>
      BY <2>1 DEF ProgressInv
    <3>2. QED
      BY <3>1
  <2>4. QED
    BY <1>1, <2>2, <2>3
<1>8. CASE ExitNormally
  <2>1. /\ UNCHANGED <<stdin, written, taken, sent>> /\ process' = "zombie"
        /\ step' = "over" /\ step = "exit" /\ code' = "success"
    BY <1>8 DEF ExitNormally, WorkerExits
  <2>2. QED
    BY <1>1, <2>1 DEF ProgressInv
<1>9. ~KillTakesEffect /\ ~\E s \in Streams : Panic(s)
  BY <1>1 DEF KillTakesEffect, Panic
<1>10. QED
  BY <1>2, <1>3, <1>4, <1>5, <1>6, <1>7, <1>8, <1>9, WorkerCases
  DEF EvaluatorStep

\* Among the first n events waiting there is one of this type.
Queued(type, n) == \E j \in 1..n : channel[j].type = type

\* An event comes after those it follows, received or still waiting, and never
\* twice; the only failure is the end of a worker that broke.
InTurn(i) ==
  /\ channel[i].type = "Hello" => ~hello_received /\ ~Queued("Hello", i - 1)
  /\ channel[i].type = "Response" =>
       /\ ~response /\ ~Queued("Response", i - 1)
       /\ hello_received \/ Queued("Hello", i - 1)
  /\ channel[i].type = "Finished" /\ channel[i].arg = "stdout" =>
       response \/ Queued("Response", i - 1)
  /\ channel[i].type = "Failed" =>
       channel[i].arg = "IncompleteLine" /\ code = "failure"

TurnInv ==
  result = "none" =>
    /\ \A i \in 1..Len(channel) : InTurn(i)
    /\ thread["stdout"] = "response" =>
         hello_received \/ Queued("Hello", Len(channel))
    /\ thread["stdout"] = "tail" =>
         response \/ Queued("Response", Len(channel))
    /\ "stdout" \in finished => response

\* The exit status is set once.
LEMMA CodeIsFinal ==
  ASSUME Known, ProgressInv, [WorkerNext]_allVars, code # "none"
  PROVE  UNCHANGED <<code, written>>
<1>1. Exited
  BY DEF ProgressInv
<1>2. CASE Main
  BY <1>2, MainFrame
<1>3. CASE EvaluatorStep
  BY <1>1, <1>3
  DEF EvaluatorStep, SendHello, ReadRequest, RequestCut, EvaluationLogs,
      SendAnswer, Break, ExitNormally, WorkerWrites, WorkerReads, WorkerLogs,
      WorkerExits, Exited
<1>4. QED
  BY <1>1, <1>2, <1>3, WorkerCases
  DEF ReadStdout, WriteStdin, KillTakesEffect, DrainStderr, DeadlinePasses, vars,
      Panic, Exited, worker, outPipe

\* Sending an event keeps the turn of those before it.
LEMMA SendKeeps ==
  ASSUME channel \in Seq(Event), NEW e \in Event, channel' = Append(channel, e),
         UNCHANGED <<hello_received, response>>,
         code = "failure" => code' = "failure",
         \A i \in 1..Len(channel) : InTurn(i)
  PROVE  /\ \A i \in 1..Len(channel) : InTurn(i)'
         /\ Len(channel') = Len(channel) + 1 /\ channel'[Len(channel) + 1] = e
         /\ \A t : Queued(t, Len(channel))'
              <=> Queued(t, Len(channel)) \/ e.type = t
<1> PICK n \in Nat : n = Len(channel)
  OBVIOUS
<1>1. /\ Len(channel') = n + 1 /\ channel'[n + 1] = e
      /\ \A i \in 1..n : channel'[i] = channel[i]
  OBVIOUS
<1>2. ASSUME NEW t, NEW k \in Nat, k <= n
      PROVE  Queued(t, k)' <=> Queued(t, k)
  BY <1>1, <1>2 DEF Queued
<1>3. ASSUME NEW i \in 1..n PROVE InTurn(i)'
  <2>1. channel'[i] = channel[i] /\ i - 1 \in Nat /\ i - 1 <= n /\ InTurn(i)
    BY <1>1
  <2>2. \A t : Queued(t, i - 1)' <=> Queued(t, i - 1)
    BY <1>2, <2>1
  <2>3. QED
    BY <2>1, <2>2 DEF InTurn
<1>4. ASSUME NEW t
      PROVE  Queued(t, n + 1)' <=> Queued(t, n) \/ e.type = t
  <2>1. ASSUME NEW j \in 1..(n + 1), channel'[j].type = t, e.type # t
        PROVE  Queued(t, n)
    <3>1. j \in 1..n /\ channel[j].type = t
      BY <1>1, <2>1
    <3>2. QED
      BY <3>1 DEF Queued
  <2>2. ASSUME NEW j \in 1..n, channel[j].type = t
        PROVE  j \in 1..(n + 1) /\ channel'[j].type = t
    BY <1>1, <2>2
  <2>3. n + 1 \in 1..(n + 1) /\ channel'[n + 1] = e
    BY <1>1
  <2>4. QED
    BY <2>1, <2>2, <2>3 DEF Queued
<1>5. ASSUME NEW t
      PROVE  Queued(t, Len(channel))' <=> Queued(t, Len(channel)) \/ e.type = t
  BY <1>1, <1>4 DEF Queued
<1>6. QED
  BY <1>1, <1>3, <1>5

\* Receiving the head moves the others up.
LEMMA ReceiveMovesUp ==
  ASSUME channel \in Seq(Event), channel # <<>>, channel' = Tail(channel)
  PROVE  /\ Len(channel) \in Nat \ {0} /\ Len(channel') = Len(channel) - 1
         /\ \A i \in 1..Len(channel') : channel'[i] = channel[i + 1]
         /\ \A t : \A k \in 0..Len(channel') :
              Queued(t, k + 1) <=> Head(channel).type = t \/ Queued(t, k)'
<1>1. /\ Len(channel) \in Nat \ {0} /\ Len(channel') = Len(channel) - 1
      /\ \A i \in 1..Len(channel') : channel'[i] = channel[i + 1]
      /\ Head(channel) = channel[1]
  OBVIOUS
<1>2. ASSUME NEW t, NEW k \in 0..Len(channel')
      PROVE  Queued(t, k + 1) <=> Head(channel).type = t \/ Queued(t, k)'
  <2>1. ASSUME NEW j \in 1..(k + 1), channel[j].type = t, j # 1
        PROVE  Queued(t, k)'
    <3>1. j - 1 \in 1..k /\ j - 1 \in 1..Len(channel') /\ (j - 1) + 1 = j
      BY <1>1, <2>1
    <3>2. channel'[j - 1] = channel[j]
      BY <1>1, <3>1
    <3>3. QED
      BY <2>1, <3>1, <3>2 DEF Queued
  <2>2. ASSUME NEW j \in 1..k, channel'[j].type = t
        PROVE  Queued(t, k + 1)
    <3>1. j + 1 \in 1..(k + 1) /\ channel[j + 1].type = t
      BY <1>1, <2>2
    <3>2. QED
      BY <3>1 DEF Queued
  <2>3. Head(channel).type = t => Queued(t, k + 1)
    <3>1. 1 \in 1..(k + 1)
      OBVIOUS
    <3>2. QED
      BY <1>1, <3>1 DEF Queued
  <2>4. QED
    BY <1>1, <2>1, <2>2, <2>3 DEF Queued
<1>3. QED
  BY <1>1, <1>2

\* The turn of an event sent now.
Fits(e) ==
  /\ e.type = "Hello" => ~hello_received /\ ~Queued("Hello", Len(channel))
  /\ e.type = "Response" =>
       /\ ~response /\ ~Queued("Response", Len(channel))
       /\ hello_received \/ Queued("Hello", Len(channel))
  /\ e.type = "Finished" /\ e.arg = "stdout" =>
       response \/ Queued("Response", Len(channel))
  /\ e.type = "Failed" => e.arg = "IncompleteLine" /\ code = "failure"

LEMMA SendInTurn ==
  ASSUME channel \in Seq(Event), NEW e \in Event, channel' = Append(channel, e),
         UNCHANGED <<hello_received, response>>,
         code = "failure" => code' = "failure",
         \A i \in 1..Len(channel) : InTurn(i), Fits(e)
  PROVE  \A i \in 1..Len(channel') : InTurn(i)'
<1> PICK n \in Nat : n = Len(channel)
  OBVIOUS
<1>1. /\ \A i \in 1..n : InTurn(i)' /\ channel'[i] = channel[i]
      /\ Len(channel') = n + 1 /\ channel'[n + 1] = e
  BY SendKeeps
<1>2. \A t : Queued(t, n)' <=> Queued(t, n)
  BY <1>1 DEF Queued
<1>3. InTurn(n + 1)'
  <2>1. (n + 1) - 1 = n
    OBVIOUS
  <2>2. QED
    BY <1>1, <1>2, <2>1 DEF InTurn, Fits
<1>4. QED
  BY <1>1, <1>3

\* What the stdout task has yet to read has not been announced.
LEMMA Unheard ==
  ASSUME Known
  PROVE  /\ thread["stdout"] = "hello" =>
              ~hello_received /\ ~Queued("Hello", Len(channel))
         /\ thread["stdout"] = "response" =>
              ~response /\ ~Queued("Response", Len(channel))
<1>1. /\ outRead \in Nat /\ ReadInv /\ HeardInv
      /\ \A i \in 1..Len(channel) : Truthful(channel[i])
  BY DEF Known, TypeOK, ExchangeInv, QueueInv
<1>2. /\ Queued("Hello", Len(channel)) => outRead >= 1
      /\ Queued("Response", Len(channel)) => outRead >= 2
  BY <1>1 DEF Queued, Truthful, FirstLine, SecondLine
<1>3. /\ hello_received => outRead >= 1
      /\ response => outRead >= 2
  BY <1>1 DEF HeardInv, FirstLine, SecondLine
<1>4. QED
  BY <1>1, <1>2, <1>3 DEF ReadInv

\* A step that neither sends nor receives.
LEMMA TurnKept ==
  ASSUME TurnInv, result = "none",
         UNCHANGED <<channel, hello_received, response, finished>>,
         thread'["stdout"] \in {"response", "tail"} =>
           thread'["stdout"] = thread["stdout"],
         code = "failure" => code' = "failure"
  PROVE  TurnInv'
<1>1. \A t, n : Queued(t, n)' <=> Queued(t, n)
  BY DEF Queued
<1>2. QED
  BY <1>1 DEF TurnInv, InTurn

\* Sending one, by a task that stays, or ends.
LEMMA TurnSent ==
  ASSUME TurnInv, result = "none", channel \in Seq(Event),
         UNCHANGED <<hello_received, response, finished>>,
         code = "failure" => code' = "failure",
         NEW e \in Event, channel' = Append(channel, e), Fits(e),
         thread'["stdout"] = "response" =>
           e.type = "Hello" \/ thread["stdout"] = "response",
         thread'["stdout"] = "tail" =>
           e.type = "Response" \/ thread["stdout"] = "tail"
  PROVE  TurnInv'
<1>1. /\ \A i \in 1..Len(channel) : InTurn(i)
      /\ thread["stdout"] = "response" =>
           hello_received \/ Queued("Hello", Len(channel))
      /\ thread["stdout"] = "tail" =>
           response \/ Queued("Response", Len(channel))
      /\ "stdout" \in finished => response
  BY DEF TurnInv
<1>2. \A i \in 1..Len(channel') : InTurn(i)'
  BY <1>1, SendInTurn
<1>3. \A t : Queued(t, Len(channel))' <=> Queued(t, Len(channel)) \/ e.type = t
  BY <1>1, SendKeeps
<1>4. QED
  BY <1>1, <1>2, <1>3 DEF TurnInv

\* The stdout task keeps the order in which it sends, the calling thread that in
\* which it receives, and the other two tasks never fail.
LEMMA TurnInductive ==
  ASSUME Faults = {}, Known, ProgressInv, QuietInv, OpenInv, TurnInv,
         [WorkerNext]_allVars
  PROVE  TurnInv'
<1> SUFFICES ASSUME result' = "none" PROVE TurnInv'
  BY DEF TurnInv
<1> USE DEF outPipe, errPipe, inPipe, io, worker, locals
<1>0. /\ result = "none" /\ channel \in Seq(Event) /\ "none" \notin ErrorKinds
      /\ thread \in [Streams -> ThreadPcs]
      /\ "stdin" \in Streams /\ "stdout" \in Streams /\ "stderr" \in Streams
      /\ \A i \in 1..Len(channel) : InTurn(i)
      /\ code = "failure" => code' = "failure"
  BY StaysDecided, CodeIsFinal
  DEF TurnInv, Known, TypeOK, ErrorKinds, ThreadPcs, Streams
<1>1. CASE UNCHANGED <<channel, thread, hello_received, response, finished>>
  BY <1>0, <1>1, TurnKept
<1>2. CASE StartStdout \/ StartStderr
  <2>1. /\ UNCHANGED <<channel, hello_received, response, finished>>
        /\ \/ UNCHANGED thread
           \/ thread' = [thread EXCEPT !["stdout"] = "hello"]
           \/ thread' = [thread EXCEPT !["stderr"] = "read"]
    BY <1>2 DEF StartStdout, StartStderr, StartReader
  <2>2. QED
    BY <1>0, <2>1, TurnKept
<1>3. CASE OnHello \/ OnResponse \/ OnFinished \/ OnFailed
  <2> PICK m \in Nat : m + 1 = Len(channel)
    <3>1. channel # <<>>
      BY <1>3 DEF OnHello, OnResponse, OnFinished, OnFailed, Receive
    <3>2. QED
      BY <1>0, <3>1, ReceiveMovesUp
  <2>1. /\ channel # <<>> /\ channel' = Tail(channel) /\ UNCHANGED code
        /\ thread'["stdout"] = thread["stdout"]
    BY <1>0, <1>3 DEF OnHello, OnResponse, OnFinished, OnFailed, Receive
  <2>2. /\ Len(channel') = m /\ Head(channel) = channel[1]
        /\ \A i \in 1..m : channel'[i] = channel[i + 1]
        /\ \A t : \A k \in 0..m :
             Queued(t, k + 1) <=> Head(channel).type = t \/ Queued(t, k)'
    BY <1>0, <2>1, ReceiveMovesUp
  <2>3. \/ /\ Head(channel).type = "Hello" /\ ~hello_received /\ hello_received'
           /\ UNCHANGED <<response, finished>>
        \/ /\ Head(channel).type = "Response" /\ response' /\ hello_received
           /\ UNCHANGED <<hello_received, finished>>
        \/ /\ Head(channel).type = "Finished"
           /\ UNCHANGED <<response, hello_received>>
           /\ finished' = finished \cup {Head(channel).arg}
    <3>1. /\ Head(channel).type \in {"Hello", "Response"}
              => Head(channel).arg \in Lines
          /\ Head(channel).type = "Failed" => Head(channel).arg \in ErrorKinds
      BY <1>0, <2>1, HeadEvent
    <3>2. CASE OnHello
      <4>1. Head(channel).type = "Hello" /\ UNCHANGED <<response, finished>>
        BY <3>2 DEF OnHello, Receive
      <4>2. HelloVerdict(Head(channel).arg) \in {"ok"} \cup ErrorKinds
        BY <3>1, <4>1, Verdicts
      <4>3. result' # "none" \/ (~hello_received /\ hello_received')
        BY <1>0, <3>2, <4>2 DEF OnHello, Fail, ErrorKinds
      <4>4. QED
        BY <4>1, <4>3
    <3>3. CASE OnResponse
      <4>1. /\ Head(channel).type = "Response"
            /\ UNCHANGED <<hello_received, finished>>
        BY <3>3 DEF OnResponse, Receive
      <4>2. ResponseVerdict(Head(channel).arg) \in {"ok"} \cup ErrorKinds
        BY <3>1, <4>1, Verdicts
      <4>3. result' # "none" \/ (hello_received /\ response')
        BY <1>0, <3>3, <4>2 DEF OnResponse, Fail, ErrorKinds
      <4>4. QED
        BY <4>1, <4>3
    <3>4. CASE OnFinished
      BY <3>4 DEF OnFinished, Receive
    <3>5. CASE OnFailed
      BY <1>0, <3>1, <3>5 DEF OnFailed, Receive, Fail
    <3>6. QED
      BY <1>3, <3>2, <3>3, <3>4, <3>5
  <2>4. ASSUME NEW i \in 1..m PROVE InTurn(i)'
    <3>1. /\ i + 1 \in 1..Len(channel) /\ InTurn(i + 1) /\ (i + 1) - 1 = i
          /\ i - 1 \in 0..m /\ (i - 1) + 1 = i
      BY <1>0
    <3>2. /\ Queued("Hello", i) <=> \/ Head(channel).type = "Hello"
                                   \/ Queued("Hello", i - 1)'
          /\ Queued("Response", i) <=> \/ Head(channel).type = "Response"
                                      \/ Queued("Response", i - 1)'
      BY <2>2, <3>1
    <3>3. channel'[i] = channel[i + 1]
      BY <2>2
    <3>4. CASE Head(channel).type = "Hello"
      BY <2>1, <2>3, <3>1, <3>2, <3>3, <3>4 DEF InTurn
    <3>5. CASE Head(channel).type = "Response"
      BY <2>1, <2>3, <3>1, <3>2, <3>3, <3>5 DEF InTurn
    <3>6. CASE Head(channel).type = "Finished"
      BY <2>1, <2>3, <3>1, <3>2, <3>3, <3>6 DEF InTurn
    <3>7. QED
      BY <2>3, <3>4, <3>5, <3>6
  <2>5. /\ Queued("Hello", Len(channel)) <=> \/ Head(channel).type = "Hello"
                                            \/ Queued("Hello", Len(channel))'
        /\ Queued("Response", Len(channel))
             <=> \/ Head(channel).type = "Response"
                 \/ Queued("Response", Len(channel))'
    <3>1. \A t : Queued(t, m)' <=> Queued(t, Len(channel))'
      BY <2>2 DEF Queued
    <3>2. m \in 0..m
      OBVIOUS
    <3>3. QED
      BY <2>2, <3>1, <3>2
  <2>6. "stdout" \in finished' => response'
    <3>1. ~Queued("Response", 0) /\ 1 \in 1..Len(channel) /\ 1 - 1 = 0
      BY DEF Queued
    <3>2. InTurn(1)
      BY <1>0, <3>1
    <3>3. "stdout" \in finished => response
      BY <1>0 DEF TurnInv
    <3>4. QED
      BY <2>2, <2>3, <3>1, <3>2, <3>3 DEF InTurn
  <2>7. /\ thread'["stdout"] = "response" =>
             hello_received' \/ Queued("Hello", Len(channel))'
        /\ thread'["stdout"] = "tail" =>
             response' \/ Queued("Response", Len(channel))'
    <3>1. /\ thread["stdout"] = "response" =>
               hello_received \/ Queued("Hello", Len(channel))
          /\ thread["stdout"] = "tail" =>
               response \/ Queued("Response", Len(channel))
      BY <1>0 DEF TurnInv
    <3>2. QED
      BY <2>1, <2>3, <2>5, <3>1
  <2>8. QED
    BY <2>2, <2>4, <2>6, <2>7 DEF TurnInv
<1>4. CASE ReadStdout
  <2>1. /\ UNCHANGED <<hello_received, response, finished, written, code>>
        /\ \/ ReadLine("hello", "Hello", "response")
           \/ ReadLine("response", "Response", "tail")
           \/ ReadTail
    BY <1>4 DEF ReadStdout
  <2>2. thread["stdout"] \in {"hello", "response", "tail"}
    BY <2>1 DEF ReadLine, ReadTail
  <2>3. /\ written \in Seq(Lines) /\ outRead \in Nat /\ Len(written) <= 2
        /\ outRead = (IF thread["stdout"] = "hello" THEN 0
                      ELSE IF thread["stdout"] = "response" THEN 1 ELSE 2)
        /\ Unread > 0 => /\ outRead + 1 \in 1..Len(written)
                         /\ written[outRead + 1] # "long"
                         /\ written[outRead + 1] \in Lines
    <3>1. /\ written \in Seq(Lines) /\ outRead \in Nat
          /\ outRead = (IF thread["stdout"] = "hello" THEN 0
                        ELSE IF thread["stdout"] = "response" THEN 1 ELSE 2)
      BY <2>2 DEF Known, TypeOK, ExchangeInv, ReadInv
    <3>2. QED
      BY <3>1, Transcripts DEF Unread
  <2>4. /\ thread["stdout"] = "hello" =>
             ~hello_received /\ ~Queued("Hello", Len(channel))
        /\ thread["stdout"] = "response" =>
             /\ ~response /\ ~Queued("Response", Len(channel))
             /\ hello_received \/ Queued("Hello", Len(channel))
        /\ thread["stdout"] = "tail" =>
             response \/ Queued("Response", Len(channel))
    BY <1>0, Unheard DEF TurnInv
  <2>5. ASSUME NEW e \in Event, channel' = Append(channel, e), Fits(e),
               \/ e.type = "Hello" /\ thread'["stdout"] = "response"
               \/ e.type = "Response" /\ thread'["stdout"] = "tail"
               \/ thread'["stdout"] = "done"
        PROVE  TurnInv'
    BY <1>0, <2>1, <2>5, TurnSent
  <2>6. CASE ReadLine("hello", "Hello", "response") /\ Unread > 0
    <3> DEFINE e == [type |-> "Hello", arg |-> written[outRead + 1]]
    <3>1. e \in Event /\ Fits(e)
      BY <2>3, <2>4, <2>6, Sent DEF ReadLine, Fits
    <3>2. channel' = Append(channel, e) /\ thread'["stdout"] = "response"
      BY <1>0, <2>3, <2>6 DEF ReadLine
    <3>3. QED
      BY <2>5, <3>1, <3>2
  <2>7. CASE ReadLine("response", "Response", "tail") /\ Unread > 0
    <3> DEFINE e == [type |-> "Response", arg |-> written[outRead + 1]]
    <3>1. e \in Event /\ Fits(e)
      BY <2>3, <2>4, <2>7, Sent DEF ReadLine, Fits
    <3>2. channel' = Append(channel, e) /\ thread'["stdout"] = "tail"
      BY <1>0, <2>3, <2>7 DEF ReadLine
    <3>3. QED
      BY <2>5, <3>1, <3>2
  <2>8. CASE Unread = 0 /\ ~Open /\ Abort("stdout", "IncompleteLine")
             /\ thread["stdout"] \in {"hello", "response"}
    <3> DEFINE e == [type |-> "Failed", arg |-> "IncompleteLine"]
    <3>1. Exited
      BY <1>0, <2>8, Gone DEF Exited
    <3>2. Len(written) < 2
      BY <2>3, <2>8 DEF Unread
    <3>3. code = "failure"
      BY <3>1, <3>2 DEF ProgressInv, Answered
    <3>4. e \in Event /\ Fits(e)
      BY <3>3, Sent DEF Fits, ErrorKinds
    <3>5. channel' = Append(channel, e) /\ thread'["stdout"] = "done"
      BY <1>0, <2>8 DEF Abort, Complete
    <3>6. QED
      BY <2>5, <3>4, <3>5
  <2>9. CASE ReadTail
    <3> DEFINE e == [type |-> "Finished", arg |-> "stdout"]
    <3>1. ~(Unread > 0)
      BY <2>3, <2>9 DEF ReadTail, Unread
    <3>2. channel' = Append(channel, e) /\ thread'["stdout"] = "done"
      BY <1>0, <2>9, <3>1 DEF ReadTail, Finish, Complete
    <3>3. e \in Event /\ Fits(e)
      BY <1>0, <2>4, <2>9, Sent DEF Fits, ReadTail
    <3>4. QED
      BY <2>5, <3>2, <3>3
  <2>10. QED
    BY <2>1, <2>6, <2>7, <2>8, <2>9 DEF ReadLine
<1>5. CASE DrainStderr \/ WriteStdin
  <2>1. /\ UNCHANGED <<hello_received, response, finished, code>>
        /\ \/ UNCHANGED <<thread, channel>>
           \/ \E s \in {"stdin", "stderr"} : Finish(s)
           \/ sent < RequestChunks /\ ~Open /\ thread["stdin"] # "unborn"
    BY <1>5 DEF DrainStderr, WriteStdin
  <2>2. ~(sent < RequestChunks /\ ~Open /\ thread["stdin"] # "unborn")
    <3>1. ~Open /\ thread["stdin"] # "unborn" => Exited
      BY <1>0, Gone DEF Exited
    <3>2. /\ Exited => taken = RequestChunks
          /\ taken <= sent /\ taken \in Nat /\ sent \in Nat
          /\ RequestChunks \in Nat
      BY <1>0, BoundsAssumption DEF OpenInv, ProgressInv, Known, TypeOK
    <3>3. QED
      BY <3>1, <3>2
  <2>3. ASSUME NEW s \in {"stdin", "stderr"}, Finish(s) PROVE TurnInv'
    <3> DEFINE e == [type |-> "Finished", arg |-> s]
    <3>1. /\ e \in Event /\ Fits(e) /\ channel' = Append(channel, e)
          /\ thread'["stdout"] = thread["stdout"]
      BY <1>0, <2>3, Sent DEF Fits, Finish, Complete
    <3>2. QED
      BY <1>0, <2>1, <3>1, TurnSent
  <2>4. QED
    BY <1>1, <2>1, <2>2, <2>3
<1>6. CASE EvaluatorStep
  <2>1. UNCHANGED <<channel, thread, hello_received, response, finished>>
    BY <1>6
    DEF EvaluatorStep, SendHello, ReadRequest, RequestCut, EvaluationLogs,
        SendAnswer, Break, ExitNormally, WorkerWrites, WorkerReads, WorkerLogs,
        WorkerExits
  <2>2. QED
    BY <1>1, <2>1
<1>7. CASE Main
  <2>1. \/ UNCHANGED <<channel, thread, hello_received, response, finished>>
        \/ StartStdout \/ StartStderr
        \/ OnHello \/ OnResponse \/ OnFinished \/ OnFailed
    BY <1>7
    DEF Main, Refuse, OpenScratch, CheckDeadline, Spawn, DeadlineCheck, Poll,
        RecvNothing, DropStdin, StopCheck, Kill, KillFailed, Wait, Join,
        DropKill, DropWait, CloseScratch
  <2>2. QED
    BY <1>1, <1>2, <1>3, <2>1
<1>8. QED
  <2>1. ~\E s \in Streams : Panic(s)
    BY DEF Panic
  <2>2. KillTakesEffect \/ DeadlinePasses \/ UNCHANGED vars
          => UNCHANGED <<channel, thread, hello_received, response, finished>>
    BY DEF KillTakesEffect, DeadlinePasses, vars
  <2>3. QED
    BY <1>1, <1>4, <1>5, <1>6, <1>7, <2>1, <2>2, WorkerCases

\* What a decided call reports of a worker of its own when no call fails.
SettledInv ==
  \/ result \in {"none", "Timeout"}
  \/ /\ result \in {"InvalidTimeout", "InputTooLarge", "OutputTooLarge"}
     /\ process = "absent"
  \/ result = "ok" /\ Answered /\ written[2] = "response"
  \/ result = "Worker" /\ Answered /\ written[2] = "failure"
  \/ /\ result \in {"Exit", "IncompleteLine"}
     /\ code = "failure" /\ Len(written) < 2

\* An answer is the last thing the worker writes.
LEMMA AnswerIsFinal ==
  ASSUME Known, ProgressInv, [WorkerNext]_allVars, Answered
  PROVE  UNCHANGED written
<1>1. written # <<>> /\ written # <<"hello">>
  BY DEF Answered
<1>2. CASE Main
  BY <1>2, MainFrame
<1>3. CASE EvaluatorStep
  BY <1>1, <1>3
  DEF EvaluatorStep, SendHello, ReadRequest, RequestCut, EvaluationLogs,
      SendAnswer, Break, ExitNormally, WorkerReads, WorkerLogs, WorkerExits,
      ProgressInv, outPipe
<1>4. QED
  BY <1>2, <1>3, WorkerCases
  DEF ReadStdout, WriteStdin, KillTakesEffect, DrainStderr, DeadlinePasses, vars,
      Panic, outPipe

\* How an exchange ends.
LEMMA Ends ==
  ASSUME Faults = {}, Known, ProgressInv, QuietInv, OpenInv, TurnInv,
         result = "none", result' # "none", Main
  PROVE  SettledInv'
<1>0. /\ UNCHANGED <<written, code>> /\ pc \in Undecided
      /\ written \in Seq(Lines) /\ channel \in Seq(Event)
      /\ code = "failure" => Len(written) < 2
      /\ "stdout" \in finished => response
  BY MainFrame DEF Known, PhaseInv, TypeOK, OpenInv, TurnInv
<1>1. ASSUME NEW k \in ErrorKinds, Refuse(k) PROVE SettledInv'
  BY <1>1 DEF Refuse, SettledInv, Known, CleanupInv, worker
<1>2. CASE OpenScratch \/ CheckDeadline \/ Spawn \/ StartStdout \/ StartStderr
             \/ DeadlineCheck \/ RecvNothing \/ OnFinished
  <2>1. result' \in {"none", "Timeout"}
    BY <1>2
    DEF OpenScratch, CheckDeadline, Spawn, StartStdout, StartStderr,
        StartReader, DeadlineCheck, RecvNothing, OnFinished, Fail
  <2>2. QED
    BY <2>1 DEF SettledInv
<1>3. CASE Poll
  <2>1. \E st \in {code, "none"} : Decide(st)
    BY <1>3 DEF Poll, Known, ExchangeInv, StatusInv
  <2>2. \/ result' = "Exit" /\ code = "failure"
        \/ /\ code = "success" /\ finished = Streams
           /\ result' = IF response THEN "ok" ELSE "MessageOrder"
    BY <2>1 DEF Decide, Fail
  <2>3. CASE code = "success" /\ finished = Streams
    <3>1. Answered /\ response
      BY <1>0, <2>3 DEF ProgressInv, Streams, Exited
    <3>2. written[2] = "response"
      BY <3>1 DEF Known, ExchangeInv, HeardInv, SecondLine
    <3>3. QED
      BY <1>0, <2>2, <2>3, <3>1, <3>2 DEF SettledInv, Answered
  <2>4. QED
    BY <1>0, <2>2, <2>3 DEF SettledInv
<1>4. CASE OnHello \/ OnResponse \/ OnFailed
  <2>1. /\ channel # <<>> /\ Head(channel) = channel[1] /\ 1 \in 1..Len(channel)
    BY <1>0, <1>4 DEF OnHello, OnResponse, OnFailed, Receive
  <2>2. /\ InTurn(1) /\ Truthful(channel[1])
        /\ \A t : ~Queued(t, 1 - 1)
    BY <2>1 DEF TurnInv, Known, ExchangeInv, QueueInv, Queued
  <2>3. /\ outRead \in Nat /\ outRead <= Len(written) /\ Len(written) <= 2
        /\ Len(written) >= 1 => written[1] = "hello"
        /\ Len(written) = 2 => written[2] \in {"response", "failure"}
    BY <1>0, Transcripts DEF Known, TypeOK, ExchangeInv, ReadInv
  <2>4. CASE OnHello
    <3>1. Head(channel).type = "Hello" /\ ~hello_received
      BY <2>1, <2>2, <2>4 DEF OnHello, Receive, InTurn
    <3>2. Head(channel).arg = "hello"
      BY <2>1, <2>2, <2>3, <3>1 DEF Truthful, FirstLine
    <3>3. HelloVerdict(Head(channel).arg) = "ok"
      BY <3>2 DEF HelloVerdict
    <3>4. result' = result
      BY <2>4, <3>1, <3>3 DEF OnHello
    <3>5. QED
      BY <3>4
  <2>5. CASE OnResponse
    <3>1. /\ Head(channel).type = "Response" /\ ~response /\ hello_received
      BY <2>1, <2>2, <2>5 DEF OnResponse, Receive, InTurn
    <3>2. SecondLine(Head(channel).arg)
      BY <2>1, <2>2, <3>1 DEF Truthful
    <3>3. /\ Len(written) = 2 /\ written[1] = "hello"
          /\ written[2] = Head(channel).arg
          /\ written[2] \in {"response", "failure"}
      <4>1. /\ Len(written) \in Nat /\ outRead >= 2
            /\ written[2] = Head(channel).arg
        BY <1>0, <3>2 DEF SecondLine
      <4>2. \A m, n \in Nat : m >= 2 /\ m <= n /\ n <= 2 => n = 2
        OBVIOUS
      <4>3. Len(written) = 2
        BY <2>3, <4>1, <4>2
      <4>4. QED
        BY <2>3, <4>1, <4>3
    <3>4. /\ Head(channel).arg = "response" =>
               ResponseVerdict(Head(channel).arg) = "ok"
          /\ Head(channel).arg = "failure" =>
               ResponseVerdict(Head(channel).arg) = "Worker"
      BY DEF ResponseVerdict
    <3>5. result' = "Worker" /\ written[2] = "failure"
      BY <2>5, <3>1, <3>3, <3>4 DEF OnResponse, Fail
    <3>6. QED
      BY <1>0, <3>3, <3>5 DEF SettledInv, Answered
  <2>6. CASE OnFailed
    <3>1. result' = "IncompleteLine" /\ code = "failure"
      BY <2>1, <2>2, <2>6 DEF OnFailed, Receive, Fail, InTurn
    <3>2. QED
      BY <1>0, <3>1 DEF SettledInv
  <2>7. QED
    BY <1>4, <2>4, <2>5, <2>6
<1>5. ~(DropStdin \/ StopCheck \/ Kill \/ KillFailed \/ Wait \/ Join \/ DropKill
          \/ DropWait \/ CloseScratch)
  BY <1>0
  DEF Undecided, DropStdin, StopCheck, Kill, KillFailed, Wait, Join, DropKill,
      DropWait, CloseScratch
<1>6. QED
  BY <1>1, <1>2, <1>3, <1>4, <1>5 DEF Main

\* A verdict stays what it was: the cleanup of a call no system call fails has
\* nothing to add.
LEMMA SettledInductive ==
  ASSUME Faults = {}, Known, ProgressInv, QuietInv, OpenInv, TurnInv, SettledInv,
         [WorkerNext]_allVars
  PROVE  SettledInv'
<1> USE DEF worker, locals, main
<1>0. /\ Answered => Answered' /\ UNCHANGED written
      /\ code = "failure" => UNCHANGED <<code, written>>
  BY AnswerIsFinal, CodeIsFinal DEF Answered
<1>1. CASE result = "none" /\ result' # "none" /\ Main
  BY <1>1, Ends
<1>2. CASE result' = "none"
  BY <1>2 DEF SettledInv
<1>3. CASE result # "none" /\ Main
  <2>1. pc \notin Undecided
    BY <1>3 DEF Known, PhaseInv
  <2>2. process = "absent" => process' = "absent"
    BY <1>3, <2>1, MainMovesProcess DEF Known, Undecided
  <2>3. result' = result
    <3>1. [Next]_vars
      BY <1>3 DEF Next, Supervise
    <3>2. CASE Join
      BY <3>2 DEF Join, QuietInv
    <3>3. CASE CloseScratch
      BY <3>3 DEF CloseScratch
    <3>4. CASE ~Join /\ ~CloseScratch
      BY <1>3, <2>1, <3>4
      DEF Main, Refuse, OpenScratch, CheckDeadline, Spawn, StartStdout,
          StartStderr, StartReader, DeadlineCheck, Poll, RecvNothing, OnHello,
          OnResponse, OnFinished, OnFailed, Receive, DropStdin, StopCheck, Kill,
          KillFailed, Wait, DropKill, DropWait, Undecided
    <3>5. QED
      BY <3>2, <3>3, <3>4
  <2>4. QED
    BY <1>0, <2>2, <2>3 DEF SettledInv
<1>4. CASE EvaluatorStep
  <2>1. result' = result /\ process # "absent"
    BY <1>4
    DEF EvaluatorStep, SendHello, ReadRequest, RequestCut, EvaluationLogs,
        SendAnswer, Break, ExitNormally, WorkerWrites, WorkerReads, WorkerLogs,
        WorkerExits
  <2>2. QED
    BY <1>0, <2>1 DEF SettledInv
<1>5. CASE ReadStdout \/ WriteStdin \/ KillTakesEffect \/ DrainStderr
             \/ DeadlinePasses \/ UNCHANGED vars \/ \E s \in Streams : Panic(s)
  <2>1. /\ result' = result
        /\ process = "absent" => process' = "absent"
    BY <1>5
    DEF ReadStdout, WriteStdin, KillTakesEffect, DrainStderr, DeadlinePasses,
        vars, Panic
  <2>2. QED
    BY <1>0, <2>1 DEF SettledInv
<1>6. QED
  BY <1>1, <1>2, <1>3, <1>4, <1>5, WorkerCases

\* The whole invariant of the composed system.
AnswerInv == ProgressInv /\ QuietInv /\ OpenInv /\ TurnInv /\ SettledInv

\* What the program's own worker answers is what the call reports.
THEOREM TheAnswerIsReported == WorkerSpec => []AnswerIsReported
<1>1. WorkerInit => AnswerInv
  <2> SUFFICES ASSUME WorkerInit PROVE AnswerInv
    OBVIOUS
  <2>1. RequestChunks \in Nat /\ 0 <= RequestChunks
    BY BoundsAssumption
  <2>2. QED
    BY <2>1
    DEF WorkerInit, Init, AnswerInv, ProgressInv, QuietInv, OpenInv, TurnInv,
        SettledInv, Exited, Streams
<1>2. Faults = {} /\ Known /\ AnswerInv /\ [WorkerNext]_allVars => AnswerInv'
  BY ProgressInductive, QuietInductive, OpenInductive, TurnInductive,
     SettledInductive DEF AnswerInv
<1>3. Known /\ AnswerInv => AnswerIsReported
  <2> SUFFICES ASSUME Known, AnswerInv, pc = "done" PROVE AnswerIsReported
    BY DEF AnswerIsReported
  <2>1. result # "none" /\ SettledInv
    BY DEF Known, PhaseInv, Undecided, AnswerInv
  <2>2. process = "absent" => Len(written) # 2
    BY DEF AnswerInv, ProgressInv
  <2>3. QED
    BY <2>1, <2>2 DEF AnswerIsReported, SettledInv, Answered, Blame
<1>4. WorkerSpec => []Known
  BY WorkerImplements, PhaseCorrect, PTL DEF Known
<1>5. CASE Faults = {}
  <2>1. Known /\ AnswerInv /\ [WorkerNext]_allVars => AnswerInv'
    BY <1>2, <1>5
  <2>2. QED
    BY <1>1, <1>3, <1>4, <2>1, PTL DEF WorkerSpec
<1>6. CASE Faults # {}
  <2>1. AnswerIsReported
    BY <1>6 DEF AnswerIsReported
  <2>2. QED
    BY <2>1, PTL
<1>7. QED
  BY <1>5, <1>6
=============================================================================
