---------------------------- MODULE EvaluationCall ----------------------------
(***************************************************************************)
(* What evaluate promises its caller, without pipes, threads or a protocol: *)
(* one call holds a scratch directory and at most one worker, and settles   *)
(* on one outcome.  The worker is collected before the directory goes and   *)
(* before the call returns; a snapshot comes only from a collected worker;  *)
(* an error is final.                                                       *)
(***************************************************************************)
VARIABLES
  call,     \* "open" or "returned"
  worker,   \* "none", "live", "exited" or "collected"
  storage,  \* the scratch directory: "none", "held" or "gone"
  outcome   \* "pending", "snapshot" or "error"

state == <<call, worker, storage, outcome>>

Init == call = "open" /\ worker = "none" /\ storage = "none" /\ outcome = "pending"

\* An outcome may only move forward: pending, then snapshot, then error.
Settles(o) ==
  \/ o = outcome
  \/ o = "error"
  \/ o = "snapshot" /\ outcome = "pending" /\ worker' = "collected"

Acquire ==
  /\ call = "open" /\ storage = "none" /\ storage' = "held"
  /\ UNCHANGED <<call, worker, outcome>>

Launch ==
  /\ call = "open" /\ storage = "held" /\ worker = "none" /\ outcome = "pending"
  /\ worker' = "live"
  /\ UNCHANGED <<call, storage, outcome>>

Exit == worker = "live" /\ worker' = "exited" /\ UNCHANGED <<call, storage, outcome>>

Collect ==
  /\ worker = "exited" /\ worker' = "collected"
  /\ \E o \in {"pending", "snapshot", "error"} : Settles(o) /\ outcome' = o
  /\ UNCHANGED <<call, storage>>

Settle ==
  /\ call = "open" /\ UNCHANGED <<call, worker, storage>>
  /\ \E o \in {"snapshot", "error"} : Settles(o) /\ outcome' = o

Return ==
  /\ call = "open" /\ call' = "returned"
  /\ worker \in {"none", "collected"} /\ UNCHANGED worker
  /\ \E o \in {"snapshot", "error"} : Settles(o) /\ outcome' = o
  /\ storage' = "gone" \/ (storage = "none" /\ UNCHANGED storage)

Next == Acquire \/ Launch \/ Exit \/ Collect \/ Settle \/ Return

Spec == Init /\ [][Next]_state
=============================================================================
