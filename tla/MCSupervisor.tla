----------------------------- MODULE MCSupervisor -----------------------------
(* Instances of Supervisor for TLC; the bounds are given in the .cfg files.  *)
EXTENDS Supervisor

\* Every call may fail but the blocking wait, without which no worker could be
\* collected.
CollectingFaults == OsFaults \ {"wait"}
=============================================================================
