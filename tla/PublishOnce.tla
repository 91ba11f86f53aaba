------------------------------ MODULE PublishOnce ------------------------------
(***************************************************************************)
(* What publication promises, without staging: a complete artifact appears  *)
(* at a free path in one step, or not at all; whoever is there first stays; *)
(* the caller is told which of the two happened.                            *)
(***************************************************************************)
CONSTANTS Publishers, Paths, Target

VARIABLES
  place,    \* at each path: "nobody", "stranger" or the publisher whose artifact it holds
  outcome   \* of each call: "open", "done", "failed" or "crashed"

state == <<place, outcome>>

Init ==
  /\ place \in [Paths -> {"nobody", "stranger"}]
  /\ outcome = [p \in Publishers |-> "open"]

Appear(p) ==
  /\ outcome[p] = "open" /\ place[Target[p]] = "nobody"
  /\ place' = [place EXCEPT ![Target[p]] = p]
  /\ UNCHANGED outcome

Finish(p) ==
  /\ outcome[p] = "open" /\ UNCHANGED place
  /\ \/ place[Target[p]] = p /\ outcome' = [outcome EXCEPT ![p] = "done"]
     \/ place[Target[p]] # p /\ outcome' = [outcome EXCEPT ![p] = "failed"]
     \/ outcome' = [outcome EXCEPT ![p] = "crashed"]

Intrude(q) ==
  /\ place[q] = "nobody" /\ place' = [place EXCEPT ![q] = "stranger"]
  /\ UNCHANGED outcome

Next ==
  \/ \E p \in Publishers : Appear(p) \/ Finish(p)
  \/ \E q \in Paths : Intrude(q)

Spec == Init /\ [][Next]_state
=============================================================================
