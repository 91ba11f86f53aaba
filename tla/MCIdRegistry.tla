----------------------------- MODULE MCIdRegistry -----------------------------
EXTENDS IdRegistry

D(n, s) == [id |-> n, kind |-> "gem", owner |-> 0, state |-> s]
S(n, o, s) == [id |-> n, kind |-> "parameter", owner |-> o, state |-> s]
File(es, r) == [entries |-> es, last |-> Len(es), revision |-> r]

Weights == [r \in Reasons |-> IF r = "merged" THEN 2 ELSE 1]

\* Files to load or to adopt: sound ones, among them a slot that was retired
\* before its owner; and a gap, a wrong count, an orphan, an owner behind its slot.
Files == {File(<<D(1, "active"), S(2, 1, "cut")>>, 3),
          File(<<D(1, "merged"), S(2, 1, "cut")>>, 4),
          File(<<D(2, "active")>>, 1),
          File(<<D(1, "active")>>, 2),
          File(<<D(1, "cut"), S(2, 1, "active")>>, 3),
          File(<<S(1, 2, "active"), D(2, "active")>>, 2)}
=============================================================================
