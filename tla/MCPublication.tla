---------------------------- MODULE MCPublication ----------------------------
EXTENDS Publication, TLC

CONSTANTS p1, p2, p3, p4, out, other, a, A, b, u, d, sep

Lower == [n \in Names |-> IF n = A THEN a ELSE n]
\* The host ignores the case of every letter: u is a non-ASCII form of b.
HostLower == [n \in Names |-> IF n = A THEN a ELSE IF n = u THEN b ELSE n]
AsIs == [n \in Names |-> n]

File(n, s) == [in |-> Root, name |-> n, dir |-> FALSE, size |-> s]
Dir(n) == [in |-> Root, name |-> n, dir |-> TRUE, size |-> 0]
Child(d1, n, s) == [in |-> d1, name |-> n, dir |-> FALSE, size |-> s]
Ask(k, t, es) == [kind |-> k, target |-> t, entries |-> es]

\* Three calls for one path: a file, a set of artifacts, a bundle at its limits.
Race == p1 :> Ask("file", out, <<File(a, 1)>>)
     @@ p2 :> Ask("artifacts", out, <<File(a, 1), File(b, 2)>>)
     @@ p3 :> Ask("bundle", out, <<File(a, 1), Dir(d), Child(d, a, 2)>>)
\* Contenders for one path: a bundle that reaches both limits, with an empty
\* directory last, and an empty bundle; and two whose names collide, by case and
\* by what the host folds.
Edges == p1 :> Ask("bundle", out, <<Dir(d), Child(d, b, 3), Dir(a)>>)
      @@ p2 :> Ask("bundle", out, <<>>)
      @@ p3 :> Ask("bundle", other, <<File(A, 1), Dir(a), Child(a, b, 1)>>)
      @@ p4 :> Ask("artifacts", other, <<File(b, 1), File(u, 1), File(sep, 1)>>)
=============================================================================
