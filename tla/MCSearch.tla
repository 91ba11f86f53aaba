------------------------------ MODULE MCSearch ------------------------------
EXTENDS Search

Finite(s) == [finite |-> TRUE, list |-> s, retries |-> FALSE]
Generated(s, again) == [finite |-> FALSE, list |-> s, retries |-> again]

\* Finite lists that exceed, meet or (with a duplicate) stay below the three
\* evaluations left to the search, by how many of their candidates are legal;
\* generated domains that stall or try again after an empty sample.
Domains == {Finite(<<3, 1, 4, 2>>), Finite(<<2, 1, 2>>),
            Generated(<<2>>, FALSE), Generated(<<3, 1>>, TRUE)}
Samples == {<<>>, <<3, 2>>, <<1, 3>>}

\* The first three candidates come out in every combination; the last one would
\* lead the ranking of any of them, ties apart.
Mixed == {q \in [Candidates -> Qualities] : q[4] = "good"}
=============================================================================
