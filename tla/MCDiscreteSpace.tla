---------------------------- MODULE MCDiscreteSpace ----------------------------
EXTENDS DiscreteSpace

Lock(axes, n) == [axis \in axes |-> n]

\* Free, fixed and trivial axes, first, last and between; all fixed; one axis with more
\* choices than can be reserved; and a product that passes MaxProduct although what is
\* left after the locks does not.
Shapes == {[sizes |-> s, locks |-> l] :
             s \in {<<2, 3, 2>>, <<1, 3>>, <<3, 3, 2>>}, l \in {Lock({}, 0), Lock({2}, 2), Lock({1}, 0)}}
          \cup {[sizes |-> <<2, 2>>, locks |-> Lock({1, 2}, 1)],
                [sizes |-> <<13>>, locks |-> Lock({}, 0)]}

Setting(proposals, restart, axes) == [proposals |-> proposals, restart |-> restart, axes |-> axes]

\* Parents that fit some of the spaces, rounds with and without restarts, radii that
\* are capped and that go round.
Asked == [parents : {<<>>, <<<<0, 2, 1>>>>, <<<<0, 0, 0>>, <<0, 2, 0>>>>, <<<<0, 2>>>>, <<<<1, 1>>>>},
          round : {0, 1, 2, 3}, limit : {0, 1, 2},
          settings : {Setting(2, 4, 0), Setting(4, 3, 1), Setting(1, 2, 2)}]
=============================================================================
