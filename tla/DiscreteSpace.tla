----------------------------- MODULE DiscreteSpace -----------------------------
(***************************************************************************)
(* Points over finite axes, some of them fixed: bounded enumeration, and     *)
(* proposals near given parents.  Choices are numbers from zero, axes are    *)
(* numbered from one.  The pseudo-random draws of propose are any draws; the *)
(* caller's control may stop it between two attempts.                       *)
(***************************************************************************)
EXTENDS Naturals, Sequences, FiniteSets, FiniteSetsExt, SequencesExt

CONSTANTS
  Spaces,               \* records [sizes, locks]
  Enumerations,         \* values of max_states
  Proposals,            \* calls of propose: records [parents, round, limit, settings]
  MaxProduct,           \* u128::MAX
  MaxCount,             \* usize::MAX
  MaxReserve            \* points in isize::MAX bytes, the most a vector may reserve

\* DiscreteSpace::new.
ASSUME SpaceAssumption ==
  /\ \A s \in Spaces :
       /\ s.sizes \in Seq(Nat \ {0}) /\ s.sizes # <<>>
       /\ DOMAIN s.locks \subseteq DOMAIN s.sizes
       /\ \A axis \in DOMAIN s.locks : s.locks[axis] \in 0..s.sizes[axis] - 1
  /\ MaxProduct \in Nat /\ MaxCount \in 0..MaxProduct /\ Enumerations \subseteq 0..MaxCount
  /\ MaxReserve \in 0..MaxCount

\* The types of propose's arguments, and Neighborhood::validate, without which it refuses.
ASSUME SettingsAssumption ==
  \A q \in Proposals :
    /\ q.parents \in Seq(Seq(Nat)) /\ q.round \in Nat /\ q.limit \in Nat
    /\ q.settings.proposals \in Nat \ {0} /\ q.settings.restart \in Nat \ {0}
    /\ q.settings.axes \in Nat

VARIABLES
  phase,        \* "idle", "enumerating", "proposing", "answered", "refused", or
                \* "unreserved": refused because there is no room for the points
  space, asked, \* the space and the call
  left,         \* points still to be listed, or attempts still to be made
  current,      \* the next point to be listed
  listed,       \* what was listed
  output,       \* what was proposed
  stopped       \* the control of the caller
spaceVars == <<phase, space, asked, left, current, listed, output, stopped>>

Axes == DOMAIN space.sizes
Unlocked == Axes \ DOMAIN space.locks
Mutable == {axis \in Unlocked : space.sizes[axis] > 1}

\* validate; the identity of the space is part of it.
Valid(point) ==
  /\ DOMAIN point = Axes
  /\ \A axis \in Axes : point[axis] < space.sizes[axis]
  /\ \A axis \in DOMAIN space.locks : point[axis] = space.locks[axis]

First == [axis \in Axes |-> IF axis \in DOMAIN space.locks THEN space.locks[axis] ELSE 0]

\* size: no value once a product passes MaxProduct.
Overflow == MaxProduct + 1
Product ==
  FoldFunctionOnSet(LAMBDA n, product : IF n * product > MaxProduct THEN Overflow ELSE n * product,
                    1, space.sizes, Unlocked)

\* The odometer: the last axis that can go up does, and those after it start again.
Following(point) ==
  LET able == {axis \in Unlocked : point[axis] + 1 < space.sizes[axis]}
      turn == IF able = {} THEN 0 ELSE Max(able)
  IN  [axis \in Axes |-> IF axis = turn THEN point[axis] + 1
                         ELSE IF axis > turn /\ axis \in Unlocked THEN 0
                         ELSE point[axis]]

SpaceInit ==
  /\ phase = "idle" /\ space \in Spaces
  /\ asked = [call |-> "none"] /\ left = 0 /\ stopped = FALSE
  /\ current = First /\ listed = <<>> /\ output = {}

-----------------------------------------------------------------------------
(* Enumeration.                                                            *)

\* A space within the limit is listed once room for its points is reserved, which may
\* fail and always does beyond MaxReserve.
Enumerate(limit) ==
  /\ phase = "idle"
  /\ asked' = [call |-> "enumerate", limit |-> limit]
  /\ LET within == Product <= MaxCount /\ Product <= limit
     IN  \/ ~within /\ phase' = "refused" /\ UNCHANGED left
         \/ within /\ phase' = "unreserved" /\ UNCHANGED left
         \/ within /\ Product <= MaxReserve /\ phase' = "enumerating" /\ left' = Product
  /\ UNCHANGED <<space, current, listed, output, stopped>>

ListPoint ==
  /\ phase = "enumerating" /\ left > 0
  /\ listed' = Append(listed, current)
  /\ current' = Following(current)
  /\ left' = left - 1
  /\ UNCHANGED <<phase, space, asked, output, stopped>>

EndList ==
  /\ phase = "enumerating" /\ left = 0
  /\ phase' = "answered"
  /\ UNCHANGED <<space, asked, left, current, listed, output, stopped>>

-----------------------------------------------------------------------------
(* Proposals.                                                              *)

Count(q) == Min({q.limit, q.settings.proposals})

\* The radius goes round from one to the number of axes that may change.
Radius(q) ==
  LET n == Cardinality(Mutable)
      widest == IF q.settings.axes = 0 THEN n ELSE Min({n, q.settings.axes})
  IN  1 + ((q.round - 1) % widest)

\* What is refused, and what is answered without an attempt.
Propose(q) ==
  /\ phase = "idle"
  /\ asked' = [call |-> "propose", q |-> q]
  /\ \/ /\ q.round = 0 \/ \E i \in DOMAIN q.parents : ~Valid(q.parents[i])
        /\ phase' = "refused" /\ UNCHANGED <<left, output>>
     \/ /\ q.round # 0 /\ \A i \in DOMAIN q.parents : Valid(q.parents[i])
        /\ IF Count(q) = 0 \/ stopped THEN phase' = "answered" /\ UNCHANGED <<left, output>>
           ELSE IF Mutable = {}
           THEN phase' = "answered" /\ output' = (IF q.parents = <<>> THEN {First} ELSE {})
                                 /\ UNCHANGED left
           ELSE phase' = "proposing" /\ left' = 4 * Count(q) /\ UNCHANGED output
  /\ UNCHANGED <<space, current, listed, stopped>>

\* Seeded fault: the draw among the other choices is not moved past the old one.
OtherUnmoved(old, draw) == draw

\* A draw below the size less one names every choice but the old one.
Other(old, draw) == IF draw >= old THEN draw + 1 ELSE draw

\* The number of this attempt, from zero.
Attempt == 4 * Count(asked.q) - left

\* A restart draws all axes again.
Restarts(q) ==
  \/ q.parents = <<>>
  \/ q.round % q.settings.restart = 0 /\ Attempt % 4 = 0

Restarted == {[axis \in Axes |-> IF axis \in Mutable THEN draws[axis] ELSE First[axis]] :
                draws \in {d \in [Mutable -> 0..Max(Range(space.sizes)) - 1] :
                             \A axis \in Mutable : d[axis] < space.sizes[axis]}}

\* Otherwise as many axes as the radius says change, drawn without repetition.
Moved(base, radius) ==
  {[axis \in Axes |-> IF axis \in move.axes THEN Other(base[axis], move.draws[axis])
                      ELSE base[axis]] :
     move \in UNION {{[axes |-> axes, draws |-> draws] :
                        draws \in {d \in [axes -> 0..Max(Range(space.sizes)) - 1] :
                                     \A axis \in axes : d[axis] < space.sizes[axis] - 1}} :
                       axes \in {a \in SUBSET Mutable : Cardinality(a) = radius}}}

Try ==
  LET q == asked.q
      base == q.parents[1 + (Attempt % Len(q.parents))]
  IN  /\ phase = "proposing" /\ left > 0 /\ Cardinality(output) < Count(q) /\ ~stopped
      /\ \E point \in IF Restarts(q) THEN Restarted ELSE Moved(base, Radius(q)) :
           output' = output \cup ({point} \ Range(q.parents))
      /\ left' = left - 1
      /\ UNCHANGED <<phase, space, asked, current, listed, stopped>>

EndTries ==
  /\ phase = "proposing" /\ (left = 0 \/ Cardinality(output) = Count(asked.q) \/ stopped)
  /\ phase' = "answered"
  /\ UNCHANGED <<space, asked, left, current, listed, output, stopped>>

Stop ==
  /\ ~stopped /\ phase \in {"idle", "proposing"}
  /\ stopped' = TRUE
  /\ UNCHANGED <<phase, space, asked, left, current, listed, output>>

SpaceNext ==
  \/ \E limit \in Enumerations : Enumerate(limit)
  \/ ListPoint \/ EndList
  \/ \E q \in Proposals : Propose(q)
  \/ Try \/ EndTries \/ Stop

SpaceSpec == SpaceInit /\ [][SpaceNext]_spaceVars

-----------------------------------------------------------------------------
(* Properties.                                                             *)

\* What the space is, without an odometer or a product.
Points == {p \in [Axes -> 0..Max(Range(space.sizes)) - 1] : Valid(p)}
Before(a, b) == \E axis \in Axes : a[axis] < b[axis] /\ \A x \in 1..axis - 1 : a[x] = b[x]
Distance(a, b) == Cardinality({axis \in Axes : a[axis] # b[axis]})

\* An enumeration is the whole space in order: it is refused for its limit exactly when
\* the space has more points, and a space within the limit is listed in full or, for
\* want of room, not at all (enumerate); proposals are new valid points, as far from a
\* parent as the round says unless the round restarts, and a call that is not stopped
\* and finds none has tried enough.
AnswersAreSound ==
  /\ asked.call = "enumerate" =>
       /\ (phase = "refused") <=> Cardinality(Points) > asked.limit
       /\ phase = "unreserved" => listed = <<>>
       /\ phase = "answered" =>
            /\ Cardinality(Points) <= MaxReserve
            /\ Range(listed) = Points
            /\ \A i, j \in DOMAIN listed : i < j => Before(listed[i], listed[j])
  /\ asked.call = "propose" /\ phase # "refused" =>
       LET q == asked.q
       IN  /\ output \subseteq Points \ Range(q.parents) /\ Cardinality(output) <= q.limit
           /\ \A point \in output :
                \/ q.parents = <<>> \/ q.round % q.settings.restart = 0
                \/ \E parent \in Range(q.parents) : Distance(point, parent) = Radius(q)
           /\ phase = "answered" /\ Len(q.parents) = 1 /\ q.round % q.settings.restart # 0
              /\ ~stopped /\ Mutable # {} /\ Count(q) > 0 => output # {}
=============================================================================
