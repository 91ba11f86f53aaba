--------------------------- MODULE EffectPlanProofs ---------------------------
(*****************************************************************************)
(* The effect plan for all plans: the schedules it makes from its orders give*)
(* every node what it reads, and a scratch that is taken over gives nothing  *)
(* else; a plan is refused for a circle exactly when there is one; retained  *)
(* applications leave what the prefix has read as it was; and a report holds *)
(* the meaning of its plan.                                                  *)
(*****************************************************************************)
EXTENDS EffectPlan, SequenceTheorems, FiniteSetTheorems, WellFoundedInduction, TLAPS

\* An order holds no node twice and none before what it reads.
OrderSound ==
  /\ order \in Seq(Nodes)
  /\ \A k, l \in DOMAIN order : k # l => order[k] # order[l]
  /\ \A k \in DOMAIN order : \A d \in Dependencies(graph[order[k]]) :
       \E l \in DOMAIN order : l < k /\ order[l] = d

\* It is complete once it has been found.
OrderWhole == Accepted => Placed = Nodes

\* The late graph exists from the retained applications to the report.
LateSound ==
  /\ phase \in {"idle", "check", "ready", "retain"} => ~late
  /\ phase = "idle" => order = <<>>
  /\ late \/ phase = "retain" => staged
  /\ phase = "extend" => late

\* The prefix is the early stages, and no node reads from a later stage.
PrefixSound ==
  /\ ~late => \A i \in Nodes : graph[i].stage \in Int
  /\ phase \in {"ready", "run"} /\ staged /\ ~late =>
       /\ StagesKept
       /\ prefix = EarlyNodes

\* What is scheduled and no longer to run has been computed, and nothing else has.
ScratchSound ==
  /\ phase = "run" =>
       /\ scratch.owner = {plan}
       /\ scratch.size = Len(graph)
       /\ todo \subseteq Nodes
       /\ todo \cap Computed = {}
       /\ IF staged /\ ~late THEN todo \subseteq prefix /\ Computed = prefix \ todo
                             ELSE Nodes \ todo \subseteq Computed
  /\ phase = "retain" \/ (late /\ phase \in {"order", "extend"}) =>
       /\ scratch.owner = {plan}
       /\ Computed = prefix

Inv ==
  /\ OrderSound
  /\ OrderWhole
  /\ LateSound
  /\ PrefixSound
  /\ ScratchSound
  /\ ReadsAreScheduled

-----------------------------------------------------------------------------

\* Binding keeps the nodes and their stages.
LEMMA BoundStages ==
  ASSUME NEW p \in Plans
  PROVE  /\ DOMAIN Bound(p.nodes) = DOMAIN p.nodes
         /\ \A i \in DOMAIN p.nodes : Bound(p.nodes)[i].stage \in Int
BY PlansAssumption DEF Bound, PlanShape, NodeShape

\* The empty order is sound for any graph.
LEMMA EmptyOrder ==
  ASSUME order' = <<>>
  PROVE  OrderSound'
BY DEF OrderSound, Nodes

\* What stands earlier in the order does not go after.
LEMMA NotBefore ==
  ASSUME OrderSound, NEW i \in Nodes, NEW d \in Nodes, NEW k \in DOMAIN order, NEW l \in DOMAIN order,
         order[k] = i, order[l] = d, l < k,
         ~(staged /\ ~late /\ graph[i].stage # graph[d].stage)
  PROVE  ~Before(i, d)
<1>1. SUFFICES ASSUME NEW m \in DOMAIN order, NEW n \in DOMAIN order,
                      m < n, order[m] = i, order[n] = d
               PROVE  FALSE
  BY DEF Before
<1>2. m = k /\ n = l
  BY <1>1 DEF OrderSound
<1>. QED  BY <1>1, <1>2 DEF OrderSound

\* When a node runs, what it reads has run.
LEMMA DependenciesComputed ==
  ASSUME Inv, NEW i \in todo, phase = "run",
         \A j \in todo \ {i} : Before(i, j)
  PROVE  Dependencies(graph[i]) \subseteq Computed
<1>1. /\ i \in Nodes
      /\ Placed = Nodes
  BY DEF Inv, OrderWhole, Accepted, ScratchSound
<1>2. PICK k \in DOMAIN order : order[k] = i
  BY <1>1 DEF Placed, Range
<1>3. SUFFICES ASSUME NEW d \in Dependencies(graph[i]) PROVE d \in Computed
  OBVIOUS
<1>4. PICK l \in DOMAIN order : l < k /\ order[l] = d
  BY <1>2, <1>3 DEF Inv, OrderSound
<1>5. d \in Nodes /\ d # i
  BY <1>2, <1>4, <1>1 DEF Inv, OrderSound, Placed, Range
<1>6. CASE staged /\ ~late
  <2>1. /\ graph[d].stage <= graph[i].stage
        /\ graph[i].stage \in Int
        /\ graph[d].stage \in Int
    BY <1>1, <1>3, <1>5, <1>6 DEF Inv, PrefixSound, StagesKept
  <2>2. d \in prefix
    BY <2>1, <1>6, <1>5, <1>1, PlansAssumption DEF Inv, PrefixSound, ScratchSound, EarlyNodes
  <2>3. ~Before(i, d)
    <3>1. CASE graph[i].stage # graph[d].stage
      BY <3>1, <2>1, <1>6 DEF Before
    <3>2. CASE graph[i].stage = graph[d].stage
      BY <3>2, <1>1, <1>2, <1>4, <1>5, NotBefore DEF Inv
    <3>. QED  BY <3>1, <3>2
  <2>. QED  BY <2>2, <2>3, <1>5, <1>6 DEF Inv, ScratchSound
<1>7. CASE ~(staged /\ ~late)
  <2>1. ~Before(i, d)
    BY <1>7, <1>1, <1>2, <1>4, <1>5, NotBefore DEF Inv
  <2>. QED  BY <2>1, <1>5, <1>7 DEF Inv, ScratchSound
<1>. QED  BY <1>6, <1>7

-----------------------------------------------------------------------------

\* The invariant holds before the first attempt.
LEMMA InitInv == Init => Inv
BY DEF Init, Inv, OrderSound, OrderWhole, Accepted, LateSound, PrefixSound, ScratchSound,
       ReadsAreScheduled, Nodes, Placed, Computed, Cleared, Empty

\* What a returned call leaves satisfies it.
LEMMA ReturnInv == Return => Inv'
<1>. SUFFICES ASSUME Return PROVE Inv'
  OBVIOUS
<1>1. OrderSound'
  BY EmptyOrder DEF Return
<1>. QED
  BY <1>1 DEF Return, Inv, OrderWhole, Accepted, LateSound, PrefixSound, ScratchSound, ReadsAreScheduled, Nodes

\* A refusal keeps the order.
LEMMA FailInv ==
  ASSUME Inv, NEW reason, Fail(reason),
         reason \notin {"owner", "size", "repeat", "unscheduled"},
         phase \in {"order", "run", "retain", "extend"}
  PROVE  Inv'
BY DEF Fail, Refuse, Inv, OrderSound, OrderWhole, Accepted, LateSound, PrefixSound, ScratchSound,
       ReadsAreScheduled, Nodes, Placed, Computed

LEMMA CompileInv ==
  ASSUME Inv, NEW p \in Plans, NEW s \in BOOLEAN, Compile(p, s)
  PROVE  Inv'
<1>1. OrderSound'
  BY EmptyOrder DEF Compile, Inv, LateSound
<1>2. PrefixSound'
  BY BoundStages DEF Compile, PrefixSound, Inv, LateSound, Nodes
<1>. QED
  BY <1>1, <1>2 DEF Compile, Inv, OrderWhole, Accepted, LateSound, ScratchSound, ReadsAreScheduled

\* The least ready node keeps the order sound: it is new, and what it reads is there.
LEMMA OrderInv ==
  ASSUME Inv, NEW i \in Nodes, Order(i)
  PROVE  Inv'
<1>1. /\ i \in Nodes \ Placed
      /\ Dependencies(graph[i]) \subseteq Placed
      /\ order \in Seq(Nodes)
      /\ order' = Append(order, i)
  BY DEF Order, Ready, Inv, OrderSound
<1>2. /\ Len(order) \in Nat
      /\ DOMAIN order = 1..Len(order)
      /\ DOMAIN order' = 1..(Len(order) + 1)
      /\ order'[Len(order) + 1] = i
      /\ \A k \in DOMAIN order : order'[k] = order[k]
  BY <1>1
<1>3. UNCHANGED <<plan, staged, phase, why, late, graph, prefix, todo, scratch>>
  BY DEF Order
<1>4. (order \in Seq(Nodes))'
  BY <1>1, <1>3 DEF Nodes
<1>5. \A k, l \in DOMAIN order' : k # l => order'[k] # order'[l]
  BY <1>1, <1>2 DEF Inv, OrderSound, Placed, Range
<1>6. ASSUME NEW k \in DOMAIN order', NEW d \in Dependencies(graph[order'[k]])
      PROVE  \E l \in DOMAIN order' : l < k /\ order'[l] = d
  <2>1. CASE k \in DOMAIN order
    <3>1. PICK l \in DOMAIN order : l < k /\ order[l] = d
      BY <2>1, <1>2, <1>6 DEF Inv, OrderSound
    <3>. QED  BY <3>1, <1>2
  <2>2. CASE k = Len(order) + 1
    <3>1. PICK l \in DOMAIN order : order[l] = d
      BY <2>2, <1>1, <1>2, <1>6 DEF Placed, Range
    <3>. QED  BY <3>1, <2>2, <1>2
  <2>. QED  BY <2>1, <2>2, <1>2
<1>7. OrderSound'
  BY <1>3, <1>4, <1>5, <1>6 DEF OrderSound
<1>8. phase = "order" /\ ~(phase = "idle")
  BY DEF Order
<1>. QED
  BY <1>3, <1>7, <1>8 DEF Inv, OrderWhole, Accepted, LateSound, PrefixSound, ScratchSound,
     ReadsAreScheduled, Nodes, Computed

LEMMA OrderedInv ==
  ASSUME Inv, Ordered
  PROVE  Inv'
<1>. USE DEF Ordered, Refuse, Inv
<1>1. OrderSound'
  BY DEF OrderSound, Nodes
<1>2. OrderWhole'
  BY DEF OrderWhole, Accepted, Placed, Nodes, Range
<1>3. LateSound'
  BY DEF LateSound
<1>4. PrefixSound'
  BY DEF PrefixSound, Nodes
<1>5. ScratchSound'
  BY DEF ScratchSound, Computed, LateSound
<1>6. ReadsAreScheduled'
  BY DEF ReadsAreScheduled
<1>. QED  BY <1>1, <1>2, <1>3, <1>4, <1>5, <1>6

LEMMA CheckInv ==
  ASSUME Inv, Check
  PROVE  Inv'
<1>1. /\ phase = "check"
      /\ prefix' = EarlyNodes
      /\ phase' \in {"ready", "refused"}
      /\ phase' = "ready" => StagesKept /\ UNCHANGED why
      /\ why' \in {why, "stages", "potential"}
      /\ UNCHANGED <<plan, staged, late, graph, order, todo, scratch>>
  BY DEF Check, Refuse
<1>. QED
  BY <1>1 DEF Inv, OrderSound, OrderWhole, Accepted, LateSound, PrefixSound, ScratchSound,
     ReadsAreScheduled, Nodes, Placed, StagesKept, EarlyNodes

LEMMA BeginInv ==
  ASSUME Inv, Begin
  PROVE  Inv'
<1>1. CASE staged /\ ~plan.complete
  BY <1>1, ReturnInv DEF Begin
<1>2. CASE ~(staged /\ ~plan.complete)
  <2>1. /\ phase = "ready" /\ phase' = "run"
        /\ scratch' = [owner |-> {plan}, size |-> Len(graph), vals |-> Empty]
        /\ todo' = IF staged THEN prefix ELSE Nodes
        /\ UNCHANGED <<plan, staged, why, late, graph, order, prefix>>
    BY <1>2 DEF Begin
  <2>2. Computed' = {}
    BY <2>1 DEF Computed, Empty
  <2>3. ScratchSound'
    BY <2>1, <2>2 DEF Inv, ScratchSound, LateSound, PrefixSound, EarlyNodes, Nodes
  <2>4. PrefixSound'
    BY <2>1 DEF Inv, PrefixSound, StagesKept, EarlyNodes, Nodes
  <2>. QED
    BY <2>1, <2>3, <2>4 DEF Inv, OrderSound, OrderWhole, Accepted, LateSound, ReadsAreScheduled, Nodes, Placed
<1>. QED  BY <1>1, <1>2

\* A node that runs passes every check of the execution.
LEMMA RunInv ==
  ASSUME Inv, NEW i \in Nodes, Run(i)
  PROVE  Inv'
<1>1. /\ phase = "run" /\ i \in todo
      /\ \A j \in todo \ {i} : Before(i, j)
  BY DEF Run
<1>2. /\ scratch.owner = {plan}
      /\ scratch.size = Len(graph)
      /\ i \notin Computed
      /\ Dependencies(graph[i]) \subseteq Computed
  BY <1>1, DependenciesComputed DEF Inv, ScratchSound
<1>3. /\ scratch' = [owner |-> scratch.owner, size |-> scratch.size,
                     vals |-> [j \in Computed \cup {i} |-> IF j = i THEN Computation(i)
                                                                    ELSE scratch.vals[j]]]
      /\ todo' = todo \ {i}
      /\ UNCHANGED <<plan, staged, phase, why, late, graph, order, prefix>>
  BY <1>2 DEF Run, Obstacle
<1>4. /\ Computed' = Computed \cup {i}
      /\ scratch'.owner = scratch.owner
      /\ scratch'.size = scratch.size
  BY <1>3 DEF Computed
<1>5. ScratchSound'
  BY <1>1, <1>3, <1>4 DEF Inv, ScratchSound, Nodes
<1>6. PrefixSound'
  BY <1>3 DEF Inv, PrefixSound, StagesKept, EarlyNodes, Nodes
<1>. QED
  BY <1>3, <1>5, <1>6 DEF Inv, OrderSound, OrderWhole, Accepted, LateSound, ReadsAreScheduled, Nodes, Placed

LEMMA PrepareInv ==
  ASSUME Inv, Prepare
  PROVE  Inv'
BY DEF Prepare, Inv, OrderSound, OrderWhole, Accepted, LateSound, PrefixSound, ScratchSound,
       ReadsAreScheduled, Nodes, Placed, Computed

LEMMA RetainInv ==
  ASSUME Inv, NEW a, Retain(a)
  PROVE  Inv'
<1>1. CASE Fail("competing")
  BY <1>1, FailInv DEF Retain
<1>2. CASE UNCHANGED <<plan, staged, phase, why, late, graph, order, prefix, todo, scratch>>
  BY <1>2 DEF Inv, OrderSound, OrderWhole, Accepted, LateSound, PrefixSound, ScratchSound,
     ReadsAreScheduled, Nodes, Placed, Computed, StagesKept, EarlyNodes
<1>. QED  BY <1>1, <1>2 DEF Retain

LEMMA BindInv ==
  ASSUME Inv, NEW outputs, Bind(outputs)
  PROVE  Inv'
<1>1. CASE Fail("competing")
  BY <1>1, FailInv DEF Bind
<1>2. CASE Fail("prefix")
  BY <1>2, FailInv DEF Bind
<1>3. CASE /\ phase = "retain" /\ late' /\ phase' = "order" /\ order' = <<>>
           /\ UNCHANGED <<plan, staged, why, prefix, todo, scratch>>
  <2>1. OrderSound'
    BY <1>3, EmptyOrder
  <2>. QED
    BY <1>3, <2>1 DEF Inv, OrderWhole, Accepted, LateSound, PrefixSound, ScratchSound, ReadsAreScheduled, Computed
<1>. QED  BY <1>1, <1>2, <1>3 DEF Bind

LEMMA ExtendInv ==
  ASSUME Inv, Extend
  PROVE  Inv'
<1>1. CASE ~StagesKept
  BY <1>1, FailInv DEF Extend
<1>2. CASE StagesKept
  <2>1. /\ phase = "extend" /\ phase' = "run"
        /\ scratch' = [owner |-> scratch.owner, size |-> Len(graph), vals |-> scratch.vals]
        /\ todo' = Nodes \ prefix
        /\ UNCHANGED <<plan, staged, why, late, graph, order, prefix>>
    BY <1>2 DEF Extend
  <2>2. Computed' = Computed
    BY <2>1 DEF Computed
  <2>3. late
    BY <2>1 DEF Inv, LateSound
  <2>4. ScratchSound'
    BY <2>1, <2>2, <2>3 DEF Inv, ScratchSound, Nodes
  <2>. QED
    BY <2>1, <2>3, <2>4 DEF Inv, OrderSound, OrderWhole, Accepted, LateSound, PrefixSound, ReadsAreScheduled,
       Nodes, Placed
<1>. QED  BY <1>1, <1>2

LEMMA RestInv ==
  ASSUME Inv, Report \/ Finish \/ Exhausted \/ Refused \/ Renew
  PROVE  Inv'
<1>1. CASE Report
  BY <1>1 DEF Report, Inv, OrderSound, OrderWhole, Accepted, LateSound, PrefixSound, ScratchSound,
     ReadsAreScheduled, Nodes, Placed
<1>2. CASE Finish \/ Exhausted \/ Refused
  BY <1>2, ReturnInv DEF Finish, Exhausted, Refused
<1>3. CASE Renew
  BY <1>3 DEF Renew, Inv, OrderSound, OrderWhole, Accepted, LateSound, PrefixSound, ScratchSound,
     ReadsAreScheduled, Nodes
<1>. QED  BY <1>1, <1>2, <1>3

\* Every step preserves the invariant.
LEMMA NextInv == Inv /\ [Next]_vars => Inv'
<1>. SUFFICES ASSUME Inv, [Next]_vars PROVE Inv'
  OBVIOUS
<1>1. CASE UNCHANGED vars
  BY <1>1 DEF vars, Inv, OrderSound, OrderWhole, Accepted, LateSound, PrefixSound, ScratchSound,
     ReadsAreScheduled, Nodes, Placed, Computed, StagesKept, EarlyNodes
<1>2. CASE Next
  BY <1>2, CompileInv, OrderInv, OrderedInv, CheckInv, BeginInv, RunInv, PrepareInv, RetainInv,
     BindInv, ExtendInv, RestInv DEF Next
<1>. QED  BY <1>1, <1>2

\* For all plans, retained applications and outputs, and any sequence of attempts
\* on one scratch: a node runs once, on its own plan's values, after all it reads;
\* the internal errors of execute_graph are never returned.
THEOREM SchedulesAreSound == Spec => []ReadsAreScheduled
<1>1. Inv => ReadsAreScheduled
  BY DEF Inv
<1>. QED  BY <1>1, InitInv, NextInv, PTL DEF Spec

\* Of the nodes of a circle, the first in the order would need one before it.
LEMMA OrderedIsAcyclic ==
  ASSUME OrderSound, Placed = Nodes
  PROVE  ~Circular(graph)
<1>1. SUFFICES ASSUME NEW C \in SUBSET Nodes, C # {},
                      \A i \in C : Dependencies(graph[i]) \cap C # {}
               PROVE  FALSE
  BY DEF Circular, Nodes
<1>. DEFINE P == {k \in DOMAIN order : order[k] \in C}
<1>2. P \subseteq Nat /\ P # {}
  BY <1>1 DEF OrderSound, Placed, Range
<1>. DEFINE Less == {ss \in Nat \X Nat : ss[1] < ss[2]}
<1>a. IsWellFoundedOn(Less, Nat)
  BY NatLessThanWellFounded, Zenon DEF OpToRel
<1>b. \E k \in P : \A l \in P : ~(<<l, k>> \in Less)
  <2>. HIDE DEF Less, P
  <2>. QED  BY <1>2, <1>a, WFMin
<1>3. PICK k \in P : \A l \in P : ~(<<l, k>> \in Less)
  BY <1>b
<1>4. PICK d \in Dependencies(graph[order[k]]) : d \in C
  BY <1>1
<1>5. PICK l \in DOMAIN order : l < k /\ order[l] = d
  BY <1>4 DEF OrderSound
<1>. QED  BY <1>2, <1>3, <1>4, <1>5

-----------------------------------------------------------------------------
(* Recursion up to a number.                                               *)

NaturalsLess == {pair \in Nat \X Nat : pair[1] < pair[2]}

\* Induction up to N on membership in a set: of the numbers that are not in it
\* there would be a least one.
LEMMA CountingUp ==
  ASSUME NEW N \in Nat, NEW S, 0 \in S, \A n \in 1..N : n - 1 \in S => n \in S
  PROVE  0..N \subseteq S
<1> DEFINE Missing == (0..N) \ S
<1>1. SUFFICES ASSUME Missing # {} PROVE FALSE OBVIOUS
<1>2. IsWellFoundedOn(NaturalsLess, Nat)
  BY NatLessThanWellFounded, Zenon DEF NaturalsLess, OpToRel
<1>3. Missing \subseteq Nat OBVIOUS
<1>4. PICK m \in Missing : \A l \in Missing : ~(<<l, m>> \in NaturalsLess)
  <2> HIDE DEF Missing
  <2> QED BY <1>1, <1>2, <1>3, WFMin
<1>5. m \in 1..N /\ m - 1 \in 0..N /\ m - 1 < m OBVIOUS
<1>6. <<m - 1, m>> \in NaturalsLess BY <1>5 DEF NaturalsLess
<1>7. m - 1 \in S BY <1>4, <1>5, <1>6
<1> QED BY <1>5, <1>7

\* A function of the numbers up to N is defined by its first value and by what is
\* made of each number and of the value before.
Iterates(f, N, X, first, step) ==
  /\ f \in [0..N -> X]
  /\ \A n \in 0..N : f[n] = IF n = 0 THEN first ELSE step[<<n, f[n - 1]>>]

\* Such a function exists for every rule that stays within a set.
LEMMA Iteration ==
  ASSUME NEW N \in Nat, NEW X, NEW first \in X, NEW step \in [(1..N) \X X -> X]
  PROVE  \E f : Iterates(f, N, X, first, step)
<1> DEFINE Defined(f, m) == \A n \in 0..m : f[n] = IF n = 0 THEN first ELSE step[<<n, f[n - 1]>>]
           Reached == {m \in 0..N : \E f \in [0..N -> X] : Defined(f, m)}
<1>1. 0 \in Reached
  <2>1. [n \in 0..N |-> first] \in [0..N -> X] /\ Defined([n \in 0..N |-> first], 0) OBVIOUS
  <2> HIDE DEF Defined
  <2> QED BY <2>1
<1>2. ASSUME NEW m \in 1..N, m - 1 \in Reached PROVE m \in Reached
  <2>1. PICK f \in [0..N -> X] : Defined(f, m - 1) BY <1>2
  <2>2. PICK x \in X : x = step[<<m, f[m - 1]>>]
    <3>1. f[m - 1] \in X OBVIOUS
    <3>2. <<m, f[m - 1]>> \in (1..N) \X X BY <3>1
    <3> QED BY <3>2
  <2>3. PICK g : g = [f EXCEPT ![m] = x] OBVIOUS
  <2>4. g \in [0..N -> X] BY <2>2, <2>3
  <2>5. ASSUME NEW n \in 0..m PROVE g[n] = IF n = 0 THEN first ELSE step[<<n, g[n - 1]>>]
    <3>1. CASE n = m
      <4>1. g[m] = x /\ g[m - 1] = f[m - 1] /\ m # 0 BY <2>3
      <4> QED BY <3>1, <4>1, <2>2
    <3>2. CASE n # m
      <4>1. n \in 0..(m - 1) /\ n \in 0..N /\ n - 1 # m BY <3>2
      <4>2. f[n] = IF n = 0 THEN first ELSE step[<<n, f[n - 1]>>] BY <4>1, <2>1
      <4>3. g[n] = f[n] BY <4>1, <2>3, <3>2
      <4>4. n # 0 => g[n - 1] = f[n - 1] BY <4>1, <2>3
      <4> QED BY <4>2, <4>3, <4>4
    <3> QED BY <3>1, <3>2
  <2>6. Defined(g, m) BY <2>5
  <2> HIDE DEF Defined
  <2> QED BY <2>4, <2>6
<1>3. N \in Reached
  <2> HIDE DEF Reached
  <2>1. 0..N \subseteq Reached BY <1>1, <1>2, CountingUp
  <2> QED BY <2>1
<1> QED BY <1>3 DEF Iterates

-----------------------------------------------------------------------------
(* What binding makes of the reads.                                        *)

\* A sequence of nodes that were compiled.
Whole(nodes) ==
  /\ nodes \in Seq(Range(nodes))
  /\ \A i \in DOMAIN nodes : NodeShape(nodes, nodes[i])

\* The parts of a channel are collected node by node.
LEMMA PartsAreCollected ==
  ASSUME NEW nodes, nodes \in Seq(Range(nodes)), NEW key
  PROVE  /\ PartsUpTo(nodes, key)[0] = <<>>
         /\ \A n \in 1..Len(nodes) : PartsUpTo(nodes, key)[n] =
              IF nodes[n].to = Part(key) THEN Append(PartsUpTo(nodes, key)[n - 1], n)
                                         ELSE PartsUpTo(nodes, key)[n - 1]
         /\ \A n \in 0..Len(nodes) : PartsUpTo(nodes, key)[n] \in Seq(DOMAIN nodes)
<1>1. PICK N \in Nat : N = Len(nodes) /\ DOMAIN nodes = 1..N OBVIOUS
<1> DEFINE Next1(n, s) == IF nodes[n].to = Part(key) THEN Append(s, n) ELSE s
<1>2. PICK X : X = Seq(1..N) OBVIOUS
<1>3. <<>> \in X /\ \A n \in 1..N, s \in X : Next1(n, s) \in X
  <2>1. <<>> \in X BY <1>2
  <2>2. ASSUME NEW n \in 1..N, NEW s \in X PROVE Next1(n, s) \in X
    <3>1. s \in Seq(1..N) BY <1>2
    <3>2. Append(s, n) \in Seq(1..N) BY <3>1
    <3> QED BY <1>2, <3>2
  <2> QED BY <2>1, <2>2
<1> HIDE DEF Next1
<1>4. PICK step \in [(1..N) \X X -> X] : \A n \in 1..N, s \in X : step[<<n, s>>] = Next1(n, s)
  <2>1. [ns \in (1..N) \X X |-> Next1(ns[1], ns[2])] \in [(1..N) \X X -> X] BY <1>3
  <2> QED BY <2>1
<1>5. PICK f \in [0..N -> X] :
        \A n \in 0..N : f[n] = IF n = 0 THEN <<>> ELSE step[<<n, f[n - 1]>>]
  <2>1. PICK first \in X : first = <<>> BY <1>3
  <2>2. \E f : Iterates(f, N, X, first, step)
    BY <1>1, <1>4, <2>1, Iteration
  <2> QED BY <2>1, <2>2 DEF Iterates
<1>6. f = [n \in 0..N |-> IF n = 0 THEN <<>> ELSE Next1(n, f[n - 1])]
  <2>1. ASSUME NEW n \in 1..N PROVE step[<<n, f[n - 1]>>] = Next1(n, f[n - 1])
    <3>1. n - 1 \in 0..N OBVIOUS
    <3> QED BY <1>4, <3>1
  <2>2. \A n \in 0..N : n # 0 => n \in 1..N OBVIOUS
  <2> QED BY <1>5, <2>1, <2>2
<1>7. PartsUpTo(nodes, key) =
        [n \in 0..N |-> IF n = 0 THEN <<>> ELSE Next1(n, PartsUpTo(nodes, key)[n - 1])]
  BY <1>1, <1>6, Zenon DEF PartsUpTo, Next1
<1>8. PartsUpTo(nodes, key)[0] = <<>> BY <1>7
<1>9. ASSUME NEW n \in 1..N
      PROVE  PartsUpTo(nodes, key)[n] = Next1(n, PartsUpTo(nodes, key)[n - 1])
  <2>1. n \in 0..N /\ n # 0 OBVIOUS
  <2> QED BY <2>1, <1>7
<1> DEFINE Typed == {n \in Nat : PartsUpTo(nodes, key)[n] \in X}
<1>10. ASSUME NEW n \in 1..N, n - 1 \in Typed PROVE n \in Typed
  BY <1>3, <1>9, <1>10
<1>11. 0..N \subseteq Typed
  <2>1. 0 \in Typed BY <1>3, <1>8
  <2> HIDE DEF Typed
  <2> QED BY <1>10, <2>1, CountingUp
<1> QED BY <1>1, <1>2, <1>8, <1>9, <1>11 DEF Next1

\* The parts of a channel are nodes.
LEMMA PartsAreNodes ==
  ASSUME NEW nodes, nodes \in Seq(Range(nodes)), NEW key
  PROVE  Parts(nodes, key) \in Seq(DOMAIN nodes)
<1>1. Len(nodes) \in 0..Len(nodes) OBVIOUS
<1> QED BY <1>1, PartsAreCollected DEF Parts

\* The producer of a value is a node or none.
LEMMA ProducerIsNode ==
  ASSUME NEW nodes, nodes \in Seq(Range(nodes)), NEW key
  PROVE  Producer(nodes, key) \in {0} \cup DOMAIN nodes
<1> DEFINE made == {i \in DOMAIN nodes : nodes[i].to = Value(key)}
<1>1. CASE made = {} BY <1>1 DEF Producer
<1>2. CASE made # {}
  <2>1. made \subseteq Nat OBVIOUS
  <2>2. IsWellFoundedOn(NaturalsLess, Nat)
    BY NatLessThanWellFounded, Zenon DEF NaturalsLess, OpToRel
  <2>3. PICK m \in made : \A l \in made : ~(<<l, m>> \in NaturalsLess)
    <3> HIDE DEF made
    <3> QED BY <1>2, <2>1, <2>2, WFMin
  <2>4. \A l \in made : m <= l
    <3> SUFFICES ASSUME NEW l \in made PROVE m <= l OBVIOUS
    <3>1. l \in Nat /\ m \in Nat /\ ~(<<l, m>> \in NaturalsLess) BY <2>1, <2>3
    <3>2. ~(l < m) BY <3>1 DEF NaturalsLess
    <3> QED BY <3>1, <3>2
  <2>5. Min(made) \in made
    <3> HIDE DEF made
    <3> QED BY <2>4 DEF Min
  <2> QED BY <1>2, <2>5 DEF Producer
<1> QED BY <1>1, <1>2

\* A selection that exists is a node.
LEMMA SelectorIsNode ==
  ASSUME NEW nodes, NEW key, Selections(nodes, key) # {}
  PROVE  Selector(nodes, key) \in DOMAIN nodes
BY DEF Selector, Selections

\* A bound read reads nodes.
LEMMA PlainReadsNodes ==
  ASSUME NEW nodes, nodes \in Seq(Range(nodes)), NEW p, PlainShape(nodes, p)
  PROVE  PlainDependencies(ResolvePlain(nodes, p)) \subseteq DOMAIN nodes
<1>1. CASE p.is = "value"
  <2>1. Producer(nodes, p.key) \in {0} \cup DOMAIN nodes BY ProducerIsNode
  <2> QED BY <1>1, <2>1 DEF PlainDependencies, ResolvePlain
<1>2. CASE p.is \in {"sum", "exact", "any"}
  <2>1. Parts(nodes, p.key) \in Seq(DOMAIN nodes) BY PartsAreNodes
  <2>2. Range(Parts(nodes, p.key)) \subseteq DOMAIN nodes BY <2>1 DEF Range
  <2> QED BY <1>2, <2>2 DEF PlainDependencies, ResolvePlain
<1>3. CASE p.is \in {"present", "picked"}
  <2>1. Selector(nodes, p.key) \in DOMAIN nodes BY <1>3, SelectorIsNode DEF PlainShape
  <2> QED BY <1>3, <2>1 DEF PlainDependencies, ResolvePlain
<1>4. CASE p.is = "ready"
  BY <1>4 DEF PlainDependencies, ResolvePlain
<1> QED BY <1>1, <1>2, <1>3, <1>4 DEF PlainShape

\* So does a read with two sources, or one that requires its source.
LEMMA ReadsNodes ==
  ASSUME NEW nodes, nodes \in Seq(Range(nodes)), NEW p, ReadShape(nodes, p)
  PROVE  ReadDependencies(Resolve(nodes, p)) \subseteq DOMAIN nodes
<1>1. CASE p.is = "select"
  <2>1. /\ {"by", "yes", "no"} \subseteq DOMAIN p /\ p.by \in DOMAIN nodes
        /\ PlainShape(nodes, p.yes) /\ PlainShape(nodes, p.no)
    BY <1>1 DEF ReadShape, PlainReads
  <2> DEFINE r == [p EXCEPT !.yes = ResolvePlain(nodes, @), !.no = ResolvePlain(nodes, @)]
  <2>2. Resolve(nodes, p) = r BY <1>1 DEF Resolve
  <2>3. /\ r.is = "select" /\ r.by = p.by
        /\ r.yes = ResolvePlain(nodes, p.yes) /\ r.no = ResolvePlain(nodes, p.no)
    BY <1>1, <2>1
  <2> HIDE DEF r
  <2>4. ReadDependencies(r) = {p.by} \cup PlainDependencies(ResolvePlain(nodes, p.yes))
                                     \cup PlainDependencies(ResolvePlain(nodes, p.no))
    BY <2>3 DEF ReadDependencies
  <2> QED BY <2>1, <2>2, <2>4, PlainReadsNodes
<1>2. CASE p.is = "required"
  <2>1. "source" \in DOMAIN p /\ PlainShape(nodes, p.source)
    BY <1>2 DEF ReadShape, PlainReads
  <2> DEFINE r == [p EXCEPT !.source = ResolvePlain(nodes, @)]
  <2>2. Resolve(nodes, p) = r BY <1>2 DEF Resolve
  <2>3. r.is = "required" /\ r.source = ResolvePlain(nodes, p.source) BY <1>2, <2>1
  <2> HIDE DEF r
  <2>4. ReadDependencies(r) = PlainDependencies(ResolvePlain(nodes, p.source))
    BY <2>3 DEF ReadDependencies
  <2> QED BY <2>1, <2>2, <2>4, PlainReadsNodes
<1>3. CASE p.is \notin {"select", "required"}
  <2>1. PlainShape(nodes, p) BY <1>3 DEF ReadShape, PlainReads
  <2>2. Resolve(nodes, p) = ResolvePlain(nodes, p) BY <1>3 DEF Resolve
  <2>3. ResolvePlain(nodes, p).is \notin {"select", "required"}
    BY <2>1 DEF ResolvePlain, PlainShape
  <2>4. ReadDependencies(ResolvePlain(nodes, p)) = PlainDependencies(ResolvePlain(nodes, p))
    BY <2>3 DEF ReadDependencies
  <2> QED BY <2>1, <2>2, <2>4, PlainReadsNodes
<1> QED BY <1>1, <1>2, <1>3

\* What binding changes of a node.
LEMMA BoundNode ==
  ASSUME NEW nodes, NEW i \in DOMAIN nodes, NodeShape(nodes, nodes[i])
  PROVE  /\ Bound(nodes)[i].reads =
              [k \in DOMAIN nodes[i].reads |-> Resolve(nodes, nodes[i].reads[k])]
         /\ Bound(nodes)[i].gates =
              [k \in DOMAIN nodes[i].gates |-> Resolve(nodes, nodes[i].gates[k])]
         /\ Bound(nodes)[i].of =
              IF nodes[i].op = "selection" THEN Parts(nodes, nodes[i].to.key) ELSE nodes[i].of
         /\ \A e \in {"op", "a", "b", "c", "to", "stage", "value"} : Bound(nodes)[i][e] = nodes[i][e]
<1> DEFINE n == nodes[i]
           R == [k \in DOMAIN n.reads |-> Resolve(nodes, n.reads[k])]
           G == [k \in DOMAIN n.gates |-> Resolve(nodes, n.gates[k])]
           O == IF n.op = "selection" THEN Parts(nodes, n.to.key) ELSE n.of
<1>1. Bound(nodes)[i] = [n EXCEPT !.reads = R, !.gates = G, !.of = O] BY DEF Bound
<1>2. {"op", "a", "b", "c", "reads", "gates", "of", "to", "stage", "value"} \subseteq DOMAIN n
  BY DEF NodeShape
<1> HIDE DEF n, R, G, O
<1>3. /\ [n EXCEPT !.reads = R, !.gates = G, !.of = O].reads = R
      /\ [n EXCEPT !.reads = R, !.gates = G, !.of = O].gates = G
      /\ [n EXCEPT !.reads = R, !.gates = G, !.of = O].of = O
      /\ \A e \in {"op", "a", "b", "c", "to", "stage", "value"} :
           [n EXCEPT !.reads = R, !.gates = G, !.of = O][e] = n[e]
  BY <1>2
<1> QED BY <1>1, <1>3 DEF n, R, G, O

\* All dependencies of bound nodes are nodes.
LEMMA DependenciesAreNodes ==
  ASSUME NEW nodes, Whole(nodes)
  PROVE  /\ DOMAIN Bound(nodes) = DOMAIN nodes
         /\ \A i \in DOMAIN nodes : Dependencies(Bound(nodes)[i]) \subseteq DOMAIN nodes
<1>1. DOMAIN Bound(nodes) = DOMAIN nodes BY DEF Bound
<1>2. ASSUME NEW i \in DOMAIN nodes
      PROVE  /\ Bound(nodes)[i].reads =
                  [k \in DOMAIN nodes[i].reads |-> Resolve(nodes, nodes[i].reads[k])]
             /\ Bound(nodes)[i].gates =
                  [k \in DOMAIN nodes[i].gates |-> Resolve(nodes, nodes[i].gates[k])]
             /\ Bound(nodes)[i].of =
                  IF nodes[i].op = "selection" THEN Parts(nodes, nodes[i].to.key) ELSE nodes[i].of
  <2>1. NodeShape(nodes, nodes[i]) BY DEF Whole
  <2>2. Bound(nodes)[i].reads = [k \in DOMAIN nodes[i].reads |-> Resolve(nodes, nodes[i].reads[k])]
    BY <2>1, BoundNode, ZenonT(60)
  <2>3. Bound(nodes)[i].gates = [k \in DOMAIN nodes[i].gates |-> Resolve(nodes, nodes[i].gates[k])]
    BY <2>1, BoundNode, ZenonT(60)
  <2>4. Bound(nodes)[i].of =
          IF nodes[i].op = "selection" THEN Parts(nodes, nodes[i].to.key) ELSE nodes[i].of
    BY <2>1, BoundNode, ZenonT(60)
  <2> QED BY <2>2, <2>3, <2>4
<1>3. ASSUME NEW i \in DOMAIN nodes, NEW d \in Dependencies(Bound(nodes)[i]) PROVE d \in DOMAIN nodes
  <2>1. NodeShape(nodes, nodes[i]) /\ nodes \in Seq(Range(nodes)) BY DEF Whole
  <2> DEFINE b == Bound(nodes)[i]
  <2> HIDE DEF b
  <2>2. /\ b.reads = [k \in DOMAIN nodes[i].reads |-> Resolve(nodes, nodes[i].reads[k])]
        /\ b.gates = [k \in DOMAIN nodes[i].gates |-> Resolve(nodes, nodes[i].gates[k])]
        /\ b.of = IF nodes[i].op = "selection" THEN Parts(nodes, nodes[i].to.key) ELSE nodes[i].of
    BY <1>2 DEF b
  <2>3. CASE \E k \in Used(b) : d \in ReadDependencies(b.reads[k])
    <3>1. PICK k \in Used(b) : d \in ReadDependencies(b.reads[k]) BY <2>3
    <3>2. k \in DOMAIN nodes[i].reads /\ b.reads[k] = Resolve(nodes, nodes[i].reads[k])
      BY <2>2 DEF Used
    <3>3. ReadShape(nodes, nodes[i].reads[k]) BY <2>1, <3>2 DEF NodeShape, Range
    <3> QED BY <3>1, <3>2, <3>3, <2>1, ReadsNodes
  <2>4. CASE \E k \in DOMAIN b.gates : d \in ReadDependencies(b.gates[k])
    <3>1. PICK k \in DOMAIN b.gates : d \in ReadDependencies(b.gates[k]) BY <2>4
    <3>2. k \in DOMAIN nodes[i].gates /\ b.gates[k] = Resolve(nodes, nodes[i].gates[k])
      BY <2>2
    <3>3. ReadShape(nodes, nodes[i].gates[k]) BY <2>1, <3>2 DEF NodeShape, Range
    <3> QED BY <3>1, <3>2, <3>3, <2>1, ReadsNodes
  <2>5. CASE d \in Range(b.of)
    <3>1. b.of \in Seq(DOMAIN nodes) BY <2>1, <2>2, PartsAreNodes DEF NodeShape
    <3> QED BY <2>5, <3>1 DEF Range
  <2>6. \/ \E k \in Used(b) : d \in ReadDependencies(b.reads[k])
        \/ \E k \in DOMAIN b.gates : d \in ReadDependencies(b.gates[k])
        \/ d \in Range(b.of)
    BY DEF Dependencies, b
  <2> QED BY <2>3, <2>4, <2>5, <2>6
<1> QED BY <1>1, <1>3

-----------------------------------------------------------------------------
(* The late nodes.                                                         *)

\* What a retained application or a native output adds to the nodes of the plan.
LateFits(node) ==
  /\ NodeShape(plan.nodes, node)
  /\ node.op # "selection"
  /\ node.op = "output" => node.value # None
  /\ node.to \in {d.to : d \in Deliveries} \cup {Value(key) : key \in Range(ApplicationKeys)}

\* The nodes with others behind them.
Widens(nodes, wider) ==
  /\ nodes \in Seq(Range(nodes)) /\ wider \in Seq(Range(wider))
  /\ Len(nodes) <= Len(wider)
  /\ \A i \in DOMAIN nodes : wider[i] = nodes[i]

\* A sequence is one over its own elements.
LEMMA OwnRange ==
  ASSUME NEW X, NEW s \in Seq(X)
  PROVE  s \in Seq(Range(s)) /\ Range(s) \subseteq X /\ Len(s) \in Nat /\ DOMAIN s = 1..Len(s)
<1>1. /\ Len(s) \in Nat /\ DOMAIN s = 1..Len(s) /\ s = [i \in 1..Len(s) |-> s[i]]
      /\ \A i \in 1..Len(s) : s[i] \in X
  OBVIOUS
<1>2. PICK N \in Nat, R \in SUBSET X : N = Len(s) /\ R = Range(s)
  <2>1. Range(s) \in SUBSET X BY <1>1 DEF Range
  <2> QED BY <1>1, <2>1
<1>3. R \subseteq X BY <1>1, <1>2 DEF Range
<1>4. \A i \in 1..N : s[i] \in R BY <1>1, <1>2 DEF Range
<1>5. s \in Seq(R)
  <2>1. s \in [1..N -> R] BY <1>1, <1>2, <1>4
  <2> QED BY <2>1
<1> QED BY <1>1, <1>2, <1>3, <1>5

\* The selections of a channel are not lost when nodes are added behind.
LEMMA SelectionsStay ==
  ASSUME NEW nodes, NEW wider, Widens(nodes, wider), NEW key
  PROVE  Selections(nodes, key) \subseteq Selections(wider, key)
BY DEF Widens, Selections

\* A node that fits fits with others behind.
LEMMA ShapeStays ==
  ASSUME NEW nodes, NEW wider, Widens(nodes, wider), NEW node, NodeShape(nodes, node)
  PROVE  NodeShape(wider, node)
<1>1. DOMAIN nodes \subseteq DOMAIN wider BY DEF Widens
<1>2. ASSUME NEW q, PlainShape(nodes, q) PROVE PlainShape(wider, q)
  BY <1>2, SelectionsStay DEF PlainShape
<1>3. ASSUME NEW p, ReadShape(nodes, p) PROVE ReadShape(wider, p)
  BY <1>1, <1>2, <1>3 DEF ReadShape
<1>4. node.of \in Seq(DOMAIN wider)
  <2>1. node.of \in Seq(DOMAIN nodes) BY DEF NodeShape
  <2> QED BY <1>1, <2>1
<1> QED BY <1>3, <1>4 DEF NodeShape

\* The gate on its application keeps a node in shape.
LEMMA GatedShape ==
  ASSUME NEW nodes, NEW node, NodeShape(nodes, node), node.op # "selection", NEW key
  PROVE  LET gated == [node EXCEPT !.gates = Append(@, Value(key))]
         IN  NodeShape(nodes, gated) /\ gated.op = node.op /\ gated.to = node.to
<1> DEFINE more == Append(node.gates, Value(key))
           gated == [node EXCEPT !.gates = more]
<1>1. /\ {"op", "a", "b", "c", "reads", "gates", "of", "to", "stage", "value"} \subseteq DOMAIN node
      /\ node.gates \in Seq(Range(node.gates))
  BY DEF NodeShape
<1>2. more \in Seq(Range(more)) /\ Range(more) \subseteq Range(node.gates) \cup {Value(key)}
  <2>1. PICK X : X = Range(node.gates) \cup {Value(key)} OBVIOUS
  <2>2. PICK g \in Seq(X) : g = node.gates BY <1>1, <2>1
  <2>3. PICK v \in X : v = Value(key) BY <2>1
  <2>4. Append(g, v) \in Seq(X) OBVIOUS
  <2>5. more = Append(g, v) BY <2>2, <2>3
  <2> HIDE DEF more
  <2>6. more \in Seq(Range(more)) /\ Range(more) \subseteq X BY <2>4, <2>5, OwnRange
  <2> QED BY <2>1, <2>6
<1> HIDE DEF more
<1>3. /\ gated.gates = more /\ DOMAIN gated = DOMAIN node
      /\ gated.op = node.op /\ gated.to = node.to /\ gated.reads = node.reads
      /\ gated.of = node.of /\ gated.stage = node.stage /\ gated.value = node.value
      /\ gated.a = node.a /\ gated.b = node.b /\ gated.c = node.c
  BY <1>1
<1> HIDE DEF gated
<1>4. ReadShape(nodes, Value(key)) BY DEF ReadShape, PlainReads, PlainShape, Value
<1>5. NodeShape(nodes, gated)
  BY <1>2, <1>3, <1>4 DEF NodeShape
<1> QED BY <1>3, <1>5 DEF gated, more

\* A retained application adds nodes that fit.
LEMMA ApplicationFits ==
  ASSUME plan \in Plans, NEW a \in [template : DOMAIN plan.templates, eligible : BOOLEAN],
         NEW k \in DOMAIN ApplicationKeys
  PROVE  /\ Application(a, k) \in Seq(Range(Application(a, k)))
         /\ \A node \in Range(Application(a, k)) : LateFits(node)
<1> DEFINE t == plan.templates[a.template]
           key == ApplicationKeys[k]
           first == [t.applies EXCEPT !.to = Value(key),
                                      !.value = IF a.eligible THEN None ELSE Boolean(FALSE)]
           rest == [d \in DOMAIN t.delivery |->
                      [t.delivery[d] EXCEPT !.gates = Append(@, Value(key))]]
<1>1. t \in Range(plan.templates) /\ key \in Range(ApplicationKeys) BY DEF Range
<1> HIDE DEF t, key
<1>2. /\ t.applies \in Delivered(plan) /\ t.delivery \in Seq(Range(t.delivery))
      /\ Range(t.delivery) \subseteq Delivered(plan) /\ Range(t.delivery) \subseteq Deliveries
  <2>1. t.delivery \in Seq(Range(t.delivery)) BY <1>1, PlansAssumption DEF PlanShape
  <2>2. {t.applies} \cup Range(t.delivery) \subseteq Delivered(plan) BY <1>1, Zenon DEF Delivered
  <2>3. Range(t.delivery) \subseteq Deliveries BY <1>1, Zenon DEF Deliveries
  <2> QED BY <2>1, <2>2, <2>3
<1>3. LateFits(first)
  <2>1. NodeShape(plan.nodes, t.applies) /\ t.applies.op \notin {"selection", "output"}
    BY <1>2, PlansAssumption DEF PlanShape
  <2>2. {"op", "a", "b", "c", "reads", "gates", "of", "to", "stage", "value"}
          \subseteq DOMAIN t.applies
    BY <2>1 DEF NodeShape
  <2>3. /\ DOMAIN first = DOMAIN t.applies /\ first.to = Value(key)
        /\ first.op = t.applies.op /\ first.reads = t.applies.reads
        /\ first.gates = t.applies.gates /\ first.of = t.applies.of
        /\ first.stage = t.applies.stage
        /\ first.a = t.applies.a /\ first.b = t.applies.b /\ first.c = t.applies.c
        /\ first.value = IF a.eligible THEN None ELSE Boolean(FALSE)
    BY <2>2
  <2> HIDE DEF first
  <2>4. first.value \in Values \cup {None} BY <2>3 DEF Values
  <2>5. NodeShape(plan.nodes, first) BY <2>1, <2>3, <2>4 DEF NodeShape
  <2> QED BY <1>1, <2>1, <2>3, <2>5 DEF LateFits
<1>4. ASSUME NEW d \in DOMAIN t.delivery PROVE LateFits(rest[d])
  <2>1. t.delivery[d] \in Delivered(plan) /\ t.delivery[d] \in Deliveries BY <1>2 DEF Range
  <2>2. /\ NodeShape(plan.nodes, t.delivery[d])
        /\ t.delivery[d].op \notin {"selection", "output"}
    BY <2>1, PlansAssumption DEF PlanShape
  <2>3. /\ NodeShape(plan.nodes, rest[d]) /\ rest[d].op = t.delivery[d].op
        /\ rest[d].to = t.delivery[d].to
    <3>1. PICK node : node = t.delivery[d] OBVIOUS
    <3>2. rest[d] = [node EXCEPT !.gates = Append(@, Value(key))] BY <3>1
    <3> HIDE DEF rest
    <3>3. NodeShape(plan.nodes, node) /\ node.op # "selection" BY <2>2, <3>1
    <3>4. /\ NodeShape(plan.nodes, [node EXCEPT !.gates = Append(@, Value(key))])
          /\ [node EXCEPT !.gates = Append(@, Value(key))].op = node.op
          /\ [node EXCEPT !.gates = Append(@, Value(key))].to = node.to
      BY <3>3, GatedShape
    <3> QED BY <3>1, <3>2, <3>4
  <2> HIDE DEF rest
  <2> QED BY <2>1, <2>2, <2>3 DEF LateFits
<1>5. Application(a, k) = <<first>> \o rest BY DEF Application, t, key
<1>6. /\ Len(t.delivery) \in Nat /\ DOMAIN t.delivery = 1..Len(t.delivery) BY <1>2
<1>7. rest \in Seq(Range(rest)) /\ Len(rest) = Len(t.delivery)
  <2>1. DOMAIN rest = 1..Len(t.delivery) BY <1>6
  <2> HIDE DEF rest
  <2> QED
    <3>1. rest = [d \in 1..Len(t.delivery) |-> rest[d]] BY <2>1 DEF rest
    <3>2. \A d \in 1..Len(t.delivery) : rest[d] \in Range(rest) BY <2>1 DEF Range
    <3>3. PICK N \in Nat : N = Len(t.delivery) BY <1>6
    <3>4. rest \in [1..N -> Range(rest)] BY <3>1, <3>2, <3>3
    <3>5. rest \in Seq(Range(rest)) /\ Len(rest) = N BY <3>4
    <3> QED BY <3>3, <3>5
<1> HIDE DEF first, rest
<1>8. PICK X : X = {first} \cup Range(rest) OBVIOUS
<1>9. <<first>> \in Seq(X) /\ rest \in Seq(X)
  <2>1. first \in X /\ Range(rest) \subseteq X BY <1>8
  <2> QED BY <1>7, <2>1
<1>10. <<first>> \o rest \in Seq(X) BY <1>9
<1>11. \A i \in DOMAIN (<<first>> \o rest) : (<<first>> \o rest)[i] \in X BY <1>10
<1>12. \A node \in X : LateFits(node)
  <2>1. DOMAIN rest = DOMAIN t.delivery BY <1>6, <1>7
  <2> QED BY <1>3, <1>4, <1>8, <2>1 DEF Range
<1>13. PICK s : s = <<first>> \o rest OBVIOUS
<1>14. s \in Seq(X) /\ s \in Seq(Range(s)) BY <1>10, <1>13, OwnRange
<1> QED BY <1>5, <1>11, <1>12, <1>13, <1>14 DEF Range

\* Nodes that fit, behind those of the plan, make a whole.
LEMMA WidenedIsWhole ==
  ASSUME plan \in Plans, NEW more, more \in Seq(Range(more)),
         \A node \in Range(more) : LateFits(node)
  PROVE  /\ Whole(plan.nodes \o more)
         /\ Widens(plan.nodes, plan.nodes \o more)
         /\ \A i \in DOMAIN (plan.nodes \o more) \ DOMAIN plan.nodes :
              LateFits((plan.nodes \o more)[i])
<1>1. PICK nodes : nodes = plan.nodes OBVIOUS
<1>2. PICK wider : wider = nodes \o more OBVIOUS
<1>3. /\ nodes \in Seq(Range(nodes))
      /\ \A i \in DOMAIN nodes : NodeShape(nodes, nodes[i])
  BY <1>1, PlansAssumption DEF PlanShape
<1>4. /\ Len(nodes) \in Nat /\ Len(more) \in Nat
      /\ DOMAIN nodes = 1..Len(nodes) /\ DOMAIN more = 1..Len(more)
  BY <1>3
<1>5. PICK X : X = Range(nodes) \cup Range(more) OBVIOUS
<1>6. nodes \in Seq(X) /\ more \in Seq(X)
  <2>1. Range(nodes) \subseteq X /\ Range(more) \subseteq X BY <1>5
  <2> QED BY <1>3, <2>1
<1>7. /\ wider \in Seq(X) /\ Len(wider) = Len(nodes) + Len(more)
      /\ \A i \in 1..Len(nodes) : wider[i] = nodes[i]
      /\ \A i \in 1..Len(more) : wider[Len(nodes) + i] = more[i]
  BY <1>2, <1>6
<1>8. /\ wider \in Seq(Range(wider)) /\ DOMAIN wider = 1..(Len(nodes) + Len(more))
  BY <1>4, <1>7 DEF Range
<1>9. Widens(nodes, wider) BY <1>3, <1>4, <1>7, <1>8 DEF Widens
<1>10. ASSUME NEW i \in DOMAIN wider \ DOMAIN nodes PROVE LateFits(wider[i])
  <2>1. i - Len(nodes) \in 1..Len(more) /\ i = Len(nodes) + (i - Len(nodes)) BY <1>4, <1>8
  <2>2. wider[i] = more[i - Len(nodes)] BY <1>7, <2>1
  <2> QED BY <1>4, <2>1, <2>2 DEF Range
<1>11. ASSUME NEW i \in DOMAIN wider PROVE NodeShape(nodes, wider[i])
  <2>1. CASE i \in DOMAIN nodes BY <1>3, <1>4, <1>7, <2>1
  <2>2. CASE i \notin DOMAIN nodes BY <1>1, <1>10, <2>2 DEF LateFits
  <2> QED BY <2>1, <2>2
<1>12. Whole(wider) BY <1>8, <1>9, <1>11, ShapeStays DEF Whole
<1> QED BY <1>1, <1>2, <1>9, <1>10, <1>12

-----------------------------------------------------------------------------
(* The graph.                                                              *)

\* The early graph is the plan's, and every dependency of the graph is a node of it.
GraphInv ==
  /\ phase # "idle" => plan \in Plans
  /\ phase # "idle" /\ ~late => graph = Bound(plan.nodes)
  /\ \A i \in Nodes : Dependencies(graph[i]) \subseteq Nodes

\* The late nodes fit the plan.
AddedInv ==
  /\ retained \in Nat
  /\ added \in Seq(Range(added))
  /\ \A node \in Range(added) : LateFits(node)

\* An order that came to its end without all nodes is one of a graph with a circle.
CycleInv ==
  /\ phase # "refused" => why = "none"
  /\ why = "cycle" => Circular(graph)

\* The nodes of a plan are such a sequence.
LEMMA PlanIsWhole ==
  ASSUME NEW p \in Plans
  PROVE  Whole(p.nodes)
BY PlansAssumption DEF PlanShape, Whole

\* What preparation says of the outputs makes nodes that fit.
LEMMA OutputsFit ==
  ASSUME plan \in Plans,
         NEW outputs \in [DOMAIN plan.outputs -> {Boolean(TRUE), Boolean(FALSE), Inactive}],
         NEW made, made = [k \in DOMAIN outputs |-> [plan.outputs[k] EXCEPT !.value = outputs[k]]]
  PROVE  /\ made \in Seq(Range(made))
         /\ \A node \in Range(made) : LateFits(node)
<1>1. plan.outputs \in Seq(Range(plan.outputs)) BY PlansAssumption DEF PlanShape
<1>2. /\ Len(plan.outputs) \in Nat /\ DOMAIN made = 1..Len(plan.outputs)
      /\ made = [k \in 1..Len(plan.outputs) |-> made[k]]
  BY <1>1
<1>3. made \in Seq(Range(made))
  <2>1. PICK N \in Nat : N = Len(plan.outputs) BY <1>2
  <2>2. PICK m : m = made OBVIOUS
  <2>3. DOMAIN m = 1..N /\ m = [k \in 1..N |-> m[k]] BY <1>2, <2>1, <2>2
  <2>4. \A k \in 1..N : m[k] \in Range(m) BY <2>3 DEF Range
  <2>5. m \in Seq(Range(m)) BY <2>3, <2>4
  <2> QED BY <2>2, <2>5
<1>4. ASSUME NEW k \in DOMAIN plan.outputs PROVE LateFits(made[k])
  <2>1. PICK node : node = plan.outputs[k] OBVIOUS
  <2>2. node \in Range(plan.outputs) BY <2>1 DEF Range
  <2>3. node \in Deliveries
    <3>1. Range(plan.outputs) \subseteq Deliveries BY Zenon DEF Deliveries
    <3> QED BY <2>2, <3>1
  <2>4. NodeShape(plan.nodes, node) /\ node.op = "output" BY <2>2, PlansAssumption DEF PlanShape
  <2>5. {"op", "a", "b", "c", "reads", "gates", "of", "to", "stage", "value"} \subseteq DOMAIN node
    BY <2>4 DEF NodeShape
  <2>6. made[k] = [node EXCEPT !.value = outputs[k]] BY <2>1
  <2>7. /\ DOMAIN made[k] = DOMAIN node /\ made[k].to = node.to
        /\ made[k].op = node.op /\ made[k].reads = node.reads
        /\ made[k].gates = node.gates /\ made[k].of = node.of
        /\ made[k].stage = node.stage /\ made[k].value = outputs[k]
        /\ made[k].a = node.a /\ made[k].b = node.b /\ made[k].c = node.c
    BY <2>5, <2>6
  <2>8. outputs[k] \in Values /\ outputs[k] # None
    BY DEF Values, None, Inactive, Boolean
  <2>9. NodeShape(plan.nodes, made[k]) BY <2>4, <2>7, <2>8 DEF NodeShape
  <2> QED BY <2>3, <2>4, <2>7, <2>8, <2>9 DEF LateFits
<1> QED BY <1>3, <1>4 DEF Range

\* Two sequences of nodes that fit make one.
LEMMA BothFit ==
  ASSUME NEW s, NEW t, s \in Seq(Range(s)), t \in Seq(Range(t)),
         \A node \in Range(s) : LateFits(node), \A node \in Range(t) : LateFits(node)
  PROVE  /\ s \o t \in Seq(Range(s \o t))
         /\ \A node \in Range(s \o t) : LateFits(node)
<1>1. PICK X : X = Range(s) \cup Range(t) OBVIOUS
<1>2. s \in Seq(X) /\ t \in Seq(X)
  <2>1. Range(s) \subseteq X /\ Range(t) \subseteq X BY <1>1
  <2> QED BY <2>1
<1>3. s \o t \in Seq(X) BY <1>2
<1>4. s \o t \in Seq(Range(s \o t)) /\ Range(s \o t) \subseteq X BY <1>3, OwnRange
<1> QED BY <1>1, <1>4

\* The nodes that are bound for the late graph are a whole.
LEMMA LateIsWhole ==
  ASSUME plan \in Plans, AddedInv,
         NEW outputs \in [DOMAIN plan.outputs -> {Boolean(TRUE), Boolean(FALSE), Inactive}],
         NEW made, made = [k \in DOMAIN outputs |-> [plan.outputs[k] EXCEPT !.value = outputs[k]]]
  PROVE  \E nodes : /\ nodes = plan.nodes \o added \o made
                    /\ Whole(nodes) /\ Widens(plan.nodes, nodes)
                    /\ \A i \in DOMAIN nodes \ DOMAIN plan.nodes : LateFits(nodes[i])
<1>1. /\ made \in Seq(Range(made))
      /\ \A node \in Range(made) : LateFits(node)
  BY OutputsFit
<1>2. PICK more : more = added \o made OBVIOUS
<1>3. more \in Seq(Range(more)) /\ \A node \in Range(more) : LateFits(node)
  BY <1>1, <1>2, BothFit DEF AddedInv
<1>4. (plan.nodes \o added) \o made = plan.nodes \o more
  <2>1. PICK a : a = plan.nodes OBVIOUS
  <2>2. a \in Seq(Range(a)) BY <2>1, PlansAssumption DEF PlanShape
  <2>3. PICK X : X = Range(a) \cup Range(added) \cup Range(made) OBVIOUS
  <2>4. a \in Seq(X) /\ added \in Seq(X) /\ made \in Seq(X)
    <3>1. Range(a) \subseteq X /\ Range(added) \subseteq X /\ Range(made) \subseteq X BY <2>3
    <3> QED BY <1>1, <2>2, <3>1 DEF AddedInv
  <2>5. (a \o added) \o made = a \o (added \o made) BY <2>4, ConcatAssociative
  <2> QED BY <1>2, <2>1, <2>5
<1> QED BY <1>3, <1>4, WidenedIsWhole

-----------------------------------------------------------------------------

\* Before the first attempt there is no graph.
LEMMA InitGraph == Init => GraphInv /\ AddedInv /\ CycleInv
BY DEF Init, GraphInv, AddedInv, CycleInv, Nodes, Range

\* A returned call leaves none.
LEMMA ReturnGraph == Return => (GraphInv /\ AddedInv /\ CycleInv)'
<1> SUFFICES ASSUME Return PROVE (GraphInv /\ AddedInv /\ CycleInv)'
  OBVIOUS
<1>1. Nodes' = {} /\ Range(added') = {} /\ added' \in Seq(Range(added')) BY DEF Return, Nodes, Range
<1> QED BY <1>1 DEF Return, GraphInv, AddedInv, CycleInv

\* A refusal for anything but a circle leaves the graph as it was.
LEMMA FailGraph ==
  ASSUME GraphInv, AddedInv, NEW reason, Fail(reason), reason # "cycle", phase # "idle"
  PROVE  (GraphInv /\ AddedInv /\ CycleInv)'
BY DEF Fail, Refuse, GraphInv, AddedInv, CycleInv, Nodes, LateFits, Deliveries

\* A step that keeps the plan, the graph and the late nodes.
LEMMA StillGraph ==
  ASSUME GraphInv, AddedInv, CycleInv,
         UNCHANGED <<plan, why, late, graph, retained, added>>,
         phase # "refused", phase # "idle" \/ phase' = "idle"
  PROVE  (GraphInv /\ AddedInv /\ CycleInv)'
BY DEF GraphInv, AddedInv, CycleInv, Nodes, LateFits, Deliveries

\* Compiling binds the plan's own nodes.
LEMMA CompileGraph ==
  ASSUME Inv, GraphInv, AddedInv, CycleInv, NEW p \in Plans, NEW s \in BOOLEAN, Compile(p, s),
         phase = "idle" => added = <<>>
  PROVE  (GraphInv /\ AddedInv /\ CycleInv)'
<1>1. /\ phase = "idle" /\ plan' = p /\ phase' = "order" /\ graph' = Bound(p.nodes)
      /\ UNCHANGED <<why, late, retained, added>>
  BY DEF Compile
<1>2. GraphInv'
  <2>1. /\ DOMAIN graph' = DOMAIN p.nodes
        /\ \A i \in DOMAIN p.nodes : Dependencies(graph'[i]) \subseteq DOMAIN p.nodes
    BY <1>1, PlanIsWhole, DependenciesAreNodes
  <2> QED BY <1>1, <2>1 DEF GraphInv, Nodes
<1>3. AddedInv'
  <2>1. Range(added') = {} /\ added' \in Seq(Range(added')) BY <1>1 DEF Range
  <2> QED BY <1>1, <2>1 DEF AddedInv
<1>4. CycleInv' BY <1>1 DEF CycleInv
<1> QED BY <1>2, <1>3, <1>4

\* Of the nodes without a place, each reads another such one.
LEMMA OrderedGraph ==
  ASSUME Inv, GraphInv, AddedInv, CycleInv, Ordered
  PROVE  (GraphInv /\ AddedInv /\ CycleInv)'
<1>1. /\ phase = "order" /\ Ready = {}
      /\ UNCHANGED <<plan, staged, late, graph, order, prefix, todo, retained, added>>
  BY DEF Ordered
<1>2. CASE Placed = Nodes
  BY <1>1, <1>2, StillGraph DEF Ordered
<1>3. CASE Placed # Nodes
  <2>1. phase' = "refused" /\ why' = "cycle" BY <1>3 DEF Ordered, Refuse
  <2> DEFINE C == Nodes \ Placed
  <2>2. C # {}
    <3>1. Placed \subseteq Nodes BY DEF Inv, OrderSound, Placed, Range
    <3> QED BY <1>3, <3>1
  <2>3. \A i \in C : Dependencies(graph[i]) \cap C # {}
    BY <1>1 DEF Ready, GraphInv
  <2>4. Circular(graph)
    <3>1. C \in (SUBSET DOMAIN graph) \ {{}} BY <2>2 DEF Nodes
    <3> HIDE DEF C
    <3> QED BY <2>3, <3>1 DEF Circular
  <2> QED BY <1>1, <2>1, <2>4 DEF GraphInv, AddedInv, CycleInv, Nodes, LateFits, Deliveries
<1> QED BY <1>2, <1>3

\* The admission of the prefix keeps the graph.
LEMMA CheckGraph ==
  ASSUME GraphInv, AddedInv, CycleInv, Check
  PROVE  (GraphInv /\ AddedInv /\ CycleInv)'
<1>1. /\ phase = "check" /\ phase' \in {"ready", "refused"}
      /\ phase' = "ready" => UNCHANGED why
      /\ why' \in {why, "stages", "potential"}
      /\ UNCHANGED <<plan, late, graph, retained, added>>
  BY DEF Check, Refuse
<1> QED BY <1>1 DEF GraphInv, AddedInv, CycleInv, Nodes, LateFits, Deliveries

\* A retained application adds nodes that fit.
LEMMA RetainGraph ==
  ASSUME GraphInv, AddedInv, CycleInv,
         NEW a \in [template : DOMAIN plan.templates, eligible : BOOLEAN], Retain(a)
  PROVE  (GraphInv /\ AddedInv /\ CycleInv)'
<1>1. CASE Fail("competing")
  BY <1>1, FailGraph DEF Retain
<1>2. CASE ~Fail("competing")
  <2>1. /\ phase = "retain" /\ retained < Len(ApplicationKeys)
        /\ retained' = retained + 1 /\ added' = added \o Application(a, retained + 1)
        /\ UNCHANGED <<plan, staged, phase, why, late, graph>>
    BY <1>2 DEF Retain
  <2>2. retained + 1 \in DOMAIN ApplicationKeys
    BY <2>1, PlansAssumption DEF AddedInv
  <2>3. plan \in Plans BY <2>1 DEF GraphInv
  <2>4. /\ Application(a, retained + 1) \in Seq(Range(Application(a, retained + 1)))
        /\ \A node \in Range(Application(a, retained + 1)) : LateFits(node)
    BY <2>2, <2>3, ApplicationFits
  <2>5. added' \in Seq(Range(added')) /\ \A node \in Range(added') : LateFits(node)
    BY <2>1, <2>4, BothFit DEF AddedInv
  <2>6. Deliveries' = Deliveries BY <2>1 DEF Deliveries
  <2>7. retained' \in Nat BY <2>1 DEF AddedInv
  <2>8. AddedInv' BY <2>1, <2>5, <2>6, <2>7 DEF AddedInv, LateFits
  <2> QED BY <2>1, <2>8 DEF GraphInv, CycleInv, Nodes
<1> QED BY <1>1, <1>2

\* Binding takes in the late nodes.
LEMMA BindGraph ==
  ASSUME GraphInv, AddedInv, CycleInv,
         NEW outputs \in [DOMAIN plan.outputs -> {Boolean(TRUE), Boolean(FALSE), Inactive}], Bind(outputs)
  PROVE  (GraphInv /\ AddedInv /\ CycleInv)'
<1>1. CASE Fail("competing") \/ Fail("prefix")
  BY <1>1, FailGraph DEF Bind
<1>2. CASE ~(Fail("competing") \/ Fail("prefix"))
  <2>1. PICK made : made = [k \in DOMAIN outputs |-> [plan.outputs[k] EXCEPT !.value = outputs[k]]]
    OBVIOUS
  <2>2. phase = "retain" /\ plan \in Plans BY DEF Bind, GraphInv
  <2>3. PICK nodes : nodes = plan.nodes \o added \o made /\ Whole(nodes)
    BY <2>1, <2>2, LateIsWhole
  <2>4. /\ late' = TRUE /\ phase' = "order" /\ graph' = Bound(nodes)
        /\ UNCHANGED <<plan, why, retained, added>>
    BY <1>2, <2>1, <2>3 DEF Bind
  <2>5. /\ DOMAIN graph' = DOMAIN nodes
        /\ \A i \in DOMAIN nodes : Dependencies(graph'[i]) \subseteq DOMAIN nodes
    BY <2>3, <2>4, DependenciesAreNodes
  <2>6. GraphInv' BY <2>2, <2>4, <2>5 DEF GraphInv, Nodes
  <2> QED BY <2>2, <2>4, <2>6 DEF AddedInv, CycleInv, LateFits, Deliveries
<1> QED BY <1>1, <1>2

\* Between the attempts nothing is added.
IdleInv == phase = "idle" => added = <<>>

\* Every step keeps the graph bound and the late nodes fitting.
LEMMA NextGraph ==
  ASSUME Inv, IdleInv, GraphInv, AddedInv, CycleInv, [Next]_vars
  PROVE  (IdleInv /\ GraphInv /\ AddedInv /\ CycleInv)'
<1>0. IdleInv'
  <2>1. CASE Return BY <2>1 DEF Return, IdleInv
  <2>2. CASE phase' # "idle" BY <2>2 DEF IdleInv
  <2>3. CASE phase' = phase /\ added' = added BY <2>3 DEF IdleInv
  <2> QED
    BY <2>1, <2>2, <2>3 DEF Next, vars, Compile, Order, Ordered, Check, Begin, Run, Prepare, Retain, Bind,
       Extend, Report, Finish, Exhausted, Refused, Renew, Refuse, Fail
<1> SUFFICES (GraphInv /\ AddedInv /\ CycleInv)' BY <1>0
<1>1. CASE UNCHANGED vars
  BY <1>1 DEF vars, GraphInv, AddedInv, CycleInv, Nodes, LateFits, Deliveries
<1>2. ASSUME NEW p \in Plans, NEW s \in BOOLEAN, Compile(p, s)
      PROVE  (GraphInv /\ AddedInv /\ CycleInv)'
  BY <1>2, CompileGraph DEF IdleInv
<1>3. ASSUME NEW i \in Nodes, Order(i) PROVE (GraphInv /\ AddedInv /\ CycleInv)'
  BY <1>3, StillGraph DEF Order
<1>4. ASSUME NEW i \in Nodes, Run(i) PROVE (GraphInv /\ AddedInv /\ CycleInv)'
  <2>1. CASE \E reason \in {"owner", "size", "repeat", "unscheduled"} : Fail(reason)
    BY <2>1, <1>4, FailGraph DEF Run
  <2>2. CASE phase = "run" /\ UNCHANGED <<plan, phase, why, late, graph, retained, added>>
    BY <2>2, StillGraph
  <2> QED BY <1>4, <2>1, <2>2 DEF Run, Obstacle
<1>5. CASE Ordered BY <1>5, OrderedGraph
<1>6. CASE Check BY <1>6, CheckGraph
<1>7. CASE Begin BY <1>7, StillGraph, ReturnGraph DEF Begin
<1>8. CASE Prepare \/ Report BY <1>8, StillGraph DEF Prepare, Report
<1>9. ASSUME NEW a \in [template : DOMAIN plan.templates, eligible : BOOLEAN], Retain(a)
      PROVE  (GraphInv /\ AddedInv /\ CycleInv)'
  BY <1>9, RetainGraph
<1>10. ASSUME NEW outputs \in [DOMAIN plan.outputs -> {Boolean(TRUE), Boolean(FALSE), Inactive}],
              Bind(outputs)
       PROVE  (GraphInv /\ AddedInv /\ CycleInv)'
  BY <1>10, BindGraph
<1>11. CASE Extend BY <1>11, StillGraph, FailGraph DEF Extend
<1>12. CASE Finish \/ Exhausted \/ Refused BY <1>12, ReturnGraph DEF Finish, Exhausted, Refused
<1>13. CASE Renew BY <1>13, StillGraph DEF Renew
<1> QED
  BY <1>0, <1>1, <1>2, <1>3, <1>4, <1>5, <1>6, <1>7, <1>8, <1>9, <1>10, <1>11, <1>12, <1>13 DEF Next

\* For all plans, retained applications and outputs: the order refuses a graph as
\* circular only if it reads itself, and what it accepts does not, late deliveries
\* included (topological_order, schedule).
THEOREM CyclesRefused == Spec => []CyclesAreRefused
<1>1. Init => IdleInv BY DEF Init, IdleInv
<1>2. Inv /\ CycleInv => CyclesAreRefused
  BY OrderedIsAcyclic DEF Inv, OrderWhole, CycleInv, CyclesAreRefused
<1>3. Inv /\ IdleInv /\ GraphInv /\ AddedInv /\ CycleInv /\ [Next]_vars
        => (Inv /\ IdleInv /\ GraphInv /\ AddedInv /\ CycleInv)'
  BY NextInv, NextGraph
<1> QED BY <1>1, <1>2, <1>3, InitInv, InitGraph, PTL DEF Spec

-----------------------------------------------------------------------------
(* Binding again.                                                          *)

\* A value that no late node produces keeps its producer.
LEMMA SameProducer ==
  ASSUME NEW nodes, NEW wider, Widens(nodes, wider), NEW key,
         \A i \in DOMAIN wider \ DOMAIN nodes : wider[i].to # Value(key)
  PROVE  Producer(wider, key) = Producer(nodes, key)
<1>1. {i \in DOMAIN wider : wider[i].to = Value(key)} = {i \in DOMAIN nodes : nodes[i].to = Value(key)}
  <2>1. DOMAIN nodes \subseteq DOMAIN wider /\ \A i \in DOMAIN nodes : wider[i] = nodes[i]
    BY DEF Widens
  <2> QED BY <2>1
<1> QED BY <1>1, Zenon DEF Producer

\* A channel that no late node contributes to keeps its parts.
LEMMA SameParts ==
  ASSUME NEW nodes, NEW wider, Widens(nodes, wider), NEW key,
         \A i \in DOMAIN wider \ DOMAIN nodes : wider[i].to # Part(key)
  PROVE  Parts(wider, key) = Parts(nodes, key)
<1>1. PICK N \in Nat : N = Len(nodes) /\ DOMAIN nodes = 1..N BY DEF Widens
<1>2. PICK M \in Nat : M = Len(wider) /\ DOMAIN wider = 1..M BY DEF Widens
<1>3. N <= M /\ nodes \in Seq(Range(nodes)) /\ wider \in Seq(Range(wider))
  BY <1>1, <1>2 DEF Widens
<1>4. PICK short : short = PartsUpTo(nodes, key) OBVIOUS
<1>5. PICK long : long = PartsUpTo(wider, key) OBVIOUS
<1>6. /\ short[0] = <<>>
      /\ \A n \in 1..N : short[n] = IF nodes[n].to = Part(key) THEN Append(short[n - 1], n)
                                                               ELSE short[n - 1]
  <2>1. /\ PartsUpTo(nodes, key)[0] = <<>>
        /\ \A n \in 1..Len(nodes) : PartsUpTo(nodes, key)[n] =
             IF nodes[n].to = Part(key) THEN Append(PartsUpTo(nodes, key)[n - 1], n)
                                       ELSE PartsUpTo(nodes, key)[n - 1]
    BY <1>3, PartsAreCollected, Zenon
  <2> QED BY <2>1, <1>1, <1>4
<1>7. /\ long[0] = <<>>
      /\ \A n \in 1..M : long[n] = IF wider[n].to = Part(key) THEN Append(long[n - 1], n)
                                                              ELSE long[n - 1]
  <2>1. /\ PartsUpTo(wider, key)[0] = <<>>
        /\ \A n \in 1..Len(wider) : PartsUpTo(wider, key)[n] =
             IF wider[n].to = Part(key) THEN Append(PartsUpTo(wider, key)[n - 1], n)
                                       ELSE PartsUpTo(wider, key)[n - 1]
    BY <1>3, PartsAreCollected, Zenon
  <2> QED BY <2>1, <1>2, <1>5
<1> DEFINE Same == {n \in Nat : long[n] = short[n]}
           Stays == {n \in Nat : n < N \/ long[n] = short[N]}
<1>8. 0..N \subseteq Same
  <2>1. 0 \in Same BY <1>6, <1>7
  <2>2. ASSUME NEW n \in 1..N, n - 1 \in Same PROVE n \in Same
    <3>1. n \in 1..M /\ wider[n] = nodes[n] BY <1>1, <1>3 DEF Widens
    <3> QED BY <2>2, <3>1, <1>6, <1>7
  <2> HIDE DEF Same
  <2> QED BY <2>1, <2>2, CountingUp
<1>9. 0..M \subseteq Stays
  <2>1. 0 \in Stays BY <1>8
  <2>2. ASSUME NEW n \in 1..M, n - 1 \in Stays PROVE n \in Stays
    <3>1. CASE n <= N BY <3>1, <1>8
    <3>2. CASE n > N
      <4>1. wider[n].to # Part(key) BY <3>2, <1>1, <1>2
      <4>2. long[n] = long[n - 1] BY <4>1, <1>7
      <4> QED BY <2>2, <3>2, <4>2
    <3> QED BY <3>1, <3>2
  <2> HIDE DEF Stays
  <2> QED BY <2>1, <2>2, CountingUp
<1>10. M \in Stays BY <1>9
<1>11. long[M] = short[N] BY <1>10, <1>3
<1> QED BY <1>1, <1>2, <1>4, <1>5, <1>11, Zenon DEF Parts

\* Late nodes do not select.
LEMMA SameSelector ==
  ASSUME NEW nodes, NEW wider, Widens(nodes, wider), NEW key,
         \A i \in DOMAIN wider \ DOMAIN nodes : wider[i].op # "selection"
  PROVE  Selector(wider, key) = Selector(nodes, key)
<1>1. Selections(wider, key) = Selections(nodes, key)
  BY DEF Widens, Selections
<1> QED BY <1>1, Zenon DEF Selector

\* What the late nodes write was looked at as a potential delivery, or is the
\* applicability of an application.
LEMMA LateWrites ==
  ASSUME NEW node, LateFits(node), NEW key
  PROVE  /\ node.to = Value(key) => key \in PotentialValues \cup Range(ApplicationKeys)
         /\ node.to = Part(key) => key \in PotentialChannels
<1>1. CASE \E d \in Deliveries : node.to = d.to
  <2>1. PICK d \in Deliveries : node.to = d.to BY <1>1
  <2>2. ASSUME node.to = Value(key) PROVE key \in PotentialValues
    <3>1. d.to.is = "value" /\ d.to.key = key BY <2>1, <2>2 DEF Value
    <3> QED BY <3>1 DEF PotentialValues
  <2>3. ASSUME node.to = Part(key) PROVE key \in PotentialChannels
    <3>1. d.to.is = "part" /\ d.to.key = key BY <2>1, <2>3 DEF Part
    <3> QED BY <3>1 DEF PotentialChannels
  <2> QED BY <2>2, <2>3
<1>2. CASE \E a \in Range(ApplicationKeys) : node.to = Value(a)
  <2>1. PICK a \in Range(ApplicationKeys) : node.to = Value(a) BY <1>2
  <2>2. node.to.is = "value" /\ node.to.key = a BY <2>1 DEF Value
  <2>3. node.to = Value(key) => key = a BY <2>2 DEF Value
  <2>4. node.to # Part(key) BY <2>2 DEF Part
  <2> QED BY <2>3, <2>4
<1> QED BY <1>1, <1>2 DEF LateFits

\* A read that the potential deliveries do not touch is bound as it was.
LEMMA SamePlain ==
  ASSUME NEW nodes, NEW wider, Widens(nodes, wider),
         \A i \in DOMAIN wider \ DOMAIN nodes : LateFits(wider[i]),
         NEW q, PlainShape(nodes, q), ~TouchesPlain(q),
         q.is = "value" => q.key \notin Range(ApplicationKeys)
  PROVE  ResolvePlain(wider, q) = ResolvePlain(nodes, q)
<1>1. CASE q.is = "value"
  <2>1. q.key \notin PotentialValues \cup Range(ApplicationKeys) BY <1>1 DEF TouchesPlain
  <2>2. \A i \in DOMAIN wider \ DOMAIN nodes : wider[i].to # Value(q.key) BY <2>1, LateWrites
  <2>3. Producer(wider, q.key) = Producer(nodes, q.key) BY <2>2, SameProducer
  <2> QED BY <1>1, <2>3 DEF ResolvePlain
<1>2. CASE q.is \in {"sum", "exact", "any"}
  <2>1. q.key \notin PotentialChannels BY <1>2 DEF TouchesPlain
  <2>2. \A i \in DOMAIN wider \ DOMAIN nodes : wider[i].to # Part(q.key) BY <2>1, LateWrites
  <2>3. Parts(wider, q.key) = Parts(nodes, q.key) BY <2>2, SameParts
  <2> QED BY <1>2, <2>3 DEF ResolvePlain
<1>3. CASE q.is \in {"present", "picked"}
  <2>1. Selector(wider, q.key) = Selector(nodes, q.key) BY SameSelector DEF LateFits
  <2> QED BY <1>3, <2>1 DEF ResolvePlain
<1>4. CASE q.is = "ready"
  BY <1>4 DEF ResolvePlain
<1> QED BY <1>1, <1>2, <1>3, <1>4 DEF PlainShape

\* So is a read with two sources, or one that requires its source.
LEMMA SameRead ==
  ASSUME NEW nodes, NEW wider, Widens(nodes, wider),
         \A i \in DOMAIN wider \ DOMAIN nodes : LateFits(wider[i]),
         NEW p, ReadShape(nodes, p), ~Touches(p),
         \A q \in PlainReads(p) : q.is = "value" => q.key \notin Range(ApplicationKeys)
  PROVE  Resolve(wider, p) = Resolve(nodes, p)
<1>1. CASE p.is = "select"
  <2>1. /\ p.yes \in PlainReads(p) /\ p.no \in PlainReads(p) BY <1>1 DEF PlainReads
  <2>2. ~TouchesPlain(p.yes) /\ ~TouchesPlain(p.no) BY <1>1 DEF Touches
  <2>3. PlainShape(nodes, p.yes) /\ PlainShape(nodes, p.no) BY <2>1 DEF ReadShape
  <2>4. ResolvePlain(wider, p.yes) = ResolvePlain(nodes, p.yes) BY <2>1, <2>2, <2>3, SamePlain
  <2>5. ResolvePlain(wider, p.no) = ResolvePlain(nodes, p.no) BY <2>1, <2>2, <2>3, SamePlain
  <2>6. {"by", "yes", "no"} \subseteq DOMAIN p BY <1>1 DEF ReadShape
  <2> QED BY <1>1, <2>4, <2>5, <2>6 DEF Resolve
<1>2. CASE p.is = "required"
  <2>1. p.source \in PlainReads(p) BY <1>2 DEF PlainReads
  <2>2. ~TouchesPlain(p.source) BY <1>2 DEF Touches
  <2>3. PlainShape(nodes, p.source) BY <2>1 DEF ReadShape
  <2>4. ResolvePlain(wider, p.source) = ResolvePlain(nodes, p.source) BY <2>1, <2>2, <2>3, SamePlain
  <2>5. "source" \in DOMAIN p BY <1>2 DEF ReadShape
  <2> QED BY <1>2, <2>4, <2>5 DEF Resolve
<1>3. CASE p.is \notin {"select", "required"}
  <2>1. p \in PlainReads(p) BY <1>3 DEF PlainReads
  <2>2. ~TouchesPlain(p) BY <1>3 DEF Touches
  <2>3. PlainShape(nodes, p) BY <2>1 DEF ReadShape
  <2>4. ResolvePlain(wider, p) = ResolvePlain(nodes, p) BY <2>1, <2>2, <2>3, SamePlain
  <2> QED BY <1>3, <2>4 DEF Resolve
<1> QED BY <1>1, <1>2, <1>3

\* A node that the potential deliveries do not touch is bound as it was.
LEMMA SameNode ==
  ASSUME plan \in Plans, NEW wider, Widens(plan.nodes, wider),
         \A i \in DOMAIN wider \ DOMAIN plan.nodes : LateFits(wider[i]),
         NEW i \in DOMAIN plan.nodes,
         \A p \in Range(plan.nodes[i].reads) \cup Range(plan.nodes[i].gates) : ~Touches(p),
         plan.nodes[i].op = "selection" => plan.nodes[i].to.key \notin PotentialChannels
  PROVE  Bound(wider)[i] = Bound(plan.nodes)[i]
<1>1. PICK nodes : nodes = plan.nodes OBVIOUS
<1>2. PICK node : node = nodes[i] OBVIOUS
<1>3. NodeShape(nodes, node) /\ \A q \in OwnReads(node) : q.is = "value" => q.key \notin Range(ApplicationKeys)
  BY <1>1, <1>2, PlansAssumption DEF PlanShape
<1>4. i \in DOMAIN wider /\ wider[i] = node BY <1>1, <1>2 DEF Widens
<1>5. ASSUME NEW p \in Range(node.reads) \cup Range(node.gates)
      PROVE  Resolve(wider, p) = Resolve(nodes, p)
  <2>1. ReadShape(nodes, p) BY <1>3 DEF NodeShape
  <2>2. ~Touches(p) BY <1>1, <1>2
  <2>3. PlainReads(p) \subseteq OwnReads(node) BY Zenon DEF OwnReads
  <2> QED BY <1>1, <1>3, <2>1, <2>2, <2>3, SameRead
<1>6. \A k \in DOMAIN node.reads : Resolve(wider, node.reads[k]) = Resolve(nodes, node.reads[k])
  <2>1. \A k \in DOMAIN node.reads : node.reads[k] \in Range(node.reads) BY DEF Range
  <2> QED BY <1>5, <2>1
<1>7. \A k \in DOMAIN node.gates : Resolve(wider, node.gates[k]) = Resolve(nodes, node.gates[k])
  <2>1. \A k \in DOMAIN node.gates : node.gates[k] \in Range(node.gates) BY DEF Range
  <2> QED BY <1>5, <2>1
<1>8. node.op = "selection" => Parts(wider, node.to.key) = Parts(nodes, node.to.key)
  BY <1>1, <1>2, LateWrites, SameParts
<1> DEFINE R(ns) == [k \in DOMAIN node.reads |-> Resolve(ns, node.reads[k])]
           G(ns) == [k \in DOMAIN node.gates |-> Resolve(ns, node.gates[k])]
           O(ns) == IF node.op = "selection" THEN Parts(ns, node.to.key) ELSE node.of
<1>9. R(wider) = R(nodes) BY <1>6
<1>10. G(wider) = G(nodes) BY <1>7
<1>11. O(wider) = O(nodes) BY <1>8
<1>12. Bound(nodes)[i] = [node EXCEPT !.reads = R(nodes), !.gates = G(nodes), !.of = O(nodes)]
  BY <1>1, <1>2 DEF Bound
<1>13. Bound(wider)[i] = [node EXCEPT !.reads = R(wider), !.gates = G(wider), !.of = O(wider)]
  BY <1>4 DEF Bound
<1> HIDE DEF R, G, O
<1> QED BY <1>1, <1>9, <1>10, <1>11, <1>12, <1>13

-----------------------------------------------------------------------------
(* The prefix.                                                             *)

\* The prefix that was admitted is that of the early stages, reads only there, and
\* no potential delivery touches what it can reach.
AdmittedInv ==
  phase \in {"ready", "run", "retain"} /\ staged /\ ~late =>
    /\ StagesKept
    /\ prefix = EarlyNodes
    /\ \A i \in prefix : ~NodeTouches(plan.nodes[i])

RefusalInv == why = "prefix" => ~ReadsAreReached(plan)

\* If some node of its program reaches each read of the prefix, the late nodes leave
\* the prefix as it was bound.
LEMMA PrefixStays ==
  ASSUME Inv, GraphInv, AddedInv, AdmittedInv, phase = "retain", ReadsAreReached(plan),
         NEW nodes, Widens(plan.nodes, nodes),
         \A j \in DOMAIN nodes \ DOMAIN plan.nodes : LateFits(nodes[j]),
         NEW i \in prefix
  PROVE  Bound(nodes)[i] = graph[i] /\ Dependencies(Bound(nodes)[i]) \subseteq prefix
<1>1. /\ staged /\ ~late /\ StagesKept /\ prefix = EarlyNodes
      /\ \A j \in prefix : ~NodeTouches(plan.nodes[j])
      /\ plan \in Plans /\ graph = Bound(plan.nodes)
  BY DEF Inv, LateSound, AdmittedInv, GraphInv
<1>2. PICK early : early = plan.nodes OBVIOUS
<1>3. DOMAIN graph = DOMAIN early /\ \A j \in DOMAIN early : NodeShape(early, early[j])
  BY <1>1, <1>2, PlanIsWhole, DependenciesAreNodes DEF Whole
<1>4. \A j \in DOMAIN early : graph[j].stage = early[j].stage
  <2>1. ASSUME NEW j \in DOMAIN early PROVE Bound(early)[j]["stage"] = early[j]["stage"]
    BY <1>3, BoundNode, Zenon
  <2> QED BY <1>1, <1>2, <2>1
<1>5. i \in DOMAIN early /\ graph[i].stage <= Preparation
  BY <1>1, <1>3 DEF EarlyNodes, Nodes
<1>6. ASSUME NEW k \in DOMAIN early[i].reads PROVE ~Touches(early[i].reads[k])
  <2>1. PICK j \in DOMAIN early :
          early[j].reads = early[i].reads /\ early[j].stage = early[i].stage /\ k \in Used(early[j])
    BY <1>2, <1>5 DEF ReadsAreReached
  <2>2. j \in prefix BY <1>1, <1>3, <1>4, <1>5, <2>1 DEF EarlyNodes, Nodes
  <2>3. ~NodeTouches(early[j]) BY <1>1, <1>2, <2>2
  <2>4. early[j].op # "selection"
    <3>1. k \in DOMAIN early[j].reads BY <2>1
    <3>2. early[j].reads # <<>> BY <3>1
    <3> QED BY <1>3, <3>2 DEF NodeShape
  <2> QED BY <2>1, <2>3, <2>4 DEF NodeTouches
<1>7. ~NodeTouches(early[i]) BY <1>1, <1>2
<1>8. ASSUME NEW k \in DOMAIN early[i].gates PROVE ~Touches(early[i].gates[k])
  <2>1. early[i].gates # <<>> OBVIOUS
  <2>2. early[i].op # "selection" BY <1>3, <1>5, <2>1 DEF NodeShape
  <2> QED BY <1>7, <2>2 DEF NodeTouches
<1>9. early[i].op = "selection" => early[i].to.key \notin PotentialChannels
  BY <1>7 DEF NodeTouches
<1>10. \A p \in Range(early[i].reads) \cup Range(early[i].gates) : ~Touches(p)
  BY <1>6, <1>8 DEF Range
<1>11. Bound(nodes)[i] = graph[i]
  BY <1>1, <1>2, <1>5, <1>9, <1>10, SameNode
<1>12. Dependencies(graph[i]) \subseteq prefix
  <2>1. ASSUME NEW d \in Dependencies(graph[i]) PROVE d \in prefix
    <3>1. i \in Nodes /\ d \in Nodes BY <1>3, <1>5 DEF GraphInv, Nodes
    <3>2. graph[d].stage <= graph[i].stage BY <1>1, <3>1 DEF StagesKept
    <3>3. graph[d].stage \in Int /\ graph[i].stage \in Int
      BY <1>1, <3>1 DEF Inv, PrefixSound
    <3> QED BY <1>1, <1>5, <3>1, <3>2, <3>3, PlansAssumption DEF EarlyNodes
  <2> QED BY <2>1
<1> QED BY <1>11, <1>12

\* Binding refuses a changed prefix only for a plan with a read no node reaches.
LEMMA BindPrefix ==
  ASSUME Inv, GraphInv, AddedInv, AdmittedInv, RefusalInv,
         NEW outputs \in [DOMAIN plan.outputs -> {Boolean(TRUE), Boolean(FALSE), Inactive}], Bind(outputs)
  PROVE  (AdmittedInv /\ RefusalInv)'
<1>1. CASE Fail("competing")
  BY <1>1 DEF Fail, Refuse, AdmittedInv, RefusalInv
<1>2. CASE Fail("prefix") /\ ~Fail("competing")
  <2>1. PICK made : made = [k \in DOMAIN outputs |-> [plan.outputs[k] EXCEPT !.value = outputs[k]]]
    OBVIOUS
  <2>2. phase = "retain" /\ plan \in Plans BY DEF Bind, GraphInv
  <2>3. PICK nodes : /\ nodes = plan.nodes \o added \o made /\ Widens(plan.nodes, nodes)
                     /\ \A i \in DOMAIN nodes \ DOMAIN plan.nodes : LateFits(nodes[i])
    BY <2>1, <2>2, LateIsWhole
  <2>4. \E i \in prefix : Bound(nodes)[i] # graph[i] \/ ~(Dependencies(Bound(nodes)[i]) \subseteq prefix)
    BY <1>2, <2>1, <2>3 DEF Bind, Fail, Refuse
  <2>5. ~ReadsAreReached(plan) BY <2>2, <2>3, <2>4, PrefixStays
  <2> QED BY <1>2, <2>5 DEF Fail, Refuse, AdmittedInv, RefusalInv
<1>3. CASE phase' = "order" /\ UNCHANGED <<plan, why>>
  BY <1>3 DEF AdmittedInv, RefusalInv
<1> QED BY <1>1, <1>2, <1>3 DEF Bind

\* A returned call leaves no prefix.
LEMMA ReturnPrefix == Return => (AdmittedInv /\ RefusalInv)'
BY DEF Return, AdmittedInv, RefusalInv

\* A refusal for another reason says nothing of the prefix.
LEMMA FailPrefix ==
  ASSUME NEW reason, Fail(reason), reason # "prefix"
  PROVE  (AdmittedInv /\ RefusalInv)'
BY DEF Fail, Refuse, AdmittedInv, RefusalInv

\* What is touched depends on the plan alone.
LEMMA TouchesStay ==
  ASSUME UNCHANGED plan, NEW node
  PROVE  NodeTouches(node)' <=> NodeTouches(node)
<1>1. Deliveries' = Deliveries BY DEF Deliveries
<1>2. PotentialValues' = PotentialValues /\ PotentialChannels' = PotentialChannels
  BY <1>1 DEF PotentialValues, PotentialChannels
<1>3. ASSUME NEW q PROVE TouchesPlain(q)' <=> TouchesPlain(q) BY <1>2 DEF TouchesPlain
<1>4. ASSUME NEW p PROVE Touches(p)' <=> Touches(p)
  <2>1. CASE p.is = "select" BY <1>3, <2>1 DEF Touches
  <2>2. CASE p.is = "required" BY <1>3, <2>2 DEF Touches
  <2>3. CASE p.is \notin {"select", "required"} BY <1>3, <2>3 DEF Touches
  <2> QED BY <2>1, <2>2, <2>3
<1> QED BY <1>2, <1>4 DEF NodeTouches

\* A step that keeps the graph keeps what was admitted.
LEMMA StillPrefix ==
  ASSUME AdmittedInv, RefusalInv,
         UNCHANGED <<plan, staged, why, late, graph, prefix>>,
         \/ phase \in {"ready", "run", "retain"}
         \/ phase' \notin {"ready", "run", "retain"}
         \/ late
         \/ ~staged
         \/ phase' = phase
  PROVE  (AdmittedInv /\ RefusalInv)'
<1>1. RefusalInv' BY DEF RefusalInv
<1>2. AdmittedInv'
  <2>1. ASSUME (phase \in {"ready", "run", "retain"} /\ staged /\ ~late)' PROVE AdmittedInv'
    <3>1. phase \in {"ready", "run", "retain"} /\ staged /\ ~late BY <2>1
    <3>2. StagesKept /\ prefix = EarlyNodes /\ \A i \in prefix : ~NodeTouches(plan.nodes[i])
      BY <3>1 DEF AdmittedInv
    <3>3. StagesKept' /\ prefix' = EarlyNodes'
      BY <3>2 DEF StagesKept, EarlyNodes, Nodes
    <3>4. ASSUME NEW i \in prefix' PROVE ~NodeTouches(plan.nodes[i])'
      <4>1. PICK node : node = plan.nodes[i] OBVIOUS
      <4>2. ~NodeTouches(node) BY <3>2, <4>1
      <4>3. ~NodeTouches(node)' BY <4>2, TouchesStay
      <4>4. node = plan'.nodes[i] BY <4>1
      <4> QED BY <4>3, <4>4 DEF NodeTouches
    <3> QED BY <3>3, <3>4 DEF AdmittedInv
  <2> QED BY <2>1 DEF AdmittedInv
<1> QED BY <1>1, <1>2

\* Every step keeps what was admitted of the prefix.
LEMMA NextPrefix ==
  ASSUME Inv, GraphInv, AddedInv, CycleInv, AdmittedInv, RefusalInv, [Next]_vars
  PROVE  (AdmittedInv /\ RefusalInv)'
<1>1. CASE UNCHANGED vars
  BY <1>1, StillPrefix DEF vars
<1>2. ASSUME NEW p \in Plans, NEW s \in BOOLEAN, Compile(p, s)
      PROVE  (AdmittedInv /\ RefusalInv)'
  BY <1>2 DEF Compile, AdmittedInv, RefusalInv, CycleInv
<1>3. ASSUME NEW i \in Nodes, Order(i) PROVE (AdmittedInv /\ RefusalInv)'
  BY <1>3, StillPrefix DEF Order
<1>4. ASSUME NEW i \in Nodes, Run(i) PROVE (AdmittedInv /\ RefusalInv)'
  <2>1. CASE \E reason \in {"owner", "size", "repeat", "unscheduled"} : Fail(reason)
    BY <2>1, <1>4, FailPrefix
  <2>2. CASE phase = "run" /\ UNCHANGED <<plan, staged, phase, why, late, graph, prefix>>
    BY <2>2, StillPrefix
  <2> QED BY <1>4, <2>1, <2>2 DEF Run, Obstacle
<1>5. CASE Ordered
  <2>1. CASE phase' = "refused" /\ why' = "cycle" BY <2>1 DEF AdmittedInv, RefusalInv
  <2>2. CASE phase' = (IF late THEN "extend" ELSE IF staged THEN "check" ELSE "ready")
             /\ UNCHANGED why
    BY <2>2, <1>5, StillPrefix DEF Ordered
  <2> QED BY <1>5, <2>1, <2>2 DEF Ordered, Refuse
<1>6. CASE Check
  <2>1. CASE Refuse("stages") \/ Refuse("potential")
    BY <2>1 DEF Refuse, AdmittedInv, RefusalInv
  <2>2. CASE /\ StagesKept /\ ~(\E i \in EarlyNodes : NodeTouches(plan.nodes[i]))
             /\ phase' = "ready" /\ UNCHANGED why
    <3>1. AdmittedInv'
      <4>1. UNCHANGED <<plan, staged, late, graph>> /\ prefix' = EarlyNodes BY <1>6 DEF Check
      <4>2. StagesKept' /\ prefix' = EarlyNodes'
        BY <2>2, <4>1 DEF StagesKept, EarlyNodes, Nodes
      <4>3. ASSUME NEW i \in prefix' PROVE ~NodeTouches(plan.nodes[i])'
        <5>1. PICK node : node = plan.nodes[i] OBVIOUS
        <5>2. ~NodeTouches(node) BY <2>2, <4>1, <5>1
        <5>3. ~NodeTouches(node)' BY <4>1, <5>2, TouchesStay
        <5>4. node = plan'.nodes[i] BY <4>1, <5>1
        <5> QED BY <5>3, <5>4 DEF NodeTouches
      <4> QED BY <4>2, <4>3 DEF AdmittedInv
    <3>2. RefusalInv' BY <2>2, <1>6 DEF Check, RefusalInv
    <3> QED BY <3>1, <3>2
  <2> QED BY <1>6, <2>1, <2>2 DEF Check
<1>7. CASE Begin BY <1>7, StillPrefix, ReturnPrefix DEF Begin
<1>8. CASE Prepare \/ Report BY <1>8, StillPrefix DEF Prepare, Report
<1>9. ASSUME NEW a \in [template : DOMAIN plan.templates, eligible : BOOLEAN], Retain(a)
      PROVE  (AdmittedInv /\ RefusalInv)'
  BY <1>9, FailPrefix, StillPrefix DEF Retain
<1>10. ASSUME NEW outputs \in [DOMAIN plan.outputs -> {Boolean(TRUE), Boolean(FALSE), Inactive}],
              Bind(outputs)
       PROVE  (AdmittedInv /\ RefusalInv)'
  BY <1>10, BindPrefix
<1>11. CASE Extend
  <2>1. late BY <1>11 DEF Extend, Inv, LateSound
  <2> QED BY <1>11, <2>1, StillPrefix, FailPrefix DEF Extend
<1>12. CASE Finish \/ Exhausted \/ Refused BY <1>12, ReturnPrefix DEF Finish, Exhausted, Refused
<1>13. CASE Renew BY <1>13, StillPrefix DEF Renew
<1> QED
  BY <1>1, <1>2, <1>3, <1>4, <1>5, <1>6, <1>7, <1>8, <1>9, <1>10, <1>11, <1>12, <1>13 DEF Next

\* For all plans whose reads are all reached, and any applications retained in the
\* attempt: binding never finds the executed prefix changed, so what validate_prefix
\* admits against potential deliveries schedule never has to refuse.
THEOREM PrefixIsKept == Spec => []PrefixNeverChanges
<1>1. Init => IdleInv /\ AdmittedInv /\ RefusalInv
  BY DEF Init, IdleInv, AdmittedInv, RefusalInv
<1>2. RefusalInv => PrefixNeverChanges BY DEF RefusalInv, PrefixNeverChanges
<1>3. Inv /\ IdleInv /\ GraphInv /\ AddedInv /\ CycleInv /\ AdmittedInv /\ RefusalInv /\ [Next]_vars
        => (Inv /\ IdleInv /\ GraphInv /\ AddedInv /\ CycleInv /\ AdmittedInv /\ RefusalInv)'
  BY NextInv, NextGraph, NextPrefix
<1> QED BY <1>1, <1>2, <1>3, InitInv, InitGraph, PTL DEF Spec

-----------------------------------------------------------------------------
(* The loops of the reductions.                                            *)

\* A value is a number, a failure or nothing.
LEMMA ValueKinds ==
  ASSUME NEW x \in Values
  PROVE  /\ x.v \in Int /\ x # None
         /\ \/ Known(x) /\ ~Failed(x) /\ x # Inactive
            \/ ~Known(x) /\ Failed(x) /\ x # Inactive
            \/ ~Known(x) /\ ~Failed(x) /\ x = Inactive
         /\ Failed(x) => x = Failure(x.v)
BY DEF Values, Known, Failed, Inactive, None, Boolean, Failure

\* What the operations make are values.
LEMMA ValuesMade ==
  /\ \A n \in Int : Bounded(n) \in Values /\ Integer(n) \in Values /\ Failure(n) \in Values
  /\ Boolean(TRUE) \in Values /\ Boolean(FALSE) \in Values /\ Inactive \in Values
  /\ {MissingInput, MissingProducer, IncompleteContributors, UpstreamUnavailable,
      ConflictingContributors, AbsentSelection, UnsupportedDomain, IntegerOverflow} \subseteq Values
BY DEF Bounded, Integer, Failure, Values, MissingInput, MissingProducer, IncompleteContributors,
       UpstreamUnavailable, ConflictingContributors, AbsentSelection, UnsupportedDomain, IntegerOverflow

\* A bounded number is that number or the overflow.
LEMMA BoundedKinds ==
  ASSUME NEW n \in Int
  PROVE  \/ Known(Bounded(n)) /\ Bounded(n) = Integer(n)
         \/ ~Known(Bounded(n)) /\ Failed(Bounded(n)) /\ Bounded(n) = IntegerOverflow
BY DEF Bounded, Known, Failed, Integer, IntegerOverflow, Failure

\* A set of numbers has its least.
LEMMA LeastNumber ==
  ASSUME NEW S, S \subseteq Nat, S # {}
  PROVE  Min(S) \in S /\ \A n \in S : Min(S) <= n
<1>2. IsWellFoundedOn(NaturalsLess, Nat)
  BY NatLessThanWellFounded, Zenon DEF NaturalsLess, OpToRel
<1>3. PICK m \in S : \A l \in S : ~(<<l, m>> \in NaturalsLess)
  BY <1>2, WFMin
<1>4. \A l \in S : m <= l
  <2> SUFFICES ASSUME NEW l \in S PROVE m <= l OBVIOUS
  <2>1. l \in Nat /\ m \in Nat /\ ~(<<l, m>> \in NaturalsLess) BY <1>3
  <2>2. ~(l < m) BY <2>1 DEF NaturalsLess
  <2> QED BY <2>1, <2>2
<1> QED BY <1>4 DEF Min

\* The least number of a set is the one below the others.
LEMMA LeastIs ==
  ASSUME NEW S, S \subseteq Nat, NEW m \in S, \A n \in S : m <= n
  PROVE  Min(S) = m
<1>1. Min(S) \in S /\ \A n \in S : Min(S) <= n BY LeastNumber
<1>2. Min(S) <= m /\ m <= Min(S) /\ Min(S) \in Nat /\ m \in Nat BY <1>1
<1> QED BY <1>2

\* The totals are sums.
LEMMA TotalsAreSums ==
  ASSUME NEW xs \in Seq(Values)
  PROVE  /\ Totals(xs)[0] = 0
         /\ \A n \in 1..Len(xs) : Totals(xs)[n] = Totals(xs)[n - 1] + IF Known(xs[n]) THEN xs[n].v ELSE 0
         /\ \A n \in 0..Len(xs) : Totals(xs)[n] \in Int
<1>1. PICK N \in Nat : N = Len(xs) OBVIOUS
<1> DEFINE Next1(n, t) == t + IF Known(xs[n]) THEN xs[n].v ELSE 0
<1>2. PICK X : X = Int OBVIOUS
<1>3. \A n \in 1..N, t \in X : Next1(n, t) \in X
  <2>1. \A n \in 1..N : xs[n].v \in Int BY <1>1, ValueKinds
  <2> QED BY <1>2, <2>1
<1> HIDE DEF Next1
<1>4. PICK step \in [(1..N) \X X -> X] : \A n \in 1..N, t \in X : step[<<n, t>>] = Next1(n, t)
  <2>1. [nt \in (1..N) \X X |-> Next1(nt[1], nt[2])] \in [(1..N) \X X -> X] BY <1>3
  <2> QED BY <2>1
<1>5. PICK f : /\ f \in [0..N -> X]
               /\ \A n \in 0..N : f[n] = IF n = 0 THEN 0 ELSE step[<<n, f[n - 1]>>]
  <2>1. PICK first \in X : first = 0 BY <1>2
  <2>2. \E f : Iterates(f, N, X, first, step) BY <1>1, <1>4, <2>1, Iteration
  <2> QED BY <2>1, <2>2 DEF Iterates
<1>6. f = [n \in 0..N |-> IF n = 0 THEN 0 ELSE Next1(n, f[n - 1])]
  <2>1. ASSUME NEW n \in 1..N PROVE step[<<n, f[n - 1]>>] = Next1(n, f[n - 1])
    <3>1. n - 1 \in 0..N OBVIOUS
    <3>2. f[n - 1] \in X BY <1>5, <3>1
    <3> QED BY <1>4, <3>2
  <2>2. \A n \in 0..N : n # 0 => n \in 1..N OBVIOUS
  <2> QED BY <1>5, <2>1, <2>2
<1>7. Totals(xs) = [n \in 0..N |-> IF n = 0 THEN 0 ELSE Next1(n, Totals(xs)[n - 1])]
  BY <1>1, <1>6, Zenon DEF Totals, Next1
<1>8. Totals(xs)[0] = 0 BY <1>7
<1>9. ASSUME NEW n \in 1..N PROVE Totals(xs)[n] = Next1(n, Totals(xs)[n - 1])
  <2>1. n \in 0..N /\ n # 0 OBVIOUS
  <2> QED BY <2>1, <1>7
<1> DEFINE Typed == {n \in Nat : Totals(xs)[n] \in X}
<1>10. ASSUME NEW n \in 1..N, n - 1 \in Typed PROVE n \in Typed
  BY <1>3, <1>9, <1>10
<1>11. 0..N \subseteq Typed
  <2>1. 0 \in Typed BY <1>2, <1>8
  <2> HIDE DEF Typed
  <2> QED BY <1>10, <2>1, CountingUp
<1> QED BY <1>1, <1>2, <1>8, <1>9, <1>11 DEF Next1

\* The numeric fold, member by member.
LEMMA SumsAreOrdered ==
  ASSUME NEW xs \in Seq(Values)
  PROVE  /\ OrderedSums(xs)[0] = Integer(0)
         /\ \A n \in 1..Len(xs) : OrderedSums(xs)[n] =
              IF Failed(OrderedSums(xs)[n - 1]) \/ xs[n] = Inactive THEN OrderedSums(xs)[n - 1]
              ELSE IF Failed(xs[n]) THEN xs[n] ELSE Bounded(OrderedSums(xs)[n - 1].v + xs[n].v)
         /\ \A n \in 0..Len(xs) : OrderedSums(xs)[n] \in Values
<1>1. PICK N \in Nat : N = Len(xs) OBVIOUS
<1> DEFINE Next1(n, before) ==
             IF Failed(before) \/ xs[n] = Inactive THEN before
             ELSE IF Failed(xs[n]) THEN xs[n] ELSE Bounded(before.v + xs[n].v)
<1>2. PICK X : X = Values OBVIOUS
<1>3. \A n \in 1..N, before \in X : Next1(n, before) \in X
  <2>1. \A n \in 1..N : xs[n] \in Values /\ xs[n].v \in Int BY <1>1, ValueKinds
  <2>2. \A x \in X : x.v \in Int BY <1>2, ValueKinds
  <2> QED BY <1>2, <2>1, <2>2, ValuesMade
<1>a. PICK first \in X : first = Integer(0)
  <2>1. Integer(0) \in X BY <1>2, ValuesMade
  <2> QED BY <2>1
<1> HIDE DEF Next1
<1>4. PICK step \in [(1..N) \X X -> X] :
        \A n \in 1..N, before \in X : step[<<n, before>>] = Next1(n, before)
  <2>1. [nb \in (1..N) \X X |-> Next1(nb[1], nb[2])] \in [(1..N) \X X -> X] BY <1>3
  <2> QED BY <2>1
<1>5. PICK f : /\ f \in [0..N -> X]
               /\ \A n \in 0..N : f[n] = IF n = 0 THEN first ELSE step[<<n, f[n - 1]>>]
  <2>1. \E f : Iterates(f, N, X, first, step) BY <1>1, <1>4, <1>a, Iteration
  <2> QED BY <2>1 DEF Iterates
<1>6. f = [n \in 0..N |-> IF n = 0 THEN Integer(0) ELSE Next1(n, f[n - 1])]
  <2>1. ASSUME NEW n \in 1..N PROVE step[<<n, f[n - 1]>>] = Next1(n, f[n - 1])
    <3>1. n - 1 \in 0..N OBVIOUS
    <3>2. f[n - 1] \in X BY <1>5, <3>1
    <3> QED BY <1>4, <3>2
  <2>2. \A n \in 0..N : n # 0 => n \in 1..N OBVIOUS
  <2> QED BY <1>5, <1>a, <2>1, <2>2
<1>7. OrderedSums(xs) = [n \in 0..N |-> IF n = 0 THEN Integer(0) ELSE Next1(n, OrderedSums(xs)[n - 1])]
  BY <1>1, <1>6, Zenon DEF OrderedSums, Next1
<1>8. OrderedSums(xs)[0] = Integer(0) BY <1>7
<1>9. ASSUME NEW n \in 1..N PROVE OrderedSums(xs)[n] = Next1(n, OrderedSums(xs)[n - 1])
  <2>1. n \in 0..N /\ n # 0 OBVIOUS
  <2> QED BY <2>1, <1>7
<1> DEFINE Typed == {n \in Nat : OrderedSums(xs)[n] \in X}
<1>10. ASSUME NEW n \in 1..N, n - 1 \in Typed PROVE n \in Typed
  BY <1>3, <1>9, <1>10
<1>11. 0..N \subseteq Typed
  <2>1. 0 \in Typed BY <1>a, <1>8
  <2> HIDE DEF Typed
  <2> QED BY <1>10, <2>1, CountingUp
<1>12. \A n \in 1..Len(xs) : OrderedSums(xs)[n] =
         IF Failed(OrderedSums(xs)[n - 1]) \/ xs[n] = Inactive THEN OrderedSums(xs)[n - 1]
         ELSE IF Failed(xs[n]) THEN xs[n] ELSE Bounded(OrderedSums(xs)[n - 1].v + xs[n].v)
  BY <1>1, <1>9 DEF Next1
<1> QED BY <1>1, <1>2, <1>8, <1>11, <1>12

\* The maximum of the applications, member by member.
LEMMA MaximaAreKept ==
  ASSUME NEW xs \in Seq(Values)
  PROVE  /\ Maxima(xs)[0] = Inactive
         /\ \A n \in 1..Len(xs) : Maxima(xs)[n] =
              IF Failed(Maxima(xs)[n - 1]) \/ xs[n] = Inactive THEN Maxima(xs)[n - 1]
              ELSE IF Failed(xs[n]) \/ Maxima(xs)[n - 1] = Inactive \/ xs[n].v > Maxima(xs)[n - 1].v THEN xs[n] ELSE Maxima(xs)[n - 1]
         /\ \A n \in 0..Len(xs) : Maxima(xs)[n] \in Values
<1>1. PICK N \in Nat : N = Len(xs) OBVIOUS
<1> DEFINE Next1(n, before) ==
             IF Failed(before) \/ xs[n] = Inactive THEN before
             ELSE IF Failed(xs[n]) \/ before = Inactive \/ xs[n].v > before.v THEN xs[n] ELSE before
<1>2. PICK X : X = Values OBVIOUS
<1>3. \A n \in 1..N, before \in X : Next1(n, before) \in X
  <2>1. \A n \in 1..N : xs[n] \in Values BY <1>1
  <2> QED BY <1>2, <2>1
<1>a. PICK first \in X : first = Inactive
  <2>1. Inactive \in X BY <1>2, ValuesMade
  <2> QED BY <2>1
<1> HIDE DEF Next1
<1>4. PICK step \in [(1..N) \X X -> X] :
        \A n \in 1..N, before \in X : step[<<n, before>>] = Next1(n, before)
  <2>1. [nb \in (1..N) \X X |-> Next1(nb[1], nb[2])] \in [(1..N) \X X -> X] BY <1>3
  <2> QED BY <2>1
<1>5. PICK f : /\ f \in [0..N -> X]
               /\ \A n \in 0..N : f[n] = IF n = 0 THEN first ELSE step[<<n, f[n - 1]>>]
  <2>1. \E f : Iterates(f, N, X, first, step) BY <1>1, <1>4, <1>a, Iteration
  <2> QED BY <2>1 DEF Iterates
<1>6. f = [n \in 0..N |-> IF n = 0 THEN Inactive ELSE Next1(n, f[n - 1])]
  <2>1. ASSUME NEW n \in 1..N PROVE step[<<n, f[n - 1]>>] = Next1(n, f[n - 1])
    <3>1. n - 1 \in 0..N OBVIOUS
    <3>2. f[n - 1] \in X BY <1>5, <3>1
    <3> QED BY <1>4, <3>2
  <2>2. \A n \in 0..N : n # 0 => n \in 1..N OBVIOUS
  <2> QED BY <1>5, <1>a, <2>1, <2>2
<1>7. Maxima(xs) = [n \in 0..N |-> IF n = 0 THEN Inactive ELSE Next1(n, Maxima(xs)[n - 1])]
  BY <1>1, <1>6, Zenon DEF Maxima, Next1
<1>8. Maxima(xs)[0] = Inactive BY <1>7
<1>9. ASSUME NEW n \in 1..N PROVE Maxima(xs)[n] = Next1(n, Maxima(xs)[n - 1])
  <2>1. n \in 0..N /\ n # 0 OBVIOUS
  <2> QED BY <2>1, <1>7
<1> DEFINE Typed == {n \in Nat : Maxima(xs)[n] \in X}
<1>10. ASSUME NEW n \in 1..N, n - 1 \in Typed PROVE n \in Typed
  BY <1>3, <1>9, <1>10
<1>11. 0..N \subseteq Typed
  <2>1. 0 \in Typed BY <1>a, <1>8
  <2> HIDE DEF Typed
  <2> QED BY <1>10, <2>1, CountingUp
<1>12. \A n \in 1..Len(xs) : Maxima(xs)[n] =
         IF Failed(Maxima(xs)[n - 1]) \/ xs[n] = Inactive THEN Maxima(xs)[n - 1]
         ELSE IF Failed(xs[n]) \/ Maxima(xs)[n - 1] = Inactive \/ xs[n].v > Maxima(xs)[n - 1].v THEN xs[n] ELSE Maxima(xs)[n - 1]
  BY <1>1, <1>9 DEF Next1
<1> QED BY <1>1, <1>2, <1>8, <1>11, <1>12

\* The unordered reductions, member by member.
LEMMA FailuresAreGathered ==
  ASSUME NEW xs \in Seq(Values), NEW kind
  PROVE  /\ Gathered(kind, xs)[0] = [total |-> 0, worst |-> None]
         /\ \A n \in 1..Len(xs) : Gathered(kind, xs)[n] =
              CASE Known(xs[n]) ->
                     [Gathered(kind, xs)[n - 1] EXCEPT !.total = IF kind = "exact" THEN @ + xs[n].v ELSE IF xs[n].v = 1 THEN 1 ELSE @]
                [] Failed(xs[n]) -> [Gathered(kind, xs)[n - 1] EXCEPT !.worst = Earlier(xs[n], @)]
                [] OTHER -> Gathered(kind, xs)[n - 1]
         /\ \A n \in 0..Len(xs) : Gathered(kind, xs)[n] \in [total : Int, worst : Values \cup {None}]
<1>1. PICK N \in Nat : N = Len(xs) OBVIOUS
<1> DEFINE Next1(n, before) ==
             CASE Known(xs[n]) ->
                    [before EXCEPT !.total = IF kind = "exact" THEN @ + xs[n].v ELSE IF xs[n].v = 1 THEN 1 ELSE @]
               [] Failed(xs[n]) -> [before EXCEPT !.worst = Earlier(xs[n], @)]
               [] OTHER -> before
<1>2. PICK X : X = [total : Int, worst : Values \cup {None}] OBVIOUS
<1>3. \A n \in 1..N, before \in X : Next1(n, before) \in X
  <2>1. \A n \in 1..N : xs[n] \in Values /\ xs[n].v \in Int BY <1>1, ValueKinds
  <2> QED BY <1>2, <2>1 DEF Earlier
<1>a. PICK first \in X : first = [total |-> 0, worst |-> None]
  <2>1. [total |-> 0, worst |-> None] \in X BY <1>2
  <2> QED BY <2>1
<1> HIDE DEF Next1
<1>4. PICK step \in [(1..N) \X X -> X] :
        \A n \in 1..N, before \in X : step[<<n, before>>] = Next1(n, before)
  <2>1. [nb \in (1..N) \X X |-> Next1(nb[1], nb[2])] \in [(1..N) \X X -> X] BY <1>3
  <2> QED BY <2>1
<1>5. PICK f : /\ f \in [0..N -> X]
               /\ \A n \in 0..N : f[n] = IF n = 0 THEN first ELSE step[<<n, f[n - 1]>>]
  <2>1. \E f : Iterates(f, N, X, first, step) BY <1>1, <1>4, <1>a, Iteration
  <2> QED BY <2>1 DEF Iterates
<1>6. f = [n \in 0..N |-> IF n = 0 THEN [total |-> 0, worst |-> None] ELSE Next1(n, f[n - 1])]
  <2>1. ASSUME NEW n \in 1..N PROVE step[<<n, f[n - 1]>>] = Next1(n, f[n - 1])
    <3>1. n - 1 \in 0..N OBVIOUS
    <3>2. f[n - 1] \in X BY <1>5, <3>1
    <3> QED BY <1>4, <3>2
  <2>2. \A n \in 0..N : n # 0 => n \in 1..N OBVIOUS
  <2> QED BY <1>5, <1>a, <2>1, <2>2
<1>7. Gathered(kind, xs) = [n \in 0..N |-> IF n = 0 THEN [total |-> 0, worst |-> None] ELSE Next1(n, Gathered(kind, xs)[n - 1])]
  BY <1>1, <1>6, Zenon DEF Gathered, Next1
<1>8. Gathered(kind, xs)[0] = [total |-> 0, worst |-> None] BY <1>7
<1>9. ASSUME NEW n \in 1..N PROVE Gathered(kind, xs)[n] = Next1(n, Gathered(kind, xs)[n - 1])
  <2>1. n \in 0..N /\ n # 0 OBVIOUS
  <2> QED BY <2>1, <1>7
<1> DEFINE Typed == {n \in Nat : Gathered(kind, xs)[n] \in X}
<1>10. ASSUME NEW n \in 1..N, n - 1 \in Typed PROVE n \in Typed
  BY <1>3, <1>9, <1>10
<1>11. 0..N \subseteq Typed
  <2>1. 0 \in Typed BY <1>a, <1>8
  <2> HIDE DEF Typed
  <2> QED BY <1>10, <2>1, CountingUp
<1>12. \A n \in 1..Len(xs) : Gathered(kind, xs)[n] =
         CASE Known(xs[n]) ->
                [Gathered(kind, xs)[n - 1] EXCEPT !.total = IF kind = "exact" THEN @ + xs[n].v ELSE IF xs[n].v = 1 THEN 1 ELSE @]
           [] Failed(xs[n]) -> [Gathered(kind, xs)[n - 1] EXCEPT !.worst = Earlier(xs[n], @)]
           [] OTHER -> Gathered(kind, xs)[n - 1]
  BY <1>1, <1>9 DEF Next1
<1> QED BY <1>1, <1>2, <1>8, <1>11, <1>12

\* The candidates of a selection, one by one.
LEMMA CandidatesAreCompared ==
  ASSUME NEW xs \in Seq(Values)
  PROVE  /\ Candidates(xs)[0] = [picked |-> Inactive, worst |-> None]
         /\ \A n \in 1..Len(xs) : Candidates(xs)[n] =
              CASE xs[n] = Inactive -> Candidates(xs)[n - 1]
                [] Known(xs[n]) /\ Candidates(xs)[n - 1].picked \in {Inactive, xs[n]} ->
                     [Candidates(xs)[n - 1] EXCEPT !.picked = xs[n]]
                [] OTHER -> [Candidates(xs)[n - 1] EXCEPT !.worst =
                     Earlier(IF Known(xs[n]) THEN ConflictingContributors ELSE xs[n], @)]
         /\ \A n \in 0..Len(xs) : Candidates(xs)[n] \in [picked : Values, worst : Values \cup {None}]
<1>1. PICK N \in Nat : N = Len(xs) OBVIOUS
<1> DEFINE Next1(n, before) ==
             CASE xs[n] = Inactive -> before
               [] Known(xs[n]) /\ before.picked \in {Inactive, xs[n]} ->
                    [before EXCEPT !.picked = xs[n]]
               [] OTHER -> [before EXCEPT !.worst =
                    Earlier(IF Known(xs[n]) THEN ConflictingContributors ELSE xs[n], @)]
<1>2. PICK X : X = [picked : Values, worst : Values \cup {None}] OBVIOUS
<1>3. \A n \in 1..N, before \in X : Next1(n, before) \in X
  <2>1. \A n \in 1..N : xs[n] \in Values BY <1>1
  <2> QED BY <1>2, <2>1, ValuesMade DEF Earlier
<1>a. PICK first \in X : first = [picked |-> Inactive, worst |-> None]
  <2>1. [picked |-> Inactive, worst |-> None] \in X BY <1>2, ValuesMade
  <2> QED BY <2>1
<1> HIDE DEF Next1
<1>4. PICK step \in [(1..N) \X X -> X] :
        \A n \in 1..N, before \in X : step[<<n, before>>] = Next1(n, before)
  <2>1. [nb \in (1..N) \X X |-> Next1(nb[1], nb[2])] \in [(1..N) \X X -> X] BY <1>3
  <2> QED BY <2>1
<1>5. PICK f : /\ f \in [0..N -> X]
               /\ \A n \in 0..N : f[n] = IF n = 0 THEN first ELSE step[<<n, f[n - 1]>>]
  <2>1. \E f : Iterates(f, N, X, first, step) BY <1>1, <1>4, <1>a, Iteration
  <2> QED BY <2>1 DEF Iterates
<1>6. f = [n \in 0..N |-> IF n = 0 THEN [picked |-> Inactive, worst |-> None] ELSE Next1(n, f[n - 1])]
  <2>1. ASSUME NEW n \in 1..N PROVE step[<<n, f[n - 1]>>] = Next1(n, f[n - 1])
    <3>1. n - 1 \in 0..N OBVIOUS
    <3>2. f[n - 1] \in X BY <1>5, <3>1
    <3> QED BY <1>4, <3>2
  <2>2. \A n \in 0..N : n # 0 => n \in 1..N OBVIOUS
  <2> QED BY <1>5, <1>a, <2>1, <2>2
<1>7. Candidates(xs) = [n \in 0..N |-> IF n = 0 THEN [picked |-> Inactive, worst |-> None] ELSE Next1(n, Candidates(xs)[n - 1])]
  BY <1>1, <1>6, Zenon DEF Candidates, Next1
<1>8. Candidates(xs)[0] = [picked |-> Inactive, worst |-> None] BY <1>7
<1>9. ASSUME NEW n \in 1..N PROVE Candidates(xs)[n] = Next1(n, Candidates(xs)[n - 1])
  <2>1. n \in 0..N /\ n # 0 OBVIOUS
  <2> QED BY <2>1, <1>7
<1> DEFINE Typed == {n \in Nat : Candidates(xs)[n] \in X}
<1>10. ASSUME NEW n \in 1..N, n - 1 \in Typed PROVE n \in Typed
  BY <1>3, <1>9, <1>10
<1>11. 0..N \subseteq Typed
  <2>1. 0 \in Typed BY <1>a, <1>8
  <2> HIDE DEF Typed
  <2> QED BY <1>10, <2>1, CountingUp
<1>12. \A n \in 1..Len(xs) : Candidates(xs)[n] =
         CASE xs[n] = Inactive -> Candidates(xs)[n - 1]
           [] Known(xs[n]) /\ Candidates(xs)[n - 1].picked \in {Inactive, xs[n]} ->
                [Candidates(xs)[n - 1] EXCEPT !.picked = xs[n]]
           [] OTHER -> [Candidates(xs)[n - 1] EXCEPT !.worst =
                Earlier(IF Known(xs[n]) THEN ConflictingContributors ELSE xs[n], @)]
  BY <1>1, <1>9 DEF Next1
<1> QED BY <1>1, <1>2, <1>8, <1>11, <1>12

\* The gates of a node, one by one.
LEMMA GatesAreConjoined ==
  ASSUME NEW xs \in Seq(Values)
  PROVE  /\ GateResults(xs)[0] = None
         /\ \A n \in 1..Len(xs) : GateResults(xs)[n] =
              CASE GateResults(xs)[n - 1] = Inactive -> GateResults(xs)[n - 1]
                [] xs[n] \in {Inactive, Boolean(FALSE)} -> Inactive
                [] Failed(xs[n]) /\ GateResults(xs)[n - 1] = None -> xs[n]
                [] OTHER -> GateResults(xs)[n - 1]
         /\ \A n \in 0..Len(xs) : GateResults(xs)[n] \in Values \cup {None}
<1>1. PICK N \in Nat : N = Len(xs) OBVIOUS
<1> DEFINE Next1(n, before) ==
             CASE before = Inactive -> before
               [] xs[n] \in {Inactive, Boolean(FALSE)} -> Inactive
               [] Failed(xs[n]) /\ before = None -> xs[n]
               [] OTHER -> before
<1>2. PICK X : X = Values \cup {None} OBVIOUS
<1>3. \A n \in 1..N, before \in X : Next1(n, before) \in X
  <2>1. \A n \in 1..N : xs[n] \in Values BY <1>1
  <2> QED BY <1>2, <2>1, ValuesMade
<1>a. PICK first \in X : first = None
  <2>1. None \in X BY <1>2
  <2> QED BY <2>1
<1> HIDE DEF Next1
<1>4. PICK step \in [(1..N) \X X -> X] :
        \A n \in 1..N, before \in X : step[<<n, before>>] = Next1(n, before)
  <2>1. [nb \in (1..N) \X X |-> Next1(nb[1], nb[2])] \in [(1..N) \X X -> X] BY <1>3
  <2> QED BY <2>1
<1>5. PICK f : /\ f \in [0..N -> X]
               /\ \A n \in 0..N : f[n] = IF n = 0 THEN first ELSE step[<<n, f[n - 1]>>]
  <2>1. \E f : Iterates(f, N, X, first, step) BY <1>1, <1>4, <1>a, Iteration
  <2> QED BY <2>1 DEF Iterates
<1>6. f = [n \in 0..N |-> IF n = 0 THEN None ELSE Next1(n, f[n - 1])]
  <2>1. ASSUME NEW n \in 1..N PROVE step[<<n, f[n - 1]>>] = Next1(n, f[n - 1])
    <3>1. n - 1 \in 0..N OBVIOUS
    <3>2. f[n - 1] \in X BY <1>5, <3>1
    <3> QED BY <1>4, <3>2
  <2>2. \A n \in 0..N : n # 0 => n \in 1..N OBVIOUS
  <2> QED BY <1>5, <1>a, <2>1, <2>2
<1>7. GateResults(xs) = [n \in 0..N |-> IF n = 0 THEN None ELSE Next1(n, GateResults(xs)[n - 1])]
  BY <1>1, <1>6, Zenon DEF GateResults, Next1
<1>8. GateResults(xs)[0] = None BY <1>7
<1>9. ASSUME NEW n \in 1..N PROVE GateResults(xs)[n] = Next1(n, GateResults(xs)[n - 1])
  <2>1. n \in 0..N /\ n # 0 OBVIOUS
  <2> QED BY <2>1, <1>7
<1> DEFINE Typed == {n \in Nat : GateResults(xs)[n] \in X}
<1>10. ASSUME NEW n \in 1..N, n - 1 \in Typed PROVE n \in Typed
  BY <1>3, <1>9, <1>10
<1>11. 0..N \subseteq Typed
  <2>1. 0 \in Typed BY <1>a, <1>8
  <2> HIDE DEF Typed
  <2> QED BY <1>10, <2>1, CountingUp
<1>12. \A n \in 1..Len(xs) : GateResults(xs)[n] =
         CASE GateResults(xs)[n - 1] = Inactive -> GateResults(xs)[n - 1]
           [] xs[n] \in {Inactive, Boolean(FALSE)} -> Inactive
           [] Failed(xs[n]) /\ GateResults(xs)[n - 1] = None -> xs[n]
           [] OTHER -> GateResults(xs)[n - 1]
  BY <1>1, <1>9 DEF Next1
<1> QED BY <1>1, <1>2, <1>8, <1>11, <1>12

-----------------------------------------------------------------------------
(* The loops compute what the reductions mean.                             *)

\* The numeric fold stops at the first member that breaks it.
LEMMA SumIsItsMeaning ==
  ASSUME NEW xs \in Seq(Values)
  PROVE  OrderedSum(xs) = SumMeans(xs)
<1>1. PICK N \in Nat : N = Len(xs) /\ DOMAIN xs = 1..N OBVIOUS
<1>2. PICK T : T = Totals(xs) OBVIOUS
<1>3. PICK S : S = OrderedSums(xs) OBVIOUS
<1>4. PICK broken : broken = Failing(xs) \cup {k \in Counted(xs) : ~Known(Bounded(Totals(xs)[k]))}
  OBVIOUS
<1>5. PICK stop : stop = IF Failed(xs[Min(broken)]) THEN xs[Min(broken)] ELSE IntegerOverflow OBVIOUS
<1>6. /\ T[0] = 0 /\ \A n \in 0..N : T[n] \in Int
      /\ \A n \in 1..N : T[n] = T[n - 1] + IF Known(xs[n]) THEN xs[n].v ELSE 0
  BY <1>1, <1>2, TotalsAreSums
<1>7. /\ S[0] = Integer(0)
      /\ \A n \in 1..N : S[n] = IF Failed(S[n - 1]) \/ xs[n] = Inactive THEN S[n - 1]
                                ELSE IF Failed(xs[n]) THEN xs[n] ELSE Bounded(S[n - 1].v + xs[n].v)
  BY <1>1, <1>3, SumsAreOrdered
<1>8. Failed(stop) BY <1>5 DEF Failed, IntegerOverflow, Failure
<1>9. broken \subseteq 1..N /\ broken \subseteq Nat
  <2>1. broken \subseteq 1..N BY <1>1, <1>4 DEF Failing, Counted
  <2> QED BY <2>1
<1>b. \A n \in 1..N : n \in broken <=> Failed(xs[n]) \/ (Known(xs[n]) /\ ~Known(Bounded(T[n])))
  BY <1>1, <1>2, <1>4 DEF Failing, Counted
<1> DEFINE Right == {n \in Nat : IF \E b \in broken : b <= n THEN S[n] = stop ELSE S[n] = Integer(T[n])}
<1>10. ASSUME NEW n \in 1..N, n - 1 \in Right PROVE n \in Right
  <2>1. xs[n] \in Values /\ xs[n].v \in Int BY <1>1, ValueKinds
  <2>2. n - 1 \in 0..N /\ T[n - 1] \in Int /\ T[n] \in Int BY <1>6
  <2>3. CASE \E b \in broken : b <= n - 1
    <3>1. S[n - 1] = stop BY <1>10, <2>3
    <3>2. S[n] = stop BY <1>7, <1>8, <3>1
    <3>3. \E b \in broken : b <= n BY <1>9, <2>3
    <3> QED BY <3>2, <3>3
  <2>4. CASE ~\E b \in broken : b <= n - 1
    <3>1. S[n - 1] = Integer(T[n - 1]) BY <1>10, <2>4
    <3>2. ~Failed(S[n - 1]) /\ S[n - 1].v = T[n - 1] BY <3>1 DEF Failed, Integer
    <3>3. \A b \in broken : n <= b BY <1>9, <2>4
    <3>4. CASE n \in broken
      <4>1. Min(broken) = n BY <1>9, <3>3, <3>4, LeastIs
      <4>2. S[n] = stop
        <5>1. CASE Failed(xs[n])
          <6>1. xs[n] # Inactive BY <5>1 DEF Failed, Inactive
          <6> QED BY <1>5, <1>7, <3>2, <4>1, <5>1, <6>1
        <5>2. CASE ~Failed(xs[n])
          <6>1. Known(xs[n]) /\ ~Known(Bounded(T[n])) /\ xs[n] # Inactive
            BY <1>b, <2>1, <3>4, <5>2, ValueKinds
          <6>2. S[n] = Bounded(T[n]) BY <1>6, <1>7, <3>2, <5>2, <6>1
          <6> QED BY <1>5, <2>2, <4>1, <5>2, <6>1, <6>2, BoundedKinds
        <5> QED BY <5>1, <5>2
      <4> QED BY <3>4, <4>2
    <3>5. CASE n \notin broken
      <4>1. ~\E b \in broken : b <= n
        <5>1. \A b \in broken : b \in Int /\ n <= b /\ b # n BY <1>9, <3>3, <3>5
        <5> QED BY <5>1
      <4>2. S[n] = Integer(T[n])
        <5>1. CASE Known(xs[n])
          <6>1. Known(Bounded(T[n])) /\ ~Failed(xs[n]) /\ xs[n] # Inactive
            BY <1>b, <2>1, <3>5, <5>1, ValueKinds
          <6>2. S[n] = Bounded(T[n]) BY <1>6, <1>7, <3>2, <5>1, <6>1
          <6> QED BY <2>2, <6>1, <6>2, BoundedKinds
        <5>2. CASE ~Known(xs[n])
          <6>1. xs[n] = Inactive BY <1>b, <2>1, <3>5, <5>2, ValueKinds
          <6>2. S[n] = S[n - 1] BY <1>7, <6>1
          <6>3. T[n] = T[n - 1] BY <1>6, <2>2, <5>2
          <6> QED BY <3>1, <6>2, <6>3
        <5> QED BY <5>1, <5>2
      <4> QED BY <4>1, <4>2
    <3> QED BY <3>4, <3>5
  <2> QED BY <2>3, <2>4
<1>11. 0 \in Right
  <2>1. ~\E b \in broken : b <= 0 BY <1>9
  <2> QED BY <1>6, <1>7, <2>1
<1>12. N \in Right
  <2> HIDE DEF Right
  <2>1. 0..N \subseteq Right BY <1>10, <1>11, CountingUp
  <2> QED BY <2>1
<1>13. (\E b \in broken : b <= N) <=> broken # {}
  <2>1. \A b \in broken : b <= N BY <1>9
  <2> QED BY <2>1
<1>14. OrderedSum(xs) = S[N] BY <1>1, <1>3 DEF OrderedSum
<1>15. SumMeans(xs) = IF broken = {} THEN Integer(T[N]) ELSE stop
  BY <1>1, <1>2, <1>4, <1>5, Zenon DEF SumMeans
<1> QED BY <1>12, <1>13, <1>14, <1>15

\* Of the failures, the gathered one is the earliest in the diagnostic order.
LEMMA EarliestIsMildest ==
  ASSUME NEW failures, failures \subseteq Values, \A x \in failures : Failed(x),
         NEW x \in Values, Failed(x), NEW worst \in Values \cup {None},
         worst = IF failures = {} THEN None ELSE Mildest(failures),
         failures # {} => worst \in failures /\ \A y \in failures : worst.v <= y.v
  PROVE  /\ Earlier(x, worst) = Mildest(failures \cup {x})
         /\ Earlier(x, worst) \in failures \cup {x}
         /\ \A y \in failures \cup {x} : Earlier(x, worst).v <= y.v
<1>1. PICK e : e = Earlier(x, worst) OBVIOUS
<1>2. PICK more : more = failures \cup {x} OBVIOUS
<1>3. x.v \in Int /\ \A y \in failures : y.v \in Int BY ValueKinds
<1>4. e \in more /\ \A y \in more : e.v <= y.v
  <2>1. CASE failures = {} BY <1>1, <1>2, <1>3, <2>1 DEF Earlier
  <2>2. CASE failures # {}
    <3>1. worst \in failures /\ worst # None /\ \A y \in failures : worst.v <= y.v
      BY <2>2, ValueKinds
    <3> QED BY <1>1, <1>2, <1>3, <3>1 DEF Earlier
  <2> QED BY <2>1, <2>2
<1>5. \A y \in more : y = Failure(y.v)
  <2>1. \A y \in more : y \in Values /\ Failed(y) BY <1>2
  <2> QED BY <2>1, ValueKinds
<1>6. Mildest(more) = e
  <2>1. PICK m : m = Mildest(more) OBVIOUS
  <2>2. m \in more /\ \A y \in more : m.v <= y.v BY <1>4, <2>1 DEF Mildest
  <2>3. m.v = e.v
    <3>1. m.v <= e.v /\ e.v <= m.v /\ m.v \in Int /\ e.v \in Int BY <1>2, <1>3, <1>4, <2>2
    <3> QED BY <3>1
  <2> QED BY <1>4, <1>5, <2>1, <2>2, <2>3
<1> QED BY <1>1, <1>2, <1>4, <1>6

\* The earliest of the failures met, or none.
IsMildest(worst, failures) ==
  /\ worst = IF failures = {} THEN None ELSE Mildest(failures)
  /\ failures # {} => worst \in failures /\ \A y \in failures : worst.v <= y.v

\* The milder of two failures is the mildest of both.
LEMMA MildestStep ==
  ASSUME NEW failures, failures \subseteq Values, \A x \in failures : Failed(x),
         NEW x \in Values, Failed(x), NEW worst \in Values \cup {None}, IsMildest(worst, failures)
  PROVE  IsMildest(Earlier(x, worst), failures \cup {x})
<1>1. /\ worst = IF failures = {} THEN None ELSE Mildest(failures)
      /\ failures # {} => worst \in failures /\ \A y \in failures : worst.v <= y.v
  BY DEF IsMildest
<1>2. /\ Earlier(x, worst) = Mildest(failures \cup {x})
      /\ Earlier(x, worst) \in failures \cup {x}
      /\ \A y \in failures \cup {x} : Earlier(x, worst).v <= y.v
  BY <1>1, EarliestIsMildest
<1>3. failures \cup {x} # {} OBVIOUS
<1> QED BY <1>2, <1>3 DEF IsMildest

\* The unordered reductions keep the earliest failure.
LEMMA WorstIsMildest ==
  ASSUME NEW xs \in Seq(Values), NEW kind
  PROVE  IsMildest(Gathered(kind, xs)[Len(xs)].worst, {xs[k] : k \in Failing(xs)})
<1>1. PICK N \in Nat : N = Len(xs) /\ DOMAIN xs = 1..N OBVIOUS
<1>2. PICK g : g = Gathered(kind, xs) OBVIOUS
<1>3. /\ g[0] = [total |-> 0, worst |-> None]
      /\ \A n \in 0..N : g[n] \in [total : Int, worst : Values \cup {None}]
      /\ \A n \in 1..N : g[n].worst = IF Failed(xs[n]) THEN Earlier(xs[n], g[n - 1].worst)
                                                       ELSE g[n - 1].worst
  <2>1. /\ g[0] = [total |-> 0, worst |-> None]
        /\ \A n \in 0..N : g[n] \in [total : Int, worst : Values \cup {None}]
    BY <1>1, <1>2, FailuresAreGathered
  <2>2. ASSUME NEW n \in 1..N
        PROVE  g[n].worst = IF Failed(xs[n]) THEN Earlier(xs[n], g[n - 1].worst) ELSE g[n - 1].worst
    <3>1. g[n] = CASE Known(xs[n]) ->
                     [g[n - 1] EXCEPT !.total = IF kind = "exact" THEN @ + xs[n].v ELSE IF xs[n].v = 1 THEN 1 ELSE @]
                [] Failed(xs[n]) -> [g[n - 1] EXCEPT !.worst = Earlier(xs[n], @)]
                [] OTHER -> g[n - 1]
      BY <1>1, <1>2, FailuresAreGathered
    <3>2. n - 1 \in 0..N OBVIOUS
    <3>3. g[n - 1] \in [total : Int, worst : Values \cup {None}] BY <2>1, <3>2
    <3>4. Known(xs[n]) => ~Failed(xs[n]) BY DEF Known, Failed
    <3> QED BY <3>1, <3>3, <3>4
  <2> QED BY <2>1, <2>2
<1> DEFINE Met(n) == {xs[k] : k \in {l \in 1..n : Failed(xs[l])}}
           Right == {n \in Nat : IsMildest(g[n].worst, Met(n))}
<1>4. \A n \in 0..N : Met(n) \subseteq Values /\ \A x \in Met(n) : Failed(x) BY <1>1
<1>5. ASSUME NEW n \in 1..N, n - 1 \in Right PROVE n \in Right
  <2>1. n - 1 \in 0..N /\ IsMildest(g[n - 1].worst, Met(n - 1)) BY <1>5
  <2>2. g[n - 1].worst \in Values \cup {None} BY <1>3, <2>1
  <2>3. CASE Failed(xs[n])
    <3>1. Met(n) = Met(n - 1) \cup {xs[n]}
      <4>1. {l \in 1..n : Failed(xs[l])} = {l \in 1..(n - 1) : Failed(xs[l])} \cup {n} BY <2>3
      <4> QED BY <4>1
    <3>2. xs[n] \in Values BY <1>1
    <3>3. Met(n - 1) \subseteq Values /\ \A x \in Met(n - 1) : Failed(x) BY <1>4, <2>1
    <3> HIDE DEF Met
    <3>4. IsMildest(Earlier(xs[n], g[n - 1].worst), Met(n - 1) \cup {xs[n]})
      BY <2>1, <2>2, <2>3, <3>2, <3>3, MildestStep
    <3>5. g[n].worst = Earlier(xs[n], g[n - 1].worst) BY <1>3, <2>3
    <3>6. IsMildest(g[n].worst, Met(n)) BY <3>1, <3>4, <3>5
    <3> QED BY <3>6
  <2>4. CASE ~Failed(xs[n])
    <3>1. Met(n) = Met(n - 1)
      <4>1. {l \in 1..n : Failed(xs[l])} = {l \in 1..(n - 1) : Failed(xs[l])} BY <2>4
      <4> QED BY <4>1
    <3>2. g[n].worst = g[n - 1].worst BY <1>3, <2>4
    <3> HIDE DEF Met
    <3>3. IsMildest(g[n].worst, Met(n)) BY <2>1, <3>1, <3>2
    <3> QED BY <3>3
  <2> QED BY <2>3, <2>4
<1>6. 0 \in Right
  <2>1. Met(0) = {} OBVIOUS
  <2>2. g[0].worst = None BY <1>3
  <2> HIDE DEF Met
  <2> QED BY <2>1, <2>2 DEF IsMildest
<1>7. N \in Right
  <2> HIDE DEF Right
  <2>1. 0..N \subseteq Right BY <1>5, <1>6, CountingUp
  <2> QED BY <2>1
<1>8. Met(N) = {xs[k] : k \in Failing(xs)} BY <1>1 DEF Failing
<1> HIDE DEF Met
<1> QED BY <1>1, <1>2, <1>7, <1>8

\* The loop of an exact sum computes what the sum means.
LEMMA ExactIsItsMeaning ==
  ASSUME NEW xs \in Seq(Values)
  PROVE  ExactIntegerSum(xs) = ExactMeans(xs)
<1>1. PICK N \in Nat : N = Len(xs) /\ DOMAIN xs = 1..N OBVIOUS
<1>2. PICK g : g = Gathered("exact", xs) OBVIOUS
<1>3. PICK T : T = Totals(xs) OBVIOUS
<1>4. /\ T[0] = 0 /\ \A n \in 0..N : T[n] \in Int
      /\ \A n \in 1..N : T[n] = T[n - 1] + IF Known(xs[n]) THEN xs[n].v ELSE 0
  BY <1>1, <1>3, TotalsAreSums
<1>5. /\ g[0] = [total |-> 0, worst |-> None]
      /\ \A n \in 0..N : g[n] \in [total : Int, worst : Values \cup {None}]
  BY <1>1, <1>2, FailuresAreGathered
<1>6. ASSUME NEW n \in 1..N
      PROVE  g[n].total = IF Known(xs[n]) THEN g[n - 1].total + xs[n].v ELSE g[n - 1].total
  <2>1. g[n] = CASE Known(xs[n]) ->
                     [g[n - 1] EXCEPT !.total = @ + xs[n].v]
                [] Failed(xs[n]) -> [g[n - 1] EXCEPT !.worst = Earlier(xs[n], @)]
                [] OTHER -> g[n - 1]
    BY <1>1, <1>2, FailuresAreGathered
  <2>2. n - 1 \in 0..N OBVIOUS
  <2>3. g[n - 1] \in [total : Int, worst : Values \cup {None}] BY <1>5, <2>2
  <2>4. Known(xs[n]) => ~Failed(xs[n]) BY DEF Known, Failed
  <2>5. CASE Known(xs[n]) BY <2>1, <2>3, <2>4, <2>5
  <2>6. CASE ~Known(xs[n]) BY <2>1, <2>3, <2>6
  <2> QED BY <2>5, <2>6
<1> DEFINE Right == {n \in Nat : g[n].total = T[n]}
<1>7. ASSUME NEW n \in 1..N, n - 1 \in Right PROVE n \in Right
  <2>1. n - 1 \in 0..N OBVIOUS
  <2>2. T[n - 1] \in Int /\ g[n - 1].total = T[n - 1] BY <1>4, <1>7, <2>1
  <2> QED BY <1>4, <1>6, <2>2
<1>8. N \in Right
  <2>1. 0 \in Right BY <1>4, <1>5
  <2> HIDE DEF Right
  <2>2. 0..N \subseteq Right BY <1>7, <2>1, CountingUp
  <2> QED BY <2>2
<1>9. IsMildest(g[N].worst, {xs[k] : k \in Failing(xs)}) BY <1>1, <1>2, WorstIsMildest
<1>10. ExactIntegerSum(xs) = IF g[N].worst = None THEN Bounded(T[N]) ELSE g[N].worst
  BY <1>1, <1>2, <1>8 DEF ExactIntegerSum
<1>11. PICK failures : failures = {xs[k] : k \in Failing(xs)} OBVIOUS
<1>12. failures = {} <=> Failing(xs) = {} BY <1>11
<1>13. failures \subseteq Values BY <1>1, <1>11 DEF Failing
<1>14. /\ failures = {} => g[N].worst = None
       /\ failures # {} => g[N].worst = Mildest(failures) /\ g[N].worst # None
  BY <1>9, <1>11, <1>13, ValueKinds DEF IsMildest
<1>15. ExactMeans(xs) = IF Failing(xs) = {} THEN Bounded(T[N]) ELSE Mildest(failures)
  BY <1>1, <1>3, <1>11, Zenon DEF ExactMeans, MildestFailure
<1> QED BY <1>10, <1>12, <1>14, <1>15

\* The loop of a disjunction computes what it means.
LEMMA AnyIsItsMeaning ==
  ASSUME NEW xs \in Seq(Values)
  PROVE  AnyOf(xs) = AnyMeans(xs)
<1>1. PICK N \in Nat : N = Len(xs) /\ DOMAIN xs = 1..N OBVIOUS
<1>2. PICK g : g = Gathered("any", xs) OBVIOUS
<1>5. /\ g[0] = [total |-> 0, worst |-> None]
      /\ \A n \in 0..N : g[n] \in [total : Int, worst : Values \cup {None}]
  BY <1>1, <1>2, FailuresAreGathered
<1>6. ASSUME NEW n \in 1..N
      PROVE  g[n].total = IF Known(xs[n]) /\ xs[n].v = 1 THEN 1 ELSE g[n - 1].total
  <2>1. g[n] = CASE Known(xs[n]) ->
                     [g[n - 1] EXCEPT !.total = IF xs[n].v = 1 THEN 1 ELSE @]
                [] Failed(xs[n]) -> [g[n - 1] EXCEPT !.worst = Earlier(xs[n], @)]
                [] OTHER -> g[n - 1]
    BY <1>1, <1>2, FailuresAreGathered
  <2>2. n - 1 \in 0..N OBVIOUS
  <2>3. g[n - 1] \in [total : Int, worst : Values \cup {None}] BY <1>5, <2>2
  <2>4. Known(xs[n]) => ~Failed(xs[n]) BY DEF Known, Failed
  <2>5. CASE Known(xs[n]) BY <2>1, <2>3, <2>4, <2>5
  <2>6. CASE ~Known(xs[n]) BY <2>1, <2>3, <2>6
  <2> QED BY <2>5, <2>6
<1> DEFINE Right == {n \in Nat : g[n].total = 1 <=> \E k \in 1..n : Known(xs[k]) /\ xs[k].v = 1}
<1>7. ASSUME NEW n \in 1..N, n - 1 \in Right PROVE n \in Right
  <2>1. g[n - 1].total = 1 <=> \E k \in 1..(n - 1) : Known(xs[k]) /\ xs[k].v = 1 BY <1>7
  <2>2. \A k \in 1..n : k \in 1..(n - 1) \/ k = n OBVIOUS
  <2>3. \A k \in 1..(n - 1) : k \in 1..n OBVIOUS
  <2>4. CASE Known(xs[n]) /\ xs[n].v = 1
    <3>1. n \in 1..n /\ g[n].total = 1 BY <1>6, <2>4
    <3> QED BY <2>4, <3>1
  <2>5. CASE ~(Known(xs[n]) /\ xs[n].v = 1)
    <3>1. g[n].total = g[n - 1].total BY <1>6, <2>5
    <3> QED BY <2>1, <2>2, <2>3, <2>5, <3>1
  <2> QED BY <2>4, <2>5
<1>8. N \in Right
  <2>1. 0 \in Right BY <1>5
  <2> HIDE DEF Right
  <2>2. 0..N \subseteq Right BY <1>7, <2>1, CountingUp
  <2> QED BY <2>2
<1>9. IsMildest(g[N].worst, {xs[k] : k \in Failing(xs)}) BY <1>1, <1>2, WorstIsMildest
<1>b. (g[N].total = 1) <=> (\E k \in Counted(xs) : xs[k].v = 1) BY <1>1, <1>8 DEF Counted
<1>c. PICK r : r = Boolean(\E k \in Counted(xs) : xs[k].v = 1) OBVIOUS
<1>10. AnyOf(xs) = IF g[N].worst = None THEN r ELSE g[N].worst
  <2>1. Boolean(g[N].total = 1) = r BY <1>b, <1>c DEF Boolean
  <2> QED BY <1>1, <1>2, <2>1 DEF AnyOf
<1>11. PICK failures : failures = {xs[k] : k \in Failing(xs)} OBVIOUS
<1>12. failures = {} <=> Failing(xs) = {} BY <1>11
<1>13. failures \subseteq Values BY <1>1, <1>11 DEF Failing
<1>14. /\ failures = {} => g[N].worst = None
       /\ failures # {} => g[N].worst = Mildest(failures) /\ g[N].worst # None
  BY <1>9, <1>11, <1>13, ValueKinds DEF IsMildest
<1>15. AnyMeans(xs) = IF Failing(xs) = {} THEN r ELSE Mildest(failures)
  BY <1>11, <1>c, Zenon DEF AnyMeans, MildestFailure
<1> QED BY <1>10, <1>12, <1>14, <1>15

\* The loop of a numeric selection computes what it means.
LEMMA SelectionIsItsMeaning ==
  ASSUME NEW xs \in Seq(Values)
  PROVE  NumericSelection(xs) = SelectionMeans(xs)
<1>1. PICK N \in Nat : N = Len(xs) /\ DOMAIN xs = 1..N OBVIOUS
<1>2. PICK c : c = Candidates(xs) OBVIOUS
<1>3. /\ c[0] = [picked |-> Inactive, worst |-> None]
      /\ \A n \in 0..N : c[n] \in [picked : Values, worst : Values \cup {None}]
  BY <1>1, <1>2, CandidatesAreCompared
<1>4. ASSUME NEW n \in 1..N
      PROVE  c[n] = CASE xs[n] = Inactive -> c[n - 1]
                      [] Known(xs[n]) /\ c[n - 1].picked \in {Inactive, xs[n]} ->
                           [c[n - 1] EXCEPT !.picked = xs[n]]
                      [] OTHER -> [c[n - 1] EXCEPT !.worst =
                           Earlier(IF Known(xs[n]) THEN ConflictingContributors ELSE xs[n], @)]
  BY <1>1, <1>2, CandidatesAreCompared
<1> DEFINE Met(n) == {xs[k] : k \in {l \in 1..n : Failed(xs[l])}}
           Numbered(n) == {xs[k] : k \in {l \in 1..n : Known(xs[l])}}
           Conflicts(n) == IF \E x, y \in Numbered(n) : x # y THEN {ConflictingContributors} ELSE {}
           Picks(n) == IF Numbered(n) = {} THEN c[n].picked = Inactive ELSE c[n].picked \in Numbered(n)
           Right == {n \in Nat : Picks(n) /\ IsMildest(c[n].worst, Conflicts(n) \cup Met(n))}
<1>5. ASSUME NEW n \in 0..N
      PROVE  /\ Met(n) \subseteq Values /\ \A x \in Met(n) : Failed(x)
             /\ Numbered(n) \subseteq Values /\ \A x \in Numbered(n) : Known(x)
             /\ Conflicts(n) \subseteq Values /\ \A x \in Conflicts(n) : Failed(x)
  BY <1>1, ValuesMade DEF Failed, ConflictingContributors, Failure
<1>6. ASSUME NEW n \in 1..N, n - 1 \in Right PROVE n \in Right
  <2>1. PICK m \in 0..N : m = n - 1 OBVIOUS
  <2>2. Picks(m) /\ IsMildest(c[m].worst, Conflicts(m) \cup Met(m)) BY <1>6, <2>1
  <2>3. c[m].picked \in Values /\ c[m].worst \in Values \cup {None} BY <1>3
  <2>4. xs[n] \in Values BY <1>1
  <2>5. 1..n = (1..m) \cup {n} BY <2>1
  <2>6. CASE xs[n] = Inactive
    <3>1. Met(n) = Met(m) /\ Numbered(n) = Numbered(m) BY <2>4, <2>5, <2>6, ValueKinds
    <3>2. Conflicts(n) = Conflicts(m) BY <3>1
    <3>3. c[n] = c[m]
      <4>1. ~Known(xs[n]) BY <2>6 DEF Known, Inactive
      <4> QED BY <1>4, <2>1, <2>6, <4>1
    <3>4. Picks(n) BY <2>2, <3>1, <3>3
    <3> HIDE DEF Met, Conflicts, Picks
    <3>5. IsMildest(c[n].worst, Conflicts(n) \cup Met(n)) BY <2>2, <3>1, <3>2, <3>3
    <3> QED BY <3>4, <3>5
  <2>7. CASE Failed(xs[n])
    <3>1. Met(n) = Met(m) \cup {xs[n]} /\ Numbered(n) = Numbered(m)
      <4>1. Numbered(n) = Numbered(m) BY <2>4, <2>5, <2>7, ValueKinds
      <4>2. {l \in 1..n : Failed(xs[l])} = {l \in 1..m : Failed(xs[l])} \cup {n} BY <2>5, <2>7
      <4> QED BY <4>1, <4>2
    <3>2. Conflicts(n) = Conflicts(m) BY <3>1
    <3>3. c[n].picked = c[m].picked /\ c[n].worst = Earlier(xs[n], c[m].worst)
      <4>1. ~Known(xs[n]) /\ xs[n] # Inactive BY <2>4, <2>7, ValueKinds
      <4>2. c[n] = [c[m] EXCEPT !.worst = Earlier(xs[n], @)] BY <1>4, <2>1, <4>1
      <4> QED BY <1>3, <4>2
    <3>4. Picks(n) BY <2>2, <3>1, <3>3
    <3>5. PICK blocked : blocked = Conflicts(m) \cup Met(m) OBVIOUS
    <3>6. blocked \subseteq Values /\ \A x \in blocked : Failed(x) BY <1>5, <3>5
    <3> HIDE DEF Met, Conflicts, Picks
    <3>7. IsMildest(Earlier(xs[n], c[m].worst), blocked \cup {xs[n]})
      BY <2>2, <2>3, <2>4, <2>7, <3>5, <3>6, MildestStep
    <3>8. blocked \cup {xs[n]} = Conflicts(n) \cup Met(n) BY <3>1, <3>2, <3>5
    <3>9. IsMildest(c[n].worst, Conflicts(n) \cup Met(n)) BY <3>3, <3>7, <3>8
    <3> QED BY <3>4, <3>9
  <2>8. CASE Known(xs[n])
    <3>1. Met(n) = Met(m) /\ Numbered(n) = Numbered(m) \cup {xs[n]}
      <4>1. Met(n) = Met(m) BY <2>4, <2>5, <2>8, ValueKinds
      <4>2. {l \in 1..n : Known(xs[l])} = {l \in 1..m : Known(xs[l])} \cup {n} BY <2>5, <2>8
      <4> QED BY <4>1, <4>2
    <3>2. xs[n] # Inactive /\ ~Failed(xs[n]) BY <2>4, <2>8, ValueKinds
    <3>3. CASE c[m].picked \in {Inactive, xs[n]}
      <4>1. c[n] = [c[m] EXCEPT !.picked = xs[n]] BY <1>4, <2>1, <2>8, <3>2, <3>3
      <4>2. c[n].picked = xs[n] /\ c[n].worst = c[m].worst BY <1>3, <4>1
      <4>3. Picks(n) BY <3>1, <4>2
      <4>4. Numbered(m) = {} \/ xs[n] \in Numbered(m)
        <5>1. Inactive \notin Numbered(m) BY <1>5 DEF Known, Inactive
        <5> QED BY <2>2, <3>3, <5>1
      <4>5. Conflicts(n) = Conflicts(m) BY <3>1, <4>4
      <4> HIDE DEF Met, Conflicts, Picks
      <4>6. IsMildest(c[n].worst, Conflicts(n) \cup Met(n)) BY <2>2, <3>1, <4>2, <4>5
      <4> QED BY <4>3, <4>6
    <3>4. CASE c[m].picked \notin {Inactive, xs[n]}
      <4>1. c[n] = [c[m] EXCEPT !.worst = Earlier(ConflictingContributors, @)]
        BY <1>4, <2>1, <2>8, <3>2, <3>4
      <4>2. c[n].picked = c[m].picked /\ c[n].worst = Earlier(ConflictingContributors, c[m].worst)
        BY <1>3, <4>1
      <4>3. c[m].picked \in Numbered(m) /\ Numbered(m) # {} BY <2>2, <3>4
      <4>4. Picks(n) BY <3>1, <4>2, <4>3
      <4>5. Conflicts(n) = {ConflictingContributors} BY <3>1, <3>4, <4>3
      <4>6. PICK blocked : blocked = Conflicts(m) \cup Met(m) OBVIOUS
      <4>7. blocked \subseteq Values /\ \A x \in blocked : Failed(x) BY <1>5, <4>6
      <4>8. ConflictingContributors \in Values /\ Failed(ConflictingContributors)
        BY ValuesMade DEF Failed, ConflictingContributors, Failure
      <4>9. Conflicts(m) \subseteq {ConflictingContributors} OBVIOUS
      <4> HIDE DEF Met, Conflicts, Picks
      <4>10. IsMildest(Earlier(ConflictingContributors, c[m].worst), blocked \cup {ConflictingContributors})
        BY <2>2, <2>3, <4>6, <4>7, <4>8, MildestStep
      <4>11. blocked \cup {ConflictingContributors} = Conflicts(n) \cup Met(n)
        BY <3>1, <4>5, <4>6, <4>9
      <4>12. IsMildest(c[n].worst, Conflicts(n) \cup Met(n)) BY <4>2, <4>10, <4>11
      <4> QED BY <4>4, <4>12
    <3> QED BY <3>3, <3>4
  <2> QED BY <2>4, <2>6, <2>7, <2>8, ValueKinds
<1>7. N \in Right
  <2>1. Met(0) = {} /\ Numbered(0) = {} OBVIOUS
  <2>2. Conflicts(0) = {} /\ Picks(0) BY <1>3, <2>1
  <2>3. c[0].worst = None BY <1>3
  <2>4. 0 \in Right
    <3> HIDE DEF Met, Conflicts, Picks
    <3>1. IsMildest(c[0].worst, Conflicts(0) \cup Met(0)) BY <2>1, <2>2, <2>3 DEF IsMildest
    <3> QED BY <2>2, <3>1
  <2> HIDE DEF Right
  <2>5. 0..N \subseteq Right BY <1>6, <2>4, CountingUp
  <2> QED BY <2>5
<1>8. PICK numbers : numbers = {xs[k] : k \in Counted(xs)} OBVIOUS
<1>9. numbers = Numbered(N) BY <1>1, <1>8 DEF Counted
<1>10. PICK blocked : blocked = Conflicts(N) \cup {xs[k] : k \in Failing(xs)} OBVIOUS
<1>11. {xs[k] : k \in Failing(xs)} = Met(N) BY <1>1 DEF Failing
<1>12. SelectionMeans(xs) = IF blocked # {} THEN Mildest(blocked)
                            ELSE IF numbers = {} THEN Inactive ELSE CHOOSE x \in numbers : TRUE
  <2>1. Conflicts(N) = IF \E x, y \in numbers : x # y THEN {ConflictingContributors} ELSE {} BY <1>9
  <2> HIDE DEF Conflicts, Numbered
  <2> QED BY <1>8, <1>10, <2>1, Zenon DEF SelectionMeans
<1>13. IsMildest(c[N].worst, blocked) /\ Picks(N)
  <2>1. IsMildest(c[N].worst, Conflicts(N) \cup Met(N)) /\ Picks(N) BY <1>7
  <2> QED BY <1>10, <1>11, <2>1
<1>14. NumericSelection(xs) = IF c[N].worst = None THEN c[N].picked ELSE c[N].worst
  BY <1>1, <1>2 DEF NumericSelection
<1>15. CASE blocked # {}
  <2>1. blocked \subseteq Values
    <3>1. N \in 0..N OBVIOUS
    <3>2. Conflicts(N) \subseteq Values /\ Met(N) \subseteq Values BY <1>5, <3>1
    <3> HIDE DEF Conflicts, Met
    <3> QED BY <1>10, <1>11, <3>2
  <2>2. c[N].worst = Mildest(blocked) /\ c[N].worst # None
    BY <1>13, <1>15, <2>1, ValueKinds DEF IsMildest
  <2> QED BY <1>12, <1>14, <1>15, <2>2
<1>16. CASE blocked = {}
  <2>1. c[N].worst = None BY <1>13, <1>16 DEF IsMildest
  <2>2. CASE numbers = {} BY <1>9, <1>12, <1>13, <1>14, <1>16, <2>1, <2>2
  <2>3. CASE numbers # {}
    <3>1. c[N].picked \in numbers BY <1>9, <1>13, <2>3
    <3>2. \A x, y \in numbers : x = y BY <1>9, <1>10, <1>16
    <3>3. (CHOOSE x \in numbers : TRUE) \in numbers BY <2>3
    <3>4. (CHOOSE x \in numbers : TRUE) = c[N].picked BY <3>1, <3>2, <3>3
    <3> QED BY <1>12, <1>14, <1>16, <2>1, <2>3, <3>4
  <2> QED BY <2>2, <2>3
<1> QED BY <1>15, <1>16

\* The loop of a maximum computes what it means.
LEMMA MaximumIsItsMeaning ==
  ASSUME NEW xs \in Seq(Values)
  PROVE  ApplicationMaximum(xs) = MaximumMeans(xs)
<1>1. PICK N \in Nat : N = Len(xs) /\ DOMAIN xs = 1..N OBVIOUS
<1>2. PICK m : m = Maxima(xs) OBVIOUS
<1>3. /\ m[0] = Inactive
      /\ \A n \in 1..N : m[n] = IF Failed(m[n - 1]) \/ xs[n] = Inactive THEN m[n - 1]
           ELSE IF Failed(xs[n]) \/ m[n - 1] = Inactive \/ xs[n].v > m[n - 1].v THEN xs[n] ELSE m[n - 1]
  BY <1>1, <1>2, MaximaAreKept
<1>4. PICK failing : failing = Failing(xs) OBVIOUS
<1>5. PICK first : first = FirstFailure(xs) OBVIOUS
<1>6. failing \subseteq 1..N /\ failing \subseteq Nat /\ \A n \in 1..N : n \in failing <=> Failed(xs[n])
  <2>1. failing \subseteq 1..N /\ \A n \in 1..N : n \in failing <=> Failed(xs[n])
    BY <1>1, <1>4 DEF Failing
  <2> QED BY <2>1
<1> DEFINE Numbered(n) == {k \in 1..n : Known(xs[k])}
           Leads(n, j) == /\ m[n] = xs[j]
                          /\ \A l \in Numbered(n) : xs[l].v <= xs[j].v /\ (l < j => xs[l].v < xs[j].v)
           Holds(n) == IF \E k \in failing : k <= n THEN m[n] = first
                       ELSE IF Numbered(n) = {} THEN m[n] = Inactive
                       ELSE \E j \in Numbered(n) : Leads(n, j)
           Right == {n \in Nat : Holds(n)}
<1>7. ASSUME NEW n \in 1..N, n - 1 \in Right PROVE n \in Right
  <2>1. PICK p \in 0..N : p = n - 1 OBVIOUS
  <2>2. Holds(p) BY <1>7, <2>1
  <2>3. xs[n] \in Values /\ xs[n].v \in Int /\ \A k \in 1..n : xs[k] \in Values /\ xs[k].v \in Int
    BY <1>1, ValueKinds
  <2>4. 1..n = (1..p) \cup {n} BY <2>1
  <2>5. m[n] = IF Failed(m[p]) \/ xs[n] = Inactive THEN m[p]
               ELSE IF Failed(xs[n]) \/ m[p] = Inactive \/ xs[n].v > m[p].v THEN xs[n] ELSE m[p]
    BY <1>3, <2>1
  <2>6. Holds(n)
    <3>1. CASE \E k \in failing : k <= p
      <4>1. m[p] = first BY <2>2, <3>1
      <4>2. Failed(first)
        <5>1. failing # {} BY <3>1
        <5>2. Min(failing) \in failing BY <1>6, <5>1, LeastNumber
        <5> QED BY <1>4, <1>5, <1>6, <5>2 DEF FirstFailure
      <4>3. m[n] = first BY <2>5, <4>1, <4>2
      <4>4. \E k \in failing : k <= n BY <1>6, <2>1, <3>1
      <4> QED BY <4>3, <4>4
    <3>2. CASE ~(\E k \in failing : k <= p)
      <4>1. ~Failed(m[p])
        <5>1. CASE Numbered(p) = {} BY <2>2, <3>2, <5>1 DEF Failed, Inactive
        <5>2. CASE Numbered(p) # {}
          <6>1. PICK j \in Numbered(p) : m[p] = xs[j] BY <2>2, <3>2, <5>2
          <6> QED BY <6>1 DEF Failed, Known
        <5> QED BY <5>1, <5>2
      <4>2. \A k \in failing : n <= k BY <1>6, <2>1, <3>2
      <4>3. CASE n \in failing
        <5>1. Min(failing) = n BY <1>6, <4>2, <4>3, LeastIs
        <5>2. Failed(xs[n]) /\ xs[n] # Inactive BY <1>6, <2>3, <4>3, ValueKinds
        <5>3. m[n] = xs[n] BY <2>5, <4>1, <5>2
        <5>4. first = xs[n] BY <1>4, <1>5, <5>1 DEF FirstFailure
        <5>5. \E k \in failing : k <= n BY <4>3
        <5> QED BY <5>3, <5>4, <5>5
      <4>4. CASE n \notin failing
        <5>1. ~(\E k \in failing : k <= n)
          <6>1. \A k \in failing : k \in Int /\ n <= k /\ k # n BY <1>6, <4>2, <4>4
          <6> QED BY <6>1
        <5>2. ~Failed(xs[n]) BY <1>6, <4>4
        <5>3. CASE xs[n] = Inactive
          <6>1. Numbered(n) = Numbered(p) /\ m[n] = m[p] BY <2>4, <2>5, <5>3 DEF Known, Inactive
          <6>2. CASE Numbered(n) = {} BY <2>2, <3>2, <5>1, <6>1, <6>2
          <6>3. CASE Numbered(n) # {}
            <7>1. PICK j \in Numbered(p) : Leads(p, j) BY <2>2, <3>2, <6>1, <6>3
            <7>2. j \in Numbered(n) /\ Leads(n, j) BY <6>1, <7>1
            <7> HIDE DEF Leads
            <7> QED BY <5>1, <7>2
          <6> QED BY <6>2, <6>3
        <5>4. CASE Known(xs[n])
          <6>1. Numbered(n) = Numbered(p) \cup {n} /\ n \in Numbered(n) /\ xs[n] # Inactive
            BY <2>4, <5>4 DEF Known, Inactive
          <6>2. CASE Numbered(p) = {}
            <7>1. m[p] = Inactive BY <2>2, <3>2, <6>2
            <7>2. m[n] = xs[n] BY <2>5, <4>1, <6>1, <7>1
            <7>3. Leads(n, n) BY <2>3, <6>1, <6>2, <7>2
            <7> HIDE DEF Leads
            <7> QED BY <5>1, <6>1, <7>3
          <6>3. CASE Numbered(p) # {}
            <7>1. PICK j \in Numbered(p) : Leads(p, j) BY <2>2, <3>2, <6>3
            <7>2. m[p] = xs[j] /\ m[p] # Inactive /\ j < n /\ j \in Numbered(n) /\ xs[j].v \in Int
              BY <2>1, <2>3, <6>1, <7>1 DEF Known, Inactive
            <7>3. CASE xs[n].v > xs[j].v
              <8>1. m[n] = xs[n] BY <2>5, <4>1, <6>1, <7>2, <7>3
              <8>2. ASSUME NEW l \in Numbered(p) PROVE xs[l].v < xs[n].v
                <9>1. xs[l].v <= xs[j].v /\ xs[l].v \in Int BY <2>3, <2>4, <7>1
                <9> QED BY <2>3, <7>2, <7>3, <9>1
              <8>3. Leads(n, n)
                <9>1. ASSUME NEW l \in Numbered(n)
                      PROVE  xs[l].v <= xs[n].v /\ (l < n => xs[l].v < xs[n].v)
                  <10>1. CASE l = n BY <2>3, <10>1
                  <10>2. CASE l \in Numbered(p)
                    <11>1. xs[l].v < xs[n].v /\ xs[l].v \in Int BY <2>3, <2>4, <8>2, <10>2
                    <11> QED BY <2>3, <11>1
                  <10> QED BY <6>1, <10>1, <10>2
                <9> QED BY <8>1, <9>1
              <8> HIDE DEF Leads
              <8> QED BY <5>1, <6>1, <8>3
            <7>4. CASE ~(xs[n].v > xs[j].v)
              <8>1. m[n] = xs[j] BY <2>5, <4>1, <5>2, <7>2, <7>4
              <8>2. ASSUME NEW l \in Numbered(n)
                    PROVE  xs[l].v <= xs[j].v /\ (l < j => xs[l].v < xs[j].v)
                <9>1. CASE l = n BY <2>3, <7>2, <7>4, <9>1
                <9>2. CASE l \in Numbered(p) BY <7>1, <9>2
                <9> QED BY <6>1, <9>1, <9>2
              <8>3. Leads(n, j) BY <8>1, <8>2
              <8> HIDE DEF Leads
              <8> QED BY <5>1, <7>2, <8>3
            <7> QED BY <7>3, <7>4
          <6> QED BY <6>2, <6>3
        <5> QED BY <2>3, <5>2, <5>3, <5>4, ValueKinds
      <4> QED BY <4>3, <4>4
    <3> QED BY <3>1, <3>2
  <2> HIDE DEF Holds
  <2> QED BY <2>6
<1>8. Holds(N)
  <2>1. 0 \in Right
    <3>1. ~\E k \in failing : k <= 0 BY <1>6
    <3>2. Numbered(0) = {} OBVIOUS
    <3> QED BY <1>3, <3>1, <3>2
  <2> HIDE DEF Holds
  <2>2. N \in Right
    <3> HIDE DEF Right
    <3>1. 0..N \subseteq Right BY <1>7, <2>1, CountingUp
    <3> QED BY <3>1
  <2> QED BY <2>2
<1>9. PICK counted : counted = Counted(xs) OBVIOUS
<1>10. counted = Numbered(N) /\ counted \subseteq Nat
  <2>1. counted = Numbered(N) BY <1>1, <1>9 DEF Counted
  <2> QED BY <2>1
<1>11. PICK greatest : greatest = {k \in counted : \A l \in counted : xs[l].v <= xs[k].v} OBVIOUS
<1>12. MaximumMeans(xs) = IF failing # {} THEN first ELSE IF counted = {} THEN Inactive
                          ELSE xs[Min(greatest)]
  BY <1>4, <1>5, <1>9, <1>11, Zenon DEF MaximumMeans
<1>13. ApplicationMaximum(xs) = m[N] BY <1>1, <1>2 DEF ApplicationMaximum
<1>14. CASE failing # {}
  <2>1. \E k \in failing : k <= N
    <3>1. \A k \in failing : k <= N BY <1>6
    <3> QED BY <1>14, <3>1
  <2> QED BY <1>8, <1>12, <1>13, <1>14, <2>1
<1>15. CASE failing = {} /\ counted = {}
  BY <1>8, <1>10, <1>12, <1>13, <1>15
<1>16. CASE failing = {} /\ counted # {}
  <2>1. PICK j \in counted : Leads(N, j) BY <1>8, <1>10, <1>16
  <2>2. j \in greatest BY <1>10, <1>11, <2>1
  <2>3. ASSUME NEW k \in greatest PROVE j <= k
    <3>1. k \in counted /\ k \in Nat /\ j \in Nat BY <1>10, <1>11
    <3>2. xs[j].v <= xs[k].v BY <1>11
    <3>3. k < j => xs[k].v < xs[j].v BY <1>10, <2>1, <3>1
    <3>4. xs[j].v \in Int /\ xs[k].v \in Int
      <4>1. j \in 1..N /\ k \in 1..N BY <1>10, <3>1
      <4> QED BY <1>1, <4>1, ValueKinds
    <3> QED BY <3>1, <3>2, <3>3, <3>4
  <2>4. greatest \subseteq Nat BY <1>10, <1>11
  <2>5. Min(greatest) = j BY <2>2, <2>3, <2>4, LeastIs
  <2>6. m[N] = xs[j] BY <2>1
  <2> QED BY <1>12, <1>13, <1>16, <2>5, <2>6
<1> QED BY <1>14, <1>15, <1>16

\* The loop over the gates computes what their conjunction means.
LEMMA GatesAreTheirMeaning ==
  ASSUME NEW xs \in Seq(Values)
  PROVE  GateResult(xs) = GatesMean(xs) /\ GateResult(xs) \in Values \cup {None}
<1>1. PICK N \in Nat : N = Len(xs) /\ DOMAIN xs = 1..N OBVIOUS
<1>2. PICK r : r = GateResults(xs) OBVIOUS
<1>3. /\ r[0] = None
      /\ \A n \in 0..N : r[n] \in Values \cup {None}
  BY <1>1, <1>2, GatesAreConjoined
<1>4. ASSUME NEW n \in 1..N
      PROVE  r[n] = IF r[n - 1] = Inactive THEN Inactive
                    ELSE IF xs[n] \in {Inactive, Boolean(FALSE)} THEN Inactive
                    ELSE IF Failed(xs[n]) /\ r[n - 1] = None THEN xs[n] ELSE r[n - 1]
  <2>1. r[n] = CASE r[n - 1] = Inactive -> r[n - 1]
                 [] xs[n] \in {Inactive, Boolean(FALSE)} -> Inactive
                 [] Failed(xs[n]) /\ r[n - 1] = None -> xs[n]
                 [] OTHER -> r[n - 1]
    BY <1>1, <1>2, GatesAreConjoined
  <2>2. r[n - 1] = None => r[n - 1] # Inactive BY DEF None, Inactive
  <2>3. Failed(xs[n]) => xs[n] \notin {Inactive, Boolean(FALSE)} BY DEF Failed, Inactive, Boolean
  <2> QED BY <2>1, <2>2, <2>3
<1>5. PICK failing : failing = Failing(xs) OBVIOUS
<1>6. PICK first : first = FirstFailure(xs) OBVIOUS
<1>7. failing \subseteq 1..N /\ failing \subseteq Nat /\ \A n \in 1..N : n \in failing <=> Failed(xs[n])
  <2>1. failing \subseteq 1..N /\ \A n \in 1..N : n \in failing <=> Failed(xs[n])
    BY <1>1, <1>5 DEF Failing
  <2> QED BY <2>1
<1>8. failing # {} => first # Inactive /\ first # None
  <2>1. failing # {} => Min(failing) \in failing BY <1>7, LeastNumber
  <2> QED BY <1>5, <1>6, <1>7, <2>1 DEF FirstFailure, Failed, Inactive, None
<1> DEFINE Closed(n) == \E k \in 1..n : xs[k] \in {Inactive, Boolean(FALSE)}
           Holds(n) == r[n] = IF Closed(n) THEN Inactive
                              ELSE IF \E k \in failing : k <= n THEN first ELSE None
           Right == {n \in Nat : Holds(n)}
<1>9. ASSUME NEW n \in 1..N, n - 1 \in Right PROVE n \in Right
  <2>1. PICK p \in 0..N : p = n - 1 OBVIOUS
  <2>2. Holds(p) BY <1>9, <2>1
  <2>3. 1..n = (1..p) \cup {n} BY <2>1
  <2>4. CASE Closed(p)
    <3>1. r[p] = Inactive /\ Closed(n) BY <2>2, <2>3, <2>4
    <3>2. r[n] = Inactive BY <1>4, <2>1, <3>1
    <3> HIDE DEF Closed
    <3>3. Holds(n) BY <3>1, <3>2
    <3> QED BY <3>3
  <2>5. CASE ~Closed(p)
    <3>1. r[p] = IF \E k \in failing : k <= p THEN first ELSE None BY <2>2, <2>5
    <3>2. r[p] # Inactive BY <1>8, <3>1 DEF None, Inactive
    <3>3. CASE xs[n] \in {Inactive, Boolean(FALSE)}
      <4>1. r[n] = Inactive BY <1>4, <2>1, <3>2, <3>3
      <4>2. Closed(n) BY <2>3, <3>3
      <4> HIDE DEF Closed
      <4>3. Holds(n) BY <4>1, <4>2
      <4> QED BY <4>3
    <3>4. CASE xs[n] \notin {Inactive, Boolean(FALSE)}
      <4>1. ~Closed(n) BY <2>3, <2>5, <3>4
      <4>2. CASE \E k \in failing : k <= p
        <5>1. r[p] = first /\ r[p] # None BY <1>8, <3>1, <4>2
        <5>2. r[n] = first BY <1>4, <2>1, <3>2, <3>4, <5>1
        <5>3. \E k \in failing : k <= n BY <1>7, <2>1, <4>2
        <5> HIDE DEF Closed
        <5> QED BY <4>1, <5>2, <5>3
      <4>3. CASE ~(\E k \in failing : k <= p)
        <5>1. r[p] = None BY <3>1, <4>3
        <5>2. \A k \in failing : n <= k BY <1>7, <2>1, <4>3
        <5>3. CASE n \in failing
          <6>1. Min(failing) = n BY <1>7, <5>2, <5>3, LeastIs
          <6>2. first = xs[n] BY <1>5, <1>6, <6>1 DEF FirstFailure
          <6>3. r[n] = first BY <1>4, <1>7, <2>1, <3>2, <3>4, <5>1, <5>3, <6>2
          <6>4. \E k \in failing : k <= n BY <5>3
          <6> HIDE DEF Closed
          <6> QED BY <4>1, <6>3, <6>4
        <5>4. CASE n \notin failing
          <6>1. ~(\E k \in failing : k <= n)
            <7>1. \A k \in failing : k \in Int /\ n <= k /\ k # n BY <1>7, <5>2, <5>4
            <7> QED BY <7>1
          <6>2. r[n] = None BY <1>4, <1>7, <2>1, <3>2, <3>4, <5>1, <5>4
          <6> HIDE DEF Closed
          <6> QED BY <4>1, <6>1, <6>2
        <5> QED BY <5>3, <5>4
      <4> QED BY <4>2, <4>3
    <3> QED BY <3>3, <3>4
  <2> QED BY <2>4, <2>5
<1>10. Holds(N)
  <2>1. 0 \in Right
    <3>1. ~\E k \in failing : k <= 0 BY <1>7
    <3>2. ~Closed(0) OBVIOUS
    <3> HIDE DEF Closed
    <3> QED BY <1>3, <3>1, <3>2
  <2> HIDE DEF Holds
  <2>2. N \in Right
    <3> HIDE DEF Right
    <3>1. 0..N \subseteq Right BY <1>9, <2>1, CountingUp
    <3> QED BY <3>1
  <2> QED BY <2>2
<1>11. GateResult(xs) = r[N] BY <1>1, <1>2 DEF GateResult
<1>12. (\E k \in failing : k <= N) <=> failing # {}
  <2>1. \A k \in failing : k <= N BY <1>7
  <2> QED BY <2>1
<1>13. GatesMean(xs) = IF Closed(N) THEN Inactive ELSE IF failing # {} THEN first ELSE None
  BY <1>1, <1>5, <1>6, Zenon DEF GatesMean
<1>14. r[N] = GatesMean(xs)
  <2> HIDE DEF Closed
  <2> QED BY <1>10, <1>12, <1>13
<1>15. r[N] \in Values \cup {None} BY <1>3
<1> QED BY <1>11, <1>14, <1>15

\* A reduction of values is a value, and the loop computes its meaning.
LEMMA ReductionIsItsMeaning ==
  ASSUME NEW xs \in Seq(Values), NEW kind \in {"sum", "exact", "any"} \cup Reductions
  PROVE  Reduced(kind, xs) = ReductionMeans(kind, xs) /\ Reduced(kind, xs) \in Values
<1>1. PICK N \in Nat : N = Len(xs) /\ N \in 0..N OBVIOUS
<1>2. CASE kind = "sum"
  <2>1. OrderedSum(xs) \in Values BY <1>1, SumsAreOrdered DEF OrderedSum
  <2> QED BY <1>2, <2>1, SumIsItsMeaning DEF Reduced, ReductionMeans
<1>3. CASE kind \in {"exact", "any"}
  <2>1. Gathered(kind, xs)[N] \in [total : Int, worst : Values \cup {None}]
    BY <1>1, FailuresAreGathered
  <2>2. CASE kind = "exact"
    <3>1. ExactIntegerSum(xs) \in Values BY <1>1, <2>1, <2>2, ValuesMade DEF ExactIntegerSum
    <3> QED BY <2>2, <3>1, ExactIsItsMeaning DEF Reduced, ReductionMeans
  <2>3. CASE kind = "any"
    <3>1. PICK g : g = Gathered("any", xs)[N] OBVIOUS
    <3>2. AnyOf(xs) = IF g.worst = None THEN Boolean(g.total = 1) ELSE g.worst BY <1>1, <3>1 DEF AnyOf
    <3>3. Boolean(g.total = 1) \in {Boolean(TRUE), Boolean(FALSE)} BY DEF Boolean
    <3>4. g.worst \in Values \cup {None} BY <2>1, <2>3, <3>1
    <3>5. AnyOf(xs) \in Values BY <3>2, <3>3, <3>4, ValuesMade
    <3> QED BY <2>3, <3>5, AnyIsItsMeaning DEF Reduced, ReductionMeans
  <2> QED BY <1>3, <2>2, <2>3
<1>4. CASE kind = "selection"
  <2>1. Candidates(xs)[N] \in [picked : Values, worst : Values \cup {None}]
    BY <1>1, CandidatesAreCompared
  <2>2. NumericSelection(xs) \in Values BY <1>1, <2>1 DEF NumericSelection
  <2> QED BY <1>4, <2>2, SelectionIsItsMeaning DEF Reduced, ReductionMeans
<1>5. CASE kind = "maximum"
  <2>1. ApplicationMaximum(xs) \in Values BY <1>1, MaximaAreKept DEF ApplicationMaximum
  <2> QED BY <1>5, <2>1, MaximumIsItsMeaning DEF Reduced, ReductionMeans
<1> QED BY <1>2, <1>3, <1>4, <1>5 DEF Reductions

-----------------------------------------------------------------------------
(* A node's value.                                                         *)

\* A bound read has a value when what it depends on has one.
PlainBound(b) ==
  /\ b.is \in {"ready", "final", "sum", "exact", "any", "present", "picked"}
  /\ b.is = "ready" => b.v \in Values
  /\ b.is \in {"sum", "exact", "any"} => b.of \in Seq(PlainDependencies(b))
  /\ b.is \in {"present", "picked"} => b.of \in PlainDependencies(b)
  /\ b.is = "final" => b.of = 0 \/ b.of \in PlainDependencies(b)
ReadBound(b) ==
  /\ b.is = "select" => PlainBound(b.yes) /\ PlainBound(b.no)
  /\ b.is = "required" => PlainBound(b.source)
  /\ b.is \notin {"select", "required"} => PlainBound(b)

\* So does a bound node.
Evaluable(node) ==
  /\ node.value \in Values \cup {None}
  /\ node.value = None /\ node.op \notin Reductions =>
       /\ node.op \in {"route", "read", "add", "when", "choose", "within"}
       /\ {node.a, node.b, node.c} \subseteq Used(node)
  /\ node.of \in Seq(Range(node.of))
  /\ node.gates \in Seq(Range(node.gates))
  /\ \A k \in Used(node) : ReadBound(node.reads[k])
  /\ \A k \in DOMAIN node.gates : ReadBound(node.gates[k])

\* Two assignments of values that have the same ones of these nodes.
Agree(D, vals, other) == \A d \in D : vals[d] \in Values /\ other[d] = vals[d]

\* The values of members are values.
LEMMA MembersAgree ==
  ASSUME NEW D, NEW of \in Seq(D), NEW vals, NEW other, Agree(D, vals, other)
  PROVE  Members(of, vals) \in Seq(Values) /\ Members(of, other) = Members(of, vals)
<1>1. PICK N \in Nat : N = Len(of) /\ DOMAIN of = 1..N OBVIOUS
<1>2. \A k \in 1..N : of[k] \in D BY <1>1
<1>3. \A k \in 1..N : vals[of[k]] \in Values /\ other[of[k]] = vals[of[k]] BY <1>2 DEF Agree
<1>4. [k \in 1..N |-> vals[of[k]]] \in Seq(Values) BY <1>3
<1>5. [k \in 1..N |-> other[of[k]]] = [k \in 1..N |-> vals[of[k]]] BY <1>3
<1> QED BY <1>1, <1>4, <1>5 DEF Members

\* A plain read comes to what it means.
LEMMA PlainReadAgrees ==
  ASSUME NEW b, PlainBound(b), NEW vals, NEW other, Agree(PlainDependencies(b), vals, other), NEW complete
  PROVE  /\ PlainRead(TRUE, b, vals, complete) \in Values
         /\ PlainRead(FALSE, b, other, complete) = PlainRead(TRUE, b, vals, complete)
<1>1. CASE b.is = "ready" BY <1>1 DEF PlainRead, PlainBound
<1>2. CASE b.is \in {"present", "picked"}
  <2>1. vals[b.of] \in Values /\ other[b.of] = vals[b.of] BY <1>2 DEF PlainBound, Agree
  <2>2. CASE b.is = "present"
    <3>1. Boolean(Known(vals[b.of])) \in {Boolean(TRUE), Boolean(FALSE)} BY DEF Boolean
    <3> QED BY <2>1, <2>2, <3>1, ValuesMade DEF PlainRead
  <2>3. CASE b.is = "picked" BY <2>1, <2>3, ValuesMade DEF PlainRead
  <2> QED BY <1>2, <2>2, <2>3
<1>3. CASE b.is = "final"
  <2>1. b.of # 0 => vals[b.of] \in Values /\ other[b.of] = vals[b.of] BY <1>3 DEF PlainBound, Agree
  <2> QED BY <1>3, <2>1, ValuesMade DEF PlainRead
<1>4. CASE b.is \in {"sum", "exact", "any"}
  <2>1. b.of \in Seq(PlainDependencies(b)) BY <1>4 DEF PlainBound
  <2>2. PICK xs \in Seq(Values) : xs = Members(b.of, vals) /\ xs = Members(b.of, other)
    BY <2>1, MembersAgree
  <2>3. PICK x \in Values : x = Reduced(b.is, xs) /\ x = ReductionMeans(b.is, xs)
    BY <1>4, ReductionIsItsMeaning
  <2>4. /\ PlainRead(TRUE, b, vals, complete) = IF ~complete THEN IncompleteContributors ELSE x
        /\ PlainRead(FALSE, b, other, complete) = IF ~complete THEN IncompleteContributors ELSE x
    BY <1>4, <2>2, <2>3 DEF PlainRead, Reduction
  <2>5. IncompleteContributors \in Values BY ValuesMade
  <2>6. CASE complete BY <2>3, <2>4, <2>6
  <2>7. CASE ~complete BY <2>4, <2>5, <2>7
  <2> QED BY <2>6, <2>7
<1> QED BY <1>1, <1>2, <1>3, <1>4 DEF PlainBound

\* So does a read.
LEMMA ReadAgrees ==
  ASSUME NEW b, ReadBound(b), NEW vals, NEW other, Agree(ReadDependencies(b), vals, other), NEW complete
  PROVE  /\ Read(TRUE, b, vals, complete) \in Values
         /\ Read(FALSE, b, other, complete) = Read(TRUE, b, vals, complete)
<1>1. CASE b.is = "select"
  <2>1. /\ PlainBound(b.yes) /\ PlainBound(b.no)
        /\ ReadDependencies(b) = {b.by} \cup PlainDependencies(b.yes) \cup PlainDependencies(b.no)
    BY <1>1 DEF ReadBound, ReadDependencies
  <2>2. /\ vals[b.by] \in Values /\ other[b.by] = vals[b.by]
        /\ Agree(PlainDependencies(b.yes), vals, other) /\ Agree(PlainDependencies(b.no), vals, other)
    BY <2>1 DEF Agree
  <2>3. /\ PlainRead(TRUE, b.yes, vals, complete) \in Values
        /\ PlainRead(FALSE, b.yes, other, complete) = PlainRead(TRUE, b.yes, vals, complete)
    BY <2>1, <2>2, PlainReadAgrees
  <2>4. /\ PlainRead(TRUE, b.no, vals, complete) \in Values
        /\ PlainRead(FALSE, b.no, other, complete) = PlainRead(TRUE, b.no, vals, complete)
    BY <2>1, <2>2, PlainReadAgrees
  <2>5. Boolean(TRUE) # Boolean(FALSE) BY DEF Boolean
  <2> QED BY <1>1, <2>2, <2>3, <2>4, <2>5 DEF Read
<1>2. CASE b.is = "required"
  <2>1. /\ PlainBound(b.source) /\ Agree(PlainDependencies(b.source), vals, other)
    BY <1>2 DEF ReadBound, ReadDependencies
  <2>2. PICK x \in Values :
          /\ x = PlainRead(TRUE, b.source, vals, complete)
          /\ x = PlainRead(FALSE, b.source, other, complete)
    BY <2>1, PlainReadAgrees
  <2>3. Known(x) => x # Inactive BY ValueKinds
  <2> QED BY <1>2, <2>2, <2>3, ValuesMade DEF Read
<1>3. CASE b.is \notin {"select", "required"}
  <2>1. /\ PlainBound(b) /\ Agree(PlainDependencies(b), vals, other)
    BY <1>3 DEF ReadBound, ReadDependencies
  <2> QED BY <1>3, <2>1, PlainReadAgrees DEF Read
<1> QED BY <1>1, <1>2, <1>3

\* A program of values has a value.
LEMMA ProgramsHaveValues ==
  ASSUME NEW node, NEW D, NEW facts \in [D -> Values], {node.a, node.b, node.c} \subseteq D,
         node.op \in {"route", "read", "add", "when", "choose", "within"}
  PROVE  Program(node, facts) \in Values
<1> DEFINE Demand(k) == IF facts[k] = Inactive THEN UpstreamUnavailable ELSE facts[k]
<1>1. \A k \in D : Demand(k) \in Values BY ValuesMade
<1>2. Demand(node.a) \in Values /\ Demand(node.b) \in Values /\ Demand(node.c) \in Values
  BY <1>1
<1>3. facts[node.a] \in Values OBVIOUS
<1>4. Demand(node.a).v \in Int /\ Demand(node.b).v \in Int BY <1>2, ValueKinds
<1>5. Bounded(Demand(node.a).v + Demand(node.b).v) \in Values BY <1>4, ValuesMade
<1>6. Program(node, facts) =
        IF node.op = "route" THEN facts[node.a]
        ELSE IF Failed(Demand(node.a)) THEN Demand(node.a)
        ELSE CASE
             node.op = "read" -> Demand(node.a)
          [] node.op = "add" ->
               IF Failed(Demand(node.b)) THEN Demand(node.b)
               ELSE Bounded(Demand(node.a).v + Demand(node.b).v)
          [] node.op = "when" -> IF Demand(node.a) = Boolean(FALSE) THEN Inactive ELSE Demand(node.b)
          [] node.op = "choose" -> Demand(IF Demand(node.a) = Boolean(TRUE) THEN node.b ELSE node.c)
          [] node.op = "within" -> IF Demand(node.a).v >= 0 THEN Demand(node.a) ELSE UnsupportedDomain
  BY Zenon DEF Program
<1>7. Demand(IF Demand(node.a) = Boolean(TRUE) THEN node.b ELSE node.c) \in Values BY <1>1
<1> HIDE DEF Demand
<1> QED BY <1>2, <1>3, <1>5, <1>6, <1>7, ValuesMade

\* A node comes to what it means, whatever loops compute it.
LEMMA NodesAgree ==
  ASSUME NEW node, Evaluable(node), NEW vals, NEW other, Agree(Dependencies(node), vals, other),
         NEW complete
  PROVE  /\ Evaluated(TRUE, node, vals, complete) \in Values
         /\ Evaluated(FALSE, node, other, complete) = Evaluated(TRUE, node, vals, complete)
<1>1. ASSUME NEW k \in Used(node)
      PROVE  /\ Read(TRUE, node.reads[k], vals, complete) \in Values
             /\ Read(FALSE, node.reads[k], other, complete) = Read(TRUE, node.reads[k], vals, complete)
  <2>1. ReadDependencies(node.reads[k]) \subseteq Dependencies(node) BY DEF Dependencies
  <2>2. Agree(ReadDependencies(node.reads[k]), vals, other) BY <2>1 DEF Agree
  <2>3. ReadBound(node.reads[k]) BY DEF Evaluable
  <2> QED BY <2>2, <2>3, ReadAgrees, Zenon
<1>2. ASSUME NEW k \in DOMAIN node.gates
      PROVE  /\ Read(TRUE, node.gates[k], vals, complete) \in Values
             /\ Read(FALSE, node.gates[k], other, complete) = Read(TRUE, node.gates[k], vals, complete)
  <2>1. ReadDependencies(node.gates[k]) \subseteq Dependencies(node) BY DEF Dependencies
  <2>2. Agree(ReadDependencies(node.gates[k]), vals, other) BY <2>1 DEF Agree
  <2>3. ReadBound(node.gates[k]) BY DEF Evaluable
  <2> QED BY <2>2, <2>3, ReadAgrees, Zenon
<1>3. PICK gates : gates = [k \in DOMAIN node.gates |-> Read(TRUE, node.gates[k], vals, complete)]
  OBVIOUS
<1>4. gates = [k \in DOMAIN node.gates |-> Read(FALSE, node.gates[k], other, complete)]
  BY <1>2, <1>3
<1>5. gates \in Seq(Values)
  <2>1. PICK N \in Nat : DOMAIN node.gates = 1..N BY DEF Evaluable
  <2>2. gates \in [1..N -> Values] BY <1>2, <1>3, <2>1
  <2> QED BY <2>2
<1>6. GateResult(gates) = GatesMean(gates) /\ GateResult(gates) \in Values \cup {None}
  BY <1>5, GatesAreTheirMeaning
<1>7. /\ Operation(TRUE, node, vals, complete) \in Values
      /\ Operation(FALSE, node, other, complete) = Operation(TRUE, node, vals, complete)
  <2>1. CASE node.value # None BY <2>1 DEF Operation, Evaluable
  <2>2. CASE node.value = None /\ node.op \in Reductions
    <3>1. Range(node.of) \subseteq Dependencies(node) BY DEF Dependencies
    <3>2. Agree(Range(node.of), vals, other) BY <3>1 DEF Agree
    <3>3. PICK xs \in Seq(Values) : xs = Members(node.of, vals) /\ xs = Members(node.of, other)
      BY <3>2, MembersAgree DEF Evaluable
    <3>4. PICK x \in Values : x = Reduced(node.op, xs) /\ x = ReductionMeans(node.op, xs)
      BY <2>2, ReductionIsItsMeaning
    <3>5. /\ Operation(TRUE, node, vals, complete) = IF complete THEN x ELSE IncompleteContributors
          /\ Operation(FALSE, node, other, complete) = IF complete THEN x ELSE IncompleteContributors
      BY <2>2, <3>3, <3>4 DEF Operation, Reduction
    <3>6. IncompleteContributors \in Values BY ValuesMade
    <3>7. CASE complete BY <3>4, <3>5, <3>7
    <3>8. CASE ~complete BY <3>5, <3>6, <3>8
    <3> QED BY <3>7, <3>8
  <2>3. CASE node.value = None /\ node.op \notin Reductions
    <3>1. PICK facts : facts = [k \in Used(node) |-> Read(TRUE, node.reads[k], vals, complete)]
      OBVIOUS
    <3>2. facts = [k \in Used(node) |-> Read(FALSE, node.reads[k], other, complete)] BY <1>1, <3>1
    <3>3. facts \in [Used(node) -> Values] BY <1>1, <3>1
    <3>4. Program(node, facts) \in Values BY <2>3, <3>3, ProgramsHaveValues DEF Evaluable
    <3> QED BY <2>3, <3>1, <3>2, <3>4, Zenon DEF Operation
  <2> QED BY <2>1, <2>2, <2>3
<1>8. /\ Evaluated(TRUE, node, vals, complete) =
           IF GateResult(gates) = None THEN Operation(TRUE, node, vals, complete) ELSE GateResult(gates)
      /\ Evaluated(FALSE, node, other, complete) =
           IF GatesMean(gates) = None THEN Operation(FALSE, node, other, complete) ELSE GatesMean(gates)
  BY <1>3, <1>4, Zenon DEF Evaluated
<1> QED BY <1>6, <1>7, <1>8

-----------------------------------------------------------------------------
(* Bound nodes have values.                                                *)

\* A read that was compiled is bound.
LEMMA PlainIsBound ==
  ASSUME NEW nodes, nodes \in Seq(Range(nodes)), NEW p, PlainShape(nodes, p)
  PROVE  PlainBound(ResolvePlain(nodes, p))
<1>1. CASE p.is = "value"
  BY <1>1 DEF PlainBound, ResolvePlain, PlainDependencies
<1>2. CASE p.is \in {"sum", "exact", "any"}
  <2>1. PICK parts : parts = Parts(nodes, p.key) OBVIOUS
  <2>2. parts \in Seq(Range(parts)) BY <2>1, PartsAreNodes, OwnRange
  <2> QED BY <1>2, <2>1, <2>2 DEF PlainBound, ResolvePlain, PlainDependencies
<1>3. CASE p.is \in {"present", "picked"}
  <2>1. Selector(nodes, p.key) \in DOMAIN nodes BY <1>3, SelectorIsNode DEF PlainShape
  <2>2. Selector(nodes, p.key) # 0 BY <2>1
  <2> QED BY <1>3, <2>2 DEF PlainBound, ResolvePlain, PlainDependencies
<1>4. CASE p.is = "ready"
  BY <1>4 DEF PlainBound, ResolvePlain, PlainShape
<1> QED BY <1>1, <1>2, <1>3, <1>4 DEF PlainShape

\* So is one with two sources, or one that requires its source.
LEMMA ReadIsBound ==
  ASSUME NEW nodes, nodes \in Seq(Range(nodes)), NEW p, ReadShape(nodes, p)
  PROVE  ReadBound(Resolve(nodes, p))
<1>1. CASE p.is = "select"
  <2>1. /\ {"by", "yes", "no"} \subseteq DOMAIN p /\ p.by \in DOMAIN nodes
        /\ PlainShape(nodes, p.yes) /\ PlainShape(nodes, p.no)
    BY <1>1 DEF ReadShape, PlainReads
  <2> DEFINE r == [p EXCEPT !.yes = ResolvePlain(nodes, @), !.no = ResolvePlain(nodes, @)]
  <2>2. Resolve(nodes, p) = r BY <1>1 DEF Resolve
  <2>3. r.is = "select" /\ r.yes = ResolvePlain(nodes, p.yes) /\ r.no = ResolvePlain(nodes, p.no)
    BY <1>1, <2>1
  <2> HIDE DEF r
  <2> QED BY <2>1, <2>2, <2>3, PlainIsBound DEF ReadBound
<1>2. CASE p.is = "required"
  <2>1. "source" \in DOMAIN p /\ PlainShape(nodes, p.source)
    BY <1>2 DEF ReadShape, PlainReads
  <2> DEFINE r == [p EXCEPT !.source = ResolvePlain(nodes, @)]
  <2>2. Resolve(nodes, p) = r BY <1>2 DEF Resolve
  <2>3. r.is = "required" /\ r.source = ResolvePlain(nodes, p.source) BY <1>2, <2>1
  <2> HIDE DEF r
  <2> QED BY <2>1, <2>2, <2>3, PlainIsBound DEF ReadBound
<1>3. CASE p.is \notin {"select", "required"}
  <2>1. PlainShape(nodes, p) BY <1>3 DEF ReadShape, PlainReads
  <2>2. Resolve(nodes, p) = ResolvePlain(nodes, p) BY <1>3 DEF Resolve
  <2>3. ResolvePlain(nodes, p).is \notin {"select", "required"}
    BY <2>1 DEF ResolvePlain, PlainShape
  <2> QED BY <2>1, <2>2, <2>3, PlainIsBound DEF ReadBound
<1> QED BY <1>1, <1>2, <1>3

\* Binding makes a sequence of nodes that have values; an output has one bound with it.
LEMMA BoundEvaluable ==
  ASSUME NEW nodes, Whole(nodes), \A i \in DOMAIN nodes : nodes[i].op = "output" => nodes[i].value # None
  PROVE  /\ Bound(nodes) \in Seq(Range(Bound(nodes)))
         /\ \A i \in DOMAIN nodes : Evaluable(Bound(nodes)[i])
<1>1. Bound(nodes) \in Seq(Range(Bound(nodes)))
  <2>1. PICK N \in Nat : DOMAIN nodes = 1..N BY DEF Whole
  <2>2. PICK g : g = Bound(nodes) OBVIOUS
  <2>3. DOMAIN g = 1..N /\ g = [i \in 1..N |-> g[i]] BY <2>1, <2>2 DEF Bound
  <2>4. \A i \in 1..N : g[i] \in Range(g) BY <2>3 DEF Range
  <2>5. g \in Seq(Range(g)) BY <2>3, <2>4
  <2> QED BY <2>2, <2>5
<1>2. ASSUME NEW i \in DOMAIN nodes PROVE Evaluable(Bound(nodes)[i])
  <2> DEFINE b == Bound(nodes)[i]
  <2>1. NodeShape(nodes, nodes[i]) /\ nodes \in Seq(Range(nodes)) BY DEF Whole
  <2> HIDE DEF b
  <2>2. /\ b.reads = [k \in DOMAIN nodes[i].reads |-> Resolve(nodes, nodes[i].reads[k])]
        /\ b.gates = [k \in DOMAIN nodes[i].gates |-> Resolve(nodes, nodes[i].gates[k])]
        /\ b.of = IF nodes[i].op = "selection" THEN Parts(nodes, nodes[i].to.key) ELSE nodes[i].of
    <3>1. b.reads = [k \in DOMAIN nodes[i].reads |-> Resolve(nodes, nodes[i].reads[k])]
      BY <2>1, BoundNode, Zenon DEF b
    <3>2. b.gates = [k \in DOMAIN nodes[i].gates |-> Resolve(nodes, nodes[i].gates[k])]
      BY <2>1, BoundNode, Zenon DEF b
    <3>3. b.of = IF nodes[i].op = "selection" THEN Parts(nodes, nodes[i].to.key) ELSE nodes[i].of
      BY <2>1, BoundNode, Zenon DEF b
    <3> QED BY <3>1, <3>2, <3>3
  <2>3. /\ b.op = nodes[i].op /\ b.value = nodes[i].value
        /\ b.a = nodes[i].a /\ b.b = nodes[i].b /\ b.c = nodes[i].c
    <3>1. \A e \in {"op", "a", "b", "c", "to", "stage", "value"} : b[e] = nodes[i][e]
      BY <2>1, BoundNode, ZenonT(60) DEF b
    <3> QED BY <3>1
  <2>4. b.value \in Values \cup {None} BY <2>1, <2>3 DEF NodeShape
  <2>5. ASSUME b.value = None, b.op \notin Reductions
        PROVE  /\ b.op \in {"route", "read", "add", "when", "choose", "within"}
               /\ {b.a, b.b, b.c} \subseteq Used(b)
    <3>1. b.op # "output" BY <2>3, <2>5
    <3>2. {b.a, b.b, b.c} \subseteq DOMAIN b.reads
      BY <2>1, <2>2, <2>3, <2>5, <3>1 DEF NodeShape
    <3>3. b.op \in {"route", "read", "add", "when", "choose", "within"}
      BY <2>1, <2>3, <2>5, <3>1 DEF NodeShape
    <3>4. b["a"] = b.a /\ b["b"] = b.b /\ b["c"] = b.c OBVIOUS
    <3>5. {b.a, b.b, b.c} \subseteq Used(b) BY <3>2, <3>4 DEF Used
    <3> QED BY <3>3, <3>5
  <2>6. b.of \in Seq(Range(b.of))
    <3>1. b.of \in Seq(DOMAIN nodes) BY <2>1, <2>2, PartsAreNodes DEF NodeShape
    <3> QED BY <3>1, OwnRange
  <2>7. b.gates \in Seq(Range(b.gates))
    <3>0. nodes[i].gates \in Seq(Range(nodes[i].gates)) BY <2>1 DEF NodeShape
    <3>1. PICK N \in Nat : N = Len(nodes[i].gates) /\ DOMAIN nodes[i].gates = 1..N BY <3>0
    <3>2. PICK g : g = b.gates OBVIOUS
    <3>3. DOMAIN g = 1..N /\ g = [k \in 1..N |-> g[k]] BY <2>2, <3>1, <3>2
    <3>4. \A k \in 1..N : g[k] \in Range(g) BY <3>3 DEF Range
    <3>5. g \in Seq(Range(g)) BY <3>3, <3>4
    <3> QED BY <3>2, <3>5
  <2>8. ASSUME NEW k \in Used(b) PROVE ReadBound(b.reads[k])
    <3>1. k \in DOMAIN nodes[i].reads /\ b.reads[k] = Resolve(nodes, nodes[i].reads[k])
      BY <2>2 DEF Used
    <3>2. ReadShape(nodes, nodes[i].reads[k]) BY <2>1, <3>1 DEF NodeShape, Range
    <3> QED BY <3>1, <3>2, <2>1, ReadIsBound
  <2>9. ASSUME NEW k \in DOMAIN b.gates PROVE ReadBound(b.gates[k])
    <3>1. k \in DOMAIN nodes[i].gates /\ b.gates[k] = Resolve(nodes, nodes[i].gates[k])
      BY <2>2
    <3>2. ReadShape(nodes, nodes[i].gates[k]) BY <2>1, <3>1 DEF NodeShape, Range
    <3> QED BY <3>1, <3>2, <2>1, ReadIsBound
  <2> QED BY <2>4, <2>5, <2>6, <2>7, <2>8, <2>9 DEF Evaluable, b
<1> QED BY <1>1, <1>2

-----------------------------------------------------------------------------
(* Values and what they mean together.                                     *)

\* Nodes that have values, and read each other only.
Sound(nodes) ==
  /\ nodes \in Seq(Range(nodes))
  /\ \A i \in DOMAIN nodes : Evaluable(nodes[i]) /\ Dependencies(nodes[i]) \subseteq DOMAIN nodes

\* Values that are what their nodes mean by them.
Consistent(vals, nodes, complete) ==
  /\ vals \in [DOMAIN vals -> Values]
  /\ DOMAIN vals \subseteq DOMAIN nodes
  /\ \A i \in DOMAIN vals :
       /\ Dependencies(nodes[i]) \subseteq DOMAIN vals
       /\ vals[i] = Evaluated(FALSE, nodes[i], vals, complete)

\* The value of a node whose dependencies have theirs.
LEMMA ValuesGrow ==
  ASSUME NEW nodes, Sound(nodes), NEW vals, NEW complete, Consistent(vals, nodes, complete),
         NEW i \in DOMAIN nodes, i \notin DOMAIN vals, Dependencies(nodes[i]) \subseteq DOMAIN vals,
         NEW more, more = [j \in DOMAIN vals \cup {i} |->
                             IF j = i THEN Evaluated(TRUE, nodes[i], vals, complete) ELSE vals[j]]
  PROVE  Consistent(more, nodes, complete)
<1>1. DOMAIN more = DOMAIN vals \cup {i} OBVIOUS
<1>2. \A j \in DOMAIN vals : vals[j] \in Values /\ more[j] = vals[j] BY DEF Consistent
<1>3. ASSUME NEW j \in DOMAIN nodes, Dependencies(nodes[j]) \subseteq DOMAIN vals
      PROVE  /\ Evaluated(TRUE, nodes[j], vals, complete) \in Values
             /\ Evaluated(FALSE, nodes[j], more, complete) = Evaluated(TRUE, nodes[j], vals, complete)
             /\ Evaluated(FALSE, nodes[j], vals, complete) = Evaluated(TRUE, nodes[j], vals, complete)
  <2>1. Agree(Dependencies(nodes[j]), vals, more) /\ Agree(Dependencies(nodes[j]), vals, vals)
    BY <1>2, <1>3 DEF Agree
  <2>2. Evaluable(nodes[j]) BY DEF Sound
  <2> QED BY <2>1, <2>2, NodesAgree
<1>4. more[i] = Evaluated(TRUE, nodes[i], vals, complete) BY <1>1
<1>5. more \in [DOMAIN more -> Values]
  <2>1. \A j \in DOMAIN more : more[j] \in Values BY <1>1, <1>2, <1>3, <1>4
  <2> QED BY <2>1
<1>6. ASSUME NEW j \in DOMAIN more
      PROVE  /\ Dependencies(nodes[j]) \subseteq DOMAIN more
             /\ more[j] = Evaluated(FALSE, nodes[j], more, complete)
  <2>1. CASE j = i BY <1>1, <1>3, <1>4, <2>1
  <2>2. CASE j # i
    <3>1. /\ j \in DOMAIN vals /\ j \in DOMAIN nodes /\ Dependencies(nodes[j]) \subseteq DOMAIN vals
          /\ vals[j] = Evaluated(FALSE, nodes[j], vals, complete)
      BY <1>1, <1>6, <2>2 DEF Consistent
    <3> QED BY <1>1, <1>2, <1>3, <3>1
  <2> QED BY <2>1, <2>2
<1>7. DOMAIN more \subseteq DOMAIN nodes BY <1>1 DEF Consistent
<1> QED BY <1>5, <1>6, <1>7 DEF Consistent

\* Round by round every node gets what it means by the values of the round before.
LEMMA RoundsHaveValues ==
  ASSUME NEW nodes, Sound(nodes), NEW complete
  PROVE  /\ \A n \in 1..Len(nodes) : Rounds(nodes, complete)[n] =
              [i \in DOMAIN nodes |-> Evaluated(FALSE, nodes[i], Rounds(nodes, complete)[n - 1], complete)]
         /\ \A n \in 0..Len(nodes) : Rounds(nodes, complete)[n] \in [DOMAIN nodes -> Values]
<1>1. PICK N \in Nat : N = Len(nodes) BY DEF Sound
<1> DEFINE Start == [i \in DOMAIN nodes |-> Inactive]
           Next1(vals) == [i \in DOMAIN nodes |-> Evaluated(FALSE, nodes[i], vals, complete)]
<1>2. PICK X : X = [DOMAIN nodes -> Values] OBVIOUS
<1>3. Start \in X BY <1>2, ValuesMade
<1>4. ASSUME NEW vals \in X PROVE Next1(vals) \in X
  <2>1. ASSUME NEW i \in DOMAIN nodes PROVE Evaluated(FALSE, nodes[i], vals, complete) \in Values
    <3>1. Agree(Dependencies(nodes[i]), vals, vals) BY <1>2 DEF Agree, Sound
    <3>2. Evaluable(nodes[i]) BY DEF Sound
    <3>3. /\ Evaluated(TRUE, nodes[i], vals, complete) \in Values
          /\ Evaluated(FALSE, nodes[i], vals, complete) = Evaluated(TRUE, nodes[i], vals, complete)
      BY <3>1, <3>2, NodesAgree
    <3> QED BY <3>3
  <2> QED BY <1>2, <2>1
<1> HIDE DEF Next1, Start
<1>5. PICK step \in [(1..N) \X X -> X] : \A n \in 1..N, vals \in X : step[<<n, vals>>] = Next1(vals)
  <2>1. [nv \in (1..N) \X X |-> Next1(nv[2])] \in [(1..N) \X X -> X] BY <1>4
  <2> QED BY <2>1
<1>6. PICK f : /\ f \in [0..N -> X]
               /\ \A n \in 0..N : f[n] = IF n = 0 THEN Start ELSE step[<<n, f[n - 1]>>]
  <2>1. PICK first \in X : first = Start BY <1>3
  <2>2. \E f : Iterates(f, N, X, first, step) BY <1>1, <1>5, <2>1, Iteration
  <2> QED BY <2>1, <2>2 DEF Iterates
<1>7. f = [n \in 0..N |-> IF n = 0 THEN Start ELSE Next1(f[n - 1])]
  <2>1. ASSUME NEW n \in 1..N PROVE step[<<n, f[n - 1]>>] = Next1(f[n - 1])
    <3>1. n - 1 \in 0..N OBVIOUS
    <3>2. f[n - 1] \in X BY <1>6, <3>1
    <3> QED BY <1>5, <3>2
  <2>2. \A n \in 0..N : n # 0 => n \in 1..N OBVIOUS
  <2> QED BY <1>6, <2>1, <2>2
<1>8. Rounds(nodes, complete) =
        [n \in 0..N |-> IF n = 0 THEN Start ELSE Next1(Rounds(nodes, complete)[n - 1])]
  BY <1>1, <1>7, Zenon DEF Rounds, Next1, Start
<1>9. Rounds(nodes, complete)[0] = Start BY <1>8
<1>10. ASSUME NEW n \in 1..N
       PROVE  Rounds(nodes, complete)[n] = Next1(Rounds(nodes, complete)[n - 1])
  <2>1. n \in 0..N /\ n # 0 OBVIOUS
  <2> QED BY <2>1, <1>8
<1> DEFINE Typed == {n \in Nat : Rounds(nodes, complete)[n] \in X}
<1>11. ASSUME NEW n \in 1..N, n - 1 \in Typed PROVE n \in Typed
  BY <1>4, <1>10, <1>11
<1>12. 0..N \subseteq Typed
  <2>1. 0 \in Typed BY <1>3, <1>9
  <2> HIDE DEF Typed
  <2> QED BY <1>11, <2>1, CountingUp
<1> QED BY <1>1, <1>2, <1>10, <1>12 DEF Next1

\* The nodes in an order that serves their dependencies.
Orders(seq, nodes) ==
  /\ Range(seq) = DOMAIN nodes
  /\ \A k, l \in DOMAIN seq : k # l => seq[k] # seq[l]
  /\ \A k \in DOMAIN seq : \A d \in Dependencies(nodes[seq[k]]) : \E l \in DOMAIN seq : l < k /\ seq[l] = d

\* The values of an ordered graph are its meaning: a round settles the next node of
\* the order, and there are as many rounds as nodes.
LEMMA ConsistentIsMeaning ==
  ASSUME NEW nodes, Sound(nodes), NEW vals, NEW complete, Consistent(vals, nodes, complete),
         DOMAIN vals = DOMAIN nodes, NEW seq \in Seq(DOMAIN nodes), Orders(seq, nodes)
  PROVE  vals = Meaning(nodes, complete)
<1>1. PICK N \in Nat : N = Len(nodes) /\ DOMAIN nodes = 1..N BY DEF Sound
<1> DEFINE rounds == Rounds(nodes, complete)
<1>2. /\ \A n \in 1..Len(nodes) : rounds[n] =
           [i \in DOMAIN nodes |-> Evaluated(FALSE, nodes[i], rounds[n - 1], complete)]
      /\ \A n \in 0..Len(nodes) : rounds[n] \in [DOMAIN nodes -> Values]
  BY RoundsHaveValues, Zenon
<1> HIDE DEF rounds
<1>3. /\ \A n \in 1..N, i \in DOMAIN nodes :
           rounds[n][i] = Evaluated(FALSE, nodes[i], rounds[n - 1], complete)
      /\ \A n \in 0..N : rounds[n] \in [DOMAIN nodes -> Values]
  BY <1>1, <1>2
<1>4. Len(seq) \in Nat /\ DOMAIN seq = 1..Len(seq) OBVIOUS
<1>5. Len(seq) <= N
  <2>1. PICK M \in Nat : M = Len(seq) BY <1>4
  <2>2. seq \in [1..M -> 1..N] BY <1>1, <1>4, <2>1
  <2>3. /\ IsFiniteSet(1..M) /\ Cardinality(1..M) = M
        /\ IsFiniteSet(1..N) /\ Cardinality(1..N) = N
    <3>1. M \in Int /\ N \in Int /\ 1 \in Int OBVIOUS
    <3>2. /\ IsFiniteSet(1..M) /\ Cardinality(1..M) = IF 1 > M THEN 0 ELSE M - 1 + 1
          /\ IsFiniteSet(1..N) /\ Cardinality(1..N) = IF 1 > N THEN 0 ELSE N - 1 + 1
      BY <3>1, FS_Interval, Zenon
    <3> QED BY <3>2
  <2>4. ~(\E k, l \in 1..M : k # l /\ seq[k] = seq[l]) BY <1>4, <2>1 DEF Orders
  <2>5. ~(Cardinality(1..N) < Cardinality(1..M)) BY <2>2, <2>3, <2>4, FS_PigeonHole
  <2> QED BY <2>1, <2>3, <2>5
<1> DEFINE Settled(n) == \A k \in DOMAIN seq : k <= n => rounds[n][seq[k]] = vals[seq[k]]
           Right == {n \in Nat : Settled(n)}
<1>6. ASSUME NEW n \in 1..N, n - 1 \in Right PROVE n \in Right
  <2>1. PICK p \in 0..N : p = n - 1 OBVIOUS
  <2>2. Settled(p) BY <1>6, <2>1
  <2>3. ASSUME NEW k \in DOMAIN seq, k <= n PROVE rounds[n][seq[k]] = vals[seq[k]]
    <3>1. PICK i \in DOMAIN nodes : i = seq[k] OBVIOUS
    <3>2. ASSUME NEW d \in Dependencies(nodes[i]) PROVE vals[d] \in Values /\ rounds[p][d] = vals[d]
      <4>1. PICK l \in DOMAIN seq : l < k /\ seq[l] = d BY <3>1 DEF Orders
      <4>2. l <= p BY <1>4, <2>1, <2>3, <4>1
      <4>3. rounds[p][d] = vals[d] BY <2>2, <4>1, <4>2
      <4>4. vals[d] \in Values BY <4>1 DEF Consistent
      <4> QED BY <4>3, <4>4
    <3>3. Agree(Dependencies(nodes[i]), vals, rounds[p]) /\ Agree(Dependencies(nodes[i]), vals, vals)
      BY <3>2 DEF Agree
    <3>4. Evaluable(nodes[i]) BY DEF Sound
    <3>5. Evaluated(FALSE, nodes[i], rounds[p], complete) = Evaluated(FALSE, nodes[i], vals, complete)
      <4>0. PICK node : node = nodes[i] OBVIOUS
      <4>1. Evaluated(FALSE, node, rounds[p], complete) = Evaluated(TRUE, node, vals, complete)
        BY <3>3, <3>4, <4>0, NodesAgree
      <4>2. Evaluated(FALSE, node, vals, complete) = Evaluated(TRUE, node, vals, complete)
        BY <3>3, <3>4, <4>0, NodesAgree
      <4> QED BY <4>0, <4>1, <4>2
    <3>6. rounds[n][i] = Evaluated(FALSE, nodes[i], rounds[p], complete) BY <1>3, <2>1
    <3>7. vals[i] = Evaluated(FALSE, nodes[i], vals, complete) BY DEF Consistent
    <3> QED BY <3>1, <3>5, <3>6, <3>7
  <2>4. Settled(n) BY <2>3
  <2> QED BY <2>4
<1>7. Settled(N)
  <2>1. 0 \in Right
    <3>1. \A k \in DOMAIN seq : ~(k <= 0) BY <1>4
    <3>2. Settled(0) BY <3>1
    <3> QED BY <3>2
  <2> HIDE DEF Settled
  <2>2. N \in Right
    <3> HIDE DEF Right
    <3>1. 0..N \subseteq Right BY <1>6, <2>1, CountingUp
    <3> QED BY <3>1
  <2> QED BY <2>2
<1>8. ASSUME NEW i \in DOMAIN nodes PROVE rounds[N][i] = vals[i]
  <2>1. PICK k \in DOMAIN seq : seq[k] = i BY DEF Orders, Range
  <2>2. k <= N BY <1>4, <1>5
  <2> QED BY <1>7, <2>1, <2>2
<1>9. rounds[N] \in [DOMAIN nodes -> Values] /\ vals \in [DOMAIN nodes -> Values]
  BY <1>3 DEF Consistent
<1>10. rounds[N] = vals BY <1>8, <1>9
<1> QED BY <1>1, <1>10 DEF Meaning, rounds

-----------------------------------------------------------------------------
(* The values of an attempt.                                               *)

\* The nodes of the graph have values, at every time.
SoundInv == Sound(graph)

\* The values of an attempt are consistent from its first to its report, and whole
\* in the report.
Valued == phase \in {"run", "retain", "report"} \/ (late /\ phase \in {"order", "extend"})
ValueInv ==
  /\ Valued => Consistent(scratch.vals, graph, plan.complete)
  /\ phase = "report" => Nodes \subseteq Computed

\* A plan's nodes, and with them the late ones, have values when they are bound.
LEMMA BoundIsSound ==
  ASSUME NEW nodes, Whole(nodes),
         \A i \in DOMAIN nodes : nodes[i].op = "output" => nodes[i].value # None
  PROVE  Sound(Bound(nodes))
<1>1. DOMAIN Bound(nodes) = DOMAIN nodes
      /\ \A i \in DOMAIN nodes : Dependencies(Bound(nodes)[i]) \subseteq DOMAIN nodes
  BY DependenciesAreNodes
<1>2. /\ Bound(nodes) \in Seq(Range(Bound(nodes)))
      /\ \A i \in DOMAIN nodes : Evaluable(Bound(nodes)[i])
  BY BoundEvaluable
<1> QED BY <1>1, <1>2 DEF Sound

\* No graph is a sound one.
LEMMA NothingIsSound == Sound(<<>>)
BY DEF Sound, Range

\* A graph that stays stays sound.
LEMMA StillSound ==
  ASSUME SoundInv, UNCHANGED graph
  PROVE  SoundInv'
BY DEF SoundInv

\* Every step leaves a graph whose nodes have values.
LEMMA NextSound ==
  ASSUME Inv, GraphInv, AddedInv, SoundInv, [Next]_vars
  PROVE  SoundInv'
<1>1. CASE UNCHANGED graph BY <1>1, StillSound
<1>2. CASE Return BY <1>2, NothingIsSound DEF Return, SoundInv
<1>3. ASSUME NEW p \in Plans, NEW s \in BOOLEAN, Compile(p, s) PROVE SoundInv'
  <2>1. \A i \in DOMAIN p.nodes : p.nodes[i].op # "output" BY PlansAssumption DEF PlanShape
  <2>2. Sound(Bound(p.nodes)) BY <2>1, PlanIsWhole, BoundIsSound
  <2>3. graph' = Bound(p.nodes) BY <1>3 DEF Compile
  <2> QED BY <2>2, <2>3 DEF SoundInv
<1>4. ASSUME NEW outputs \in [DOMAIN plan.outputs -> {Boolean(TRUE), Boolean(FALSE), Inactive}],
             Bind(outputs)
      PROVE  SoundInv'
  <2>1. CASE Fail("competing") \/ Fail("prefix") BY <2>1, StillSound DEF Fail
  <2>2. CASE ~(Fail("competing") \/ Fail("prefix"))
    <3>1. PICK made : made = [k \in DOMAIN outputs |-> [plan.outputs[k] EXCEPT !.value = outputs[k]]]
      OBVIOUS
    <3>2. phase = "retain" /\ plan \in Plans BY <1>4 DEF Bind, GraphInv
    <3>3. PICK nodes : /\ nodes = plan.nodes \o added \o made /\ Whole(nodes)
                       /\ Widens(plan.nodes, nodes)
                       /\ \A i \in DOMAIN nodes \ DOMAIN plan.nodes : LateFits(nodes[i])
      BY <3>1, <3>2, LateIsWhole
    <3>4. graph' = Bound(nodes) BY <1>4, <2>2, <3>1, <3>3 DEF Bind
    <3>5. ASSUME NEW i \in DOMAIN nodes, nodes[i].op = "output" PROVE nodes[i].value # None
      <4>1. CASE i \in DOMAIN plan.nodes
        BY <3>2, <3>3, <3>5, <4>1, PlansAssumption DEF Widens, PlanShape
      <4>2. CASE i \notin DOMAIN plan.nodes BY <3>3, <3>5, <4>2 DEF LateFits
      <4> QED BY <4>1, <4>2
    <3>6. Sound(Bound(nodes)) BY <3>3, <3>5, BoundIsSound
    <3> QED BY <3>4, <3>6 DEF SoundInv
  <2> QED BY <2>1, <2>2
<1> QED
  BY <1>1, <1>2, <1>3, <1>4 DEF Next, vars, Order, Ordered, Check, Begin, Run, Prepare, Retain,
     Extend, Report, Finish, Exhausted, Refused, Renew, Fail

\* Values that stay in a graph that stays.
LEMMA StillValued ==
  ASSUME ValueInv, UNCHANGED <<plan, graph, scratch>>, Valued' => Valued,
         phase' = "report" => phase = "report"
  PROVE  ValueInv'
BY DEF ValueInv, Nodes, Computed

\* An attempt begins without a value.
LEMMA BeginValued ==
  ASSUME Begin PROVE ValueInv'
<1>1. CASE Return BY <1>1 DEF Return, ValueInv, Valued
<1>2. CASE ~Return
  <2>1. phase' = "run" /\ scratch'.vals = Empty BY <1>2 DEF Begin
  <2>2. DOMAIN Empty = {} /\ Empty \in [{} -> Values] BY DEF Empty
  <2>3. Consistent(Empty, graph', plan'.complete) BY <2>2 DEF Consistent
  <2> QED BY <2>1, <2>3 DEF ValueInv
<1> QED BY <1>1, <1>2

\* A node that runs gets what it means by the values of its dependencies.
LEMMA RunValued ==
  ASSUME Inv, GraphInv, SoundInv, ValueInv, NEW i \in Nodes, Run(i)
  PROVE  ValueInv'
<1>1. CASE phase' = "refused" BY <1>1 DEF ValueInv, Valued
<1>2. CASE phase' # "refused"
  <2>1. phase = "run" /\ Obstacle(i) = "none" BY <1>2 DEF Run, Fail, Refuse
  <2>2. /\ scratch'.vals = [j \in Computed \cup {i} |-> IF j = i THEN Computation(i) ELSE scratch.vals[j]]
        /\ UNCHANGED <<plan, phase, graph>>
    BY <1>2, <2>1 DEF Run
  <2>3. i \notin Computed /\ Dependencies(graph[i]) \subseteq Computed BY <2>1 DEF Obstacle
  <2>4. Consistent(scratch.vals, graph, plan.complete) BY <2>1 DEF ValueInv, Valued
  <2>5. Consistent(scratch'.vals, graph, plan.complete)
    <3>1. PICK vals, more : vals = scratch.vals /\ more = scratch'.vals OBVIOUS
    <3>2. more = [j \in DOMAIN vals \cup {i} |->
                    IF j = i THEN Evaluated(TRUE, graph[i], vals, plan.complete) ELSE vals[j]]
      BY <2>2, <3>1, Zenon DEF Computed, Computation
    <3>3. i \in DOMAIN graph /\ i \notin DOMAIN vals /\ Dependencies(graph[i]) \subseteq DOMAIN vals
      BY <2>3, <3>1 DEF Computed, Nodes
    <3>4. Sound(graph) /\ Consistent(vals, graph, plan.complete) BY <2>4, <3>1 DEF SoundInv
    <3>5. Consistent(more, graph, plan.complete) BY <3>2, <3>3, <3>4, ValuesGrow, Zenon
    <3> QED BY <3>1, <3>5
  <2> QED BY <2>1, <2>2, <2>5 DEF ValueInv
<1> QED BY <1>1, <1>2

\* Binding the reads again leaves the prefix as it was.
LEMMA BindValued ==
  ASSUME Inv, GraphInv, AddedInv, ValueInv,
         NEW outputs \in [DOMAIN plan.outputs -> {Boolean(TRUE), Boolean(FALSE), Inactive}], Bind(outputs)
  PROVE  ValueInv'
<1>1. CASE Fail("competing") \/ Fail("prefix") BY <1>1 DEF Fail, Refuse, ValueInv, Valued
<1>2. CASE ~(Fail("competing") \/ Fail("prefix"))
  <2>1. PICK made : made = [k \in DOMAIN outputs |-> [plan.outputs[k] EXCEPT !.value = outputs[k]]]
    OBVIOUS
  <2>2. phase = "retain" /\ plan \in Plans BY DEF Bind, GraphInv
  <2>3. PICK nodes : /\ nodes = plan.nodes \o added \o made /\ Whole(nodes)
                     /\ Widens(plan.nodes, nodes)
    BY <2>1, <2>2, LateIsWhole
  <2>4. /\ graph' = Bound(nodes) /\ phase' = "order" /\ UNCHANGED <<plan, scratch>>
        /\ \A i \in prefix : Bound(nodes)[i] = graph[i]
    BY <1>2, <2>1, <2>3 DEF Bind
  <2>5. Computed = prefix /\ ~late /\ graph = Bound(plan.nodes)
    BY <2>2 DEF Inv, ScratchSound, LateSound, GraphInv
  <2>6. PICK vals : vals = scratch.vals OBVIOUS
  <2>7. Consistent(vals, graph, plan.complete) BY <2>2, <2>6 DEF ValueInv, Valued
  <2>8. DOMAIN vals \subseteq DOMAIN graph'
    <3>1. DOMAIN graph = DOMAIN plan.nodes /\ DOMAIN graph' = DOMAIN nodes
      BY <2>4, <2>5 DEF Bound
    <3>2. DOMAIN plan.nodes \subseteq DOMAIN nodes BY <2>3 DEF Widens
    <3> QED BY <2>7, <3>1, <3>2 DEF Consistent
  <2>9. \A i \in DOMAIN vals : graph'[i] = graph[i] BY <2>4, <2>5, <2>6 DEF Computed
  <2>10. Consistent(vals, graph', plan.complete) BY <2>7, <2>8, <2>9 DEF Consistent
  <2> QED BY <2>4, <2>6, <2>10 DEF ValueInv
<1> QED BY <1>1, <1>2

\* When nothing is left to run, every node has its value.
LEMMA ReportValued ==
  ASSUME Inv, ValueInv, Report
  PROVE  ValueInv'
<1>1. /\ phase = "run" /\ todo = {} /\ (staged => late) /\ phase' = "report"
      /\ UNCHANGED <<plan, graph, scratch>>
  BY DEF Report
<1>2. Nodes \subseteq Computed BY <1>1 DEF Inv, ScratchSound
<1> QED BY <1>1, <1>2 DEF ValueInv, Valued, Nodes, Computed

\* Every step keeps the values consistent.
LEMMA NextValued ==
  ASSUME Inv, GraphInv, AddedInv, SoundInv, ValueInv, [Next]_vars
  PROVE  ValueInv'
<1>1. CASE UNCHANGED vars BY <1>1, StillValued DEF vars, Valued
<1>2. ASSUME NEW p \in Plans, NEW s \in BOOLEAN, Compile(p, s) PROVE ValueInv'
  <2>1. phase = "idle" /\ phase' = "order" /\ late' = late BY <1>2 DEF Compile
  <2>2. ~late BY <2>1 DEF Inv, LateSound
  <2> QED BY <2>1, <2>2 DEF ValueInv, Valued
<1>3. ASSUME NEW i \in Nodes, Order(i) PROVE ValueInv'
  BY <1>3, StillValued DEF Order, Valued
<1>4. ASSUME NEW i \in Nodes, Run(i) PROVE ValueInv' BY <1>4, RunValued
<1>5. CASE Ordered
  <2>1. CASE phase' = "refused" BY <2>1 DEF ValueInv, Valued
  <2>2. CASE phase' # "refused"
    <3>1. /\ phase = "order" /\ UNCHANGED <<plan, graph, late, scratch>>
          /\ phase' = IF late THEN "extend" ELSE IF staged THEN "check" ELSE "ready"
      BY <1>5, <2>2 DEF Ordered, Refuse
    <3> QED BY <3>1, StillValued DEF Valued
  <2> QED BY <2>1, <2>2
<1>6. CASE Check
  <2>1. phase = "check" /\ phase' \in {"ready", "refused"} BY <1>6 DEF Check, Refuse
  <2> QED BY <2>1 DEF ValueInv, Valued
<1>7. CASE Begin BY <1>7, BeginValued
<1>8. CASE Prepare BY <1>8, StillValued DEF Prepare, Valued
<1>9. CASE Report BY <1>9, ReportValued
<1>10. ASSUME NEW a \in [template : DOMAIN plan.templates, eligible : BOOLEAN], Retain(a)
       PROVE  ValueInv'
  <2>1. CASE phase' = "refused" BY <2>1 DEF ValueInv, Valued
  <2>2. CASE phase' # "refused"
    <3>1. UNCHANGED <<plan, phase, late, graph, scratch>> BY <1>10, <2>2 DEF Retain, Fail, Refuse
    <3> QED BY <3>1, StillValued DEF Valued
  <2> QED BY <2>1, <2>2
<1>11. ASSUME NEW outputs \in [DOMAIN plan.outputs -> {Boolean(TRUE), Boolean(FALSE), Inactive}],
              Bind(outputs)
       PROVE  ValueInv'
  BY <1>11, BindValued
<1>12. CASE Extend
  <2>1. CASE phase' = "refused" BY <2>1 DEF ValueInv, Valued
  <2>2. CASE phase' # "refused"
    <3>1. /\ phase = "extend" /\ phase' = "run" /\ scratch'.vals = scratch.vals
          /\ UNCHANGED <<plan, late, graph>>
      BY <1>12, <2>2 DEF Extend, Fail, Refuse
    <3>2. late BY <3>1 DEF Inv, LateSound
    <3> QED BY <3>1, <3>2 DEF ValueInv, Valued
  <2> QED BY <2>1, <2>2
<1>13. CASE Finish \/ Exhausted \/ Refused
  BY <1>13 DEF Finish, Exhausted, Refused, Return, ValueInv, Valued
<1>14. CASE Renew
  <2>1. phase = "idle" /\ phase' = "idle" BY <1>14 DEF Renew
  <2> QED BY <2>1 DEF ValueInv, Valued
<1> QED
  BY <1>1, <1>2, <1>3, <1>4, <1>5, <1>6, <1>7, <1>8, <1>9, <1>10, <1>11, <1>12, <1>13, <1>14 DEF Next

\* Whatever the plan, the order of its nodes and of its stages, the applications and
\* the scratch, a report gives every node the value it has in the whole graph.
THEOREM ReportMeans == Spec => []ReportIsMeaning
<1>1. Init => SoundInv /\ ValueInv /\ IdleInv
  BY NothingIsSound DEF Init, SoundInv, ValueInv, Valued, IdleInv
<1>2. Inv /\ SoundInv /\ ValueInv => ReportIsMeaning
  <2> SUFFICES ASSUME Inv, SoundInv, ValueInv, phase = "report"
               PROVE  scratch.vals = Meaning(graph, plan.complete)
    BY DEF ReportIsMeaning
  <2>1. PICK vals : vals = scratch.vals OBVIOUS
  <2>2. Consistent(vals, graph, plan.complete) /\ DOMAIN graph \subseteq DOMAIN vals
    BY <2>1 DEF ValueInv, Valued, Nodes, Computed
  <2>3. DOMAIN vals = DOMAIN graph BY <2>2 DEF Consistent
  <2>4. order \in Seq(DOMAIN graph) /\ Orders(order, graph)
    BY DEF Inv, OrderSound, OrderWhole, Accepted, Placed, Nodes, Orders
  <2>5. Sound(graph) BY DEF SoundInv
  <2>6. vals = Meaning(graph, plan.complete) BY <2>2, <2>3, <2>4, <2>5, ConsistentIsMeaning
  <2> QED BY <2>1, <2>6
<1>3. Inv /\ IdleInv /\ GraphInv /\ AddedInv /\ CycleInv /\ SoundInv /\ ValueInv /\ [Next]_vars
        => (Inv /\ IdleInv /\ GraphInv /\ AddedInv /\ CycleInv /\ SoundInv /\ ValueInv)'
  BY NextInv, NextGraph, NextSound, NextValued
<1> QED BY <1>1, <1>2, <1>3, InitInv, InitGraph, PTL DEF Spec
=============================================================================
