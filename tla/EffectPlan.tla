------------------------------ MODULE EffectPlan ------------------------------
(***************************************************************************)
(* The owned effect plan: a request is compiled to nodes that produce final *)
(* values and parts of contribution channels.  Nodes read values, reductions*)
(* of channels and selections, and are ordered by those reads.  A plain     *)
(* evaluation runs every node.  A staged one runs the nodes of the early    *)
(* stages, decides from their values which supports apply, appends what     *)
(* those deliver, binds the reads again and runs the rest in the same       *)
(* attempt.  One scratch serves many attempts, and any step of an attempt   *)
(* may find its work budget spent.                                          *)
(*                                                                         *)
(* A value is an integer or a Boolean, and reads nest one level.  Stages are *)
(* numbers, where the code's are ordered only as declared and a dependency  *)
(* between stages not ordered is refused: any order extends to one of       *)
(* numbers, under which more plans are accepted.  A selection exists in the *)
(* plan for every query of it, and generated inputs, modifier transforms,   *)
(* products and source properties are left out.                             *)
(***************************************************************************)
EXTENDS Integers, Sequences, SequencesExt, FiniteSetsExt

CONSTANTS
  Plans,                  \* records [nodes, templates, complete]
  Preparation,            \* the last stage of the preparation prefix
  MaxInteger,             \* the magnitude of BoundedInteger
  ApplicationKeys,        \* the applicability keys of the retained applications
  Reusing                 \* the plans that may take over each other's scratch

-----------------------------------------------------------------------------
(* Values, and failures by their place in the diagnostic order.            *)

Integer(n) == [is |-> "integer", v |-> n]
Boolean(b) == [is |-> "boolean", v |-> IF b THEN 1 ELSE 0]
Inactive == [is |-> "inactive", v |-> 0]
Failure(rank) == [is |-> "failure", v |-> rank]

MissingInput == Failure(12)
MissingProducer == Failure(13)
IncompleteContributors == Failure(15)
UpstreamUnavailable == Failure(16)
ConflictingContributors == Failure(18)
AbsentSelection == Failure(19)
UnsupportedDomain == Failure(200)
IntegerOverflow == Failure(300)

Values == [is : {"integer", "failure"}, v : Int] \cup {Boolean(TRUE), Boolean(FALSE), Inactive}
Known(x) == x.is \in {"integer", "boolean"}
Failed(x) == x.is = "failure"
Bounded(n) == IF n \in -MaxInteger..MaxInteger THEN Integer(n) ELSE IntegerOverflow

\* The failure an unordered reduction passes on, None being no failure yet.
None == [is |-> "none", v |-> 0]
\* Seeded fault: an unordered reduction passes on the first failure it meets.
FirstMet(x, worst) == IF worst = None THEN x ELSE worst

Earlier(x, worst) == IF worst = None \/ x.v < worst.v THEN x ELSE worst

-----------------------------------------------------------------------------
(* Symbolic reads and what they are bound to.                              *)

Value(key) == [is |-> "value", key |-> key]
Part(key) == [is |-> "part", key |-> key]

\* The node that produces a final value, 0 if none does; the parts of a channel
\* in their order; the node that selects from it.
Producer(nodes, key) ==
  LET made == {i \in DOMAIN nodes : nodes[i].to = Value(key)}
  IN  IF made = {} THEN 0 ELSE Min(made)
PartsUpTo(nodes, key) ==
  LET parts[n \in 0..Len(nodes)] ==
        IF n = 0 THEN <<>>
        ELSE LET before == parts[n - 1]
             IN  IF nodes[n].to = Part(key) THEN Append(before, n) ELSE before
  IN  parts
Parts(nodes, key) == PartsUpTo(nodes, key)[Len(nodes)]
Selections(nodes, key) == {i \in DOMAIN nodes : nodes[i].op = "selection" /\ nodes[i].to.key = key}
Selector(nodes, key) == CHOOSE i \in Selections(nodes, key) : TRUE

ResolvePlain(nodes, p) ==
  CASE p.is = "value" -> [is |-> "final", of |-> Producer(nodes, p.key)]
    [] p.is \in {"sum", "exact", "any"} -> [is |-> p.is, of |-> Parts(nodes, p.key)]
    [] p.is \in {"present", "picked"} -> [is |-> p.is, of |-> Selector(nodes, p.key)]
    [] OTHER -> p

Resolve(nodes, p) ==
  CASE p.is = "select" -> [p EXCEPT !.yes = ResolvePlain(nodes, @),
                                    !.no = ResolvePlain(nodes, @)]
    [] p.is = "required" -> [p EXCEPT !.source = ResolvePlain(nodes, @)]
    [] OTHER -> ResolvePlain(nodes, p)

\* Every node with its reads and gates bound; a selection gets its candidates.
\* The nodes of one program have all its reads.
Bound(nodes) ==
  [i \in DOMAIN nodes |->
     [nodes[i] EXCEPT
        !.reads = [k \in DOMAIN @ |-> Resolve(nodes, @[k])],
        !.gates = [k \in DOMAIN @ |-> Resolve(nodes, @[k])],
        !.of = IF nodes[i].op = "selection" THEN Parts(nodes, nodes[i].to.key) ELSE @]]

PlainDependencies(b) ==
  CASE b.is \in {"sum", "exact", "any"} -> Range(b.of)
    [] b.is \in {"final", "present", "picked"} -> {b.of} \ {0}
    [] OTHER -> {}
ReadDependencies(b) ==
  CASE b.is = "select" -> {b.by} \cup PlainDependencies(b.yes) \cup PlainDependencies(b.no)
    [] b.is = "required" -> PlainDependencies(b.source)
    [] OTHER -> PlainDependencies(b)

\* The reads an operation can reach; the others of its program are another's.
Used(node) == {k \in DOMAIN node.reads : \E e \in {"a", "b", "c"} : node[e] = k}
Dependencies(node) ==
  UNION ({ReadDependencies(node.reads[k]) : k \in Used(node)}
           \cup {ReadDependencies(node.gates[k]) : k \in DOMAIN node.gates}
           \cup {Range(node.of)})

\* What a plan that was compiled looks like: a choice of source is decided by a
\* node of the plan, selections have their nodes, only the plan's own nodes select,
\* and none of them reads the applicability of an application.
PlainReads(p) ==
  CASE p.is = "select" -> {p.yes, p.no}
    [] p.is = "required" -> {p.source}
    [] OTHER -> {p}
PlainShape(nodes, p) ==
  /\ p.is \in {"ready", "value", "sum", "exact", "any", "present", "picked"}
  /\ p.is = "ready" => p.v \in Values
  /\ p.is \in {"present", "picked"} => Selections(nodes, p.key) # {}
ReadShape(nodes, p) ==
  /\ p.is = "select" => {"by", "yes", "no"} \subseteq DOMAIN p /\ p.by \in DOMAIN nodes
  /\ p.is = "required" => "source" \in DOMAIN p
  /\ \A q \in PlainReads(p) : PlainShape(nodes, q)
Reductions == {"selection", "maximum"}
NodeShape(nodes, node) ==
  /\ {"op", "a", "b", "c", "reads", "gates", "of", "to", "stage", "value"} \subseteq DOMAIN node
  /\ node.stage \in Int /\ node.value \in Values \cup {None}
  /\ node.op \in {"route", "read", "add", "when", "choose", "within"} \cup Reductions \cup {"output"}
  /\ node.op \notin Reductions \cup {"output"} => {node.a, node.b, node.c} \subseteq DOMAIN node.reads
  /\ node.gates \in Seq(Range(node.gates))
  /\ \A p \in Range(node.reads) \cup Range(node.gates) : ReadShape(nodes, p)
  /\ node.of \in Seq(DOMAIN nodes)
  /\ node.op = "selection" => node.reads = <<>> /\ node.gates = <<>>
OwnReads(node) == UNION {PlainReads(p) : p \in Range(node.reads) \cup Range(node.gates)}
Delivered(p) == UNION {{t.applies} \cup Range(t.delivery) : t \in Range(p.templates)}
PlanShape(p) ==
  /\ \A s \in {p.nodes, p.outputs} \cup {t.delivery : t \in Range(p.templates)} : s \in Seq(Range(s))
  /\ \A i \in DOMAIN p.nodes :
       /\ NodeShape(p.nodes, p.nodes[i])
       /\ p.nodes[i].op # "output"
       /\ \A q \in OwnReads(p.nodes[i]) : q.is = "value" => q.key \notin Range(ApplicationKeys)
  /\ \A node \in Delivered(p) : NodeShape(p.nodes, node) /\ node.op \notin {"selection", "output"}
  /\ \A node \in Range(p.outputs) : NodeShape(p.nodes, node) /\ node.op = "output"

ASSUME PlansAssumption ==
  /\ Preparation \in Int /\ ApplicationKeys \in Seq(Range(ApplicationKeys))
  /\ \A p \in Plans : PlanShape(p)

-----------------------------------------------------------------------------
(* Reductions, as the loops over the values of the members compute them.   *)

Members(of, vals) == [k \in DOMAIN of |-> vals[of[k]]]

\* A numeric fold keeps the order of its members and stops at the first failure.
OrderedSums(xs) ==
  LET acc[n \in 0..Len(xs)] ==
        IF n = 0 THEN Integer(0)
        ELSE LET sum == acc[n - 1]
             IN  IF Failed(sum) \/ xs[n] = Inactive THEN sum
                 ELSE IF Failed(xs[n]) THEN xs[n] ELSE Bounded(sum.v + xs[n].v)
  IN  acc
OrderedSum(xs) == OrderedSums(xs)[Len(xs)]

\* An unordered reduction goes on past a failure, and keeps the earliest in the
\* diagnostic order.
Gathered(kind, xs) ==
  LET Join(total, n) == IF kind = "exact" THEN total + n ELSE IF n = 1 THEN 1 ELSE total
      acc[n \in 0..Len(xs)] ==
        IF n = 0 THEN [total |-> 0, worst |-> None]
        ELSE LET before == acc[n - 1]
             IN  CASE Known(xs[n]) -> [before EXCEPT !.total = Join(@, xs[n].v)]
                   [] Failed(xs[n]) -> [before EXCEPT !.worst = Earlier(xs[n], @)]
                   [] OTHER -> before
  IN  acc
ExactIntegerSum(xs) ==
  LET sum == Gathered("exact", xs)[Len(xs)]
  IN  IF sum.worst = None THEN Bounded(sum.total) ELSE sum.worst
AnyOf(xs) ==
  LET any == Gathered("any", xs)[Len(xs)]
  IN  IF any.worst = None THEN Boolean(any.total = 1) ELSE any.worst

\* A selection takes the one number its candidates agree on.
Candidates(xs) ==
  LET acc[n \in 0..Len(xs)] ==
        IF n = 0 THEN [picked |-> Inactive, worst |-> None]
        ELSE LET before == acc[n - 1]
             IN  CASE xs[n] = Inactive -> before
                   [] Known(xs[n]) /\ before.picked \in {Inactive, xs[n]} ->
                        [before EXCEPT !.picked = xs[n]]
                   [] OTHER -> [before EXCEPT !.worst =
                        Earlier(IF Known(xs[n]) THEN ConflictingContributors ELSE xs[n], @)]
  IN  acc
NumericSelection(xs) ==
  LET end == Candidates(xs)[Len(xs)]
  IN  IF end.worst = None THEN end.picked ELSE end.worst

Maxima(xs) ==
  LET acc[n \in 0..Len(xs)] ==
        IF n = 0 THEN Inactive
        ELSE LET most == acc[n - 1]
             IN  IF Failed(most) \/ xs[n] = Inactive THEN most
                 ELSE IF Failed(xs[n]) \/ most = Inactive \/ xs[n].v > most.v THEN xs[n] ELSE most
  IN  acc
ApplicationMaximum(xs) == Maxima(xs)[Len(xs)]

Reduced(kind, xs) ==
  CASE kind = "sum" -> OrderedSum(xs)
    [] kind = "exact" -> ExactIntegerSum(xs)
    [] kind = "any" -> AnyOf(xs)
    [] kind = "selection" -> NumericSelection(xs)
    [] kind = "maximum" -> ApplicationMaximum(xs)

\* Gates are a conjunction: a false or inactive one ends the loop, and of the
\* failures the first is passed on.
GateResults(gates) ==
  LET acc[n \in 0..Len(gates)] ==
        IF n = 0 THEN None
        ELSE LET before == acc[n - 1]
             IN  CASE before = Inactive -> before
                   [] gates[n] \in {Inactive, Boolean(FALSE)} -> Inactive
                   [] Failed(gates[n]) /\ before = None -> gates[n]
                   [] OTHER -> before
  IN  acc
GateResult(gates) == GateResults(gates)[Len(gates)]

-----------------------------------------------------------------------------
(* What they mean: the same on the set of the members, without a loop.     *)

Mildest(failures) == CHOOSE x \in failures : \A y \in failures : x.v <= y.v

\* What the numbers of the first n members come to.
Totals(xs) ==
  LET total[n \in 0..Len(xs)] ==
        IF n = 0 THEN 0 ELSE total[n - 1] + IF Known(xs[n]) THEN xs[n].v ELSE 0
  IN  total

Failing(xs) == {k \in DOMAIN xs : Failed(xs[k])}
Counted(xs) == {k \in DOMAIN xs : Known(xs[k])}
FirstFailure(xs) == xs[Min(Failing(xs))]
MildestFailure(xs) == Mildest({xs[k] : k \in Failing(xs)})

\* A sum breaks at the first member that is a failure or takes it out of bounds.
SumMeans(xs) ==
  LET broken == Failing(xs) \cup {k \in Counted(xs) : ~Known(Bounded(Totals(xs)[k]))}
  IN  IF broken = {} THEN Integer(Totals(xs)[Len(xs)])
      ELSE IF Failed(xs[Min(broken)]) THEN xs[Min(broken)] ELSE IntegerOverflow
ExactMeans(xs) == IF Failing(xs) = {} THEN Bounded(Totals(xs)[Len(xs)]) ELSE MildestFailure(xs)
AnyMeans(xs) == IF Failing(xs) = {} THEN Boolean(\E k \in Counted(xs) : xs[k].v = 1) ELSE MildestFailure(xs)
SelectionMeans(xs) ==
  LET numbers == {xs[k] : k \in Counted(xs)}
      conflicts == IF \E x, y \in numbers : x # y THEN {ConflictingContributors} ELSE {}
      blocked == conflicts \cup {xs[k] : k \in Failing(xs)}
  IN  IF blocked # {} THEN Mildest(blocked)
      ELSE IF numbers = {} THEN Inactive ELSE CHOOSE x \in numbers : TRUE
MaximumMeans(xs) ==
  IF Failing(xs) # {} THEN FirstFailure(xs)
  ELSE IF Counted(xs) = {} THEN Inactive
  ELSE xs[Min({k \in Counted(xs) : \A l \in Counted(xs) : xs[l].v <= xs[k].v})]

ReductionMeans(kind, xs) ==
  CASE kind = "sum" -> SumMeans(xs)
    [] kind = "exact" -> ExactMeans(xs)
    [] kind = "any" -> AnyMeans(xs)
    [] kind = "selection" -> SelectionMeans(xs)
    [] kind = "maximum" -> MaximumMeans(xs)

GatesMean(gates) ==
  IF \E k \in DOMAIN gates : gates[k] \in {Inactive, Boolean(FALSE)} THEN Inactive
  ELSE IF Failing(gates) # {} THEN FirstFailure(gates) ELSE None

-----------------------------------------------------------------------------
(* A node's value; looped tells the computation from what it means.        *)

Reduction(looped, kind, xs) == IF looped THEN Reduced(kind, xs) ELSE ReductionMeans(kind, xs)

PlainRead(looped, b, vals, complete) ==
  CASE b.is = "ready" -> b.v
    [] b.is = "present" -> IF Failed(vals[b.of]) THEN vals[b.of] ELSE Boolean(Known(vals[b.of]))
    [] b.is = "picked" -> IF vals[b.of] = Inactive THEN AbsentSelection ELSE vals[b.of]
    [] OTHER -> IF ~complete THEN IncompleteContributors
                ELSE IF b.is # "final" THEN Reduction(looped, b.is, Members(b.of, vals))
                ELSE IF b.of = 0 THEN MissingProducer ELSE vals[b.of]

Read(looped, b, vals, complete) ==
  CASE b.is = "select" ->
         CASE vals[b.by] = Boolean(TRUE) -> PlainRead(looped, b.yes, vals, complete)
           [] vals[b.by] = Boolean(FALSE) -> PlainRead(looped, b.no, vals, complete)
           [] OTHER -> vals[b.by]
    [] b.is = "required" ->
         LET x == PlainRead(looped, b.source, vals, complete)
         IN  CASE Known(x) -> Boolean(TRUE)
               [] x = Inactive -> MissingInput
               [] OTHER -> x
    [] OTHER -> PlainRead(looped, b, vals, complete)

\* A program demands its reads one by one, and only those it comes to.
Program(node, facts) ==
  LET Demand(k) == IF facts[k] = Inactive THEN UpstreamUnavailable ELSE facts[k]
      a == Demand(node.a)
  IN  IF node.op = "route" THEN facts[node.a]
      ELSE IF Failed(a) THEN a
      ELSE CASE
           node.op = "read" -> a
        [] node.op = "add" ->
             IF Failed(Demand(node.b)) THEN Demand(node.b) ELSE Bounded(a.v + Demand(node.b).v)
        [] node.op = "when" -> IF a = Boolean(FALSE) THEN Inactive ELSE Demand(node.b)
        [] node.op = "choose" -> Demand(IF a = Boolean(TRUE) THEN node.b ELSE node.c)
        [] node.op = "within" -> IF a.v >= 0 THEN a ELSE UnsupportedDomain

\* A node whose gates are open: a value bound with it (an output of the native
\* preparation, the rejection of an application), a reduction or a program.
Operation(looped, node, vals, complete) ==
  IF node.value # None THEN node.value
  ELSE IF node.op \in Reductions
  THEN IF complete THEN Reduction(looped, node.op, Members(node.of, vals)) ELSE IncompleteContributors
  ELSE Program(node, [k \in Used(node) |-> Read(looped, node.reads[k], vals, complete)])

Evaluated(looped, node, vals, complete) ==
  LET gates == [k \in DOMAIN node.gates |-> Read(looped, node.gates[k], vals, complete)]
      gate == IF looped THEN GateResult(gates) ELSE GatesMean(gates)
  IN  IF gate = None THEN Operation(looped, node, vals, complete) ELSE gate

-----------------------------------------------------------------------------
(* The attempt.                                                            *)

VARIABLES
  plan,
  staged,
  phase,      \* "idle", "order", "check", "ready", "run", "retain", "extend", "report",
              \* "refused"
  why,        \* the refusal
  late,       \* the graph holds the retained applications
  graph,      \* the bound nodes
  order,      \* the nodes in the order found so far
  prefix,     \* the nodes of the preparation prefix
  todo,       \* the scheduled nodes still to run
  retained,   \* how many applications are retained
  added,      \* and their nodes
  scratch     \* [owner, size, vals]: whose values, of how many nodes, the computed ones

vars == <<plan, staged, phase, why, late, graph, order, prefix, todo, retained, added, scratch>>

Empty == [i \in {} |-> None]
Cleared == [owner |-> {}, size |-> 0, vals |-> Empty]
NoPlan == [nodes |-> <<>>, templates |-> <<>>, outputs |-> <<>>, complete |-> FALSE]

Nodes == DOMAIN graph
Placed == Range(order)
\* Seeded fault: the gates of a node do not hold it back.
ReadyUngated ==
  {i \in Nodes \ Placed :
     UNION {ReadDependencies(graph[i].reads[k]) : k \in DOMAIN graph[i].reads} \subseteq Placed}

Ready == {i \in Nodes \ Placed : Dependencies(graph[i]) \subseteq Placed}
Computed == DOMAIN scratch.vals

Refuse(reason) ==
  /\ phase' = "refused"
  /\ why' = reason

\* The error path of an attempt.
Fail(reason) ==
  /\ Refuse(reason)
  /\ scratch' = Cleared
  /\ UNCHANGED <<plan, staged, late, graph, order, prefix, todo, retained, added>>

\* The caller has its result or its error, and keeps the scratch.
Return ==
  /\ plan' = NoPlan
  /\ staged' = FALSE
  /\ phase' = "idle"
  /\ why' = "none"
  /\ late' = FALSE
  /\ graph' = <<>>
  /\ order' = <<>>
  /\ prefix' = {}
  /\ todo' = {}
  /\ retained' = 0
  /\ added' = <<>>

Init ==
  /\ plan = NoPlan
  /\ staged = FALSE
  /\ phase = "idle"
  /\ why = "none"
  /\ late = FALSE
  /\ graph = <<>>
  /\ order = <<>>
  /\ prefix = {}
  /\ todo = {}
  /\ retained = 0
  /\ added = <<>>
  /\ scratch = Cleared

\* Compile a request; the scratch is new or holds another plan's values.
Compile(p, s) ==
  /\ phase = "idle"
  /\ scratch = Cleared \/ (scratch.owner \cup {p}) \subseteq Reusing
  /\ plan' = p
  /\ staged' = s
  /\ phase' = "order"
  /\ graph' = Bound(p.nodes)
  /\ UNCHANGED <<why, late, order, prefix, todo, retained, added, scratch>>

\* The order takes the least node whose dependencies have their place.
Order(i) ==
  /\ phase = "order"
  /\ i \in Ready
  /\ \A j \in Ready : i <= j
  /\ order' = Append(order, i)
  /\ UNCHANGED <<plan, staged, phase, why, late, graph, prefix, todo, retained, added, scratch>>

Ordered ==
  /\ phase = "order"
  /\ Ready = {}
  /\ \/ /\ Placed = Nodes
        /\ phase' = IF late THEN "extend" ELSE IF staged THEN "check" ELSE "ready"
        /\ UNCHANGED <<why, scratch>>
     \/ /\ Placed # Nodes
        /\ Refuse("cycle")
        /\ scratch' = IF late THEN Cleared ELSE scratch
  /\ UNCHANGED <<plan, staged, late, graph, order, prefix, todo, retained, added>>

\* before_or_equal, with an order of stages that compares any two of them.
StagesKept ==
  \A i \in Nodes : \A d \in Dependencies(graph[i]) : graph[d].stage <= graph[i].stage

\* What a delivery may write, whether or not its application is retained.
Deliveries == Range(plan.outputs) \cup UNION {Range(t.delivery) : t \in Range(plan.templates)}
PotentialValues == {d.to.key : d \in {e \in Deliveries : e.to.is = "value"}}
PotentialChannels == {d.to.key : d \in {e \in Deliveries : e.to.is = "part"}}

TouchesPlain(p) ==
  \/ p.is = "value" /\ p.key \in PotentialValues
  \/ p.is \in {"sum", "exact", "any", "present", "picked"} /\ p.key \in PotentialChannels
\* Seeded fault: the two sides of a choice of source are not looked at.
TouchesPlainOnly(p) ==
  CASE p.is = "required" -> TouchesPlain(p.source)
    [] OTHER -> TouchesPlain(p)

Touches(p) ==
  CASE p.is = "select" -> TouchesPlain(p.yes) \/ TouchesPlain(p.no)
    [] p.is = "required" -> TouchesPlain(p.source)
    [] OTHER -> TouchesPlain(p)

NodeTouches(node) ==
  IF node.op = "selection" THEN node.to.key \in PotentialChannels
  ELSE \/ \E k \in Used(node) : Touches(node.reads[k])
       \/ \E k \in DOMAIN node.gates : Touches(node.gates[k])

EarlyNodes == {i \in Nodes : graph[i].stage <= Preparation}

\* The prefix is the early stages, and no delivery may reach what it reads.
Check ==
  /\ phase = "check"
  /\ prefix' = EarlyNodes
  /\ CASE ~StagesKept -> Refuse("stages")
       [] StagesKept /\ (\E i \in EarlyNodes : NodeTouches(plan.nodes[i])) -> Refuse("potential")
       [] OTHER -> phase' = "ready" /\ UNCHANGED why
  /\ UNCHANGED <<plan, staged, late, graph, order, todo, retained, added, scratch>>

\* Seeded fault: the values of the attempt before are kept.
BeginKeeping ==
  /\ phase = "ready"
  /\ phase' = "run"
  /\ scratch' = [owner |-> {plan}, size |-> Len(graph), vals |-> scratch.vals]
  /\ todo' = IF staged THEN prefix ELSE Nodes
  /\ UNCHANGED <<plan, staged, why, late, graph, order, prefix, retained, added>>

\* A staged attempt of a plan that is not complete has no result.
Begin ==
  /\ phase = "ready"
  /\ IF staged /\ ~plan.complete
     THEN /\ Return
          /\ scratch' = Cleared
     ELSE /\ phase' = "run"
          /\ scratch' = [owner |-> {plan}, size |-> Len(graph), vals |-> Empty]
          /\ todo' = IF staged THEN prefix ELSE Nodes
          /\ UNCHANGED <<plan, staged, why, late, graph, order, prefix, retained, added>>

\* The prefix goes by stages, and otherwise the order decides.
Before(i, j) ==
  IF staged /\ ~late /\ graph[i].stage # graph[j].stage
  THEN graph[i].stage < graph[j].stage
  ELSE \E k, l \in DOMAIN order : k < l /\ order[k] = i /\ order[l] = j

Computation(i) ==
  Evaluated(TRUE, graph[i], scratch.vals, plan.complete)

\* The execution checks its scratch and its reads before each node.
Obstacle(i) ==
  IF scratch.owner # {plan} THEN "owner"
  ELSE IF scratch.size # Len(graph) THEN "size"
  ELSE IF i \in Computed THEN "repeat"
  ELSE IF ~(Dependencies(graph[i]) \subseteq Computed) THEN "unscheduled"
  ELSE "none"

Run(i) ==
  /\ phase = "run"
  /\ i \in todo
  /\ \A j \in todo \ {i} : Before(i, j)
  /\ IF Obstacle(i) # "none" THEN Fail(Obstacle(i))
     ELSE /\ scratch' = [owner |-> scratch.owner, size |-> scratch.size,
               vals |-> [j \in Computed \cup {i} |-> IF j = i THEN Computation(i)
                                                              ELSE scratch.vals[j]]]
          /\ todo' = todo \ {i}
          /\ UNCHANGED <<plan, staged, phase, why, late, graph, order, prefix, retained, added>>

\* An application's nodes: whether it applies, and what it then delivers.
Application(a, k) ==
  LET t == plan.templates[a.template]
      key == ApplicationKeys[k]
  IN  <<[t.applies EXCEPT !.to = Value(key),
                          !.value = IF a.eligible THEN None ELSE Boolean(FALSE)]>>
        \o [d \in DOMAIN t.delivery |->
              [t.delivery[d] EXCEPT !.gates = Append(@, Value(key))]]

Competing(nodes) ==
  \E i, j \in DOMAIN nodes :
     i # j /\ nodes[i].to = nodes[j].to /\ nodes[i].to.is = "value"

\* The prefix's values decide which applications are retained.
Prepare ==
  /\ phase = "run"
  /\ todo = {}
  /\ staged /\ ~late
  /\ phase' = "retain"
  /\ UNCHANGED <<plan, staged, why, late, graph, order, prefix, todo, retained, added, scratch>>

\* Native admission finds it eligible or not; a support may apply at several
\* positions.
Retain(a) ==
  /\ phase = "retain"
  /\ retained < Len(ApplicationKeys)
  /\ LET more == added \o Application(a, retained + 1)
     IN  IF Competing(plan.nodes \o more) THEN Fail("competing")
         ELSE /\ retained' = retained + 1
              /\ added' = more
              /\ UNCHANGED <<plan, staged, phase, why, late, graph, order, prefix, todo, scratch>>

\* Preparation says of every output what it is.  All reads are bound again; what
\* the prefix has read must be bound as it was.
Bind(outputs) ==
  /\ phase = "retain"
  /\ LET made == [k \in DOMAIN outputs |-> [plan.outputs[k] EXCEPT !.value = outputs[k]]]
         nodes == plan.nodes \o added \o made
         bound == Bound(nodes)
     IN  IF Competing(nodes) THEN Fail("competing")
         ELSE IF \E i \in prefix : bound[i] # graph[i] \/ ~(Dependencies(bound[i]) \subseteq prefix)
         THEN Fail("prefix")
         ELSE /\ late' = TRUE
              /\ phase' = "order"
              /\ graph' = bound
              /\ order' = <<>>
              /\ UNCHANGED <<plan, staged, why, prefix, todo, retained, added, scratch>>

\* The values grow in place, the prefix's stay.
Extend ==
  /\ phase = "extend"
  /\ IF StagesKept
     THEN /\ phase' = "run"
          /\ scratch' = [owner |-> scratch.owner, size |-> Len(graph), vals |-> scratch.vals]
          /\ todo' = Nodes \ prefix
          /\ UNCHANGED <<plan, staged, why, late, graph, order, prefix, retained, added>>
     ELSE Fail("stages")

Report ==
  /\ phase = "run"
  /\ todo = {}
  /\ staged => late
  /\ phase' = "report"
  /\ UNCHANGED <<plan, staged, why, late, graph, order, prefix, todo, retained, added, scratch>>

\* A staged attempt clears its scratch whatever came of it.
Finish ==
  /\ phase = "report"
  /\ Return
  /\ scratch' = IF staged THEN Cleared ELSE scratch

\* The work budget is spent at any step of an attempt, or the native preparation
\* has no answer for the prefix's values.
Exhausted ==
  /\ phase \in {"ready", "run", "retain", "extend"} \/ (phase = "order" /\ late)
  /\ Return
  /\ scratch' = Cleared

Refused ==
  /\ phase = "refused"
  /\ Return
  /\ UNCHANGED scratch

Renew ==
  /\ phase = "idle"
  /\ scratch' = Cleared
  /\ UNCHANGED <<plan, staged, phase, why, late, graph, order, prefix, todo, retained, added>>

Next ==
  \/ \E p \in Plans, s \in BOOLEAN : Compile(p, s)
  \/ \E i \in Nodes : Order(i) \/ Run(i)
  \/ Ordered \/ Check \/ Begin \/ Prepare
  \/ \E a \in [template : DOMAIN plan.templates, eligible : BOOLEAN] : Retain(a)
  \/ \E outputs \in [DOMAIN plan.outputs -> {Boolean(TRUE), Boolean(FALSE), Inactive}] :
       Bind(outputs)
  \/ Extend \/ Report \/ Finish \/ Exhausted \/ Refused \/ Renew

Spec == Init /\ [][Next]_vars

-----------------------------------------------------------------------------
(* What the values mean, without an order of evaluation.                   *)

\* The values of an acyclic graph, as the fixed point of all nodes at once.
Rounds(nodes, complete) ==
  LET vals[n \in 0..Len(nodes)] ==
        IF n = 0 THEN [i \in DOMAIN nodes |-> Inactive]
        ELSE LET before == vals[n - 1]
             IN  [i \in DOMAIN nodes |-> Evaluated(FALSE, nodes[i], before, complete)]
  IN  vals
Meaning(nodes, complete) == Rounds(nodes, complete)[Len(nodes)]

Circular(nodes) ==
  \E C \in (SUBSET DOMAIN nodes) \ {{}} :
     \A i \in C : Dependencies(nodes[i]) \cap C # {}

-----------------------------------------------------------------------------
(* Properties.                                                             *)

\* Whatever the order of the stages and of the nodes, and whatever the scratch
\* held before, a report gives every node, late ones and the prefix included, the
\* value it has in the whole graph.
ReportIsMeaning ==
  phase = "report" => scratch.vals = Meaning(graph, plan.complete)

\* The nodes of a program share its reads and its stage, and each read is one that
\* a node of it reaches.
ReadsAreReached(p) ==
  \A i \in DOMAIN p.nodes : \A k \in DOMAIN p.nodes[i].reads :
    \E j \in DOMAIN p.nodes :
      /\ p.nodes[j].reads = p.nodes[i].reads /\ p.nodes[j].stage = p.nodes[i].stage
      /\ k \in Used(p.nodes[j])

\* A plan whose prefix was admitted against the potential deliveries never finds,
\* with the applications it retains, that the prefix it ran would be bound anew,
\* unless a program of it has a read that none of its nodes reaches: admission does
\* not look at that one, and binding does.
PrefixNeverChanges == ReadsAreReached(plan) => why # "prefix"

\* No node runs twice in an attempt, before what it reads, or on another plan's
\* values: the checks of the execution are never the ones that refuse.
ReadsAreScheduled == why \notin {"owner", "size", "repeat", "unscheduled"}

\* The order of the graph has been found.
Accepted == phase \in {"check", "ready", "run", "retain", "extend", "report"}

\* An order is refused exactly for a graph that reads itself, late deliveries
\* included.
CyclesAreRefused ==
  /\ why = "cycle" => Circular(graph)
  /\ Accepted => ~Circular(graph)
=============================================================================
