----------------------------- MODULE MCEffectPlan -----------------------------
(* Families of small plans, each around one kind of read, with up to two      *)
(* retained applications of the support that delivers into it.                *)
EXTENDS EffectPlan

\* A node: its operation, the reads it uses, its gates, its target and stage.
Node(op, reads, gates, to, stage) ==
  [op |-> op, reads |-> reads, gates |-> gates, to |-> to, stage |-> stage,
   a |-> 1, b |-> Min({2, Len(reads)}), c |-> Len(reads), of |-> <<>>, value |-> None]
Fixed(x) == [is |-> "ready", v |-> x]
From(is, key) == [is |-> is, key |-> key]
Selected(key, stage) ==
  [Node("selection", <<>>, <<>>, [is |-> "selected", key |-> key], stage)
     EXCEPT !.a = 0, !.b = 0]
Greatest(of, stage) ==
  [Node("maximum", <<>>, <<>>, [is |-> "none", key |-> ""], stage)
     EXCEPT !.a = 0, !.b = 0, !.of = of]
Output(key, stage) ==
  [Node("output", <<>>, <<>>, Value(key), stage) EXCEPT !.a = 0, !.b = 0]
Made(nodes, templates, outputs, complete) ==
  [nodes |-> nodes, templates |-> templates, outputs |-> outputs, complete |-> complete]

\* A support whose application reads "level" and delivers a part of a channel.
Supports(read, key, v) ==
  <<[applies |-> Node("read", <<read>>, <<>>, Part(""), 2),
     delivery |-> <<Node("read", <<Fixed(v)>>, <<>>, Part(key), 2)>>]>>

Level(v) == Node("route", <<Fixed(v)>>, <<>>, Value("level"), 1)
Early(key, v) == Node("route", <<Fixed(v)>>, <<>>, Part(key), 1)

\* Two members, one of them a failure, nothing or near the limit, and two late ones.
Numbers == {Integer(2), Integer(-3), Inactive, MissingInput, UnsupportedDomain}
Sums ==
  {Made(<<Level(Boolean(TRUE)), Early("damage", x), Early("damage", y),
          Node("add", <<From(kind, "damage"), Fixed(Integer(1))>>, <<>>, Value("total"), 3)>>,
        Supports(From("value", "level"), "damage", Integer(2)), <<>>, complete) :
     x \in Numbers, y \in Numbers, kind \in {"sum", "exact"}, complete \in BOOLEAN}

Flags == {Boolean(TRUE), Boolean(FALSE), Inactive, MissingInput, UnsupportedDomain}
Anys ==
  {Made(<<Level(x), Early("flag", x), Early("flag", y),
          Node("when", <<From("any", "flag"), Fixed(Integer(1))>>, <<From("value", "level")>>,
               Value("total"), 3)>>,
        Supports(From("value", "level"), "flag", Boolean(TRUE)), <<>>, TRUE) :
     x \in Flags, y \in Flags}

Candidacies ==
  {Made(<<Selected("kind", 3), Early("kind", x), Early("kind", y),
          Node(op, <<From("present", "kind"), From("picked", "kind"), Fixed(Integer(0))>>,
               <<>>, Value("total"), 3),
          Greatest(<<2, 3, 4>>, 3)>>,
        Supports(Fixed(Boolean(TRUE)), "kind", Integer(2)), <<>>, TRUE) :
     x \in Numbers, y \in Numbers, op \in {"choose", "when"}}

\* Where a value is read: in its own gates, before it is delivered, in a circle.
Reads == {From("value", "output"), From("value", "delivered"), From("value", "late"),
          From("sum", "damage"), From("value", "level"), From("required", "none")}
Required(read) ==
  IF read.is = "required" THEN [is |-> "required", source |-> From("value", "level")]
  ELSE IF read.is = "select" THEN [is |-> "select", by |-> 1, yes |-> From("value", "delivered"),
                                   no |-> From("sum", "damage")]
  ELSE read
Stages ==
  {Made(<<Level(Boolean(TRUE)),
          Node("route", <<Required(x)>>, <<>>, Value("early"), s),
          Node("within", <<Fixed(Integer(1)), Fixed(Integer(1))>>, <<Required(g)>>, Value("late"), 3)>>,
        <<[applies |-> Node("read", <<From("value", "level")>>, <<>>, Part(""), 2),
           delivery |-> <<Node("read", <<From("value", d)>>, <<>>, to, 2)>>]>>,
        <<Output("output", 1)>>, TRUE) :
     x \in Reads \cup {From("select", "")}, s \in {1, 3},
     g \in {From("value", "delivered"), From("value", "late"), From("required", "none")},
     d \in {"level", "late"}, to \in {Value("delivered"), Part("damage")}}

\* Two nodes of one program, of which the second alone reaches the second read.
Programs ==
  LET reads(x) == <<From("value", "level"), x>>
  IN  {Made(<<Level(Boolean(TRUE)),
              [Node("read", reads(x), <<>>, Value("early"), 1) EXCEPT !.b = 1, !.c = 1],
              [Node("route", reads(y), <<>>, Value("late"), s) EXCEPT !.a = 2]>>,
            Supports(From("value", "level"), "damage", Integer(2)), <<>>, TRUE) :
         x, y \in {From("sum", "damage"), Fixed(Integer(1))}, s \in {1, 3}}

MCPlans == Sums \cup Anys \cup Candidacies \cup Stages \cup Programs
MCReusing ==
  {p \in Sums : ~p.complete \/ p.nodes[2].reads[1].v = Integer(2)} \cup
  {p \in Stages : p.nodes[2].stage = 3 /\ p.nodes[3].gates[1].is = "required"}
MCApplicationKeys == <<"applies 1", "applies 2">>
=============================================================================
