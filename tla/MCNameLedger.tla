---------------------------- MODULE MCNameLedger ----------------------------
EXTENDS NameLedger

Row(n, kind, state) == [id |-> n, kind |-> kind, owner |-> 0, state |-> state]
At(n, kind, owner) == [id |-> n, kind |-> kind, owner |-> owner]
File(es, r) == [entries |-> es, last |-> Len(es), revision |-> r]

\* An empty registry and one whose second entry is retired.
Registries == {Empty, File(<<Row(1, "gem", "active"), Row(2, "stat", "cut")>>, 3)}

Weights == [r \in Reasons |-> 1]

Define(n, kind) == [form |-> "definition", name |-> n, kind |-> kind]
Slot(n, owner) == [form |-> "slot", name |-> n, kind |-> "parameter", owner |-> owner]
Alias(n, target) == [form |-> "alias", name |-> n, target |-> target]

Asked == {Define(1, "gem"), Define(2, "stat"), Slot(1, 1), Slot(1, 2),
          Alias(2, At(1, "gem", 0)), Alias(1, At(2, "stat", 0)), Define(1, "parameter")}

Described == {{}, {At(1, "gem", 0)}}
=============================================================================
