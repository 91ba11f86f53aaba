------------------------------ MODULE NameLedger ------------------------------
(***************************************************************************)
(* Authoring names over the registry of identities, and the checkpoints that *)
(* publish both.  A host takes a ledger from a checked checkpoint, or an     *)
(* empty one from a registry file, stages the names that its sources ask     *)
(* for, and publishes the successor as a new immutable checkpoint.  There is *)
(* no current head: hosts choose the predecessor, and chains may fork.       *)
(*                                                                         *)
(* Digests stand for what they digest.  The build command asks for           *)
(* definitions only; slots and aliases are what other hosts may ask for.     *)
(* Directories are published whole (Publication), but what lies in one may   *)
(* have been copied together from several.                                   *)
(***************************************************************************)
EXTENDS RegistrySnapshot

CONSTANTS
  Names,                \* numbers, in the order of the spellings
  Files,                \* registries of sources, as accepted files
  Requests,             \* what hosts may ask for
  Schemas,              \* the targets described by a source schema
  MaxNames,             \* SymbolLimits::max_symbols
  MaxRequests,          \* AllocationLimits::max_requests
  MaxBuilt              \* bound: checkpoints built

\* Definitions and slots have name spaces of their own, definitions first.
Keys == {"definition", "slot"} \X Names
Targets == [id : Ids, kind : Kinds, owner : 0..MaxInteger]
Space(target) == IF target.owner = 0 THEN "definition" ELSE "slot"

\* NameRequest and request_key.
Request ==
  [form : {"definition"}, name : Names, kind : Kinds]
    \cup [form : {"slot"}, name : Names, kind : Kinds, owner : Names]
    \cup [form : {"alias"}, name : Names, target : Targets]
Key(r) == <<IF r.form = "alias" THEN Space(r.target) ELSE r.form, r.name>>

ASSUME SourceAssumption ==
  /\ Names \subseteq Nat /\ Requests \subseteq Request
  /\ Schemas \subseteq SUBSET Targets
  /\ Files \subseteq Input
  /\ \A s \in Files : Accepts(s) /\ \A i \in DOMAIN s.entries :
       (s.entries[i].owner = 0) <=> s.entries[i].kind \notin SlotKinds
ASSUME BoundAssumption == MaxNames \in Nat /\ MaxRequests \in Nat /\ MaxBuilt \in Nat

VARIABLES
  step,         \* "idle", "loaded", "staging" or "staged"
  from,         \* the receipt of the predecessor, if there is one
  base,         \* its ledger
  requests,     \* what is asked for
  pending,      \* what of it is still to be staged
  staged,       \* the ledger being staged
  built,        \* the receipts of the checkpoints that were published
  lineage       \* pairs of the receipts of an ancestor and of a descendant
vars == <<step, from, base, requests, pending, staged, built, lineage>>

Unnamed(registry) == [registry |-> registry, names |-> <<>>]

EntryOf(registry, target) == {i \in DOMAIN registry.entries : Target(registry.entries[i]) = target}

\* require_active.
Active(registry, target) == \E i \in EntryOf(registry, target) : ~Retired(registry.entries[i])

Bound(ledger, key) == key \in DOMAIN ledger.names

\* NamedIdRegistry::new: every name has a target that the registry knows.
Known(ledger) ==
  /\ Cardinality(DOMAIN ledger.names) <= MaxNames
  /\ \A key \in DOMAIN ledger.names : EntryOf(ledger.registry, ledger.names[key]) # {}

\* validate_successor.
Continues(prior, next) ==
  /\ Succeeds(prior.registry, next.registry)
  /\ \A key \in DOMAIN prior.names : Bound(next, key) /\ next.names[key] = prior.names[key]

Init ==
  /\ step = "idle"
  /\ from = {} /\ base = Unnamed(Empty) /\ staged = Unnamed(Empty)
  /\ requests = {} /\ pending = {}
  /\ built = {} /\ lineage = {}

-----------------------------------------------------------------------------
(* The host.                                                               *)

Loaded(predecessor, ledger) ==
  /\ step = "idle"
  /\ step' = "loaded"
  /\ from' = predecessor /\ base' = ledger
  /\ UNCHANGED <<requests, pending, staged, built, lineage>>

Bootstrap(registry) == Loaded({}, Unnamed(registry))

\* Seeded fault: the file of names is not compared with the receipt.
LoadAnyNames(receipt, names, registry) ==
  /\ receipt.registry = registry
  /\ names.registry = registry /\ Known(names)
  /\ Loaded({receipt}, names)

\* A directory with the receipt of the expected identity offers a file of names, which
\* carries the digest of its registry, and a registry.
Load(receipt, names, registry) ==
  /\ receipt.ledger = names /\ receipt.registry = registry
  /\ names.registry = registry /\ Known(names)
  /\ Loaded({receipt}, names)

\* Seeded fault: an alias may be asked for whatever target.
BeginAnyAlias(source, schema, asked) ==
  /\ step = "loaded"
  /\ Succeeds(source, base.registry)
  /\ \A target \in schema : Active(base.registry, target)
  /\ Cardinality(asked) <= MaxRequests
  /\ \A r \in asked :
       /\ r.form = "definition" => r.kind \notin SlotKinds
       /\ r.form = "definition" /\ Bound(base, Key(r)) => base.names[Key(r)] \notin schema
       /\ r.form = "slot" => r.kind \in SlotKinds
  /\ \A r, q \in asked : Key(r) = Key(q) => r = q
  /\ Cardinality({r \in asked : ~Bound(base, Key(r))})
       <= MaxNames - Cardinality(DOMAIN base.names)
  /\ step' = "staging"
  /\ requests' = asked /\ pending' = asked
  /\ staged' = base
  /\ UNCHANGED <<from, base, built, lineage>>

\* allocate, and the checks of stage_stat_declarations: the source's registry is one
\* the ledger continues, all that its schema describes is active, and no name is
\* asked for that it describes already.
Begin(source, schema, asked) ==
  /\ step = "loaded"
  /\ Succeeds(source, base.registry)
  /\ \A target \in schema : Active(base.registry, target)
  /\ Cardinality(asked) <= MaxRequests
  /\ \A r \in asked :
       /\ r.form = "definition" => r.kind \notin SlotKinds
       /\ r.form = "definition" /\ Bound(base, Key(r)) => base.names[Key(r)] \notin schema
       /\ r.form = "slot" => r.kind \in SlotKinds
       /\ r.form = "alias" => Active(base.registry, r.target)
  /\ \A r, q \in asked : Key(r) = Key(q) => r = q
  /\ Cardinality({r \in asked : ~Bound(base, Key(r))})
       <= MaxNames - Cardinality(DOMAIN base.names)
  /\ step' = "staging"
  /\ requests' = asked /\ pending' = asked
  /\ staged' = base
  /\ UNCHANGED <<from, base, built, lineage>>

\* Names are staged in the order of their keys.
Earlier(a, b) ==
  \/ a[1] = "definition" /\ b[1] = "slot"
  \/ a[1] = b[1] /\ a[2] < b[2]
Least(r) == r \in pending /\ \A q \in pending \ {r} : Earlier(Key(r), Key(q))

Named(names, key, target) ==
  [k \in DOMAIN names \cup {key} |-> IF k = key THEN target ELSE names[k]]

Issue(r, kind, owner) ==
  LET registry == staged.registry
      e == Fresh(registry, kind, owner)
  IN  /\ MayAppend(registry, e, Recomputed(registry) + Size(e))
      /\ staged' = [registry |-> Appended(registry, e),
                    names |-> Named(staged.names, Key(r), Target(e))]

\* A name that is bound keeps its target, which must be active and as asked for.
Reuse(r, agrees) ==
  /\ Active(staged.registry, staged.names[Key(r)])
  /\ agrees
  /\ UNCHANGED staged

\* Seeded fault: a name that is bound is refused.
StageNewDefinition(r) ==
  /\ r.form = "definition"
  /\ ~Bound(staged, Key(r)) /\ Issue(r, r.kind, 0)

StageDefinition(r) ==
  /\ r.form = "definition"
  /\ IF Bound(staged, Key(r)) THEN Reuse(r, staged.names[Key(r)].kind = r.kind)
     ELSE Issue(r, r.kind, 0)

\* The owner is named before, or by an earlier request of the same transaction.
StageSlot(r) ==
  LET owner == <<"definition", r.owner>>
  IN  /\ r.form = "slot"
      /\ Bound(staged, owner)
      /\ Active(staged.registry, staged.names[owner])
      /\ staged.names[owner].kind \in OwnerKinds
      /\ IF Bound(staged, Key(r))
         THEN Reuse(r, /\ staged.names[Key(r)].kind = r.kind
                       /\ staged.names[Key(r)].owner = staged.names[owner].id)
         ELSE Issue(r, r.kind, staged.names[owner].id)

StageAlias(r) ==
  /\ r.form = "alias"
  /\ IF Bound(staged, Key(r)) THEN Reuse(r, staged.names[Key(r)] = r.target)
     ELSE staged' = [registry |-> staged.registry,
                     names |-> Named(staged.names, Key(r), r.target)]

Stage(r) ==
  /\ step = "staging"
  /\ Least(r)
  /\ StageDefinition(r) \/ StageSlot(r) \/ StageAlias(r)
  /\ pending' = pending \ {r}
  /\ UNCHANGED <<step, from, base, requests, built, lineage>>

\* Another host retires an entry and keeps the names.
Retire(i, reason) ==
  LET registry == Tombstoned(base.registry, i, reason)
      entry == base.registry.entries[i]
  IN  /\ step = "loaded"
      /\ ~Retired(entry)
      /\ entry.owner = 0 => ActiveSlots(base.registry, entry.id) = {}
      /\ base.registry.revision < MaxInteger
      /\ Wire(Len(registry.entries), Recomputed(registry)) <= MaxBytes
      /\ step' = "staging"
      /\ staged' = [registry |-> registry, names |-> base.names]
      /\ UNCHANGED <<from, base, requests, pending, built, lineage>>

\* The end of allocate.
Finish ==
  /\ step = "staging" /\ pending = {}
  /\ Known(staged) /\ Continues(base, staged)
  /\ step' = "staged"
  /\ UNCHANGED <<from, base, requests, pending, staged, built, lineage>>

Reset ==
  /\ step' = "idle"
  /\ from' = {} /\ base' = Unnamed(Empty) /\ staged' = Unnamed(Empty)
  /\ requests' = {} /\ pending' = {}

\* build_authoring_checkpoint and its publication.
Publish ==
  LET receipt == [predecessor |-> from, ledger |-> staged, registry |-> staged.registry,
                  requests |-> requests]
  IN  /\ step = "staged"
      /\ Cardinality(built \cup {receipt}) <= MaxBuilt
      /\ built' = built \cup {receipt}
      /\ lineage' = lineage \cup (from \X {receipt})
                       \cup {<<pair[1], receipt>> : pair \in {q \in lineage : q[2] \in from}}
      /\ Reset

\* A refusal, a limit met late or the end of the host: nothing is left of its work.
Abandon ==
  /\ step # "idle"
  /\ Reset
  /\ UNCHANGED <<built, lineage>>

Next ==
  \/ \E registry \in Files : Bootstrap(registry)
  \/ \E receipt, other, third \in built : Load(receipt, other.ledger, third.registry)
  \/ \E source \in Files, schema \in Schemas, asked \in SUBSET Requests :
       Begin(source, schema, asked)
  \/ \E r \in pending : Stage(r)
  \/ \E i \in DOMAIN base.registry.entries, reason \in Reasons : Retire(i, reason)
  \/ Finish \/ Publish \/ Abandon

Spec == Init /\ [][Next]_vars

-----------------------------------------------------------------------------
(* Properties.                                                             *)

\* The host has a ledger where it works on one.
TypeOK ==
  /\ step \in {"idle", "loaded", "staging", "staged"}
  /\ from \subseteq built /\ Cardinality(from) <= 1
  /\ pending \subseteq requests /\ requests \subseteq Requests
  /\ lineage \subseteq built \X built

\* Along every chain of checkpoints, whatever was copied between their directories,
\* a name keeps its target and no identity is lost, retargeted or revived.
NamesAreKept == \A pair \in lineage : Continues(pair[1].ledger, pair[2].ledger)

\* What a request gets: an active target of the kind and below the owner asked for,
\* and an identity of its own if the name is new and no alias.
Met(r) ==
  LET target == staged.names[Key(r)]
  IN  /\ Bound(staged, Key(r)) /\ Active(staged.registry, target)
      /\ r.form = "definition" => target.kind = r.kind /\ target.owner = 0
      /\ r.form = "slot" =>
           /\ Bound(staged, <<"definition", r.owner>>)
           /\ target.kind = r.kind /\ target.owner = staged.names[<<"definition", r.owner>>].id
      /\ r.form = "alias" => target = r.target
      /\ r.form # "alias" /\ ~Bound(base, Key(r)) =>
           /\ EntryOf(base.registry, target) = {}
           /\ \A key \in DOMAIN staged.names : staged.names[key] = target => key = Key(r)

\* What is asked for is what is had, in whatever order the parts of a transaction
\* depend on one another.
RequestsAreMet == step = "staged" => \A r \in requests : Met(r)

\* Asking again, after the answer was published and lost, is never refused once it
\* is begun, and finds the ledger as it is: nothing is issued twice.
RetryFindsTheSame ==
  \A receipt \in from :
    step \in {"staging", "staged"} /\ requests # {} /\ requests \subseteq receipt.requests =>
      /\ staged = base
      /\ step = "staging" =>
           \/ pending = {} /\ ENABLED Finish
           \/ \E r \in pending : ENABLED Stage(r)
=============================================================================
