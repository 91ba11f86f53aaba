------------------------------ MODULE IdRegistry ------------------------------
(***************************************************************************)
(* The registry of owned identities (import/src/owned_mapping): offline     *)
(* tools allocate definitions and slots from a counter, retire them, and    *)
(* publish registries as immutable artifacts.  A tool resumes from a        *)
(* published registry or from any file that passes validation, and checks   *)
(* each successor, its own or one it was given, against its predecessor.    *)
(***************************************************************************)
EXTENDS RegistrySnapshot

CONSTANTS
  Tools,
  Inputs,               \* what files that no tool here wrote may hold
  MaxPublished          \* bound: artifacts published

ASSUME InputAssumption ==
  /\ Inputs \subseteq Input
  /\ \A s \in Inputs : \A i \in DOMAIN s.entries :
       (s.entries[i].owner = 0) <=> s.entries[i].kind \notin SlotKinds
ASSUME LimitAssumption == MaxPublished \in Nat

VARIABLES
  reg,         \* each tool's registry
  bytes,       \* snapshot.entry_bytes
  dependents,  \* active_dependents: active slots of each owner
  base,        \* the predecessor each tool loaded
  lineage      \* pairs of an artifact's ancestor and the artifact itself
vars == <<reg, bytes, dependents, base, lineage>>

Published == {pair[2] : pair \in lineage}

Init ==
  /\ reg = [t \in Tools |-> Empty] /\ bytes = [t \in Tools |-> 0]
  /\ dependents = [t \in Tools |-> [o \in Ids |-> 0]]
  /\ base = [t \in Tools |-> Empty]
  /\ lineage = {<<Empty, Empty>>}

-----------------------------------------------------------------------------
(* Operations.  A refused one is an error and changes nothing.             *)

\* A tool resumes from an artifact or from a file of any origin.
Load(t, s) ==
  /\ Accepts(s)
  /\ reg' = [reg EXCEPT ![t] = s] /\ base' = [base EXCEPT ![t] = s]
  /\ bytes' = [bytes EXCEPT ![t] = Recomputed(s)]
  /\ dependents' = [dependents EXCEPT ![t] = Recount(s)]
  /\ UNCHANGED lineage

AppendEntry(t, kind, owner) ==
  LET e == Fresh(reg[t], kind, owner)
      size == bytes[t] + Size(e)
  IN  /\ MayAppend(reg[t], e, size)
      /\ reg' = [reg EXCEPT ![t] = Appended(reg[t], e)]
      /\ bytes' = [bytes EXCEPT ![t] = size]
      /\ UNCHANGED <<base, lineage>>

AllocateDefinition(t, kind) ==
  /\ kind \in OwnerKinds \cup PlainKinds
  /\ AppendEntry(t, kind, 0) /\ UNCHANGED dependents

\* Seeded fault: the owner need not be active.
AllocateSlotUnchecked(t, kind, o) ==
  /\ kind \in SlotKinds
  /\ \E i \in DOMAIN reg[t].entries :
       reg[t].entries[i].id = o /\ reg[t].entries[i].kind \in OwnerKinds
  /\ AppendEntry(t, kind, o)
  /\ dependents' = [dependents EXCEPT ![t][o] = @ + 1]

\* The owner must be known and active.
AllocateSlot(t, kind, o) ==
  /\ kind \in SlotKinds
  /\ \E i \in DOMAIN reg[t].entries :
       /\ reg[t].entries[i].id = o /\ reg[t].entries[i].kind \in OwnerKinds
       /\ ~Retired(reg[t].entries[i])
  /\ AppendEntry(t, kind, o)
  /\ dependents' = [dependents EXCEPT ![t][o] = @ + 1]

\* Seeded fault: the size of the replaced entry is not taken off.
RetireAddsSize(t, i, reason) ==
  LET r == reg[t]
      e == r.entries[i]
      size == bytes[t] + Size([e EXCEPT !.state = reason])
  IN  /\ ~Retired(e)
      /\ e.owner = 0 => dependents[t][e.id] = 0
      /\ r.revision < MaxInteger
      /\ Wire(Len(r.entries), size) <= MaxBytes
      /\ dependents' = IF e.owner = 0 THEN dependents
                       ELSE [dependents EXCEPT ![t][e.owner] = @ - 1]
      /\ reg' = [reg EXCEPT ![t] = Tombstoned(r, i, reason)]
      /\ bytes' = [bytes EXCEPT ![t] = size]
      /\ UNCHANGED <<base, lineage>>

\* The i-th entry becomes a tombstone, unless active slots depend on it.
Retire(t, i, reason) ==
  LET r == reg[t]
      e == r.entries[i]
      size == (bytes[t] - Size(e)) + Size([e EXCEPT !.state = reason])
  IN  /\ ~Retired(e)
      /\ e.owner = 0 => dependents[t][e.id] = 0
      /\ r.revision < MaxInteger
      /\ Wire(Len(r.entries), size) <= MaxBytes
      /\ dependents' = IF e.owner = 0 THEN dependents
                       ELSE [dependents EXCEPT ![t][e.owner] = @ - 1]
      /\ reg' = [reg EXCEPT ![t] = Tombstoned(r, i, reason)]
      /\ bytes' = [bytes EXCEPT ![t] = size]
      /\ UNCHANGED <<base, lineage>>

\* Every ancestor of a is an ancestor of b, and b of itself.
Extend(a, b) ==
  lineage' = lineage \cup {<<a, b>>, <<b, b>>}
               \cup {<<pair[1], b>> : pair \in {q \in lineage : q[2] = a}}

\* A tool publishes its registry as the successor of what it loaded.
Publish(t) ==
  /\ Cardinality(Published) < MaxPublished
  /\ Succeeds(base[t], reg[t]) /\ Extend(base[t], reg[t])
  /\ base' = [base EXCEPT ![t] = reg[t]]
  /\ UNCHANGED <<reg, bytes, dependents>>

\* A registry from elsewhere is accepted as the successor of an artifact.
Adopt(a, s) ==
  /\ Cardinality(Published) < MaxPublished
  /\ Accepts(s) /\ Succeeds(a, s) /\ Extend(a, s)
  /\ UNCHANGED <<reg, bytes, dependents, base>>

Next ==
  \/ \E t \in Tools :
       \/ \E s \in Inputs \cup Published : Load(t, s)
       \/ \E k \in Kinds : AllocateDefinition(t, k)
       \/ \E k \in Kinds, o \in Ids : AllocateSlot(t, k, o)
       \/ \E i \in DOMAIN reg[t].entries, reason \in Reasons : Retire(t, i, reason)
       \/ Publish(t)
  \/ \E a \in Published, s \in Inputs : Adopt(a, s)

Spec == Init /\ [][Next]_vars

-----------------------------------------------------------------------------
(* Properties.                                                             *)

\* Every variable has its type.
TypeOK ==
  /\ reg \in [Tools -> Input] /\ base \in [Tools -> Input]
  /\ bytes \in [Tools -> Nat]
  /\ dependents \in [Tools -> [Ids -> Nat]]
  /\ lineage \subseteq Input \X Input

\* Whatever a tool has done, its registry is one that loading accepts: the
\* operations and the validator of snapshots agree on what a history is, and no
\* slot is active below an owner that is not.
HistoryIsSound ==
  \A t \in Tools :
    /\ Len(reg[t].entries) <= MaxEntries
    /\ Contiguous(reg[t]) /\ Counted(reg[t]) /\ Owned(reg[t])

\* The sizes kept up to date are those a reader computes: what a tool may hold
\* it may write, and what it wrote can be read.
SizesAreExact ==
  \A t \in Tools :
    /\ bytes[t] = Recomputed(reg[t])
    /\ Wire(Len(reg[t].entries), bytes[t]) <= MaxBytes

\* The dependents counted step by step, or recounted when a registry is resumed,
\* are the active slots of each owner: no owner is retired above one, and none
\* is kept from being retired by a slot that is gone.
DependentsAreExact ==
  \A t \in Tools, o \in Ids : dependents[t][o] = Cardinality(ActiveSlots(reg[t], o))

\* Along a chain of artifacts, checked only link by link, no identity is lost,
\* retargeted or revived, no reason is rewritten, and a revision names one registry.
LineageIsKept ==
  \A pair \in lineage :
    LET a == pair[1]
        b == pair[2]
    IN  /\ \A i \in DOMAIN a.entries :
             /\ i \in DOMAIN b.entries /\ Target(b.entries[i]) = Target(a.entries[i])
             /\ Retired(a.entries[i]) => b.entries[i] = a.entries[i]
        /\ a.revision = b.revision => a = b
=============================================================================
