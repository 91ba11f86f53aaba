--------------------------- MODULE RegistrySnapshot ---------------------------
(***************************************************************************)
(* Snapshots of the registry of owned identities (import/src/owned_mapping): *)
(* what a file of entries must satisfy, what makes one the successor of      *)
(* another, and how entries are added and retired.                           *)
(*                                                                         *)
(* An identity is its number.  One namespace and one version are assumed,   *)
(* and the entries of an input are in the order new() sorts them into.      *)
(***************************************************************************)
EXTENDS Naturals, Sequences, FiniteSets, SequencesExt

CONSTANTS
  OwnerKinds, PlainKinds, SlotKinds,  \* of definitions that may own slots, of others, of slots
  Reasons,
  MaxEntries,           \* OwnedMappingLimits::max_entries
  MaxBytes,             \* OwnedMappingLimits::max_wire_bytes
  MaxInteger,           \* BoundedInteger::MAX
  MetaBytes, EntryBytes, ReasonBytes  \* encoded sizes; ReasonBytes: [Reasons -> Nat]

Ids == 1..MaxInteger
Kinds == OwnerKinds \cup PlainKinds \cup SlotKinds
Entry == [id : Ids, kind : Kinds, owner : 0..MaxInteger, state : {"active"} \cup Reasons]
Input == [entries : Seq(Entry), last : 0..MaxInteger, revision : 0..MaxInteger]

ASSUME KindAssumption ==
  /\ (OwnerKinds \cup PlainKinds) \cap SlotKinds = {} /\ "active" \notin Reasons
ASSUME SizeAssumption ==
  /\ MaxEntries \in Nat \ {0} /\ MaxBytes \in Nat \ {0} /\ MaxInteger \in Nat \ {0}
  /\ MetaBytes \in Nat /\ EntryBytes \in Nat \ {0} /\ ReasonBytes \in [Reasons -> Nat]
  /\ MetaBytes <= MaxBytes

Target(e) == [id |-> e.id, kind |-> e.kind, owner |-> e.owner]
Retired(e) == e.state # "active"
Tombstones(s) == {i \in DOMAIN s.entries : Retired(s.entries[i])}

Size(e) == EntryBytes + IF Retired(e) THEN ReasonBytes[e.state] ELSE 0

\* new() adds the encoded entries up: sum[n] is what the first n take.
EntryBytesUpTo(s) ==
  LET sum[n \in 0..Len(s.entries)] ==
        IF n = 0 THEN 0 ELSE sum[n - 1] + Size(s.entries[n])
  IN  sum
Recomputed(s) == EntryBytesUpTo(s)[Len(s.entries)]

\* encoded_size: the metadata, the entries and the commas between them.
Wire(n, entryBytes) == MetaBytes + entryBytes + IF n = 0 THEN 0 ELSE n - 1

Empty == [entries |-> <<>>, last |-> 0, revision |-> 0]

\* Numbers are contiguous, and each edit is one revision.
Contiguous(s) ==
  /\ s.last = Len(s.entries)
  /\ \A i \in DOMAIN s.entries : s.entries[i].id = i
Counted(s) == s.revision = s.last + Cardinality(Tombstones(s))

\* A slot follows its owner, and an active one has an active owner.
Owned(s) ==
  \A i \in DOMAIN s.entries : s.entries[i].owner # 0 =>
    \E j \in 1..(i - 1) :
      /\ s.entries[j].id = s.entries[i].owner /\ s.entries[j].kind \in OwnerKinds
      /\ Retired(s.entries[j]) => Retired(s.entries[i])

\* OwnedIdRegistrySnapshot::new.
Accepts(s) ==
  /\ Len(s.entries) <= MaxEntries
  /\ Contiguous(s) /\ Counted(s) /\ Owned(s)
  /\ Wire(Len(s.entries), Recomputed(s)) <= MaxBytes

\* Seeded fault: a retired entry may change its reason.
SucceedsAnyReason(a, b) ==
  /\ Len(a.entries) <= Len(b.entries) /\ a.revision <= b.revision
  /\ \A i \in DOMAIN a.entries :
       /\ Target(a.entries[i]) = Target(b.entries[i])
       /\ Retired(a.entries[i]) => Retired(b.entries[i])

\* validate_successor.
Succeeds(a, b) ==
  /\ Len(a.entries) <= Len(b.entries) /\ a.revision <= b.revision
  /\ \A i \in DOMAIN a.entries :
       /\ Target(a.entries[i]) = Target(b.entries[i])
       /\ Retired(a.entries[i]) => a.entries[i].state = b.entries[i].state

ActiveSlots(s, o) == {i \in DOMAIN s.entries : s.entries[i].owner = o /\ ~Retired(s.entries[i])}

\* Seeded fault: retired slots are counted when a registry is resumed.
RecountAll(s) ==
  [o \in Ids |-> Cardinality({i \in DOMAIN s.entries : s.entries[i].owner = o})]

\* from_snapshot counts the active slots of each owner.
Recount(s) == [o \in Ids |-> Cardinality(ActiveSlots(s, o))]

-----------------------------------------------------------------------------
(* Edits.                                                                  *)

\* next_counters: the next number of the counter, for an active entry.
Fresh(r, kind, owner) == [id |-> r.last + 1, kind |-> kind, owner |-> owner, state |-> "active"]

\* append, for entries that take size bytes with the new one.
MayAppend(r, e, size) ==
  /\ r.last < MaxInteger /\ r.revision < MaxInteger
  /\ Len(r.entries) < MaxEntries
  /\ \A i \in DOMAIN r.entries : Target(r.entries[i]) # Target(e)
  /\ Wire(Len(r.entries) + 1, size) <= MaxBytes

Appended(r, e) ==
  [entries |-> Append(r.entries, e), last |-> r.last + 1, revision |-> r.revision + 1]

\* retire replaces an entry by its tombstone.
Tombstoned(r, i, reason) ==
  [entries |-> [r.entries EXCEPT ![i].state = reason],
   last |-> r.last, revision |-> r.revision + 1]
=============================================================================
