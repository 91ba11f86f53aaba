--------------------------- MODULE IdRegistryProofs ---------------------------
(***************************************************************************)
(* The registry of identities is correct for any tools, limits and files:   *)
(* its history stays sound, its dependents and its bytes are exact, and     *)
(* along a chain of artifacts nothing is lost, retargeted or revived.       *)
(***************************************************************************)
EXTENDS IdRegistry, RegistrySnapshotProofs

\* A tool's registry is a successor of what it started from.
OwnWorkSucceeds == \A t \in Tools : Succeeds(base[t], reg[t])

\* Tools and artifacts hold sound registries, in order of succession.
History ==
  /\ \A t \in Tools : Sound(reg[t]) /\ Sound(base[t])
  /\ \A pair \in lineage : Sound(pair[1]) /\ Sound(pair[2]) /\ Succeeds(pair[1], pair[2])

\* Every artifact is of a size that can be read.
ArtifactsFit == \A s \in Published : Wire(Len(s.entries), Recomputed(s)) <= MaxBytes

IInv ==
  /\ TypeOK /\ History /\ DependentsAreExact /\ OwnWorkSucceeds
  /\ SizesAreExact /\ ArtifactsFit

-----------------------------------------------------------------------------
(* The inductive invariant.                                                *)

\* The initial state satisfies the invariant.
LEMMA InitHolds == Init => IInv
<1> SUFFICES ASSUME Init PROVE IInv OBVIOUS
<1>1. Empty \in Input /\ Sound(Empty) /\ \A o \in Ids : ActiveSlots(Empty, o) = {}
  BY EmptyIsSound
<1>2. TypeOK BY <1>1 DEF Init, TypeOK
<1>3. Succeeds(Empty, Empty) BY <1>1, SuccessionIsOrder
<1>4. \A t \in Tools : reg[t] = Empty /\ base[t] = Empty /\ \A o \in Ids : dependents[t][o] = 0
  BY DEF Init
<1>5. History BY <1>1, <1>3, <1>4 DEF Init, History
<1>6. DependentsAreExact BY <1>1, <1>4, FS_EmptySet DEF DependentsAreExact
<1>7. OwnWorkSucceeds BY <1>3, <1>4 DEF OwnWorkSucceeds
<1>8. Len(Empty.entries) = 0 /\ Recomputed(Empty) = 0 /\ Wire(0, 0) <= MaxBytes
  BY RecomputedIsNatural, SizeAssumption DEF Empty, Wire
<1>9. SizesAreExact BY <1>4, <1>8 DEF Init, SizesAreExact
<1>10. ArtifactsFit BY <1>8 DEF Init, ArtifactsFit, Published
<1> QED BY <1>2, <1>5, <1>6, <1>7, <1>9, <1>10 DEF IInv

\* An edit to a sound registry that succeeds the one before it, with its
\* dependents and its bytes counted, preserves the invariant.
LEMMA EditHolds ==
  ASSUME IInv, NEW t \in Tools, NEW r \in Input, Sound(r), Succeeds(reg[t], r),
         NEW d \in [Ids -> Nat],
         \A o \in Ids : d[o] = Cardinality(ActiveSlots(r, o)),
         reg' = [reg EXCEPT ![t] = r], dependents' = [dependents EXCEPT ![t] = d],
         bytes' = [bytes EXCEPT ![t] = Recomputed(r)],
         Wire(Len(r.entries), Recomputed(r)) <= MaxBytes,
         UNCHANGED <<base, lineage>>
  PROVE  IInv'
<1>1. TypeOK' BY RecomputedIsNatural DEF IInv, TypeOK
<1>2. \A u \in Tools : /\ reg'[u] = IF u = t THEN r ELSE reg[u]
                       /\ dependents'[u] = IF u = t THEN d ELSE dependents[u]
                       /\ bytes'[u] = IF u = t THEN Recomputed(r) ELSE bytes[u]
  BY DEF IInv, TypeOK
<1>3. History' BY <1>2 DEF IInv, History
<1>4. DependentsAreExact' BY <1>2 DEF IInv, DependentsAreExact
<1>5. OwnWorkSucceeds'
  <2>1. Succeeds(base[t], reg[t]) /\ base[t] \in Input /\ reg[t] \in Input
    BY DEF IInv, OwnWorkSucceeds, TypeOK
  <2>2. Succeeds(base[t], r) BY <2>1, SuccessionIsOrder
  <2> QED BY <1>2, <2>2 DEF IInv, OwnWorkSucceeds
<1>6. SizesAreExact' BY <1>2 DEF IInv, SizesAreExact
<1>7. ArtifactsFit' BY DEF IInv, ArtifactsFit, Published
<1> QED BY <1>1, <1>3, <1>4, <1>5, <1>6, <1>7 DEF IInv

\* Extending the chain of artifacts by a sound successor preserves its part.
LEMMA ExtendHolds ==
  ASSUME IInv, NEW a \in Input, NEW b \in Input, Sound(a), Sound(b), Succeeds(a, b),
         Extend(a, b)
  PROVE  /\ lineage' \subseteq Input \X Input
         /\ \A pair \in lineage' : Sound(pair[1]) /\ Sound(pair[2]) /\ Succeeds(pair[1], pair[2])
<1>1. \A pair \in lineage : /\ pair[1] \in Input /\ pair[2] \in Input
                            /\ pair = <<pair[1], pair[2]>>
                            /\ Sound(pair[1]) /\ Sound(pair[2]) /\ Succeeds(pair[1], pair[2])
  BY DEF IInv, TypeOK, History
<1>2. Succeeds(b, b) BY SuccessionIsOrder
<1> SUFFICES ASSUME NEW pair \in lineage'
             PROVE  /\ pair \in Input \X Input
                    /\ Sound(pair[1]) /\ Sound(pair[2]) /\ Succeeds(pair[1], pair[2])
  OBVIOUS
<1>3. CASE pair \in lineage BY <1>1, <1>3
<1>4. CASE pair \in {<<a, b>>, <<b, b>>} BY <1>2, <1>4
<1>5. CASE \E q \in lineage : q[2] = a /\ pair = <<q[1], b>>
  <2>1. PICK q \in lineage : q[2] = a /\ pair = <<q[1], b>> BY <1>5
  <2>2. q[1] \in Input /\ Sound(q[1]) /\ Succeeds(q[1], a) BY <1>1, <2>1
  <2>3. Succeeds(q[1], b) BY <2>2, SuccessionIsOrder
  <2> QED BY <2>1, <2>2, <2>3
<1> QED BY <1>3, <1>4, <1>5 DEF Extend

\* The artifact that is added is of a size that can be read.
LEMMA ExtendFits ==
  ASSUME IInv, NEW a \in Input, NEW b \in Input, Extend(a, b),
         Wire(Len(b.entries), Recomputed(b)) <= MaxBytes
  PROVE  ArtifactsFit'
<1>1. \A pair \in lineage' : pair[2] \in Published \cup {b}
  BY DEF Extend, Published
<1> QED BY <1>1 DEF IInv, ArtifactsFit, Published

\* Loading.
LEMMA LoadHolds ==
  ASSUME IInv, NEW t \in Tools, NEW s \in Inputs \cup Published, Load(t, s)
  PROVE  IInv'
<1>1. s \in Input /\ Kinded(s)
  <2>1. CASE s \in Inputs BY <2>1, InputAssumption DEF Kinded
  <2>2. CASE s \in Published
    <3>1. PICK pair \in lineage : s = pair[2] BY <2>2 DEF Published
    <3> QED BY <3>1 DEF IInv, TypeOK, History, Sound
  <2> QED BY <2>1, <2>2
<1>2. Sound(s) BY <1>1, AcceptedIsSound DEF Load
<1>3. Recount(s) \in [Ids -> Nat] /\ \A o \in Ids : Recount(s)[o] = Cardinality(ActiveSlots(s, o))
  BY <1>1, Sizes DEF Recount
<1>4. TypeOK' BY <1>1, <1>3, RecomputedIsNatural DEF IInv, TypeOK, Load
<1>5. \A u \in Tools :
        /\ reg'[u] = IF u = t THEN s ELSE reg[u]
        /\ base'[u] = IF u = t THEN s ELSE base[u]
        /\ dependents'[u] = IF u = t THEN Recount(s) ELSE dependents[u]
        /\ bytes'[u] = IF u = t THEN Recomputed(s) ELSE bytes[u]
  BY DEF Load, IInv, TypeOK
<1>6. lineage' = lineage BY DEF Load
<1>7. History' BY <1>2, <1>5, <1>6 DEF IInv, History
<1>8. DependentsAreExact' BY <1>3, <1>5 DEF IInv, DependentsAreExact
<1>9. OwnWorkSucceeds' BY <1>1, <1>5, SuccessionIsOrder DEF IInv, OwnWorkSucceeds
<1>10. SizesAreExact' BY <1>5 DEF IInv, SizesAreExact, Load, Accepts
<1>11. ArtifactsFit' BY <1>6 DEF IInv, ArtifactsFit, Published
<1> QED BY <1>4, <1>7, <1>8, <1>9, <1>10, <1>11 DEF IInv

\* What an allocation adds to the bytes is the size of the new entry.
LEMMA AllocationIsCounted ==
  ASSUME IInv, NEW t \in Tools, NEW kind \in Kinds, NEW owner \in 0..MaxInteger,
         AppendEntry(t, kind, owner),
         NEW e, e = [id |-> reg[t].last + 1, kind |-> kind, owner |-> owner, state |-> "active"],
         NEW r \in Input, r = Appended(reg[t], e)
  PROVE  /\ bytes' = [bytes EXCEPT ![t] = Recomputed(r)]
         /\ Wire(Len(r.entries), Recomputed(r)) <= MaxBytes
<1>1. reg[t] \in Input /\ bytes[t] = Recomputed(reg[t]) BY DEF IInv, TypeOK, SizesAreExact
<1>2. reg[t].last < MaxInteger BY DEF AppendEntry, MayAppend
<1>3. e \in Entry BY <1>1, <1>2, Parts, SizeAssumption, SMTT(60) DEF Entry, Ids
<1>4. Recomputed(r) = Recomputed(reg[t]) + Size(e) /\ Len(r.entries) = Len(reg[t].entries) + 1
  BY <1>1, <1>3, AppendAddsSize
<1>5. e = Fresh(reg[t], kind, owner) BY DEF Fresh
<1> QED BY <1>1, <1>4, <1>5 DEF AppendEntry, MayAppend

\* Allocating a definition.
LEMMA AllocateDefinitionHolds ==
  ASSUME IInv, NEW t \in Tools, NEW kind \in Kinds, AllocateDefinition(t, kind)
  PROVE  IInv'
<1> DEFINE e == [id |-> reg[t].last + 1, kind |-> kind, owner |-> 0, state |-> "active"]
           r == Appended(reg[t], e)
<1>1. reg[t] \in Input /\ Sound(reg[t]) BY DEF IInv, TypeOK, History
<1>2. kind \notin SlotKinds BY KindAssumption DEF AllocateDefinition
<1>3. /\ Len(reg[t].entries) < MaxEntries
      /\ reg[t].last < MaxInteger /\ reg[t].revision < MaxInteger
  BY DEF AllocateDefinition, AppendEntry, MayAppend, Fresh
<1>4. /\ r \in Input /\ Sound(r) /\ Succeeds(reg[t], r)
      /\ \A o \in Ids : Cardinality(ActiveSlots(r, o)) =
           Cardinality(ActiveSlots(reg[t], o)) + IF o = 0 THEN 1 ELSE 0
  <2>1. e = [id |-> reg[t].last + 1, kind |-> kind, owner |-> 0, state |-> "active"] OBVIOUS
  <2>2. (0 = 0) <=> kind \notin SlotKinds BY <1>2
  <2>3. 0 \in 0..MaxInteger BY SizeAssumption, LimitAssumption
  <2> HIDE DEF e
  <2> QED BY <1>1, <1>3, <2>1, <2>2, <2>3, AppendKeeps
<1>5. reg' = [reg EXCEPT ![t] = r] /\ UNCHANGED <<dependents, base, lineage>>
  BY DEF AllocateDefinition, AppendEntry, MayAppend, Fresh
<1>6. /\ dependents[t] \in [Ids -> Nat]
      /\ dependents' = [dependents EXCEPT ![t] = dependents[t]]
  BY <1>5 DEF IInv, TypeOK
<1> HIDE DEF r
<1>7. \A o \in Ids : dependents[t][o] = Cardinality(ActiveSlots(r, o))
  BY <1>1, <1>4, Sizes DEF IInv, DependentsAreExact, Ids
<1>8. /\ bytes' = [bytes EXCEPT ![t] = Recomputed(r)]
      /\ Wire(Len(r.entries), Recomputed(r)) <= MaxBytes
  <2>1. 0 \in 0..MaxInteger /\ AppendEntry(t, kind, 0) BY SizeAssumption DEF AllocateDefinition
  <2>2. r = Appended(reg[t], e) BY DEF r
  <2> HIDE DEF e
  <2>3. e = [id |-> reg[t].last + 1, kind |-> kind, owner |-> 0, state |-> "active"] BY DEF e
  <2> QED BY <1>4, <2>1, <2>2, <2>3, AllocationIsCounted
<1> QED BY <1>4, <1>5, <1>6, <1>7, <1>8, EditHolds

\* Allocating a slot.
LEMMA AllocateSlotHolds ==
  ASSUME IInv, NEW t \in Tools, NEW kind \in Kinds, NEW o \in Ids, AllocateSlot(t, kind, o)
  PROVE  IInv'
<1> DEFINE e == [id |-> reg[t].last + 1, kind |-> kind, owner |-> o, state |-> "active"]
           r == Appended(reg[t], e)
           d == [dependents[t] EXCEPT ![o] = @ + 1]
<1>1. reg[t] \in Input /\ Sound(reg[t]) BY DEF IInv, TypeOK, History
<1>2. kind \in SlotKinds /\ o # 0 /\ o \in 0..MaxInteger BY SizeAssumption, LimitAssumption DEF AllocateSlot, Ids
<1>3. /\ Len(reg[t].entries) < MaxEntries
      /\ reg[t].last < MaxInteger /\ reg[t].revision < MaxInteger
  BY DEF AllocateSlot, AppendEntry, MayAppend, Fresh
<1>4. \E i \in DOMAIN reg[t].entries :
        /\ reg[t].entries[i].id = o /\ reg[t].entries[i].kind \in OwnerKinds
        /\ ~Retired(reg[t].entries[i])
  BY DEF AllocateSlot
<1>5. /\ r \in Input /\ Sound(r) /\ Succeeds(reg[t], r)
      /\ \A p \in Ids : Cardinality(ActiveSlots(r, p)) =
           Cardinality(ActiveSlots(reg[t], p)) + IF p = o THEN 1 ELSE 0
  <2>1. e = [id |-> reg[t].last + 1, kind |-> kind, owner |-> o, state |-> "active"] OBVIOUS
  <2>2. (o = 0) <=> kind \notin SlotKinds BY <1>2
  <2>3. o \in 0..MaxInteger BY <1>2
  <2> HIDE DEF e
  <2> QED BY <1>1, <1>3, <1>4, <2>1, <2>2, <2>3, AppendKeeps
<1>6. reg' = [reg EXCEPT ![t] = r] /\ UNCHANGED <<base, lineage>>
  BY DEF AllocateSlot, AppendEntry, MayAppend, Fresh
<1>7. /\ d \in [Ids -> Nat] /\ dependents' = [dependents EXCEPT ![t] = d]
      /\ \A p \in Ids : d[p] = dependents[t][p] + IF p = o THEN 1 ELSE 0
  BY DEF IInv, TypeOK, AllocateSlot
<1> HIDE DEF r, d
<1>8. \A p \in Ids : d[p] = Cardinality(ActiveSlots(r, p))
  BY <1>5, <1>7 DEF IInv, DependentsAreExact
<1>9. /\ bytes' = [bytes EXCEPT ![t] = Recomputed(r)]
      /\ Wire(Len(r.entries), Recomputed(r)) <= MaxBytes
  <2>1. AppendEntry(t, kind, o) BY DEF AllocateSlot
  <2>2. r = Appended(reg[t], e) BY DEF r
  <2> HIDE DEF e
  <2>3. e = [id |-> reg[t].last + 1, kind |-> kind, owner |-> o, state |-> "active"] BY DEF e
  <2> QED BY <1>2, <1>5, <2>1, <2>2, <2>3, AllocationIsCounted
<1> QED BY <1>5, <1>6, <1>7, <1>8, <1>9, EditHolds

\* Retiring.
LEMMA RetireHolds ==
  ASSUME IInv, NEW t \in Tools, NEW i \in DOMAIN reg[t].entries, NEW reason \in Reasons,
         Retire(t, i, reason)
  PROVE  IInv'
<1> DEFINE r == Tombstoned(reg[t], i, reason)
           e == reg[t].entries[i]
           d == IF e.owner = 0 THEN dependents[t]
                ELSE [dependents[t] EXCEPT ![e.owner] = @ - 1]
<1>1. reg[t] \in Input /\ Sound(reg[t]) BY DEF IInv, TypeOK, History
<1>2. e.id \in Ids /\ e.owner \in 0..MaxInteger BY <1>1, Parts
<1>3. ~Retired(e) /\ reg[t].revision < MaxInteger BY DEF Retire
<1>4. e.owner = 0 => ActiveSlots(reg[t], e.id) = {}
  <2> SUFFICES ASSUME e.owner = 0 PROVE ActiveSlots(reg[t], e.id) = {} OBVIOUS
  <2>1. Cardinality(ActiveSlots(reg[t], e.id)) = 0
    BY <1>2 DEF Retire, IInv, DependentsAreExact
  <2> QED BY <2>1, <1>1, <1>2, Sizes, FS_EmptySet
<1>5. /\ r \in Input /\ Sound(r) /\ Succeeds(reg[t], r)
      /\ \A o \in Ids : Cardinality(ActiveSlots(r, o)) =
           Cardinality(ActiveSlots(reg[t], o)) - IF o = e.owner THEN 1 ELSE 0
  BY <1>1, <1>3, <1>4, RetireKeeps
<1>6. reg' = [reg EXCEPT ![t] = r] /\ UNCHANGED <<base, lineage>>
  BY DEF Retire
<1>7. /\ dependents' = [dependents EXCEPT ![t] = d] /\ DOMAIN d = Ids
      /\ \A o \in Ids : d[o] = dependents[t][o] - IF o = e.owner THEN 1 ELSE 0
  <2>1. dependents[t] \in [Ids -> Nat] BY DEF IInv, TypeOK
  <2>2. CASE e.owner = 0
    BY <2>1, <2>2 DEF Retire, IInv, TypeOK, Ids
  <2>3. CASE e.owner # 0
    BY <2>1, <2>3, <1>2 DEF Retire, IInv, TypeOK, Ids
  <2> QED BY <2>2, <2>3
<1>8. r \in Input /\ \A o \in Ids : Cardinality(ActiveSlots(r, o)) \in Nat
  BY <1>5, Sizes
<1>9. \A o \in Ids : d[o] = Cardinality(ActiveSlots(r, o))
  <2> HIDE DEF r, d, e
  <2> QED BY <1>5, <1>7 DEF IInv, DependentsAreExact
<1>10. d \in [Ids -> Nat]
  <2>1. d = [o \in Ids |-> d[o]]
    BY <1>2, <1>7 DEF IInv, TypeOK
  <2> HIDE DEF r, d, e
  <2> QED BY <2>1, <1>8, <1>9
<1>11. /\ bytes' = [bytes EXCEPT ![t] = Recomputed(r)]
       /\ Wire(Len(r.entries), Recomputed(r)) <= MaxBytes
  <2>1. bytes[t] = Recomputed(reg[t]) BY DEF IInv, SizesAreExact
  <2>2. /\ Recomputed(r) = (Recomputed(reg[t]) - Size(e)) + Size([e EXCEPT !.state = reason])
        /\ Len(r.entries) = Len(reg[t].entries)
    BY <1>1, <1>5, RetireChangesSize
  <2> QED BY <2>1, <2>2 DEF Retire
<1> HIDE DEF r, d, e
<1> QED BY <1>5, <1>6, <1>7, <1>9, <1>10, <1>11, EditHolds

\* Publishing.
LEMMA PublishHolds == ASSUME IInv, NEW t \in Tools, Publish(t) PROVE IInv'
<1>1. /\ reg[t] \in Input /\ base[t] \in Input /\ Sound(reg[t]) /\ Sound(base[t])
      /\ Succeeds(base[t], reg[t]) /\ Extend(base[t], reg[t])
  BY DEF IInv, TypeOK, History, Publish
<1>2. /\ lineage' \subseteq Input \X Input
      /\ \A pair \in lineage' : Sound(pair[1]) /\ Sound(pair[2]) /\ Succeeds(pair[1], pair[2])
  BY <1>1, ExtendHolds
<1>3. /\ base' = [base EXCEPT ![t] = reg[t]] /\ UNCHANGED <<reg, bytes, dependents>>
      /\ \A u \in Tools : base'[u] = IF u = t THEN reg[u] ELSE base[u]
  BY DEF Publish, IInv, TypeOK
<1>4. TypeOK' BY <1>1, <1>2, <1>3 DEF IInv, TypeOK
<1>5. History' BY <1>2, <1>3 DEF IInv, History
<1>6. DependentsAreExact' BY <1>3 DEF IInv, DependentsAreExact
<1>7. OwnWorkSucceeds' BY <1>1, <1>3, SuccessionIsOrder DEF IInv, OwnWorkSucceeds
<1>8. SizesAreExact' BY <1>3 DEF IInv, SizesAreExact
<1>9. ArtifactsFit' BY <1>1, ExtendFits DEF IInv, SizesAreExact
<1> QED BY <1>4, <1>5, <1>6, <1>7, <1>8, <1>9 DEF IInv

\* Adopting.
LEMMA AdoptHolds ==
  ASSUME IInv, NEW a \in Published, NEW s \in Inputs, Adopt(a, s)
  PROVE  IInv'
<1>1. a \in Input /\ Sound(a)
  <2>1. PICK pair \in lineage : a = pair[2] BY DEF Published
  <2> QED BY <2>1 DEF IInv, TypeOK, History
<1>2. s \in Input /\ Sound(s)
  BY InputAssumption, AcceptedIsSound DEF Adopt, Kinded
<1>3. /\ lineage' \subseteq Input \X Input
      /\ \A pair \in lineage' : Sound(pair[1]) /\ Sound(pair[2]) /\ Succeeds(pair[1], pair[2])
  BY <1>1, <1>2, ExtendHolds DEF Adopt
<1>4. UNCHANGED <<reg, bytes, dependents, base>> BY DEF Adopt
<1>5. ArtifactsFit' BY <1>1, <1>2, ExtendFits DEF Adopt, Accepts
<1> QED
  BY <1>3, <1>4, <1>5 DEF IInv, TypeOK, History, DependentsAreExact, OwnWorkSucceeds, SizesAreExact

\* Every step preserves the invariant.
LEMMA StepHolds == IInv /\ [Next]_vars => IInv'
<1> SUFFICES ASSUME IInv, [Next]_vars PROVE IInv' OBVIOUS
<1>1. ASSUME NEW t \in Tools, NEW s \in Inputs \cup Published, Load(t, s) PROVE IInv'
  BY <1>1, LoadHolds
<1>2. ASSUME NEW t \in Tools, NEW k \in Kinds, AllocateDefinition(t, k) PROVE IInv'
  BY <1>2, AllocateDefinitionHolds
<1>3. ASSUME NEW t \in Tools, NEW k \in Kinds, NEW o \in Ids, AllocateSlot(t, k, o)
      PROVE  IInv'
  BY <1>3, AllocateSlotHolds
<1>4. ASSUME NEW t \in Tools, NEW i \in DOMAIN reg[t].entries, NEW reason \in Reasons,
             Retire(t, i, reason)
      PROVE  IInv'
  BY <1>4, RetireHolds
<1>5. ASSUME NEW t \in Tools, Publish(t) PROVE IInv' BY <1>5, PublishHolds
<1>6. ASSUME NEW a \in Published, NEW s \in Inputs, Adopt(a, s) PROVE IInv'
  BY <1>6, AdoptHolds
<1>7. CASE UNCHANGED vars
  BY <1>7 DEF vars, IInv, TypeOK, History, DependentsAreExact, OwnWorkSucceeds, SizesAreExact,
     ArtifactsFit, Published
<1> QED BY <1>1, <1>2, <1>3, <1>4, <1>5, <1>6, <1>7 DEF Next

-----------------------------------------------------------------------------
(* The properties.                                                         *)

\* The invariant holds of every behaviour of the registry.
THEOREM Invariance == Spec => []IInv
<1> QED BY InitHolds, StepHolds, PTL DEF Spec

\* Registries, dependents and chains of artifacts have their types.
THEOREM TypeCorrect == Spec => []TypeOK
<1>1. IInv => TypeOK BY DEF IInv
<1> QED BY <1>1, Invariance, PTL

\* Whatever a tool has done, loading its registry's history would be accepted.
THEOREM HistoriesAreSound == Spec => []HistoryIsSound
<1>1. IInv => HistoryIsSound BY DEF IInv, History, Sound, HistoryIsSound
<1> QED BY <1>1, Invariance, PTL

\* The dependents kept by a tool are the active slots of each owner.
THEOREM DependentsExact == Spec => []DependentsAreExact
<1>1. IInv => DependentsAreExact BY DEF IInv
<1> QED BY <1>1, Invariance, PTL

\* The bytes a tool keeps count of, edit by edit, are what a reader of its
\* registry adds up, and within the limit of a file.
THEOREM SizesExact == Spec => []SizesAreExact
<1>1. IInv => SizesAreExact BY DEF IInv
<1> QED BY <1>1, Invariance, PTL

\* No artifact and no registry of a tool is one that loading would refuse.
THEOREM EverythingLoads ==
  Spec => []( /\ \A t \in Tools : Accepts(reg[t])
              /\ \A s \in Published : Accepts(s))
<1>1. IInv => \A t \in Tools : Accepts(reg[t])
  BY DEF IInv, History, Sound, SizesAreExact, Accepts
<1>2. IInv => \A s \in Published : Accepts(s)
  BY DEF IInv, History, Sound, ArtifactsFit, Accepts, Published
<1>3. IInv => /\ \A t \in Tools : Accepts(reg[t])
              /\ \A s \in Published : Accepts(s)
  BY <1>1, <1>2
<1> QED BY <1>3, Invariance, PTL

\* A tool's work always succeeds what it started from.
THEOREM OwnWorkIsAccepted == Spec => []OwnWorkSucceeds
<1>1. IInv => OwnWorkSucceeds BY DEF IInv
<1> QED BY <1>1, Invariance, PTL

\* Along a chain of artifacts, checked link by link, what is named stays named,
\* what is retired stays retired, and a revision names one registry.
THEOREM LineageKept == Spec => []LineageIsKept
<1>1. IInv => LineageIsKept
  <2> SUFFICES ASSUME IInv, NEW pair \in lineage
               PROVE  /\ \A i \in DOMAIN pair[1].entries :
                           /\ i \in DOMAIN pair[2].entries
                           /\ Target(pair[2].entries[i]) = Target(pair[1].entries[i])
                           /\ Retired(pair[1].entries[i]) =>
                                pair[2].entries[i] = pair[1].entries[i]
                      /\ pair[1].revision = pair[2].revision => pair[1] = pair[2]
    BY DEF LineageIsKept
  <2>1. pair[1] \in Input /\ pair[2] \in Input BY DEF IInv, TypeOK
  <2>2. Sound(pair[1]) /\ Sound(pair[2]) /\ Succeeds(pair[1], pair[2]) BY DEF IInv, History
  <2> QED BY <2>1, <2>2, SuccessorKeeps
<1> QED BY <1>1, Invariance, PTL
=============================================================================
