------------------------ MODULE RegistrySnapshotProofs ------------------------
(***************************************************************************)
(* What edits and succession keep of a snapshot of the registry, and what    *)
(* edits add to its size, for any kinds and limits.                        *)
(***************************************************************************)
EXTENDS RegistrySnapshot, FiniteSetTheorems, WellFoundedInduction, TLAPS

\* Slots have owners and definitions have none.
Kinded(s) ==
  \A i \in DOMAIN s.entries : (s.entries[i].owner = 0) <=> s.entries[i].kind \notin SlotKinds

\* What an artifact or a tool's registry always is.
Sound(s) ==
  /\ Len(s.entries) <= MaxEntries
  /\ Contiguous(s) /\ Counted(s) /\ Owned(s) /\ Kinded(s)

-----------------------------------------------------------------------------
(* Registries as values.                                                   *)

\* The parts of a registry and of its entries have their types.
LEMMA Parts ==
  ASSUME NEW s \in Input
  PROVE  /\ s.entries \in Seq(Entry) /\ Len(s.entries) \in Nat
         /\ DOMAIN s.entries = 1..Len(s.entries)
         /\ s.last \in Nat /\ s.revision \in Nat
         /\ s.last <= MaxInteger /\ s.revision <= MaxInteger
         /\ s = [entries |-> s.entries, last |-> s.last, revision |-> s.revision]
         /\ \A i \in DOMAIN s.entries :
              /\ s.entries[i] \in Entry
              /\ s.entries[i].id \in Ids /\ s.entries[i].kind \in Kinds
              /\ s.entries[i].owner \in 0..MaxInteger
              /\ s.entries[i].state \in {"active"} \cup Reasons
<1>1. /\ s.entries \in Seq(Entry) /\ s.last \in 0..MaxInteger /\ s.revision \in 0..MaxInteger
      /\ s = [entries |-> s.entries, last |-> s.last, revision |-> s.revision]
  BY DEF Input
<1>2. Len(s.entries) \in Nat /\ DOMAIN s.entries = 1..Len(s.entries) BY <1>1
<1>3. ASSUME NEW i \in DOMAIN s.entries
      PROVE  /\ s.entries[i] \in Entry
             /\ s.entries[i].id \in Ids /\ s.entries[i].kind \in Kinds
             /\ s.entries[i].owner \in 0..MaxInteger
             /\ s.entries[i].state \in {"active"} \cup Reasons
  <2>1. s.entries[i] \in Entry BY <1>1
  <2> QED BY <2>1 DEF Entry
<1> QED BY <1>1, <1>2, <1>3, SizeAssumption

\* A set of positions of a registry is finite and has a size.
LEMMA Positions ==
  ASSUME NEW s \in Input, NEW S \in SUBSET (DOMAIN s.entries)
  PROVE  IsFiniteSet(S) /\ Cardinality(S) \in Nat
<1>1. IsFiniteSet(1..Len(s.entries)) BY FS_Interval, Parts
<1>2. IsFiniteSet(S) BY <1>1, FS_Subset, Parts
<1> QED BY <1>2, FS_CardinalityType

\* A registry counts its tombstones and its active slots with naturals.
LEMMA Sizes ==
  ASSUME NEW s \in Input
  PROVE  /\ IsFiniteSet(Tombstones(s)) /\ Cardinality(Tombstones(s)) \in Nat
         /\ \A o \in Ids : /\ IsFiniteSet(ActiveSlots(s, o))
                           /\ Cardinality(ActiveSlots(s, o)) \in Nat
<1>1. Tombstones(s) \in SUBSET (DOMAIN s.entries) BY DEF Tombstones
<1>2. \A o \in Ids : ActiveSlots(s, o) \in SUBSET (DOMAIN s.entries) BY DEF ActiveSlots
<1> QED BY <1>1, <1>2, Positions

\* The empty registry is sound.
LEMMA EmptyIsSound == Empty \in Input /\ Sound(Empty) /\ \A o \in Ids : ActiveSlots(Empty, o) = {}
<1>1. Empty \in Input /\ Empty.entries = <<>> /\ Empty.last = 0 /\ Empty.revision = 0
  BY SizeAssumption DEF Empty, Input
<1>2. DOMAIN Empty.entries = {} /\ Len(Empty.entries) = 0 BY <1>1
<1>3. Tombstones(Empty) = {} BY <1>2 DEF Tombstones
<1>4. Counted(Empty) BY <1>1, <1>3, FS_EmptySet DEF Counted
<1> QED BY <1>1, <1>2, <1>4, SizeAssumption DEF Sound, Contiguous, Owned, Kinded, ActiveSlots

\* What is accepted and has owners of slots is sound.
LEMMA AcceptedIsSound == ASSUME NEW s, Accepts(s), Kinded(s) PROVE Sound(s)
BY DEF Accepts, Sound

\* A new entry keeps a registry sound, and adds to the slots of its owner only.
LEMMA AppendKeeps ==
  ASSUME NEW s \in Input, Sound(s), NEW kind \in Kinds, NEW owner \in 0..MaxInteger,
         NEW e, e = [id |-> s.last + 1, kind |-> kind, owner |-> owner, state |-> "active"],
         Len(s.entries) < MaxEntries, s.last < MaxInteger, s.revision < MaxInteger,
         (owner = 0) <=> kind \notin SlotKinds,
         owner # 0 => \E i \in DOMAIN s.entries :
           /\ s.entries[i].id = owner /\ s.entries[i].kind \in OwnerKinds
           /\ ~Retired(s.entries[i])
  PROVE  /\ Appended(s, e) \in Input /\ Sound(Appended(s, e))
         /\ Succeeds(s, Appended(s, e))
         /\ \A o \in Ids : Cardinality(ActiveSlots(Appended(s, e), o)) =
              Cardinality(ActiveSlots(s, o)) + IF o = owner THEN 1 ELSE 0
<1> DEFINE x == Appended(s, e)
           n == Len(s.entries) + 1
<1>1. s.last + 1 = n /\ n \in Ids
  BY Parts, SizeAssumption DEF Sound, Contiguous, Ids
<1>2. e \in Entry /\ e.id = n /\ e.kind = kind /\ e.owner = owner /\ e.state = "active" /\ ~Retired(e)
  BY <1>1 DEF Entry, Retired
<1>3. /\ x.entries = Append(s.entries, e) /\ x.last = s.last + 1 /\ x.revision = s.revision + 1
  BY DEF Appended
<1>4. /\ x.entries \in Seq(Entry) /\ Len(x.entries) = n /\ DOMAIN x.entries = 1..n
      /\ x.entries[n] = e /\ \A i \in DOMAIN s.entries : x.entries[i] = s.entries[i]
      /\ DOMAIN s.entries = 1..(n - 1)
  <2>1. s.entries \in Seq(Entry) /\ Len(s.entries) \in Nat /\ DOMAIN s.entries = 1..Len(s.entries)
    BY Parts
  <2>2. Append(s.entries, e) \in Seq(Entry) BY <2>1, <1>2
  <2>3. Len(Append(s.entries, e)) = n BY <2>1, <1>2
  <2>4. DOMAIN Append(s.entries, e) = 1..n BY <2>2, <2>3
  <2>5. /\ Append(s.entries, e)[n] = e
        /\ \A i \in DOMAIN s.entries : Append(s.entries, e)[i] = s.entries[i]
    BY <2>1, <1>2
  <2>6. DOMAIN s.entries = 1..(n - 1) BY <2>1
  <2>7. x.entries = Append(s.entries, e) BY <1>3
  <2> HIDE DEF x, n
  <2> QED BY <2>2, <2>3, <2>4, <2>5, <2>6, <2>7
<1>5. x \in Input BY <1>3, <1>4, Parts, SizeAssumption DEF Input, Appended
<1>6. Tombstones(x) = Tombstones(s)
  BY <1>2, <1>4, Parts DEF Tombstones
<1> HIDE DEF x
<1>7. Counted(x) BY <1>3, <1>6, Sizes, Parts DEF Counted, Sound
<1>8. Contiguous(x)
  BY <1>1, <1>2, <1>3, <1>4, Parts DEF Contiguous, Sound
<1>9. Owned(x)
  <2> SUFFICES ASSUME NEW i \in DOMAIN x.entries, x.entries[i].owner # 0
               PROVE  \E j \in 1..(i - 1) :
                        /\ x.entries[j].id = x.entries[i].owner /\ x.entries[j].kind \in OwnerKinds
                        /\ Retired(x.entries[j]) => Retired(x.entries[i])
    BY DEF Owned
  <2>1. CASE i = n
    <3>1. PICK j \in DOMAIN s.entries :
            /\ s.entries[j].id = owner /\ s.entries[j].kind \in OwnerKinds
            /\ ~Retired(s.entries[j])
      BY <1>2, <1>4, <2>1
    <3> QED BY <3>1, <1>2, <1>4, <2>1
  <2>2. CASE i # n
    <3>1. i \in DOMAIN s.entries /\ s.entries[i].owner # 0 /\ x.entries[i] = s.entries[i]
      BY <1>4, <2>2, Parts
    <3>2. PICK j \in 1..(i - 1) :
            /\ s.entries[j].id = s.entries[i].owner /\ s.entries[j].kind \in OwnerKinds
            /\ Retired(s.entries[j]) => Retired(s.entries[i])
      BY <3>1 DEF Owned, Sound
    <3>3. j \in DOMAIN s.entries BY <3>1, <1>4, Parts
    <3> QED BY <3>1, <3>2, <3>3, <1>4
  <2> QED BY <2>1, <2>2
<1>10. Kinded(x)
  <2> SUFFICES ASSUME NEW i \in DOMAIN x.entries
               PROVE  (x.entries[i].owner = 0) <=> x.entries[i].kind \notin SlotKinds
    BY DEF Kinded
  <2>1. CASE i = n BY <2>1, <1>2, <1>4
  <2>2. CASE i # n
    <3>1. i \in DOMAIN s.entries /\ x.entries[i] = s.entries[i] BY <1>4, <2>2, Parts
    <3> QED BY <3>1 DEF Kinded, Sound
  <2> QED BY <2>1, <2>2
<1>11. Sound(x) BY <1>4, <1>7, <1>8, <1>9, <1>10, Parts, SizeAssumption DEF Sound
<1>12. Succeeds(s, x) BY <1>3, <1>4, Parts DEF Succeeds
<1>13. ASSUME NEW o \in Ids
       PROVE  Cardinality(ActiveSlots(x, o)) =
                Cardinality(ActiveSlots(s, o)) + IF o = owner THEN 1 ELSE 0
  <2>1. CASE o = owner
    <3>1. ActiveSlots(x, o) = ActiveSlots(s, o) \cup {n}
      BY <2>1, <1>2, <1>4, Parts DEF ActiveSlots
    <3>2. n \notin ActiveSlots(s, o) BY <1>4, Parts DEF ActiveSlots
    <3>3. IsFiniteSet(ActiveSlots(s, o)) BY Sizes
    <3>4. Cardinality(ActiveSlots(s, o) \cup {n}) = Cardinality(ActiveSlots(s, o)) + 1
      BY <3>2, <3>3, FS_AddElement
    <3> QED BY <2>1, <3>1, <3>4
  <2>2. CASE o # owner
    <3>1. ActiveSlots(x, o) = ActiveSlots(s, o)
      BY <2>2, <1>2, <1>4, Parts DEF ActiveSlots
    <3> QED BY <2>2, <3>1, Sizes
  <2> QED BY <2>1, <2>2
<1> QED BY <1>5, <1>11, <1>12, <1>13 DEF x

\* A tombstone in place of an entry without active slots keeps a registry sound,
\* and takes a slot from its owner only.
LEMMA RetireKeeps ==
  ASSUME NEW s \in Input, Sound(s), NEW i \in DOMAIN s.entries, NEW reason \in Reasons,
         ~Retired(s.entries[i]), s.revision < MaxInteger,
         s.entries[i].owner = 0 => ActiveSlots(s, s.entries[i].id) = {}
  PROVE  /\ Tombstoned(s, i, reason) \in Input /\ Sound(Tombstoned(s, i, reason))
         /\ Succeeds(s, Tombstoned(s, i, reason))
         /\ \A o \in Ids : Cardinality(ActiveSlots(Tombstoned(s, i, reason), o)) =
              Cardinality(ActiveSlots(s, o)) - IF o = s.entries[i].owner THEN 1 ELSE 0
<1> DEFINE x == Tombstoned(s, i, reason)
           d == [s.entries[i] EXCEPT !.state = reason]
<1>1. /\ x.entries = [s.entries EXCEPT ![i].state = reason]
      /\ x.last = s.last /\ x.revision = s.revision + 1
  BY DEF Tombstoned
<1>2. /\ d \in Entry /\ d.id = s.entries[i].id /\ d.kind = s.entries[i].kind
      /\ d.owner = s.entries[i].owner /\ d.state = reason /\ Retired(d)
  BY Parts, KindAssumption DEF Entry, Retired
<1>3. /\ x.entries \in Seq(Entry) /\ DOMAIN x.entries = DOMAIN s.entries
      /\ x.entries[i] = d /\ Len(x.entries) = Len(s.entries)
      /\ \A j \in DOMAIN s.entries : j # i => x.entries[j] = s.entries[j]
  BY <1>1, <1>2, Parts
<1>4. \A j \in DOMAIN s.entries : Target(x.entries[j]) = Target(s.entries[j])
  BY <1>2, <1>3 DEF Target
<1>5. x \in Input BY <1>1, <1>3, Parts, SizeAssumption DEF Input, Tombstoned
<1> HIDE DEF x, d
<1>6. Counted(x)
  <2>1. Tombstones(x) = Tombstones(s) \cup {i} BY <1>2, <1>3 DEF Tombstones
  <2>2. i \notin Tombstones(s) BY DEF Tombstones
  <2>3. Cardinality(Tombstones(x)) = Cardinality(Tombstones(s)) + 1
    BY <2>1, <2>2, Sizes, FS_AddElement
  <2> QED BY <2>3, <1>1, Sizes, Parts DEF Counted, Sound
<1>7. Contiguous(x) BY <1>1, <1>2, <1>3 DEF Contiguous, Sound
<1>8. Kinded(x) BY <1>2, <1>3 DEF Kinded, Sound
<1>9. Owned(x)
  <2> SUFFICES ASSUME NEW k \in DOMAIN x.entries, x.entries[k].owner # 0
               PROVE  \E j \in 1..(k - 1) :
                        /\ x.entries[j].id = x.entries[k].owner /\ x.entries[j].kind \in OwnerKinds
                        /\ Retired(x.entries[j]) => Retired(x.entries[k])
    BY DEF Owned
  <2>1. k \in DOMAIN s.entries /\ s.entries[k].owner = x.entries[k].owner
    BY <1>2, <1>3
  <2>2. PICK j \in 1..(k - 1) :
          /\ s.entries[j].id = s.entries[k].owner /\ s.entries[j].kind \in OwnerKinds
          /\ Retired(s.entries[j]) => Retired(s.entries[k])
    BY <2>1 DEF Owned, Sound
  <2>3. j \in DOMAIN s.entries BY <2>1, Parts
  <2>4. /\ x.entries[j].id = s.entries[j].id /\ x.entries[j].kind = s.entries[j].kind
        /\ Retired(s.entries[k]) => Retired(x.entries[k])
    BY <2>1, <2>3, <1>2, <1>3
  <2>5. CASE j # i BY <2>1, <2>2, <2>3, <2>4, <2>5, <1>3
  <2>6. CASE j = i
    <3>1. s.entries[i].owner = 0 BY <2>2, <2>6, KindAssumption DEF Kinded, Sound
    <3>2. ActiveSlots(s, s.entries[k].owner) = {} BY <3>1, <2>2, <2>6
    <3>3. Retired(s.entries[k]) BY <3>2, <2>1 DEF ActiveSlots
    <3> QED BY <3>3, <2>1, <2>2, <2>4
  <2> QED BY <2>5, <2>6
<1>10. Sound(x) BY <1>3, <1>6, <1>7, <1>8, <1>9 DEF Sound
<1>11. Succeeds(s, x)
  <2>1. \A j \in DOMAIN s.entries : Retired(s.entries[j]) => j # i /\ s.entries[j] = x.entries[j]
    BY <1>3
  <2>2. Len(s.entries) <= Len(x.entries) /\ s.revision <= x.revision
    BY <1>1, <1>3, Parts
  <2>3. \A j \in DOMAIN s.entries : Target(s.entries[j]) = Target(x.entries[j]) BY <1>4
  <2> QED BY <2>1, <2>2, <2>3 DEF Succeeds
<1>12. ASSUME NEW o \in Ids
       PROVE  Cardinality(ActiveSlots(x, o)) =
                Cardinality(ActiveSlots(s, o)) - IF o = s.entries[i].owner THEN 1 ELSE 0
  <2>1. ActiveSlots(x, o) = ActiveSlots(s, o) \ {i} BY <1>2, <1>3 DEF ActiveSlots
  <2>2. i \in ActiveSlots(s, o) <=> o = s.entries[i].owner BY DEF ActiveSlots
  <2>3. IsFiniteSet(ActiveSlots(s, o)) /\ Cardinality(ActiveSlots(s, o)) \in Nat BY Sizes
  <2>4. Cardinality(ActiveSlots(s, o) \ {i}) =
          IF i \in ActiveSlots(s, o) THEN Cardinality(ActiveSlots(s, o)) - 1
          ELSE Cardinality(ActiveSlots(s, o))
    BY <2>3, FS_RemoveElement
  <2>5. CASE o = s.entries[i].owner BY <2>1, <2>2, <2>4, <2>5
  <2>6. CASE o # s.entries[i].owner BY <2>1, <2>2, <2>3, <2>4, <2>6
  <2> QED BY <2>5, <2>6
<1> QED BY <1>5, <1>10, <1>11, <1>12 DEF x

\* Succession is an order on registries.
LEMMA SuccessionIsOrder ==
  ASSUME NEW a \in Input, NEW b \in Input, NEW c \in Input
  PROVE  Succeeds(a, a) /\ (Succeeds(a, b) /\ Succeeds(b, c) => Succeeds(a, c))
<1>1. Succeeds(a, a) BY Parts DEF Succeeds
<1>2. ASSUME Succeeds(a, b), Succeeds(b, c) PROVE Succeeds(a, c)
  <2>1. Len(a.entries) <= Len(b.entries) /\ Len(b.entries) <= Len(c.entries)
    BY <1>2 DEF Succeeds
  <2>2. Len(a.entries) <= Len(c.entries) /\ a.revision <= c.revision
    BY <1>2, <2>1, Parts DEF Succeeds
  <2>3. ASSUME NEW i \in DOMAIN a.entries
        PROVE  /\ Target(a.entries[i]) = Target(c.entries[i])
               /\ Retired(a.entries[i]) => a.entries[i].state = c.entries[i].state
    <3>1. i \in DOMAIN b.entries BY <2>1, Parts
    <3> QED BY <1>2, <3>1 DEF Succeeds, Retired
  <2> QED BY <2>2, <2>3 DEF Succeeds
<1> QED BY <1>1, <1>2

\* Of two sound registries in succession the later keeps what the earlier
\* names and retires, and is the same if its revision is.
LEMMA SuccessorKeeps ==
  ASSUME NEW a \in Input, NEW b \in Input, Sound(a), Sound(b), Succeeds(a, b)
  PROVE  /\ \A i \in DOMAIN a.entries :
              /\ i \in DOMAIN b.entries /\ Target(b.entries[i]) = Target(a.entries[i])
              /\ Retired(a.entries[i]) => b.entries[i] = a.entries[i]
         /\ a.revision = b.revision => a = b
<1>1. Len(a.entries) <= Len(b.entries) BY DEF Succeeds
<1>2. ASSUME NEW i \in DOMAIN a.entries
      PROVE  /\ i \in DOMAIN b.entries /\ Target(b.entries[i]) = Target(a.entries[i])
             /\ a.entries[i].state = b.entries[i].state => b.entries[i] = a.entries[i]
             /\ Retired(a.entries[i]) => a.entries[i].state = b.entries[i].state
  <2>1. i \in DOMAIN b.entries BY <1>1, Parts
  <2>2. /\ Target(a.entries[i]) = Target(b.entries[i])
        /\ Retired(a.entries[i]) => a.entries[i].state = b.entries[i].state
    BY DEF Succeeds
  <2>3. a.entries[i] \in Entry /\ b.entries[i] \in Entry BY <2>1, Parts
  <2>4. /\ a.entries[i].id = b.entries[i].id /\ a.entries[i].kind = b.entries[i].kind
        /\ a.entries[i].owner = b.entries[i].owner
    BY <2>2 DEF Target
  <2>5. a.entries[i].state = b.entries[i].state => b.entries[i] = a.entries[i]
    BY <2>3, <2>4 DEF Entry
  <2> QED BY <2>1, <2>2, <2>5
<1>3. ASSUME a.revision = b.revision PROVE a = b
  <2>1. Tombstones(a) \in SUBSET Tombstones(b) BY <1>2 DEF Tombstones, Retired
  <2>2. Cardinality(Tombstones(a)) <= Cardinality(Tombstones(b))
    BY <2>1, Sizes, FS_Subset
  <2>3. /\ Cardinality(Tombstones(a)) \in Nat /\ Cardinality(Tombstones(b)) \in Nat
        /\ IsFiniteSet(Tombstones(b))
    BY Sizes
  <2>4. /\ a.last = Len(a.entries) /\ b.last = Len(b.entries)
        /\ a.revision = a.last + Cardinality(Tombstones(a))
        /\ b.revision = b.last + Cardinality(Tombstones(b))
    BY DEF Sound, Contiguous, Counted
  <2>5. a.last = b.last /\ Cardinality(Tombstones(a)) = Cardinality(Tombstones(b))
    <3>1. Len(a.entries) \in Nat /\ Len(b.entries) \in Nat BY Parts
    <3>2. Len(a.entries) + Cardinality(Tombstones(a)) = Len(b.entries) + Cardinality(Tombstones(b))
      BY <1>3, <2>4
    <3>3. \A k, l, m, n \in Nat : k <= l /\ m <= n /\ k + m = l + n => k = l /\ m = n
      OBVIOUS
    <3>4. /\ Len(a.entries) = Len(b.entries)
          /\ Cardinality(Tombstones(a)) = Cardinality(Tombstones(b))
      BY <1>1, <2>2, <2>3, <3>1, <3>2, <3>3
    <3> QED BY <2>4, <3>4
  <2>6. Tombstones(a) = Tombstones(b) BY <2>1, <2>3, <2>5, FS_Subset
  <2>7. DOMAIN a.entries = DOMAIN b.entries BY <2>4, <2>5, Parts
  <2>8. ASSUME NEW i \in DOMAIN a.entries PROVE b.entries[i] = a.entries[i]
    <3>1. Retired(a.entries[i]) <=> Retired(b.entries[i]) BY <2>6, <2>7 DEF Tombstones
    <3> QED BY <1>2, <3>1 DEF Retired
  <2>9. a.entries = b.entries BY <2>7, <2>8, Parts
  <2> QED BY <1>3, <2>5, <2>9, Parts
<1> QED BY <1>2, <1>3

-----------------------------------------------------------------------------
(* Sizes: the loop over the entries, and what an edit adds to its result.   *)

NaturalsLess == {pair \in Nat \X Nat : pair[1] < pair[2]}

\* Induction up to N on membership in a set: of the numbers that are not in it
\* there would be a least one.
LEMMA CountingUp ==
  ASSUME NEW N \in Nat, NEW S, 0 \in S, \A n \in 1..N : n - 1 \in S => n \in S
  PROVE  0..N \subseteq S
<1> DEFINE Missing == (0..N) \ S
<1>1. SUFFICES ASSUME Missing # {} PROVE FALSE OBVIOUS
<1>2. IsWellFoundedOn(NaturalsLess, Nat)
  BY NatLessThanWellFounded, Zenon DEF NaturalsLess, OpToRel
<1>3. Missing \subseteq Nat OBVIOUS
<1>4. PICK m \in Missing : \A l \in Missing : ~(<<l, m>> \in NaturalsLess)
  <2> HIDE DEF Missing
  <2> QED BY <1>1, <1>2, <1>3, WFMin
<1>5. m \in 1..N /\ m - 1 \in 0..N /\ m - 1 < m OBVIOUS
<1>6. <<m - 1, m>> \in NaturalsLess BY <1>5 DEF NaturalsLess
<1>7. m - 1 \in S BY <1>4, <1>5, <1>6
<1> QED BY <1>5, <1>7

\* The partial sums of N naturals exist.
LEMMA PartialSums ==
  ASSUME NEW N \in Nat, NEW step \in [1..N -> Nat]
  PROVE  \E f \in [0..N -> Nat] : \A n \in 0..N : f[n] = IF n = 0 THEN 0 ELSE f[n - 1] + step[n]
<1> DEFINE Adds(f, m) == \A n \in 0..m : f[n] = IF n = 0 THEN 0 ELSE f[n - 1] + step[n]
           Added == {m \in 0..N : \E f \in [0..N -> Nat] : Adds(f, m)}
<1>1. 0 \in Added
  <2>1. [n \in 0..N |-> 0] \in [0..N -> Nat] /\ Adds([n \in 0..N |-> 0], 0) OBVIOUS
  <2> HIDE DEF Adds
  <2> QED BY <2>1
<1>2. ASSUME NEW m \in 1..N, m - 1 \in Added PROVE m \in Added
  <2>1. PICK f \in [0..N -> Nat] : Adds(f, m - 1) BY <1>2
  <2>2. PICK total \in Nat : total = f[m - 1] + step[m] OBVIOUS
  <2>3. PICK g : g = [f EXCEPT ![m] = total] OBVIOUS
  <2>4. g \in [0..N -> Nat] BY <2>2, <2>3
  <2>5. ASSUME NEW n \in 0..m PROVE g[n] = IF n = 0 THEN 0 ELSE g[n - 1] + step[n]
    <3>1. CASE n = m BY <3>1, <2>2, <2>3
    <3>2. CASE n # m
      <4>1. n \in 0..(m - 1) /\ n \in 0..N /\ n - 1 # m BY <3>2
      <4>2. f[n] = IF n = 0 THEN 0 ELSE f[n - 1] + step[n] BY <4>1, <2>1
      <4>3. g[n] = f[n] BY <4>1, <2>3, <3>2
      <4>4. n # 0 => g[n - 1] = f[n - 1] BY <4>1, <2>3
      <4> QED BY <4>2, <4>3, <4>4
    <3> QED BY <3>1, <3>2
  <2>6. Adds(g, m) BY <2>5
  <2> HIDE DEF Adds
  <2> QED BY <2>4, <2>6
<1>3. N \in Added
  <2> HIDE DEF Added
  <2>1. 0..N \subseteq Added BY <1>1, <1>2, CountingUp
  <2> QED BY <2>1
<1> QED BY <1>3

\* What new() adds up, entry by entry.
LEMMA Sums ==
  ASSUME NEW s \in Input
  PROVE  /\ EntryBytesUpTo(s)[0] = 0
         /\ \A n \in 1..Len(s.entries) :
              /\ Size(s.entries[n]) \in Nat
              /\ EntryBytesUpTo(s)[n] = EntryBytesUpTo(s)[n - 1] + Size(s.entries[n])
         /\ \A n \in 0..Len(s.entries) : EntryBytesUpTo(s)[n] \in Nat
<1>1. Len(s.entries) \in Nat /\ \A n \in 1..Len(s.entries) : Size(s.entries[n]) \in Nat
  BY Parts, SizeAssumption DEF Size, Retired
<1>2. PICK step \in [1..Len(s.entries) -> Nat] : \A n \in 1..Len(s.entries) : step[n] = Size(s.entries[n])
  <2>1. [n \in 1..Len(s.entries) |-> Size(s.entries[n])] \in [1..Len(s.entries) -> Nat] BY <1>1
  <2> QED BY <2>1
<1>3. PICK f \in [0..Len(s.entries) -> Nat] :
        \A n \in 0..Len(s.entries) : f[n] = IF n = 0 THEN 0 ELSE f[n - 1] + step[n]
  BY <1>1, PartialSums
<1>4. f = [n \in 0..Len(s.entries) |-> IF n = 0 THEN 0 ELSE f[n - 1] + Size(s.entries[n])]
  <2>1. \A n \in 0..Len(s.entries) : n # 0 => n \in 1..Len(s.entries) BY <1>1
  <2> QED BY <1>2, <1>3, <2>1
<1>5. EntryBytesUpTo(s) = [n \in 0..Len(s.entries) |->
        IF n = 0 THEN 0 ELSE EntryBytesUpTo(s)[n - 1] + Size(s.entries[n])]
  BY <1>4, Zenon DEF EntryBytesUpTo
<1>6. EntryBytesUpTo(s)[0] = 0 BY <1>5, <1>1
<1>7. ASSUME NEW n \in 1..Len(s.entries)
      PROVE  EntryBytesUpTo(s)[n] = EntryBytesUpTo(s)[n - 1] + Size(s.entries[n])
  <2>1. n \in 0..Len(s.entries) /\ n # 0 BY <1>1
  <2> QED BY <2>1, <1>5
<1> DEFINE Counts == {n \in Nat : EntryBytesUpTo(s)[n] \in Nat}
<1>8. ASSUME NEW n \in 1..Len(s.entries), n - 1 \in Counts PROVE n \in Counts
  BY <1>1, <1>7, <1>8
<1>9. 0..Len(s.entries) \subseteq Counts
  <2>1. 0 \in Counts BY <1>6
  <2> HIDE DEF Counts
  <2> QED BY <1>1, <1>8, <2>1, CountingUp
<1> QED BY <1>1, <1>6, <1>7, <1>9

\* The size of a registry is a number, and nothing for the empty one.
LEMMA RecomputedIsNatural ==
  /\ Recomputed(Empty) = 0
  /\ \A s \in Input : Recomputed(s) \in Nat
<1>1. Empty \in Input /\ Len(Empty.entries) = 0 BY EmptyIsSound DEF Empty
<1>2. Recomputed(Empty) = 0 BY <1>1, Sums DEF Recomputed
<1>3. ASSUME NEW s \in Input PROVE Recomputed(s) \in Nat
  <2>1. Len(s.entries) \in 0..Len(s.entries) BY Parts
  <2> QED BY <2>1, Sums DEF Recomputed
<1> QED BY <1>2, <1>3

\* A new entry adds its own size.
LEMMA AppendAddsSize ==
  ASSUME NEW s \in Input, NEW e \in Entry, Appended(s, e) \in Input
  PROVE  /\ Recomputed(Appended(s, e)) = Recomputed(s) + Size(e)
         /\ Len(Appended(s, e).entries) = Len(s.entries) + 1
<1> DEFINE x == Appended(s, e)
<1>1. /\ s.entries \in Seq(Entry) /\ Len(s.entries) \in Nat /\ x.entries = Append(s.entries, e)
  BY Parts DEF Appended
<1>2. /\ Len(x.entries) = Len(s.entries) + 1 /\ x.entries[Len(s.entries) + 1] = e
      /\ \A n \in 1..Len(s.entries) : x.entries[n] = s.entries[n]
  BY <1>1
<1> DEFINE Same == {n \in Nat : EntryBytesUpTo(x)[n] = EntryBytesUpTo(s)[n]}
<1> HIDE DEF x
<1>3. 0 \in Same BY Sums DEF x
<1>4. ASSUME NEW n \in 1..Len(s.entries), n - 1 \in Same PROVE n \in Same
  <2>1. n \in 1..Len(x.entries) /\ x.entries[n] = s.entries[n] /\ n \in Nat BY <1>1, <1>2
  <2>2. /\ EntryBytesUpTo(x)[n] = EntryBytesUpTo(x)[n - 1] + Size(x.entries[n])
        /\ EntryBytesUpTo(s)[n] = EntryBytesUpTo(s)[n - 1] + Size(s.entries[n])
    BY <2>1, Sums DEF x
  <2>3. EntryBytesUpTo(x)[n - 1] = EntryBytesUpTo(s)[n - 1] BY <1>4
  <2> QED BY <2>1, <2>2, <2>3
<1>5. 0..Len(s.entries) \subseteq Same
  <2> HIDE DEF Same
  <2> QED BY <1>1, <1>3, <1>4, CountingUp
<1>6. EntryBytesUpTo(x)[Len(x.entries)] = EntryBytesUpTo(x)[Len(s.entries)] + Size(e)
  <2>1. Len(x.entries) \in 1..Len(x.entries) BY <1>1, <1>2
  <2>2. Len(x.entries) - 1 = Len(s.entries) BY <1>1, <1>2
  <2> QED BY <2>1, <2>2, <1>2, Sums DEF x
<1>7. EntryBytesUpTo(x)[Len(s.entries)] = EntryBytesUpTo(s)[Len(s.entries)] BY <1>1, <1>5
<1> QED BY <1>2, <1>6, <1>7 DEF Recomputed, x

\* A tombstone takes off the size of the entry it replaces and adds its own.
LEMMA RetireChangesSize ==
  ASSUME NEW s \in Input, NEW i \in DOMAIN s.entries, NEW reason \in Reasons,
         Tombstoned(s, i, reason) \in Input
  PROVE  /\ Recomputed(Tombstoned(s, i, reason)) =
              (Recomputed(s) - Size(s.entries[i])) + Size([s.entries[i] EXCEPT !.state = reason])
         /\ Len(Tombstoned(s, i, reason).entries) = Len(s.entries)
<1> DEFINE x == Tombstoned(s, i, reason)
           d == [s.entries[i] EXCEPT !.state = reason]
<1>1. /\ s.entries \in Seq(Entry) /\ Len(s.entries) \in Nat
      /\ DOMAIN s.entries = 1..Len(s.entries) /\ i \in 1..Len(s.entries)
      /\ x.entries = [s.entries EXCEPT ![i] = d]
  BY Parts DEF Tombstoned
<1>2. /\ Len(x.entries) = Len(s.entries) /\ x.entries[i] = d
      /\ \A n \in 1..Len(s.entries) : n # i => x.entries[n] = s.entries[n]
  BY <1>1
<1>3. PICK change \in Int : change = Size(d) - Size(s.entries[i])
  <2>1. Size(s.entries[i]) \in Nat /\ Size(x.entries[i]) \in Nat BY <1>1, <1>2, Sums
  <2> QED BY <2>1, <1>2
<1> DEFINE Changed == {n \in Nat : EntryBytesUpTo(x)[n] = EntryBytesUpTo(s)[n] + IF n < i THEN 0 ELSE change}
<1> HIDE DEF x, d
<1>4. 0 \in Changed
  <2>1. EntryBytesUpTo(x)[0] = 0 /\ EntryBytesUpTo(s)[0] = 0 BY Sums DEF x
  <2>2. 0 < i BY <1>1
  <2> QED BY <2>1, <2>2
<1>5. ASSUME NEW n \in 1..Len(s.entries), n - 1 \in Changed PROVE n \in Changed
  <2>1. /\ EntryBytesUpTo(x)[n] = EntryBytesUpTo(x)[n - 1] + Size(x.entries[n])
        /\ EntryBytesUpTo(s)[n] = EntryBytesUpTo(s)[n - 1] + Size(s.entries[n])
        /\ Size(x.entries[n]) \in Nat /\ Size(s.entries[n]) \in Nat
    BY <1>2, Sums DEF x
  <2>2. EntryBytesUpTo(s)[n - 1] \in Nat /\ EntryBytesUpTo(s)[n] \in Nat
    <3>1. n - 1 \in 0..Len(s.entries) /\ n \in 0..Len(s.entries) BY <1>1
    <3> QED BY <3>1, Sums
  <2>3. EntryBytesUpTo(x)[n - 1] = EntryBytesUpTo(s)[n - 1] + IF n - 1 < i THEN 0 ELSE change
    BY <1>5
  <2>4. CASE n = i BY <2>4, <2>1, <2>2, <2>3, <1>1, <1>2, <1>3
  <2>5. CASE n # i
    <3>1. Size(x.entries[n]) = Size(s.entries[n]) BY <2>5, <1>2
    <3>2. n - 1 < i <=> n < i BY <2>5, <1>1
    <3> QED BY <3>1, <3>2, <2>1, <2>2, <2>3, <1>1
  <2> QED BY <2>4, <2>5
<1>6. 0..Len(s.entries) \subseteq Changed
  <2> HIDE DEF Changed
  <2> QED BY <1>1, <1>4, <1>5, CountingUp
<1>7. Len(s.entries) \in Changed /\ ~(Len(s.entries) < i) BY <1>1, <1>6
<1>8. Recomputed(x) = Recomputed(s) + change BY <1>2, <1>7 DEF Recomputed
<1>9. Recomputed(s) \in Nat /\ Size(s.entries[i]) \in Nat /\ Size(d) \in Nat
  BY <1>1, <1>2, RecomputedIsNatural, Sums DEF x
<1> QED BY <1>2, <1>3, <1>8, <1>9 DEF x, d
=============================================================================
