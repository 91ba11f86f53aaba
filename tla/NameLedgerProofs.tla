--------------------------- MODULE NameLedgerProofs ---------------------------
(***************************************************************************)
(* For any names, requests, files and limits: a transaction gives what it    *)
(* was asked for, and along every chain of checkpoints names keep their      *)
(* targets, whatever was copied between the directories.                    *)
(***************************************************************************)
EXTENDS NameLedger, RegistrySnapshotProofs

\* A ledger is a sound registry with names for identities that it knows.
IsLedger(l) ==
  /\ l = [registry |-> l.registry, names |-> l.names]
  /\ l.registry \in Input /\ Sound(l.registry)
  /\ \A key \in DOMAIN l.names :
       /\ l.names[key] \in Targets /\ key[1] = Space(l.names[key])
       /\ EntryOf(l.registry, l.names[key]) # {}

\* What the host and the checkpoints hold.
Ledgers ==
  /\ IsLedger(base) /\ IsLedger(staged)
  /\ \A receipt \in built : IsLedger(receipt.ledger)
  /\ \A receipt \in from : receipt.ledger = base

\* The requests that Begin lets through.
Sensible ==
  /\ \A r \in requests :
       /\ r.form = "definition" => r.kind \notin SlotKinds
       /\ r.form = "slot" => r.kind \in SlotKinds
       /\ r.form = "alias" => Active(base.registry, r.target)
  /\ \A r, q \in requests : Key(r) = Key(q) => r = q
  /\ step \in {"idle", "loaded"} => requests = {}
  /\ step = "staged" => pending = {}

\* b has all entries and names of a, unchanged.
Grows(a, b) ==
  /\ \A i \in DOMAIN a.registry.entries :
       i \in DOMAIN b.registry.entries /\ b.registry.entries[i] = a.registry.entries[i]
  /\ \A key \in DOMAIN a.names : key \in DOMAIN b.names /\ b.names[key] = a.names[key]

\* How far a transaction has come.
Progress ==
  /\ requests # {} => Grows(base, staged)
  /\ requests # {} => \A key \in DOMAIN staged.names :
       key \in DOMAIN base.names \/ \E r \in requests \ pending : key = Key(r)
  /\ \A r \in requests \ pending : Met(r)
  /\ step = "staged" => Continues(base, staged)

LInv == TypeOK /\ Ledgers /\ Sensible /\ Progress /\ NamesAreKept

-----------------------------------------------------------------------------
(* Ledgers as values.                                                      *)

\* A registry without names is a ledger.
LEMMA UnnamedIsLedger ==
  ASSUME NEW s \in Input, Sound(s)
  PROVE  IsLedger(Unnamed(s))
BY DEF IsLedger, Unnamed

\* Files of sources are sound.
LEMMA FilesAreSound == \A s \in Files \cup {Empty} : s \in Input /\ Sound(s)
BY SourceAssumption, AcceptedIsSound, EmptyIsSound DEF Kinded

\* What is active in a ledger is active in one that has grown.
LEMMA ActiveStays ==
  ASSUME NEW a, NEW b, Grows(a, b), NEW t, Active(a.registry, t)
  PROVE  Active(b.registry, t)
BY DEF Grows, Active, EntryOf, Retired

\* What continues a ledger that continues another continues that one.
LEMMA ContinuesIsOrder ==
  ASSUME NEW a, NEW b, NEW c, IsLedger(a), IsLedger(b), IsLedger(c),
         Continues(a, b), Continues(b, c)
  PROVE  Continues(a, c)
<1>1. Succeeds(a.registry, c.registry)
  BY SuccessionIsOrder DEF IsLedger, Continues
<1>. QED  BY <1>1 DEF Continues, Bound

\* A new identity is one more entry and one more name, unlike any before.
LEMMA Issues ==
  ASSUME IsLedger(staged), NEW r, ~Bound(staged, Key(r)),
         NEW kind \in Kinds, NEW owner \in 0..MaxInteger, (owner = 0) <=> kind \notin SlotKinds,
         Key(r)[1] = IF owner = 0 THEN "definition" ELSE "slot",
         owner # 0 => \E i \in DOMAIN staged.registry.entries :
           /\ staged.registry.entries[i].id = owner /\ staged.registry.entries[i].kind \in OwnerKinds
           /\ ~Retired(staged.registry.entries[i]),
         Issue(r, kind, owner)
  PROVE  LET t == [id |-> staged.registry.last + 1, kind |-> kind, owner |-> owner]
         IN  /\ IsLedger(staged') /\ Grows(staged, staged')
             /\ DOMAIN staged'.names = DOMAIN staged.names \cup {Key(r)}
             /\ staged'.names[Key(r)] = t
             /\ EntryOf(staged.registry, t) = {} /\ Active(staged'.registry, t)
<1> DEFINE s == staged.registry
           e == Fresh(s, kind, owner)
           t == [id |-> s.last + 1, kind |-> kind, owner |-> owner]
           x == Appended(s, e)
           names == Named(staged.names, Key(r), t)
<1>1. s \in Input /\ Sound(s)
  BY DEF IsLedger
<1>2. e = [id |-> s.last + 1, kind |-> kind, owner |-> owner, state |-> "active"] /\ Target(e) = t
  BY DEF Fresh, Target
<1>3. /\ s.last < MaxInteger /\ s.revision < MaxInteger /\ Len(s.entries) < MaxEntries
      /\ \A i \in DOMAIN s.entries : Target(s.entries[i]) # t
      /\ staged' = [registry |-> x, names |-> names]
  BY <1>2 DEF Issue, MayAppend
<1>4. x \in Input /\ Sound(x)
  BY <1>1, <1>2, <1>3, AppendKeeps
<1>5. /\ \A i \in DOMAIN s.entries : i \in DOMAIN x.entries /\ x.entries[i] = s.entries[i]
      /\ \E n \in DOMAIN x.entries : x.entries[n] = e
  <2>1. s.entries \in Seq(Entry) /\ x.entries = Append(s.entries, e)
    BY <1>1, Parts DEF Appended
  <2>2. e \in Entry
    <3>1. s.last + 1 \in Ids
      BY <1>1, <1>3, Parts, SizeAssumption DEF Ids
    <3>. QED  BY <1>2, <3>1 DEF Entry
  <2>. HIDE DEF s, e, x
  <2>3. Len(s.entries) + 1 \in DOMAIN Append(s.entries, e)
    <3>1. /\ Append(s.entries, e) \in Seq(Entry) /\ Len(Append(s.entries, e)) = Len(s.entries) + 1
          /\ Len(s.entries) \in Nat
      BY <2>1, <2>2
    <3>2. DOMAIN Append(s.entries, e) = 1..Len(s.entries) + 1
      BY <3>1
    <3>. QED  BY <3>1, <3>2
  <2>4. Append(s.entries, e)[Len(s.entries) + 1] = e
    BY <2>1, <2>2
  <2>5. \A i \in DOMAIN s.entries : i \in DOMAIN Append(s.entries, e) /\ Append(s.entries, e)[i] = s.entries[i]
    BY <2>1, <2>2
  <2>. QED  BY <2>1, <2>3, <2>4, <2>5
<1>6. EntryOf(s, t) = {} /\ Active(x, t)
  <2>1. EntryOf(s, t) = {}
    BY <1>3 DEF EntryOf
  <2>2. ~Retired(e)
    BY <1>2 DEF Retired
  <2>. HIDE DEF s, e, x, t
  <2>. QED  BY <1>2, <1>5, <2>1, <2>2 DEF Active, EntryOf
<1>7. /\ DOMAIN names = DOMAIN staged.names \cup {Key(r)} /\ names[Key(r)] = t
      /\ \A key \in DOMAIN staged.names : names[key] = staged.names[key]
  BY DEF Bound, Named
<1>8. t \in Targets /\ Key(r)[1] = Space(t)
  <2>1. s.last + 1 \in Ids
    BY <1>1, <1>3, Parts, SizeAssumption DEF Ids
  <2>. QED  BY <2>1 DEF Targets, Space
<1>9. Grows(staged, staged')
  <2>. HIDE DEF s, e, x, t, names
  <2>1. staged'.registry = x /\ staged'.names = names
    BY <1>3
  <2>. QED  BY <2>1, <1>5, <1>7 DEF Grows, s
<1>10. IsLedger(staged')
  <2>. HIDE DEF x, t, names
  <2>1. staged'.registry = x /\ staged'.names = names
    BY <1>3
  <2>2. \A key \in DOMAIN staged.names :
          /\ staged.names[key] \in Targets /\ key[1] = Space(staged.names[key])
          /\ EntryOf(x, staged.names[key]) # {}
    BY <1>5 DEF IsLedger, EntryOf
  <2>3. EntryOf(x, t) # {}
    BY <1>6 DEF Active
  <2>. QED  BY <1>3, <1>4, <1>7, <1>8, <2>1, <2>2, <2>3 DEF IsLedger
<1>11. staged'.registry = x /\ staged'.names = names
  BY <1>3
<1>. HIDE DEF x, names, e
<1>. QED  BY <1>6, <1>7, <1>9, <1>10, <1>11

\* An alias is one more name for an identity that the registry knows.
LEMMA Aliases ==
  ASSUME IsLedger(staged), NEW key, ~Bound(staged, key), NEW t \in Targets,
         key[1] = Space(t), Active(staged.registry, t),
         staged' = [registry |-> staged.registry, names |-> Named(staged.names, key, t)]
  PROVE  /\ IsLedger(staged') /\ Grows(staged, staged')
         /\ DOMAIN staged'.names = DOMAIN staged.names \cup {key}
         /\ staged'.names[key] = t
<1> DEFINE names == Named(staged.names, key, t)
<1>1. /\ DOMAIN names = DOMAIN staged.names \cup {key} /\ names[key] = t
      /\ \A k \in DOMAIN staged.names : names[k] = staged.names[k]
  BY DEF Bound, Named
<1>2. staged'.registry = staged.registry /\ staged'.names = names
  OBVIOUS
<1>. HIDE DEF names
<1>3. EntryOf(staged.registry, t) # {}
  BY DEF Active
<1>4. IsLedger(staged')
  BY <1>1, <1>2, <1>3 DEF IsLedger, names
<1>. QED  BY <1>1, <1>2, <1>4 DEF Grows

\* What a request got stays right while the rest is staged.
LEMMA MetStays ==
  ASSUME NEW q \in requests, Met(q), Grows(staged, staged'), UNCHANGED <<base, requests>>,
         IsLedger(staged), q \in Request,
         \A key \in DOMAIN staged'.names \ DOMAIN staged.names :
           staged'.names[key] # staged.names[Key(q)] \/ EntryOf(base.registry, staged'.names[key]) # {}
  PROVE  Met(q)'
<1>1. Key(q) \in DOMAIN staged'.names /\ staged'.names[Key(q)] = staged.names[Key(q)]
  BY DEF Met, Bound, Grows
<1>2. Active(staged'.registry, staged.names[Key(q)])
  BY ActiveStays DEF Met
<1>3. q.form = "slot" => staged'.names[<<"definition", q.owner>>] = staged.names[<<"definition", q.owner>>]
  BY DEF Bound, Grows, Met
<1>4. ASSUME q.form # "alias", ~Bound(base, Key(q)), NEW key \in DOMAIN staged'.names,
             staged'.names[key] = staged.names[Key(q)]
      PROVE  key = Key(q)
  <2>1. EntryOf(base.registry, staged.names[Key(q)]) = {}
    BY <1>4 DEF Met
  <2>2. key \in DOMAIN staged.names
    BY <1>4, <2>1
  <2>3. staged'.names[key] = staged.names[key]
    BY <2>2 DEF Grows
  <2>. QED  BY <1>4, <2>2, <2>3 DEF Met
<1>5. q.form = "slot" => <<"definition", q.owner>> \in DOMAIN staged'.names
  BY DEF Met, Bound, Grows
<1>6. requests' = requests /\ base' = base
  OBVIOUS
<1>7. Key(q)' = Key(q)
  BY DEF Key
<1>. QED  BY <1>1, <1>2, <1>3, <1>4, <1>5, <1>6, <1>7 DEF Met, Bound
-----------------------------------------------------------------------------
(* One request.                                                            *)

\* What staging one request does to a ledger that has grown from the base.
Advance(r) ==
  /\ IsLedger(staged') /\ Grows(staged, staged')
  /\ DOMAIN staged'.names \subseteq DOMAIN staged.names \cup {Key(r)}
  /\ Met(r)'
  /\ \A key \in DOMAIN staged'.names \ DOMAIN staged.names :
       \/ EntryOf(staged.registry, staged'.names[key]) = {}
       \/ EntryOf(base.registry, staged'.names[key]) # {}

\* A request for a new identity is met by the one that is issued.
LEMMA IssueAdvances ==
  ASSUME IsLedger(staged), Grows(base, staged), UNCHANGED base,
         NEW r \in Request, r.form # "alias", ~Bound(staged, Key(r)), r.kind \in Kinds,
         NEW owner \in 0..MaxInteger, (owner = 0) <=> r.kind \notin SlotKinds,
         (owner = 0) <=> r.form = "definition", Key(r)[1] = r.form,
         r.form = "slot" =>
           /\ Bound(staged, <<"definition", r.owner>>)
           /\ owner = staged.names[<<"definition", r.owner>>].id,
         owner # 0 => \E i \in DOMAIN staged.registry.entries :
           /\ staged.registry.entries[i].id = owner /\ staged.registry.entries[i].kind \in OwnerKinds
           /\ ~Retired(staged.registry.entries[i]),
         Issue(r, r.kind, owner)
  PROVE  Advance(r)
<1> DEFINE t == [id |-> staged.registry.last + 1, kind |-> r.kind, owner |-> owner]
<1>1. r.form \in {"definition", "slot"}
  BY DEF Request
<1>2. Key(r)[1] = IF owner = 0 THEN "definition" ELSE "slot"
  BY <1>1
<1>3. /\ IsLedger(staged') /\ Grows(staged, staged')
      /\ DOMAIN staged'.names = DOMAIN staged.names \cup {Key(r)}
      /\ staged'.names[Key(r)] = t
      /\ EntryOf(staged.registry, t) = {} /\ Active(staged'.registry, t)
  BY <1>2, Issues
<1>4. EntryOf(base.registry, t) = {}
  BY <1>3 DEF EntryOf, Grows
<1>5. \A key \in DOMAIN staged'.names : staged'.names[key] = t => key = Key(r)
  BY <1>3 DEF IsLedger, Grows
<1>6. r.form = "slot" =>
        /\ Bound(staged', <<"definition", r.owner>>)
        /\ staged'.names[<<"definition", r.owner>>] = staged.names[<<"definition", r.owner>>]
  BY <1>3 DEF Bound, Grows
<1>7. t.kind = r.kind /\ t.owner = owner
  OBVIOUS
<1>. HIDE DEF t
<1>8. Key(r)' = Key(r) /\ base' = base
  BY DEF Key, Space
<1>9. Met(r)'
  BY <1>1, <1>3, <1>4, <1>5, <1>6, <1>7, <1>8 DEF Met, Bound
<1>. QED  BY <1>3, <1>9 DEF Advance

\* A request whose name is bound is met by the target that agrees with it.
LEMMA ReuseAdvances ==
  ASSUME IsLedger(staged), UNCHANGED <<base, staged>>,
         NEW r \in Request, Bound(staged, Key(r)), Bound(base, Key(r)), Key(r)[1] = r.form \/ r.form = "alias",
         Active(staged.registry, staged.names[Key(r)]),
         r.form = "definition" => staged.names[Key(r)].kind = r.kind,
         r.form = "slot" =>
           /\ Bound(staged, <<"definition", r.owner>>)
           /\ staged.names[Key(r)].kind = r.kind
           /\ staged.names[Key(r)].owner = staged.names[<<"definition", r.owner>>].id,
         r.form = "alias" => staged.names[Key(r)] = r.target
  PROVE  Advance(r)
<1>1. Key(r)' = Key(r) /\ base' = base /\ staged' = staged
  BY DEF Key, Space
<1>2. r.form = "definition" => staged.names[Key(r)].owner = 0
  BY DEF IsLedger, Bound, Space
<1>3. Met(r)'
  BY <1>1, <1>2 DEF Met, Bound
<1>4. Grows(staged, staged)
  BY DEF Grows
<1>. QED  BY <1>1, <1>3, <1>4 DEF Advance

\* Staging a request meets it, and leaves all that was there.
LEMMA StageAdvances ==
  ASSUME LInv, NEW r \in pending, Stage(r)
  PROVE  Advance(r)
<1>1. /\ r \in requests /\ r \in Request /\ requests # {}
      /\ IsLedger(staged) /\ IsLedger(base) /\ Grows(base, staged)
      /\ UNCHANGED <<base, requests>>
  BY SourceAssumption DEF LInv, TypeOK, Ledgers, Progress, Stage
<1>2. Bound(staged, Key(r)) => Bound(base, Key(r))
  BY <1>1 DEF Bound, LInv, Progress, Sensible
<1>3. CASE StageDefinition(r)
  <2>1. r.form = "definition" /\ r.kind \in Kinds /\ r.kind \notin SlotKinds /\ Key(r)[1] = r.form
    BY <1>1, <1>3 DEF StageDefinition, LInv, Sensible, Request, Key
  <2>2. CASE Bound(staged, Key(r))
    BY <1>1, <1>2, <1>3, <2>1, <2>2, ReuseAdvances DEF StageDefinition, Reuse
  <2>3. CASE ~Bound(staged, Key(r))
    <3>1. Issue(r, r.kind, 0)
      BY <1>3, <2>3 DEF StageDefinition
    <3>2. 0 \in 0..MaxInteger
      BY SizeAssumption
    <3>. QED  BY <1>1, <2>1, <2>3, <3>1, <3>2, IssueAdvances
  <2>. QED  BY <2>2, <2>3
<1>4. CASE StageSlot(r)
  <2> DEFINE o == staged.names[<<"definition", r.owner>>]
  <2>1. /\ r.form = "slot" /\ r.kind \in Kinds /\ r.kind \in SlotKinds /\ Key(r)[1] = r.form
        /\ Bound(staged, <<"definition", r.owner>>) /\ Active(staged.registry, o) /\ o.kind \in OwnerKinds
    BY <1>1, <1>4 DEF StageSlot, LInv, Sensible, Request, Key
  <2>2. CASE Bound(staged, Key(r))
    BY <1>1, <1>2, <1>4, <2>1, <2>2, ReuseAdvances DEF StageSlot, Reuse
  <2>3. CASE ~Bound(staged, Key(r))
    <3>1. Issue(r, r.kind, o.id)
      BY <1>4, <2>3 DEF StageSlot
    <3>2. o \in Targets
      BY <1>1, <2>1 DEF IsLedger, Bound
    <3>3. o.id \in 0..MaxInteger /\ o.id # 0
      BY <3>2, SizeAssumption DEF Targets, Ids
    <3>4. \E i \in DOMAIN staged.registry.entries :
            /\ staged.registry.entries[i].id = o.id /\ staged.registry.entries[i].kind \in OwnerKinds
            /\ ~Retired(staged.registry.entries[i])
      BY <2>1 DEF Active, EntryOf, Target
    <3>. QED  BY <1>1, <2>1, <2>3, <3>1, <3>3, <3>4, IssueAdvances
  <2>. QED  BY <2>2, <2>3
<1>5. CASE StageAlias(r)
  <2>1. r.form = "alias" /\ Active(base.registry, r.target) /\ r.target \in Targets
    BY <1>1, <1>5 DEF StageAlias, LInv, Sensible, Request
  <2>2. Active(staged.registry, r.target)
    BY <1>1, <2>1, ActiveStays
  <2>3. CASE Bound(staged, Key(r))
    BY <1>1, <1>2, <1>5, <2>1, <2>3, ReuseAdvances DEF StageAlias, Reuse
  <2>4. CASE ~Bound(staged, Key(r))
    <3>1. staged' = [registry |-> staged.registry, names |-> Named(staged.names, Key(r), r.target)]
      BY <1>5, <2>4 DEF StageAlias
    <3>2. Key(r)[1] = Space(r.target)
      BY <2>1 DEF Key
    <3>3. /\ IsLedger(staged') /\ Grows(staged, staged')
          /\ DOMAIN staged'.names = DOMAIN staged.names \cup {Key(r)}
          /\ staged'.names[Key(r)] = r.target
      BY <1>1, <2>1, <2>2, <2>4, <3>1, <3>2, Aliases
    <3>4. Active(staged'.registry, r.target)
      BY <2>2, <3>3, ActiveStays
    <3>5. Key(r)' = Key(r) /\ base' = base
      BY <1>1 DEF Key, Space
    <3>6. Met(r)'
      BY <2>1, <3>3, <3>4, <3>5 DEF Met, Bound
    <3>7. EntryOf(base.registry, r.target) # {}
      BY <2>1 DEF Active
    <3>. QED  BY <3>3, <3>6, <3>7 DEF Advance
  <2>. QED  BY <2>3, <2>4
<1>. QED  BY <1>3, <1>4, <1>5 DEF Stage
-----------------------------------------------------------------------------
(* The steps.                                                              *)

\* The empty ledger is one.
LEMMA EmptyLedger == IsLedger(Unnamed(Empty))
BY FilesAreSound, UnnamedIsLedger

LEMMA InitInv == Init => LInv
<1>. SUFFICES ASSUME Init PROVE LInv
  OBVIOUS
<1>1. TypeOK
  BY FS_EmptySet DEF Init, TypeOK
<1>2. Ledgers /\ Sensible /\ Progress /\ NamesAreKept
  BY EmptyLedger DEF Init, Ledgers, Sensible, Progress, NamesAreKept
<1>. QED  BY <1>1, <1>2 DEF LInv

\* Taking a sound ledger, of a checkpoint that was published if of any.
LEMMA LoadedKeeps ==
  ASSUME LInv, NEW predecessor, NEW ledger, Loaded(predecessor, ledger), IsLedger(ledger),
         predecessor \subseteq built, Cardinality(predecessor) <= 1,
         \A receipt \in predecessor : receipt.ledger = ledger
  PROVE  LInv'
<1>1. /\ step = "idle" /\ step' = "loaded" /\ from' = predecessor /\ base' = ledger
      /\ requests = {} /\ pending = {}
      /\ UNCHANGED <<requests, pending, staged, built, lineage>>
  BY DEF Loaded, LInv, Sensible, TypeOK
<1>2. TypeOK'
  BY <1>1 DEF LInv, TypeOK
<1>3. Ledgers'
  BY <1>1 DEF LInv, Ledgers
<1>4. Sensible' /\ Progress'
  BY <1>1 DEF Sensible, Progress
<1>5. NamesAreKept'
  BY <1>1 DEF LInv, NamesAreKept
<1>. QED  BY <1>2, <1>3, <1>4, <1>5 DEF LInv

LEMMA BootstrapKeeps ==
  ASSUME LInv, NEW registry \in Files, Bootstrap(registry)
  PROVE  LInv'
BY FilesAreSound, UnnamedIsLedger, FS_EmptySet, LoadedKeeps DEF Bootstrap

LEMMA LoadKeeps ==
  ASSUME LInv, NEW receipt \in built, NEW names, NEW registry, Load(receipt, names, registry)
  PROVE  LInv'
<1>1. IsLedger(names) /\ Loaded({receipt}, names) /\ receipt.ledger = names
  BY DEF LInv, Ledgers, Load
<1>2. Cardinality({receipt}) <= 1
  BY FS_Singleton
<1>. QED  BY <1>1, <1>2, LoadedKeeps

LEMMA BeginKeeps ==
  ASSUME LInv, NEW source, NEW schema, NEW asked \in SUBSET Requests, Begin(source, schema, asked)
  PROVE  LInv'
<1>1. /\ step' = "staging" /\ requests' = asked /\ pending' = asked /\ staged' = base
      /\ UNCHANGED <<from, base, built, lineage>>
  BY DEF Begin
<1>2. TypeOK'
  BY <1>1 DEF LInv, TypeOK
<1>3. Ledgers'
  BY <1>1 DEF LInv, Ledgers
<1>4. Sensible'
  <2>1. \A r \in asked :
          /\ r.form = "definition" => r.kind \notin SlotKinds
          /\ r.form = "slot" => r.kind \in SlotKinds
          /\ r.form = "alias" => Active(base.registry, r.target)
    BY DEF Begin
  <2>2. \A r, q \in asked : Key(r) = Key(q) => r = q
    BY DEF Begin
  <2>. QED  BY <1>1, <2>1, <2>2 DEF Sensible
<1>5. Progress'
  BY <1>1 DEF Progress, Grows
<1>6. NamesAreKept'
  BY <1>1 DEF LInv, NamesAreKept
<1>. QED  BY <1>2, <1>3, <1>4, <1>5, <1>6 DEF LInv

LEMMA StageKeeps ==
  ASSUME LInv, NEW r \in pending, Stage(r)
  PROVE  LInv'
<1>1. /\ step = "staging" /\ step' = "staging" /\ pending' = pending \ {r}
      /\ UNCHANGED <<from, base, requests, built, lineage>>
      /\ r \in requests /\ requests # {} /\ Grows(base, staged) /\ IsLedger(staged)
      /\ requests \subseteq Request
  BY SourceAssumption DEF Stage, LInv, TypeOK, Progress, Ledgers
<1>2. Advance(r)
  BY StageAdvances
<1>3. IsLedger(staged') /\ Grows(staged, staged') /\ Met(r)'
  BY <1>2 DEF Advance
<1>4. TypeOK'
  BY <1>1 DEF LInv, TypeOK
<1>5. Ledgers'
  BY <1>1, <1>3 DEF LInv, Ledgers
<1>6. Sensible'
  BY <1>1 DEF LInv, Sensible
<1>7. Progress'
  <2>1. Grows(base, staged')
    BY <1>1, <1>3 DEF Grows
  <2>2. \A key \in DOMAIN staged'.names :
          key \in DOMAIN base.names \/ \E q \in requests \ (pending \ {r}) : key = Key(q)
    BY <1>1, <1>2 DEF Advance, LInv, Progress
  <2>3. ASSUME NEW q \in requests \ (pending \ {r})
        PROVE  Met(q)'
    <3>1. CASE q = r
      BY <1>3, <3>1
    <3>2. CASE q # r
      <4>1. Met(q)
        BY <3>2 DEF LInv, Progress
      <4>2. EntryOf(staged.registry, staged.names[Key(q)]) # {}
        BY <4>1 DEF Met, Active
      <4>3. \A key \in DOMAIN staged'.names \ DOMAIN staged.names :
              staged'.names[key] # staged.names[Key(q)] \/ EntryOf(base.registry, staged'.names[key]) # {}
        BY <1>2, <4>2 DEF Advance
      <4>. QED  BY <1>1, <1>3, <4>1, <4>3, MetStays
    <3>. QED  BY <3>1, <3>2
  <2>4. \A key : Key(key)' = Key(key)
    BY DEF Key, Space
  <2>. QED  BY <1>1, <2>1, <2>2, <2>3, <2>4 DEF Progress
<1>8. NamesAreKept'
  BY <1>1 DEF LInv, NamesAreKept
<1>. QED  BY <1>4, <1>5, <1>6, <1>7, <1>8 DEF LInv

LEMMA RetireKeepsNames ==
  ASSUME LInv, NEW i \in DOMAIN base.registry.entries, NEW reason \in Reasons, Retire(i, reason)
  PROVE  LInv'
<1> DEFINE s == base.registry
           x == Tombstoned(s, i, reason)
<1>1. /\ step = "loaded" /\ step' = "staging" /\ requests = {} /\ IsLedger(base)
      /\ UNCHANGED <<from, base, requests, pending, built, lineage>>
      /\ staged' = [registry |-> x, names |-> base.names]
  BY DEF Retire, LInv, Sensible, Ledgers
<1>2. x \in Input /\ Sound(x)
  BY <1>1, RetireKeeps DEF Retire, IsLedger
<1>3. \A t : EntryOf(s, t) # {} => EntryOf(x, t) # {}
  <2>1. s.entries \in Seq(Entry) /\ x.entries = [s.entries EXCEPT ![i].state = reason]
    BY <1>1, Parts DEF IsLedger, Tombstoned
  <2>2. DOMAIN x.entries = DOMAIN s.entries
    BY <2>1
  <2>3. ASSUME NEW j \in DOMAIN s.entries
        PROVE  Target(x.entries[j]) = Target(s.entries[j])
    <3>1. s.entries[j] \in Entry
      BY <2>1
    <3>2. CASE j = i
      <4>1. x.entries[j] = [s.entries[j] EXCEPT !.state = reason]
        BY <2>1, <3>2
      <4>. QED  BY <3>1, <4>1 DEF Entry, Target
    <3>3. CASE j # i
      <4>1. x.entries[j] = s.entries[j]
        BY <2>1, <3>3
      <4>. QED  BY <4>1
    <3>. QED  BY <3>2, <3>3
  <2>. HIDE DEF x, s
  <2>. QED  BY <2>2, <2>3 DEF EntryOf
<1>. HIDE DEF x
<1>4. staged'.registry = x /\ staged'.names = base.names
  BY <1>1
<1>5. IsLedger(staged')
  BY <1>1, <1>2, <1>3, <1>4 DEF IsLedger
<1>6. TypeOK'
  BY <1>1 DEF LInv, TypeOK
<1>7. Ledgers'
  BY <1>1, <1>5 DEF LInv, Ledgers
<1>8. Sensible'
  BY <1>1 DEF LInv, Sensible
<1>9. Progress'
  BY <1>1 DEF Progress
<1>10. NamesAreKept'
  BY <1>1 DEF LInv, NamesAreKept
<1>. QED  BY <1>6, <1>7, <1>8, <1>9, <1>10 DEF LInv

LEMMA FinishKeeps ==
  ASSUME LInv, Finish
  PROVE  LInv'
<1>1. /\ step = "staging" /\ step' = "staged" /\ pending = {} /\ Continues(base, staged)
      /\ UNCHANGED <<from, base, requests, pending, staged, built, lineage>>
  BY DEF Finish
<1>2. TypeOK'
  BY <1>1 DEF LInv, TypeOK
<1>3. Ledgers'
  BY <1>1 DEF LInv, Ledgers
<1>4. Sensible'
  BY <1>1 DEF LInv, Sensible
<1>5. Progress'
  <2>1. \A r : Met(r)' <=> Met(r)
    BY <1>1 DEF Met, Bound, Key
  <2>. QED  BY <1>1, <2>1 DEF LInv, Progress
<1>6. NamesAreKept'
  BY <1>1 DEF LInv, NamesAreKept
<1>. QED  BY <1>2, <1>3, <1>4, <1>5, <1>6 DEF LInv

\* With its work the host gives up everything but what is published.
LEMMA ResetKeeps ==
  ASSUME LInv, Reset, \A receipt \in built' : IsLedger(receipt.ledger), NamesAreKept',
         lineage' \subseteq built' \X built'
  PROVE  LInv'
<1>1. TypeOK'
  BY FS_EmptySet DEF Reset, TypeOK
<1>2. Ledgers'
  BY EmptyLedger DEF Reset, Ledgers
<1>3. Sensible' /\ Progress'
  BY DEF Reset, Sensible, Progress
<1>. QED  BY <1>1, <1>2, <1>3 DEF LInv

LEMMA PublishKeeps ==
  ASSUME LInv, Publish
  PROVE  LInv'
<1> DEFINE receipt == [predecessor |-> from, ledger |-> staged, registry |-> staged.registry,
                       requests |-> requests]
           inherited == {<<pair[1], receipt>> : pair \in {q \in lineage : q[2] \in from}}
<1>1. /\ step = "staged" /\ Reset /\ built' = built \cup {receipt}
      /\ lineage' = lineage \cup (from \X {receipt}) \cup inherited
  BY DEF Publish
<1>2. /\ Continues(base, staged) /\ IsLedger(base) /\ IsLedger(staged)
      /\ from \subseteq built /\ lineage \subseteq built \X built
      /\ \A p \in from : p.ledger = base
      /\ \A p \in built : IsLedger(p.ledger)
  BY <1>1 DEF LInv, Progress, Ledgers, TypeOK
<1>3. receipt.ledger = staged
  OBVIOUS
<1>. HIDE DEF receipt
<1>4. \A p \in built' : IsLedger(p.ledger)
  BY <1>1, <1>2, <1>3
<1>5. lineage' \subseteq built' \X built'
  BY <1>1, <1>2
<1>6. NamesAreKept'
  <2>1. ASSUME NEW pair \in lineage'
        PROVE  Continues(pair[1].ledger, pair[2].ledger)
    <3>1. CASE pair \in lineage
      BY <3>1 DEF LInv, NamesAreKept
    <3>2. CASE pair \in from \X {receipt}
      BY <1>2, <1>3, <3>2
    <3>3. CASE pair \in inherited
      <4>1. PICK q \in lineage : q[2] \in from /\ pair = <<q[1], receipt>>
        BY <3>3
      <4>2. Continues(q[1].ledger, base) /\ IsLedger(q[1].ledger)
        BY <1>2, <4>1 DEF LInv, NamesAreKept
      <4>. QED  BY <1>2, <1>3, <4>1, <4>2, ContinuesIsOrder
    <3>. QED  BY <1>1, <3>1, <3>2, <3>3
  <2>2. \A a, b : Continues(a, b)' <=> Continues(a, b)
    BY DEF Continues, Bound, Succeeds
  <2>. QED  BY <2>1, <2>2 DEF NamesAreKept
<1>. QED  BY <1>1, <1>4, <1>5, <1>6, ResetKeeps

LEMMA AbandonKeeps ==
  ASSUME LInv, Abandon
  PROVE  LInv'
<1>1. Reset /\ UNCHANGED <<built, lineage>>
  BY DEF Abandon
<1>2. /\ \A receipt \in built' : IsLedger(receipt.ledger)
      /\ NamesAreKept' /\ lineage' \subseteq built' \X built'
  BY <1>1 DEF LInv, Ledgers, NamesAreKept, TypeOK
<1>. QED  BY <1>1, <1>2, ResetKeeps

LEMMA NextInv == LInv /\ [Next]_vars => LInv'
<1>. SUFFICES ASSUME LInv, [Next]_vars PROVE LInv'
  OBVIOUS
<1>1. CASE \E registry \in Files : Bootstrap(registry)
  BY <1>1, BootstrapKeeps
<1>2. CASE \E receipt, other, third \in built : Load(receipt, other.ledger, third.registry)
  BY <1>2, LoadKeeps
<1>3. CASE \E source \in Files, schema \in Schemas, asked \in SUBSET Requests :
             Begin(source, schema, asked)
  BY <1>3, BeginKeeps
<1>4. CASE \E r \in pending : Stage(r)
  BY <1>4, StageKeeps
<1>5. CASE \E i \in DOMAIN base.registry.entries, reason \in Reasons : Retire(i, reason)
  BY <1>5, RetireKeepsNames
<1>6. CASE Finish
  BY <1>6, FinishKeeps
<1>7. CASE Publish
  BY <1>7, PublishKeeps
<1>8. CASE Abandon
  BY <1>8, AbandonKeeps
<1>9. CASE UNCHANGED vars
  <2>1. /\ TypeOK' /\ Ledgers' /\ NamesAreKept'
    BY <1>9 DEF vars, LInv, TypeOK, Ledgers, NamesAreKept
  <2>2. Sensible'
    BY <1>9 DEF vars, LInv, Sensible
  <2>3. \A r : Met(r)' <=> Met(r)
    BY <1>9 DEF vars, Met, Bound, Key
  <2>4. Progress'
    BY <1>9, <2>3 DEF vars, LInv, Progress
  <2>. QED  BY <2>1, <2>2, <2>4 DEF LInv
<1>. QED  BY <1>1, <1>2, <1>3, <1>4, <1>5, <1>6, <1>7, <1>8, <1>9 DEF Next

-----------------------------------------------------------------------------
(* Asking again.                                                           *)

\* A ledger has what a request asks for, so that staging it changes nothing.
Held(l, r) ==
  LET target == l.names[Key(r)]
      owner == l.names[<<"definition", r.owner>>]
  IN  /\ Bound(l, Key(r)) /\ Active(l.registry, target)
      /\ r.form = "definition" => target.kind = r.kind
      /\ r.form = "slot" =>
           /\ Bound(l, <<"definition", r.owner>>)
           /\ Active(l.registry, owner) /\ owner.kind \in OwnerKinds
           /\ target.kind = r.kind /\ target.owner = owner.id
      /\ r.form = "alias" => target = r.target

\* What was published holds what it was asked for, and asking again for some of it adds
\* nothing.
RetrySound ==
  /\ \A receipt \in built : \A r \in receipt.requests : r \in Request /\ Held(receipt.ledger, r)
  /\ \A receipt \in from : Known(base)
  /\ \A receipt \in from : requests # {} /\ requests \subseteq receipt.requests => staged = base

\* Asking again: the ledger stays as it is, no request of those left is refused, and
\* neither is the end.
RetryGoesThrough ==
  \A receipt \in from :
    step \in {"staging", "staged"} /\ requests # {} /\ requests \subseteq receipt.requests =>
      /\ staged = base /\ Known(staged) /\ Continues(base, staged)
      /\ \A r \in pending : Held(staged, r)

\* An active slot has an active owner, so a request that is met is held.
LEMMA MetIsHeld ==
  ASSUME IsLedger(staged), NEW r \in Request, Met(r)
  PROVE  Held(staged, r)
<1> DEFINE s == staged.registry
           target == staged.names[Key(r)]
           owner == staged.names[<<"definition", r.owner>>]
<1>1. Bound(staged, Key(r)) /\ Active(s, target)
  BY DEF Met
<1>2. ASSUME r.form = "slot"
      PROVE  /\ Bound(staged, <<"definition", r.owner>>)
             /\ Active(s, owner) /\ owner.kind \in OwnerKinds
             /\ target.kind = r.kind /\ target.owner = owner.id
  <2>1. /\ Bound(staged, <<"definition", r.owner>>)
        /\ target.kind = r.kind /\ target.owner = owner.id
    BY <1>2 DEF Met
  <2>2. owner \in Targets /\ EntryOf(s, owner) # {} /\ s \in Input /\ Sound(s)
    BY <2>1 DEF IsLedger, Bound
  <2>3. PICK i \in DOMAIN s.entries : Target(s.entries[i]) = target /\ ~Retired(s.entries[i])
    BY <1>1 DEF Active, EntryOf
  <2>4. PICK k \in DOMAIN s.entries : Target(s.entries[k]) = owner
    BY <2>2 DEF EntryOf
  <2>5. /\ s.entries[i].owner = owner.id /\ s.entries[k].id = owner.id
        /\ s.entries[k].kind = owner.kind /\ owner.id # 0
    BY <2>1, <2>2, <2>3, <2>4, SizeAssumption DEF Target, Targets, Ids
  <2>6. PICK j \in 1..(i - 1) :
          /\ s.entries[j].id = owner.id /\ s.entries[j].kind \in OwnerKinds
          /\ Retired(s.entries[j]) => Retired(s.entries[i])
    BY <2>2, <2>5 DEF Sound, Owned
  <2>7. j = k
    <3>1. j \in DOMAIN s.entries
      BY <2>2, Parts
    <3>. QED  BY <2>2, <2>5, <2>6, <3>1 DEF Sound, Contiguous
  <2>8. Active(s, owner)
    BY <2>3, <2>4, <2>6, <2>7 DEF Active, EntryOf
  <2>. QED  BY <2>1, <2>5, <2>6, <2>7, <2>8
<1>3. r.form = "definition" => target.kind = r.kind
  BY DEF Met
<1>4. r.form = "alias" => target = r.target
  BY DEF Met
<1>. QED  BY <1>1, <1>2, <1>3, <1>4 DEF Held

\* The step that stages a request that is held is one of the specification, and the only
\* one that stages it.
LEMMA HeldIsReused ==
  ASSUME NEW r \in pending, Held(staged, r), r \in Request
  PROVE  /\ Stage(r) => staged' = staged
         /\ /\ step = "staging" /\ Least(r) /\ pending' = pending \ {r}
            /\ UNCHANGED <<step, from, base, requests, staged, built, lineage>>
            => Stage(r)
<1>1. r.form \in {"definition", "slot", "alias"}
  BY DEF Request
<1>2. Bound(staged, Key(r))
  BY DEF Held
<1>3. Stage(r) => staged' = staged
  BY <1>2 DEF Stage, StageDefinition, StageSlot, StageAlias, Reuse
<1>4. ASSUME UNCHANGED staged
      PROVE  StageDefinition(r) \/ StageSlot(r) \/ StageAlias(r)
  <2>1. CASE r.form = "definition"
    BY <1>2, <1>4, <2>1 DEF Held, StageDefinition, Reuse
  <2>2. CASE r.form = "slot"
    BY <1>2, <1>4, <2>2 DEF Held, StageSlot, Reuse
  <2>3. CASE r.form = "alias"
    BY <1>2, <1>4, <2>3 DEF Held, StageAlias, Reuse
  <2>. QED  BY <1>1, <2>1, <2>2, <2>3
<1>. QED  BY <1>3, <1>4 DEF Stage

LEMMA InitRetry == Init => RetrySound
BY DEF Init, RetrySound

LEMMA HeldStays ==
  /\ \A l, r : Held(l, r)' <=> Held(l, r)
  /\ \A l : Known(l)' <=> Known(l)
BY DEF Held, Known, Bound, Key

\* A receipt is of a ledger that holds what was asked for.
LEMMA RetryKeeps == LInv /\ RetrySound /\ [Next]_vars => RetrySound'
<1>. SUFFICES ASSUME LInv, RetrySound, [Next]_vars PROVE RetrySound'
  OBVIOUS
<1>1. CASE \E registry \in Files : Bootstrap(registry)
  <2>1. PICK registry \in Files : Bootstrap(registry)
    BY <1>1
  <2>. QED  BY <2>1, HeldStays DEF Bootstrap, Loaded, RetrySound
<1>2. CASE \E receipt, other, third \in built : Load(receipt, other.ledger, third.registry)
  <2>1. PICK receipt, other, third \in built : Load(receipt, other.ledger, third.registry)
    BY <1>2
  <2>2. /\ UNCHANGED <<requests, built>> /\ from' = {receipt}
        /\ base' = other.ledger /\ Known(other.ledger)
        /\ requests = {}
    BY <2>1 DEF Load, Loaded, LInv, Sensible
  <2>. QED  BY <2>2, HeldStays DEF RetrySound
<1>3. CASE \E source \in Files, schema \in Schemas, asked \in SUBSET Requests :
             Begin(source, schema, asked)
  <2>1. staged' = base /\ base' = base /\ from' = from /\ built' = built
    BY <1>3 DEF Begin
  <2>. QED  BY <2>1, HeldStays DEF RetrySound
<1>4. CASE \E r \in pending : Stage(r)
  <2>1. PICK r \in pending : Stage(r)
    BY <1>4
  <2>2. UNCHANGED <<from, base, requests, built>>
    BY <2>1 DEF Stage
  <2>3. ASSUME NEW receipt \in from, requests # {}, requests \subseteq receipt.requests
        PROVE  staged' = base
    <3>1. receipt \in built /\ receipt.ledger = base /\ staged = base /\ r \in receipt.requests
      BY <2>3 DEF LInv, TypeOK, Ledgers, RetrySound
    <3>2. r \in Request /\ Held(staged, r)
      BY <3>1 DEF RetrySound
    <3>. QED  BY <2>1, <3>1, <3>2, HeldIsReused
  <2>. QED  BY <2>2, <2>3, HeldStays DEF RetrySound
<1>5. CASE \E i \in DOMAIN base.registry.entries, reason \in Reasons : Retire(i, reason)
  <2>1. UNCHANGED <<from, base, requests, built>> /\ requests = {}
    BY <1>5 DEF Retire, LInv, Sensible
  <2>. QED  BY <2>1, HeldStays DEF RetrySound
<1>6. CASE Finish
  BY <1>6, HeldStays DEF Finish, RetrySound
<1>7. CASE Publish
  <2> DEFINE receipt == [predecessor |-> from, ledger |-> staged, registry |-> staged.registry,
                         requests |-> requests]
  <2>1. /\ step = "staged" /\ from' = {} /\ built' = built \cup {receipt}
    BY <1>7 DEF Publish, Reset
  <2>2. receipt.ledger = staged /\ receipt.requests = requests
    OBVIOUS
  <2>3. ASSUME NEW r \in requests
        PROVE  r \in Request /\ Held(staged, r)
    <3>1. r \in Request /\ IsLedger(staged) /\ Met(r)
      BY <2>1, SourceAssumption DEF LInv, TypeOK, Ledgers, Sensible, Progress
    <3>. QED  BY <3>1, MetIsHeld
  <2>. HIDE DEF receipt
  <2>. QED  BY <2>1, <2>2, <2>3, HeldStays DEF RetrySound
<1>8. CASE Abandon
  BY <1>8, HeldStays DEF Abandon, Reset, RetrySound
<1>9. CASE UNCHANGED vars
  BY <1>9, HeldStays DEF vars, RetrySound
<1>. QED  BY <1>1, <1>2, <1>3, <1>4, <1>5, <1>6, <1>7, <1>8, <1>9 DEF Next

-----------------------------------------------------------------------------
(* What holds of every host and every history of checkpoints.              *)

\* The invariant that carries the others.
THEOREM LedgersAreSound == Spec => []LInv
BY InitInv, NextInv, PTL DEF Spec

\* Names and identities survive along every chain, for any limits and requests.
THEOREM NamesKept == Spec => []NamesAreKept
<1>1. LInv => NamesAreKept
  BY DEF LInv
<1>. QED  BY <1>1, LedgersAreSound, PTL

\* A transaction that ends has given all it was asked for.
THEOREM TransactionsAreMet == Spec => []RequestsAreMet
<1>1. LInv => RequestsAreMet
  BY DEF LInv, Sensible, Progress, RequestsAreMet
<1>. QED  BY <1>1, LedgersAreSound, PTL
\* Asking again for what a published checkpoint was asked for issues nothing, and each
\* request left and the end of the transaction find what they ask for: the safety half of
\* RetryFindsTheSame (with HeldIsReused, the guards of Stage and Finish).
THEOREM RetriesGoThrough == Spec => []RetryGoesThrough
<1>1. LInv /\ RetrySound => RetryGoesThrough
  <2>. SUFFICES ASSUME LInv, RetrySound, NEW receipt \in from,
                       requests # {}, requests \subseteq receipt.requests
                PROVE  /\ staged = base /\ Known(staged) /\ Continues(base, staged)
                       /\ \A r \in pending : Held(staged, r)
    BY DEF RetryGoesThrough
  <2>1. staged = base /\ Known(base) /\ receipt \in built /\ receipt.ledger = base /\ IsLedger(base)
    BY DEF LInv, TypeOK, Ledgers, RetrySound
  <2>2. Succeeds(base.registry, base.registry)
    BY <2>1, SuccessionIsOrder DEF IsLedger
  <2>3. Continues(base, base)
    BY <2>2 DEF Continues, Bound
  <2>4. \A r \in pending : Held(base, r)
    BY <2>1 DEF LInv, TypeOK, RetrySound
  <2>. QED  BY <2>1, <2>3, <2>4
<1>2. Spec => []RetrySound
  <2>1. LInv /\ RetrySound /\ [Next]_vars => RetrySound'
    BY RetryKeeps
  <2>. QED  BY <2>1, InitRetry, LedgersAreSound, PTL DEF Spec
<1>. QED  BY <1>1, <1>2, LedgersAreSound, PTL
=============================================================================
