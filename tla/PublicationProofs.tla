-------------------------- MODULE PublicationProofs --------------------------
(***************************************************************************)
(* Publication is correct for any number of publishers, any requests and    *)
(* any names: what is visible is whole, nothing is replaced, the result is  *)
(* true, and the staged protocol implements PublishOnce.                    *)
(***************************************************************************)
EXTENDS Publication, TLAPS

Working == {"entry", "write", "sync", "rename"}

\* The counter follows the control: one before anything is made, at an entry
\* while it is made, past the last before the rename.
InRange ==
  \A p \in Publishers :
    /\ pc[p] \in {"start", "check", "stage"} => at[p] = 1
    /\ pc[p] \in {"entry", "write", "sync"} => at[p] <= Len(Entries(p))
    /\ pc[p] \in {"write", "sync"} => ~Entries(p)[at[p]].dir
    /\ pc[p] = "rename" => at[p] = Len(Entries(p)) + 1

TypeInv == TypeOK /\ InRange

\* A staging name holds its publisher's artifact from Stage to Rename or Drop.
Private ==
  \A p \in Publishers :
    /\ fs[p].by \in Publishers => fs[p].by = p
    /\ pc[p] \in {"start", "check", "stage"} => fs[p] = Absent
    /\ pc[p] \in Working \cup {"drop"} => fs[p].by = p
    /\ pc[p] \in {"renamed", "done", "failed"} => fs[p].by # p

\* The staged content is exactly the entries before the current one, and the
\* current one as far as it has come.
Staged ==
  \A p \in Publishers : pc[p] \in Working =>
    \A s \in Slots :
      /\ (fs[p].content[s] = "dir") <=>
           \E i \in 1..(at[p] - 1) : Slot(Entries(p)[i]) = s /\ Entries(p)[i].dir
      /\ (fs[p].content[s] = "synced") <=>
           \E i \in 1..(at[p] - 1) : Slot(Entries(p)[i]) = s /\ ~Entries(p)[i].dir
      /\ (fs[p].content[s] = "created") <=>
           (pc[p] = "write" /\ s = Slot(Entries(p)[at[p]]))
      /\ (fs[p].content[s] = "written") <=>
           (pc[p] = "sync" /\ s = Slot(Entries(p)[at[p]]))

\* A destination shows a publisher's artifact only after its rename.
Shown ==
  \A q \in Paths : fs[q].by \in Publishers =>
    /\ pc[fs[q].by] \in {"renamed", "done", "crashed"}
    /\ Target[fs[q].by] = q
    /\ fs[q].content = Whole[fs[q].by]

Told == \A p \in Publishers : pc[p] \in {"renamed", "done"} => fs[Target[p]].by = p

\* Entries, their slots and the targets have their types.
LEMMA Requested ==
  ASSUME NEW p \in Publishers
  PROVE  /\ Kind(p) \in {"file", "artifacts", "bundle"}
         /\ Target[p] \in Paths /\ Target[p] # p /\ Target[p] \notin Publishers
         /\ Entries(p) \in Seq(Entry) /\ Len(Entries(p)) \in Nat
         /\ DOMAIN Entries(p) = 1..Len(Entries(p))
<1>1. Requests[p] \in [kind : {"file", "artifacts", "bundle"},
                       target : Paths, entries : Seq(Entry)]
  BY RequestAssumption
<1>2. Target[p] = Requests[p].target /\ Target[p] \in Paths
  BY <1>1 DEF Target
<1>3. Target[p] \notin Publishers
  BY <1>2, NameAssumption
<1>4. Entries(p) \in Seq(Entry)
  BY <1>1 DEF Entries
<1>5. Len(Entries(p)) \in Nat /\ DOMAIN Entries(p) = 1..Len(Entries(p))
  BY <1>4
<1> QED BY <1>1, <1>2, <1>3, <1>4, <1>5 DEF Kind

LEMMA Placed ==
  ASSUME NEW p \in Publishers, NEW i \in 1..Len(Entries(p))
  PROVE  /\ Entries(p)[i] \in Entry /\ Slot(Entries(p)[i]) \in Slots
         /\ Entries(p)[i].dir \in BOOLEAN
<1>1. Entries(p)[i] \in Entry
  BY Requested
<1>2. \A e \in Entry : Slot(e) \in Slots
  BY NameAssumption DEF Entry, Slot, Slots
<1> QED BY <1>1, <1>2 DEF Entry

LEMMA FileIsOne ==
  ASSUME NEW p \in Publishers, Kind(p) = "file"
  PROVE  Len(Entries(p)) = 1 /\ ~Entries(p)[1].dir
<1>1. Len(Entries(p)) = 1
  BY RequestAssumption
<1>2. 1 \in DOMAIN Entries(p)
  BY <1>1, Requested
<1> QED BY <1>1, <1>2, RequestAssumption

LEMMA AbsentIsANode == Absent \in Nodes /\ Strange \in Nodes
BY DEF Absent, Strange, Nodes, Empty, States

(***************************************************************************)
(* Types.                                                                  *)
(***************************************************************************)

\* Put writes one entry of p's staging and nothing else.
LEMMA PutTypes ==
  ASSUME TypeOK, NEW p \in Publishers, NEW s \in Slots, NEW x \in States, Put(p, s, x)
  PROVE  /\ fs' \in [Paths \cup Publishers -> Nodes]
         /\ fs'[p].by = fs[p].by
         /\ fs'[p].content = [fs[p].content EXCEPT ![s] = x]
         /\ \A n \in Paths \cup Publishers : n # p => fs'[n] = fs[n]
<1> DEFINE node == [fs[p] EXCEPT !.content[s] = x]
<1>1. fs[p] \in Nodes /\ fs \in [Paths \cup Publishers -> Nodes]
  BY DEF TypeOK
<1>2. fs' = [fs EXCEPT ![p] = node]
  BY DEF Put
<1>3. node.by = fs[p].by /\ node.content = [fs[p].content EXCEPT ![s] = x]
  BY <1>1 DEF Nodes
<1>4. node \in Nodes
  BY <1>1 DEF Nodes
<1> HIDE DEF node
<1> QED BY <1>1, <1>2, <1>3, <1>4

Steps == {"start", "check", "stage", "entry", "write", "sync", "rename", "renamed",
          "drop", "done", "failed", "crashed"}

\* A step of p moves p's control and counter, no one else's.
LEMMA Moves ==
  ASSUME TypeInv, NEW p \in Publishers, Step(p) \/ Crash(p)
  PROVE  /\ pc' \in [Publishers -> Steps] /\ at' \in [Publishers -> Nat]
         /\ \A r \in Publishers : r # p => pc'[r] = pc[r] /\ at'[r] = at[r]
         /\ at'[p] \in 1..(Len(Entries(p)) + 1)
         /\ pc'[p] \in {"start", "check", "stage"} => at'[p] = 1
         /\ pc'[p] \in {"entry", "write", "sync"} => at'[p] <= Len(Entries(p))
         /\ pc'[p] \in {"write", "sync"} => ~Entries(p)[at'[p]].dir
         /\ pc'[p] = "rename" => at'[p] = Len(Entries(p)) + 1
<1>a. Len(Entries(p)) \in Nat
  BY Requested
<1>b. /\ pc \in [Publishers -> Steps] /\ at \in [Publishers -> Nat]
      /\ at[p] \in 1..(Len(Entries(p)) + 1)
      /\ pc[p] \in {"start", "check", "stage"} => at[p] = 1
      /\ pc[p] \in {"entry", "write", "sync"} => at[p] <= Len(Entries(p))
      /\ pc[p] \in {"write", "sync"} => ~Entries(p)[at[p]].dir
      /\ pc[p] = "rename" => at[p] = Len(Entries(p)) + 1
  BY DEF TypeInv, TypeOK, InRange, Steps, Ended
<1> USE <1>a, <1>b DEF Go, Ended, Steps
<1>1. CASE Start(p)
  BY <1>1 DEF Start
<1>2. CASE CheckAbsent(p)
  BY <1>2 DEF CheckAbsent
<1>3. CASE Stage(p)
  BY <1>3, FileIsOne DEF Stage, Following
<1>4. CASE MakeEntry(p)
  BY <1>4 DEF MakeEntry, Following
<1>5. CASE WriteAll(p)
  BY <1>5 DEF WriteAll
<1>6. CASE SyncAll(p)
  BY <1>6, SMTT(60) DEF SyncAll, Following
<1>7. CASE Rename(p)
  BY <1>7 DEF Rename
<1>8. CASE Keep(p) \/ Drop(p) \/ Crash(p)
  BY <1>8 DEF Keep, Drop, Crash
<1> QED BY <1>1, <1>2, <1>3, <1>4, <1>5, <1>6, <1>7, <1>8 DEF Step

\* What a step of p does to the files.
LEMMA Writes ==
  ASSUME TypeInv, NEW p \in Publishers, Step(p) \/ Crash(p)
  PROVE  \/ fs' = fs
         \/ Stage(p) /\ \E v \in Nodes : v.by = p /\ fs' = [fs EXCEPT ![p] = v]
         \/ \E s \in Slots, x \in States : Put(p, s, x)
         \/ Rename(p) /\ fs[Target[p]] = Absent
              /\ fs' = [fs EXCEPT ![Target[p]] = fs[p], ![p] = Absent]
         \/ Drop(p) /\ fs' = [fs EXCEPT ![p] = Absent]
<1> DEFINE node(c) == [by |-> p, content |-> c]
<1>a. \A c \in [Slots -> States] : node(c) \in Nodes
  BY DEF Nodes
<1>b. Empty \in [Slots -> States] /\ [Empty EXCEPT ![Slot(Entries(p)[1])] = "created"] \in [Slots -> States]
  BY DEF Empty, States
<1>c. pc[p] \in {"entry", "write", "sync"} => Slot(Entries(p)[at[p]]) \in Slots
  BY Placed, Requested DEF TypeInv, TypeOK, InRange
<1>1. CASE Stage(p)
  <2>1. fs' = fs \/ fs' = [fs EXCEPT ![p] = node(Empty)]
          \/ fs' = [fs EXCEPT ![p] = node([Empty EXCEPT ![Slot(Entries(p)[1])] = "created"])]
    BY <1>1 DEF Stage
  <2> QED BY <1>1, <1>a, <1>b, <2>1
<1>2. CASE MakeEntry(p) \/ WriteAll(p) \/ SyncAll(p)
  BY <1>2, <1>c DEF MakeEntry, WriteAll, SyncAll, States
<1>3. CASE Rename(p)
  BY <1>3 DEF Rename
<1>4. CASE Drop(p)
  BY <1>4 DEF Drop
<1>5. CASE Start(p) \/ CheckAbsent(p) \/ Keep(p) \/ Crash(p)
  BY <1>5 DEF Start, CheckAbsent, Keep, Crash
<1> QED BY <1>1, <1>2, <1>3, <1>4, <1>5 DEF Step

LEMMA TypeStep == TypeInv /\ [Next]_vars => TypeInv'
<1> SUFFICES ASSUME TypeInv, [Next]_vars PROVE TypeInv'
  OBVIOUS
<1>1. ASSUME NEW p \in Publishers, Step(p) \/ Crash(p) PROVE TypeInv'
  <2>1. fs' \in [Paths \cup Publishers -> Nodes]
    <3>1. fs \in [Paths \cup Publishers -> Nodes]
      BY DEF TypeInv, TypeOK
    <3>2. ASSUME NEW s \in Slots, NEW x \in States, Put(p, s, x)
          PROVE  fs' \in [Paths \cup Publishers -> Nodes]
      BY <3>2, PutTypes DEF TypeInv
    <3> QED BY <1>1, <3>1, <3>2, Writes, AbsentIsANode, Requested
  <2>2. /\ pc' \in [Publishers -> Ended \cup {"start", "check", "stage", "entry", "write",
                                       "sync", "rename", "renamed", "drop"}]
        /\ at' \in [Publishers -> Nat]
    BY <1>1, Moves DEF Steps, Ended
  <2>3. \A r \in Publishers : at'[r] \in 1..(Len(Entries(r)) + 1)
    BY <1>1, Moves DEF TypeInv, TypeOK
  <2>4. InRange'
    BY <1>1, Moves DEF TypeInv, TypeOK, InRange
  <2> QED BY <2>1, <2>2, <2>3, <2>4 DEF TypeInv, TypeOK
<1>2. ASSUME NEW n \in Paths \cup Publishers, Intrude(n) PROVE TypeInv'
  BY <1>2, AbsentIsANode DEF Intrude, TypeInv, TypeOK, InRange
<1>3. CASE UNCHANGED vars
  BY <1>3 DEF vars, TypeInv, TypeOK, InRange
<1> QED BY <1>1, <1>2, <1>3 DEF Next

LEMMA TypeInit == Init => TypeInv
BY Requested, AbsentIsANode DEF Init, TypeInv, TypeOK, InRange, Ended

\* Every variable keeps its type, and the counter its range.
THEOREM TypeCorrect == Spec => []TypeOK
<1>1. TypeInv => TypeOK
  BY DEF TypeInv
<1> QED BY <1>1, TypeInit, TypeStep, PTL DEF Spec

(***************************************************************************)
(* Staging names.                                                          *)
(***************************************************************************)

\* A step of p leaves every other name alone but its own destination, and that
\* one only if something is there.
LEMMA Frame ==
  ASSUME TypeInv, NEW p \in Publishers, Step(p) \/ Crash(p),
         NEW n \in Paths \cup Publishers, n # p
  PROVE  \/ fs'[n] = fs[n]
         \/ Rename(p) /\ n = Target[p] /\ fs[n] = Absent /\ fs'[n] = fs[p]
<1>1. fs \in [Paths \cup Publishers -> Nodes]
  BY DEF TypeInv, TypeOK
<1>2. ASSUME NEW s \in Slots, NEW x \in States, Put(p, s, x) PROVE fs'[n] = fs[n]
  BY <1>2, PutTypes DEF TypeInv
<1> QED BY <1>1, <1>2, Writes, Requested

LEMMA PrivateStep == TypeInv /\ Private /\ [Next]_vars => Private'
<1> SUFFICES ASSUME TypeInv, Private, [Next]_vars PROVE Private'
  OBVIOUS
<1>t. fs \in [Paths \cup Publishers -> Nodes] /\ pc \in [Publishers -> Steps]
  BY DEF TypeInv, TypeOK, Steps, Ended
<1>n. Absent.by \notin Publishers /\ Strange.by \notin Publishers
  BY NameAssumption DEF Absent, Strange
<1>1. ASSUME NEW p \in Publishers, Step(p) \/ Crash(p), NEW r \in Publishers
      PROVE  /\ fs'[r].by \in Publishers => fs'[r].by = r
             /\ pc'[r] \in {"start", "check", "stage"} => fs'[r] = Absent
             /\ pc'[r] \in Working \cup {"drop"} => fs'[r].by = r
             /\ pc'[r] \in {"renamed", "done", "failed"} => fs'[r].by # r
  <2>0. /\ fs[r].by \in Publishers => fs[r].by = r
        /\ pc[r] \in {"start", "check", "stage"} => fs[r] = Absent
        /\ pc[r] \in Working \cup {"drop"} => fs[r].by = r
        /\ pc[r] \in {"renamed", "done", "failed"} => fs[r].by # r
    BY DEF Private
  <2>1. CASE r # p
    <3>1. fs'[r] = fs[r] /\ pc'[r] = pc[r]
      BY <1>1, <2>1, Frame, Moves, Requested
    <3> QED BY <2>0, <3>1
  <2>2. CASE r = p
    <3> USE <1>t, <1>n, <2>0, <2>2 DEF Go, Working, Steps
    <3>1. CASE Start(p) \/ CheckAbsent(p) \/ Keep(p) \/ Crash(p)
      BY <3>1 DEF Start, CheckAbsent, Keep, Crash
    <3>2. CASE Stage(p)
      BY <3>2 DEF Stage, Following
    <3>3. CASE MakeEntry(p) \/ WriteAll(p) \/ SyncAll(p)
      <4>1. fs'[p].by = fs[p].by
        BY <1>1, <3>3, Writes, PutTypes DEF TypeInv, MakeEntry, WriteAll, SyncAll, Stage, Rename, Drop
      <4>2. pc[p] \in Working /\ pc'[p] \in Working \cup {"drop"}
        BY <3>3 DEF MakeEntry, WriteAll, SyncAll, Following
      <4> QED BY <4>1, <4>2
    <3>4. CASE Rename(p)
      BY <3>4, Requested DEF Rename
    <3>5. CASE Drop(p)
      BY <3>5 DEF Drop
    <3> QED BY <1>1, <3>1, <3>2, <3>3, <3>4, <3>5 DEF Step
  <2> QED BY <2>1, <2>2
<1>2. ASSUME NEW n \in Paths \cup Publishers, Intrude(n) PROVE Private'
  BY <1>2, <1>t, <1>n DEF Intrude, Private, Working
<1>3. CASE UNCHANGED vars
  BY <1>3 DEF vars, Private
<1>4. ASSUME NEW p \in Publishers, Step(p) \/ Crash(p) PROVE Private'
  BY <1>1, <1>4 DEF Private
<1> QED BY <1>2, <1>3, <1>4 DEF Next

(***************************************************************************)
(* Destinations.                                                           *)
(***************************************************************************)

\* What a destination holds stays, whoever moves.
LEMMA Stays ==
  ASSUME TypeInv, Next, NEW q \in Paths, fs[q] # Absent
  PROVE  fs'[q] = fs[q]
<1>1. ASSUME NEW p \in Publishers, Step(p) \/ Crash(p) PROVE fs'[q] = fs[q]
  BY <1>1, Frame, NameAssumption
<1>2. ASSUME NEW n \in Paths \cup Publishers, Intrude(n) PROVE fs'[q] = fs[q]
  BY <1>2 DEF Intrude, TypeInv, TypeOK
<1> QED BY <1>1, <1>2 DEF Next

\* At the rename the staged content is the whole artifact.
LEMMA WholeAtRename ==
  ASSUME TypeInv, Staged, NEW p \in Publishers, pc[p] = "rename"
  PROVE  fs[p].content = Whole[p]
<1>1. at[p] = Len(Entries(p)) + 1
  BY DEF TypeInv, InRange
<1>2. 1..(at[p] - 1) = DOMAIN Entries(p)
  BY <1>1, Requested
<1>3. fs[p].content \in [Slots -> States]
  BY DEF TypeInv, TypeOK, Nodes
<1>4. ASSUME NEW s \in Slots
      PROVE  fs[p].content[s] =
               IF \E i \in DOMAIN Entries(p) : Slot(Entries(p)[i]) = s /\ Entries(p)[i].dir THEN "dir"
               ELSE IF \E i \in DOMAIN Entries(p) : Slot(Entries(p)[i]) = s THEN "synced" ELSE "none"
  <2>1. /\ (fs[p].content[s] = "dir") <=>
             \E i \in DOMAIN Entries(p) : Slot(Entries(p)[i]) = s /\ Entries(p)[i].dir
        /\ (fs[p].content[s] = "synced") <=>
             \E i \in DOMAIN Entries(p) : Slot(Entries(p)[i]) = s /\ ~Entries(p)[i].dir
        /\ fs[p].content[s] # "created" /\ fs[p].content[s] # "written"
    BY <1>2 DEF Staged, Working
  <2>2. fs[p].content[s] \in {"none", "created", "written", "synced", "dir"}
    BY <1>3 DEF States
  <2> QED BY <2>1, <2>2
<1>5. Whole[p] = [s \in Slots |->
               IF \E i \in DOMAIN Entries(p) : Slot(Entries(p)[i]) = s /\ Entries(p)[i].dir THEN "dir"
               ELSE IF \E i \in DOMAIN Entries(p) : Slot(Entries(p)[i]) = s THEN "synced" ELSE "none"]
  BY DEF Whole
<1> HIDE DEF Whole
<1> QED BY <1>3, <1>4, <1>5

LEMMA ShownStep == TypeInv /\ Private /\ Staged /\ Shown /\ [Next]_vars => Shown'
<1> SUFFICES ASSUME TypeInv, Private, Staged, Shown, Next PROVE Shown'
  BY DEF vars, Shown
<1>n. Absent.by \notin Publishers /\ Strange.by \notin Publishers
  BY NameAssumption DEF Absent, Strange
<1>t. pc \in [Publishers -> Steps] /\ fs \in [Paths \cup Publishers -> Nodes]
  BY DEF TypeInv, TypeOK, Steps, Ended
<1> SUFFICES ASSUME NEW q \in Paths, fs'[q].by \in Publishers
             PROVE  /\ pc'[fs'[q].by] \in {"renamed", "done", "crashed"}
                    /\ Target[fs'[q].by] = q
                    /\ fs'[q].content = Whole[fs'[q].by]
  BY DEF Shown
<1>1. CASE fs[q] # Absent
  <2> DEFINE r == fs[q].by
  <2>1. fs'[q] = fs[q]
    BY <1>1, Stays
  <2>2. /\ r \in Publishers /\ pc[r] \in {"renamed", "done", "crashed"}
        /\ Target[r] = q /\ fs[q].content = Whole[r]
    BY <2>1 DEF Shown
  <2>3. pc'[r] \in {"renamed", "done", "crashed"}
    <3>1. ASSUME NEW p \in Publishers, Step(p) \/ Crash(p)
          PROVE  pc'[r] \in {"renamed", "done", "crashed"}
      <4>1. CASE r # p
        BY <2>2, <3>1, <4>1, Moves
      <4>2. CASE r = p
        BY <1>t, <2>2, <3>1, <4>2 DEF Step, Start, CheckAbsent, Stage, MakeEntry, WriteAll, SyncAll,
           Rename, Keep, Drop, Crash, Go
      <4> QED BY <4>1, <4>2
    <3>2. ASSUME NEW n \in Paths \cup Publishers, Intrude(n) PROVE pc' = pc
      BY <3>2 DEF Intrude
    <3> QED BY <2>2, <3>1, <3>2 DEF Next
  <2> QED BY <2>1, <2>2, <2>3
<1>2. CASE fs[q] = Absent
  <2>1. ASSUME NEW n \in Paths \cup Publishers, Intrude(n) PROVE FALSE
    BY <1>2, <1>n, <1>t, <2>1 DEF Intrude
  <2>2. PICK p \in Publishers : Step(p) \/ Crash(p)
    BY <2>1 DEF Next
  <2>3. Rename(p) /\ q = Target[p] /\ fs'[q] = fs[p]
    BY <1>2, <1>n, <2>2, Frame, NameAssumption
  <2>4. pc[p] = "rename" /\ pc'[p] = "renamed"
    BY <1>t, <1>n, <1>2, <2>3, Requested, NameAssumption DEF Rename, Go, Private, Working
  <2>5. fs[p].by = p /\ fs[p].content = Whole[p]
    BY <2>4, WholeAtRename DEF Private, Working
  <2> QED BY <2>3, <2>4, <2>5
<1> QED BY <1>1, <1>2

LEMMA ToldStep == TypeInv /\ Private /\ Told /\ [Next]_vars => Told'
<1> SUFFICES ASSUME TypeInv, Private, Told, Next, NEW r \in Publishers, pc'[r] \in {"renamed", "done"}
             PROVE  fs'[Target[r]].by = r
  BY DEF vars, Told
<1>t. pc \in [Publishers -> Steps] /\ fs \in [Paths \cup Publishers -> Nodes]
  BY DEF TypeInv, TypeOK, Steps, Ended
<1>n. Absent.by \notin Publishers
  BY NameAssumption DEF Absent
<1>1. CASE pc[r] \in {"renamed", "done"}
  <2>1. fs[Target[r]].by = r /\ fs[Target[r]] # Absent
    BY <1>1, <1>n DEF Told
  <2> QED BY <2>1, Stays, Requested
<1>2. CASE pc[r] \notin {"renamed", "done"}
  <2>1. ASSUME NEW n \in Paths \cup Publishers, Intrude(n) PROVE FALSE
    BY <1>2, <2>1 DEF Intrude
  <2>2. PICK p \in Publishers : Step(p) \/ Crash(p)
    BY <2>1 DEF Next
  <2>3. r = p
    BY <1>2, <2>2, Moves
  <2>4. Rename(p) /\ pc'[p] = "renamed"
    BY <1>t, <1>2, <2>2, <2>3 DEF Step, Start, CheckAbsent, Stage, MakeEntry, WriteAll, SyncAll,
       Rename, Keep, Drop, Crash, Go, Following
  <2>5. pc[p] = "rename" /\ fs'[Target[p]] = fs[p]
    BY <1>t, <2>4, Requested DEF Rename, Go
  <2> QED BY <2>3, <2>5 DEF Private, Working
<1> QED BY <1>1, <1>2

(***************************************************************************)
(* The staged content.                                                     *)
(***************************************************************************)

\* Staged, for one publisher, its content, control and counter.
StagedAs(p, c, control, k) ==
  \A s \in Slots :
    /\ (c[s] = "dir") <=> \E i \in 1..(k - 1) : Slot(Entries(p)[i]) = s /\ Entries(p)[i].dir
    /\ (c[s] = "synced") <=> \E i \in 1..(k - 1) : Slot(Entries(p)[i]) = s /\ ~Entries(p)[i].dir
    /\ (c[s] = "created") <=> (control = "write" /\ s = Slot(Entries(p)[k]))
    /\ (c[s] = "written") <=> (control = "sync" /\ s = Slot(Entries(p)[k]))

LEMMA StagedStep ==
  ASSUME TypeInv, Private, Staged, NEW p \in Publishers, Step(p) \/ Crash(p), pc'[p] \in Working
  PROVE  StagedAs(p, fs'[p].content, pc'[p], at'[p])
<1> DEFINE E == Entries(p)
           k == at[p]
           c == fs[p].content
<1>t. /\ pc \in [Publishers -> Steps] /\ fs \in [Paths \cup Publishers -> Nodes]
      /\ at \in [Publishers -> Nat]
  BY DEF TypeInv, TypeOK, Steps, Ended
<1>c. c \in [Slots -> States]
  BY <1>t DEF Nodes
<1>s. pc[p] \in Working => StagedAs(p, c, pc[p], k)
  BY DEF Staged, StagedAs
<1>k. k \in Nat \ {0} /\ k + 1 \in Nat /\ (k + 1) - 1 = k /\ 1..k = (1..(k - 1)) \cup {k}
  BY DEF TypeInv, TypeOK
<1>1. CASE Stage(p)
  <2>1. k = 1 /\ at'[p] = 1
    BY <1>1 DEF Stage, TypeInv, InRange
  <2>2. CASE Kind(p) = "file"
    <3>1. pc'[p] = "write" /\ fs'[p].content = [Empty EXCEPT ![Slot(E[1])] = "created"]
      BY <1>1, <1>t, <2>2 DEF Stage, Go, Working
    <3>2. Slot(E[1]) \in Slots
      BY <2>2, FileIsOne, Placed
    <3>3. \A s \in Slots : fs'[p].content[s] = IF s = Slot(E[1]) THEN "created" ELSE "none"
      BY <3>1, <3>2 DEF Empty
    <3> HIDE DEF E
    <3> QED BY <2>1, <3>1, <3>3 DEF StagedAs, E
  <2>3. CASE Kind(p) # "file"
    <3>1. pc'[p] \in {"entry", "rename"} /\ fs'[p].content = Empty
      BY <1>1, <1>t, <2>3 DEF Stage, Go, Working, Following
    <3> QED BY <2>1, <3>1 DEF StagedAs, Empty
  <2> QED BY <2>2, <2>3
<1>2. CASE MakeEntry(p) \/ WriteAll(p) \/ SyncAll(p)
  <2>0. k \in 1..Len(E) /\ pc[p] \in Working /\ StagedAs(p, c, pc[p], k)
    BY <1>2, <1>k, <1>s, Requested DEF TypeInv, InRange, MakeEntry, WriteAll, SyncAll, Working
  <2> DEFINE slot == Slot(E[k])
  <2>1. slot \in Slots /\ E[k].dir \in BOOLEAN
    BY <2>0, Placed
  <2>2. ASSUME NEW x \in States, Put(p, slot, x)
        PROVE  fs'[p].content = [c EXCEPT ![slot] = x]
    BY <2>1, <2>2, PutTypes DEF TypeInv
  <2>3. CASE MakeEntry(p)
    <3>1. c[slot] = "none" /\ pc[p] = "entry"
      BY <1>t, <2>3 DEF MakeEntry, Go, Working
    <3>2. CASE E[k].dir
      <4>1. fs'[p].content = [c EXCEPT ![slot] = "dir"]
        BY <1>t, <2>2, <2>3, <3>2 DEF MakeEntry, Go, Working, States
      <4>2. at'[p] = k + 1 /\ pc'[p] \in {"entry", "rename"}
        BY <1>t, <2>3, <3>2 DEF MakeEntry, Go, Working, Following
      <4> HIDE DEF E, k, c, slot
      <4> QED BY <1>c, <1>k, <2>0, <2>1, <3>1, <3>2, <4>1, <4>2 DEF StagedAs, E, slot
    <3>3. CASE ~E[k].dir
      <4>1. fs'[p].content = [c EXCEPT ![slot] = "created"]
        BY <1>t, <2>2, <2>3, <3>3 DEF MakeEntry, Go, Working, States
      <4>2. at'[p] = k /\ pc'[p] = "write"
        BY <1>t, <2>3, <3>3 DEF MakeEntry, Go, Working
      <4> HIDE DEF E, k, c, slot
      <4> QED BY <1>c, <1>k, <2>0, <2>1, <3>1, <4>1, <4>2 DEF StagedAs, E, slot
    <3> QED BY <2>1, <3>2, <3>3
  <2>4. CASE WriteAll(p)
    <3>1. pc[p] = "write" /\ pc'[p] = "sync" /\ at'[p] = k
      BY <1>t, <2>4 DEF WriteAll, Go, Working
    <3>2. fs'[p].content = [c EXCEPT ![slot] = "written"]
      BY <1>t, <2>2, <2>4 DEF WriteAll, Go, Working, States
    <3> HIDE DEF E, k, c, slot
    <3> QED BY <1>c, <1>k, <2>0, <2>1, <3>1, <3>2 DEF StagedAs, E, slot
  <2>5. CASE SyncAll(p)
    <3>1. pc[p] = "sync" /\ pc'[p] \in {"entry", "rename"} /\ at'[p] = k + 1
      BY <1>t, <2>5 DEF SyncAll, Go, Working, Following
    <3>2. fs'[p].content = [c EXCEPT ![slot] = "synced"]
      BY <1>t, <2>2, <2>5 DEF SyncAll, Go, Working, States
    <3>3. ~E[k].dir
      BY <3>1 DEF TypeInv, InRange
    <3> HIDE DEF E, k, c, slot
    <3> QED BY <1>c, <1>k, <2>0, <2>1, <3>1, <3>2, <3>3 DEF StagedAs, E, slot
  <2> QED BY <1>2, <2>3, <2>4, <2>5
<1>3. CASE Start(p) \/ CheckAbsent(p) \/ Rename(p) \/ Keep(p) \/ Drop(p) \/ Crash(p)
  BY <1>3, <1>t DEF Start, CheckAbsent, Rename, Keep, Drop, Crash, Go, Working
<1> QED BY <1>1, <1>2, <1>3 DEF Step

LEMMA StagedNext == TypeInv /\ Private /\ Staged /\ [Next]_vars => Staged'
<1> SUFFICES ASSUME TypeInv, Private, Staged, Next PROVE Staged'
  BY DEF vars, Staged
<1>n. Absent.by \notin Publishers
  BY NameAssumption DEF Absent
<1>1. ASSUME NEW r \in Publishers, pc'[r] \in Working
      PROVE  StagedAs(r, fs'[r].content, pc'[r], at'[r])
  <2>1. CASE fs'[r] = fs[r] /\ pc'[r] = pc[r] /\ at'[r] = at[r]
    BY <1>1, <2>1 DEF Staged, StagedAs
  <2>2. ASSUME NEW p \in Publishers, Step(p) \/ Crash(p)
        PROVE  StagedAs(r, fs'[r].content, pc'[r], at'[r])
    <3>1. CASE r = p
      BY <1>1, <2>2, <3>1, StagedStep
    <3>2. CASE r # p
      <4>1. fs'[r] = fs[r] /\ pc'[r] = pc[r] /\ at'[r] = at[r]
        BY <2>2, <3>2, Frame, Moves, Requested
      <4> QED BY <2>1, <4>1
    <3> QED BY <3>1, <3>2
  <2>3. ASSUME NEW n \in Paths \cup Publishers, Intrude(n)
        PROVE  StagedAs(r, fs'[r].content, pc'[r], at'[r])
    <3>1. pc' = pc /\ at' = at /\ (n # r => fs'[r] = fs[r])
      BY <2>3 DEF Intrude, TypeInv, TypeOK
    <3>2. n # r
      BY <1>1, <1>n, <2>3, <3>1 DEF Intrude, Private, Working
    <3> QED BY <2>1, <3>1, <3>2
  <2> QED BY <2>2, <2>3 DEF Next
<1> QED BY <1>1 DEF Staged, StagedAs

(***************************************************************************)
(* Theorems.                                                               *)
(***************************************************************************)

Inv == TypeInv /\ Private /\ Staged /\ Shown /\ Told

LEMMA Inductive == Spec => []Inv
<1>1. Init => Inv
  <2>1. Init => Private /\ Staged /\ Told
    BY NameAssumption DEF Init, Private, Staged, Told, Working, Absent
  <2>2. Init => Shown
    BY NameAssumption DEF Init, Shown, Absent, Strange
  <2> QED BY <2>1, <2>2, TypeInit DEF Inv
<1>2. Inv /\ [Next]_vars => Inv'
  BY TypeStep, PrivateStep, StagedNext, ShownStep, ToldStep DEF Inv
<1> QED BY <1>1, <1>2, PTL DEF Spec

\* A destination shows either nothing of a publisher or its whole artifact,
\* with every directory made and every file written and synced.
THEOREM VisibleStaysWhole == Spec => []VisibleIsWhole
<1>1. Inv => VisibleIsWhole
  BY DEF Inv, Shown, VisibleIsWhole
<1> QED BY <1>1, Inductive, PTL

\* Success and error mean what they say about the destination.
THEOREM ResultsAreTrue == Spec => []ResultIsTrue
<1>1. Inv => ResultIsTrue
  <2> SUFFICES ASSUME Inv, NEW p \in Publishers
               PROVE  /\ pc[p] = "done" => fs[Target[p]].by = p
                      /\ pc[p] = "failed" => \A q \in Paths : fs[q].by # p
    BY DEF ResultIsTrue
  <2> QED BY DEF Inv, Told, Shown
<1> QED BY <1>1, Inductive, PTL

\* A call that returns has removed its staging.
THEOREM StagingIsRemoved == Spec => []NoLeftovers
<1>1. Inv => NoLeftovers
  BY DEF Inv, Private, NoLeftovers
<1> QED BY <1>1, Inductive, PTL

\* No step replaces or removes what a destination holds, or a stranger's file.
THEOREM NothingIsReplaced == Spec => NothingReplaced
<1>1. ASSUME Inv, Next, NEW n \in Paths \cup Publishers, fs[n] # Absent,
             n \in Paths \/ fs[n] = Strange
      PROVE  fs'[n] = fs[n]
  <2>1. CASE n \in Paths
    BY <1>1, <2>1, Stays DEF Inv
  <2>2. CASE n \in Publishers /\ fs[n] = Strange
    <3>1. fs[n].by \notin Publishers
      BY <2>2, NameAssumption DEF Strange
    <3>2. pc[n] \notin {"start", "check", "stage", "drop"} \cup Working
      BY <1>1, <2>2, <3>1 DEF Inv, Private
    <3>3. ASSUME NEW p \in Publishers, Step(p) \/ Crash(p) PROVE fs'[n] = fs[n]
      <4>1. CASE n # p
        BY <1>1, <2>2, <3>3, <4>1, Frame, Requested, NameAssumption DEF Inv
      <4>2. CASE n = p
        BY <3>2, <3>3, <4>2 DEF Working, Step, Start, CheckAbsent, Stage, MakeEntry, WriteAll,
           SyncAll, Rename, Keep, Drop, Crash
      <4> QED BY <4>1, <4>2
    <3>4. ASSUME NEW m \in Paths \cup Publishers, Intrude(m) PROVE fs'[n] = fs[n]
      BY <1>1, <3>4 DEF Intrude, Inv, TypeInv, TypeOK
    <3> QED BY <1>1, <3>3, <3>4 DEF Next
  <2> QED BY <1>1, <2>1, <2>2
<1>2. Inv /\ [Next]_vars =>
        [\A n \in Paths \cup Publishers :
           fs[n] # Absent /\ (n \in Paths \/ fs[n] = Strange) => fs'[n] = fs[n]]_vars
  BY <1>1
<1> QED BY <1>2, Inductive, PTL DEF Spec, NothingReplaced

\* Two entries of an accepted bundle never share a name, whatever the host folds.
LEMMA SlotsAreDistinct ==
  ASSUME NEW p \in Publishers, Accepted(p),
         NEW i \in DOMAIN Entries(p), NEW j \in DOMAIN Entries(p), i # j
  PROVE  Slot(Entries(p)[i]) # Slot(Entries(p)[j])
<1> DEFINE E == Entries(p)
<1>e. E \in Seq(Entry)
  BY Requested
<1>1. \A x \in DOMAIN E : /\ E[x].name \in Names \ Unportable /\ E[x].in \in Names \cup {Root}
  BY Placed, Requested DEF Accepted, Entry
<1>2. \A x, y \in DOMAIN E : x # y /\ E[x].in = E[y].in => HostFold[E[x].name] # HostFold[E[y].name]
  BY <1>1, HostAssumption DEF Accepted
<1>3. \A x \in DOMAIN E : E[x].in # Root =>
        \E y \in DOMAIN E : E[y].in = Root /\ E[y].name = E[x].in
  BY RequestAssumption, Requested
<1>4. \A n \in Names : HostFold[n] \in Names /\ HostFold[n] # Root
  BY NameAssumption
<1> SUFFICES ASSUME Slot(E[i]) = Slot(E[j]) PROVE FALSE
  OBVIOUS
<1>5. HostFold[E[i].name] = HostFold[E[j].name]
  BY DEF Slot
<1>6. E[i].in # E[j].in
  BY <1>2, <1>5
<1>7. E[i].in # Root /\ E[j].in # Root /\ HostFold[E[i].in] = HostFold[E[j].in]
  BY <1>1, <1>4, <1>6 DEF Slot
<1>8. PICK x, y \in DOMAIN E : /\ E[x].in = Root /\ E[x].name = E[i].in
                               /\ E[y].in = Root /\ E[y].name = E[j].in
  BY <1>3, <1>7
<1> QED BY <1>2, <1>6, <1>7, <1>8

\* Past its first step a bundle is an accepted one.
Admitted ==
  \A p \in Publishers :
    pc[p] \in {"check", "stage"} \cup Working /\ Kind(p) = "bundle" => Accepted(p)

LEMMA AdmittedStep == TypeInv /\ Admitted /\ [Next]_vars => Admitted'
<1> SUFFICES ASSUME TypeInv, Admitted, Next, NEW r \in Publishers, Kind(r) = "bundle",
                    pc'[r] \in {"check", "stage"} \cup Working
             PROVE  Accepted(r)
  BY DEF vars, Admitted, Accepted, Entries, Kind
<1>t. pc \in [Publishers -> Steps]
  BY DEF TypeInv, TypeOK, Steps, Ended
<1>1. ASSUME NEW p \in Publishers, Step(p) \/ Crash(p) PROVE Accepted(r)
  <2>1. CASE r # p
    BY <1>1, <2>1, Moves DEF Admitted
  <2>2. CASE r = p /\ Start(p)
    BY <1>t, <2>2 DEF Start, Go, Working
  <2>3. CASE r = p /\ ~Start(p)
    <3>1. pc[p] \in {"check", "stage"} \cup Working
      BY <1>1, <1>t, <2>3 DEF Step, CheckAbsent, Stage, MakeEntry, WriteAll, SyncAll, Rename, Keep,
         Drop, Crash, Go, Working, Following
    <3> QED BY <2>3, <3>1 DEF Admitted
  <2> QED BY <2>1, <2>2, <2>3
<1>2. ASSUME NEW n \in Paths \cup Publishers, Intrude(n) PROVE Accepted(r)
  BY <1>2 DEF Intrude, Admitted
<1> QED BY <1>1, <1>2 DEF Next

\* Validation is enough: staging an accepted bundle meets neither a taken name
\* nor a missing directory.
THEOREM AcceptedBundlesFit == Spec => []AcceptedNeverCollides
<1>1. Init => Admitted
  BY DEF Init, Admitted, Working
<1>2. TypeInv /\ Inv /\ Admitted => AcceptedNeverCollides
  <2> SUFFICES ASSUME TypeInv, Inv, Admitted, NEW p \in Publishers,
                      pc[p] = "entry", Kind(p) = "bundle"
               PROVE  LET e == Entries(p)[at[p]] IN
                      /\ fs[p].content[Slot(e)] = "none"
                      /\ e.in # Root => fs[p].content[<<Root, HostFold[e.in]>>] = "dir"
    BY DEF AcceptedNeverCollides
  <2> DEFINE E == Entries(p)
             k == at[p]
             c == fs[p].content
  <2>1. Accepted(p) /\ k \in DOMAIN E /\ 1..(k - 1) \subseteq DOMAIN E
    BY Requested DEF Admitted, Working, TypeInv, TypeOK, InRange
  <2>2. StagedAs(p, c, "entry", k)
    BY DEF Inv, Staged, StagedAs, Working
  <2>3. Slot(E[k]) \in Slots
    BY <2>1, Placed, Requested
  <2>4. \A i \in 1..(k - 1) : Slot(E[i]) # Slot(E[k])
    <3>1. \A i \in 1..(k - 1) : i # k
      BY <2>1, Requested
    <3> QED BY <2>1, <3>1, SlotsAreDistinct
  <2>5. c[Slot(E[k])] = "none"
    <3>1. c[Slot(E[k])] \in {"none", "created", "written", "synced", "dir"}
      BY <2>3 DEF TypeInv, TypeOK, Nodes, States
    <3> HIDE DEF E, k, c
    <3> QED BY <2>2, <2>3, <2>4, <3>1 DEF StagedAs, E
  <2>6. ASSUME E[k].in # Root PROVE c[<<Root, HostFold[E[k].in]>>] = "dir"
    <3>1. PICK j \in 1..(k - 1) : E[j].dir /\ E[j].in = Root /\ E[j].name = E[k].in
      BY <2>1, <2>6, RequestAssumption
    <3>2. Slot(E[j]) = <<Root, HostFold[E[k].in]>> /\ Slot(E[j]) \in Slots
      BY <2>1, <3>1, Placed, Requested DEF Slot
    <3> HIDE DEF E, k, c
    <3> QED BY <2>2, <3>1, <3>2 DEF StagedAs, E
  <2> QED BY <2>5, <2>6
<1>3. Spec => []Admitted
  BY <1>1, AdmittedStep, TypeInit, TypeStep, PTL DEF Spec
<1>4. Inv => TypeInv
  BY DEF Inv
<1> QED BY <1>2, <1>3, <1>4, Inductive, PTL

\* Publication implements PublishOnce: seen from outside, an artifact appears
\* whole at a free path in one step, and the caller is told the truth about it.
THEOREM ImplementsOnce == Spec => PublishesOnce
<1>n. /\ "nobody" \notin Publishers /\ Absent.by = "nobody" /\ Strange.by = "stranger"
      /\ "stranger" \notin Publishers
  BY NameAssumption DEF Absent, Strange
<1>1. Inv => Place = [q \in Paths |-> fs[q].by]
  BY DEF Inv, Shown, Place
<1>2. Inv' => Place' = [q \in Paths |-> fs'[q].by]
  BY DEF Inv, Shown, Place
<1>3. Init => Once!Init
  <2> SUFFICES ASSUME Init PROVE Once!Init
    OBVIOUS
  <2>1. \A q \in Paths : fs[q].by \in {"nobody", "stranger"}
    BY DEF Init, Absent, Strange
  <2>2. Place \in [Paths -> {"nobody", "stranger"}]
    BY <1>n, <2>1, NameAssumption DEF Place
  <2>3. Outcome = [p \in Publishers |-> "open"]
    BY DEF Init, Outcome, Ended
  <2> QED BY <2>2, <2>3 DEF Once!Init
<1>4. ASSUME Inv, Inv', Next PROVE Once!Next \/ UNCHANGED Once!state
  <2>t. /\ pc \in [Publishers -> Steps] /\ pc' \in [Publishers -> Steps]
        /\ fs \in [Paths \cup Publishers -> Nodes]
    BY <1>4 DEF Inv, TypeInv, TypeOK, Steps, Ended
  <2>p. Place = [q \in Paths |-> fs[q].by] /\ Place' = [q \in Paths |-> fs'[q].by]
    BY <1>1, <1>2, <1>4
  <2>o. /\ Outcome = [p \in Publishers |-> IF pc[p] \in Ended THEN pc[p] ELSE "open"]
        /\ Outcome' = [p \in Publishers |-> IF pc'[p] \in Ended THEN pc'[p] ELSE "open"]
    BY DEF Outcome, Ended
  <2>1. ASSUME NEW p \in Publishers, Step(p) \/ Crash(p)
        PROVE  Once!Next \/ UNCHANGED Once!state
    <3>1. \A r \in Publishers : r # p => pc'[r] = pc[r]
      BY <1>4, <2>1, Moves DEF Inv
    <3>2. CASE pc'[p] \in Ended
      <4>1. fs'[Target[p]] = fs[Target[p]] /\ \A q \in Paths : fs'[q] = fs[q]
        BY <1>4, <2>1, <2>t, <3>2, Frame, Requested, NameAssumption
           DEF Inv, Rename, Go, Ended
      <4>2. pc[p] \notin Ended
        BY <2>1 DEF Step, Start, CheckAbsent, Stage, MakeEntry, WriteAll, SyncAll, Rename, Keep,
           Drop, Crash, Ended
      <4>3. Outcome[p] = "open" /\ Outcome' = [Outcome EXCEPT ![p] = pc'[p]]
        BY <2>o, <3>1, <3>2, <4>2
      <4>4. Place' = Place /\ Place[Target[p]] = fs[Target[p]].by
        BY <2>p, <4>1, Requested
      <4>5. CASE pc'[p] = "done"
        <5>1. Place[Target[p]] = p
          BY <1>4, <4>1, <4>4, <4>5 DEF Inv, Told
        <5> QED BY <4>3, <4>4, <4>5, <5>1 DEF Once!Next, Once!Finish
      <4>6. CASE pc'[p] = "failed"
        <5>1. Place[Target[p]] # p
          BY <1>4, <4>1, <4>4, <4>6, Requested DEF Inv, Shown
        <5> QED BY <4>3, <4>4, <4>6, <5>1 DEF Once!Next, Once!Finish
      <4>7. CASE pc'[p] = "crashed"
        BY <4>3, <4>4, <4>7 DEF Once!Next, Once!Finish
      <4> QED BY <3>2, <4>5, <4>6, <4>7 DEF Ended
    <3>3. CASE pc'[p] \notin Ended
      <4>1. pc[p] \notin Ended
        BY <2>1 DEF Step, Start, CheckAbsent, Stage, MakeEntry, WriteAll, SyncAll, Rename, Keep,
           Drop, Crash, Ended
      <4>2. Outcome' = Outcome /\ Outcome[p] = "open"
        BY <2>o, <3>1, <3>3, <4>1
      <4>3. CASE \A q \in Paths : fs'[q] = fs[q]
        BY <2>p, <4>2, <4>3 DEF Once!state
      <4>4. CASE \E q \in Paths : fs'[q] # fs[q]
        <5>1. PICK q \in Paths : fs'[q] # fs[q]
          BY <4>4
        <5>2. Rename(p) /\ q = Target[p] /\ fs[q] = Absent /\ fs'[q] = fs[p]
          BY <1>4, <2>1, <5>1, Frame, NameAssumption DEF Inv
        <5>3. \A x \in Paths : x # q => fs'[x] = fs[x]
          BY <1>4, <2>1, <5>2, Frame, NameAssumption DEF Inv
        <5>4. fs[p].by = p
          BY <1>4, <5>2 DEF Rename, Inv, Private, Working
        <5>5. Place[q] = "nobody" /\ Place' = [Place EXCEPT ![q] = p]
          BY <1>n, <2>p, <5>2, <5>3, <5>4
        <5> QED BY <4>2, <5>2, <5>5 DEF Once!Next, Once!Appear
      <4> QED BY <4>3, <4>4
    <3> QED BY <3>2, <3>3
  <2>2. ASSUME NEW n \in Paths \cup Publishers, Intrude(n)
        PROVE  Once!Next \/ UNCHANGED Once!state
    <3>1. Outcome' = Outcome
      BY <2>2, <2>o DEF Intrude
    <3>2. CASE n \in Paths
      <4>1. Place[n] = "nobody" /\ Place' = [Place EXCEPT ![n] = "stranger"]
        BY <1>n, <2>t, <2>p, <2>2, <3>2 DEF Intrude
      <4> QED BY <3>1, <3>2, <4>1 DEF Once!Next, Once!Intrude
    <3>3. CASE n \notin Paths
      <4>1. Place' = Place
        BY <2>t, <2>p, <2>2, <3>3 DEF Intrude
      <4> QED BY <3>1, <4>1 DEF Once!state
    <3> QED BY <3>2, <3>3
  <2> QED BY <1>4, <2>1, <2>2 DEF Next
<1>5. ASSUME UNCHANGED vars PROVE UNCHANGED Once!state
  BY <1>5 DEF vars, Once!state, Place, Outcome
<1>6. Inv /\ Inv' /\ [Next]_vars => [Once!Next]_(Once!state)
  BY <1>4, <1>5
<1> QED BY <1>3, <1>6, Inductive, PTL DEF Spec, PublishesOnce, Once!Spec
=============================================================================
