------------------------------ MODULE Publication ------------------------------
(***************************************************************************)
(* poe-optimizer-host: write_new, publish_artifacts and                     *)
(* publish_artifact_bundle.  Several calls, in processes that may crash,    *)
(* publish into shared directories where strangers create files too.  Each  *)
(* call stages its artifact under a private name beside the destination,    *)
(* entry by entry, and makes it visible by one rename that replaces nothing.*)
(*                                                                         *)
(* The private name of publisher p is p itself.  A request is a record      *)
(* [kind, target, entries]; its entries are in writing order, a directory   *)
(* before its files.  Sudden power loss is outside what the code promises.  *)
(***************************************************************************)
EXTENDS Naturals, Sequences, FiniteSets, SequencesExt

CONSTANTS
  Publishers, Paths,
  Requests,               \* [Publishers -> what each asks for]
  Names,                  \* the names entries may have
  Unportable, NotBasename,\* those a bundle refuses; those any directory refuses
  Fold,                   \* [Names -> Names]: to_ascii_lowercase
  HostFold,               \* [Names -> Names]: names the file system takes for one
  MaxEntries, MaxBytes,   \* ArtifactBundleLimits
  Faults                  \* the operations that may fail

Kind(p) == Requests[p].kind
Target == [p \in Publishers |-> Requests[p].target]
Entries(p) == Requests[p].entries
Root == "root"            \* the entry's directory is the artifact itself

Entry == [in : Names \cup {Root}, name : Names, dir : BOOLEAN, size : Nat]

\* An artifact has a directory's files after the directory: the API nests its
\* arguments so.  Only a bundle has directories, and a file is one entry.
ASSUME RequestAssumption ==
  /\ Requests \in [Publishers -> [kind : {"file", "artifacts", "bundle"},
                                  target : Paths, entries : Seq(Entry)]]
  /\ \A p \in Publishers : \A i \in DOMAIN Entries(p) :
       LET e == Entries(p)[i] IN
       /\ e.in # Root =>
            \E j \in 1..(i - 1) : /\ Entries(p)[j].dir /\ Entries(p)[j].in = Root
                                  /\ Entries(p)[j].name = e.in
       /\ e.dir => e.in = Root /\ e.size = 0
       /\ Kind(p) # "bundle" => e.in = Root /\ ~e.dir
  /\ \A p \in Publishers : Kind(p) = "file" => Len(Entries(p)) = 1
ASSUME NameAssumption ==
  /\ {"nobody", "stranger"} \cap Publishers = {} /\ Paths \cap Publishers = {}
  /\ Root \notin Names /\ NotBasename \subseteq Unportable /\ Unportable \subseteq Names
  /\ Fold \in [Names -> Names] /\ HostFold \in [Names -> Names]
\* A host may ignore the case of letters outside ASCII; portable names have none.
ASSUME HostAssumption ==
  \A a, b \in Names \ Unportable : HostFold[a] = HostFold[b] => Fold[a] = Fold[b]
ASSUME LimitAssumption == MaxEntries \in Nat /\ MaxBytes \in Nat
ASSUME FaultAssumption ==
  Faults \subseteq {"parent", "metadata", "stage", "entry", "write", "sync", "rename"}

\* Where the file system puts an entry, and what may be there.
Slots == (Names \cup {Root}) \X Names
Slot(e) == <<IF e.in = Root THEN Root ELSE HostFold[e.in], HostFold[e.name]>>
States == {"none", "created", "written", "synced", "dir"}
Empty == [s \in Slots |-> "none"]
Nodes == [by : Publishers \cup {"nobody", "stranger"}, content : [Slots -> States]]
Absent == [by |-> "nobody", content |-> Empty]
Strange == [by |-> "stranger", content |-> Empty]

VARIABLES pc, at, fs      \* at: the entry being written; fs: what each name holds
vars == <<pc, at, fs>>

Init ==
  /\ pc = [p \in Publishers |-> "start"]
  /\ at = [p \in Publishers |-> 1]
  /\ fs \in {f \in [Paths \cup Publishers -> {Absent, Strange}] :
               \A p \in Publishers : f[p] = Absent}

Go(p, s) == pc' = [pc EXCEPT ![p] = s]
Fault(f) == f \in Faults
Put(p, s, x) == fs' = [fs EXCEPT ![p].content[s] = x]

Bytes(p) == FoldSeq(LAMBDA e, sum : e.size + sum, 0, Entries(p))

\* Seeded fault: names are compared as they are.
AcceptedExact(p) ==
  /\ Len(Entries(p)) <= MaxEntries /\ Bytes(p) <= MaxBytes
  /\ \A i \in DOMAIN Entries(p) : Entries(p)[i].name \notin Unportable
  /\ \A i, j \in DOMAIN Entries(p) :
       i # j /\ Entries(p)[i].in = Entries(p)[j].in
         => Entries(p)[i].name # Entries(p)[j].name

\* Seeded fault: a bundle that reaches its limit is refused.
AcceptedBelow(p) ==
  /\ Len(Entries(p)) < MaxEntries /\ Bytes(p) <= MaxBytes
  /\ \A i \in DOMAIN Entries(p) : Entries(p)[i].name \notin Unportable
  /\ \A i, j \in DOMAIN Entries(p) :
       i # j /\ Entries(p)[i].in = Entries(p)[j].in
         => Fold[Entries(p)[i].name] # Fold[Entries(p)[j].name]

\* validate_bundle: both limits are nonzero, every file and directory counts as
\* an entry, names are portable and unique, up to case, in their directory.
Accepted(p) ==
  /\ MaxEntries > 0 /\ MaxBytes > 0
  /\ Len(Entries(p)) <= MaxEntries /\ Bytes(p) <= MaxBytes
  /\ \A i \in DOMAIN Entries(p) : Entries(p)[i].name \notin Unportable
  /\ \A i, j \in DOMAIN Entries(p) :
       i # j /\ Entries(p)[i].in = Entries(p)[j].in
         => Fold[Entries(p)[i].name] # Fold[Entries(p)[j].name]

\* destination needs an existing parent; nothing is created before it.
Start(p) ==
  /\ pc[p] = "start" /\ UNCHANGED <<at, fs>>
  /\ \/ Kind(p) = "bundle" /\ ~Accepted(p) /\ Go(p, "failed")
     \/ Fault("parent") /\ Go(p, "failed")
     \/ /\ Kind(p) = "bundle" => Accepted(p)
        /\ Go(p, IF Kind(p) = "file" THEN "stage" ELSE "check")

\* publish_directory looks before it stages; write_new leaves it to the rename.
CheckAbsent(p) ==
  /\ pc[p] = "check" /\ UNCHANGED <<at, fs>>
  /\ \/ fs[Target[p]] # Absent /\ Go(p, "failed")
     \/ Fault("metadata") /\ Go(p, "failed")
     \/ fs[Target[p]] = Absent /\ Go(p, "stage")

\* What follows when the entries before the n-th are in place.
Following(p, n) == IF n > Len(Entries(p)) THEN "rename" ELSE "entry"

\* An exclusive creation under a fresh random name: an empty directory or file.
Stage(p) ==
  /\ pc[p] = "stage" /\ UNCHANGED at
  /\ \/ Fault("stage") /\ Go(p, "failed") /\ UNCHANGED fs
     \/ /\ fs[p] = Absent
        /\ IF Kind(p) = "file"
           THEN /\ fs' = [fs EXCEPT ![p] =
                           [by |-> p, content |-> [Empty EXCEPT ![Slot(Entries(p)[1])] = "created"]]]
                /\ Go(p, "write")
           ELSE /\ fs' = [fs EXCEPT ![p] = [by |-> p, content |-> Empty]]
                /\ Go(p, Following(p, 1))

\* create_dir, or the exclusive creation of a file, in the staging directory.
MakeEntry(p) ==
  LET e == Entries(p)[at[p]]
      taken == fs[p].content[Slot(e)] # "none"
      refused == Kind(p) = "artifacts" /\ e.name \in NotBasename IN
  /\ pc[p] = "entry"
  /\ \/ (refused \/ taken \/ Fault("entry")) /\ Go(p, "drop") /\ UNCHANGED <<at, fs>>
     \/ /\ ~refused /\ ~taken /\ e.dir
        /\ Put(p, Slot(e), "dir")
        /\ at' = [at EXCEPT ![p] = @ + 1] /\ Go(p, Following(p, at[p] + 1))
     \/ /\ ~refused /\ ~taken /\ ~e.dir
        /\ Put(p, Slot(e), "created") /\ Go(p, "write") /\ UNCHANGED at

\* Seeded fault: the file is not synced when the artifact has more entries to come.
WriteUnsynced(p) ==
  /\ pc[p] = "write"
  /\ Put(p, Slot(Entries(p)[at[p]]), "written")
  /\ at' = [at EXCEPT ![p] = @ + 1] /\ Go(p, Following(p, at[p] + 1))

WriteAll(p) ==
  /\ pc[p] = "write" /\ UNCHANGED at
  /\ \/ Fault("write") /\ Go(p, "drop") /\ UNCHANGED fs
     \/ Put(p, Slot(Entries(p)[at[p]]), "written") /\ Go(p, "sync")

SyncAll(p) ==
  /\ pc[p] = "sync"
  /\ \/ Fault("sync") /\ Go(p, "drop") /\ UNCHANGED <<at, fs>>
     \/ /\ Put(p, Slot(Entries(p)[at[p]]), "synced")
        /\ at' = [at EXCEPT ![p] = @ + 1] /\ Go(p, Following(p, at[p] + 1))

\* Seeded fault: std::fs::rename: replaces what is there.
RenameOver(p) ==
  /\ pc[p] = "rename" /\ UNCHANGED at
  /\ fs' = [fs EXCEPT ![Target[p]] = fs[p], ![p] = Absent]
  /\ Go(p, "renamed")

\* publish_noclobber and persist_noclobber: one step, and only to a free name.
Rename(p) ==
  /\ pc[p] = "rename" /\ UNCHANGED at
  /\ \/ (fs[Target[p]] # Absent \/ Fault("rename")) /\ Go(p, "drop") /\ UNCHANGED fs
     \/ /\ fs[Target[p]] = Absent
        /\ fs' = [fs EXCEPT ![Target[p]] = fs[p], ![p] = Absent]
        /\ Go(p, "renamed")

\* Seeded fault: the guard is dropped instead of disarmed.
KeepDropped(p) ==
  pc[p] = "renamed" /\ Go(p, "done") /\ UNCHANGED at /\ fs' = [fs EXCEPT ![p] = Absent]

\* The guard of the staging name is disarmed: the name may be another's by now.
Keep(p) == pc[p] = "renamed" /\ Go(p, "done") /\ UNCHANGED <<at, fs>>

\* Seeded fault: the staging directory is kept as soon as it is created.
DropKept(p) == pc[p] = "drop" /\ Go(p, "failed") /\ UNCHANGED <<at, fs>>

\* The guard goes out of scope on an error: whatever has the name is removed.
Drop(p) ==
  /\ pc[p] = "drop" /\ Go(p, "failed") /\ UNCHANGED at
  /\ fs' = [fs EXCEPT ![p] = Absent]

Ended == {"done", "failed", "crashed"}
Crash(p) == pc[p] \notin Ended /\ Go(p, "crashed") /\ UNCHANGED <<at, fs>>

\* Another process creates a file at a destination, or under a name that a
\* publisher has left.
Intrude(n) ==
  /\ fs[n] = Absent /\ fs' = [fs EXCEPT ![n] = Strange] /\ UNCHANGED <<pc, at>>
  /\ n \in Publishers => pc[n] \in {"renamed", "done", "failed"}

Step(p) ==
  \/ Start(p) \/ CheckAbsent(p) \/ Stage(p) \/ MakeEntry(p) \/ WriteAll(p)
  \/ SyncAll(p) \/ Rename(p) \/ Keep(p) \/ Drop(p)

Next ==
  \/ \E p \in Publishers : Step(p) \/ Crash(p)
  \/ \E n \in Paths \cup Publishers : Intrude(n)

Spec == Init /\ [][Next]_vars
\* The calls run: a process that does not crash goes on.
FairSpec == Spec /\ \A p \in Publishers : WF_vars(Step(p))

(***************************************************************************)
(* Properties.                                                             *)
(***************************************************************************)

\* Every variable has its type; only p writes under p's name while p works.
TypeOK ==
  /\ pc \in [Publishers -> Ended \cup {"start", "check", "stage", "entry", "write",
                                       "sync", "rename", "renamed", "drop"}]
  /\ at \in [Publishers -> Nat]
  /\ \A p \in Publishers : at[p] \in 1..(Len(Entries(p)) + 1)
  /\ fs \in [Paths \cup Publishers -> Nodes]

\* What p's artifact is when nothing is missing: every directory made, every
\* file written and synced, and nothing else.
Whole == [p \in Publishers |-> [s \in Slots |->
     IF \E i \in DOMAIN Entries(p) : Slot(Entries(p)[i]) = s /\ Entries(p)[i].dir THEN "dir"
     ELSE IF \E i \in DOMAIN Entries(p) : Slot(Entries(p)[i]) = s THEN "synced" ELSE "none"]]

\* What a destination shows of a publisher is its whole artifact: no reader
\* ever sees a missing, partly written or unsynced entry, whatever crashes.
VisibleIsWhole ==
  \A q \in Paths : fs[q].by \in Publishers =>
    Target[fs[q].by] = q /\ fs[q].content = Whole[fs[q].by]

\* Nothing that exists at a destination is ever replaced or removed, and what
\* a stranger puts under an abandoned staging name is left alone.
NothingReplaced ==
  [][\A n \in Paths \cup Publishers :
       fs[n] # Absent /\ (n \in Paths \/ fs[n] = Strange) => fs'[n] = fs[n]]_vars

\* The result is true of the file system: success means one's own artifact is
\* at the destination, an error means nothing of it became visible.
ResultIsTrue ==
  \A p \in Publishers :
    /\ pc[p] = "done" => fs[Target[p]].by = p
    /\ pc[p] = "failed" => \A q \in Paths : fs[q].by # p

\* Only a crash leaves a staging name behind.
NoLeftovers ==
  \A p \in Publishers : pc[p] \in {"renamed", "done", "failed"} =>
    \A n \in Publishers : fs[n].by # p

\* A bundle that passes validation meets no name of its own in the staging
\* directory and no missing parent, on a host that folds names or not.
AcceptedNeverCollides ==
  \A p \in Publishers : pc[p] = "entry" /\ Kind(p) = "bundle" =>
    LET e == Entries(p)[at[p]] IN
    /\ fs[p].content[Slot(e)] = "none"
    /\ e.in # Root => fs[p].content[<<Root, HostFold[e.in]>>] = "dir"

\* A request nothing is wrong with: counted entry by entry, apart from the code.
Sound(p) ==
  LET es == Entries(p) IN
  /\ \A i \in DOMAIN es : Kind(p) # "file" => es[i].name \notin NotBasename
  /\ Cardinality({Slot(es[i]) : i \in DOMAIN es}) = Len(es)
  /\ Kind(p) = "bundle" =>
       /\ \A i \in DOMAIN es : es[i].name \notin Unportable
       /\ Cardinality({<<es[i].in, Fold[es[i].name]>> : i \in DOMAIN es}) = Len(es)
       /\ Cardinality(UNION {{i} \X (1..es[i].size) : i \in DOMAIN es}) \in 0..MaxBytes
       /\ Cardinality(DOMAIN es) \in 0..MaxEntries /\ MaxBytes # 0 /\ MaxEntries # 0

\* A call with a sound request and no failing operation ends with something at
\* its destination, its own artifact or the one that was there first, unless
\* its process crashes: contenders for one path cannot all fail.
Publishes ==
  \A p \in Publishers : Sound(p) /\ Faults = {} =>
    <>(fs[Target[p]] # Absent \/ pc[p] = "crashed")

\* Seen from outside, an artifact appears whole in one step or not at all.
Outcome == [p \in Publishers |-> IF pc[p] \in Ended THEN pc[p] ELSE "open"]
Place == [q \in Paths |->
            IF fs[q].by \in Publishers /\ fs[q].content # Whole[fs[q].by]
            THEN "torn" ELSE fs[q].by]
Once == INSTANCE PublishOnce WITH place <- Place, outcome <- Outcome
PublishesOnce == Once!Spec
=============================================================================
