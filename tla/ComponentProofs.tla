---------------------------- MODULE ComponentProofs ----------------------------
(***************************************************************************)
(* The theorems of three specifications that have no name in common: the     *)
(* search over a catalog, the discrete space and the extraction worker.      *)
(***************************************************************************)
EXTENDS CatalogSearch, DiscreteSpace, ExtractionWorker,
        FiniteSetTheorems, SequenceTheorems, WellFoundedInduction, TLAPS

-----------------------------------------------------------------------------
(* CatalogSearch: what a published report says, for every catalog and budget. *)

\* Where a job is, and where it is past the first lock.
JobPlaces == {"waiting", "calling", "calculated", "identified", "measured", "error",
           "skipped", "given", "useless"}
Through == {"identified", "measured", "given"}

\* At most one backend is recorded, and what has passed the first lock is of it.
OneBackend ==
  /\ identity \subseteq Backends /\ \A a, b \in identity : a = b
  /\ \A c \in DOMAIN job :
       /\ job[c].at \in Through => identity # {} /\ job[c].backends = identity
       /\ job[c].at \in Through \cup {"calculated"} =>
            job[c].value \in Values /\ \E b \in Backends : job[c].backends = {b}
  /\ \A e \in ranked : identity # {} /\ e.backends = identity

\* The jobs are of a batch, taken from the untried, or of the check of the finalist.
JobsSound ==
  /\ call \in Calls /\ untried \subseteq Alternatives
  /\ DOMAIN job \subseteq Alternatives
  /\ job \in [DOMAIN job -> [at : JobPlaces, value : Values \cup {0}, backends : SUBSET Backends]]
  /\ pc \notin {"jobs", "checking", "failed"} => DOMAIN job = {}
  /\ pc = "jobs" => DOMAIN job \cap untried = {}
  /\ pc = "checking" => \E e \in Finalist : DOMAIN job = {e.candidate}

\* An alternative is ranked once.
RankedSound ==
  /\ \A e \in ranked :
       /\ e = [candidate |-> e.candidate, value |-> e.value, backends |-> e.backends]
       /\ e.candidate \in Alternatives /\ e.value \in Values
       /\ e.candidate \notin untried /\ (pc = "jobs" => e.candidate \notin DOMAIN job)
  /\ \A d, e \in ranked : d.candidate = e.candidate => d = e

\* The count of an alternative says how often it has passed the second lock.
CountsSound ==
  /\ realized \in [Alternatives -> [count : Nat, backends : SUBSET Backends]]
  /\ \A c \in untried : realized[c].count = 0
  /\ \A e \in ranked : realized[e.candidate].backends = identity /\ realized[e.candidate].count > 0
  /\ pc \in {"start", "batch", "jobs", "verify"} => \A e \in ranked : realized[e.candidate].count = 1
  /\ pc = "jobs" => \A c \in DOMAIN job :
       /\ job[c].at \in {"waiting", "calling", "calculated", "identified"} => realized[c].count = 0
       /\ job[c].at \in {"measured", "given"} => realized[c].count = 1 /\ realized[c].backends = identity
  /\ pc = "checking" => \A c \in DOMAIN job :
       /\ job[c].at \notin {"waiting", "skipped"}
       /\ job[c].at \in {"calling", "calculated", "identified"} => realized[c].count = 1
       /\ job[c].at \in {"measured", "given"} => realized[c].count = 2

\* A check that agrees is of the recorded backend and the second success.
CheckSound ==
  /\ pc \in {"start", "batch", "jobs", "verify", "checking"} => checked = {}
  /\ \A v \in checked : v.consistent =>
       v.candidate \in Alternatives /\ v.backends = identity /\ realized[v.candidate].count = 2

Composed ==
  [backends |-> identity, realized |-> realized, ranked |-> ranked, checked |-> checked,
   best |-> Best,
   export |-> IF call.export = "none" THEN "not_requested"
              ELSE IF Best # {} THEN "written" ELSE "not_written"]

\* What is published is the report of the final state, after the best document.
FilesSound ==
  /\ files = [p \in Paths |-> files[p]]
  /\ pc \in {"export", "report", "done"} => report = {Composed}
  /\ printed # {} => pc = "done" /\ printed = {Composed}
  /\ \A p \in Paths :
       /\ files[p].kind = "report" => pc = "done" /\ files[p].report = Composed
       /\ files[p].kind = "document" =>
            /\ p = call.export /\ pc \in {"report", "done", "failed"}
            /\ \E c \in Best : files[p] = Document(c)
  /\ pc \in {"report", "done"} /\ call.export # "none" =>
       \A c \in Best : files[call.export] = Document(c)

ReportInv == OneBackend /\ JobsSound /\ RankedSound /\ CountsSound /\ CheckSound /\ FilesSound

-----------------------------------------------------------------------------
LEMMA InitReport == ASSUME Init PROVE ReportInv
<1>. USE CatalogAssumption DEF Init
<1>1. OneBackend /\ JobsSound /\ RankedSound
  BY DEF OneBackend, JobsSound, RankedSound
<1>2. CountsSound /\ CheckSound
  BY DEF CountsSound, CheckSound
<1>3. FilesSound
  BY DEF FilesSound, Absent
<1>. QED  BY <1>1, <1>2, <1>3 DEF ReportInv

\* The finalist is the only one of its kind: the ranking is total.
LEMMA OneFinalist ==
  ASSUME RankedSound, NEW e \in Finalist, NEW f \in Finalist
  PROVE  e = f
<1>1. e \in ranked /\ f \in ranked /\ e.value \in Feasible /\ f.value \in Feasible
  BY DEF Finalist
<1>2. e.value \in Nat /\ f.value \in Nat /\ e.candidate \in Nat /\ f.candidate \in Nat
  BY <1>1, CatalogAssumption DEF RankedSound
<1>3. CASE e # f
  <2>1. Better(e, f) /\ Better(f, e)
    BY <1>1, <1>3 DEF Finalist
  <2>. QED  BY <2>1, <1>2 DEF Better
<1>. QED  BY <1>3

LEMMA OneBest ==
  ASSUME RankedSound, NEW c \in Best, NEW d \in Best
  PROVE  c = d
BY OneFinalist DEF Best

\* What the report is made of does not change where only files, jobs or the step do.
LEMMA Unmoved ==
  ASSUME UNCHANGED <<call, locked, ranked, checked>>
  PROVE  Finalist' = Finalist /\ Best' = Best /\ Composed' = Composed
<1>1. Finalist' = Finalist
  BY DEF Finalist, Better
<1>2. Best' = Best
  BY <1>1 DEF Best
<1>. QED  BY <1>1, <1>2 DEF Composed, locked

-----------------------------------------------------------------------------
(* One evaluation. *)

\* Nothing is checked or published while a job runs.
LEMMA WhileJobsRun ==
  ASSUME ReportInv, NEW c \in DOMAIN job, ~Ended,
         UNCHANGED <<pc, call, untried, ranked, checked, report, published>>
  PROVE  /\ pc \in {"jobs", "checking"}
         /\ Finalist' = Finalist
         /\ CheckSound' /\ FilesSound'
<1>1. pc \in {"jobs", "checking"}
  BY DEF ReportInv, JobsSound, Ended
<1>2. Finalist' = Finalist
  BY DEF Finalist, Better
<1>3. CheckSound'
  BY <1>1 DEF ReportInv, CheckSound
<1>4. FilesSound'
  BY <1>1 DEF ReportInv, FilesSound, published
<1>. QED  BY <1>1, <1>2, <1>3, <1>4

\* A job that moves stays a record of a job.
LEMMA MoveIsTyped ==
  ASSUME JobsSound, NEW c \in DOMAIN job, NEW place \in JobPlaces, Move(c, place)
  PROVE  job' \in [DOMAIN job -> [at : JobPlaces, value : Values \cup {0}, backends : SUBSET Backends]]
<1>1. job[c] \in [at : JobPlaces, value : Values \cup {0}, backends : SUBSET Backends]
  BY DEF JobsSound
<1>2. [job[c] EXCEPT !.at = place] \in [at : JobPlaces, value : Values \cup {0}, backends : SUBSET Backends]
  BY <1>1
<1>3. job' = [job EXCEPT ![c] = [job[c] EXCEPT !.at = place]]
  BY DEF Move
<1>. QED  BY <1>2, <1>3 DEF JobsSound

\* A job that only moves keeps what it has.
LEMMA MoveKeeps ==
  ASSUME ReportInv, NEW c \in DOMAIN job, ~Ended, NEW place \in JobPlaces, Move(c, place),
         \/ job[c].at \in {"waiting", "calling"} /\ place \in {"skipped", "calling", "error"}
         \/ job[c].at = "calculated" /\ place = "error"
         \/ job[c].at = "measured" /\ place = "given"
         \/ place = "useless",
         pc = "checking" => place # "skipped",
         UNCHANGED <<pc, call, untried, ranked, checked, locked, report, published>>
  PROVE  ReportInv'
<1>. USE DEF ReportInv, Move, locked
<1>1. /\ DOMAIN job' = DOMAIN job
      /\ \A d \in DOMAIN job : d # c => job'[d] = job[d]
      /\ job'[c].at = place /\ job'[c].value = job[c].value /\ job'[c].backends = job[c].backends
  BY DEF JobsSound
<1>2. OneBackend'
  BY <1>1 DEF OneBackend, Through, JobPlaces
<1>3. JobsSound'
  <2>1. job' \in [DOMAIN job -> [at : JobPlaces, value : Values \cup {0}, backends : SUBSET Backends]]
    BY MoveIsTyped
  <2>. QED  BY <1>1, <2>1, WhileJobsRun DEF JobsSound
<1>4. RankedSound'
  BY <1>1 DEF RankedSound
<1>5. CountsSound'
  BY <1>1, WhileJobsRun DEF CountsSound, JobPlaces
<1>. QED  BY <1>2, <1>3, <1>4, <1>5, WhileJobsRun

LEMMA EvaluationInv ==
  ASSUME ReportInv, NEW c \in DOMAIN job, ~Ended, Evaluation(c)
  PROVE  ReportInv'
<1>1. CASE Enter(c)
  <2>1. pc = "jobs"
    BY <1>1, WhileJobsRun DEF Enter, At, ReportInv, CountsSound, locked
  <2>. QED  BY <1>1, <2>1, MoveKeeps DEF Enter, At, JobPlaces, search
<1>2. CASE Fail(c)
  BY <1>2, MoveKeeps DEF Fail, At, JobPlaces
<1>3. CASE Leave(c)
  BY <1>3, MoveKeeps DEF Leave, At, JobPlaces
<1>4. CASE \E value \in Values, backend \in Backends : Calculate(c, value, backend)
  <2>1. PICK value \in Values, backend \in Backends : Calculate(c, value, backend)
    BY <1>4
  <2>2. /\ DOMAIN job' = DOMAIN job
        /\ \A d \in DOMAIN job : d # c => job'[d] = job[d]
        /\ job'[c] = [at |-> "calculated", value |-> value, backends |-> {backend}]
        /\ job[c].at = "calling"
    BY <2>1 DEF Calculate, At, ReportInv, JobsSound
  <2>3. UNCHANGED <<pc, call, untried, ranked, checked, locked, report, published>>
    BY <2>1 DEF Calculate
  <2>4. OneBackend'
    BY <2>2, <2>3 DEF ReportInv, OneBackend, Through, locked
  <2>5. JobsSound'
    <3>1. job' \in [DOMAIN job -> [at : JobPlaces, value : Values \cup {0}, backends : SUBSET Backends]]
      BY <2>1 DEF ReportInv, JobsSound, Calculate, JobPlaces
    <3>. QED  BY <2>2, <2>3, <3>1, WhileJobsRun DEF ReportInv, JobsSound
  <2>6. RankedSound'
    BY <2>2, <2>3 DEF ReportInv, RankedSound
  <2>7. CountsSound'
    BY <2>2, <2>3, WhileJobsRun DEF ReportInv, CountsSound, locked
  <2>. QED  BY <2>3, <2>4, <2>5, <2>6, <2>7, WhileJobsRun DEF ReportInv
<1>5. CASE Identify(c)
  <2>1. UNCHANGED <<pc, call, untried, ranked, checked, realized, report, published>>
    BY <1>5 DEF Identify
  <2>2. CASE identity' = identity /\ Move(c, "error")
    BY <1>5, <2>1, <2>2, MoveKeeps DEF Identify, At, JobPlaces, locked
  <2>3. CASE identity \in {{}, job[c].backends} /\ identity' = job[c].backends /\ Move(c, "identified")
    <3>1. /\ DOMAIN job' = DOMAIN job
          /\ \A d \in DOMAIN job : d # c => job'[d] = job[d]
          /\ job'[c].at = "identified" /\ job'[c].value = job[c].value
          /\ job'[c].backends = job[c].backends /\ job[c].at = "calculated"
      BY <1>5, <2>3 DEF Identify, At, Move, ReportInv, JobsSound
    <3>2. /\ job[c].value \in Values
          /\ \E b \in Backends : identity' = {b}
          /\ identity # {} => identity' = identity
      BY <2>3, <3>1 DEF ReportInv, OneBackend
    <3>3. OneBackend'
      BY <2>1, <2>3, <3>1, <3>2 DEF ReportInv, OneBackend, Through
    <3>4. JobsSound'
      <4>1. job' \in [DOMAIN job -> [at : JobPlaces, value : Values \cup {0}, backends : SUBSET Backends]]
        BY <2>3, MoveIsTyped DEF ReportInv, JobPlaces
      <4>. QED  BY <2>1, <3>1, <4>1, WhileJobsRun DEF ReportInv, JobsSound
    <3>5. RankedSound'
      BY <2>1, <3>1 DEF ReportInv, RankedSound
    <3>6. \A d \in DOMAIN job : job[d].at \in Through => identity' = identity
      BY <3>2 DEF ReportInv, OneBackend
    <3>7. \A e \in ranked : identity' = identity
      BY <3>2 DEF ReportInv, OneBackend
    <3>8. CountsSound'
      BY <2>1, <3>1, <3>6, <3>7, WhileJobsRun DEF ReportInv, CountsSound, Through
    <3>. QED  BY <2>1, <3>3, <3>4, <3>5, <3>8, WhileJobsRun DEF ReportInv
  <2>. QED  BY <1>5, <2>2, <2>3 DEF Identify
<1>6. CASE Observe(c)
  <2>1. UNCHANGED <<pc, call, untried, ranked, checked, identity, report, published>>
    BY <1>6 DEF Observe
  <2>2. /\ DOMAIN job' = DOMAIN job
        /\ \A d \in DOMAIN job : d # c => job'[d] = job[d]
        /\ job'[c].at = "measured" /\ job'[c].value = job[c].value
        /\ job'[c].backends = job[c].backends /\ job[c].at = "identified"
    BY <1>6 DEF Observe, At, Move, ReportInv, JobsSound
  <2>3. c \in Alternatives /\ job[c].backends = identity
    BY <2>2 DEF ReportInv, JobsSound, OneBackend, Through
  <2>4. /\ realized' \in [Alternatives -> [count : Nat, backends : SUBSET Backends]]
        /\ \A d \in Alternatives : d # c => realized'[d] = realized[d]
        /\ realized'[c].count = realized[c].count + 1 /\ realized'[c].backends = identity
    <3>1. realized' = [realized EXCEPT ![c] = [count |-> realized[c].count + 1, backends |-> identity]]
      BY <1>6, <2>3 DEF Observe
    <3>2. identity \subseteq Backends /\ realized \in [Alternatives -> [count : Nat, backends : SUBSET Backends]]
      BY DEF ReportInv, OneBackend, CountsSound
    <3>3. realized[c].count + 1 \in Nat
      <4>1. realized[c] \in [count : Nat, backends : SUBSET Backends]
        BY <2>3, <3>2
      <4>2. realized[c].count \in Nat
        BY <4>1
      <4>. QED  BY <4>2
    <3>4. [count |-> realized[c].count + 1, backends |-> identity] \in [count : Nat, backends : SUBSET Backends]
      BY <3>2, <3>3
    <3>5. realized' \in [Alternatives -> [count : Nat, backends : SUBSET Backends]]
      BY <3>1, <3>2, <3>4
    <3>6. realized'[c] = [count |-> realized[c].count + 1, backends |-> identity]
      BY <2>3, <3>1, <3>2
    <3>7. \A d \in Alternatives : d # c => realized'[d] = realized[d]
      BY <3>1, <3>2
    <3>8. realized'[c].count = realized[c].count + 1 /\ realized'[c].backends = identity
      BY <3>6
    <3>. QED  BY <3>5, <3>7, <3>8
  <2>5. OneBackend'
    BY <2>1, <2>2 DEF ReportInv, OneBackend, Through
  <2>6. JobsSound'
    <3>1. job' \in [DOMAIN job -> [at : JobPlaces, value : Values \cup {0}, backends : SUBSET Backends]]
      BY <1>6, MoveIsTyped DEF ReportInv, Observe, JobPlaces
    <3>. QED  BY <2>1, <2>2, <3>1, WhileJobsRun DEF ReportInv, JobsSound
  <2>7. RankedSound'
    BY <2>1, <2>2 DEF ReportInv, RankedSound
  <2>8. CountsSound'
    <3>1. CASE pc = "jobs"
      <4>1. c \notin untried /\ \A e \in ranked : e.candidate # c /\ e.candidate \in Alternatives
        BY <3>1 DEF ReportInv, JobsSound, RankedSound
      <4>2. untried \subseteq Alternatives /\ DOMAIN job \subseteq Alternatives /\ realized[c].count = 0
        BY <2>2, <3>1 DEF ReportInv, JobsSound, CountsSound
      <4>3. \A d \in untried : realized'[d].count = 0
        BY <2>4, <4>1, <4>2 DEF ReportInv, CountsSound
      <4>4. \A e \in ranked : realized'[e.candidate] = realized[e.candidate]
        BY <2>4, <4>1
      <4>5. \A d \in DOMAIN job : d # c => realized'[d] = realized[d]
        BY <2>4, <4>2
      <4>6. realized'[c].count = 1
        BY <2>4, <4>2
      <4>. QED  BY <2>1, <2>2, <2>4, <3>1, <4>3, <4>4, <4>5, <4>6 DEF ReportInv, CountsSound
    <3>2. CASE pc = "checking"
      <4>1. PICK f \in Finalist : DOMAIN job = {f.candidate}
        BY <3>2 DEF ReportInv, JobsSound
      <4>2. f \in ranked /\ c = f.candidate
        BY <4>1 DEF Finalist
      <4>3. c \notin untried /\ untried \subseteq Alternatives /\ \A e \in ranked : e.candidate \in Alternatives
        BY <4>2 DEF ReportInv, JobsSound, RankedSound
      <4>4. realized[c].count = 1
        BY <2>2, <3>2 DEF ReportInv, CountsSound
      <4>5. \A d \in untried : realized'[d].count = 0
        BY <2>4, <4>3 DEF ReportInv, CountsSound
      <4>6. \A e \in ranked : /\ realized'[e.candidate].backends = identity
                            /\ realized'[e.candidate].count > 0
        <5>1. ASSUME NEW e \in ranked
              PROVE  realized'[e.candidate].backends = identity /\ realized'[e.candidate].count > 0
          <6>1. CASE e.candidate = c
            BY <2>4, <4>4, <6>1
          <6>2. CASE e.candidate # c
            BY <2>4, <4>3, <6>2 DEF ReportInv, CountsSound
          <6>. QED  BY <6>1, <6>2
        <5>. QED  BY <5>1
      <4>7. realized'[c].count = 2
        BY <2>4, <4>4
      <4>8. DOMAIN job = {c}
        BY <4>1, <4>2
      <4>. QED  BY <2>1, <2>2, <2>4, <3>2, <4>5, <4>6, <4>7, <4>8 DEF CountsSound
    <3>. QED  BY <3>1, <3>2, <2>1, WhileJobsRun
  <2>. QED  BY <2>1, <2>5, <2>6, <2>7, <2>8, WhileJobsRun DEF ReportInv
<1>. QED  BY <1>1, <1>2, <1>3, <1>4, <1>5, <1>6 DEF Evaluation

-----------------------------------------------------------------------------
(* The search. *)

\* Nothing is published before the report is composed.
LEMMA BeforeReport ==
  ASSUME ReportInv, pc \in {"start", "batch", "jobs", "verify", "checking", "compose"},
         UNCHANGED <<published, report>>,
         pc' \notin {"export", "report", "done"}
  PROVE  FilesSound'
BY DEF ReportInv, FilesSound, published

LEMMA StartInv == ASSUME ReportInv, Start PROVE ReportInv'
<1>. USE DEF ReportInv, Start, search, locked
<1>1. FilesSound'
  BY BeforeReport
<1>2. OneBackend' /\ RankedSound'
  BY DEF OneBackend, RankedSound
<1>3. JobsSound' /\ CheckSound'
  BY DEF JobsSound, CheckSound
<1>4. CountsSound'
  BY DEF CountsSound
<1>. QED  BY <1>1, <1>2, <1>3, <1>4

LEMMA BeginBatchInv == ASSUME ReportInv, BeginBatch PROVE ReportInv'
<1>1. PICK chunk \in SUBSET untried :
        untried' = untried \ chunk /\ job' = [c \in chunk |-> Waiting]
  BY DEF BeginBatch
<1>2. /\ pc = "batch" /\ pc' = "jobs"
      /\ UNCHANGED <<call, spent, ranked, checked, locked, report, published, expired>>
  BY DEF BeginBatch
<1>3. DOMAIN job' = chunk /\ \A c \in chunk : job'[c] = Waiting
  BY <1>1
<1>. USE DEF ReportInv, locked, Waiting
<1>4. OneBackend'
  BY <1>2, <1>3 DEF OneBackend, Through
<1>5. JobsSound'
  BY <1>1, <1>2, <1>3 DEF JobsSound, JobPlaces
<1>6. RankedSound'
  BY <1>1, <1>2, <1>3 DEF RankedSound
<1>7. CountsSound'
  BY <1>1, <1>2, <1>3 DEF CountsSound
<1>8. CheckSound'
  BY <1>2 DEF CheckSound
<1>9. FilesSound'
  BY <1>2, BeforeReport
<1>. QED  BY <1>4, <1>5, <1>6, <1>7, <1>8, <1>9

LEMMA EndBatchInv == ASSUME ReportInv, EndBatch PROVE ReportInv'
<1>1. /\ pc = "jobs" /\ pc' = "batch" /\ job' = <<>>
      /\ UNCHANGED <<call, untried, checked, locked, report, published>>
  BY DEF EndBatch
<1>2. DOMAIN job' = {}
  BY <1>1
<1>3. ASSUME NEW e \in ranked', e \notin ranked
      PROVE  /\ e.candidate \in DOMAIN job /\ job[e.candidate].at = "given"
             /\ e = [candidate |-> e.candidate, value |-> job[e.candidate].value,
                     backends |-> job[e.candidate].backends]
  BY <1>3 DEF EndBatch, At
<1>4. \A c \in DOMAIN job : job[c].at = "given" =>
        /\ identity # {} /\ job[c].backends = identity /\ job[c].value \in Values
        /\ c \in Alternatives /\ c \notin untried
        /\ realized[c].count = 1 /\ realized[c].backends = identity
  BY <1>1 DEF ReportInv, OneBackend, Through, JobsSound, CountsSound
<1>. USE DEF ReportInv, locked
<1>5. OneBackend'
  BY <1>1, <1>2, <1>3, <1>4 DEF OneBackend
<1>6. JobsSound'
  BY <1>1, <1>2 DEF JobsSound
<1>7. RankedSound'
  <2>1. ASSUME NEW e \in ranked'
        PROVE  /\ e = [candidate |-> e.candidate, value |-> e.value, backends |-> e.backends]
               /\ e.candidate \in Alternatives /\ e.value \in Values
               /\ e.candidate \notin untried
    BY <1>3, <1>4 DEF RankedSound
  <2>2. ASSUME NEW d \in ranked', NEW e \in ranked', d.candidate = e.candidate PROVE d = e
    <3>1. CASE d \in ranked /\ e \in ranked
      BY <2>2, <3>1 DEF RankedSound
    <3>2. CASE d \notin ranked /\ e \notin ranked
      BY <2>2, <3>2, <1>3
    <3>3. CASE d \in ranked /\ e \notin ranked
      BY <1>1, <1>3, <2>2, <3>3 DEF RankedSound
    <3>4. CASE d \notin ranked /\ e \in ranked
      BY <1>1, <1>3, <2>2, <3>4 DEF RankedSound
    <3>. QED  BY <3>1, <3>2, <3>3, <3>4
  <2>. QED  BY <1>1, <2>1, <2>2 DEF RankedSound
<1>8. CountsSound'
  BY <1>1, <1>3, <1>4 DEF CountsSound
<1>9. CheckSound' /\ FilesSound'
  BY <1>1, BeforeReport DEF CheckSound
<1>. QED  BY <1>5, <1>6, <1>7, <1>8, <1>9

\* No evaluation is begun: the rounds are over, or there is nobody to check.
LEMMA EndRoundsInv == ASSUME ReportInv, EndRounds \/ NoCheck PROVE ReportInv'
<1>1. /\ pc \in {"batch", "verify"} /\ pc' \in {"verify", "compose"}
      /\ pc = "batch" => pc' = "verify"
      /\ UNCHANGED <<call, search, locked, report, published>>
  BY DEF EndRounds, NoCheck
<1>. USE DEF ReportInv, search, locked
<1>2. FilesSound'
  BY <1>1, BeforeReport
<1>3. OneBackend' /\ RankedSound'
  BY <1>1 DEF OneBackend, RankedSound
<1>4. JobsSound' /\ CheckSound'
  BY <1>1 DEF JobsSound, CheckSound
<1>5. CountsSound'
  BY <1>1 DEF CountsSound
<1>. QED  BY <1>2, <1>3, <1>4, <1>5

LEMMA BeginCheckInv == ASSUME ReportInv, BeginCheck PROVE ReportInv'
<1>1. PICK e \in Finalist : job' = [c \in {e.candidate} |-> [Waiting EXCEPT !.at = "calling"]]
  BY DEF BeginCheck
<1>2. /\ pc = "verify" /\ pc' = "checking"
      /\ UNCHANGED <<call, untried, ranked, checked, locked, report, published>>
  BY DEF BeginCheck
<1>3. /\ DOMAIN job' = {e.candidate}
      /\ job'[e.candidate] = [at |-> "calling", value |-> 0, backends |-> {}]
  BY <1>1 DEF Waiting
<1>4. e \in ranked /\ Finalist' = Finalist
  BY <1>2, Unmoved DEF Finalist, Better
<1>. USE DEF ReportInv, locked
<1>5. OneBackend'
  BY <1>2, <1>3 DEF OneBackend, Through
<1>6. JobsSound'
  <2>1. e.candidate \in Alternatives
    BY <1>4 DEF RankedSound
  <2>2. job' = [c \in {e.candidate} |-> [at |-> "calling", value |-> 0, backends |-> {}]]
    BY <1>1 DEF Waiting
  <2>. QED  BY <1>2, <1>3, <1>4, <2>1, <2>2 DEF JobsSound, JobPlaces
<1>7. RankedSound'
  BY <1>2 DEF RankedSound
<1>8. CountsSound'
  BY <1>2, <1>3, <1>4 DEF CountsSound
<1>9. CheckSound' /\ FilesSound'
  BY <1>2, BeforeReport DEF CheckSound
<1>. QED  BY <1>5, <1>6, <1>7, <1>8, <1>9

LEMMA EndCheckInv == ASSUME ReportInv, EndCheck PROVE ReportInv'
<1>1. /\ pc = "checking" /\ pc' = "compose" /\ job' = <<>>
      /\ UNCHANGED <<call, untried, ranked, locked, report, published>>
  BY DEF EndCheck
<1>2. DOMAIN job' = {}
  BY <1>1
<1>3. PICK e \in Finalist :
        checked' = {[candidate |-> e.candidate, backends |-> job[e.candidate].backends,
                     consistent |-> At(e.candidate, "given") /\ job[e.candidate].value = e.value]}
  BY DEF EndCheck
<1>4. e.candidate \in DOMAIN job /\ e.candidate \in Alternatives
  <2>1. PICK f \in Finalist : DOMAIN job = {f.candidate}
    BY <1>1 DEF ReportInv, JobsSound
  <2>2. e = f
    BY OneFinalist DEF ReportInv
  <2>. QED  BY <2>1, <2>2 DEF ReportInv, JobsSound
<1>5. job[e.candidate].at = "given" =>
        job[e.candidate].backends = identity /\ realized[e.candidate].count = 2
  BY <1>1, <1>4 DEF ReportInv, OneBackend, Through, CountsSound
<1>. USE DEF ReportInv, locked
<1>6. OneBackend' /\ JobsSound'
  BY <1>1, <1>2 DEF OneBackend, JobsSound
<1>7. RankedSound'
  BY <1>1 DEF RankedSound
<1>8. CountsSound'
  BY <1>1 DEF CountsSound
<1>9. CheckSound'
  <2>1. ASSUME NEW v \in checked', v.consistent
        PROVE  v.candidate = e.candidate /\ v.backends = identity /\ realized[e.candidate].count = 2
    <3>1. v = [candidate |-> e.candidate, backends |-> job[e.candidate].backends,
               consistent |-> At(e.candidate, "given") /\ job[e.candidate].value = e.value]
      BY <1>3
    <3>2. v.consistent = (At(e.candidate, "given") /\ job[e.candidate].value = e.value)
      BY <3>1
    <3>3. At(e.candidate, "given")
      BY <2>1, <3>2
    <3>. QED  BY <1>5, <3>1, <3>3 DEF At
  <2>. QED  BY <1>1, <1>4, <2>1 DEF CheckSound
<1>10. FilesSound'
  BY <1>1, BeforeReport
<1>. QED  BY <1>6, <1>7, <1>8, <1>9, <1>10

-----------------------------------------------------------------------------
(* The report. *)

\* The search and its evidence stay as they are from the report on.
LEMMA SearchKeeps ==
  ASSUME ReportInv, UNCHANGED <<call, search, locked>>,
         \/ pc' = pc
         \/ pc' = "failed"
         \/ pc = "compose" /\ pc' = "export"
         \/ pc = "export" /\ pc' = "report"
         \/ pc = "report" /\ pc' = "done"
  PROVE  OneBackend' /\ JobsSound' /\ RankedSound' /\ CountsSound' /\ CheckSound'
<1>. USE DEF ReportInv, search, locked
<1>1. OneBackend' /\ RankedSound'
  BY DEF OneBackend, RankedSound
<1>2. JobsSound'
  <2>1. Finalist' = Finalist
    BY Unmoved
  <2>. QED  BY <2>1 DEF JobsSound
<1>3. CountsSound'
  BY DEF CountsSound
<1>4. CheckSound'
  BY DEF CheckSound
<1>. QED  BY <1>1, <1>2, <1>3, <1>4

LEMMA ComposeInv == ASSUME ReportInv, Compose PROVE ReportInv'
<1>1. /\ pc = "compose" /\ pc' = "export" /\ report' = {Composed}
      /\ UNCHANGED <<call, search, locked, published>>
  BY DEF Compose, Composed
<1>2. Composed' = Composed
  BY <1>1, Unmoved DEF search
<1>3. FilesSound'
  BY <1>1, <1>2 DEF ReportInv, FilesSound, published
<1>. QED  BY <1>1, <1>3, SearchKeeps DEF ReportInv

LEMMA WriteExportInv == ASSUME ReportInv, WriteExport PROVE ReportInv'
<1>1. /\ pc = "export" /\ pc' = "report"
      /\ UNCHANGED <<call, search, locked, report, printed>>
  BY DEF WriteExport
<1>2. Composed' = Composed /\ Best' = Best
  BY <1>1, Unmoved DEF search
<1>3. FilesSound'
  <2>1. CASE files' = files /\ (call.export = "none" \/ Best = {})
    BY <1>1, <1>2, <2>1 DEF ReportInv, FilesSound
  <2>2. CASE call.export # "none" /\ \E c \in Best : files' = [files EXCEPT ![call.export] = Document(c)]
    <3>1. PICK c \in Best : files' = [files EXCEPT ![call.export] = Document(c)]
      BY <2>2
    <3>2. call.export \in Paths
      BY <2>2, CatalogAssumption DEF ReportInv, JobsSound
    <3>3. /\ files' = [p \in Paths |-> files'[p]] /\ files'[call.export] = Document(c)
          /\ \A p \in Paths : p # call.export => files'[p] = files[p]
      BY <3>1, <3>2 DEF ReportInv, FilesSound
    <3>4. \A d \in Best : d = c
      BY OneBest DEF ReportInv
    <3>5. \A p \in Paths : p # call.export => files[p].kind \notin {"report", "document"}
      BY <1>1 DEF ReportInv, FilesSound
    <3>6. Document(c).kind = "document"
      BY DEF Document
    <3>. QED  BY <1>1, <1>2, <3>2, <3>3, <3>4, <3>5, <3>6 DEF ReportInv, FilesSound
  <2>. QED  BY <2>1, <2>2 DEF WriteExport
<1>. QED  BY <1>1, <1>3, SearchKeeps DEF ReportInv

LEMMA KindsDiffer == \A c : Document(c) # Absent
<1>1. \A c : Document(c).kind = "document" /\ Absent.kind = "absent"
  BY DEF Document, Absent
<1>. QED  BY <1>1

LEMMA WriteReportInv == ASSUME ReportInv, WriteReport PROVE ReportInv'
<1>1. /\ pc = "report" /\ pc' = "done"
      /\ UNCHANGED <<call, search, locked, report>>
  BY DEF WriteReport
<1>2. Composed' = Composed /\ Best' = Best
  BY <1>1, Unmoved DEF search
<1>3. report = {Composed}
  BY <1>1 DEF ReportInv, FilesSound
<1>4. FilesSound'
  <2>1. CASE printed' = report /\ files' = files
    BY <1>1, <1>2, <1>3, <2>1 DEF ReportInv, FilesSound
  <2>2. CASE /\ call.output # "none" /\ files[call.output] = Absent
             /\ \E r \in report : files' = [files EXCEPT ![call.output] = Published(r)]
             /\ printed' = printed
    <3>1. call.output \in Paths /\ files' = [files EXCEPT ![call.output] = Published(Composed)]
      BY <1>3, <2>2, CatalogAssumption DEF ReportInv, JobsSound
    <3>2. /\ files' = [p \in Paths |-> files'[p]] /\ files'[call.output] = Published(Composed)
          /\ \A p \in Paths : p # call.output => files'[p] = files[p]
      BY <3>1 DEF ReportInv, FilesSound
    <3>3. Published(Composed).kind = "report" /\ Published(Composed).report = Composed
      BY DEF Published
    <3>4. call.export # "none" => \A c \in Best : call.export # call.output
      <4>1. \A c : Document(c) # Absent
        BY KindsDiffer
      <4>. QED  BY <1>1, <2>2, <4>1 DEF ReportInv, FilesSound
    <3>5. call.export # "none" => call.export \in Paths
      BY CatalogAssumption DEF ReportInv, JobsSound
    <3>. QED  BY <1>1, <1>2, <1>3, <2>2, <3>1, <3>2, <3>3, <3>4, <3>5 DEF ReportInv, FilesSound
  <2>. QED  BY <2>1, <2>2 DEF WriteReport
<1>. QED  BY <1>1, <1>4, SearchKeeps DEF ReportInv

LEMMA OutsideInv ==
  ASSUME ReportInv, Abort \/ DeadlinePasses \/ (\E p \in Paths : Intrude(p)) \/ UNCHANGED vars
  PROVE  ReportInv'
<1>1. UNCHANGED <<call, search, locked, report, printed>> /\ (pc' = pc \/ (~Ended /\ pc' = "failed"))
  <2>1. CASE Abort
    BY <2>1 DEF Abort, published, search, locked
  <2>2. CASE DeadlinePasses
    BY <2>2 DEF DeadlinePasses, published, search, locked
  <2>3. CASE \E p \in Paths : Intrude(p)
    BY <2>3 DEF Intrude
  <2>4. CASE UNCHANGED vars
    BY <2>4 DEF vars, published, search, locked
  <2>. QED  BY <2>1, <2>2, <2>3, <2>4
<1>2. Composed' = Composed /\ Best' = Best
  BY <1>1, Unmoved DEF search
<1>3. FilesSound'
  <2>1. CASE files' = files
    BY <1>1, <1>2, <2>1 DEF ReportInv, FilesSound, Ended
  <2>2. CASE \E p \in Paths : Intrude(p)
    <3>1. PICK p \in Paths : Intrude(p)
      BY <2>2
    <3>2. /\ files[p] = Absent /\ files' = [files EXCEPT ![p] = [kind |-> "other"]] /\ pc' = pc
      BY <3>1 DEF Intrude
    <3>3. /\ files' = [q \in Paths |-> files'[q]] /\ files'[p] = [kind |-> "other"]
          /\ \A q \in Paths : q # p => files'[q] = files[q]
      BY <3>2 DEF ReportInv, FilesSound
    <3>4. pc \in {"report", "done"} /\ call.export # "none" => \A c \in Best : call.export # p
      <4>1. \A c : Document(c) # Absent
        BY KindsDiffer
      <4>. QED  BY <3>2, <4>1 DEF ReportInv, FilesSound
    <3>5. \A c \in Best : pc \in {"report", "done"} /\ call.export # "none" => call.export \in Paths
      BY CatalogAssumption DEF ReportInv, JobsSound
    <3>. QED  BY <1>1, <1>2, <3>2, <3>3, <3>4, <3>5 DEF ReportInv, FilesSound
  <2>. QED  BY <2>1, <2>2 DEF Abort, DeadlinePasses, vars, published
<1>. QED  BY <1>1, <1>3, SearchKeeps DEF ReportInv

LEMMA NextReport ==
  ASSUME ReportInv, [Next]_vars
  PROVE  ReportInv'
BY StartInv, BeginBatchInv, EndBatchInv, EndRoundsInv, BeginCheckInv, EndCheckInv,
   EvaluationInv, ComposeInv, WriteExportInv, WriteReportInv, OutsideInv DEF Next

LEMMA ReportInvMeans == ASSUME ReportInv PROVE ReportIsTrue
<1>. USE DEF ReportInv
<1>1. ASSUME NEW r \in Reports PROVE r = Composed /\ pc = "done"
  BY DEF Reports, FilesSound
<1>2. Cardinality(identity) <= 1
  <2>1. CASE identity = {}
    BY <2>1, FS_EmptySet
  <2>2. CASE identity # {}
    <3>1. PICK b \in identity : TRUE
      BY <2>2
    <3>2. identity = {b}
      BY <3>1 DEF OneBackend
    <3>3. Cardinality(identity) = 1
      BY <3>2, FS_Singleton
    <3>. QED  BY <3>3
  <2>. QED  BY <2>1, <2>2
<1>3. ASSUME NEW e \in ranked
      PROVE  e.backends = identity /\ realized[e.candidate].backends = identity /\ realized[e.candidate].count > 0
  BY DEF OneBackend, CountsSound
<1>4. ASSUME NEW c \in Best
      PROVE  /\ realized[c].count = 2
             /\ \E v \in checked : v.candidate = c /\ v.consistent /\ v.backends = identity
  BY DEF Best, CheckSound
<1>5. ASSUME pc = "done", call.export # "none", Best # {}
      PROVE  \E c \in Best, p \in Paths : files[p] = Document(c)
  <2>1. call.export \in Paths
    BY <1>5, CatalogAssumption DEF JobsSound
  <2>. QED  BY <1>5, <2>1 DEF FilesSound
<1>6. ASSUME NEW p \in Paths, files[p].kind = "document"
      PROVE  call.export # "none" /\ Best # {}
  BY <1>6, CatalogAssumption DEF FilesSound
<1>7. ASSUME NEW p \in Paths, files[p].kind = "document"
      PROVE  \E e \in ranked, v \in checked :
               /\ e.candidate = files[p].of /\ v.candidate = files[p].of
               /\ e.value \in Feasible /\ v.consistent /\ e.backends = v.backends
               /\ \A d \in ranked \ {e} : d.value \in Feasible => Better(e, d)
  <2>1. files[p].of \in Best
    BY <1>7 DEF FilesSound, Document
  <2>2. PICK e \in Finalist : e.candidate = files[p].of
    BY <2>1 DEF Best
  <2>3. PICK v \in checked : v.candidate = files[p].of /\ v.consistent /\ v.backends = identity
    BY <2>1, <1>4
  <2>4. e \in ranked /\ e.backends = identity
    BY <2>2, <1>3 DEF Finalist
  <2>. QED  BY <2>2, <2>3, <2>4 DEF Finalist
<1>8. ASSUME NEW r \in Reports
      PROVE  /\ Cardinality(r.backends) <= 1
             /\ \A e \in r.ranked :
                  /\ e.backends = r.backends /\ r.realized[e.candidate].backends = r.backends
                  /\ r.realized[e.candidate].count > 0
             /\ \A c \in r.best :
                  /\ r.realized[c].count = 2
                  /\ \E v \in r.checked : v.candidate = c /\ v.consistent /\ v.backends = r.backends
             /\ r.export = "written" => \E c \in r.best, p \in Paths : files[p] = Document(c)
             /\ r.export # "written" => \A p \in Paths : files[p].kind # "document"
  <2>1. r = Composed /\ pc = "done"
    BY <1>1
  <2>2. /\ r.backends = identity /\ r.ranked = ranked /\ r.realized = realized /\ r.best = Best
        /\ r.checked = checked
        /\ r.export = "written" <=> call.export # "none" /\ Best # {}
    BY <2>1 DEF Composed
  <2>. QED  BY <2>1, <2>2, <1>2, <1>3, <1>4, <1>5, <1>6
<1>. QED  BY <1>7, <1>8 DEF ReportIsTrue

\* For every catalog, budget and number of jobs: what the report says is so when it
\* can be read, and a document is written only of a finalist that was checked.
THEOREM CatalogReportIsTrue == Spec => []ReportIsTrue
<1>1. Init => ReportInv
  BY InitReport
<1>2. ReportInv /\ [Next]_vars => ReportInv'
  BY NextReport
<1>3. ReportInv => ReportIsTrue
  BY ReportInvMeans
<1>. QED  BY <1>1, <1>2, <1>3, PTL DEF Spec

-----------------------------------------------------------------------------
(* DiscreteSpace: the product that size takes is the number of points.      *)

\* The sizes of a space are positive, there are some, and a fixed choice is a choice.
LEMMA SpaceTyped ==
  ASSUME space \in Spaces
  PROVE  /\ space.sizes \in Seq(Nat \ {0}) /\ Len(space.sizes) \in Nat \ {0}
         /\ Axes = 1..Len(space.sizes)
         /\ \A axis \in Axes : space.sizes[axis] \in Nat \ {0}
         /\ DOMAIN space.locks \subseteq Axes
         /\ \A axis \in DOMAIN space.locks :
              space.locks[axis] \in Nat /\ space.locks[axis] < space.sizes[axis]
         /\ IsFiniteSet(Axes) /\ IsFiniteSet(Unlocked) /\ IsFiniteSet(Mutable)
         /\ Unlocked \subseteq Axes /\ Mutable \subseteq Unlocked
<1>1. /\ space.sizes \in Seq(Nat \ {0}) /\ space.sizes # <<>>
      /\ DOMAIN space.locks \subseteq DOMAIN space.sizes
      /\ \A axis \in DOMAIN space.locks : space.locks[axis] \in 0..space.sizes[axis] - 1
  BY SpaceAssumption
<1>2. Len(space.sizes) \in Nat \ {0} /\ Axes = 1..Len(space.sizes) BY <1>1 DEF Axes
<1>3. \A axis \in Axes : space.sizes[axis] \in Nat \ {0} BY <1>1, <1>2
<1>4. DOMAIN space.locks \subseteq Axes BY <1>1 DEF Axes
<1>5. \A axis \in DOMAIN space.locks : space.locks[axis] \in Nat /\ space.locks[axis] < space.sizes[axis]
  BY <1>1, <1>3, <1>4
<1>6. Unlocked \subseteq Axes /\ Mutable \subseteq Unlocked BY DEF Unlocked, Mutable
<1>7. IsFiniteSet(Axes) BY <1>2, FS_Interval
<1>8. IsFiniteSet(Unlocked) /\ IsFiniteSet(Mutable) BY <1>6, <1>7, FS_Subset
<1> QED BY <1>1, <1>2, <1>3, <1>4, <1>5, <1>6, <1>7, <1>8

NumbersLess == {pair \in Nat \X Nat : pair[1] < pair[2]}

\* A set of numbers that is not empty has a least one.
LEMMA LeastNumber ==
  ASSUME NEW S \in SUBSET Nat, S # {}
  PROVE  \E least \in S : \A n \in S : least <= n
<1>1. IsWellFoundedOn(NumbersLess, Nat)
  BY NatLessThanWellFounded, Zenon DEF NumbersLess, OpToRel
<1>2. PICK least \in S : \A n \in S : ~(<<n, least>> \in NumbersLess) BY <1>1, WFMin
<1>3. ASSUME NEW n \in S PROVE least <= n
  <2>1. n \in Nat /\ least \in Nat OBVIOUS
  <2>2. n < least => <<n, least>> \in NumbersLess BY <2>1 DEF NumbersLess
  <2> QED BY <1>2, <2>1, <2>2
<1> QED BY <1>3

\* A set of numbers that is bounded and not empty has a greatest one, which is its Max.
LEMMA MaxIsGreatest ==
  ASSUME NEW S \in SUBSET Nat, S # {}, NEW bound \in Nat, \A n \in S : n <= bound
  PROVE  Max(S) \in S /\ \A n \in S : n <= Max(S)
<1> DEFINE Bounds == {b \in Nat : \A n \in S : n <= b}
<1>1. bound \in Bounds OBVIOUS
<1>2. PICK least \in Bounds : \A b \in Bounds : least <= b
  <2>1. Bounds \in SUBSET Nat /\ Bounds # {} BY <1>1
  <2> HIDE DEF Bounds
  <2> QED BY <2>1, LeastNumber
<1>3. least \in S
  <2>1. SUFFICES ASSUME least \notin S PROVE FALSE OBVIOUS
  <2>2. PICK n \in S : TRUE OBVIOUS
  <2>3. least \in Nat /\ least - 1 \in Nat BY <2>1, <2>2
  <2>4. ASSUME NEW x \in S PROVE x <= least - 1 BY <2>1, <2>3
  <2>5. least - 1 \in Bounds BY <2>3, <2>4
  <2> QED BY <1>2, <2>3, <2>5
<1>4. \E x \in S : \A n \in S : x >= n BY <1>3
<1> QED BY <1>4 DEF Max

\* An induction that takes away, again and again, the element the fold chooses.
LEMMA TakingAway ==
  ASSUME NEW U, IsFiniteSet(U), NEW S, {} \in S,
         \A T \in SUBSET U : T # {} /\ T \ {CHOOSE x \in T : TRUE} \in S => T \in S
  PROVE  SUBSET U \subseteq S
<1> DEFINE Missing == (SUBSET U) \ S
<1>1. SUFFICES ASSUME Missing # {} PROVE FALSE OBVIOUS
<1>2. Missing \subseteq FiniteSubsetsOf(U) BY FS_FiniteSubsetsOfFinite
<1>3. PICK T \in Missing : \A V \in Missing : ~(<<V, T>> \in StrictSubsetOrdering(U))
  <2>1. IsWellFoundedOn(StrictSubsetOrdering(U), FiniteSubsetsOf(U))
    BY FS_StrictSubsetOrderingWellFounded
  <2> HIDE DEF Missing
  <2> QED BY <1>1, <1>2, <2>1, WFMin
<1>4. T \in SUBSET U /\ T # {} OBVIOUS
<1> DEFINE V == T \ {CHOOSE x \in T : TRUE}
<1>5. V \subseteq T /\ V # T BY <1>4
<1>6. <<V, T>> \in StrictSubsetOrdering(U) BY <1>4, <1>5 DEF StrictSubsetOrdering
<1>7. V \in S BY <1>3, <1>4, <1>5, <1>6
<1> QED BY <1>4, <1>7

\* A finite set of numbers is bounded, so it has a greatest one too.
LEMMA FiniteHasMax ==
  ASSUME NEW S \in SUBSET Nat, IsFiniteSet(S), S # {}
  PROVE  Max(S) \in S /\ \A n \in S : n <= Max(S)
<1> DEFINE Bounded == {T \in SUBSET S : \E bound \in Nat : \A n \in T : n <= bound}
<1>1. {} \in Bounded OBVIOUS
<1>2. ASSUME NEW T \in SUBSET S, T # {}, T \ {CHOOSE x \in T : TRUE} \in Bounded PROVE T \in Bounded
  <2>1. PICK x \in T : x = CHOOSE y \in T : TRUE BY <1>2
  <2>2. PICK bound \in Nat : \A n \in T \ {x} : n <= bound BY <1>2, <2>1
  <2>3. x \in Nat /\ bound + x \in Nat /\ x <= bound + x /\ bound <= bound + x OBVIOUS
  <2>4. ASSUME NEW n \in T PROVE n <= bound + x
    <3>1. n \in Nat /\ (n = x \/ n <= bound) BY <2>2
    <3> QED BY <2>3, <3>1
  <2> QED BY <2>3, <2>4
<1>3. SUBSET S \subseteq Bounded
  <2> HIDE DEF Bounded
  <2> QED BY <1>1, <1>2, TakingAway
<1>4. PICK bound \in Nat : \A n \in S : n <= bound BY <1>3
<1> QED BY <1>4, MaxIsGreatest

\* The choices on some of the axes.
Box(T) == {b \in [T -> Nat] : \A axis \in T : b[axis] < space.sizes[axis]}

\* A choice on one axis and a choice on the others make a choice.
LEMMA BoxGrows ==
  ASSUME space \in Spaces, NEW T \in SUBSET Axes, NEW x \in T, IsFiniteSet(Box(T \ {x}))
  PROVE  /\ IsFiniteSet(Box(T))
         /\ Cardinality(Box(T)) = space.sizes[x] * Cardinality(Box(T \ {x}))
<1> DEFINE V == T \ {x}
           Pairs == (0..space.sizes[x] - 1) \X Box(V)
           Join(p) == [axis \in T |-> IF axis = x THEN p[1] ELSE p[2][axis]]
           f == [p \in Pairs |-> Join(p)]
<1>1. space.sizes[x] \in Nat \ {0} BY SpaceTyped
<1>2. /\ IsFiniteSet(Pairs)
      /\ Cardinality(Pairs) = space.sizes[x] * Cardinality(Box(V))
  <2>1. /\ IsFiniteSet(0..space.sizes[x] - 1)
        /\ Cardinality(0..space.sizes[x] - 1) = space.sizes[x]
    <3>1. 0 \in Int /\ space.sizes[x] - 1 \in Int /\ ~(0 > space.sizes[x] - 1) BY <1>1
    <3>2. (space.sizes[x] - 1) - 0 + 1 = space.sizes[x] BY <1>1
    <3> QED BY <3>1, <3>2, FS_Interval
  <2> QED BY <2>1, FS_Product
<1>3. ASSUME NEW p \in Pairs PROVE Join(p) \in Box(T)
  <2>1. p[1] \in Nat /\ p[1] < space.sizes[x] /\ p[2] \in Box(V) BY <1>1
  <2>2. p[2] \in [V -> Nat] /\ \A axis \in V : p[2][axis] < space.sizes[axis] BY <2>1 DEF Box
  <2>3. \A axis \in T : Join(p)[axis] \in Nat /\ Join(p)[axis] < space.sizes[axis] BY <2>1, <2>2
  <2> QED BY <2>3 DEF Box
<1>4. ASSUME NEW p \in Pairs, NEW r \in Pairs, Join(p) = Join(r) PROVE p = r
  <2>1. p[1] = r[1]
    <3>1. Join(p)[x] = p[1] /\ Join(r)[x] = r[1] OBVIOUS
    <3> HIDE DEF Join
    <3> QED BY <3>1, <1>4
  <2>2. ASSUME NEW axis \in V PROVE p[2][axis] = r[2][axis]
    <3>1. Join(p)[axis] = p[2][axis] /\ Join(r)[axis] = r[2][axis] OBVIOUS
    <3> HIDE DEF Join
    <3> QED BY <3>1, <1>4
  <2>3. p[2] \in [V -> Nat] /\ r[2] \in [V -> Nat] BY DEF Box
  <2>4. p[2] = r[2] BY <2>2, <2>3
  <2> QED BY <2>1, <2>4
<1>5. ASSUME NEW b \in Box(T) PROVE \E p \in Pairs : Join(p) = b
  <2>1. b \in [T -> Nat] /\ \A axis \in T : b[axis] < space.sizes[axis] BY DEF Box
  <2> DEFINE c == [axis \in V |-> b[axis]]
  <2>2. c \in Box(V) BY <2>1 DEF Box
  <2>3. b[x] \in 0..space.sizes[x] - 1 BY <1>1, <2>1
  <2>4. <<b[x], c>> \in Pairs BY <2>2, <2>3
  <2>5. Join(<<b[x], c>>) = b BY <2>1
  <2> QED BY <2>4, <2>5
<1>6. f \in Bijection(Pairs, Box(T))
  <2> HIDE DEF Pairs, Join
  <2> QED BY <1>3, <1>4, <1>5 DEF Bijection, Injection, Surjection, IsInjective
<1>7. ExistsBijection(Pairs, Box(T)) BY <1>6 DEF ExistsBijection
<1> HIDE DEF Pairs
<1> QED BY <1>2, <1>7, FS_Bijection

LEMMA BoxOfNone == IsFiniteSet(Box({})) /\ Cardinality(Box({})) = 1
<1> DEFINE none == [axis \in {} |-> 0]
<1>1. Box({}) = {none} BY DEF Box
<1> QED BY <1>1, FS_Singleton

LEMMA BoxIsFinite ==
  ASSUME space \in Spaces
  PROVE  \A T \in SUBSET Unlocked : IsFiniteSet(Box(T))
<1> DEFINE Small == {T \in SUBSET Unlocked : IsFiniteSet(Box(T))}
<1>1. {} \in Small BY BoxOfNone
<1>2. ASSUME NEW T \in SUBSET Unlocked, T # {}, T \ {CHOOSE x \in T : TRUE} \in Small
      PROVE  T \in Small
  <2>1. (CHOOSE x \in T : TRUE) \in T BY <1>2
  <2> QED BY <1>2, <2>1, BoxGrows, SpaceTyped
<1>3. IsFiniteSet(Unlocked) BY SpaceTyped
<1>4. SUBSET Unlocked \subseteq Small
  <2> HIDE DEF Small
  <2> QED BY <1>1, <1>2, <1>3, TakingAway
<1> QED BY <1>4

\* A product that passes MaxProduct has no value any more.
Saturated(n) == IF n > MaxProduct THEN Overflow ELSE n

\* To saturate on the way is to saturate at the end.
LEMMA SaturatedStep ==
  ASSUME NEW n \in Nat \ {0}, NEW m \in Nat
  PROVE  (IF n * Saturated(m) > MaxProduct THEN Overflow ELSE n * Saturated(m)) = Saturated(n * m)
<1>1. MaxProduct \in Nat BY SpaceAssumption
<1>2. ASSUME NEW k \in Nat PROVE n * k \in Nat /\ n * k >= k OBVIOUS
<1>3. CASE m > MaxProduct
  <2>1. Saturated(m) = MaxProduct + 1 BY <1>3 DEF Saturated, Overflow
  <2>2. n * (MaxProduct + 1) >= MaxProduct + 1 /\ n * m >= m BY <1>1, <1>2
  <2>3. n * Saturated(m) \in Nat /\ n * Saturated(m) > MaxProduct BY <1>1, <1>2, <2>1, <2>2
  <2>4. n * m \in Nat /\ n * m > MaxProduct BY <1>1, <1>2, <1>3, <2>2
  <2> QED BY <2>3, <2>4 DEF Saturated
<1>4. CASE ~(m > MaxProduct) BY <1>4 DEF Saturated
<1> QED BY <1>3, <1>4

\* The fold is the saturated number of choices on the axes that are not fixed.
LEMMA ProductOfBox ==
  ASSUME space \in Spaces
  PROVE  Product = Saturated(Cardinality(Box(Unlocked)))
<1> DEFINE Chosen(T) == CHOOSE x \in T : TRUE
           Op(n, product) == IF n * product > MaxProduct THEN Overflow ELSE n * product
           Rule(f) == [T \in SUBSET Unlocked |->
                         IF T = {} THEN 1
                         ELSE Op(space.sizes[Chosen(T)], f[T \ {Chosen(T)}])]
           iter == CHOOSE f : f = Rule(f)
           g == [T \in SUBSET Unlocked |-> Saturated(Cardinality(Box(T)))]
<1>1. Product = iter[Unlocked] BY DEF Product, FoldFunctionOnSet, MapThenFoldSet
<1>2. ASSUME NEW T \in SUBSET Unlocked
      PROVE  g[T] = IF T = {} THEN 1 ELSE Op(space.sizes[Chosen(T)], g[T \ {Chosen(T)}])
  <2>1. CASE T = {}
    <3>1. g[T] = Saturated(1) BY <2>1, BoxOfNone
    <3>2. Saturated(1) = 1 BY <2>1, SpaceAssumption DEF Saturated, Overflow
    <3> QED BY <2>1, <3>1, <3>2
  <2>2. CASE T # {}
    <3> DEFINE x == Chosen(T)
               V == T \ {x}
    <3>1. x \in T BY <2>2
    <3>2. T \in SUBSET Axes /\ V \in SUBSET Unlocked /\ x \in Axes BY <3>1, SpaceTyped
    <3>3. IsFiniteSet(Box(V)) BY <3>2, BoxIsFinite
    <3>4. Cardinality(Box(V)) \in Nat BY <3>3, FS_CardinalityType
    <3>5. Cardinality(Box(T)) = space.sizes[x] * Cardinality(Box(V)) BY <3>1, <3>2, <3>3, BoxGrows
    <3>6. space.sizes[x] \in Nat \ {0} BY <3>2, SpaceTyped
    <3>7. Op(space.sizes[x], Saturated(Cardinality(Box(V)))) = Saturated(Cardinality(Box(T)))
      <4> HIDE DEF V, x
      <4> QED BY <3>4, <3>5, <3>6, SaturatedStep
    <3>8. g[V] = Saturated(Cardinality(Box(V))) /\ g[T] = Saturated(Cardinality(Box(T))) BY <3>2
    <3> HIDE DEF g
    <3> QED BY <2>2, <3>7, <3>8
  <2> QED BY <2>1, <2>2
<1>3. g = Rule(g)
  <2>1. g = [T \in SUBSET Unlocked |-> g[T]] OBVIOUS
  <2>2. Rule(g) = [T \in SUBSET Unlocked |-> g[T]]
    <3> HIDE DEF g, Op
    <3> QED BY <1>2
  <2> QED BY <2>1, <2>2
<1>4. iter = Rule(iter)
  <2> HIDE DEF g, Rule
  <2> QED BY <1>3
<1> DEFINE Same == {T \in SUBSET Unlocked : iter[T] = g[T]}
<1>5. ASSUME NEW T \in SUBSET Unlocked
      PROVE  iter[T] = IF T = {} THEN 1 ELSE Op(space.sizes[Chosen(T)], iter[T \ {Chosen(T)}])
  <2> HIDE DEF iter, Op
  <2> QED BY <1>4
<1>6. {} \in Same
  <2> HIDE DEF iter, g, Op
  <2> QED BY <1>2, <1>5
<1>7. ASSUME NEW T \in SUBSET Unlocked, T # {}, T \ {CHOOSE x \in T : TRUE} \in Same
      PROVE  T \in Same
  <2> HIDE DEF iter, g, Op
  <2> QED BY <1>2, <1>5, <1>7
<1>8. SUBSET Unlocked \subseteq Same
  <2>1. IsFiniteSet(Unlocked) BY SpaceTyped
  <2> HIDE DEF Same
  <2> QED BY <1>6, <1>7, <2>1, TakingAway
<1> HIDE DEF iter
<1> QED BY <1>1, <1>8

\* A point is a choice on every axis, below the size and as fixed.
LEMMA PointsAre ==
  ASSUME space \in Spaces, NEW p
  PROVE  p \in Points <=>
           /\ p \in [Axes -> Nat]
           /\ \A axis \in Axes : p[axis] < space.sizes[axis]
           /\ \A axis \in DOMAIN space.locks : p[axis] = space.locks[axis]
<1> DEFINE Sizes == Range(space.sizes)
<1>1. /\ Len(space.sizes) \in Nat \ {0} /\ Axes = 1..Len(space.sizes)
      /\ \A axis \in Axes : space.sizes[axis] \in Nat \ {0}
      /\ DOMAIN space.sizes = Axes
  BY SpaceTyped DEF Axes
<1>2. IsFiniteSet(Sizes) /\ Sizes \in SUBSET Nat /\ Sizes # {}
  <2>1. Sizes = {space.sizes[axis] : axis \in Axes} BY <1>1 DEF Range
  <2>2. 1 \in Axes BY <1>1
  <2>3. IsFiniteSet(Axes) BY SpaceTyped
  <2>4. [axis \in Axes |-> space.sizes[axis]] \in Surjection(Axes, Sizes) BY <2>1 DEF Surjection
  <2>5. IsFiniteSet(Sizes) BY <2>3, <2>4, FS_Surjection
  <2> QED BY <1>1, <2>1, <2>2, <2>5
<1>3. \A n \in Sizes : Max(Sizes) \in Nat /\ n <= Max(Sizes)
  <2> HIDE DEF Sizes
  <2> QED BY <1>2, FiniteHasMax
<1>4. \A axis \in Axes : Max(Sizes) \in Nat /\ space.sizes[axis] <= Max(Sizes)
  BY <1>1, <1>3 DEF Range
<1>5. ASSUME p \in [Axes -> Nat], \A axis \in Axes : p[axis] < space.sizes[axis]
      PROVE  p \in [Axes -> 0..Max(Sizes) - 1]
  <2> HIDE DEF Sizes
  <2>1. ASSUME NEW axis \in Axes PROVE p[axis] \in 0..Max(Sizes) - 1 BY <1>1, <1>4, <1>5
  <2> QED BY <1>5, <2>1
<1>6. ASSUME p \in [Axes -> 0..Max(Sizes) - 1] PROVE p \in [Axes -> Nat]
  <2> HIDE DEF Sizes
  <2> QED BY <1>1, <1>4, <1>6
<1>7. p \in Points <=> p \in [Axes -> 0..Max(Sizes) - 1] /\ Valid(p) BY DEF Points
<1> HIDE DEF Sizes
<1> QED BY <1>5, <1>6, <1>7 DEF Valid

\* There are as many points as choices on the axes that are not fixed.
LEMMA PointsAreTheBox ==
  ASSUME space \in Spaces
  PROVE  IsFiniteSet(Points) /\ Cardinality(Points) = Cardinality(Box(Unlocked))
<1> DEFINE Fixed == DOMAIN space.locks
           Fill(b) == [axis \in Axes |-> IF axis \in Fixed THEN space.locks[axis] ELSE b[axis]]
           f == [b \in Box(Unlocked) |-> Fill(b)]
<1>1. Unlocked = Axes \ Fixed BY DEF Unlocked
<1>2. /\ Fixed \subseteq Axes
      /\ \A axis \in Fixed : space.locks[axis] \in Nat /\ space.locks[axis] < space.sizes[axis]
  BY SpaceTyped
<1>3. ASSUME NEW b \in Box(Unlocked) PROVE Fill(b) \in Points
  <2>1. b \in [Unlocked -> Nat] /\ \A axis \in Unlocked : b[axis] < space.sizes[axis] BY DEF Box
  <2>2. \A axis \in Axes : Fill(b)[axis] \in Nat /\ Fill(b)[axis] < space.sizes[axis]
    BY <1>1, <1>2, <2>1
  <2>3. \A axis \in Fixed : Fill(b)[axis] = space.locks[axis] BY <1>2
  <2>4. Fill(b) \in [Axes -> Nat] BY <2>2
  <2> HIDE DEF Fill
  <2> QED BY <2>2, <2>3, <2>4, PointsAre
<1>4. ASSUME NEW b \in Box(Unlocked), NEW c \in Box(Unlocked), Fill(b) = Fill(c) PROVE b = c
  <2>1. b \in [Unlocked -> Nat] /\ c \in [Unlocked -> Nat] BY DEF Box
  <2>2. ASSUME NEW axis \in Unlocked PROVE b[axis] = c[axis]
    <3>1. Fill(b)[axis] = b[axis] /\ Fill(c)[axis] = c[axis] BY <1>1
    <3> HIDE DEF Fill
    <3> QED BY <1>4, <3>1
  <2> QED BY <2>1, <2>2
<1>5. ASSUME NEW p \in Points PROVE \E b \in Box(Unlocked) : Fill(b) = p
  <2> DEFINE b == [axis \in Unlocked |-> p[axis]]
  <2>1. /\ p \in [Axes -> Nat] /\ \A axis \in Axes : p[axis] < space.sizes[axis]
        /\ \A axis \in Fixed : p[axis] = space.locks[axis]
    BY PointsAre
  <2>2. b \in Box(Unlocked) BY <1>1, <2>1 DEF Box
  <2>3. Fill(b) = p BY <1>1, <2>1
  <2> QED BY <2>2, <2>3
<1>6. f \in Bijection(Box(Unlocked), Points)
  <2> HIDE DEF Fill
  <2> QED BY <1>3, <1>4, <1>5 DEF Bijection, Injection, Surjection, IsInjective
<1>7. ExistsBijection(Box(Unlocked), Points) BY <1>6 DEF ExistsBijection
<1>8. IsFiniteSet(Box(Unlocked)) BY BoxIsFinite
<1> QED BY <1>7, <1>8, FS_Bijection

\* A call for an enumeration is refused when there are more points than its limit.
LEMMA ProductIsTheNumberOfPoints ==
  ASSUME space \in Spaces, NEW limit \in Enumerations
  PROVE  /\ IsFiniteSet(Points) /\ Cardinality(Points) \in Nat
         /\ Product <= MaxCount /\ Product <= limit <=> ~(Cardinality(Points) > limit)
         /\ Product <= MaxCount /\ Product <= limit => Product = Cardinality(Points)
<1>1. IsFiniteSet(Points) /\ Cardinality(Points) \in Nat BY PointsAreTheBox, FS_CardinalityType
<1>2. Product = Saturated(Cardinality(Points)) BY ProductOfBox, PointsAreTheBox
<1>3. MaxProduct \in Nat /\ MaxCount \in 0..MaxProduct /\ limit \in 0..MaxCount BY SpaceAssumption
<1> QED BY <1>1, <1>2, <1>3 DEF Saturated, Overflow

-----------------------------------------------------------------------------
(* DiscreteSpace: the odometer goes through the points in order.            *)

\* The points before a point.
Below(point) == {p \in Points : Before(p, point)}

\* On two different points there is a first axis on which they differ.
LEMMA FirstDifference ==
  ASSUME space \in Spaces, NEW a \in [Axes -> Nat], NEW b \in [Axes -> Nat], a # b
  PROVE  \E axis \in Axes : a[axis] # b[axis] /\ \A x \in 1..axis - 1 : a[x] = b[x]
<1> DEFINE Different == {axis \in Axes : a[axis] # b[axis]}
<1>1. Axes = 1..Len(space.sizes) /\ Len(space.sizes) \in Nat BY SpaceTyped
<1>2. Different \in SUBSET Nat /\ Different # {} BY <1>1
<1>3. PICK axis \in Different : \A x \in Different : axis <= x
  <2> HIDE DEF Different
  <2> QED BY <1>2, LeastNumber
<1>4. axis \in Axes /\ axis \in Nat BY <1>1
<1>5. ASSUME NEW x \in 1..axis - 1 PROVE a[x] = b[x]
  <2>1. x \in Axes /\ ~(axis <= x) BY <1>1, <1>4
  <2> QED BY <1>3, <2>1
<1> QED BY <1>3, <1>4, <1>5

\* The order is irreflexive.
LEMMA NotBeforeItself ==
  ASSUME space \in Spaces, NEW a \in Points, NEW b \in Points, Before(a, b)
  PROVE  a # b
<1>1. a \in [Axes -> Nat] /\ b \in [Axes -> Nat] BY PointsAre
<1> QED BY <1>1 DEF Before

LEMMA FirstIsFirst ==
  ASSUME space \in Spaces
  PROVE  First \in Points /\ Below(First) = {}
<1>1. \A axis \in Axes : space.sizes[axis] \in Nat \ {0} BY SpaceTyped
<1>2. DOMAIN space.locks \subseteq Axes
      /\ \A axis \in DOMAIN space.locks :
           space.locks[axis] \in Nat /\ space.locks[axis] < space.sizes[axis]
  BY SpaceTyped
<1>3. First \in [Axes -> Nat] BY <1>2 DEF First
<1>4. \A axis \in Axes : First[axis] < space.sizes[axis] BY <1>1, <1>2 DEF First
<1>5. \A axis \in DOMAIN space.locks : First[axis] = space.locks[axis] BY <1>2 DEF First
<1>6. First \in Points BY <1>3, <1>4, <1>5, PointsAre
<1>7. ASSUME NEW p \in Points PROVE ~Before(p, First)
  <2>1. SUFFICES ASSUME NEW axis \in Axes, p[axis] < First[axis] PROVE FALSE BY DEF Before
  <2>2. p \in [Axes -> Nat] /\ \A x \in DOMAIN space.locks : p[x] = space.locks[x] BY PointsAre
  <2>3. First[axis] = (IF axis \in DOMAIN space.locks THEN space.locks[axis] ELSE 0) BY DEF First
  <2> QED BY <1>2, <2>1, <2>2, <2>3
<1> QED BY <1>6, <1>7 DEF Below

\* The axes on which a point can go up.
Able(p) == {axis \in Unlocked : p[axis] + 1 < space.sizes[axis]}

\* No point is greater on an axis that cannot go up.
LEMMA NotAboveAnUnable ==
  ASSUME space \in Spaces, NEW p \in Points, NEW c \in Points, NEW axis \in Axes \ Able(c)
  PROVE  p[axis] <= c[axis]
<1>1. /\ p \in [Axes -> Nat] /\ \A x \in Axes : p[x] < space.sizes[x]
      /\ \A x \in DOMAIN space.locks : p[x] = space.locks[x]
  BY PointsAre
<1>2. c \in [Axes -> Nat] /\ \A x \in DOMAIN space.locks : c[x] = space.locks[x]
  BY PointsAre
<1>3. space.sizes[axis] \in Nat BY SpaceTyped
<1>4. CASE axis \in DOMAIN space.locks
  <2>1. p[axis] = c[axis] BY <1>1, <1>2, <1>4
  <2> QED BY <1>2, <2>1
<1>5. CASE axis \notin DOMAIN space.locks
  <2>1. ~(c[axis] + 1 < space.sizes[axis]) BY <1>5 DEF Able, Unlocked
  <2>2. p[axis] < space.sizes[axis] /\ p[axis] \in Nat /\ c[axis] \in Nat BY <1>1, <1>2
  <2> QED BY <1>3, <2>1, <2>2
<1> QED BY <1>4, <1>5

\* Two points that agree up to an axis, of which one is not greater after it, are
\* the same or in order.
LEMMA NotAboveIsBefore ==
  ASSUME space \in Spaces, NEW p \in Points, NEW c \in Points, \A x \in Axes : p[x] # c[x] =>
           p[x] < c[x] \/ \E y \in 1..x - 1 : p[y] # c[y]
  PROVE  p = c \/ Before(p, c)
<1>1. SUFFICES ASSUME p # c PROVE Before(p, c) OBVIOUS
<1>2. p \in [Axes -> Nat] /\ c \in [Axes -> Nat] BY PointsAre
<1>3. PICK axis \in Axes : p[axis] # c[axis] /\ \A x \in 1..axis - 1 : p[x] = c[x]
  BY <1>1, <1>2, FirstDifference
<1>4. p[axis] < c[axis] BY <1>3
<1> QED BY <1>3, <1>4 DEF Before

\* After a point that cannot go up there is none.
LEMMA LastIsLast ==
  ASSUME space \in Spaces, NEW c \in Points, Able(c) = {}
  PROVE  Points = Below(c) \cup {c}
<1>1. ASSUME NEW p \in Points PROVE p = c \/ Before(p, c)
  <2>1. p \in [Axes -> Nat] /\ c \in [Axes -> Nat] BY PointsAre
  <2>2. ASSUME NEW x \in Axes, p[x] # c[x] PROVE p[x] < c[x]
    <3>1. p[x] <= c[x] BY NotAboveAnUnable
    <3> QED BY <2>1, <2>2, <3>1
  <2> QED BY <2>2, NotAboveIsBefore
<1> QED BY <1>1 DEF Below

\* The odometer turns a point that can go up into the point after it.
LEMMA FollowingIsNext ==
  ASSUME space \in Spaces, NEW c \in Points, Able(c) # {}
  PROVE  Following(c) \in Points /\ Below(Following(c)) = Below(c) \cup {c}
<1> DEFINE f == Following(c)
           t == Max(Able(c))
<1>1. Axes = 1..Len(space.sizes) /\ Len(space.sizes) \in Nat
      /\ \A axis \in Axes : space.sizes[axis] \in Nat \ {0}
  BY SpaceTyped
<1>2. t \in Able(c) /\ \A axis \in Able(c) : axis <= t
  <2>1. Able(c) \in SUBSET Nat /\ \A axis \in Able(c) : axis <= Len(space.sizes)
    BY <1>1 DEF Able, Unlocked
  <2> QED BY <1>1, <2>1, MaxIsGreatest
<1>3. t \in Axes /\ t \in Nat /\ t \notin DOMAIN space.locks /\ c[t] + 1 < space.sizes[t]
  BY <1>1, <1>2 DEF Able, Unlocked
<1>4. /\ c \in [Axes -> Nat] /\ \A axis \in Axes : c[axis] < space.sizes[axis]
      /\ \A axis \in DOMAIN space.locks : c[axis] = space.locks[axis]
  BY PointsAre
<1>5. f = [axis \in Axes |-> IF axis = t THEN c[axis] + 1
                             ELSE IF axis > t /\ axis \in Unlocked THEN 0
                             ELSE c[axis]]
  BY DEF Following, Able
<1> HIDE DEF f, t
<1>6. \A axis \in Axes : axis < t => f[axis] = c[axis] BY <1>1, <1>3, <1>5
<1>7. f[t] = c[t] + 1 BY <1>3, <1>5
<1>8. \A axis \in Axes : axis > t => f[axis] = IF axis \in Unlocked THEN 0 ELSE c[axis]
  BY <1>1, <1>3, <1>5
<1>9. f \in Points
  <2>1. ASSUME NEW axis \in Axes PROVE f[axis] \in Nat /\ f[axis] < space.sizes[axis]
    <3>1. /\ c[axis] \in Nat /\ c[axis] < space.sizes[axis]
          /\ c[t] \in Nat /\ space.sizes[axis] \in Nat \ {0}
      BY <1>1, <1>3, <1>4
    <3>2. CASE axis = t BY <1>3, <1>7, <3>1, <3>2
    <3>3. CASE axis # t
      <4>1. f[axis] = 0 \/ f[axis] = c[axis] BY <1>5, <3>3
      <4> QED BY <3>1, <4>1
    <3> QED BY <3>2, <3>3
  <2>2. f \in [Axes -> Nat] BY <1>5, <2>1
  <2>3. \A axis \in DOMAIN space.locks : f[axis] = space.locks[axis]
    BY <1>3, <1>4, <1>5, SpaceTyped DEF Unlocked
  <2> QED BY <2>1, <2>2, <2>3, PointsAre
<1>10. ASSUME NEW p \in Points, p = c \/ Before(p, c) PROVE Before(p, f)
  <2>1. p \in [Axes -> Nat] BY PointsAre
  <2>2. CASE p = c
    <3>1. p[t] < f[t] BY <1>3, <1>4, <1>7, <2>2
    <3>2. \A x \in 1..t - 1 : p[x] = f[x] BY <1>1, <1>3, <1>6, <2>2
    <3> QED BY <1>3, <3>1, <3>2 DEF Before
  <2>3. CASE Before(p, c)
    <3>1. PICK k \in Axes : p[k] < c[k] /\ \A x \in 1..k - 1 : p[x] = c[x] BY <2>3 DEF Before
    <3>2. CASE k < t
      <4>1. p[k] < f[k] BY <1>6, <3>1, <3>2
      <4>2. \A x \in 1..k - 1 : p[x] = f[x] BY <1>1, <1>3, <1>6, <3>1, <3>2
      <4> QED BY <4>1, <4>2 DEF Before
    <3>3. CASE ~(k < t)
      <4>1. p[t] <= c[t] BY <1>1, <1>3, <1>4, <2>1, <3>1, <3>3
      <4>2. p[t] < f[t] BY <1>3, <1>4, <1>7, <2>1, <4>1
      <4>3. \A x \in 1..t - 1 : p[x] = f[x] BY <1>1, <1>3, <1>6, <3>1, <3>3
      <4> QED BY <1>3, <4>2, <4>3 DEF Before
    <3> QED BY <3>2, <3>3
  <2> QED BY <1>10, <2>2, <2>3
<1>11. ASSUME NEW p \in Points, Before(p, f) PROVE p = c \/ Before(p, c)
  <2>1. /\ p \in [Axes -> Nat]
        /\ \A axis \in DOMAIN space.locks : p[axis] = space.locks[axis]
    BY PointsAre
  <2>2. PICK k \in Axes : p[k] < f[k] /\ \A x \in 1..k - 1 : p[x] = f[x] BY <1>11 DEF Before
  <2>3. CASE k < t
    <3>1. p[k] < c[k] BY <1>6, <2>2, <2>3
    <3>2. \A x \in 1..k - 1 : p[x] = c[x] BY <1>1, <1>3, <1>6, <2>2, <2>3
    <3> QED BY <3>1, <3>2 DEF Before
  <2>4. CASE k = t
    <3>1. p[t] <= c[t] BY <1>3, <1>4, <1>7, <2>1, <2>2, <2>4
    <3>2. ASSUME NEW x \in Axes, p[x] # c[x] PROVE p[x] < c[x]
      <4>1. CASE x < t BY <1>1, <1>3, <1>6, <2>2, <2>4, <3>2, <4>1
      <4>2. CASE x = t BY <1>3, <1>4, <2>1, <3>1, <3>2, <4>2
      <4>3. CASE x > t
        <5>1. x \in Axes \ Able(c) BY <1>1, <1>2, <1>3, <4>3
        <5>2. p[x] <= c[x] BY <5>1, NotAboveAnUnable
        <5> QED BY <1>4, <2>1, <3>2, <5>2
      <4> QED BY <1>1, <1>3, <4>1, <4>2, <4>3
    <3> QED BY <3>2, NotAboveIsBefore
  <2>5. CASE k > t
    <3>1. p[k] < IF k \in Unlocked THEN 0 ELSE c[k] BY <1>8, <2>2, <2>5
    <3>2. k \notin Unlocked BY <2>1, <3>1
    <3>3. p[k] = c[k] BY <1>4, <2>1, <3>2 DEF Unlocked
    <3> QED BY <1>4, <2>1, <3>1, <3>2, <3>3
  <2> QED BY <1>1, <1>3, <2>3, <2>4, <2>5
<1>12. Below(f) = Below(c) \cup {c} BY <1>10, <1>11 DEF Below
<1> QED BY <1>9, <1>12 DEF f

-----------------------------------------------------------------------------
(* DiscreteSpace: what an attempt can propose.                             *)

LEMMA MinOfTwo ==
  ASSUME NEW a \in Nat, NEW b \in Nat
  PROVE  Min({a, b}) = IF a <= b THEN a ELSE b
<1>1. PICK m : m = IF a <= b THEN a ELSE b OBVIOUS
<1>2. m \in {a, b} /\ \A y \in {a, b} : m <= y BY <1>1
<1>3. \A x \in {a, b} : (\A y \in {a, b} : x <= y) => x = m BY <1>1
<1>4. Min({a, b}) = m BY <1>2, <1>3 DEF Min
<1> QED BY <1>1, <1>4

\* The arguments of a call, how many it may answer with and how far from a parent.
LEMMA ProposalTyped ==
  ASSUME space \in Spaces, NEW q \in Proposals
  PROVE  /\ q.parents \in Seq(Seq(Nat)) /\ q.round \in Nat /\ q.limit \in Nat
         /\ Count(q) \in Nat /\ Count(q) <= q.limit
         /\ q.round # 0 /\ Mutable # {} => Radius(q) \in Nat \ {0}
<1>1. /\ q.parents \in Seq(Seq(Nat)) /\ q.round \in Nat /\ q.limit \in Nat
      /\ q.settings.proposals \in Nat /\ q.settings.axes \in Nat
  BY SettingsAssumption
<1>2. Count(q) \in Nat /\ Count(q) <= q.limit
  <2>1. Count(q) = IF q.limit <= q.settings.proposals THEN q.limit ELSE q.settings.proposals
    BY <1>1, MinOfTwo DEF Count
  <2> QED BY <1>1, <2>1
<1>3. ASSUME q.round # 0, Mutable # {} PROVE Radius(q) \in Nat \ {0}
  <2> DEFINE n == Cardinality(Mutable)
             widest == IF q.settings.axes = 0 THEN n ELSE Min({n, q.settings.axes})
  <2>1. n \in Nat /\ n # 0
    <3>1. IsFiniteSet(Mutable) BY SpaceTyped
    <3> QED BY <1>3, <3>1, FS_EmptySet, FS_CardinalityType
  <2>2. widest \in Nat /\ widest # 0 BY <1>1, <2>1, MinOfTwo
  <2>3. q.round - 1 \in Nat BY <1>1, <1>3
  <2>4. (q.round - 1) % widest \in Nat
    <3> HIDE DEF widest
    <3> QED BY <2>2, <2>3
  <2>5. Radius(q) = 1 + ((q.round - 1) % widest) BY DEF Radius
  <2> HIDE DEF widest
  <2> QED BY <2>4, <2>5
<1> QED BY <1>1, <1>2, <1>3

\* A valid parent is a point.
LEMMA ValidIsAPoint ==
  ASSUME space \in Spaces, NEW p \in Seq(Nat), Valid(p)
  PROVE  p \in Points
<1>1. p \in [Axes -> Nat] BY DEF Valid
<1> QED BY <1>1, PointsAre DEF Valid

LEMMA RestartedArePoints ==
  ASSUME space \in Spaces
  PROVE  Restarted \subseteq Points
<1> SUFFICES ASSUME NEW p \in Restarted PROVE p \in Points OBVIOUS
<1> DEFINE top == Max(Range(space.sizes)) - 1
<1>1. PICK d \in [Mutable -> 0..top] :
        /\ \A axis \in Mutable : d[axis] < space.sizes[axis]
        /\ p = [axis \in Axes |-> IF axis \in Mutable THEN d[axis] ELSE First[axis]]
  BY DEF Restarted
<1>2. \A axis \in Mutable : d[axis] \in Nat
  <2> HIDE DEF top
  <2> QED BY <1>1
<1>3. /\ First \in [Axes -> Nat] /\ \A axis \in Axes : First[axis] < space.sizes[axis]
      /\ \A axis \in DOMAIN space.locks : First[axis] = space.locks[axis]
  BY FirstIsFirst, PointsAre
<1>4. \A axis \in Axes : p[axis] \in Nat /\ p[axis] < space.sizes[axis] BY <1>1, <1>2, <1>3
<1>5. p \in [Axes -> Nat] BY <1>1, <1>4
<1>6. \A axis \in DOMAIN space.locks : p[axis] = space.locks[axis]
  BY <1>1, <1>3, SpaceTyped DEF Mutable, Unlocked
<1> QED BY <1>4, <1>5, <1>6, PointsAre

\* A draw names another choice.
LEMMA OtherIsAnother ==
  ASSUME NEW old \in Nat, NEW draw \in Nat, NEW n \in Nat, old < n, draw < n - 1
  PROVE  Other(old, draw) \in Nat /\ Other(old, draw) # old /\ Other(old, draw) < n
BY DEF Other

\* A move changes as many axes of its base as the radius says and stays in the space.
LEMMA MovedAreNear ==
  ASSUME space \in Spaces, NEW base \in Points, NEW radius \in Nat \ {0},
         NEW p \in Moved(base, radius)
  PROVE  p \in Points /\ Distance(p, base) = radius /\ p # base
<1> DEFINE top == Max(Range(space.sizes)) - 1
<1>1. PICK axes \in SUBSET Mutable : \E d \in [axes -> 0..top] :
        /\ Cardinality(axes) = radius
        /\ \A axis \in axes : d[axis] < space.sizes[axis] - 1
        /\ p = [axis \in Axes |-> IF axis \in axes THEN Other(base[axis], d[axis]) ELSE base[axis]]
  BY DEF Moved
<1>11. PICK d \in [axes -> 0..top] :
        /\ Cardinality(axes) = radius
        /\ \A axis \in axes : d[axis] < space.sizes[axis] - 1
        /\ p = [axis \in Axes |-> IF axis \in axes THEN Other(base[axis], d[axis]) ELSE base[axis]]
  BY <1>1
<1>2. \A axis \in axes : d[axis] \in Nat
  <2> HIDE DEF top
  <2> QED BY <1>11
<1>3. /\ base \in [Axes -> Nat] /\ \A axis \in Axes : base[axis] < space.sizes[axis]
      /\ \A axis \in DOMAIN space.locks : base[axis] = space.locks[axis]
  BY PointsAre
<1>4. /\ axes \subseteq Axes /\ DOMAIN space.locks \subseteq Axes
      /\ \A x \in DOMAIN space.locks : x \notin axes
      /\ \A x \in Axes : space.sizes[x] \in Nat
  BY SpaceTyped DEF Mutable, Unlocked
<1>5. \A axis \in axes : p[axis] \in Nat /\ p[axis] # base[axis] /\ p[axis] < space.sizes[axis]
  BY <1>11, <1>2, <1>3, <1>4, OtherIsAnother
<1>6. \A axis \in Axes \ axes : p[axis] = base[axis] BY <1>11
<1>7. p \in Points
  <2>1. \A axis \in Axes : p[axis] \in Nat /\ p[axis] < space.sizes[axis] BY <1>3, <1>5, <1>6
  <2>2. p \in [Axes -> Nat] BY <1>11, <2>1
  <2>3. \A axis \in DOMAIN space.locks : p[axis] = space.locks[axis] BY <1>3, <1>4, <1>6
  <2> QED BY <2>1, <2>2, <2>3, PointsAre
<1>8. {axis \in Axes : p[axis] # base[axis]} = axes BY <1>4, <1>5, <1>6
<1>9. Distance(p, base) = radius BY <1>11, <1>8 DEF Distance
<1>10. p # base
  <2>1. axes # {} BY <1>11, FS_EmptySet
  <2> QED BY <1>4, <1>5, <2>1
<1> QED BY <1>7, <1>9, <1>10

-----------------------------------------------------------------------------
(* DiscreteSpace: the invariant and its steps.                             *)

\* One call is made, and what it does not use keeps its first value.
CallSound ==
  /\ space \in Spaces
  /\ \/ /\ phase = "idle" /\ asked = [call |-> "none"]
        /\ output = {} /\ listed = <<>> /\ current = First
     \/ /\ phase \in {"enumerating", "answered", "refused", "unreserved"}
        /\ \E limit \in Enumerations : asked = [call |-> "enumerate", limit |-> limit]
     \/ /\ phase \in {"proposing", "answered", "refused"}
        /\ \E q \in Proposals : asked = [call |-> "propose", q |-> q]

\* What is listed are the points before the next one, in order, and what is left
\* to be listed are the others.
ListSound ==
  asked.call = "enumerate" =>
    /\ (phase = "refused") <=> Cardinality(Points) > asked.limit
    /\ phase = "unreserved" => listed = <<>>
    /\ phase \in {"enumerating", "answered"} =>
         /\ Cardinality(Points) <= MaxReserve
         /\ listed \in Seq(Points) /\ left \in Nat
         /\ Len(listed) + left = Cardinality(Points)
         /\ \A i, j \in DOMAIN listed : i < j => Before(listed[i], listed[j])
         /\ left > 0 => current \in Points /\ Range(listed) = Below(current)
         /\ phase = "answered" => left = 0

\* A proposal comes from a restart or is as far from a parent as the radius says.
Near(point, q) ==
  \/ q.parents = <<>> \/ q.round % q.settings.restart = 0
  \/ \E parent \in Range(q.parents) : Distance(point, parent) = Radius(q)

\* With one parent and without a restart an attempt cannot fail.
OneParent(q) == Len(q.parents) = 1 /\ q.round % q.settings.restart # 0

\* What is proposed is within the call, and is something once an attempt was made.
ProposalsSound ==
  asked.call = "propose" /\ phase # "refused" =>
    LET q == asked.q
    IN  /\ q.round # 0 /\ \A i \in DOMAIN q.parents : Valid(q.parents[i])
        /\ IsFiniteSet(output) /\ Cardinality(output) <= Count(q)
        /\ output \subseteq Points \ Range(q.parents)
        /\ \A point \in output : Near(point, q)
        /\ phase = "proposing" =>
             /\ Mutable # {} /\ Count(q) > 0 /\ left \in 0..4 * Count(q)
             /\ OneParent(q) /\ left < 4 * Count(q) => output # {}
        /\ phase = "answered" /\ OneParent(q) /\ ~stopped /\ Mutable # {} /\ Count(q) > 0 =>
             output # {}

SpaceInv == CallSound /\ ListSound /\ ProposalsSound

\* What the phase and the call say of each other.
LEMMA WhatIsAsked ==
  ASSUME CallSound
  PROVE  /\ space \in Spaces
         /\ asked.call = "enumerate" => asked.limit \in Enumerations
         /\ asked.call = "propose" => asked.q \in Proposals
         /\ phase = "idle" => asked.call = "none" /\ output = {} /\ listed = <<>> /\ current = First
         /\ phase = "enumerating" => asked.call = "enumerate"
         /\ phase = "proposing" => asked.call = "propose"
BY DEF CallSound

LEMMA InitSpace == SpaceInit => SpaceInv
BY DEF SpaceInit, SpaceInv, CallSound, ListSound, ProposalsSound

\* A call that goes on or ends with an answer stays the same call.
LEMMA CallGoesOn ==
  ASSUME CallSound, space' = space, asked' = asked, phase \in {"enumerating", "proposing"},
         phase' \in {phase, "answered"}
  PROVE  CallSound'
BY DEF CallSound

LEMMA PointsStay ==
  ASSUME space' = space
  PROVE  Axes' = Axes /\ Mutable' = Mutable /\ Points' = Points
BY DEF Points, Valid, Mutable, Unlocked, Axes

LEMMA EnumerateInv ==
  ASSUME SpaceInv, NEW limit \in Enumerations, Enumerate(limit)
  PROVE  SpaceInv'
<1>1. /\ space' = space /\ listed' = listed /\ current' = current
      /\ asked' = [call |-> "enumerate", limit |-> limit] /\ phase = "idle"
      /\ phase' \in {"enumerating", "refused", "unreserved"}
  BY DEF Enumerate
<1>2. CallSound /\ space \in Spaces /\ listed = <<>> /\ current = First
  BY <1>1, WhatIsAsked DEF SpaceInv
<1>3. CallSound' BY <1>1, <1>2 DEF CallSound
<1>4. Axes' = Axes /\ Points' = Points /\ asked'.limit = limit /\ asked'.call = "enumerate" BY <1>1, PointsStay
<1>5. (phase' = "refused") <=> Cardinality(Points) > limit
  BY <1>2, ProductIsTheNumberOfPoints DEF Enumerate
<1>6. ASSUME phase' = "enumerating"
      PROVE  /\ left' = Cardinality(Points) /\ left' \in Nat
             /\ Cardinality(Points) <= MaxReserve
  BY <1>2, <1>6, ProductIsTheNumberOfPoints DEF Enumerate
<1>7. listed \in Seq(Points) /\ Len(listed) = 0 /\ DOMAIN listed = {} /\ Range(listed) = {}
  BY <1>2 DEF Range
<1>8. First \in Points /\ Below(First) = {} BY <1>2, FirstIsFirst
<1>9. Below(current)' = Below(First)
  <2>1. Below(current)' = Below(current) BY <1>1, <1>4 DEF Below, Before
  <2> QED BY <1>2, <2>1
<1>10. ListSound'
  <2>1. CASE phase' \in {"refused", "unreserved"} BY <1>1, <1>2, <1>4, <1>5, <2>1 DEF ListSound
  <2>2. CASE phase' = "enumerating"
    <3>1. listed' = <<>> /\ DOMAIN listed' = {} /\ listed' \in Seq(Points) /\ Len(listed') = 0
          /\ Range(listed') = {}
      BY <1>1, <1>2, <1>7
    <3>2. left' \in Nat /\ Len(listed') + left' = Cardinality(Points) BY <1>6, <2>2, <3>1
    <3>3. current' \in Points /\ Range(listed') = Below(current)' BY <1>1, <1>2, <1>8, <1>9, <3>1
    <3>4. phase' # "answered" BY <1>1
    <3> QED BY <1>4, <1>5, <1>6, <2>2, <3>1, <3>2, <3>3, <3>4 DEF ListSound
  <2> QED BY <1>1, <2>1, <2>2
<1>11. ProposalsSound' BY <1>4 DEF ProposalsSound
<1> QED BY <1>3, <1>10, <1>11 DEF SpaceInv

\* The points that are listed are as many as the list is long.
LEMMA ListedOnce ==
  ASSUME CallSound, ListSound, asked.call = "enumerate", phase \in {"enumerating", "answered"}
  PROVE  /\ IsFiniteSet(Points) /\ Range(listed) \subseteq Points
         /\ IsFiniteSet(Range(listed)) /\ Cardinality(Range(listed)) = Len(listed)
<1>1. space \in Spaces BY WhatIsAsked
<1>2. IsFiniteSet(Points) BY <1>1, PointsAreTheBox
<1>3. listed \in Seq(Points) /\ \A i, j \in DOMAIN listed : i < j => Before(listed[i], listed[j])
  BY DEF ListSound
<1>4. DOMAIN listed = 1..Len(listed) /\ Len(listed) \in Nat
      /\ \A i \in 1..Len(listed) : listed[i] \in Points
  BY <1>3
<1>5. Range(listed) \subseteq Points BY <1>4 DEF Range
<1>6. ASSUME NEW i \in 1..Len(listed), NEW j \in 1..Len(listed), listed[i] = listed[j] PROVE i = j
  <2>1. ~(i < j) /\ ~(j < i) BY <1>1, <1>3, <1>4, <1>6, NotBeforeItself
  <2> QED BY <1>4, <2>1
<1>7. listed \in Bijection(1..Len(listed), Range(listed))
  <2>1. listed = [i \in 1..Len(listed) |-> listed[i]] BY <1>3
  <2>2. listed \in [1..Len(listed) -> Range(listed)] BY <1>4, <2>1 DEF Range
  <2> QED BY <1>4, <1>6, <2>2 DEF Bijection, Injection, Surjection, IsInjective, Range
<1>8. IsFiniteSet(1..Len(listed)) /\ Cardinality(1..Len(listed)) = Len(listed)
  <2>1. PICK n \in Nat : n = Len(listed) BY <1>4
  <2>2. IsFiniteSet(1..n) /\ Cardinality(1..n) = IF 1 > n THEN 0 ELSE n - 1 + 1 BY FS_Interval
  <2>3. Cardinality(1..n) = n BY <2>2
  <2> QED BY <2>1, <2>2, <2>3
<1>9. ExistsBijection(1..Len(listed), Range(listed)) BY <1>7 DEF ExistsBijection
<1> QED BY <1>2, <1>5, <1>8, <1>9, FS_Bijection

LEMMA ListPointInv == ASSUME SpaceInv, ListPoint PROVE SpaceInv'
<1>1. /\ space' = space /\ asked' = asked /\ phase' = phase /\ phase = "enumerating" /\ left > 0
      /\ listed' = Append(listed, current) /\ current' = Following(current) /\ left' = left - 1
  BY DEF ListPoint
<1>2. CallSound /\ ListSound /\ space \in Spaces /\ asked.call = "enumerate" BY <1>1, WhatIsAsked DEF SpaceInv
<1>3. /\ ~(Cardinality(Points) > asked.limit) /\ Cardinality(Points) <= MaxReserve
      /\ listed \in Seq(Points) /\ left \in Nat
      /\ Len(listed) + left = Cardinality(Points)
      /\ \A i, j \in DOMAIN listed : i < j => Before(listed[i], listed[j])
      /\ current \in Points /\ Range(listed) = Below(current)
  BY <1>1, <1>2 DEF ListSound
<1>4. Axes' = Axes /\ Points' = Points BY <1>1, PointsStay
<1>5. DOMAIN listed = 1..Len(listed) /\ Len(listed) \in Nat BY <1>3
<1>6. /\ listed' \in Seq(Points) /\ Len(listed') = Len(listed) + 1
      /\ DOMAIN listed' = 1..(Len(listed) + 1)
      /\ \A i \in 1..Len(listed) : listed'[i] = listed[i]
      /\ listed'[Len(listed) + 1] = current
  BY <1>1, <1>3
<1>7. Range(listed') = Below(current) \cup {current}
  <2>1. Range(listed') = {listed'[i] : i \in 1..(Len(listed) + 1)} BY <1>6 DEF Range
  <2>2. Range(listed) = {listed[i] : i \in 1..Len(listed)} BY <1>5 DEF Range
  <2>3. 1..(Len(listed) + 1) = 1..Len(listed) \cup {Len(listed) + 1} BY <1>5
  <2>4. Range(listed') = Range(listed) \cup {current} BY <1>6, <2>1, <2>2, <2>3
  <2> QED BY <1>3, <2>4
<1>8. ASSUME NEW i \in DOMAIN listed', NEW j \in DOMAIN listed', i < j
      PROVE  Before(listed'[i], listed'[j])
  <2>1. i \in 1..Len(listed) /\ listed'[i] = listed[i] BY <1>5, <1>6, <1>8
  <2>2. CASE j \in 1..Len(listed) BY <1>3, <1>5, <1>6, <1>8, <2>1, <2>2
  <2>3. CASE j = Len(listed) + 1
    <3>1. listed[i] \in Range(listed) BY <1>5, <2>1 DEF Range
    <3>2. Before(listed[i], current) BY <1>3, <3>1 DEF Below
    <3> QED BY <1>6, <2>1, <2>3, <3>2
  <2> QED BY <1>5, <1>6, <2>2, <2>3
<1>9. ASSUME left' > 0 PROVE Able(current) # {}
  <2>1. SUFFICES ASSUME Able(current) = {} PROVE FALSE OBVIOUS
  <2>2. Points = Range(listed) \cup {current} BY <1>2, <1>3, <2>1, LastIsLast
  <2>3. IsFiniteSet(Range(listed)) /\ Cardinality(Range(listed)) = Len(listed)
    BY <1>1, <1>2, ListedOnce
  <2>4. Cardinality(Points) = IF current \in Range(listed) THEN Len(listed) ELSE Len(listed) + 1
    BY <2>2, <2>3, FS_AddElement
  <2> QED BY <1>1, <1>3, <1>5, <1>9, <2>4
<1>10. ASSUME left' > 0
       PROVE  Following(current) \in Points /\ Range(listed') = Below(Following(current))
  BY <1>2, <1>3, <1>7, <1>9, <1>10, FollowingIsNext
<1>11. Below(current)' = Below(Following(current)) BY <1>1, <1>4 DEF Below, Before
<1>12. left' \in Nat /\ Len(listed') + left' = Cardinality(Points) BY <1>1, <1>3, <1>5, <1>6
<1>13. \A i, j \in DOMAIN listed' : i < j => Before(listed[i], listed[j])'
  BY <1>4, <1>8 DEF Before
<1>14. ListSound'
  BY <1>1, <1>2, <1>3, <1>4, <1>6, <1>10, <1>11, <1>12, <1>13 DEF ListSound
<1>15. CallSound' BY <1>1, <1>2, CallGoesOn
<1>16. ProposalsSound' BY <1>1, <1>2 DEF ProposalsSound
<1> QED BY <1>14, <1>15, <1>16 DEF SpaceInv

LEMMA EndListInv == ASSUME SpaceInv, EndList PROVE SpaceInv'
<1>1. /\ space' = space /\ asked' = asked /\ phase' = "answered" /\ phase = "enumerating"
      /\ left = 0 /\ left' = left /\ listed' = listed /\ current' = current
  BY DEF EndList
<1>2. CallSound /\ ListSound /\ asked.call = "enumerate" BY <1>1, WhatIsAsked DEF SpaceInv
<1>3. Axes' = Axes /\ Points' = Points BY <1>1, PointsStay
<1>4. ListSound' BY <1>1, <1>2, <1>3 DEF ListSound, Before
<1>5. CallSound' BY <1>1, <1>2, CallGoesOn
<1>6. ProposalsSound' BY <1>1, <1>2 DEF ProposalsSound
<1> QED BY <1>4, <1>5, <1>6 DEF SpaceInv

\* A call without an answer yet, or with an answer that needs no attempt.
LEMMA ProposeInv ==
  ASSUME SpaceInv, NEW q \in Proposals, Propose(q)
  PROVE  SpaceInv'
<1>1. /\ space' = space /\ listed' = listed /\ current' = current /\ stopped' = stopped
      /\ asked' = [call |-> "propose", q |-> q] /\ phase = "idle"
      /\ phase' \in {"refused", "answered", "proposing"}
  BY DEF Propose
<1>2. CallSound /\ space \in Spaces /\ output = {} BY <1>1, WhatIsAsked DEF SpaceInv
<1>3. CallSound' BY <1>1, <1>2 DEF CallSound
<1>4. /\ Axes' = Axes /\ Mutable' = Mutable /\ Points' = Points
      /\ asked'.q = q /\ asked'.call = "propose"
  BY <1>1, PointsStay
<1>5. ListSound' BY <1>4 DEF ListSound
<1>6. Count(q) \in Nat /\ Count(q) <= q.limit BY <1>2, ProposalTyped
<1>7. ASSUME phase' # "refused"
      PROVE  /\ q.round # 0 /\ \A i \in DOMAIN q.parents : Valid(q.parents[i])
             /\ \/ phase' = "answered" /\ (Count(q) = 0 \/ stopped) /\ output' = output
                \/ /\ phase' = "answered" /\ Mutable = {} /\ Count(q) # 0
                   /\ output' = (IF q.parents = <<>> THEN {First} ELSE {})
                \/ /\ phase' = "proposing" /\ Mutable # {} /\ Count(q) # 0
                   /\ left' = 4 * Count(q) /\ output' = output
  BY <1>7 DEF Propose
<1>8. ASSUME phase' # "refused"
      PROVE  /\ IsFiniteSet(output') /\ Cardinality(output') <= Count(q)
             /\ output' \subseteq Points \ Range(q.parents)
             /\ \A point \in output' : q.parents = <<>>
  <2>1. CASE output' = {} BY <1>6, <2>1, FS_EmptySet
  <2>2. CASE output' # {}
    <3>1. output' = {First} /\ q.parents = <<>> /\ Count(q) # 0 BY <1>2, <1>7, <1>8, <2>2
    <3>2. First \in Points BY <1>2, FirstIsFirst
    <3>3. Range(q.parents) = {} BY <3>1 DEF Range
    <3>4. IsFiniteSet(output') /\ Cardinality(output') = 1 BY <3>1, FS_Singleton
    <3> QED BY <1>6, <3>1, <3>2, <3>3, <3>4
  <2> QED BY <2>1, <2>2
<1>9. ASSUME NEW p, Valid(p) PROVE Valid(p)' BY <1>1, <1>9 DEF Valid, Axes
<1>10. ASSUME phase' = "proposing" PROVE left' \in 0..4 * Count(q) /\ left' = 4 * Count(q)
  BY <1>6, <1>7, <1>10
<1>11. ASSUME phase' # "refused" PROVE phase' = "answered" /\ ~stopped /\ Mutable # {} => ~(Count(q) > 0)
  BY <1>6, <1>7, <1>11
<1>12. Count(q)' = Count(q) /\ OneParent(q)' = OneParent(q) BY DEF Count, OneParent
<1>13. ProposalsSound'
  <2> SUFFICES ASSUME phase' # "refused" PROVE ProposalsSound' BY DEF ProposalsSound
  <2>1. q.round # 0 /\ \A i \in DOMAIN q.parents : Valid(q.parents[i])' BY <1>7, <1>9
  <2>2. \A point \in output' : Near(point, q)' BY <1>8 DEF Near
  <2>3. phase' = "proposing" => Mutable' # {} /\ Count(q) > 0 BY <1>4, <1>6, <1>7
  <2>4. phase' = "proposing" => ~(left' < 4 * Count(q)) BY <1>6, <1>10
  <2> QED BY <1>1, <1>4, <1>8, <1>10, <1>11, <1>12, <2>1, <2>2, <2>3, <2>4 DEF ProposalsSound, Count, OneParent
<1> QED BY <1>3, <1>5, <1>13 DEF SpaceInv

LEMMA RemainderIsBelow ==
  ASSUME NEW n \in Nat, NEW m \in Nat \ {0}
  PROVE  n % m \in 0..m - 1
OBVIOUS

\* What one attempt proposes.
LEMMA TryProposes ==
  ASSUME SpaceInv, Try, NEW q, q = asked.q
  PROVE  \E point \in Points :
           /\ output' = output \cup ({point} \ Range(q.parents))
           /\ Near(point, q)
           /\ OneParent(q) => point \notin Range(q.parents)
<1>1. phase = "proposing" /\ left > 0 BY DEF Try
<1>2. space \in Spaces /\ asked.call = "propose" /\ q \in Proposals BY <1>1, WhatIsAsked DEF SpaceInv
<1>3. /\ q.round # 0 /\ \A i \in DOMAIN q.parents : Valid(q.parents[i])
      /\ Mutable # {} /\ left \in 0..4 * Count(q)
  BY <1>1, <1>2 DEF SpaceInv, ProposalsSound
<1>4. q.parents \in Seq(Seq(Nat)) /\ Count(q) \in Nat /\ Radius(q) \in Nat \ {0}
  BY <1>2, <1>3, ProposalTyped
<1> DEFINE at == 1 + (Attempt % Len(q.parents))
           base == q.parents[at]
<1>5. PICK point \in IF Restarts(q) THEN Restarted ELSE Moved(base, Radius(q)) :
        output' = output \cup ({point} \ Range(q.parents))
  BY DEF Try
<1>6. CASE Restarts(q)
  <2>1. point \in Points BY <1>2, <1>5, <1>6, RestartedArePoints
  <2>2. Near(point, q) BY <1>6 DEF Restarts, Near
  <2>3. ~OneParent(q)
    <3>1. q.parents = <<>> => Len(q.parents) # 1 OBVIOUS
    <3>2. q.parents = <<>> \/ q.round % q.settings.restart = 0 BY <1>6 DEF Restarts
    <3> QED BY <3>1, <3>2 DEF OneParent
  <2> QED BY <1>5, <2>1, <2>2, <2>3
<1>7. CASE ~Restarts(q)
  <2>1. Len(q.parents) \in Nat \ {0} BY <1>4, <1>7 DEF Restarts
  <2>2. Attempt \in Nat BY <1>2, <1>3, <1>4 DEF Attempt
  <2>3. at \in 1..Len(q.parents)
    <3>1. PICK r : r = Attempt % Len(q.parents) OBVIOUS
    <3>2. r \in 0..Len(q.parents) - 1 BY <2>1, <2>2, <3>1, RemainderIsBelow, Zenon
    <3>3. 1 + r \in 1..Len(q.parents) BY <2>1, <3>2
    <3> QED BY <3>1, <3>3
  <2>4. base \in Seq(Nat) /\ base \in Range(q.parents) BY <1>4, <2>3 DEF Range
  <2>5. Valid(base) BY <1>3, <1>4, <2>3
  <2>6. base \in Points BY <1>2, <2>4, <2>5, ValidIsAPoint
  <2>7. point \in Moved(base, Radius(q)) BY <1>5, <1>7
  <2>8. point \in Points /\ Distance(point, base) = Radius(q) /\ point # base
    <3> HIDE DEF base
    <3> QED BY <1>2, <1>4, <2>6, <2>7, MovedAreNear
  <2>9. Near(point, q) BY <2>4, <2>8 DEF Near
  <2>10. ASSUME OneParent(q) PROVE Range(q.parents) = {base}
    <3>1. Len(q.parents) = 1 BY <2>10 DEF OneParent
    <3>2. at = 1 /\ DOMAIN q.parents = {1} BY <1>4, <2>3, <3>1
    <3> QED BY <3>2 DEF Range
  <2> QED BY <1>5, <2>8, <2>9, <2>10
<1> QED BY <1>6, <1>7

LEMMA TryInv == ASSUME SpaceInv, Try PROVE SpaceInv'
<1> PICK q : q = asked.q OBVIOUS
<1>1. /\ space' = space /\ asked' = asked /\ phase' = phase /\ phase = "proposing" /\ left > 0
      /\ Cardinality(output) < Count(q) /\ left' = left - 1 /\ stopped' = stopped
  BY DEF Try
<1>2. CallSound /\ space \in Spaces /\ asked.call = "propose" /\ q \in Proposals
  BY <1>1, WhatIsAsked DEF SpaceInv
<1>3. /\ q.round # 0 /\ \A i \in DOMAIN q.parents : Valid(q.parents[i])
      /\ IsFiniteSet(output) /\ output \subseteq Points \ Range(q.parents)
      /\ \A point \in output : Near(point, q)
      /\ Mutable # {} /\ Count(q) > 0 /\ left \in 0..4 * Count(q)
  BY <1>1, <1>2 DEF SpaceInv, ProposalsSound
<1>4. Count(q) \in Nat BY <1>2, ProposalTyped
<1>5. Axes' = Axes /\ Mutable' = Mutable /\ Points' = Points BY <1>1, PointsStay
<1>6. PICK point \in Points :
        /\ output' = output \cup ({point} \ Range(q.parents))
        /\ Near(point, q)
        /\ OneParent(q) => point \notin Range(q.parents)
  BY TryProposes
<1>7. IsFiniteSet(output') /\ Cardinality(output') <= Count(q)
  <2>1. Cardinality(output) \in Nat BY <1>3, FS_CardinalityType
  <2>2. CASE point \in Range(q.parents)
    <3>1. output' = output BY <1>6, <2>2
    <3> QED BY <1>1, <1>3, <1>4, <2>1, <3>1
  <2>3. CASE point \notin Range(q.parents)
    <3>1. output' = output \cup {point} BY <1>6, <2>3
    <3>2. /\ IsFiniteSet(output')
          /\ Cardinality(output') = IF point \in output THEN Cardinality(output) ELSE Cardinality(output) + 1
      BY <1>3, <3>1, FS_AddElement
    <3> QED BY <1>1, <1>4, <2>1, <3>2
  <2> QED BY <2>2, <2>3
<1>8. output' \subseteq Points \ Range(q.parents) BY <1>3, <1>6
<1>9. \A p \in output' : Near(p, q) BY <1>3, <1>6
<1>10. OneParent(q) => output' # {} BY <1>6
<1>11. left' \in 0..4 * Count(q) BY <1>1, <1>3, <1>4
<1>12. ASSUME NEW p, Near(p, q) PROVE Near(p, q)'
  BY <1>1, <1>5, <1>12 DEF Near, Distance, Radius
<1>13. ASSUME NEW p, Valid(p) PROVE Valid(p)' BY <1>1, <1>13 DEF Valid, Axes
<1>14. ProposalsSound'
  <2>1. \A i \in DOMAIN q.parents : Valid(q.parents[i])' BY <1>3, <1>13
  <2>2. \A p \in output' : Near(p, q)' BY <1>9, <1>12
  <2> QED BY <1>1, <1>2, <1>3, <1>5, <1>7, <1>8, <1>10, <1>11, <2>1, <2>2 DEF ProposalsSound, Count, OneParent
<1>15. CallSound' BY <1>1, <1>2, CallGoesOn
<1>16. ListSound' BY <1>1, <1>2 DEF ListSound
<1> QED BY <1>14, <1>15, <1>16 DEF SpaceInv

\* The end of the attempts, and a stop, leave what was proposed as it is.
LEMMA EndTriesInv == ASSUME SpaceInv, EndTries \/ Stop PROVE SpaceInv'
<1> DEFINE q == asked.q
<1>1. /\ space' = space /\ asked' = asked /\ output' = output /\ left' = left
      /\ listed' = listed /\ current' = current
      /\ stopped => stopped'
      /\ \/ phase' = phase /\ phase \in {"idle", "proposing"}
         \/ /\ phase = "proposing" /\ phase' = "answered" /\ stopped' = stopped
            /\ left = 0 \/ Cardinality(output) = Count(q) \/ stopped
  BY DEF EndTries, Stop
<1>2. CallSound BY DEF SpaceInv
<1>3. CallSound' BY <1>1, <1>2, CallGoesOn DEF CallSound, First, Axes
<1>4. Axes' = Axes /\ Mutable' = Mutable /\ Points' = Points BY <1>1, PointsStay
<1>5. ListSound' BY <1>1, <1>2, WhatIsAsked DEF ListSound
<1>6. ASSUME asked.call = "propose", phase = "proposing"
      PROVE  /\ q \in Proposals /\ Count(q) \in Nat /\ q' = q
             /\ \A p : Valid(p)' <=> Valid(p)
             /\ \A p : Near(p, q)' <=> Near(p, q)
  <2>1. space \in Spaces /\ q \in Proposals BY <1>2, <1>6, WhatIsAsked
  <2>2. Count(q) \in Nat BY <2>1, ProposalTyped
  <2> QED BY <1>1, <1>4, <2>1, <2>2 DEF Valid, Near, Distance, Radius, Axes
<1>7. ProposalsSound'
  <2> SUFFICES ASSUME asked.call = "propose" PROVE ProposalsSound' BY <1>1 DEF ProposalsSound
  <2>1. phase = "proposing" BY <1>1, <1>2, WhatIsAsked
  <2> QED BY <1>1, <1>4, <1>6, <2>1, FS_EmptySet DEF SpaceInv, ProposalsSound, Count, OneParent
<1> QED BY <1>3, <1>5, <1>7 DEF SpaceInv

LEMMA NothingHappens == ASSUME SpaceInv, UNCHANGED spaceVars PROVE SpaceInv'
<1>1. /\ phase' = phase /\ space' = space /\ asked' = asked /\ left' = left
      /\ current' = current /\ listed' = listed /\ output' = output /\ stopped' = stopped
  BY DEF spaceVars
<1>2. Axes' = Axes /\ Mutable' = Mutable /\ Points' = Points BY <1>1, PointsStay
<1>3. CallSound' BY <1>1, <1>2 DEF SpaceInv, CallSound, First
<1>4. ListSound' BY <1>1, <1>2 DEF SpaceInv, ListSound, Below, Before
<1>5. ProposalsSound'
  BY <1>1, <1>2 DEF SpaceInv, ProposalsSound, Near, OneParent, Valid, Count, Radius, Distance
<1> QED BY <1>3, <1>4, <1>5 DEF SpaceInv

LEMMA NextSpace == SpaceInv /\ [SpaceNext]_spaceVars => SpaceInv'
<1> SUFFICES ASSUME SpaceInv, [SpaceNext]_spaceVars PROVE SpaceInv' OBVIOUS
<1>1. ASSUME NEW limit \in Enumerations, Enumerate(limit) PROVE SpaceInv' BY <1>1, EnumerateInv
<1>2. CASE ListPoint BY <1>2, ListPointInv
<1>3. CASE EndList BY <1>3, EndListInv
<1>4. ASSUME NEW q \in Proposals, Propose(q) PROVE SpaceInv' BY <1>4, ProposeInv
<1>5. CASE Try BY <1>5, TryInv
<1>6. CASE EndTries \/ Stop BY <1>6, EndTriesInv
<1>7. CASE UNCHANGED spaceVars BY <1>7, NothingHappens
<1> QED BY <1>1, <1>2, <1>3, <1>4, <1>5, <1>6, <1>7 DEF SpaceNext

\* The invariant says of the answers what AnswersAreSound asks.
LEMMA SpaceInvMeans == ASSUME SpaceInv PROVE AnswersAreSound
<1>1. CallSound /\ ListSound /\ ProposalsSound /\ space \in Spaces BY WhatIsAsked DEF SpaceInv
<1>2. ASSUME asked.call = "enumerate"
      PROVE  /\ (phase = "refused") <=> Cardinality(Points) > asked.limit
             /\ phase = "unreserved" => listed = <<>>
             /\ phase = "answered" =>
                  /\ Cardinality(Points) <= MaxReserve
                  /\ Range(listed) = Points
                  /\ \A i, j \in DOMAIN listed : i < j => Before(listed[i], listed[j])
  <2>1. ASSUME phase = "answered" PROVE Range(listed) = Points
    <3>1. Len(listed) = Cardinality(Points) BY <1>1, <1>2, <2>1 DEF ListSound
    <3> QED BY <1>1, <1>2, <2>1, <3>1, ListedOnce, FS_Subset
  <2> QED BY <1>1, <1>2, <2>1 DEF ListSound
<1>3. ASSUME NEW q, q = asked.q, asked.call = "propose", phase # "refused"
      PROVE  /\ output \subseteq Points \ Range(q.parents) /\ Cardinality(output) <= q.limit
             /\ \A point \in output : Near(point, q)
             /\ phase = "answered" /\ OneParent(q) /\ ~stopped /\ Mutable # {} /\ Count(q) > 0 =>
                  output # {}
  <2>1. q \in Proposals BY <1>1, <1>3, WhatIsAsked
  <2>2. Count(q) \in Nat /\ Count(q) <= q.limit /\ q.limit \in Nat BY <1>1, <2>1, ProposalTyped
  <2>3. IsFiniteSet(output) /\ Cardinality(output) <= Count(q) BY <1>1, <1>3 DEF ProposalsSound
  <2>4. Cardinality(output) \in Nat BY <2>3, FS_CardinalityType
  <2>5. Cardinality(output) <= q.limit BY <2>2, <2>3, <2>4
  <2> QED BY <1>1, <1>3, <2>5 DEF ProposalsSound
<1> QED BY <1>2, <1>3 DEF AnswersAreSound, Near, OneParent

\* For every space, every limit and every call: an enumeration is refused for its limit
\* exactly when the space is larger, and otherwise is the whole space in order or, when
\* there is no room to reserve for it, nothing; proposals are new valid points within the limit and at the radius; size and enumerate's odometer,
\* and propose's attempts, of DiscreteSpace.
THEOREM EnumerationsAndProposals == SpaceSpec => []AnswersAreSound
<1>1. SpaceInv => AnswersAreSound BY SpaceInvMeans
<1> QED BY InitSpace, NextSpace, <1>1, PTL DEF SpaceSpec

-----------------------------------------------------------------------------
(* ExtractionWorker: what is admitted from a worker and what is left of it,   *)
(* for every bound on the artifact.                                           *)

\* A process that succeeded has written all it had to write.
WorkSound ==
  /\ size \in Nat /\ artifact \in Nat
  /\ work \in {"write", "done"} => size \in 1..Limit + 1 /\ artifact <= size
  /\ work = "extract" => artifact = 0
  /\ work = "done" => artifact = size
  /\ exit = "success" => work = "done" /\ process \in {"exited", "collected"}

\* Where the caller is tells what it knows of the process.
CallerSound ==
  /\ step \in {"start", "spawn"} => process = "none"
  /\ step \in {"files", "deadline", "status", "stop", "kill", "killed", "wait", "drop kill",
             "drop wait"} => process # "none"
  /\ step \in {"last files", "last deadline", "read", "decode", "admit"} => process = "collected"
  /\ step \in {"unwind", "returned"} => process \in {"none", "collected"}
  /\ step \in {"kill", "killed", "wait", "drop kill", "drop wait"} => process # "collected"
  /\ scratch = "removed" => step = "returned"

\* The worker has succeeded within the bound where its artifact is read.
OutcomeSound ==
  /\ step = "last deadline" => artifact <= Limit
  /\ outcome = "exited" => exit = "success" /\ artifact <= Limit /\ process = "collected"
  /\ step \in {"read", "decode", "admit"} => outcome = "exited"

ExtractionInv == WorkSound /\ CallerSound /\ OutcomeSound

LEMMA InitExtraction == ExtractionInit => ExtractionInv
BY DEF ExtractionInit, ExtractionInv, WorkSound, CallerSound, OutcomeSound

\* The worker writes only while it runs.
LEMMA WorkerKeeps ==
  ASSUME ExtractionInv, Worker \/ Expire
  PROVE  ExtractionInv'
<1>. USE LimitAssumption DEF ExtractionInv, caller, worker
<1>1. CASE Extract
  <2>1. WorkSound'
    <3>1. artifact' = 0 /\ work' # "done" /\ work' # "extract" /\ exit' # "success"
      BY <1>1 DEF Extract, WorkSound
    <3>2. size' \in Nat
      <4>1. size' = size \/ size' \in 1..Limit + 1 \/ size' = Limit + 1
        BY <1>1 DEF Extract
      <4>2. size \in Nat
        BY DEF WorkSound
      <4>. QED  BY <4>1, <4>2
    <3>3. work' = "write" => size' \in 1..Limit + 1
      BY <1>1 DEF Extract
    <3>. QED  BY <3>1, <3>2, <3>3 DEF WorkSound
  <2>2. CallerSound'
    BY <1>1 DEF Extract, CallerSound
  <2>3. OutcomeSound'
    BY <1>1 DEF Extract, WorkSound, CallerSound, OutcomeSound
  <2>. QED  BY <2>1, <2>2, <2>3
<1>2. CASE Write
  <2>1. WorkSound'
    BY <1>2 DEF Write, WorkSound
  <2>2. CallerSound'
    BY <1>2 DEF Write, CallerSound
  <2>3. OutcomeSound'
    BY <1>2 DEF Write, WorkSound, CallerSound, OutcomeSound
  <2>. QED  BY <2>1, <2>2, <2>3
<1>3. CASE Exit
  <2>1. WorkSound'
    BY <1>3 DEF Exit, WorkSound
  <2>2. CallerSound'
    BY <1>3 DEF Exit, CallerSound
  <2>3. OutcomeSound'
    BY <1>3 DEF Exit, WorkSound, CallerSound, OutcomeSound
  <2>. QED  BY <2>1, <2>2, <2>3
<1>4. CASE Crash
  <2>1. WorkSound'
    BY <1>4 DEF Crash, WorkSound
  <2>2. CallerSound'
    BY <1>4 DEF Crash, CallerSound
  <2>3. OutcomeSound'
    BY <1>4 DEF Crash, WorkSound, CallerSound, OutcomeSound
  <2>. QED  BY <2>1, <2>2, <2>3
<1>5. CASE Expire
  BY <1>5 DEF Expire, WorkSound, CallerSound, OutcomeSound
<1>. QED  BY <1>1, <1>2, <1>3, <1>4, <1>5 DEF Worker

\* Every step of the caller keeps what it knows true.
LEMMA CallerKeeps ==
  ASSUME ExtractionInv, Caller
  PROVE  ExtractionInv'
<1>. USE LimitAssumption DEF ExtractionInv, caller, worker, reaped, Goto, End, Collect
<1>1. CASE OpenScratch \/ Unwind
  BY <1>1 DEF OpenScratch, Unwind, WorkSound, CallerSound, OutcomeSound
<1>2. CASE Spawn
  BY <1>2 DEF Spawn, WorkSound, CallerSound, OutcomeSound
<1>3. CASE Poll
  BY <1>3 DEF Poll, WorkSound, CallerSound, OutcomeSound
<1>4. CASE Exited
  <2>1. CASE step = "last files"
    <3>1. process = "collected" /\ artifact \in Nat
      BY <2>1 DEF WorkSound, CallerSound
    <3>2. \/ step' = "stop" /\ outcome' = "size"
          \/ step' = "last deadline" /\ artifact <= Limit /\ outcome' = outcome
      BY <1>4, <2>1, <3>1 DEF Exited
    <3>3. UNCHANGED <<kind, scratch, worker, overdue, process>>
      BY <1>4, <2>1 DEF Exited
    <3>. QED  BY <3>1, <3>2, <3>3, <2>1 DEF WorkSound, CallerSound, OutcomeSound
  <2>2. CASE step = "last deadline"
    <3>1. process = "collected" /\ artifact <= Limit
      BY <2>2 DEF CallerSound, OutcomeSound
    <3>2. /\ step' = "stop" /\ outcome' \in {"late", "exited", "worker"}
          /\ outcome' = "exited" => exit = "success"
      BY <1>4, <2>2 DEF Exited
    <3>3. UNCHANGED <<kind, scratch, worker, overdue, process>>
      BY <1>4, <2>2 DEF Exited
    <3>4. WorkSound'
      BY <3>3 DEF WorkSound
    <3>5. CallerSound'
      BY <2>2, <3>1, <3>2, <3>3 DEF CallerSound
    <3>6. OutcomeSound'
      BY <3>1, <3>2, <3>3 DEF OutcomeSound
    <3>. QED  BY <3>4, <3>5, <3>6
  <2>. QED  BY <1>4, <2>1, <2>2 DEF Exited
<1>5. CASE TryStop
  BY <1>5 DEF TryStop, After, WorkSound, CallerSound, OutcomeSound
<1>6. CASE KillAndWait
  BY <1>6 DEF KillAndWait, Killed, After, WorkSound, CallerSound, OutcomeSound
<1>7. CASE DropChild
  BY <1>7 DEF DropChild, Killed, WorkSound, CallerSound, OutcomeSound
<1>8. CASE Read
  BY <1>8 DEF Read, WorkSound, CallerSound, OutcomeSound
<1>. QED  BY <1>1, <1>2, <1>3, <1>4, <1>5, <1>6, <1>7, <1>8 DEF Caller

LEMMA NextExtraction == ExtractionInv /\ [ExtractionNext]_extractionVars => ExtractionInv'
<1>1. ExtractionInv /\ UNCHANGED extractionVars => ExtractionInv'
  BY DEF extractionVars, caller, worker, ExtractionInv, WorkSound, CallerSound, OutcomeSound
<1>. QED  BY <1>1, WorkerKeeps, CallerKeeps DEF ExtractionNext

\* For every bound: a worker never outlives its scratch directory nor its call.
THEOREM WorkerIsGone == ExtractionSpec => []NothingLeftRunning
<1>1. ExtractionInv => NothingLeftRunning
  BY DEF ExtractionInv, CallerSound, NothingLeftRunning
<1>. QED  BY <1>1, InitExtraction, NextExtraction, PTL DEF ExtractionSpec

\* The step that admits data finds its worker collected and successful, the
\* artifact whole and within its bound, and the deadline ahead.
LEMMA AdmitStep ==
  ASSUME ExtractionInv, ExtractionNext, outcome' = "admitted", outcome # "admitted"
  PROVE  /\ process = "collected" /\ exit = "success"
         /\ artifact = size /\ artifact \in 1..Limit
         /\ ~overdue
<1>1. step = "admit" /\ ~overdue
  <2>1. CASE Caller
    BY <2>1 DEF Caller, OpenScratch, Spawn, Poll, Exited, TryStop, KillAndWait, DropChild, Read, Unwind,
       reaped, Goto, End, Collect, Killed
  <2>2. CASE Worker \/ Expire
    BY <2>2 DEF Worker, Expire, Extract, Write, Exit, Crash, caller
  <2>. QED  BY <2>1, <2>2 DEF ExtractionNext
<1>. QED  BY <1>1, LimitAssumption DEF ExtractionInv, WorkSound, CallerSound, OutcomeSound

\* For every bound: only a whole, bounded artifact of a worker that succeeded and is
\* collected is admitted, before the deadline.
THEOREM OnlyFinalArtifacts == ExtractionSpec => AdmittedIsFinal
<1>1. ExtractionInv /\ [ExtractionNext]_extractionVars =>
        [outcome' = "admitted" /\ outcome # "admitted" =>
           /\ process = "collected" /\ exit = "success"
           /\ artifact = size /\ artifact \in 1..Limit
           /\ ~overdue]_extractionVars
  BY AdmitStep
<1>. QED  BY <1>1, InitExtraction, NextExtraction, PTL DEF ExtractionSpec, AdmittedIsFinal
=============================================================================
