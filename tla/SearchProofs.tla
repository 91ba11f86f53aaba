----------------------------- MODULE SearchProofs -----------------------------
(***************************************************************************)
(* What Search.tla promises for every budget, every domain and every way    *)
(* the jobs of a batch are scheduled.                                       *)
(***************************************************************************)
EXTENDS Search, FiniteSetTheorems, SequenceTheorems, WellFoundedInduction, TLAPS

SlotStates == {"waiting", "running", "skipped", "late", "unstarted", "returned"}

\* Counting keeps the statistics typed.
LEMMA Counting ==
  ASSUME stats \in [Counters -> Nat], NEW c \in Counters, NEW d \in Counters
  PROVE  Count(c) \in [Counters -> Nat] /\ Count2(c, d) \in [Counters -> Nat]
  BY DEF Count, Count2

\* A prefix taken from a list is a list, no longer than asked.
LEMMA Prefix ==
  ASSUME NEW S, NEW s \in Seq(S), NEW n \in Int
  PROVE  /\ AtMost(n, s) \in Seq(S)
         /\ Len(AtMost(n, s)) = IF Len(s) <= n THEN Len(s)
                                ELSE IF n >= 0 THEN n ELSE 0
<1> DEFINE k == IF Len(s) <= n THEN Len(s) ELSE n
<1>1. k \in Int /\ k <= Len(s)
  OBVIOUS
<1>2. \A i \in 1..k : s[i] \in S
  BY <1>1
<1> HIDE DEF k
<1>3. /\ SubSeq(s, 1, k) \in Seq(S)
      /\ Len(SubSeq(s, 1, k)) = IF 1 <= k THEN k - 1 + 1 ELSE 0
  BY <1>1, <1>2, SubSeqProperties
<1>4. AtMost(n, s) = SubSeq(s, 1, k)
  BY DEF AtMost, k
<1>5. QED
  BY <1>1, <1>3, <1>4 DEF k

\* What a stop or a budget leaves behind is typed.
LEMMA Ending ==
  ASSUME TypeOK, NEW reason \in Reasons, End(reason)
  PROVE  /\ pc' = "verify" /\ next' \in Nat \ {0} /\ termination' \in Reasons
         /\ feasible' \subseteq Candidates /\ infeasible' \subseteq Candidates
  BY DEF TypeOK, End, Best

LEMMA Reason == StopReason \in Reasons
  BY DEF StopReason, Reasons

\* One round keeps the types.
LEMMA RoundTypes ==
  TypeOK /\ (BeginRound \/ Screen \/ BadKey \/ Screened \/ Propose \/ ProposeFails)
    => TypeOK'
<1> SUFFICES ASSUME TypeOK, BeginRound \/ Screen \/ BadKey \/ Screened \/ Propose
                              \/ ProposeFails
             PROVE  TypeOK'
  OBVIOUS
<1> USE DEF queue, batch, archives, history
<1>1. CASE BeginRound
  <2>1. ASSUME UNCHANGED <<stats, queue>>, NEW r \in Reasons, End(r)
        PROVE  TypeOK'
    <3>1. /\ pc' = "verify" /\ next' \in Nat \ {0} /\ termination' \in Reasons
          /\ feasible' \subseteq Candidates /\ infeasible' \subseteq Candidates
      BY <2>1, Ending
    <3>2. QED
      BY <1>1, <2>1, <3>1 DEF BeginRound, TypeOK
  <2>2. ASSUME stats' = Count("rounds"), eligible' = <<>>, Continue("screen"),
               UNCHANGED <<seen, next>>,
               \E t \in [1..Len(proposals) -> Candidates] : proposals' = t
        PROVE  TypeOK'
    <3>1. proposals' \in Seq(Candidates)
      <4>1. PICK t \in [1..Len(proposals) -> Candidates] : proposals' = t
        BY <2>2
      <4>2. Len(proposals) \in Nat
        BY DEF TypeOK
      <4>3. t \in Seq(Candidates)
        BY <4>2, SeqDef
      <4>4. QED
        BY <4>1, <4>3
    <3>2. stats' \in [Counters -> Nat]
      BY <2>2, Counting DEF TypeOK, Counters
    <3>3. QED
      BY <1>1, <2>2, <3>1, <3>2 DEF BeginRound, Continue, TypeOK
  <2>3. QED
    BY <1>1, <2>1, <2>2, Reason DEF BeginRound, Reasons
<1>2. CASE Screen
  <2> DEFINE c == Head(proposals)
  <2>1. c \in Candidates /\ Tail(proposals) \in Seq(Candidates)
        /\ Append(eligible, c) \in Seq(Candidates)
    BY <1>2 DEF Screen, TypeOK
  <2>2. stats' \in [Counters -> Nat]
    <3>1. /\ Count("proposals") \in [Counters -> Nat]
          /\ Count2("proposals", "duplicates") \in [Counters -> Nat]
          /\ Count2("proposals", "rejected") \in [Counters -> Nat]
      BY Counting DEF TypeOK, Counters
    <3>2. stats' \in {stats, Count("proposals"), Count2("proposals", "duplicates"),
                      Count2("proposals", "rejected")}
      BY <1>2 DEF Screen
    <3>3. QED
      BY <3>1, <3>2 DEF TypeOK
  <2>3. /\ pc' \in {"screen", "verify"} /\ next' \in Nat \ {0}
        /\ termination' \in Reasons
        /\ feasible' \subseteq Candidates /\ infeasible' \subseteq Candidates
    <3>1. CASE \E r \in Reasons : End(r)
      BY <3>1, Ending
    <3>2. CASE Continue("screen") /\ UNCHANGED next
      BY <3>2 DEF Continue, TypeOK
    <3>3. QED
      BY <1>2, <3>1, <3>2, Reason DEF Screen, Reasons
  <2>4. /\ proposals' \in Seq(Candidates) /\ eligible' \in Seq(Candidates)
        /\ seen' \subseteq Candidates
    BY <1>2, <2>1 DEF Screen, TypeOK
  <2>5. QED
    BY <1>2, <2>2, <2>3, <2>4 DEF Screen, TypeOK
<1>3. CASE BadKey
  BY <1>3 DEF BadKey, TypeOK
<1>4. CASE Screened
  BY <1>4 DEF Screened, TypeOK
<1>5. CASE Propose
  <2>1. CASE UNCHANGED proposals /\ End(StopReason)
    BY <1>5, <2>1, Reason, Ending DEF Propose, TypeOK
  <2>2. ASSUME NEW s \in Batches, proposals' = s,
               IF s = <<>> /\ ~plan.retries
                 THEN End("SearchStalled")
                 ELSE Continue("round") /\ UNCHANGED next
        PROVE  TypeOK'
    <3>1. proposals' \in Seq(Candidates)
      BY <2>2, DomainAssumption
    <3>2. /\ pc' \in {"round", "verify"} /\ next' \in Nat \ {0}
          /\ termination' \in Reasons
          /\ feasible' \subseteq Candidates /\ infeasible' \subseteq Candidates
      <4>1. CASE End("SearchStalled")
        BY <4>1, Ending DEF Reasons
      <4>2. CASE Continue("round") /\ UNCHANGED next
        BY <4>2 DEF Continue, TypeOK
      <4>3. QED
        BY <2>2, <4>1, <4>2
    <3>3. QED
      BY <1>5, <3>1, <3>2 DEF Propose, TypeOK
  <2>3. QED
    BY <1>5, <2>1, <2>2 DEF Propose
<1>6. CASE ProposeFails
  BY <1>6 DEF ProposeFails, TypeOK
<1>7. QED
  BY <1>1, <1>2, <1>3, <1>4, <1>5, <1>6

\* A batch keeps the types.
LEMMA BatchTypes ==
  TypeOK /\ (BeginBatch \/ JoinJobs \/ CollectResult \/ EndBatch \/ EndRound)
    => TypeOK'
<1> SUFFICES ASSUME TypeOK, BeginBatch \/ JoinJobs \/ CollectResult \/ EndBatch
                              \/ EndRound
             PROVE  TypeOK'
  OBVIOUS
<1> USE DEF queue, batch, archives, history
<1>1. CASE BeginBatch
  <2>1. ASSUME End(StopReason) \/ End("EvaluationBudget"),
               UNCHANGED <<eligible, chunk, truncated, slot>>
        PROVE  TypeOK'
    BY <1>1, <2>1, Ending, Reason DEF BeginBatch, TypeOK, Reasons
  <2>2. ASSUME chunk' = AtMost(Available, AtMost(Jobs, eligible)),
               truncated' = (Len(AtMost(Jobs, eligible)) > Available),
               eligible' = SubSeq(eligible, Len(AtMost(Jobs, eligible)) + 1,
                                  Len(eligible)),
               slot' = [i \in 1..Len(chunk') |-> "waiting"],
               next' = 1, Continue("jobs"), Available # 0
        PROVE  TypeOK'
    <3> DEFINE full == AtMost(Jobs, eligible)
    <3>1. Available \in Int
      BY BudgetAssumption DEF Available, SearchLimit, TypeOK, Counters
    <3>2. full \in Seq(Candidates)
      BY BudgetAssumption, Prefix DEF TypeOK
    <3>3. chunk' \in Seq(Candidates)
      BY <2>2, <3>1, <3>2, Prefix
    <3>4. truncated' \in BOOLEAN
      BY <2>2
    <3>5. eligible' \in Seq(Candidates)
      <4>1. /\ Len(full) + 1 \in Int /\ Len(full) + 1 >= 1 /\ Len(eligible) \in Int
            /\ \A i \in Len(full) + 1..Len(eligible) : eligible[i] \in Candidates
        BY <3>2 DEF TypeOK
      <4>2. QED
        BY <2>2, <4>1, SubSeqProperties
    <3>6. slot' \in [1..Len(chunk') -> SlotStates]
      BY <2>2 DEF SlotStates
    <3>7. QED
      BY <1>1, <2>2, <3>3, <3>4, <3>5, <3>6 DEF BeginBatch, Continue, TypeOK, SlotStates
  <2>3. QED
    <3>1. CASE ~Stopped /\ Available # 0
      BY <1>1, <2>2, <3>1 DEF BeginBatch
    <3>2. CASE Stopped \/ Available = 0
      BY <1>1, <2>1, <3>2 DEF BeginBatch
    <3>3. QED
      BY <3>1, <3>2
<1>2. CASE JoinJobs
  BY <1>2 DEF JoinJobs, TypeOK
<1>3. CASE CollectResult
  <2>1. stats' \in [Counters -> Nat]
    <3> DEFINE o == Outcome(next)
    <3>1. o \in {"skipped", "late", "failures", "unavailable", "assessed"}
      BY DEF Outcome
    <3>2. CASE o = "skipped"
      BY <1>3, <3>2 DEF CollectResult, TypeOK
    <3>3. CASE o = "assessed"
      <4>1. stats' = Count("evaluations")
        BY <1>3, <3>3 DEF CollectResult
      <4>2. QED
        BY <4>1, Counting DEF TypeOK, Counters
    <3>4. CASE o \in {"late", "failures", "unavailable"}
      <4>1. stats' = Count2("evaluations", o)
        BY <1>3, <3>4 DEF CollectResult
      <4>2. "evaluations" \in Counters /\ o \in Counters
        BY <3>4 DEF Counters
      <4>3. QED
        BY <4>1, <4>2, Counting DEF TypeOK
    <3>5. QED
      BY <3>1, <3>2, <3>3, <3>4
  <2>2. next \in 1..Len(chunk) /\ chunk[next] \in Candidates
    BY <1>3 DEF CollectResult, TypeOK
  <2>3. feasible' \subseteq Candidates /\ infeasible' \subseteq Candidates
    BY <1>3, <2>2 DEF CollectResult, TypeOK, Best
  <2>4. next' \in Nat \ {0}
    BY <1>3 DEF CollectResult, TypeOK
  <2>5. UNCHANGED <<pc, plan, quality, proposals, eligible, seen, chunk, truncated,
                    slot, termination, checks, cancelled, expired, tried, judged>>
    BY <1>3 DEF CollectResult
  <2>6. QED
    BY <2>1, <2>3, <2>4, <2>5 DEF TypeOK
<1>4. CASE EndBatch
  <2>1. CASE UNCHANGED next /\ Continue("batch")
    BY <1>4, <2>1 DEF EndBatch, Continue, TypeOK
  <2>2. ASSUME NEW r \in Reasons, End(r) PROVE TypeOK'
    <3>1. /\ pc' = "verify" /\ next' \in Nat \ {0} /\ termination' \in Reasons
          /\ feasible' \subseteq Candidates /\ infeasible' \subseteq Candidates
      BY <2>2, Ending
    <3>2. QED
      BY <1>4, <3>1 DEF EndBatch, TypeOK
  <2>3. QED
    BY <1>4, <2>1, <2>2, Reason DEF EndBatch, Reasons
<1>5. CASE EndRound
  <2>1. CASE UNCHANGED next /\ Continue("propose")
    BY <1>5, <2>1 DEF EndRound, Continue, TypeOK
  <2>2. ASSUME NEW r \in Reasons, End(r) PROVE TypeOK'
    <3>1. /\ pc' = "verify" /\ next' \in Nat \ {0} /\ termination' \in Reasons
          /\ feasible' \subseteq Candidates /\ infeasible' \subseteq Candidates
      BY <2>2, Ending
    <3>2. QED
      BY <1>5, <3>1 DEF EndRound, TypeOK
  <2>3. QED
    BY <1>5, <2>1, <2>2, Reason DEF EndRound, Reasons
<1>6. QED
  BY <1>1, <1>2, <1>3, <1>4, <1>5

\* So do the jobs.
LEMMA JobTypes ==
  ASSUME TypeOK, NEW i \in 1..Jobs, StartJob(i) \/ ThreadFails(i) \/ FinishJob(i)
  PROVE  TypeOK'
<1> USE DEF queue, archives, history
<1>1. slot \in [1..Len(chunk) -> SlotStates] /\ i \in 1..Len(chunk)
  BY DEF TypeOK, SlotStates, StartJob, ThreadFails, FinishJob
<1>2. slot' \in [1..Len(chunk) -> SlotStates]
  BY <1>1 DEF StartJob, ThreadFails, FinishJob, SlotStates
<1>3. chunk[i] \in Candidates
  BY <1>1 DEF TypeOK
<1>4. UNCHANGED <<pc, plan, quality, proposals, eligible, seen, chunk, truncated,
                  next, feasible, infeasible, stats, termination, checks,
                  cancelled, expired>>
  BY DEF StartJob, ThreadFails, FinishJob
<1>5. tried' \subseteq Candidates /\ judged' \subseteq Candidates
  BY <1>3 DEF StartJob, ThreadFails, FinishJob, TypeOK
<1>6. QED
  BY <1>2, <1>4, <1>5 DEF TypeOK, SlotStates

\* And the verification.
LEMMA CheckTypes ==
  TypeOK /\ (BeginCheck \/ (\E fresh \in {"same", "differs", "failed"} : EndCheck(fresh))
             \/ Return \/ Cancel \/ DeadlinePasses)
    => TypeOK'
<1> USE DEF queue, batch, archives, history
<1>1. ASSUME TypeOK, BeginCheck PROVE TypeOK'
  <2>1. stats' \in [Counters -> Nat]
    BY <1>1, Counting DEF BeginCheck, TypeOK, Counters
  <2>2. QED
    BY <1>1, <2>1 DEF BeginCheck, TypeOK
<1>2. ASSUME TypeOK, NEW fresh \in {"same", "differs", "failed"}, EndCheck(fresh)
      PROVE  TypeOK'
  <2>1. PICK c \in feasible :
          checks' = Append(checks, [candidate |-> c,
                                    outcome |-> IF Stopped THEN "late" ELSE fresh])
    BY <1>2 DEF EndCheck
  <2> DEFINE e == [candidate |-> c, outcome |-> IF Stopped THEN "late" ELSE fresh]
  <2>2. e \in [candidate : Candidates,
               outcome : {"late", "same", "differs", "failed"}]
    BY <1>2 DEF TypeOK
  <2>3. checks' \in Seq([candidate : Candidates,
                         outcome : {"late", "same", "differs", "failed"}])
    BY <1>2, <2>1, <2>2 DEF TypeOK
  <2>4. stats' \in [Counters -> Nat]
    <3>1. /\ Count2("late", "failures") \in [Counters -> Nat]
          /\ Count("failures") \in [Counters -> Nat]
      BY <1>2, Counting DEF TypeOK, Counters
    <3>2. stats' \in {stats, Count("failures"), Count2("late", "failures")}
      BY <1>2 DEF EndCheck
    <3>3. QED
      BY <1>2, <3>1, <3>2 DEF TypeOK
  <2>5. QED
    BY <1>2, <2>3, <2>4 DEF EndCheck, TypeOK
<1>3. ASSUME TypeOK, Return PROVE TypeOK'
  BY <1>3 DEF Return, TypeOK
<1>4. ASSUME TypeOK, Cancel PROVE TypeOK'
  BY <1>4 DEF Cancel, TypeOK
<1>5. ASSUME TypeOK, DeadlinePasses PROVE TypeOK'
  BY <1>5 DEF DeadlinePasses, TypeOK
<1>6. QED
  BY <1>1, <1>2, <1>3, <1>4, <1>5

LEMMA TypeStep == TypeOK /\ [Next]_vars => TypeOK'
<1> SUFFICES ASSUME TypeOK, [Next]_vars PROVE TypeOK'
  OBVIOUS
<1>1. CASE Coordinator
  BY <1>1, RoundTypes, BatchTypes, CheckTypes DEF Coordinator
<1>2. CASE Job
  BY <1>2, JobTypes DEF Job
<1>3. CASE Cancel \/ DeadlinePasses
  BY <1>3, CheckTypes
<1>4. CASE UNCHANGED vars
  BY <1>4 DEF vars, queue, batch, archives, history, TypeOK
<1>5. QED
  BY <1>1, <1>2, <1>3, <1>4 DEF Next

LEMMA TypeInit == Init => TypeOK
<1> SUFFICES ASSUME Init PROVE TypeOK
  OBVIOUS
<1>1. plan.list \in Seq(Candidates)
  BY DomainAssumption DEF Init
<1>2. <<>> \in Seq(Candidates)
  OBVIOUS
<1>3. chunk \in Seq(Candidates) /\ slot = <<>> /\ Len(chunk) = 0
  BY <1>2 DEF Init
<1>4. slot \in [1..Len(chunk) -> SlotStates]
  BY <1>3 DEF SlotStates
<1>5. checks \in Seq([candidate : Candidates,
                      outcome : {"late", "same", "differs", "failed"}])
  BY DEF Init
<1>6. stats \in [Counters -> Nat] /\ next \in Nat \ {0} /\ termination \in Reasons
  BY DEF Init, Reasons
<1>7. /\ proposals \in Seq(Candidates) /\ eligible \in Seq(Candidates)
      /\ quality \in [Candidates -> Qualities]
  BY <1>1, DomainAssumption DEF Init
<1>8. truncated \in BOOLEAN /\ cancelled \in BOOLEAN /\ expired \in BOOLEAN
  BY DEF Init
<1>9. QED
  BY <1>3, <1>4, <1>5, <1>6, <1>7, <1>8 DEF Init, TypeOK, SlotStates

\* Every search keeps its types: the job results match the batch, the counters
\* are naturals, lists and archives hold candidates.
THEOREM TypeCorrect == Spec => []TypeOK
  BY TypeInit, TypeStep, PTL DEF Spec

-----------------------------------------------------------------------------
(* Budgets.                                                                *)

Verifying == pc \in {"verify", "checking", "done"}

\* The counters phase by phase: a batch holds the room it will count, and the
\* verification counts on from what the search left.
CountInv ==
  /\ stats["proposals"] <= Proposals /\ stats["rounds"] <= Rounds
  /\ ~Verifying => stats["verifications"] = 0 /\ stats["evaluations"] <= SearchLimit
  /\ pc \in {"jobs", "collect"} =>
       /\ next <= Len(chunk) + 1
       /\ stats["evaluations"] + Len(chunk) + 1 - next <= SearchLimit
  /\ pc = "jobs" => next = 1
  /\ Verifying => /\ stats["verifications"] <= Verifications
                  /\ stats["evaluations"] <= SearchLimit + stats["verifications"]
  /\ pc = "verify" => stats["verifications"] = next - 1
  /\ pc = "checking" => stats["verifications"] = next
  /\ Len(chunk) <= Jobs

\* The counters the budgets bound are naturals.
LEMMA Numbers ==
  TypeOK => /\ stats["evaluations"] \in Nat /\ stats["verifications"] \in Nat
            /\ stats["proposals"] \in Nat /\ stats["rounds"] \in Nat
            /\ next \in Nat \ {0} /\ Len(chunk) \in Nat
  BY DEF TypeOK, Counters

\* What counting does to each counter.
LEMMA Counted ==
  ASSUME stats \in [Counters -> Nat], NEW c \in Counters, NEW d \in Counters, c # d,
         NEW e \in Counters
  PROVE  /\ Count(c)[e] = IF e = c THEN stats[e] + 1 ELSE stats[e]
         /\ Count2(c, d)[e] = IF e \in {c, d} THEN stats[e] + 1 ELSE stats[e]
  BY DEF Count, Count2

\* An end of the search hands its counters over to the verification.
LEMMA EndCounts ==
  ASSUME TypeOK, CountInv, ~Verifying, NEW reason, End(reason), UNCHANGED chunk,
         stats' = stats \/ (stats["proposals"] < Proposals /\ stats' = Count("proposals"))
  PROVE  CountInv'
<1>1. /\ stats'["evaluations"] = stats["evaluations"]
      /\ stats'["verifications"] = stats["verifications"]
      /\ stats'["rounds"] = stats["rounds"]
      /\ stats'["proposals"] <= Proposals
  <2>1. CASE stats' = stats
    BY <2>1 DEF CountInv
  <2>2. CASE stats["proposals"] < Proposals /\ stats' = Count("proposals")
    <3>1. /\ stats'["proposals"] = stats["proposals"] + 1
          /\ \A e \in Counters \ {"proposals"} : stats'[e] = stats[e]
      BY <2>2 DEF TypeOK, Count, Counters
    <3>2. QED
      BY <2>2, <3>1, Numbers, BudgetAssumption DEF Counters
  <2>3. QED
    BY <2>1, <2>2
<1>2. pc' = "verify" /\ next' = 1
  BY DEF End
<1>3. QED
  BY <1>1, <1>2, Numbers, BudgetAssumption DEF CountInv, Verifying, SearchLimit

LEMMA CountStep == TypeOK /\ CountInv /\ [Next]_vars => CountInv'
<1> SUFFICES ASSUME TypeOK, CountInv, [Next]_vars PROVE CountInv'
  OBVIOUS
<1> USE BudgetAssumption DEF queue, batch, archives, history
<1>0. /\ stats["evaluations"] \in Nat /\ stats["verifications"] \in Nat
      /\ stats["proposals"] \in Nat /\ stats["rounds"] \in Nat
      /\ next \in Nat \ {0} /\ Len(chunk) \in Nat /\ SearchLimit \in Nat
      /\ stats \in [Counters -> Nat]
  BY Numbers DEF SearchLimit, TypeOK
<1>1. CASE BeginRound
  <2>1. CASE stats' = Count("rounds")
    <3>1. stats["rounds"] < Rounds
      BY <1>0, <1>1, <2>1 DEF BeginRound, Count, Counters
    <3>2. /\ stats'["rounds"] = stats["rounds"] + 1
          /\ \A c \in {"proposals", "evaluations", "verifications"} : stats'[c] = stats[c]
      BY <1>0, <2>1 DEF Count, Counters
    <3>3. pc' = "screen" /\ pc = "round" /\ UNCHANGED chunk
      BY <1>0, <1>1, <2>1, <3>2 DEF BeginRound, Continue
    <3>4. QED
      BY <1>0, <3>1, <3>2, <3>3 DEF CountInv, Verifying
  <2>2. ASSUME NEW r, End(r), stats' = stats PROVE CountInv'
    BY <1>1, <2>2, EndCounts DEF BeginRound, Verifying
  <2>3. QED
    BY <1>1, <2>1, <2>2 DEF BeginRound
<1>2. CASE Screen
  <2>1. CASE Continue("screen")
    <3>1. pc = "screen" /\ pc' = "screen" /\ UNCHANGED chunk
      BY <1>2, <2>1 DEF Screen, Continue
    <3>2. stats["proposals"] < Proposals
      BY <1>0, <1>2, <2>1 DEF Screen, Continue, End
    <3>3. stats' \in {Count("proposals"), Count2("proposals", "duplicates"),
                      Count2("proposals", "rejected")}
      BY <1>2, <2>1 DEF Screen, Continue, End
    <3>4. /\ stats'["proposals"] = stats["proposals"] + 1
          /\ \A c \in {"rounds", "evaluations", "verifications"} : stats'[c] = stats[c]
      BY <1>0, <3>3 DEF Count, Count2, Counters
    <3>5. QED
      BY <1>0, <3>1, <3>2, <3>4 DEF CountInv, Verifying
  <2>2. ASSUME NEW r, End(r) PROVE CountInv'
    BY <1>2, <2>2, EndCounts DEF Screen, Verifying, Continue, End
  <2>3. QED
    BY <1>2, <2>1, <2>2 DEF Screen
<1>3. CASE BadKey
  BY <1>3 DEF BadKey, CountInv, Verifying
<1>4. CASE Screened
  BY <1>4 DEF Screened, CountInv, Verifying
<1>5. CASE BeginBatch
  <2>1. ASSUME NEW r, End(r), UNCHANGED chunk PROVE CountInv'
    BY <1>5, <2>1, EndCounts DEF BeginBatch, Verifying
  <2>2. CASE ~Stopped /\ Available # 0
    <3> DEFINE full == AtMost(Jobs, eligible)
    <3>1. full \in Seq(Candidates) /\ Len(full) <= Jobs
      BY Prefix DEF TypeOK
    <3>2. Available \in Nat
      BY <1>0, <1>5, SMTT(60) DEF BeginBatch, Available, CountInv, Verifying, Counters
    <3>3. chunk' = AtMost(Available, full)
      BY <1>5, <2>2 DEF BeginBatch
    <3>4. /\ chunk' \in Seq(Candidates) /\ Len(chunk') <= Available
          /\ Len(chunk') <= Jobs
      BY <3>1, <3>2, <3>3, Prefix
    <3>5. pc' = "jobs" /\ next' = 1 /\ stats' = stats
      BY <1>5, <2>2 DEF BeginBatch, Continue
    <3>6. QED
      <4>1. Len(chunk') \in Nat /\ pc = "batch"
        BY <1>5, <3>4 DEF BeginBatch
      <4>2. stats["evaluations"] + Len(chunk') <= SearchLimit
        BY <1>0, <3>2, <3>4, <4>1 DEF Available
      <4>3. QED
        BY <1>0, <3>4, <3>5, <4>1, <4>2 DEF CountInv, Verifying
  <2>3. QED
    BY <1>5, <2>1, <2>2 DEF BeginBatch
<1>6. CASE JoinJobs
  BY <1>6 DEF JoinJobs, CountInv, Verifying
<1>7. CASE CollectResult
  <2>1. \/ stats' = stats
        \/ \E o \in Counters \ {"proposals", "rounds", "verifications", "evaluations"} :
             stats' = Count2("evaluations", o)
        \/ stats' = Count("evaluations")
    BY <1>7 DEF CollectResult, Outcome, Counters
  <2>2. /\ stats'["evaluations"] <= stats["evaluations"] + 1
        /\ stats'["evaluations"] \in Nat
        /\ \A c \in {"proposals", "rounds", "verifications"} : stats'[c] = stats[c]
    BY <1>0, <2>1 DEF Count, Count2, Counters
  <2>3. pc' = "collect" /\ next' = next + 1 /\ chunk' = chunk /\ next <= Len(chunk)
    BY <1>7 DEF CollectResult
  <2>4. QED
    <3>1. /\ stats'["proposals"] = stats["proposals"]
          /\ stats'["rounds"] = stats["rounds"]
          /\ stats'["verifications"] = stats["verifications"]
      BY <2>2
    <3>2. pc = "collect"
      BY <1>7 DEF CollectResult
    <3>3. stats'["evaluations"] <= SearchLimit
      <4>1. stats["evaluations"] + Len(chunk) + 1 - next <= SearchLimit
        BY <3>2 DEF CountInv
      <4>2. QED
        BY <1>0, <2>2, <2>3, <4>1
    <3>4. stats'["evaluations"] + Len(chunk') + 1 - next' <= SearchLimit
      <4>1. stats["evaluations"] + Len(chunk) + 1 - next <= SearchLimit
        BY <3>2 DEF CountInv
      <4>2. Len(chunk') = Len(chunk) /\ next' = next + 1
        BY <2>3
      <4>3. stats'["evaluations"] <= stats["evaluations"] + 1
            /\ stats'["evaluations"] \in Nat
        BY <2>2
      <4>4. QED
        BY <1>0, <4>1, <4>2, <4>3
    <3>5. QED
      BY <1>0, <2>3, <3>1, <3>2, <3>3, <3>4 DEF CountInv, Verifying
<1>8. CASE EndBatch
  <2>1. ASSUME NEW r, End(r) PROVE CountInv'
    BY <1>8, <2>1, EndCounts DEF EndBatch, Verifying
  <2>2. CASE Continue("batch") /\ UNCHANGED next
    BY <1>8, <2>2 DEF EndBatch, Continue, CountInv, Verifying
  <2>3. QED
    BY <1>8, <2>1, <2>2 DEF EndBatch
<1>9. CASE EndRound
  <2>1. ASSUME NEW r, End(r) PROVE CountInv'
    BY <1>9, <2>1, EndCounts DEF EndRound, Verifying
  <2>2. CASE Continue("propose") /\ UNCHANGED next
    BY <1>9, <2>2 DEF EndRound, Continue, CountInv, Verifying
  <2>3. QED
    BY <1>9, <2>1, <2>2 DEF EndRound
<1>10. CASE Propose
  <2>1. ASSUME NEW r, End(r) PROVE CountInv'
    BY <1>10, <2>1, EndCounts DEF Propose, Verifying
  <2>2. CASE Continue("round") /\ UNCHANGED next
    BY <1>10, <2>2 DEF Propose, Continue, CountInv, Verifying
  <2>3. QED
    BY <1>10, <2>1, <2>2 DEF Propose
<1>11. CASE ProposeFails
  BY <1>11 DEF ProposeFails, CountInv, Verifying
<1>12. CASE BeginCheck
  <2>1. next <= Verifications
    <3>1. Cardinality(feasible) \in Nat
      BY DomainAssumption, FS_Subset, FS_CardinalityType DEF TypeOK
    <3>2. QED
      BY <1>0, <1>12, <3>1 DEF BeginCheck, Finalists
  <2>2. QED
    <3>1. /\ stats'["evaluations"] = stats["evaluations"] + 1
          /\ stats'["verifications"] = stats["verifications"] + 1
          /\ \A c \in {"rounds", "proposals"} : stats'[c] = stats[c]
      BY <1>0, <1>12 DEF BeginCheck, Count2, Counters
    <3>2. pc = "verify" /\ pc' = "checking" /\ next' = next /\ chunk' = chunk
      BY <1>12 DEF BeginCheck
    <3>3. stats'["rounds"] = stats["rounds"] /\ stats'["proposals"] = stats["proposals"]
      BY <3>1
    <3>4. stats["verifications"] = next - 1
      BY <3>2 DEF CountInv
    <3>5. QED
      BY <1>0, <2>1, <3>1, <3>2, <3>3, <3>4 DEF CountInv, Verifying
<1>13. ASSUME NEW fresh \in {"same", "differs", "failed"}, EndCheck(fresh) PROVE CountInv'
  <2>1. \A c \in {"proposals", "rounds", "verifications", "evaluations"} :
          stats'[c] = stats[c]
    BY <1>0, <1>13 DEF EndCheck, Count, Count2, Counters
  <2>2. QED
    <3>1. pc = "checking" /\ pc' = "verify" /\ next' = next + 1 /\ chunk' = chunk
      BY <1>13 DEF EndCheck
    <3>2. /\ stats'["proposals"] = stats["proposals"]
          /\ stats'["rounds"] = stats["rounds"]
          /\ stats'["verifications"] = stats["verifications"]
          /\ stats'["evaluations"] = stats["evaluations"]
      BY <2>1
    <3>3. QED
      BY <1>0, <3>1, <3>2 DEF CountInv, Verifying
<1>14. CASE Return
  BY <1>14 DEF Return, CountInv, Verifying
<1>15. ASSUME NEW i \in 1..Jobs, StartJob(i) \/ ThreadFails(i) \/ FinishJob(i)
       PROVE  CountInv'
  BY <1>15 DEF StartJob, ThreadFails, FinishJob, CountInv, Verifying
<1>16. CASE Cancel \/ DeadlinePasses
  BY <1>16 DEF Cancel, DeadlinePasses, CountInv, Verifying
<1>17. CASE UNCHANGED vars
  BY <1>17 DEF vars, CountInv, Verifying
<1>18. QED
  BY <1>1, <1>2, <1>3, <1>4, <1>5, <1>6, <1>7, <1>8, <1>9, <1>10, <1>11, <1>12,
     <1>13, <1>14, <1>15, <1>16, <1>17 DEF Next, Coordinator, Job

\* No counter passes its budget, whatever the domain proposes, however the jobs
\* are scheduled and whenever the search is stopped.
THEOREM BudgetsAreKept == Spec => []BudgetsHold
<1>1. Init => CountInv
  BY BudgetAssumption DEF Init, CountInv, Verifying, Counters, SearchLimit
<1>2. TypeOK /\ CountInv => BudgetsHold
  BY BudgetAssumption, Numbers DEF CountInv, Verifying, BudgetsHold, SearchLimit
<1>3. QED
  BY <1>1, <1>2, TypeInit, TypeStep, CountStep, PTL DEF Spec

-----------------------------------------------------------------------------
(* The reserve.                                                            *)

\* Jobs whose candidate was tried and whose result is not counted yet.
Spent == {i \in DOMAIN slot : i >= next /\ slot[i] \notin {"waiting", "skipped"}}

\* Every candidate tried is counted, or waits in the batch to be counted.
TriedInv ==
  /\ Cardinality(tried) <= SearchLimit
  /\ ~Verifying /\ pc \notin {"jobs", "collect"} =>
       Cardinality(tried) <= stats["evaluations"]
  /\ pc \in {"jobs", "collect"} =>
       Cardinality(tried) <= stats["evaluations"] + Cardinality(Spent)

\* What is spent lies between the next result and the end of the batch.
LEMMA SpentBound ==
  ASSUME TypeOK, next <= Len(chunk) + 1
  PROVE  /\ IsFiniteSet(Spent) /\ Cardinality(Spent) \in Nat
         /\ Cardinality(Spent) <= Len(chunk) + 1 - next
<1>1. /\ next \in Int /\ Len(chunk) \in Int /\ next >= 1 /\ Len(chunk) >= 0
      /\ DOMAIN slot = 1..Len(chunk)
  BY DEF TypeOK
<1>2. /\ IsFiniteSet(next..Len(chunk))
      /\ Cardinality(next..Len(chunk)) = IF next > Len(chunk) THEN 0
                                         ELSE Len(chunk) - next + 1
  BY <1>1, FS_Interval
<1>3. Spent \subseteq next..Len(chunk)
  BY <1>1 DEF Spent
<1>4. IsFiniteSet(Spent) /\ Cardinality(Spent) <= Cardinality(next..Len(chunk))
  BY <1>2, <1>3, FS_Subset
<1>5. QED
  BY <1>1, <1>2, <1>4, FS_CardinalityType

\* The candidates tried are finitely many.
LEMMA TriedFinite ==
  TypeOK => IsFiniteSet(tried) /\ Cardinality(tried) \in Nat
  BY DomainAssumption, FS_Subset, FS_CardinalityType DEF TypeOK

\* A step outside a batch that leaves tried and the evaluations alone, or is in
\* the verification.
LEMMA TriedKept ==
  ASSUME TriedInv, tried' = tried, pc \notin {"jobs", "collect"},
         \/ Verifying'
         \/ /\ ~Verifying /\ pc' \notin {"jobs", "collect"}
            /\ stats'["evaluations"] = stats["evaluations"]
  PROVE  TriedInv'
<1>1. Cardinality(tried') = Cardinality(tried)
  OBVIOUS
<1>2. CASE Verifying'
  BY <1>1, <1>2 DEF TriedInv, Verifying
<1>3. CASE /\ ~Verifying /\ pc' \notin {"jobs", "collect"}
           /\ stats'["evaluations"] = stats["evaluations"]
  BY <1>1, <1>3 DEF TriedInv
<1>4. QED
  BY <1>2, <1>3

LEMMA TriedStep == TypeOK /\ CountInv /\ TriedInv /\ [Next]_vars => TriedInv'
<1> SUFFICES ASSUME TypeOK, CountInv, TriedInv, [Next]_vars PROVE TriedInv'
  OBVIOUS
<1> USE DEF queue, batch, archives, history
<1>0. /\ stats["evaluations"] \in Nat /\ next \in Nat \ {0} /\ Len(chunk) \in Nat
      /\ stats \in [Counters -> Nat] /\ "evaluations" \in Counters
  BY Numbers DEF TypeOK, Counters
<1>1. ASSUME BeginRound \/ Screen \/ BadKey \/ Screened \/ EndRound \/ Propose
               \/ ProposeFails
      PROVE  TriedInv'
  <2>1. pc \in {"round", "screen", "batch", "propose"} /\ tried' = tried
    BY <1>1 DEF BeginRound, Screen, BadKey, Screened, EndRound, Propose, ProposeFails
  <2>2. pc' \notin {"jobs", "collect"}
    BY <1>1 DEF BeginRound, Screen, BadKey, Screened, EndRound, Propose, ProposeFails,
                End, Continue
  <2>3. \/ stats' = stats
        \/ stats' \in {Count("rounds"), Count("proposals"),
                       Count2("proposals", "duplicates"), Count2("proposals", "rejected")}
    BY <1>1 DEF BeginRound, Screen, BadKey, Screened, EndRound, Propose, ProposeFails
  <2>4. stats'["evaluations"] = stats["evaluations"]
    BY <1>0, <2>3 DEF Count, Count2, Counters
  <2>5. QED
    BY <2>1, <2>2, <2>4, TriedKept DEF Verifying
<1>2. CASE BeginBatch
  <2>1. pc = "batch" /\ tried' = tried /\ stats' = stats
    BY <1>2 DEF BeginBatch
  <2>2. CASE pc' = "verify"
    BY <2>1, <2>2, TriedKept DEF Verifying
  <2>3. CASE pc' = "jobs"
    <3>1. slot' = [i \in 1..Len(chunk') |-> "waiting"]
      BY <1>2, <2>3 DEF BeginBatch, End
    <3>2. Spent' = {}
      BY <3>1 DEF Spent
    <3>3. Cardinality(Spent') = 0
      BY <3>2, FS_EmptySet
    <3>4. Cardinality(tried) <= stats["evaluations"] /\ Cardinality(tried) <= SearchLimit
      BY <2>1 DEF TriedInv, Verifying
    <3>5. Cardinality(tried') <= stats'["evaluations"] + Cardinality(Spent')
      BY <1>0, <2>1, <3>3, <3>4
    <3>6. QED
      BY <2>1, <2>3, <3>4, <3>5 DEF TriedInv, Verifying
  <2>4. QED
    BY <1>2, <2>2, <2>3 DEF BeginBatch, End, Continue
<1>3. ASSUME NEW i \in 1..Jobs, StartJob(i) \/ ThreadFails(i) PROVE TriedInv'
  <2>1. /\ pc = "jobs" /\ pc' = "jobs" /\ next = 1 /\ next' = 1 /\ stats' = stats
        /\ i \in 1..Len(chunk) /\ slot[i] = "waiting" /\ chunk' = chunk
    BY <1>3 DEF StartJob, ThreadFails, TypeOK, CountInv
  <2>2. stats["evaluations"] + Len(chunk) <= SearchLimit
    BY <1>0, <2>1 DEF CountInv
  <2>3. IsFiniteSet(Spent) /\ Cardinality(Spent) \in Nat /\ i \notin Spent
    BY <2>1, SpentBound DEF CountInv, Spent
  <2>4. CASE slot' = [slot EXCEPT ![i] = "skipped"] /\ tried' = tried
    <3>1. Spent' = Spent
      BY <2>1, <2>4 DEF Spent, TypeOK
    <3>2. QED
      BY <2>1, <2>4, <3>1 DEF TriedInv, Verifying
  <2>5. ASSUME NEW st \in {"running", "late", "unstarted"},
               slot' = [slot EXCEPT ![i] = st], tried' = tried \cup {chunk[i]}
        PROVE  TriedInv'
    <3>1. Spent' = Spent \cup {i}
      BY <2>1, <2>5 DEF Spent, TypeOK
    <3>2. Cardinality(Spent') = Cardinality(Spent) + 1
      BY <2>3, <3>1, FS_AddElement
    <3>3. /\ Cardinality(tried') <= Cardinality(tried) + 1
          /\ Cardinality(tried') \in Nat /\ Cardinality(tried) \in Nat
      <4>1. IsFiniteSet(tried) /\ Cardinality(tried) \in Nat
        BY TriedFinite
      <4>2. Cardinality(tried \cup {chunk[i]}) =
              IF chunk[i] \in tried THEN Cardinality(tried) ELSE Cardinality(tried) + 1
        BY <4>1, FS_AddElement
      <4>3. QED
        BY <2>5, <4>1, <4>2
    <3>4. Cardinality(tried) <= stats["evaluations"] + Cardinality(Spent)
      BY <2>1 DEF TriedInv
    <3>5. Cardinality(tried') <= stats'["evaluations"] + Cardinality(Spent')
      BY <1>0, <2>1, <2>3, <3>2, <3>3, <3>4
    <3>6. Cardinality(Spent') <= Len(chunk)
      <4>1. Spent' \subseteq 1..Len(chunk)
        BY <2>1, <2>5 DEF Spent, TypeOK
      <4>2. 1 \in Int /\ Len(chunk) \in Int /\ Len(chunk) >= 1
        BY <2>1, <1>0
      <4>3. IsFiniteSet(1..Len(chunk)) /\ Cardinality(1..Len(chunk)) = Len(chunk)
        BY <4>2, FS_Interval
      <4>4. QED
        BY <4>1, <4>3, FS_Subset
    <3>7. Cardinality(tried') <= SearchLimit
      BY <1>0, <2>1, <2>2, <2>3, <3>2, <3>3, <3>5, <3>6, BudgetAssumption DEF SearchLimit
    <3>8. QED
      BY <2>1, <3>5, <3>7 DEF TriedInv, Verifying
  <2>6. QED
    BY <1>3, <2>4, <2>5 DEF StartJob, ThreadFails
<1>4. ASSUME NEW i \in 1..Jobs, FinishJob(i) PROVE TriedInv'
  <2>1. Spent' = Spent
    BY <1>4 DEF FinishJob, Spent, TypeOK
  <2>2. QED
    BY <1>4, <2>1 DEF FinishJob, TriedInv, Verifying
<1>5. CASE JoinJobs
  BY <1>5 DEF JoinJobs, TriedInv, Verifying, Spent
<1>6. CASE CollectResult
  <2>1. /\ pc = "collect" /\ pc' = "collect" /\ next' = next + 1 /\ tried' = tried
        /\ next <= Len(chunk) /\ slot' = slot
    BY <1>6 DEF CollectResult
  <2>2. IsFiniteSet(Spent) /\ Cardinality(Spent) \in Nat
    BY <2>1, SpentBound DEF CountInv
  <2>3. Spent' = Spent \ {next}
    BY <1>0, <2>1 DEF Spent, TypeOK
  <2>4. CASE slot[next] \in {"waiting", "skipped"}
    <3>1. Spent' = Spent
      BY <2>3, <2>4 DEF Spent
    <3>2. stats'["evaluations"] >= stats["evaluations"] /\ stats'["evaluations"] \in Nat
      <4>1. \/ stats' = stats
            \/ \E o \in Counters \ {"evaluations"} : stats' = Count2("evaluations", o)
            \/ stats' = Count("evaluations")
        BY <1>6 DEF CollectResult, Outcome, Counters
      <4>2. QED
        BY <1>0, <4>1 DEF Count, Count2
    <3>3. Cardinality(tried) <= stats["evaluations"] + Cardinality(Spent)
      BY <2>1 DEF TriedInv
    <3>4. Cardinality(tried') <= stats'["evaluations"] + Cardinality(Spent')
      BY <1>0, <2>1, <2>2, <3>1, <3>2, <3>3, TriedFinite
    <3>5. QED
      BY <2>1, <3>4 DEF TriedInv, Verifying
  <2>5. CASE slot[next] \notin {"waiting", "skipped"}
    <3>1. stats'["evaluations"] = stats["evaluations"] + 1
      <4>1. \/ \E o \in Counters \ {"evaluations"} : stats' = Count2("evaluations", o)
            \/ stats' = Count("evaluations")
        BY <1>6, <2>5 DEF CollectResult, Outcome, Counters
      <4>2. QED
        BY <1>0, <4>1 DEF Count, Count2
    <3>2. next \in Spent
      BY <1>0, <2>1, <2>5 DEF Spent, TypeOK
    <3>3. Cardinality(Spent') = Cardinality(Spent) - 1
      BY <2>2, <2>3, <3>2, FS_RemoveElement
    <3>4. Cardinality(tried) <= stats["evaluations"] + Cardinality(Spent)
      BY <2>1 DEF TriedInv
    <3>5. Cardinality(tried') <= stats'["evaluations"] + Cardinality(Spent')
      BY <1>0, <2>1, <2>2, <3>1, <3>3, <3>4, TriedFinite
    <3>6. QED
      BY <2>1, <3>5 DEF TriedInv, Verifying
  <2>6. QED
    BY <2>4, <2>5
<1>7. CASE EndBatch
  <2>1. /\ pc = "collect" /\ pc' \in {"batch", "verify"} /\ tried' = tried
        /\ stats' = stats /\ next > Len(chunk)
    BY <1>7 DEF EndBatch, End, Continue
  <2>2. Spent = {}
    BY <1>0, <2>1 DEF Spent, TypeOK
  <2>3. Cardinality(Spent) = 0
    BY <2>2, FS_EmptySet
  <2>4. Cardinality(tried) <= stats["evaluations"]
    BY <1>0, <2>1, <2>3, TriedFinite DEF TriedInv
  <2>5. QED
    BY <2>1, <2>4 DEF TriedInv, Verifying
<1>8. ASSUME BeginCheck \/ Return \/ \E f \in {"same", "differs", "failed"} : EndCheck(f)
      PROVE  TriedInv'
  BY <1>8, TriedKept DEF BeginCheck, Return, EndCheck, Verifying
<1>9. CASE Cancel \/ DeadlinePasses \/ UNCHANGED vars
  <2>1. UNCHANGED <<pc, tried, stats, slot, next>>
    BY <1>9 DEF Cancel, DeadlinePasses, vars
  <2>2. Spent' = Spent
    BY <2>1 DEF Spent
  <2>3. QED
    BY <2>1, <2>2 DEF TriedInv, Verifying
<1>10. QED
  BY <1>1, <1>2, <1>3, <1>4, <1>5, <1>6, <1>7, <1>8, <1>9 DEF Next, Coordinator, Job

\* The jobs in flight are jobs of the batch, which is at most Jobs long.
LEMMA InFlightBound ==
  ASSUME TypeOK, CountInv
  PROVE  Cardinality(InFlight) <= Jobs
<1>1. Len(chunk) \in Nat /\ Len(chunk) <= Jobs /\ InFlight \subseteq 1..Len(chunk)
  <2>1. DOMAIN slot = 1..Len(chunk)
    BY DEF TypeOK
  <2>2. Len(chunk) \in Nat /\ Len(chunk) <= Jobs
    BY Numbers DEF CountInv
  <2>3. QED
    BY <2>1, <2>2 DEF InFlight
<1>2. IsFiniteSet(1..Len(chunk)) /\ Cardinality(1..Len(chunk)) = Len(chunk)
  BY <1>1, FS_Interval
<1>3. Cardinality(InFlight) <= Len(chunk) /\ Cardinality(InFlight) \in Nat
  BY <1>1, <1>2, FS_Subset, FS_CardinalityType
<1>4. QED
  BY <1>1, <1>3, BudgetAssumption

\* Jobs in flight included, the search never tries so many candidates that it
\* eats into the evaluations reserved for verification, nor more at once than
\* the jobs allowed.
THEOREM TheReserveIsKept == Spec => []ReserveIsKept
<1>1. Init => CountInv
  BY BudgetAssumption DEF Init, CountInv, Verifying, Counters, SearchLimit
<1>2. Init => TriedInv
  <2>1. Cardinality({}) = 0
    BY FS_EmptySet
  <2>2. QED
    BY <2>1, BudgetAssumption DEF Init, TriedInv, Verifying, Counters, SearchLimit
<1>3. TypeOK /\ CountInv /\ TriedInv => ReserveIsKept
  BY InFlightBound DEF TriedInv, ReserveIsKept, SearchLimit
<1>4. QED
  BY <1>1, <1>2, <1>3, TypeInit, TypeStep, CountStep, TriedStep, PTL DEF Spec

-----------------------------------------------------------------------------
(* Truncating the archives result by result loses nothing.                 *)

NaturalsLess == {p \in Nat \X Nat : p[1] < p[2]}

\* A nonempty set of naturals has a least element.
LEMMA LeastNatural ==
  ASSUME NEW T, T \subseteq Nat, T # {}
  PROVE  \E n \in T : \A m \in T : n <= m
<1>1. IsWellFoundedOn(NaturalsLess, Nat)
  BY NatLessThanWellFounded, Zenon DEF NaturalsLess, OpToRel
<1>2. PICK n \in T : \A m \in T : ~(<<m, n>> \in NaturalsLess)
  BY <1>1, WFMin
<1>3. ASSUME NEW m \in T PROVE n <= m
  <2>1. m \in Nat /\ n \in Nat
    OBVIOUS
  <2>2. m < n => <<m, n>> \in NaturalsLess
    BY <2>1 DEF NaturalsLess
  <2>3. ~(m < n)
    BY <1>2, <2>2
  <2>4. QED
    BY <2>1, <2>3
<1>4. QED
  BY <1>3

\* The candidates the ranking can order.
Assessable == {c \in Candidates : quality[c] \in DOMAIN Rank}

\* The ranking is a strict order of the assessable candidates.
LEMMA RankingIsStrict ==
  /\ \A c \in Assessable : ~Better(c, c)
  /\ \A c, d, e \in Assessable : Better(c, d) /\ Better(d, e) => Better(c, e)
<1>1. \A q \in DOMAIN Rank : Rank[q] \in Nat
  BY DEF Rank
<1>2. \A c \in Assessable : Rank[quality[c]] \in Nat /\ c \in Nat
  BY <1>1, DomainAssumption DEF Assessable
<1>3. QED
  BY <1>2 DEF Better

Ahead(c, S) == {d \in S : Better(d, c)}

\* Those ahead of c are finitely many, and fewer the smaller the set.
LEMMA AheadFinite ==
  ASSUME NEW S, S \subseteq Candidates, NEW U, U \subseteq S, NEW c
  PROVE  /\ IsFiniteSet(Ahead(c, S)) /\ Cardinality(Ahead(c, S)) \in Nat
         /\ IsFiniteSet(Ahead(c, U)) /\ Cardinality(Ahead(c, U)) \in Nat
         /\ Cardinality(Ahead(c, U)) <= Cardinality(Ahead(c, S))
<1>1. /\ Ahead(c, S) \in SUBSET Candidates
      /\ Ahead(c, U) \in SUBSET Ahead(c, S)
  BY DEF Ahead
<1>2. IsFiniteSet(Ahead(c, S))
  BY <1>1, DomainAssumption, FS_Subset
<1>3. /\ IsFiniteSet(Ahead(c, U))
      /\ Cardinality(Ahead(c, U)) <= Cardinality(Ahead(c, S))
  BY <1>1, <1>2, FS_Subset
<1>4. QED
  BY <1>2, <1>3, FS_CardinalityType

\* A nonempty set of assessable candidates has a first one in the ranking.
LEMMA First ==
  ASSUME NEW W, W \subseteq Assessable, W # {}
  PROVE  \E d \in W : \A e \in W : ~Better(e, d)
<1> DEFINE N(d) == Cardinality(Ahead(d, W))
<1>0. W \subseteq Candidates
  BY DEF Assessable
<1>1. \A d \in W : N(d) \in Nat
  BY <1>0, AheadFinite
<1>2. PICK n \in {N(d) : d \in W} : \A m \in {N(d) : d \in W} : n <= m
  <2>1. {N(d) : d \in W} \subseteq Nat /\ {N(d) : d \in W} # {}
    BY <1>1
  <2> HIDE DEF N
  <2>2. QED
    BY <2>1, LeastNatural
<1>3. PICK d \in W : n = N(d)
  OBVIOUS
<1>4. ASSUME NEW e \in W, Better(e, d) PROVE FALSE
  <2>1. Ahead(e, W) \subseteq Ahead(d, W)
    BY <1>4, RankingIsStrict DEF Ahead
  <2>2. e \in Ahead(d, W) /\ e \notin Ahead(e, W)
    BY <1>4, RankingIsStrict DEF Ahead
  <2>3. IsFiniteSet(Ahead(d, W))
    BY <1>0, AheadFinite
  <2>4. N(e) <= N(d) /\ N(e) # N(d)
    BY <2>1, <2>2, <2>3, FS_Subset
  <2>5. N(d) <= N(e) /\ N(d) \in Nat /\ N(e) \in Nat
    BY <1>1, <1>2, <1>3
  <2>6. QED
    BY <2>4, <2>5
<1>5. QED
  BY <1>4

\* The best m of S are the best m of any part of S that holds the best n, when
\* n is not smaller than m.
LEMMA TruncationIsHarmless ==
  ASSUME NEW S, S \subseteq Assessable, NEW U, U \subseteq S,
         NEW n \in Nat, NEW m \in Nat, m <= n, Best(n, S) \subseteq U
  PROVE  Best(m, U) = Best(m, S)
<1>0. S \subseteq Candidates
  BY DEF Assessable
<1>1. \A c, T : c \in Best(m, T) <=> c \in T /\ Cardinality(Ahead(c, T)) < m
  BY DEF Best, Ahead
<1>2. \A c : c \in Best(n, S) <=> c \in S /\ Cardinality(Ahead(c, S)) < n
  BY DEF Best, Ahead
<1>3. \A c : /\ Cardinality(Ahead(c, S)) \in Nat /\ Cardinality(Ahead(c, U)) \in Nat
             /\ Cardinality(Ahead(c, U)) <= Cardinality(Ahead(c, S))
             /\ IsFiniteSet(Ahead(c, U))
  BY <1>0, AheadFinite
<1>4. ASSUME NEW c \in Best(m, S) PROVE c \in Best(m, U)
  BY <1>1, <1>2, <1>3
<1>5. ASSUME NEW c \in Best(m, U), c \notin Best(m, S) PROVE FALSE
  <2> DEFINE W == {d \in S : d \notin U /\ Better(d, c)}
  <2>1. c \in U /\ c \in S /\ Cardinality(Ahead(c, U)) < m
        /\ Cardinality(Ahead(c, S)) >= m
    BY <1>1, <1>3, <1>5
  <2>2. W # {}
    <3>1. CASE W = {}
      <4>1. Ahead(c, U) = Ahead(c, S)
        BY <3>1 DEF Ahead
      <4>2. QED
        BY <1>3, <2>1, <4>1
    <3>2. QED
      BY <3>1
  <2>3. PICK d \in W : \A e \in W : ~Better(e, d)
    <3>1. W \subseteq Assessable
      OBVIOUS
    <3> HIDE DEF W
    <3>2. QED
      BY <2>2, <3>1, First
  <2>4. Cardinality(Ahead(d, S)) >= n
    BY <1>2, <1>3, <2>3
  <2>5. Ahead(d, S) \subseteq Ahead(c, U)
    <3>1. ASSUME NEW e \in S, Better(e, d) PROVE e \in U /\ Better(e, c)
      <4>1. Better(e, c)
        BY <2>1, <2>3, <3>1, RankingIsStrict
      <4>2. QED
        BY <2>3, <3>1, <4>1
    <3>2. QED
      BY <3>1 DEF Ahead
  <2>6. Cardinality(Ahead(d, S)) <= Cardinality(Ahead(c, U))
    BY <1>3, <2>5, FS_Subset
  <2>7. QED
    BY <1>3, <2>1, <2>4, <2>6
<1>6. QED
  BY <1>4, <1>5

\* Pushing a result to a truncated archive and truncating again is ranking it
\* among everything seen.
LEMMA PushAndTruncate ==
  ASSUME NEW S, S \subseteq Assessable, NEW c \in Assessable, NEW n \in Nat
  PROVE  Best(n, Best(n, S) \cup {c}) = Best(n, S \cup {c})
<1> DEFINE T == S \cup {c}
           U == Best(n, S) \cup {c}
<1>1. T \subseteq Assessable /\ U \subseteq T
  BY DEF Best
<1>2. ASSUME NEW d \in Best(n, T) PROVE d \in U
  <2>1. CASE d \in S
    <3>1. S \subseteq T /\ T \subseteq Candidates
      BY <1>1 DEF Assessable
    <3>2. /\ Cardinality(Ahead(d, S)) <= Cardinality(Ahead(d, T))
          /\ Cardinality(Ahead(d, S)) \in Nat /\ Cardinality(Ahead(d, T)) \in Nat
      BY <3>1, AheadFinite
    <3>3. Cardinality(Ahead(d, T)) < n
      BY DEF Best, Ahead
    <3>4. d \in Best(n, S)
      BY <2>1, <3>2, <3>3 DEF Best, Ahead
    <3>5. QED
      BY <3>4
  <2>2. QED
    BY <2>1 DEF Best
<1> HIDE DEF T, U
<1>3. Best(n, U) = Best(n, T)
  BY <1>1, <1>2, TruncationIsHarmless
<1>4. QED
  BY <1>3 DEF T, U

\* Cutting a ranking twice is cutting it once, to the smaller size.
LEMMA TruncateTwice ==
  ASSUME NEW S, S \subseteq Assessable, NEW n \in Nat, NEW m \in Nat, m <= n
  PROVE  Best(m, Best(n, S)) = Best(m, S)
<1>1. Best(n, S) \subseteq S
  BY DEF Best
<1>2. QED
  BY <1>1, TruncationIsHarmless

-----------------------------------------------------------------------------
(* The archives.                                                           *)

Archive(status) == IF status = Feasible THEN feasible ELSE infeasible
Pool(status) == {c \in judged : quality[c] \in status}

\* The results of the batch that belong to the archive and are not yet in it.
Pending(status) ==
  {chunk[i] : i \in {j \in DOMAIN slot : /\ j >= next /\ slot[j] = "returned"
                                         /\ quality[chunk[j]] \in status}}

\* The archive holds the best of everything assessed; inside a batch, of
\* everything but what is pending.
Held(status) ==
  /\ Verifying => Archive(status) = Best(ArchiveSize, Pool(status))
  /\ ~Verifying /\ pc \notin {"jobs", "collect"} =>
       Archive(status) = Best(Keep, Pool(status))
  /\ pc \in {"jobs", "collect"} =>
       \E G \in SUBSET judged :
         Archive(status) = Best(Keep, G) /\ Pool(status) = G \cup Pending(status)

\* No job of a batch that is collected is still to run.
Joined == pc = "collect" => \A i \in DOMAIN slot : slot[i] \notin {"waiting", "running"}

LEMMA JoinedStep == TypeOK /\ Joined /\ [Next]_vars => Joined'
<1> SUFFICES ASSUME TypeOK, Joined, [Next]_vars PROVE Joined'
  OBVIOUS
<1> USE DEF Joined, queue, batch, archives, history
<1>1. CASE BeginRound \/ Screen \/ BadKey \/ Screened \/ Propose \/ ProposeFails
  BY <1>1 DEF BeginRound, Screen, BadKey, Screened, Propose, ProposeFails, End, Continue
<1>2. CASE BeginBatch \/ JoinJobs \/ CollectResult \/ EndBatch \/ EndRound
  BY <1>2 DEF BeginBatch, JoinJobs, CollectResult, EndBatch, EndRound, End, Continue
<1>3. CASE BeginCheck \/ Return \/ \E f \in {"same", "differs", "failed"} : EndCheck(f)
  BY <1>3 DEF BeginCheck, Return, EndCheck
<1>4. ASSUME NEW i \in 1..Jobs, StartJob(i) \/ ThreadFails(i) \/ FinishJob(i)
      PROVE  Joined'
  BY <1>4 DEF StartJob, ThreadFails, FinishJob
<1>5. CASE Cancel \/ DeadlinePasses \/ UNCHANGED vars
  BY <1>5 DEF Cancel, DeadlinePasses, vars
<1>6. QED
  BY <1>1, <1>2, <1>3, <1>4, <1>5 DEF Next, Coordinator, Job

\* The two statuses never share a quality, and every quality of theirs is ranked.
LEMMA Statuses ==
  /\ Feasible # Infeasible
  /\ \A status \in {Feasible, Infeasible} :
       status \subseteq DOMAIN Rank \cap {"good", "fair", "poor"}
  BY DEF Feasible, Infeasible, Rank

LEMMA Sizes == Keep \in Nat /\ ArchiveSize \in Nat /\ ArchiveSize <= Keep
  BY BudgetAssumption DEF Keep

\* A step that leaves the qualities alone leaves every ranking alone.
LEMMA RankingKept ==
  ASSUME quality' = quality, NEW CONSTANT n, NEW CONSTANT S
  PROVE  Best(n, S)' = Best(n, S)
  BY DEF Best, Better

LEMMA PoolAssessable ==
  ASSUME TypeOK, NEW status \in {Feasible, Infeasible}
  PROVE  Pool(status) \subseteq Assessable
  BY Statuses DEF Pool, Assessable, TypeOK

\* The end of the search cuts what the rounds held.
LEMMA EndHeld ==
  ASSUME TypeOK, NEW CONSTANT status \in {Feasible, Infeasible},
         Archive(status) = Best(Keep, Pool(status)), NEW reason, End(reason),
         judged' = judged, quality' = quality
  PROVE  Held(status)'
<1>1. PICK P : P = Pool(status)
  OBVIOUS
<1>2. Pool(status)' = P /\ P \subseteq Assessable
  BY <1>1, PoolAssessable DEF Pool
<1>3. Archive(status)' = Best(ArchiveSize, Archive(status))
  BY DEF Archive, End
<1>4. Archive(status)' = Best(ArchiveSize, P)
  BY <1>1, <1>2, <1>3, Sizes, TruncateTwice
<1>5. Best(ArchiveSize, P)' = Best(ArchiveSize, P)
  BY RankingKept
<1>6. Best(ArchiveSize, Pool(status))' = Best(ArchiveSize, P)
  BY <1>2, <1>5 DEF Best, Better
<1>7. pc' = "verify"
  BY DEF End
<1>8. QED
  BY <1>4, <1>6, <1>7 DEF Held, Verifying

\* A step that leaves archives, assessments and pending results alone.
LEMMA HeldKept ==
  ASSUME NEW CONSTANT status \in {Feasible, Infeasible}, Held(status),
         UNCHANGED <<judged, quality, feasible, infeasible>>,
         \/ /\ {pc, pc'} \cap {"jobs", "collect"} = {}
            /\ pc \in {"verify", "checking"} <=> pc' \in {"verify", "checking", "done"}
            /\ pc # "done"
         \/ {pc, pc'} \subseteq {"jobs", "collect"} /\ Pending(status)' = Pending(status)
         \/ pc' = pc /\ Pending(status)' = Pending(status)
  PROVE  Held(status)'
<1>1. /\ Pool(status)' = Pool(status) /\ Archive(status)' = Archive(status)
      /\ Best(Keep, Pool(status))' = Best(Keep, Pool(status))
      /\ Best(ArchiveSize, Pool(status))' = Best(ArchiveSize, Pool(status))
  BY DEF Pool, Archive, Best, Better
<1>2. CASE {pc, pc'} \cap {"jobs", "collect"} = {}
  <2>1. Verifying' <=> Verifying
    BY <1>2 DEF Verifying
  <2>2. QED
    BY <1>1, <1>2, <2>1 DEF Held
<1>3. CASE {pc, pc'} \subseteq {"jobs", "collect"} /\ Pending(status)' = Pending(status)
  <2>1. PICK G \in SUBSET judged :
          Archive(status) = Best(Keep, G) /\ Pool(status) = G \cup Pending(status)
    BY <1>3 DEF Held
  <2>2. Best(Keep, G)' = Best(Keep, G)
    BY RankingKept
  <2>3. QED
    BY <1>1, <1>3, <2>1, <2>2 DEF Held, Verifying
<1>4. QED
  BY <1>2, <1>3

LEMMA HeldStep ==
  ASSUME TypeOK, CountInv, Joined, [Next]_vars,
         NEW CONSTANT status \in {Feasible, Infeasible}, Held(status)
  PROVE  Held(status)'
<1> USE DEF queue, batch, archives, history
<1>1. quality' = quality
  BY DEF Next, Coordinator, Job, BeginRound, Screen, BadKey, Screened, BeginBatch,
         JoinJobs, CollectResult, EndBatch, EndRound, Propose, ProposeFails,
         BeginCheck, EndCheck, Return, StartJob, ThreadFails, FinishJob, Cancel,
         DeadlinePasses, vars
<1>2. CASE BeginRound \/ Screen \/ BadKey \/ Screened \/ EndRound \/ Propose \/ ProposeFails
  <2>1. pc \in {"round", "screen", "batch", "propose"} /\ judged' = judged
    BY <1>2 DEF BeginRound, Screen, BadKey, Screened, EndRound, Propose, ProposeFails
  <2>2. ASSUME NEW r, End(r) PROVE Held(status)'
    BY <1>1, <2>1, <2>2, EndHeld DEF Held, Verifying
  <2>3. CASE UNCHANGED archives
             /\ pc' \in {"round", "screen", "batch", "propose", "error"}
    BY <1>1, <2>1, <2>3, HeldKept
  <2>4. QED
    BY <1>2, <2>2, <2>3 DEF BeginRound, Screen, BadKey, Screened, EndRound, Propose,
                            ProposeFails, Continue
<1>3. CASE BeginBatch
  <2>1. pc = "batch" /\ judged' = judged
    BY <1>3 DEF BeginBatch
  <2>2. ASSUME NEW r, End(r) PROVE Held(status)'
    BY <1>1, <2>1, <2>2, EndHeld DEF Held, Verifying
  <2>3. CASE Continue("jobs") /\ slot' = [i \in 1..Len(chunk') |-> "waiting"]
    <3>1. Pending(status)' = {}
      BY <2>3 DEF Pending
    <3>2. Pool(status)' = Pool(status) /\ Archive(status)' = Archive(status)
          /\ Best(Keep, Pool(status))' = Best(Keep, Pool(status))
      BY <1>1, <2>1, <2>3 DEF Pool, Archive, Continue, Best, Better
    <3>3. Archive(status) = Best(Keep, Pool(status)) /\ Pool(status) \subseteq judged
      BY <2>1 DEF Held, Verifying, Pool
    <3>4. PICK G \in SUBSET judged : G = Pool(status)
      BY <3>3
    <3>5. Best(Keep, G)' = Best(Keep, G)
      BY <1>1, RankingKept
    <3>6. Archive(status)' = Best(Keep, G)' /\ Pool(status)' = G \cup Pending(status)'
      BY <3>1, <3>2, <3>3, <3>4, <3>5
    <3>7. QED
      BY <2>1, <2>3, <3>4, <3>6 DEF Held, Verifying, Continue
  <2>4. QED
    BY <1>3, <2>2, <2>3 DEF BeginBatch
<1>4. ASSUME NEW i \in 1..Jobs, StartJob(i) \/ ThreadFails(i) PROVE Held(status)'
  <2>1. \E st \in {"running", "skipped", "late", "unstarted"} :
          slot' = [slot EXCEPT ![i] = st]
    BY <1>4 DEF StartJob, ThreadFails
  <2>2. /\ slot[i] = "waiting" /\ i \in DOMAIN slot /\ next' = next /\ chunk' = chunk
        /\ UNCHANGED <<pc, judged, feasible, infeasible>>
    BY <1>4 DEF StartJob, ThreadFails
  <2>3. Pending(status)' = Pending(status)
    BY <1>1, <2>1, <2>2 DEF Pending, TypeOK
  <2>4. QED
    BY <1>1, <2>2, <2>3, HeldKept
<1>5. ASSUME NEW i \in 1..Jobs, FinishJob(i) PROVE Held(status)'
  <2>1. /\ pc = "jobs" /\ pc' = "jobs" /\ next = 1 /\ next' = 1 /\ chunk' = chunk
        /\ i \in 1..Len(chunk) /\ slot[i] = "running"
        /\ UNCHANGED <<feasible, infeasible>>
    BY <1>5 DEF FinishJob, CountInv, TypeOK
  <2>2. PICK G \in SUBSET judged :
          Archive(status) = Best(Keep, G) /\ Pool(status) = G \cup Pending(status)
    BY <2>1 DEF Held
  <2>3. Archive(status)' = Archive(status) /\ Best(Keep, G)' = Best(Keep, G)
    BY <1>1, <2>1, RankingKept DEF Archive
  <2>4. Pool(status)' = G \cup Pending(status)'
    <3>1. CASE Stopped
      <4>1. judged' = judged /\ slot' = [slot EXCEPT ![i] = "late"]
        BY <1>5, <3>1 DEF FinishJob
      <4>2. Pending(status)' = Pending(status)
        BY <1>1, <2>1, <4>1 DEF Pending, TypeOK
      <4>3. QED
        BY <1>1, <2>2, <4>1, <4>2 DEF Pool
    <3>2. CASE ~Stopped
      <4>1. /\ judged' = judged \cup {c \in {chunk[i]} : quality[c] \in DOMAIN Rank}
            /\ slot' = [slot EXCEPT ![i] = "returned"]
        BY <1>5, <3>2 DEF FinishJob
      <4> DEFINE new == {c \in {chunk[i]} : quality[c] \in status}
      <4>2. Pool(status)' = Pool(status) \cup new
        BY <1>1, <4>1, Statuses DEF Pool
      <4>3. Pending(status)' = Pending(status) \cup new
        <5> DEFINE At(s) == {j \in DOMAIN slot : /\ j >= 1 /\ s[j] = "returned"
                                                /\ quality[chunk[j]] \in status}
        <5>1. DOMAIN slot' = DOMAIN slot
          BY <4>1
        <5>2. CASE quality[chunk[i]] \in status
          <6>1. At(slot') = At(slot) \cup {i} /\ new = {chunk[i]}
            BY <2>1, <4>1, <5>2 DEF TypeOK
          <6>2. /\ Pending(status) = {chunk[j] : j \in At(slot)}
                /\ Pending(status)' = {chunk[j] : j \in At(slot')}
            BY <1>1, <2>1, <5>1 DEF Pending
          <6> HIDE DEF At, new
          <6>3. QED
            BY <6>1, <6>2
        <5>3. CASE quality[chunk[i]] \notin status
          <6>1. At(slot') = At(slot) /\ new = {}
            BY <2>1, <4>1, <5>3 DEF TypeOK
          <6>2. /\ Pending(status) = {chunk[j] : j \in At(slot)}
                /\ Pending(status)' = {chunk[j] : j \in At(slot')}
            BY <1>1, <2>1, <5>1 DEF Pending
          <6> HIDE DEF At, new
          <6>3. QED
            BY <6>1, <6>2
        <5>4. QED
          BY <5>2, <5>3
      <4>4. QED
        BY <2>2, <4>2, <4>3
    <3>3. QED
      BY <3>1, <3>2
  <2>5. G \in SUBSET judged'
    BY <1>5, <2>2 DEF FinishJob
  <2>6. QED
    BY <2>1, <2>2, <2>3, <2>4, <2>5 DEF Held, Verifying
<1>6. CASE JoinJobs
  <2>1. Pending(status)' = Pending(status)
    BY <1>1, <1>6 DEF JoinJobs, Pending
  <2>2. QED
    BY <1>1, <1>6, <2>1, HeldKept DEF JoinJobs
<1>7. CASE CollectResult
  <2>1. /\ pc = "collect" /\ pc' = "collect" /\ next' = next + 1 /\ next <= Len(chunk)
        /\ UNCHANGED <<chunk, slot, judged>>
    BY <1>7 DEF CollectResult
  <2>2. PICK G \in SUBSET judged :
          Archive(status) = Best(Keep, G) /\ Pool(status) = G \cup Pending(status)
    BY <2>1 DEF Held
  <2>3. next \in DOMAIN slot /\ next \in Nat
    BY <2>1 DEF TypeOK
  <2> DEFINE c == chunk[next]
             mine == slot[next] = "returned" /\ quality[c] \in status
  <2>4. Pool(status)' = Pool(status)
    BY <1>1, <2>1 DEF Pool
  <2>5. Archive(status)' = IF Outcome(next) = "assessed" /\ quality[c] \in status
                             THEN Best(Keep, Archive(status) \cup {c})
                             ELSE Archive(status)
    BY <1>7, Statuses DEF CollectResult, Archive
  <2>6. mine <=> Outcome(next) = "assessed" /\ quality[c] \in status
    <3>1. slot[next] \in {"skipped", "late", "unstarted", "returned"}
      BY <2>1, <2>3 DEF Joined, TypeOK
    <3>2. quality[c] \in status => quality[c] \notin {"failed", "unavailable"}
      BY Statuses
    <3>3. QED
      BY <3>1, <3>2 DEF Outcome
  <2>7. CASE mine
    <3>1. c \in Assessable /\ G \subseteq Assessable
      <4>1. c \in Pending(status)
        BY <2>3, <2>7 DEF Pending
      <4>2. QED
        BY <2>2, <4>1, PoolAssessable
    <3>2. Archive(status)' = Best(Keep, G \cup {c})
      BY <2>2, <2>5, <2>6, <2>7, <3>1, Sizes, PushAndTruncate
    <3>3. Pending(status) = Pending(status)' \cup {c}
      <4> DEFINE At(k) == {j \in DOMAIN slot : /\ j >= k /\ slot[j] = "returned"
                                              /\ quality[chunk[j]] \in status}
      <4>1. At(next) = At(next + 1) \cup {next}
        BY <2>3, <2>7 DEF TypeOK
      <4>2. Pending(status) = {chunk[j] : j \in At(next)}
        BY DEF Pending
      <4>3. Pending(status)' = {chunk[j] : j \in At(next + 1)}
        BY <1>1, <2>1 DEF Pending
      <4> HIDE DEF At
      <4>4. QED
        BY <4>1, <4>2, <4>3
    <3>4. PICK H \in SUBSET judged : H = G \cup {c}
      BY <2>2, <3>3 DEF Pool
    <3>5. Best(Keep, H)' = Best(Keep, H)
      BY <1>1, RankingKept
    <3>6. Archive(status)' = Best(Keep, H)' /\ Pool(status)' = H \cup Pending(status)'
      BY <2>2, <2>4, <3>2, <3>3, <3>4, <3>5
    <3>7. QED
      BY <2>1, <3>4, <3>6 DEF Held, Verifying
  <2>8. CASE ~mine
    <3>1. Pending(status)' = Pending(status)
      BY <1>1, <2>1, <2>3, <2>8 DEF Pending, TypeOK
    <3>2. Archive(status)' = Archive(status) /\ Best(Keep, G)' = Best(Keep, G)
      BY <1>1, <2>5, <2>6, <2>8, RankingKept
    <3>3. QED
      BY <2>1, <2>2, <2>4, <3>1, <3>2 DEF Held, Verifying
  <2>9. QED
    BY <2>7, <2>8
<1>8. CASE EndBatch
  <2>1. pc = "collect" /\ judged' = judged /\ next > Len(chunk)
    BY <1>8 DEF EndBatch
  <2>2. Pending(status) = {}
    BY <2>1 DEF Pending, TypeOK
  <2>3. Archive(status) = Best(Keep, Pool(status))
    BY <2>1, <2>2 DEF Held
  <2>4. ASSUME NEW r, End(r) PROVE Held(status)'
    BY <1>1, <2>1, <2>3, <2>4, EndHeld
  <2>5. CASE Continue("batch")
    <3>1. pc' = "batch" /\ Archive(status)' = Archive(status)
      BY <2>5 DEF Continue, archives, Archive
    <3>2. PICK G \in SUBSET judged : G = Pool(status)
      BY DEF Pool
    <3>3. Pool(status)' = G /\ Best(Keep, G)' = Best(Keep, G)
      BY <1>1, <2>1, <3>2, RankingKept DEF Pool
    <3>4. QED
      BY <2>3, <3>1, <3>2, <3>3 DEF Held, Verifying
  <2>6. QED
    BY <1>8, <2>4, <2>5 DEF EndBatch
<1>9. CASE BeginCheck \/ Return \/ \E f \in {"same", "differs", "failed"} : EndCheck(f)
  BY <1>1, <1>9, HeldKept DEF BeginCheck, Return, EndCheck
<1>10. CASE Cancel \/ DeadlinePasses \/ UNCHANGED vars
  <2>1. UNCHANGED <<pc, judged, feasible, infeasible, slot, chunk, next>>
    BY <1>10 DEF Cancel, DeadlinePasses, vars
  <2>2. Pending(status)' = Pending(status)
    BY <1>1, <2>1 DEF Pending
  <2>3. QED
    BY <1>1, <2>1, <2>2, HeldKept
<1>11. QED
  BY <1>2, <1>3, <1>4, <1>5, <1>6, <1>7, <1>8, <1>9, <1>10 DEF Next, Coordinator, Job

\* The archives are what an unbounded ranking of everything assessed in time
\* would show, however the jobs were scheduled: truncating after each result
\* loses nothing, and nothing late is ranked.
THEOREM ArchivesAreTheBest == Spec => []ArchivesHoldTheBest
<1> DEFINE Inv == TypeOK /\ CountInv /\ Joined /\ Held(Feasible) /\ Held(Infeasible)
<1>1. Init => Inv
  <2> SUFFICES ASSUME Init PROVE Inv
    OBVIOUS
  <2>1. CountInv
    BY BudgetAssumption DEF Init, CountInv, Verifying, Counters, SearchLimit
  <2>2. Joined /\ Held(Feasible) /\ Held(Infeasible)
    BY DEF Init, Joined, Held, Verifying, Archive, Pool, Best
  <2>3. QED
    BY <2>1, <2>2, TypeInit
<1>2. Inv /\ [Next]_vars => Inv'
  <2> SUFFICES ASSUME Inv, [Next]_vars PROVE Inv'
    OBVIOUS
  <2>1. TypeOK' /\ CountInv' /\ Joined'
    BY TypeStep, CountStep, JoinedStep
  <2>2. Held(Feasible)'
    BY HeldStep
  <2>3. Held(Infeasible)'
    BY HeldStep
  <2>4. QED
    BY <2>1, <2>2, <2>3
<1>3. Inv => ArchivesHoldTheBest
  BY Statuses DEF Held, Archive, Pool, Verifying, ArchivesHoldTheBest
<1>4. QED
  BY <1>1, <1>2, <1>3, PTL DEF Spec

-----------------------------------------------------------------------------
(* The queue.                                                              *)

InBatch == pc \in {"jobs", "collect"}
Elements(s) == {s[i] : i \in DOMAIN s}
Ascending(s) == \A i, j \in DOMAIN s : i < j => s[i] < s[j]
LegalOf(S) == {c \in S : quality[c] # "illegal"}

\* What was tried, and what the batch under way is about to try.
Taken == IF InBatch THEN tried \cup Elements(chunk) ELSE tried

\* The candidates that wait are legal, seen, in order and not taken: none is
\* ever evaluated twice.  Within a batch, the candidates tried are those of the
\* jobs that began.
QueueInv ==
  /\ Ascending(eligible)
  /\ Elements(eligible) \subseteq LegalOf(seen) \ Taken
  /\ Taken \subseteq LegalOf(seen)
  /\ pc = "screen" =>
       /\ \A i \in 1..Len(proposals) - 1 : proposals[i] <= proposals[i + 1]
       /\ proposals # <<>> => \A c \in Elements(eligible) : c <= proposals[1]
  /\ InBatch =>
       /\ Ascending(chunk)
       /\ \A i \in DOMAIN slot :
            chunk[i] \in tried <=> slot[i] \notin {"waiting", "skipped"}
  /\ pc \in {"round", "propose"} => eligible = <<>>
  /\ pc \in {"round", "screen"} => stats["proposals"] + Len(proposals) <= Proposals

\* A stop is never taken back.
LEMMA StopIsFinal == [Next]_vars /\ Stopped => Stopped'
  BY DEF Next, Coordinator, Job, BeginRound, Screen, BadKey, Screened, BeginBatch,
         JoinJobs, CollectResult, EndBatch, EndRound, Propose, ProposeFails,
         BeginCheck, EndCheck, Return, StartJob, ThreadFails, FinishJob, Cancel,
         DeadlinePasses, vars, Stopped

\* The domain's plan and the candidates' qualities never change.
LEMMA Fixed == [Next]_vars => quality' = quality /\ plan' = plan
  BY DEF Next, Coordinator, Job, BeginRound, Screen, BadKey, Screened, BeginBatch,
         JoinJobs, CollectResult, EndBatch, EndRound, Propose, ProposeFails,
         BeginCheck, EndCheck, Return, StartJob, ThreadFails, FinishJob, Cancel,
         DeadlinePasses, vars

\* Sorting keeps what is in a list.
LEMMA SortKeeps ==
  ASSUME NEW s \in Seq(Candidates), NEW t \in [1..Len(s) -> Candidates], Sorts(s, t)
  PROVE  Elements(t) = Elements(s) /\ t \in Seq(Candidates) /\ Len(t) = Len(s)
<1> DEFINE At(u, c) == {i \in 1..Len(s) : u[i] = c}
<1>1. Len(s) \in Nat /\ DOMAIN s = 1..Len(s) /\ DOMAIN t = 1..Len(s)
  OBVIOUS
<1>2. t \in Seq(Candidates) /\ Len(t) = Len(s)
  BY <1>1, SeqDef
<1>3. IsFiniteSet(1..Len(s))
  BY <1>1, FS_Interval
<1>4. \A u, c : IsFiniteSet(At(u, c)) /\ (Cardinality(At(u, c)) = 0 <=> At(u, c) = {})
  <2>1. \A u, c : At(u, c) \in SUBSET (1..Len(s))
    OBVIOUS
  <2>2. QED
    BY <1>3, <2>1, FS_Subset, FS_EmptySet
<1>5. \A c \in Candidates : Cardinality(At(s, c)) = Cardinality(At(t, c))
  BY DEF Sorts
<1> HIDE DEF At
<1>6. \A c \in Candidates : At(s, c) = {} <=> At(t, c) = {}
  BY <1>4, <1>5
<1>7. \A c \in Candidates : c \in Elements(s) <=> c \in Elements(t)
  BY <1>1, <1>6 DEF Elements, At
<1>8. Elements(s) \subseteq Candidates /\ Elements(t) \subseteq Candidates
  BY <1>1 DEF Elements
<1>9. QED
  BY <1>2, <1>7, <1>8

\* A prefix holds the first elements of a list, the rest the others.
LEMMA PrefixElements ==
  ASSUME NEW S, NEW s \in Seq(S), NEW n \in Nat
  PROVE  /\ Len(AtMost(n, s)) \in Nat
         /\ Len(AtMost(n, s)) = IF Len(s) <= n THEN Len(s) ELSE n
         /\ \A i \in 1..Len(AtMost(n, s)) : AtMost(n, s)[i] = s[i]
<1> DEFINE k == IF Len(s) <= n THEN Len(s) ELSE n
<1>1. k \in Nat /\ k <= Len(s) /\ 1 \in Int
  OBVIOUS
<1>2. \A i \in 1..k : s[i] \in S
  BY <1>1
<1>3. AtMost(n, s) = SubSeq(s, 1, k)
  BY DEF AtMost
<1> HIDE DEF k
<1>4. /\ Len(SubSeq(s, 1, k)) = IF 1 <= k THEN k - 1 + 1 ELSE 0
      /\ \A i \in 1..k - 1 + 1 : SubSeq(s, 1, k)[i] = s[1 + i - 1]
  BY <1>1, <1>2, SubSeqProperties
<1>5. Len(SubSeq(s, 1, k)) = k /\ \A i \in 1..k : SubSeq(s, 1, k)[i] = s[i]
  BY <1>1, <1>4
<1>6. QED
  BY <1>1, <1>3, <1>5 DEF k

LEMMA RestElements ==
  ASSUME NEW S, NEW s \in Seq(S), NEW k \in 0..Len(s)
  PROVE  LET r == SubSeq(s, k + 1, Len(s))
         IN  /\ r \in Seq(S) /\ Len(r) = Len(s) - k
             /\ \A i \in 1..Len(r) : r[i] = s[i + k]
<1>1. k + 1 \in Int /\ Len(s) \in Int /\ \A i \in k + 1..Len(s) : s[i] \in S
  OBVIOUS
<1> DEFINE r == SubSeq(s, k + 1, Len(s))
<1>2. /\ r \in Seq(S)
      /\ Len(r) = IF k + 1 <= Len(s) THEN Len(s) - (k + 1) + 1 ELSE 0
      /\ \A i \in 1..Len(s) - (k + 1) + 1 : r[i] = s[k + 1 + i - 1]
  BY <1>1, SubSeqProperties
<1> HIDE DEF r
<1>3. Len(r) = Len(s) - k
  BY <1>2
<1>4. \A i \in 1..Len(r) : r[i] = s[i + k]
  BY <1>2, <1>3
<1>5. QED
  BY <1>2, <1>3, <1>4 DEF r

\* What the next batch takes from the queue.
LEMMA Batch ==
  ASSUME TypeOK, CountInv, BeginBatch, ~Stopped, Available # 0
  PROVE  /\ pc' = "jobs" /\ next' = 1 /\ Available \in Nat
         /\ slot' = [i \in 1..Len(chunk') |-> "waiting"]
         /\ Len(chunk') \in Nat
         /\ \E f \in Nat :
              /\ f <= Len(eligible) /\ Len(chunk') <= f
              /\ truncated' => Len(chunk') = Available
              /\ ~truncated' => Len(chunk') = f
              /\ \A i \in 1..Len(chunk') : chunk'[i] = eligible[i]
              /\ DOMAIN chunk' = 1..Len(chunk')
              /\ DOMAIN eligible' = 1..Len(eligible) - f
              /\ \A i \in 1..Len(eligible) - f : eligible'[i] = eligible[i + f]
<1> DEFINE full == AtMost(Jobs, eligible)
<1>1. eligible \in Seq(Candidates) /\ Jobs \in Nat /\ Len(eligible) \in Nat
  BY BudgetAssumption DEF TypeOK
<1>2. /\ Len(full) \in Nat /\ Len(full) <= Len(eligible) /\ full \in Seq(Candidates)
      /\ \A i \in 1..Len(full) : full[i] = eligible[i]
  <2>1. Len(full) \in Nat /\ \A i \in 1..Len(full) : full[i] = eligible[i]
    BY <1>1, PrefixElements
  <2>2. Len(full) <= Len(eligible)
    BY <1>1, PrefixElements
  <2>3. full \in Seq(Candidates)
    BY <1>1, Prefix
  <2>4. QED
    BY <2>1, <2>2, <2>3
<1>3. Available \in Nat
  BY Numbers, BudgetAssumption DEF BeginBatch, Available, CountInv, Verifying, SearchLimit
<1> HIDE DEF full
<1>4. /\ chunk' = AtMost(Available, full) /\ truncated' = (Len(full) > Available)
      /\ eligible' = SubSeq(eligible, Len(full) + 1, Len(eligible))
      /\ pc' = "jobs" /\ next' = 1 /\ slot' = [i \in 1..Len(chunk') |-> "waiting"]
  BY DEF BeginBatch, Continue, full
<1>5. /\ Len(chunk') \in Nat
      /\ Len(chunk') = IF Len(full) <= Available THEN Len(full) ELSE Available
      /\ \A i \in 1..Len(chunk') : chunk'[i] = full[i]
  BY <1>2, <1>3, <1>4, PrefixElements
<1>6. chunk' \in Seq(Candidates)
  BY <1>2, <1>3, <1>4, Prefix
<1>7. /\ eligible' \in Seq(Candidates) /\ Len(eligible') = Len(eligible) - Len(full)
      /\ \A i \in 1..Len(eligible') : eligible'[i] = eligible[i + Len(full)]
  BY <1>1, <1>2, <1>4, RestElements
<1>8. DOMAIN chunk' = 1..Len(chunk') /\ DOMAIN eligible' = 1..Len(eligible')
  BY <1>6, <1>7
<1>9. \A i \in 1..Len(chunk') : chunk'[i] = eligible[i]
  BY <1>2, <1>3, <1>5
<1>10. /\ Len(chunk') <= Len(full)
       /\ truncated' => Len(chunk') = Available
       /\ ~truncated' => Len(chunk') = Len(full)
  <2>1. truncated' <=> Len(full) > Available
    BY <1>4, Zenon
  <2>2. Len(chunk') <= Len(full)
    BY <1>2, <1>3, <1>5
  <2>3. Len(full) > Available => Len(chunk') = Available
    BY <1>2, <1>3, <1>5
  <2>4. ~(Len(full) > Available) => Len(chunk') = Len(full)
    BY <1>2, <1>3, <1>5
  <2>5. QED
    BY <2>1, <2>2, <2>3, <2>4, Zenon
<1>11. QED
  BY <1>2, <1>3, <1>4, <1>5, <1>7, <1>8, <1>9, <1>10

\* A step that leaves the queue and the batch alone, between batches.
LEMMA QueueKept ==
  ASSUME QueueInv, ~InBatch, ~InBatch',
         UNCHANGED <<quality, proposals, eligible, seen, tried>>,
         pc' \notin {"round", "screen", "propose"}
  PROVE  QueueInv'
<1>1. Taken' = Taken /\ LegalOf(seen)' = LegalOf(seen)
  BY DEF Taken, LegalOf
<1>2. QED
  BY <1>1 DEF QueueInv, Ascending, Elements

LEMMA QueueStep == TypeOK /\ CountInv /\ Joined /\ QueueInv /\ [Next]_vars => QueueInv'
<1> SUFFICES ASSUME TypeOK, CountInv, Joined, QueueInv, [Next]_vars PROVE QueueInv'
  OBVIOUS
<1> USE DEF queue, batch, archives, history
<1>0. quality' = quality
  BY Fixed
<1>1. CASE BeginRound
  <2>1. ASSUME NEW r, End(r), UNCHANGED <<proposals, eligible, seen, tried>>
        PROVE  QueueInv'
    BY <1>0, <1>1, <2>1, QueueKept DEF BeginRound, End, InBatch
  <2>2. ASSUME stats' = Count("rounds"), Continue("screen"), eligible' = <<>>,
               seen' = seen, NEW t \in [1..Len(proposals) -> Candidates],
               Sorts(proposals, t), proposals' = t
        PROVE  QueueInv'
    <3>1. pc = "round" /\ pc' = "screen" /\ tried' = tried
      BY <1>1, <2>2 DEF BeginRound, Continue
    <3>2. Taken' = tried /\ Taken = tried /\ LegalOf(seen)' = LegalOf(seen)
      BY <1>0, <2>2, <3>1 DEF Taken, InBatch, LegalOf
    <3>3. Ascending(eligible)' /\ Elements(eligible)' = {}
      BY <2>2 DEF Ascending, Elements
    <3>4. Len(proposals') = Len(proposals)
          /\ \A i \in 1..Len(proposals) - 1 : proposals'[i] <= proposals'[i + 1]
      BY <2>2, SortKeeps DEF TypeOK, Sorts
    <3>5. stats'["proposals"] = stats["proposals"]
      BY <2>2 DEF TypeOK, Count, Counters
    <3>6. QED
      BY <3>1, <3>2, <3>3, <3>4, <3>5 DEF QueueInv, InBatch
  <2>3. QED
    BY <1>1, <2>1, <2>2 DEF BeginRound
<1>2. CASE Screen
  <2> DEFINE c == Head(proposals)
  <2>1. /\ pc = "screen" /\ proposals # <<>> /\ tried' = tried /\ ~InBatch
        /\ proposals \in Seq(Candidates) /\ eligible \in Seq(Candidates)
        /\ seen \subseteq Candidates /\ Taken = tried
    BY <1>2 DEF Screen, TypeOK, InBatch, Taken
  <2>2. /\ c \in Candidates /\ c = proposals[1] /\ Len(proposals) \in Nat \ {0}
        /\ Tail(proposals) \in Seq(Candidates)
        /\ Len(Tail(proposals)) = Len(proposals) - 1
        /\ \A i \in 1..Len(Tail(proposals)) : Tail(proposals)[i] = proposals[i + 1]
    BY <2>1, HeadTailProperties, EmptySeq
  <2>3. CASE pc' = "verify"
    <3>1. eligible' = eligible /\ seen \subseteq seen'
      BY <1>2, <2>3 DEF Screen, End, Continue
    <3>2. Taken' = tried /\ LegalOf(seen) \subseteq LegalOf(seen)'
      BY <1>0, <2>1, <2>3, <3>1 DEF Taken, InBatch, LegalOf
    <3>3. QED
      BY <2>1, <2>3, <3>1, <3>2 DEF QueueInv, InBatch, Ascending, Elements
  <2>4. CASE pc' = "screen"
    <3>1. /\ proposals' = Tail(proposals) /\ Taken' = tried
          /\ stats["proposals"] < Proposals
      BY <1>2, <2>1, <2>4 DEF Screen, End, Taken, InBatch
    <3>2. \A i \in 1..Len(proposals') - 1 : proposals'[i] <= proposals'[i + 1]
      <4> TAKE i \in 1..Len(proposals') - 1
      <4>1. /\ i + 1 \in 1..Len(proposals) - 1 /\ i \in 1..Len(proposals')
            /\ i + 1 \in 1..Len(proposals')
        BY <2>2, <3>1
      <4>2. proposals'[i] = proposals[i + 1] /\ proposals'[i + 1] = proposals[i + 1 + 1]
        BY <2>2, <3>1, <4>1
      <4>3. QED
        BY <2>1, <4>1, <4>2 DEF QueueInv
    <3>3. proposals' # <<>> => proposals'[1] \in Candidates /\ c <= proposals'[1]
      <4>1. ASSUME proposals' # <<>>
            PROVE  proposals'[1] \in Candidates /\ c <= proposals'[1]
        <5>1. Len(proposals') \in Nat \ {0}
          BY <2>2, <3>1, <4>1, EmptySeq
        <5>2. 1 \in 1..Len(proposals') /\ 1 \in 1..Len(proposals) - 1
          BY <2>2, <3>1, <5>1
        <5>3. proposals'[1] = proposals[1 + 1] /\ proposals'[1] \in Candidates
          BY <2>2, <3>1, <5>2
        <5>4. QED
          BY <2>1, <2>2, <5>2, <5>3 DEF QueueInv
      <4>2. QED
        BY <4>1
    <3>4. \A d \in Elements(eligible) : d \in Candidates /\ d <= c /\ d \in seen
      BY <2>1, <2>2 DEF QueueInv, LegalOf
    <3>5. \A d \in Candidates : d \in Nat
      BY DomainAssumption
    <3>6. \A d \in Elements(eligible) : proposals' # <<>> => d <= proposals'[1]
      BY <2>2, <3>3, <3>4, <3>5
    <3>7. stats'["proposals"] = stats["proposals"] + 1
      <4>1. stats' \in {Count("proposals"), Count2("proposals", "duplicates"),
                        Count2("proposals", "rejected")}
        BY <1>2, <2>4 DEF Screen, End
      <4>2. QED
        BY <4>1 DEF TypeOK, Count, Count2, Counters
    <3>8. stats'["proposals"] + Len(proposals') <= Proposals
      BY <2>1, <2>2, <3>1, <3>7, Numbers, BudgetAssumption DEF QueueInv
    <3>9. CASE eligible' = eligible /\ seen \subseteq seen'
      <4>1. LegalOf(seen) \subseteq LegalOf(seen)'
        BY <1>0, <3>9 DEF LegalOf
      <4>2. Elements(eligible)' = Elements(eligible) /\ Ascending(eligible)'
        BY <3>9 DEF Elements, Ascending, QueueInv
      <4>3. QED
        BY <2>1, <2>4, <3>1, <3>2, <3>6, <3>8, <4>1, <4>2 DEF QueueInv, InBatch
    <3>10. CASE /\ eligible' = Append(eligible, c) /\ seen' = seen \cup {c}
                /\ c \notin seen /\ quality[c] # "illegal"
      <4>1. /\ Len(eligible) \in Nat /\ DOMAIN eligible = 1..Len(eligible)
            /\ DOMAIN eligible' = 1..Len(eligible) + 1
            /\ \A i \in 1..Len(eligible) : eligible'[i] = eligible[i]
            /\ eligible'[Len(eligible) + 1] = c
        BY <2>1, <2>2, <3>10, AppendProperties
      <4>2. Elements(eligible)' = Elements(eligible) \cup {c}
        BY <4>1 DEF Elements
      <4>3. LegalOf(seen)' = LegalOf(seen) \cup {c}
        BY <1>0, <3>10 DEF LegalOf
      <4>4. c \notin tried
        BY <2>1, <3>10 DEF QueueInv, LegalOf
      <4>5. \A d \in Elements(eligible) : d < c
        BY <2>2, <3>4, <3>5, <3>10
      <4>6. Ascending(eligible)'
        <5>1. ASSUME NEW i \in 1..Len(eligible) + 1, NEW j \in 1..Len(eligible) + 1, i < j
              PROVE  eligible'[i] < eligible'[j]
          <6>1. i \in 1..Len(eligible) /\ eligible[i] \in Elements(eligible)
            BY <4>1, <5>1 DEF Elements
          <6>2. CASE j = Len(eligible) + 1
            BY <4>1, <4>5, <6>1, <6>2
          <6>3. CASE j \in 1..Len(eligible)
            BY <4>1, <5>1, <6>1, <6>3 DEF QueueInv, Ascending
          <6>4. QED
            BY <4>1, <6>2, <6>3
        <5>2. QED
          BY <4>1, <5>1 DEF Ascending
      <4>7. \A d \in Elements(eligible)' : proposals' # <<>> => d <= proposals'[1]
        BY <3>3, <3>6, <4>2
      <4>8. QED
        BY <2>1, <2>4, <3>1, <3>2, <3>8, <4>2, <4>3, <4>4, <4>6, <4>7 DEF QueueInv, InBatch
    <3>11. QED
      BY <1>2, <2>4, <3>9, <3>10 DEF Screen, End
  <2>5. QED
    BY <1>2, <2>3, <2>4 DEF Screen, End, Continue
<1>3. CASE BadKey \/ Screened \/ ProposeFails
  BY <1>3, QueueKept DEF BadKey, Screened, ProposeFails, InBatch
<1>4. CASE BeginBatch
  <2>1. /\ pc = "batch" /\ tried' = tried /\ seen' = seen /\ proposals' = proposals
        /\ eligible \in Seq(Candidates) /\ Taken = tried
    BY <1>4 DEF BeginBatch, TypeOK, Taken, InBatch
  <2>2. ASSUME NEW r, End(r), eligible' = eligible PROVE QueueInv'
    BY <1>0, <2>1, <2>2, QueueKept DEF End, InBatch
  <2>3. CASE ~Stopped /\ Available # 0
    <3>1. /\ pc' = "jobs" /\ slot' = [i \in 1..Len(chunk') |-> "waiting"]
          /\ Len(chunk') \in Nat
      BY <1>4, <2>3, Batch
    <3>2. PICK f \in Nat :
            /\ f <= Len(eligible) /\ Len(chunk') <= f
            /\ \A i \in 1..Len(chunk') : chunk'[i] = eligible[i]
            /\ DOMAIN chunk' = 1..Len(chunk')
            /\ DOMAIN eligible' = 1..Len(eligible) - f
            /\ \A i \in 1..Len(eligible) - f : eligible'[i] = eligible[i + f]
      BY <1>4, <2>3, Batch
    <3>3. Len(eligible) \in Nat /\ DOMAIN eligible = 1..Len(eligible)
      BY <2>1
    <3>4. Ascending(chunk)'
      BY <3>1, <3>2, <3>3 DEF Ascending, QueueInv
    <3>5. Ascending(eligible)'
      <4>1. ASSUME NEW i \in 1..Len(eligible) - f, NEW j \in 1..Len(eligible) - f, i < j
            PROVE  eligible'[i] < eligible'[j]
        <5>1. i + f \in 1..Len(eligible) /\ j + f \in 1..Len(eligible) /\ i + f < j + f
          BY <3>2, <3>3, <4>1
        <5>2. QED
          BY <3>2, <3>3, <5>1 DEF Ascending, QueueInv
      <4>2. QED
        BY <3>2, <4>1 DEF Ascending
    <3>6. /\ Elements(chunk)' \subseteq Elements(eligible)
          /\ Elements(eligible)' \subseteq Elements(eligible)
      <4>1. \A i \in 1..Len(chunk') : i \in 1..Len(eligible) /\ chunk'[i] = eligible[i]
        BY <3>1, <3>2, <3>3
      <4>2. \A i \in 1..Len(eligible) - f :
              i + f \in 1..Len(eligible) /\ eligible'[i] = eligible[i + f]
        BY <3>2, <3>3
      <4>3. QED
        BY <3>2, <3>3, <4>1, <4>2 DEF Elements
    <3>7. Elements(chunk)' \cap Elements(eligible)' = {}
      <4>1. ASSUME NEW i \in 1..Len(chunk'), NEW j \in 1..Len(eligible) - f
            PROVE  chunk'[i] # eligible'[j]
        <5>1. /\ i \in 1..Len(eligible) /\ j + f \in 1..Len(eligible) /\ i < j + f
              /\ eligible'[j] = eligible[j + f] /\ chunk'[i] = eligible[i]
          BY <3>1, <3>2, <3>3, <4>1
        <5>2. eligible[i] < eligible[j + f]
          BY <3>3, <5>1 DEF Ascending, QueueInv
        <5>3. eligible[i] \in Candidates /\ eligible[j + f] \in Candidates
          BY <2>1, <5>1
        <5>4. eligible[i] \in Nat /\ eligible[j + f] \in Nat
          BY <5>3, DomainAssumption
        <5>5. QED
          BY <5>1, <5>2, <5>4
      <4>2. QED
        BY <3>2, <4>1 DEF Elements
    <3>8. Taken' = tried \cup Elements(chunk)' /\ LegalOf(seen)' = LegalOf(seen)
      BY <1>0, <2>1, <3>1 DEF Taken, InBatch, LegalOf
    <3>9. \A i \in DOMAIN slot' :
            slot'[i] = "waiting" /\ chunk'[i] \in Elements(eligible)
      BY <3>1, <3>2, <3>6 DEF Elements
    <3>10. \A i \in DOMAIN slot' : chunk'[i] \notin tried'
      BY <2>1, <3>9 DEF QueueInv
    <3>11. QED
      BY <2>1, <3>1, <3>4, <3>5, <3>6, <3>7, <3>8, <3>9, <3>10 DEF QueueInv, InBatch
  <2>4. QED
    BY <1>4, <2>2, <2>3 DEF BeginBatch
<1>5. ASSUME NEW i \in 1..Jobs, StartJob(i) \/ ThreadFails(i) PROVE QueueInv'
  <2>1. /\ pc = "jobs" /\ pc' = "jobs" /\ i \in DOMAIN slot /\ slot[i] = "waiting"
        /\ UNCHANGED <<proposals, eligible, seen, chunk>>
        /\ DOMAIN slot = 1..Len(chunk) /\ DOMAIN chunk = 1..Len(chunk)
        /\ chunk \in Seq(Candidates)
    BY <1>5 DEF StartJob, ThreadFails, TypeOK
  <2>2. \/ slot' = [slot EXCEPT ![i] = "skipped"] /\ tried' = tried
        \/ \E st \in {"running", "late", "unstarted"} :
             slot' = [slot EXCEPT ![i] = st] /\ tried' = tried \cup {chunk[i]}
    BY <1>5 DEF StartJob, ThreadFails
  <2>3. Taken' = Taken /\ LegalOf(seen)' = LegalOf(seen)
    BY <1>0, <2>1, <2>2 DEF Taken, InBatch, Elements, LegalOf
  <2>4. Ascending(chunk) /\ \A j \in DOMAIN slot :
          chunk[j] \in tried <=> slot[j] \notin {"waiting", "skipped"}
    BY <2>1 DEF QueueInv, InBatch
  <2>5. \A j \in DOMAIN slot : chunk[j] = chunk[i] => j = i
    <3> TAKE j \in DOMAIN slot
    <3>0. chunk[j] \in Candidates /\ chunk[i] \in Candidates /\ j \in Nat /\ i \in Nat
      BY <2>1
    <3>1. chunk[j] \in Nat /\ chunk[i] \in Nat /\ j \in Nat /\ i \in Nat
      BY <3>0, DomainAssumption
    <3>2. (i < j => chunk[i] < chunk[j]) /\ (j < i => chunk[j] < chunk[i])
      BY <2>1, <2>4 DEF Ascending
    <3>3. QED
      BY <3>1, <3>2
  <2>6. \A j \in DOMAIN slot' :
          chunk'[j] \in tried' <=> slot'[j] \notin {"waiting", "skipped"}
    BY <2>1, <2>2, <2>4, <2>5
  <2>7. QED
    BY <2>1, <2>3, <2>4, <2>6 DEF QueueInv, InBatch, Ascending, Elements
<1>6. ASSUME NEW i \in 1..Jobs, FinishJob(i) PROVE QueueInv'
  <2>1. /\ pc = "jobs" /\ pc' = "jobs" /\ i \in DOMAIN slot /\ slot[i] = "running"
        /\ UNCHANGED <<proposals, eligible, seen, chunk, tried>>
        /\ \E st \in {"late", "returned"} : slot' = [slot EXCEPT ![i] = st]
    BY <1>6 DEF FinishJob
  <2>2. Taken' = Taken /\ LegalOf(seen)' = LegalOf(seen)
    BY <1>0, <2>1 DEF Taken, InBatch, Elements, LegalOf
  <2>3. \A j \in DOMAIN slot' :
          slot'[j] \in {"waiting", "skipped"} <=> slot[j] \in {"waiting", "skipped"}
    BY <2>1
  <2>4. DOMAIN slot' = DOMAIN slot
    BY <2>1
  <2>5. QED
    BY <2>1, <2>2, <2>3, <2>4 DEF QueueInv, InBatch, Ascending, Elements
<1>7. CASE JoinJobs \/ CollectResult
  <2>1. /\ pc \in {"jobs", "collect"} /\ pc' = "collect"
        /\ UNCHANGED <<proposals, eligible, seen, chunk, tried, slot>>
    BY <1>7 DEF JoinJobs, CollectResult
  <2>2. Taken' = Taken /\ LegalOf(seen)' = LegalOf(seen)
    BY <1>0, <2>1 DEF Taken, InBatch, Elements, LegalOf
  <2>3. QED
    BY <2>1, <2>2 DEF QueueInv, InBatch, Ascending, Elements
<1>8. CASE EndBatch
  <2>1. /\ pc = "collect" /\ pc' \in {"batch", "verify"}
        /\ UNCHANGED <<proposals, eligible, seen, tried>>
    BY <1>8 DEF EndBatch, End, Continue
  <2>2. Taken' \subseteq Taken /\ LegalOf(seen)' = LegalOf(seen)
    BY <1>0, <2>1 DEF Taken, InBatch, LegalOf
  <2>3. QED
    BY <2>1, <2>2 DEF QueueInv, InBatch, Ascending, Elements
<1>9. CASE EndRound
  <2>1. /\ pc = "batch" /\ pc' \in {"propose", "verify"} /\ eligible = <<>>
        /\ UNCHANGED <<proposals, eligible, seen, tried>>
    BY <1>9 DEF EndRound, End, Continue
  <2>2. Taken' = Taken /\ LegalOf(seen)' = LegalOf(seen)
    BY <1>0, <2>1 DEF Taken, InBatch, LegalOf
  <2>3. QED
    BY <2>1, <2>2 DEF QueueInv, InBatch, Ascending, Elements
<1>10. CASE Propose
  <2>1. /\ pc = "propose" /\ pc' \in {"round", "verify"} /\ eligible = <<>>
        /\ UNCHANGED <<eligible, seen, tried, stats>>
    BY <1>10 DEF Propose, End, Continue, QueueInv
  <2>2. Taken' = Taken /\ LegalOf(seen)' = LegalOf(seen)
    BY <1>0, <2>1 DEF Taken, InBatch, LegalOf
  <2>3. pc' = "round" => stats'["proposals"] + Len(proposals') <= Proposals
    <3>1. ASSUME pc' = "round" PROVE stats'["proposals"] + Len(proposals') <= Proposals
      <4>1. PICK s \in Batches : Len(s) <= Proposals - stats["proposals"] /\ proposals' = s
        BY <1>10, <3>1 DEF Propose, End
      <4>2. Len(s) \in Nat
        BY DomainAssumption
      <4>3. QED
        BY <2>1, <4>1, <4>2, Numbers, BudgetAssumption
    <3>2. QED
      BY <3>1
  <2>4. QED
    BY <2>1, <2>2, <2>3 DEF QueueInv, InBatch, Ascending, Elements
<1>11. CASE BeginCheck \/ Return \/ \E f \in {"same", "differs", "failed"} : EndCheck(f)
  BY <1>11, <1>0, QueueKept DEF BeginCheck, Return, EndCheck, InBatch
<1>12. CASE Cancel \/ DeadlinePasses \/ UNCHANGED vars
  <2>1. UNCHANGED <<pc, proposals, eligible, seen, chunk, slot, tried, stats>>
    BY <1>12 DEF Cancel, DeadlinePasses, vars
  <2>2. Taken' = Taken /\ LegalOf(seen)' = LegalOf(seen)
    BY <1>0, <2>1 DEF Taken, InBatch, Elements, LegalOf
  <2>3. QED
    BY <2>1, <2>2 DEF QueueInv, InBatch, Ascending, Elements
<1>13. QED
  BY <1>1, <1>2, <1>3, <1>4, <1>5, <1>6, <1>7, <1>8, <1>9, <1>10, <1>11, <1>12
     DEF Next, Coordinator, Job

LEMMA QueueInit == Init => QueueInv
<1> SUFFICES ASSUME Init PROVE QueueInv
  OBVIOUS
<1>1. pc = "round" /\ eligible = <<>> /\ proposals = plan.list /\ tried = {} /\ seen = {}
  BY DEF Init
<1>2. Len(plan.list) \in Nat
  BY DomainAssumption DEF Init
<1>3. stats["proposals"] + Len(proposals) <= Proposals
  BY <1>1, <1>2, BudgetAssumption DEF Init, Counters
<1>4. QED
  BY <1>1, <1>3 DEF QueueInv, InBatch, Ascending, Elements, Taken, LegalOf

-----------------------------------------------------------------------------
(* What a stop leaves out.                                                 *)

\* A job is skipped or late only after a stop.  Without one, every legal
\* candidate seen is taken or waits, unless the batch under way was cut; and a
\* batch that was cut uses up the evaluations of the search.
CoverInv ==
  /\ InBatch => \A i \in DOMAIN slot : slot[i] \in {"skipped", "late"} => Stopped
  /\ ~Verifying /\ stats["late"] # 0 => Stopped
  /\ ~Verifying /\ ~(InBatch /\ truncated) /\ ~Stopped =>
       Taken \cup Elements(eligible) = LegalOf(seen)
  /\ InBatch /\ truncated /\ ~Stopped =>
       stats["evaluations"] + Len(chunk) + 1 - next = SearchLimit

\* Outside a batch, a step that leaves tried and the late results alone keeps
\* what it keeps of the queue.
LEMMA CoverKept ==
  ASSUME CoverInv, ~InBatch, ~InBatch', ~Verifying \/ Verifying', Stopped => Stopped',
         \/ Verifying'
         \/ /\ stats'["late"] = stats["late"]
            /\ ~Stopped' => (tried \cup Elements(eligible) = LegalOf(seen) =>
                               tried' \cup Elements(eligible)' = LegalOf(seen)')
  PROVE  CoverInv'
<1>1. Taken = tried /\ Taken' = tried'
  BY DEF Taken
<1>2. QED
  BY <1>1 DEF CoverInv

\* Without a stop, every candidate of a batch that is collected was tried.
LEMMA AllTried ==
  ASSUME TypeOK, Joined, QueueInv, CoverInv, pc = "collect", ~Stopped
  PROVE  Elements(chunk) \subseteq tried
<1>1. ASSUME NEW i \in DOMAIN chunk PROVE chunk[i] \in tried
  <2>1. i \in DOMAIN slot
    BY DEF TypeOK
  <2>2. slot[i] \notin {"waiting", "running", "skipped"}
    BY <2>1 DEF Joined, CoverInv, InBatch
  <2>3. QED
    BY <2>1, <2>2 DEF QueueInv, InBatch
<1>2. QED
  BY <1>1 DEF Elements

LEMMA CoverStep ==
  TypeOK /\ CountInv /\ Joined /\ QueueInv /\ CoverInv /\ [Next]_vars => CoverInv'
<1> SUFFICES ASSUME TypeOK, CountInv, Joined, QueueInv, CoverInv, [Next]_vars
             PROVE  CoverInv'
  OBVIOUS
<1> USE DEF queue, batch, archives, history
<1>0. quality' = quality /\ (Stopped => Stopped')
  BY Fixed, StopIsFinal
<1>a. ASSUME UNCHANGED <<eligible, seen, tried>>
      PROVE  tried \cup Elements(eligible) = LegalOf(seen) =>
               tried' \cup Elements(eligible)' = LegalOf(seen)'
  BY <1>0, <1>a DEF Elements, LegalOf
<1>b. \A c \in Counters \ {"late"} : Count(c)["late"] = stats["late"]
  BY DEF Count, TypeOK, Counters
<1>1. CASE BeginRound
  <2>1. pc = "round" /\ tried' = tried /\ seen' = seen /\ eligible = <<>>
    BY <1>1 DEF BeginRound, QueueInv
  <2>2. CASE pc' = "verify"
    BY <1>0, <2>1, <2>2, CoverKept DEF InBatch, Verifying
  <2>3. CASE pc' = "screen"
    <3>1. eligible' = <<>> /\ stats' = Count("rounds")
      BY <1>1, <2>3 DEF BeginRound, End
    <3>2. stats'["late"] = stats["late"]
      BY <1>b, <3>1 DEF Counters
    <3>3. QED
      BY <1>0, <1>a, <2>1, <2>3, <3>1, <3>2, CoverKept DEF InBatch, Verifying
  <2>4. QED
    BY <1>1, <2>2, <2>3 DEF BeginRound, End, Continue
<1>2. CASE Screen
  <2> DEFINE c == Head(proposals)
  <2>1. /\ pc = "screen" /\ tried' = tried /\ eligible \in Seq(Candidates)
        /\ c \in Candidates
    BY <1>2 DEF Screen, TypeOK
  <2>2. CASE pc' = "verify"
    BY <1>0, <2>1, <2>2, CoverKept DEF InBatch, Verifying
  <2>3. CASE pc' = "screen"
    <3>1. stats'["late"] = stats["late"]
      <4>1. stats' \in {Count("proposals"), Count2("proposals", "duplicates"),
                        Count2("proposals", "rejected")}
        BY <1>2, <2>3 DEF Screen, End
      <4>2. QED
        BY <4>1 DEF TypeOK, Count, Count2, Counters
    <3>2. CASE seen' = seen /\ eligible' = eligible
      BY <1>0, <1>a, <2>1, <2>3, <3>1, <3>2, CoverKept DEF InBatch, Verifying
    <3>3. CASE seen' = seen \cup {c} /\ eligible' = eligible /\ quality[c] = "illegal"
      <4>1. LegalOf(seen)' = LegalOf(seen) /\ Elements(eligible)' = Elements(eligible)
        BY <1>0, <3>3 DEF LegalOf, Elements
      <4>2. QED
        BY <1>0, <2>1, <2>3, <3>1, <4>1, CoverKept DEF InBatch, Verifying
    <3>4. CASE /\ seen' = seen \cup {c} /\ eligible' = Append(eligible, c)
               /\ quality[c] # "illegal"
      <4>1. LegalOf(seen)' = LegalOf(seen) \cup {c}
        BY <1>0, <3>4 DEF LegalOf
      <4>2. /\ Len(eligible) \in Nat /\ DOMAIN eligible = 1..Len(eligible)
            /\ DOMAIN eligible' = 1..Len(eligible) + 1
            /\ \A i \in 1..Len(eligible) : eligible'[i] = eligible[i]
            /\ eligible'[Len(eligible) + 1] = c
        BY <2>1, <3>4, AppendProperties
      <4>3. Elements(eligible)' = Elements(eligible) \cup {c}
        BY <4>2 DEF Elements
      <4>4. QED
        BY <1>0, <2>1, <2>3, <3>1, <4>1, <4>3, CoverKept DEF InBatch, Verifying
    <3>5. QED
      BY <1>2, <2>3, <3>2, <3>3, <3>4 DEF Screen, End
  <2>4. QED
    BY <1>2, <2>2, <2>3 DEF Screen, End, Continue
<1>3. CASE BadKey \/ Screened \/ ProposeFails
  BY <1>0, <1>3, <1>a, CoverKept DEF BadKey, Screened, ProposeFails, InBatch, Verifying
<1>4. CASE BeginBatch
  <2>1. /\ pc = "batch" /\ tried' = tried /\ seen' = seen /\ stats' = stats
        /\ cancelled' = cancelled /\ expired' = expired /\ Taken = tried
        /\ eligible \in Seq(Candidates)
    BY <1>4 DEF BeginBatch, TypeOK, Taken, InBatch
  <2>2. CASE pc' = "verify"
    BY <1>0, <2>1, <2>2, CoverKept DEF InBatch, Verifying
  <2>3. CASE ~Stopped /\ Available # 0
    <3>1. /\ pc' = "jobs" /\ slot' = [i \in 1..Len(chunk') |-> "waiting"]
          /\ Len(chunk') \in Nat /\ next' = 1 /\ Available \in Nat
      BY <1>4, <2>3, Batch
    <3>2. PICK f \in Nat :
            /\ f <= Len(eligible) /\ Len(chunk') <= f
            /\ truncated' => Len(chunk') = Available
            /\ ~truncated' => Len(chunk') = f
            /\ \A i \in 1..Len(chunk') : chunk'[i] = eligible[i]
            /\ DOMAIN chunk' = 1..Len(chunk')
            /\ DOMAIN eligible' = 1..Len(eligible) - f
            /\ \A i \in 1..Len(eligible) - f : eligible'[i] = eligible[i + f]
      BY <1>4, <2>3, Batch
    <3>3. Len(eligible) \in Nat /\ DOMAIN eligible = 1..Len(eligible)
      BY <2>1
    <3>4. truncated' => stats'["evaluations"] + Len(chunk') + 1 - next' = SearchLimit
      <4>1. truncated' => Len(chunk') = SearchLimit - stats["evaluations"]
        BY <3>2 DEF Available
      <4>2. stats["evaluations"] \in Nat /\ SearchLimit \in Int
        BY Numbers, BudgetAssumption DEF SearchLimit
      <4>3. QED
        BY <2>1, <3>1, <4>1, <4>2
    <3>5. ~truncated' => Taken' \cup Elements(eligible)' = LegalOf(seen)'
      <4>1. ASSUME ~truncated'
            PROVE  Elements(chunk)' \cup Elements(eligible)' = Elements(eligible)
        <5>1. Len(chunk') = f
          BY <3>2, <4>1
        <5>0. f \in Nat /\ f <= Len(eligible)
          BY <3>2, Zenon
        <5>2. \A i \in 1..Len(eligible) : \/ i \in 1..f
                                          \/ /\ i - f \in 1..Len(eligible) - f
                                             /\ i = (i - f) + f
          BY <3>3, <5>0
        <5>3. \A i \in 1..Len(eligible) : \/ i \in 1..f /\ eligible[i] = chunk'[i]
                                          \/ /\ i - f \in 1..Len(eligible) - f
                                             /\ eligible[i] = eligible'[i - f]
          BY <3>2, <5>1, <5>2
        <5>4. \A i \in 1..f : i \in 1..Len(eligible)
          BY <3>3, <5>0
        <5>5. \A i \in 1..Len(eligible) - f : i + f \in 1..Len(eligible)
          BY <3>3, <5>0
        <5>6. /\ Elements(chunk)' = {chunk'[i] : i \in 1..f}
              /\ Elements(eligible)' = {eligible'[i] : i \in 1..Len(eligible) - f}
              /\ Elements(eligible) = {eligible[i] : i \in 1..Len(eligible)}
          BY <3>2, <3>3, <5>1 DEF Elements
        <5>7. \A i \in 1..f : chunk'[i] = eligible[i] /\ i \in 1..Len(eligible)
          BY <3>2, <5>1, <5>4
        <5>8. \A i \in 1..Len(eligible) - f :
                eligible'[i] = eligible[i + f] /\ i + f \in 1..Len(eligible)
          BY <3>2, <5>5
        <5>9. QED
          BY <5>3, <5>6, <5>7, <5>8
      <4>2. Taken' = tried \cup Elements(chunk)' /\ LegalOf(seen)' = LegalOf(seen)
        BY <1>0, <2>1, <3>1 DEF Taken, InBatch, LegalOf
      <4>3. tried \cup Elements(eligible) = LegalOf(seen)
        BY <2>1, <2>3 DEF CoverInv, Verifying, InBatch
      <4>4. QED
        BY <4>1, <4>2, <4>3
    <3>6. stats'["late"] = 0
      BY <2>1, <2>3 DEF CoverInv, Verifying
    <3>7. \A i \in DOMAIN slot' : slot'[i] \notin {"skipped", "late"}
      BY <3>1
    <3>8. InBatch'
      BY <3>1 DEF InBatch
    <3>9. QED
      BY <3>4, <3>5, <3>6, <3>7, <3>8 DEF CoverInv
  <2>4. QED
    BY <1>4, <2>2, <2>3 DEF BeginBatch, End
<1>5. ASSUME NEW i \in 1..Jobs, StartJob(i) \/ ThreadFails(i) \/ FinishJob(i)
      PROVE  CoverInv'
  <2>1. /\ pc = "jobs" /\ pc' = "jobs" /\ i \in DOMAIN slot
        /\ UNCHANGED <<eligible, seen, chunk, stats, next, truncated, cancelled, expired>>
        /\ slot[i] \in {"waiting", "running"} /\ DOMAIN slot = 1..Len(chunk)
    BY <1>5 DEF StartJob, ThreadFails, FinishJob, TypeOK
  <2>2. \E st \in {"running", "skipped", "late", "unstarted", "returned"} :
          slot' = [slot EXCEPT ![i] = st] /\ (st \in {"skipped", "late"} => Stopped)
    BY <1>5 DEF StartJob, ThreadFails, FinishJob
  <2>3. tried' \in {tried, tried \cup {chunk[i]}}
    BY <1>5 DEF StartJob, ThreadFails, FinishJob
  <2>4. DOMAIN chunk = 1..Len(chunk)
    BY DEF TypeOK
  <2>5. /\ Taken' = Taken /\ LegalOf(seen)' = LegalOf(seen)
        /\ Elements(eligible)' = Elements(eligible)
    BY <1>0, <2>1, <2>3, <2>4 DEF Taken, InBatch, LegalOf, Elements
  <2>6. Stopped' <=> Stopped
    BY <2>1 DEF Stopped
  <2>7. \A j \in DOMAIN slot' : slot'[j] \in {"skipped", "late"} => Stopped'
    BY <2>1, <2>2, <2>6 DEF CoverInv, InBatch
  <2>8. QED
    BY <2>1, <2>5, <2>6, <2>7 DEF CoverInv, InBatch, Verifying
<1>6. CASE JoinJobs
  BY <1>0, <1>6 DEF JoinJobs, CoverInv, Taken, InBatch, Verifying, LegalOf, Elements, Stopped
<1>7. CASE CollectResult
  <2>1. /\ pc = "collect" /\ pc' = "collect" /\ next' = next + 1 /\ next <= Len(chunk)
        /\ UNCHANGED <<eligible, seen, chunk, slot, tried, truncated, cancelled, expired>>
        /\ next \in DOMAIN slot
    BY <1>7 DEF CollectResult, TypeOK
  <2>2. /\ Taken' = Taken /\ LegalOf(seen)' = LegalOf(seen)
        /\ Elements(eligible)' = Elements(eligible) /\ (Stopped' <=> Stopped)
    BY <1>0, <2>1 DEF Taken, InBatch, LegalOf, Elements, Stopped
  <2>3. CASE Stopped
    BY <2>1, <2>2, <2>3 DEF CoverInv, InBatch, Verifying
  <2>4. CASE ~Stopped
    <3>1. slot[next] \notin {"skipped", "late"}
      BY <2>1, <2>4 DEF CoverInv, InBatch
    <3>2. Outcome(next) \in {"failures", "unavailable", "assessed"}
      BY <3>1 DEF Outcome
    <3>3. \/ stats' = Count("evaluations")
          \/ stats' = Count2("evaluations", "failures")
          \/ stats' = Count2("evaluations", "unavailable")
      BY <1>7, <3>2 DEF CollectResult
    <3>4. /\ stats'["evaluations"] = stats["evaluations"] + 1
          /\ stats'["late"] = stats["late"]
      BY <3>3 DEF TypeOK, Count, Count2, Counters
    <3>5. truncated => stats'["evaluations"] + Len(chunk') + 1 - next' = SearchLimit
      <4>1. truncated => stats["evaluations"] + Len(chunk) + 1 - next = SearchLimit
        BY <2>1, <2>4 DEF CoverInv, InBatch
      <4>2. /\ stats["evaluations"] \in Nat /\ next \in Nat /\ Len(chunk) \in Nat
            /\ Len(chunk') = Len(chunk)
        BY <2>1, Numbers
      <4>3. QED
        BY <2>1, <3>4, <4>1, <4>2
    <3>6. QED
      BY <2>1, <2>2, <2>4, <3>4, <3>5 DEF CoverInv, InBatch, Verifying
  <2>5. QED
    BY <2>3, <2>4
<1>8. CASE EndBatch
  <2>1. /\ pc = "collect" /\ pc' \in {"batch", "verify"}
        /\ UNCHANGED <<eligible, seen, chunk, slot, tried, stats, cancelled, expired>>
        /\ (pc' = "batch" => ~truncated)
    BY <1>8 DEF EndBatch, End, Continue
  <2>2. CASE pc' = "verify"
    BY <2>2 DEF CoverInv, InBatch, Verifying
  <2>3. CASE pc' = "batch"
    <3>1. (Stopped' <=> Stopped) /\ (~Stopped => stats'["late"] = 0)
      BY <2>1 DEF Stopped, CoverInv, Verifying
    <3>2. ~Stopped => Elements(chunk) \subseteq tried
      BY <2>1, AllTried
    <3>3. ~Stopped => Taken' = Taken
      BY <2>1, <2>3, <3>2 DEF Taken, InBatch
    <3>4. LegalOf(seen)' = LegalOf(seen) /\ Elements(eligible)' = Elements(eligible)
      BY <1>0, <2>1 DEF LegalOf, Elements
    <3>5. QED
      BY <2>1, <2>3, <3>1, <3>3, <3>4 DEF CoverInv, InBatch, Verifying
  <2>4. QED
    BY <2>1, <2>2, <2>3
<1>9. CASE EndRound \/ Propose
  <2>1. /\ pc \in {"batch", "propose"} /\ pc' \in {"propose", "round", "verify"}
        /\ UNCHANGED <<eligible, seen, tried, stats>>
    BY <1>9 DEF EndRound, Propose, End, Continue
  <2>2. QED
    BY <1>0, <1>a, <2>1, CoverKept DEF InBatch, Verifying
<1>10. CASE BeginCheck \/ Return \/ \E f \in {"same", "differs", "failed"} : EndCheck(f)
  BY <1>0, <1>10, CoverKept DEF BeginCheck, Return, EndCheck, InBatch, Verifying
<1>11. CASE Cancel \/ DeadlinePasses \/ UNCHANGED vars
  <2>1. UNCHANGED <<pc, eligible, seen, chunk, slot, tried, stats, truncated, next>>
    BY <1>11 DEF Cancel, DeadlinePasses, vars
  <2>2. /\ Taken' = Taken /\ LegalOf(seen)' = LegalOf(seen)
        /\ Elements(eligible)' = Elements(eligible)
    BY <1>0, <2>1 DEF Taken, InBatch, LegalOf, Elements
  <2>3. QED
    BY <1>0, <2>1, <2>2 DEF CoverInv, InBatch, Verifying
<1>12. QED
  BY <1>1, <1>2, <1>3, <1>4, <1>5, <1>6, <1>7, <1>8, <1>9, <1>10, <1>11
     DEF Next, Coordinator, Job

LEMMA CoverInit == Init => CoverInv
  BY DEF Init, CoverInv, InBatch, Verifying, Taken, Elements, LegalOf, Counters

-----------------------------------------------------------------------------
(* The accounts.                                                           *)

\* Assessments the batch holds that are not counted yet.
Awaited == {i \in DOMAIN slot : /\ i >= next /\ slot[i] = "returned"
                                /\ quality[chunk[i]] \in DOMAIN Rank}

Accounted == stats["late"] + stats["failures"] + stats["unavailable"]
               + Cardinality(judged)

\* Every candidate tried is counted once or waits in the batch to be counted;
\* so is every assessment.
AccountInv ==
  /\ judged \subseteq tried
  /\ InBatch => \A i \in DOMAIN slot : chunk[i] \in judged => slot[i] = "returned"
  /\ InBatch => /\ Cardinality(tried) = stats["evaluations"] + Cardinality(Spent)
                /\ Accounted = stats["evaluations"] + Cardinality(Awaited)
  /\ (~Verifying /\ ~InBatch) \/ (pc = "verify" /\ checks = <<>>) =>
       /\ Cardinality(tried) = stats["evaluations"]
       /\ Accounted = stats["evaluations"]

\* The counters the accounts add up are naturals.
LEMMA AccountNumbers ==
  TypeOK => /\ \A c \in Counters : stats[c] \in Nat
            /\ IsFiniteSet(judged) /\ Cardinality(judged) \in Nat
            /\ IsFiniteSet(tried) /\ Cardinality(tried) \in Nat
            /\ IsFiniteSet(Spent) /\ Cardinality(Spent) \in Nat
            /\ IsFiniteSet(Awaited) /\ Cardinality(Awaited) \in Nat
<1> SUFFICES ASSUME TypeOK
             PROVE  /\ \A c \in Counters : stats[c] \in Nat
                    /\ IsFiniteSet(judged) /\ Cardinality(judged) \in Nat
                    /\ IsFiniteSet(tried) /\ Cardinality(tried) \in Nat
                    /\ IsFiniteSet(Spent) /\ Cardinality(Spent) \in Nat
                    /\ IsFiniteSet(Awaited) /\ Cardinality(Awaited) \in Nat
  OBVIOUS
<1>1. Len(chunk) \in Nat /\ DOMAIN slot = 1..Len(chunk)
  BY DEF TypeOK
<1>2. IsFiniteSet(1..Len(chunk))
  BY <1>1, FS_Interval
<1>3. Spent \in SUBSET (1..Len(chunk)) /\ Awaited \in SUBSET (1..Len(chunk))
  BY <1>1 DEF Spent, Awaited
<1>4. IsFiniteSet(Spent) /\ IsFiniteSet(Awaited)
  BY <1>2, <1>3, FS_Subset
<1>5. IsFiniteSet(judged) /\ IsFiniteSet(tried)
  BY DomainAssumption, FS_Subset DEF TypeOK
<1>6. \A c \in Counters : stats[c] \in Nat
  BY DEF TypeOK
<1>7. QED
  BY <1>4, <1>5, <1>6, FS_CardinalityType

\* Outside a batch, a step that leaves the accounts alone.
LEMMA AccountKept ==
  ASSUME AccountInv, ~InBatch, ~InBatch', UNCHANGED <<tried, judged>>,
         \/ Verifying' /\ ~(pc' = "verify" /\ checks' = <<>>)
         \/ /\ ~Verifying \/ (pc = "verify" /\ checks = <<>>)
            /\ \A c \in {"evaluations", "late", "failures", "unavailable"} :
                 stats'[c] = stats[c]
  PROVE  AccountInv'
<1>1. CASE Verifying' /\ ~(pc' = "verify" /\ checks' = <<>>)
  BY <1>1 DEF AccountInv
<1>2. CASE /\ ~Verifying \/ (pc = "verify" /\ checks = <<>>)
           /\ \A c \in {"evaluations", "late", "failures", "unavailable"} :
                stats'[c] = stats[c]
  <2>1. Accounted' = Accounted /\ stats'["evaluations"] = stats["evaluations"]
    BY <1>2 DEF Accounted
  <2>2. QED
    BY <1>2, <2>1 DEF AccountInv
<1>3. QED
  BY <1>1, <1>2

LEMMA AccountStep ==
  TypeOK /\ CountInv /\ Joined /\ QueueInv /\ AccountInv /\ [Next]_vars => AccountInv'
<1> SUFFICES ASSUME TypeOK, CountInv, Joined, QueueInv, AccountInv, [Next]_vars
             PROVE  AccountInv'
  OBVIOUS
<1> USE DEF queue, batch, archives, history
<1>0. quality' = quality
  BY Fixed
<1>a. /\ \A c \in Counters : stats[c] \in Nat
      /\ IsFiniteSet(judged) /\ Cardinality(judged) \in Nat
      /\ IsFiniteSet(tried) /\ Cardinality(tried) \in Nat
      /\ IsFiniteSet(Spent) /\ Cardinality(Spent) \in Nat
      /\ IsFiniteSet(Awaited) /\ Cardinality(Awaited) \in Nat
  BY AccountNumbers
<1>b. /\ stats["evaluations"] \in Nat /\ stats["late"] \in Nat
      /\ stats["failures"] \in Nat /\ stats["unavailable"] \in Nat
  BY <1>a DEF Counters
<1>1. CASE BeginRound \/ Screen \/ BadKey \/ Screened \/ EndRound \/ Propose \/ ProposeFails
  <2>1. /\ pc \in {"round", "screen", "batch", "propose"}
        /\ UNCHANGED <<tried, judged, checks>>
    BY <1>1 DEF BeginRound, Screen, BadKey, Screened, EndRound, Propose, ProposeFails
  <2>2. pc' \notin {"jobs", "collect"}
    BY <1>1 DEF BeginRound, Screen, BadKey, Screened, EndRound, Propose, ProposeFails,
                End, Continue
  <2>3. \/ stats' = stats
        \/ stats' \in {Count("rounds"), Count("proposals"),
                       Count2("proposals", "duplicates"), Count2("proposals", "rejected")}
    BY <1>1 DEF BeginRound, Screen, BadKey, Screened, EndRound, Propose, ProposeFails
  <2>4. \A c \in {"evaluations", "late", "failures", "unavailable"} : stats'[c] = stats[c]
    BY <2>3 DEF TypeOK, Count, Count2, Counters
  <2>5. QED
    BY <2>1, <2>2, <2>4, AccountKept DEF Verifying, InBatch
<1>2. CASE BeginBatch
  <2>1. /\ pc = "batch" /\ UNCHANGED <<tried, judged, checks, stats>>
        /\ eligible \in Seq(Candidates)
    BY <1>2 DEF BeginBatch, TypeOK
  <2>2. CASE pc' = "verify"
    BY <2>1, <2>2, AccountKept DEF Verifying, InBatch
  <2>3. CASE ~Stopped /\ Available # 0
    <3>1. /\ pc' = "jobs" /\ slot' = [i \in 1..Len(chunk') |-> "waiting"]
      BY <1>2, <2>3, Batch
    <3>2. Spent' = {} /\ Awaited' = {}
      BY <3>1 DEF Spent, Awaited
    <3>3. Cardinality(Spent') = 0 /\ Cardinality(Awaited') = 0
      BY <3>2, FS_EmptySet
    <3>4. /\ Cardinality(tried) = stats["evaluations"] /\ Accounted = stats["evaluations"]
          /\ judged \subseteq tried
      BY <2>1 DEF AccountInv, Verifying, InBatch
    <3>5. Accounted' = Accounted
      BY <2>1 DEF Accounted
    <3>6. \A i \in DOMAIN slot' : chunk'[i] \notin judged'
      <4>1. ASSUME NEW i \in DOMAIN slot' PROVE chunk'[i] \notin judged'
        <5>1. chunk'[i] \in Elements(eligible)
          <6>1. PICK f \in Nat :
                  /\ f <= Len(eligible) /\ Len(chunk') <= f
                  /\ \A j \in 1..Len(chunk') : chunk'[j] = eligible[j]
            BY <1>2, <2>3, Batch
          <6>2. i \in 1..Len(chunk') /\ Len(chunk') \in Nat
            BY <1>2, <2>3, <3>1, <4>1, Batch
          <6>3. i \in 1..Len(eligible) /\ chunk'[i] = eligible[i]
            BY <2>1, <6>1, <6>2
          <6>4. QED
            BY <2>1, <6>3 DEF Elements
        <5>2. QED
          BY <2>1, <3>4, <5>1 DEF QueueInv, Taken, InBatch
      <4>2. QED
        BY <4>1
    <3>7. /\ Cardinality(tried') = stats'["evaluations"] + Cardinality(Spent')
          /\ Accounted' = stats'["evaluations"] + Cardinality(Awaited')
      BY <1>b, <2>1, <3>3, <3>4, <3>5
    <3>8. QED
      BY <2>1, <3>1, <3>4, <3>6, <3>7 DEF AccountInv, InBatch, Verifying
  <2>4. QED
    BY <1>2, <2>2, <2>3 DEF BeginBatch, End
<1>3. ASSUME NEW i \in 1..Jobs, StartJob(i) \/ ThreadFails(i) PROVE AccountInv'
  <2>1. /\ pc = "jobs" /\ pc' = "jobs" /\ i \in DOMAIN slot /\ slot[i] = "waiting"
        /\ next = 1 /\ UNCHANGED <<chunk, judged, stats, next>>
        /\ DOMAIN slot = 1..Len(chunk)
    BY <1>3 DEF StartJob, ThreadFails, TypeOK, CountInv
  <2>2. \E st \in {"skipped", "running", "late", "unstarted"} :
          slot' = [slot EXCEPT ![i] = st]
    BY <1>3 DEF StartJob, ThreadFails
  <2>3. Awaited' = Awaited /\ Accounted' = Accounted
    BY <1>0, <2>1, <2>2 DEF Awaited, Accounted
  <2>4. \A j \in DOMAIN slot' : chunk'[j] \in judged' => slot'[j] = "returned"
    BY <2>1, <2>2 DEF AccountInv, InBatch
  <2>5. judged' \subseteq tried'
    BY <1>3 DEF StartJob, ThreadFails, AccountInv
  <2>6. Cardinality(tried) = stats["evaluations"] + Cardinality(Spent)
        /\ Accounted = stats["evaluations"] + Cardinality(Awaited)
    BY <2>1 DEF AccountInv, InBatch
  <2>7. Cardinality(tried') = stats'["evaluations"] + Cardinality(Spent')
    <3>1. CASE slot' = [slot EXCEPT ![i] = "skipped"] /\ tried' = tried
      <4>1. Spent' = Spent
        BY <2>1, <3>1 DEF Spent
      <4>2. QED
        BY <2>1, <2>6, <3>1, <4>1
    <3>2. CASE \E st \in {"running", "late", "unstarted"} :
                 slot' = [slot EXCEPT ![i] = st] /\ tried' = tried \cup {chunk[i]}
      <4>1. Spent' = Spent \cup {i} /\ i \notin Spent
        BY <2>1, <3>2 DEF Spent
      <4>2. chunk[i] \notin tried
        BY <2>1 DEF QueueInv, InBatch
      <4>3. Cardinality(Spent') = Cardinality(Spent) + 1
        BY <1>a, <4>1, FS_AddElement
      <4>4. Cardinality(tried') = Cardinality(tried) + 1
        BY <1>a, <3>2, <4>2, FS_AddElement
      <4>5. QED
        BY <1>a, <1>b, <2>1, <2>6, <4>3, <4>4, SMTT(60)
    <3>3. QED
      BY <1>3, <3>1, <3>2 DEF StartJob, ThreadFails
  <2>8. Accounted' = stats'["evaluations"] + Cardinality(Awaited')
    BY <2>1, <2>3, <2>6
  <2>9. QED
    BY <2>1, <2>4, <2>5, <2>7, <2>8 DEF AccountInv, InBatch, Verifying
<1>4. ASSUME NEW i \in 1..Jobs, FinishJob(i) PROVE AccountInv'
  <2>1. /\ pc = "jobs" /\ pc' = "jobs" /\ i \in DOMAIN slot /\ slot[i] = "running"
        /\ next = 1 /\ UNCHANGED <<chunk, tried, stats, next>>
        /\ DOMAIN slot = 1..Len(chunk) /\ DOMAIN chunk = 1..Len(chunk)
        /\ chunk \in Seq(Candidates)
    BY <1>4 DEF FinishJob, TypeOK, CountInv
  <2>2. /\ Cardinality(tried) = stats["evaluations"] + Cardinality(Spent)
        /\ Accounted = stats["evaluations"] + Cardinality(Awaited)
        /\ judged \subseteq tried
        /\ \A j \in DOMAIN slot : chunk[j] \in judged => slot[j] = "returned"
    BY <2>1 DEF AccountInv, InBatch
  <2>3. Spent' = Spent
    BY <1>4 DEF FinishJob, Spent, TypeOK
  <2>4. chunk[i] \in tried /\ chunk[i] \notin judged
    BY <2>1, <2>2 DEF QueueInv, InBatch
  <2>5. CASE ~Stopped /\ quality[chunk[i]] \in DOMAIN Rank
    <3>1. judged' = judged \cup {chunk[i]} /\ slot' = [slot EXCEPT ![i] = "returned"]
      BY <1>4, <2>5 DEF FinishJob
    <3>2. Awaited' = Awaited \cup {i} /\ i \notin Awaited
      BY <1>0, <2>1, <2>5, <3>1 DEF Awaited
    <3>3. /\ Cardinality(Awaited') = Cardinality(Awaited) + 1
          /\ Cardinality(judged') = Cardinality(judged) + 1
      BY <1>a, <2>4, <3>1, <3>2, FS_AddElement
    <3>4. Accounted' = Accounted + 1
      <4>1. stats' = stats /\ Cardinality(judged) \in Nat
        BY <1>a, <2>1
      <4>2. QED
        BY <1>b, <3>3, <4>1 DEF Accounted
    <3>5. Accounted' = stats'["evaluations"] + Cardinality(Awaited')
      <4>1. stats' = stats /\ Cardinality(Awaited) \in Nat
        BY <1>a, <2>1
      <4>2. QED
        BY <1>b, <2>2, <3>3, <3>4, <4>1
    <3>6. \A j \in DOMAIN slot : chunk[j] = chunk[i] => j = i
      <4> TAKE j \in DOMAIN slot
      <4>1. chunk[j] \in Candidates /\ chunk[i] \in Candidates /\ j \in Nat /\ i \in Nat
        BY <2>1
      <4>2. chunk[j] \in Nat /\ chunk[i] \in Nat
        BY <4>1, DomainAssumption
      <4>3. (i < j => chunk[i] < chunk[j]) /\ (j < i => chunk[j] < chunk[i])
        BY <2>1 DEF QueueInv, InBatch, Ascending
      <4>4. QED
        BY <4>1, <4>2, <4>3
    <3>7. \A j \in DOMAIN slot' : chunk'[j] \in judged' => slot'[j] = "returned"
      BY <2>1, <2>2, <3>1, <3>6
    <3>8. QED
      BY <2>1, <2>2, <2>3, <2>4, <3>1, <3>5, <3>7 DEF AccountInv, InBatch, Verifying
  <2>6. CASE Stopped \/ quality[chunk[i]] \notin DOMAIN Rank
    <3>1. judged' = judged
      BY <1>4, <2>6 DEF FinishJob
    <3>2. \/ slot' = [slot EXCEPT ![i] = "late"]
          \/ slot' = [slot EXCEPT ![i] = "returned"] /\ quality[chunk[i]] \notin DOMAIN Rank
      BY <1>4, <2>6 DEF FinishJob
    <3>3. Awaited' = Awaited
      BY <1>0, <2>1, <3>2 DEF Awaited
    <3>4. Accounted' = Accounted
      BY <2>1, <3>1 DEF Accounted
    <3>5. \A j \in DOMAIN slot' : chunk'[j] \in judged' => slot'[j] = "returned"
      BY <2>1, <2>2, <2>4, <3>1, <3>2
    <3>6. Accounted' = stats'["evaluations"] + Cardinality(Awaited')
      BY <2>1, <2>2, <3>3, <3>4
    <3>7. QED
      BY <2>1, <2>2, <2>3, <3>1, <3>5, <3>6 DEF AccountInv, InBatch, Verifying
  <2>7. QED
    BY <2>5, <2>6
<1>5. CASE JoinJobs
  BY <1>0, <1>5 DEF JoinJobs, AccountInv, InBatch, Verifying, Spent, Awaited, Accounted
<1>6. CASE CollectResult
  <2>1. /\ pc = "collect" /\ pc' = "collect" /\ next' = next + 1 /\ next <= Len(chunk)
        /\ UNCHANGED <<chunk, slot, tried, judged>>
        /\ next \in DOMAIN slot /\ DOMAIN slot = 1..Len(chunk) /\ next \in Nat
        /\ DOMAIN chunk = 1..Len(chunk) /\ Len(chunk) \in Nat
    BY <1>6 DEF CollectResult, TypeOK
  <2>2. /\ Cardinality(tried) = stats["evaluations"] + Cardinality(Spent)
        /\ Accounted = stats["evaluations"] + Cardinality(Awaited)
        /\ judged \subseteq tried
        /\ \A j \in DOMAIN slot : chunk[j] \in judged => slot[j] = "returned"
    BY <2>1 DEF AccountInv, InBatch
  <2>3. slot[next] \in {"skipped", "late", "unstarted", "returned"}
    BY <2>1 DEF Joined, TypeOK
  <2>4. Spent' = Spent \ {next} /\ Awaited' = Awaited \ {next}
    BY <1>0, <2>1 DEF Spent, Awaited
  <2>5. /\ next \in Spent <=> slot[next] # "skipped"
        /\ next \in Awaited <=>
             slot[next] = "returned" /\ quality[chunk[next]] \in DOMAIN Rank
    BY <2>1, <2>3 DEF Spent, Awaited
  <2>6. quality[chunk[next]] \in {"failed", "unavailable"} \cup DOMAIN Rank
    <3>1. chunk[next] \in LegalOf(seen)
      BY <2>1 DEF QueueInv, Taken, InBatch, Elements
    <3>2. quality[chunk[next]] # "illegal" /\ chunk[next] \in Candidates
      BY <3>1 DEF LegalOf, TypeOK
    <3>3. quality[chunk[next]] \in Qualities
      BY <3>2 DEF TypeOK
    <3>4. QED
      BY <3>2, <3>3 DEF Qualities, Rank, Feasible, Infeasible
  <2>7. DOMAIN Rank = {"good", "fair", "poor"}
    BY DEF Rank, Feasible, Infeasible
  <2>8. /\ Cardinality(Spent') = IF next \in Spent THEN Cardinality(Spent) - 1
                                                   ELSE Cardinality(Spent)
        /\ Cardinality(Awaited') = IF next \in Awaited THEN Cardinality(Awaited) - 1
                                                       ELSE Cardinality(Awaited)
    BY <1>a, <2>4, FS_RemoveElement
  <2>9. CASE slot[next] = "skipped"
    <3>1. stats' = stats
      BY <1>6, <2>9 DEF CollectResult, Outcome
    <3>2. next \notin Spent /\ next \notin Awaited
      BY <2>5, <2>9
    <3>3. Accounted' = Accounted
      BY <2>1, <3>1 DEF Accounted
    <3>4. QED
      BY <2>1, <2>2, <2>8, <3>1, <3>2, <3>3 DEF AccountInv, InBatch, Verifying
  <2>10. CASE next \in Awaited
    <3>1. Outcome(next) = "assessed"
      BY <2>5, <2>7, <2>10 DEF Outcome
    <3>2. stats' = Count("evaluations")
      BY <1>6, <3>1 DEF CollectResult
    <3>3. /\ stats'["evaluations"] = stats["evaluations"] + 1
          /\ stats'["late"] = stats["late"] /\ stats'["failures"] = stats["failures"]
          /\ stats'["unavailable"] = stats["unavailable"]
      BY <3>2 DEF TypeOK, Count, Counters
    <3>4. Accounted' = Accounted /\ next \in Spent
      BY <2>1, <2>5, <2>10, <3>3 DEF Accounted
    <3>5. /\ Cardinality(tried') = stats'["evaluations"] + Cardinality(Spent')
          /\ Accounted' = stats'["evaluations"] + Cardinality(Awaited')
      <4>1. /\ Cardinality(Spent') = Cardinality(Spent) - 1
            /\ Cardinality(Awaited') = Cardinality(Awaited) - 1
        BY <2>8, <2>10, <3>4
      <4>2. Cardinality(tried') = Cardinality(tried)
        BY <2>1
      <4>3. QED
        BY <1>a, <1>b, <2>2, <3>3, <3>4, <4>1, <4>2
    <3>6. QED
      BY <2>1, <2>2, <3>5 DEF AccountInv, InBatch, Verifying
  <2>11. CASE slot[next] # "skipped" /\ next \notin Awaited
    <3>1. PICK o \in {"late", "failures", "unavailable"} : Outcome(next) = o
      BY <2>3, <2>5, <2>6, <2>11 DEF Outcome
    <3>2. stats' = Count2("evaluations", o)
      BY <1>6, <3>1 DEF CollectResult
    <3>3. /\ stats'["evaluations"] = stats["evaluations"] + 1
          /\ stats'["late"] + stats'["failures"] + stats'["unavailable"]
               = stats["late"] + stats["failures"] + stats["unavailable"] + 1
      <4>1. stats \in [Counters -> Nat]
        BY DEF TypeOK
      <4>2. CASE o = "late"
        BY <1>b, <3>2, <4>1, <4>2 DEF Count2, Counters
      <4>3. CASE o = "failures"
        BY <1>b, <3>2, <4>1, <4>3 DEF Count2, Counters
      <4>4. CASE o = "unavailable"
        BY <1>b, <3>2, <4>1, <4>4 DEF Count2, Counters
      <4>5. QED
        BY <3>1, <4>2, <4>3, <4>4
    <3>4. Accounted' = Accounted + 1 /\ next \in Spent
      BY <1>a, <1>b, <2>1, <2>5, <2>11, <3>3, SMTT(60) DEF Accounted
    <3>5. /\ Cardinality(tried') = stats'["evaluations"] + Cardinality(Spent')
          /\ Accounted' = stats'["evaluations"] + Cardinality(Awaited')
      <4>1. /\ Cardinality(Spent') = Cardinality(Spent) - 1
            /\ Cardinality(Awaited') = Cardinality(Awaited)
        BY <2>8, <2>11, <3>4
      <4>2. Cardinality(tried') = Cardinality(tried)
        BY <2>1
      <4>3. stats'["evaluations"] = stats["evaluations"] + 1 /\ Accounted' = Accounted + 1
        BY <3>3, <3>4
      <4>4. Cardinality(Spent) \in Nat /\ Cardinality(Awaited) \in Nat
        BY <1>a
      <4>5. QED
        BY <1>b, <2>2, <4>1, <4>2, <4>3, <4>4
    <3>6. QED
      BY <2>1, <2>2, <3>5 DEF AccountInv, InBatch, Verifying
  <2>12. QED
    BY <2>9, <2>10, <2>11
<1>7. CASE EndBatch
  <2>1. /\ pc = "collect" /\ pc' \in {"batch", "verify"} /\ next > Len(chunk)
        /\ UNCHANGED <<tried, judged, stats>>
    BY <1>7 DEF EndBatch, End, Continue
  <2>2. Spent = {} /\ Awaited = {}
    BY <2>1 DEF Spent, Awaited, TypeOK
  <2>3. Cardinality(Spent) = 0 /\ Cardinality(Awaited) = 0
    BY <2>2, FS_EmptySet
  <2>4. /\ Cardinality(tried) = stats["evaluations"] /\ Accounted = stats["evaluations"]
        /\ judged \subseteq tried
    BY <1>b, <2>1, <2>3 DEF AccountInv, InBatch
  <2>5. Accounted' = Accounted
    BY <2>1 DEF Accounted
  <2>6. QED
    BY <2>1, <2>4, <2>5 DEF AccountInv, InBatch
<1>8. CASE BeginCheck \/ Return
  BY <1>8, AccountKept DEF BeginCheck, Return, Verifying, InBatch
<1>9. ASSUME NEW fresh \in {"same", "differs", "failed"}, EndCheck(fresh) PROVE AccountInv'
  <2>1. PICK c \in feasible :
          checks' = Append(checks, [candidate |-> c,
                                    outcome |-> IF Stopped THEN "late" ELSE fresh])
    BY <1>9 DEF EndCheck
  <2> DEFINE e == [candidate |-> c, outcome |-> IF Stopped THEN "late" ELSE fresh]
             E == [candidate : Candidates, outcome : {"late", "same", "differs", "failed"}]
  <2>2. e \in E /\ checks \in Seq(E)
    BY <1>9 DEF TypeOK
  <2> HIDE DEF e, E
  <2>3. Append(checks, e) # <<>>
    BY <2>2, AppendProperties
  <2>4. checks' # <<>>
    BY <2>1, <2>3 DEF e
  <2>5. QED
    BY <1>9, <2>4, AccountKept DEF EndCheck, Verifying, InBatch
<1>10. CASE Cancel \/ DeadlinePasses \/ UNCHANGED vars
  <2>1. UNCHANGED <<pc, chunk, slot, next, tried, judged, stats, checks>>
    BY <1>10 DEF Cancel, DeadlinePasses, vars
  <2>2. Spent' = Spent /\ Awaited' = Awaited /\ Accounted' = Accounted
    BY <1>0, <2>1 DEF Spent, Awaited, Accounted
  <2>3. QED
    BY <2>1, <2>2 DEF AccountInv, InBatch, Verifying
<1>11. QED
  BY <1>1, <1>2, <1>3, <1>4, <1>5, <1>6, <1>7, <1>8, <1>9, <1>10 DEF Next, Coordinator, Job

LEMMA AccountInit == Init => AccountInv
<1> SUFFICES ASSUME Init PROVE AccountInv
  OBVIOUS
<1>1. Cardinality({}) = 0
  BY FS_EmptySet
<1>2. Accounted = 0 /\ Cardinality(tried) = 0 /\ stats["evaluations"] = 0
  BY <1>1 DEF Init, Accounted, Counters
<1>3. QED
  BY <1>2 DEF Init, AccountInv, InBatch, Verifying

-----------------------------------------------------------------------------
(* The reason for the end.                                                 *)

\* Why a search ends: it is stopped; or the evaluations are used up, between
\* batches or by a batch that was cut; or a round is over and nothing waits.
LEMMA Ends ==
  ASSUME TypeOK, CountInv, QueueInv, [Next]_vars, ~Verifying, Verifying'
  PROVE  /\ pc' = "verify" /\ ~InBatch'
         /\ UNCHANGED <<tried, cancelled, expired, checks>>
         /\ \/ Stopped /\ termination' = StopReason
            \/ /\ ~Stopped /\ UNCHANGED <<seen, stats>>
               /\ \/ /\ termination' = "EvaluationBudget"
                     /\ \/ pc = "batch" /\ stats["evaluations"] = SearchLimit
                        \/ pc = "collect" /\ truncated /\ next > Len(chunk)
                  \/ /\ ~InBatch /\ eligible = <<>>
                     /\ \/ /\ termination' = "FiniteDomainProcessed"
                           /\ plan.finite /\ pc = "batch"
                        \/ /\ termination' = "ProposalBudget"
                           /\ ~plan.finite /\ stats["proposals"] = Proposals
                        \/ /\ termination' = "RoundBudget" /\ stats["rounds"] = Rounds
                           /\ pc = "round" \/ ~plan.finite
                        \/ termination' = "SearchStalled" /\ pc = "propose"
<1> USE DEF queue, batch, archives, history
<1>0. /\ stats["evaluations"] \in Nat /\ stats["proposals"] \in Nat
      /\ stats["rounds"] \in Nat /\ SearchLimit \in Nat /\ Rounds \in Nat /\ Proposals \in Nat
  BY Numbers, BudgetAssumption DEF SearchLimit
<1>1. CASE BeginRound
  <2>1. stats["rounds"] >= Rounds => stats["rounds"] = Rounds
    BY <1>0 DEF CountInv
  <2>2. QED
    BY <1>1, <2>1 DEF BeginRound, End, Continue, Verifying, InBatch, QueueInv
<1>2. CASE Screen
  <2>1. stats["proposals"] < Proposals
    <3>1. pc = "screen" /\ proposals \in Seq(Candidates) /\ proposals # <<>>
      BY <1>2 DEF Screen, TypeOK
    <3>2. Len(proposals) \in Nat \ {0}
      BY <3>1, EmptySeq
    <3>3. QED
      BY <1>0, <3>1, <3>2 DEF QueueInv
  <2>2. Stopped /\ End(StopReason)
    BY <1>0, <1>2, <2>1 DEF Screen, Continue, Verifying
  <2>3. QED
    BY <1>2, <2>2 DEF Screen, End, InBatch
<1>3. CASE BeginBatch
  <2>1. Available = 0 => stats["evaluations"] = SearchLimit
    BY <1>0 DEF Available
  <2>2. QED
    BY <1>3, <2>1 DEF BeginBatch, End, Continue, Verifying, InBatch
<1>4. CASE EndBatch
  BY <1>4 DEF EndBatch, End, Continue, Verifying, InBatch
<1>5. CASE EndRound
  <2>1. /\ stats["rounds"] >= Rounds => stats["rounds"] = Rounds
        /\ pc = "batch" /\ (stats["evaluations"] >= SearchLimit =>
                              stats["evaluations"] = SearchLimit)
    BY <1>0, <1>5 DEF CountInv, EndRound, Verifying
  <2>2. QED
    BY <1>5, <2>1 DEF EndRound, End, Continue, Verifying, InBatch
<1>6. CASE Propose
  BY <1>6 DEF Propose, End, Continue, Verifying, InBatch, QueueInv
<1>7. CASE BadKey \/ Screened \/ ProposeFails \/ JoinJobs \/ CollectResult
  BY <1>7 DEF BadKey, Screened, ProposeFails, JoinJobs, CollectResult, Verifying
<1>8. CASE BeginCheck \/ Return \/ \E f \in {"same", "differs", "failed"} : EndCheck(f)
  BY <1>8 DEF BeginCheck, Return, EndCheck, Verifying
<1>9. CASE Job \/ Cancel \/ DeadlinePasses \/ UNCHANGED vars
  BY <1>9 DEF Job, StartJob, ThreadFails, FinishJob, Cancel, DeadlinePasses, vars, Verifying
<1>10. QED
  BY <1>1, <1>2, <1>3, <1>4, <1>5, <1>6, <1>7, <1>8, <1>9 DEF Next, Coordinator

\* The verification takes nothing back of what the search reports.
LEMMA Verification ==
  ASSUME TypeOK, [Next]_vars, Verifying
  PROVE  /\ Verifying' /\ UNCHANGED <<termination, tried, seen, feasible, infeasible>>
         /\ stats'["proposals"] = stats["proposals"] /\ stats'["rounds"] = stats["rounds"]
         /\ cancelled => cancelled'
         /\ expired => expired'
         /\ checks' = <<>> => checks = <<>> /\ stats'["late"] = stats["late"]
<1> USE DEF queue, batch, archives, history
<1>1. CASE BeginCheck
  <2>1. \A c \in {"proposals", "rounds", "late"} : stats'[c] = stats[c]
    BY <1>1 DEF BeginCheck, TypeOK, Count2, Counters
  <2>2. QED
    BY <1>1, <2>1 DEF BeginCheck, Verifying
<1>2. ASSUME NEW fresh \in {"same", "differs", "failed"}, EndCheck(fresh)
      PROVE  /\ Verifying' /\ UNCHANGED <<termination, tried, seen, feasible, infeasible>>
             /\ stats'["proposals"] = stats["proposals"]
             /\ stats'["rounds"] = stats["rounds"]
             /\ cancelled' = cancelled /\ expired' = expired /\ checks' # <<>>
  <2>1. PICK c \in feasible :
          checks' = Append(checks, [candidate |-> c,
                                    outcome |-> IF Stopped THEN "late" ELSE fresh])
    BY <1>2 DEF EndCheck
  <2> DEFINE e == [candidate |-> c, outcome |-> IF Stopped THEN "late" ELSE fresh]
             E == [candidate : Candidates, outcome : {"late", "same", "differs", "failed"}]
  <2>2. e \in E /\ checks \in Seq(E)
    BY <1>2 DEF TypeOK
  <2> HIDE DEF e, E
  <2>3. Append(checks, e) # <<>>
    BY <2>2, AppendProperties
  <2>4. checks' # <<>>
    BY <2>1, <2>3 DEF e
  <2>5. \A c1 \in {"proposals", "rounds"} : stats'[c1] = stats[c1]
    BY <1>2 DEF EndCheck, TypeOK, Count, Count2, Counters
  <2>6. QED
    BY <1>2, <2>4, <2>5 DEF EndCheck, Verifying
<1>3. CASE Return \/ Cancel \/ DeadlinePasses \/ UNCHANGED vars
  BY <1>3 DEF Return, Cancel, DeadlinePasses, vars, Verifying
<1>4. QED
  BY <1>1, <1>2, <1>3
     DEF Next, Coordinator, Job, Verifying, BeginRound, Screen, BadKey, Screened,
         BeginBatch, JoinJobs, CollectResult, EndBatch, EndRound, Propose, ProposeFails,
         StartJob, ThreadFails, FinishJob

\* The reason the search will report is true already when it is set.
ReasonInv ==
  Verifying =>
    /\ termination = "Cancelled" => cancelled
    /\ termination = "TimeBudget" => expired
    /\ termination = "EvaluationBudget" => Cardinality(tried) = SearchLimit
    /\ termination = "ProposalBudget" => stats["proposals"] = Proposals
    /\ termination = "RoundBudget" => stats["rounds"] = Rounds
    /\ termination \in {"ProposalBudget", "RoundBudget", "SearchStalled",
                        "FiniteDomainProcessed"} => tried = LegalOf(seen)
    /\ termination = "FiniteDomainProcessed" =>
         plan.finite /\ (checks = <<>> => stats["late"] = 0)

LEMMA ReasonStep ==
  TypeOK /\ CountInv /\ QueueInv /\ CoverInv /\ AccountInv /\ ReasonInv /\ [Next]_vars
    => ReasonInv'
<1> SUFFICES ASSUME TypeOK, CountInv, QueueInv, CoverInv, AccountInv, ReasonInv,
                    [Next]_vars, Verifying'
             PROVE  ReasonInv'
  BY DEF ReasonInv
<1>0. quality' = quality /\ plan' = plan
  BY Fixed
<1>1. CASE Verifying
  <2>1. /\ UNCHANGED <<termination, tried, seen>>
        /\ stats'["proposals"] = stats["proposals"] /\ stats'["rounds"] = stats["rounds"]
        /\ cancelled => cancelled'
        /\ expired => expired'
        /\ checks' = <<>> => checks = <<>> /\ stats'["late"] = stats["late"]
    BY <1>1, Verification
  <2>2. LegalOf(seen)' = LegalOf(seen)
    BY <1>0, <2>1 DEF LegalOf
  <2>3. QED
    BY <1>0, <1>1, <2>1, <2>2 DEF ReasonInv
<1>2. CASE ~Verifying /\ Stopped /\ termination' = StopReason
  <2>1. cancelled' = cancelled /\ expired' = expired
    BY <1>2, Ends
  <2>2. QED
    BY <1>2, <2>1 DEF ReasonInv, StopReason, Stopped
<1>3. CASE ~Verifying /\ ~Stopped /\ termination' = "EvaluationBudget"
  <2>1. tried' = tried
    BY <1>3, Ends
  <2>2. Cardinality(tried) = SearchLimit
    <3>1. CASE pc = "batch" /\ stats["evaluations"] = SearchLimit
      BY <1>3, <3>1 DEF AccountInv, InBatch
    <3>2. CASE pc = "collect" /\ truncated /\ next > Len(chunk)
      <4>1. next = Len(chunk) + 1 /\ stats["evaluations"] + Len(chunk) + 1 - next = SearchLimit
        BY <1>3, <3>2, Numbers DEF CoverInv, InBatch, CountInv
      <4>2. Spent = {}
        BY <4>1, Numbers DEF Spent, TypeOK
      <4>3. Cardinality(tried) = stats["evaluations"] + 0
        BY <3>2, <4>2, FS_EmptySet DEF AccountInv, InBatch
      <4>4. QED
        BY <4>1, <4>3, Numbers
    <3>3. QED
      BY <1>3, <3>1, <3>2, Ends, BudgetAssumption DEF StopReason
  <2>3. QED
    BY <1>3, <2>1, <2>2 DEF ReasonInv
<1>4. CASE ~Verifying /\ ~Stopped /\ termination' # "EvaluationBudget"
  <2>1. /\ ~InBatch /\ eligible = <<>> /\ UNCHANGED <<tried, seen, stats, checks>>
        /\ \/ termination' = "FiniteDomainProcessed" /\ plan.finite
           \/ termination' = "SearchStalled"
           \/ termination' = "ProposalBudget" /\ stats["proposals"] = Proposals
           \/ termination' = "RoundBudget" /\ stats["rounds"] = Rounds
    BY <1>4, Ends
  <2>2. tried \cup Elements(eligible) = LegalOf(seen)
    BY <1>4, <2>1 DEF CoverInv, Taken
  <2>3. Elements(eligible) = {} /\ LegalOf(seen)' = LegalOf(seen)
    BY <1>0, <2>1 DEF Elements, LegalOf
  <2>4. stats["late"] = 0
    BY <1>4 DEF CoverInv
  <2>5. QED
    BY <1>0, <2>1, <2>2, <2>3, <2>4 DEF ReasonInv
<1>5. QED
  BY <1>1, <1>2, <1>3, <1>4, Ends

-----------------------------------------------------------------------------
(* Finite domains.                                                         *)

\* The whole list of a finite domain was screened.
Heard == \/ pc \in {"batch", "jobs", "collect"}
         \/ Verifying /\ (~Stopped \/ termination = "FiniteDomainProcessed")

\* A finite domain is screened in one round and then taken in order: what is
\* taken precedes what is not.
FiniteInv ==
  plan.finite =>
    /\ pc # "propose"
    /\ pc = "round" => stats["rounds"] = 0
    /\ pc \in {"round", "screen"} => tried = {} /\ seen \cup Elements(proposals) = Listed
    /\ Heard => seen = Listed
    /\ Heard /\ ~Stopped => \A c \in Taken, d \in Legal \ Taken : c < d
    /\ Verifying /\ ~Stopped =>
         termination \in {"FiniteDomainProcessed", "EvaluationBudget"}

\* A step of the rounds after which what is taken and seen is the same.
LEMMA FiniteKept ==
  ASSUME FiniteInv, UNCHANGED <<plan, quality, seen>>, Stopped => Stopped',
         pc \in {"batch", "jobs", "collect"}, pc' \in {"batch", "jobs", "collect", "error"},
         ~Stopped => Taken' = Taken
  PROVE  FiniteInv'
<1>1. Listed' = Listed /\ Legal' = Legal
  BY DEF Listed, Legal
<1>2. Heard /\ ~Verifying' /\ (Heard' => pc' # "error")
  BY DEF Heard, Verifying
<1>3. QED
  BY <1>1, <1>2 DEF FiniteInv

LEMMA FiniteEnds ==
  ASSUME TypeOK, CountInv, Joined, QueueInv, CoverInv, FiniteInv, [Next]_vars,
         ~Verifying, Verifying', plan.finite
  PROVE  FiniteInv'
<1>0. plan' = plan /\ quality' = quality
  BY Fixed
<1>1. Listed' = Listed /\ Legal' = Legal
  BY <1>0 DEF Listed, Legal
<1>2. /\ pc' = "verify" /\ ~InBatch' /\ UNCHANGED <<tried, cancelled, expired>>
  BY Ends
<1>3. Taken' = tried /\ (Stopped' <=> Stopped)
  BY <1>2 DEF Taken, Stopped
<1>4. CASE Stopped /\ termination' = StopReason
  BY <1>2, <1>3, <1>4 DEF FiniteInv, Heard, StopReason
<1>5. CASE /\ ~Stopped /\ seen' = seen
           /\ termination' \in {"EvaluationBudget", "FiniteDomainProcessed"}
           /\ pc \in {"batch", "collect"}
  <2>1. Heard /\ seen = Listed /\ \A c \in Taken, d \in Legal \ Taken : c < d
    BY <1>5 DEF Heard, FiniteInv
  <2>2. Taken = tried
    BY <1>5, AllTried DEF Taken, InBatch
  <2>3. QED
    BY <1>1, <1>2, <1>3, <1>5, <2>1, <2>2 DEF FiniteInv
<1>6. ~(pc = "round" /\ stats["rounds"] = Rounds) /\ pc # "propose"
  BY BudgetAssumption DEF FiniteInv
<1>7. QED
  BY <1>4, <1>5, <1>6, Ends

LEMMA FiniteStep ==
  TypeOK /\ CountInv /\ Joined /\ QueueInv /\ CoverInv /\ FiniteInv /\ [Next]_vars
    => FiniteInv'
<1> SUFFICES ASSUME TypeOK, CountInv, Joined, QueueInv, CoverInv, FiniteInv, [Next]_vars,
                    plan.finite
             PROVE  FiniteInv'
  BY Fixed DEF FiniteInv
<1> USE DEF queue, batch, archives, history
<1>0. plan' = plan /\ quality' = quality /\ (Stopped => Stopped')
  BY Fixed, StopIsFinal
<1>a. Listed' = Listed /\ Legal' = Legal
  BY <1>0 DEF Listed, Legal
<1>b. ASSUME Verifying PROVE FiniteInv'
  <2>1. Verifying' /\ UNCHANGED <<termination, tried, seen>>
    BY <1>b, Verification
  <2>2. Taken' = Taken
    BY <1>b, <2>1 DEF Taken, InBatch, Verifying
  <2>3. Heard' => Heard
    BY <1>0, <1>b, <2>1 DEF Heard, Verifying
  <2>4. pc' \notin {"propose", "round", "screen"}
    BY <2>1 DEF Verifying
  <2>5. QED
    BY <1>0, <1>a, <1>b, <2>1, <2>2, <2>3, <2>4 DEF FiniteInv
<1>1. CASE BeginRound
  <2>1. CASE Verifying'
    BY <1>1, <2>1, FiniteEnds DEF BeginRound, Verifying
  <2>2. ASSUME NEW t \in [1..Len(proposals) -> Candidates], Sorts(proposals, t),
               proposals' = t, pc' = "screen"
        PROVE  FiniteInv'
    <3>1. Elements(proposals)' = Elements(proposals)
      <4>1. Elements(t) = Elements(proposals)
        BY <2>2, SortKeeps DEF TypeOK
      <4>2. QED
        BY <2>2, <4>1 DEF Elements
    <3>2. pc = "round" /\ tried' = tried /\ seen' = seen
      BY <1>1, <2>2 DEF BeginRound, End
    <3>3. QED
      BY <1>a, <2>2, <3>1, <3>2 DEF FiniteInv, Heard, Verifying
  <2>3. QED
    BY <1>1, <2>1, <2>2 DEF BeginRound, End, Continue, Verifying
<1>2. CASE Screen
  <2>1. CASE Verifying'
    BY <1>2, <2>1, FiniteEnds DEF Screen, Verifying
  <2>2. CASE pc' = "screen"
    <3> DEFINE c == Head(proposals)
    <3>1. /\ pc = "screen" /\ tried' = tried /\ proposals' = Tail(proposals)
          /\ seen' \in {seen, seen \cup {c}} /\ (seen' = seen => c \in seen)
          /\ proposals \in Seq(Candidates) /\ proposals # <<>>
      BY <1>2, <2>2 DEF Screen, End, TypeOK
    <3>2. /\ c = proposals[1] /\ Len(proposals) \in Nat \ {0}
          /\ DOMAIN proposals = 1..Len(proposals)
          /\ DOMAIN proposals' = 1..Len(proposals) - 1
          /\ \A i \in 1..Len(proposals) - 1 : proposals'[i] = proposals[i + 1]
      BY <3>1, HeadTailProperties, EmptySeq
    <3>3. Elements(proposals) = {c} \cup Elements(proposals)'
      <4>1. \A i \in 1..Len(proposals) :
              \/ i = 1
              \/ /\ i - 1 \in 1..Len(proposals) - 1
                 /\ proposals[i] = proposals'[i - 1]
        <5>1. \A i \in 1..Len(proposals) :
                i = 1 \/ (i - 1 \in 1..Len(proposals) - 1 /\ i = (i - 1) + 1)
          BY <3>2
        <5>2. QED
          BY <3>2, <5>1
      <4>2. \A i \in 1..Len(proposals) - 1 : i + 1 \in 1..Len(proposals)
        BY <3>2
      <4>3. 1 \in 1..Len(proposals)
        BY <3>2
      <4> HIDE DEF c
      <4>4. QED
        BY <3>2, <4>1, <4>2, <4>3, SMTT(60) DEF Elements
    <3>4. QED
      BY <1>a, <2>2, <3>1, <3>3 DEF FiniteInv, Heard, Verifying
  <2>3. QED
    BY <1>2, <2>1, <2>2 DEF Screen, End, Continue, Verifying
<1>3. CASE Screened
  <2>1. /\ pc = "screen" /\ pc' = "batch" /\ proposals = <<>>
        /\ UNCHANGED <<tried, seen>>
    BY <1>3 DEF Screened
  <2>2. tried = {} /\ seen = Listed /\ Taken' = {}
    <3>1. Elements(proposals) = {}
      BY <2>1 DEF Elements
    <3>2. tried = {} /\ seen \cup Elements(proposals) = Listed
      BY <2>1 DEF FiniteInv
    <3>3. QED
      BY <2>1, <3>1, <3>2 DEF Taken, InBatch
  <2>3. QED
    BY <1>a, <2>1, <2>2 DEF FiniteInv, Heard, Verifying
<1>4. CASE BadKey
  BY <1>4 DEF BadKey, FiniteInv, Heard, Verifying
<1>5. CASE BeginBatch
  <2>1. CASE Verifying'
    BY <1>5, <2>1, FiniteEnds DEF BeginBatch, Verifying
  <2>2. CASE ~Stopped /\ Available # 0
    <3>0. /\ pc = "batch" /\ UNCHANGED <<tried, seen>> /\ Taken = tried
          /\ eligible \in Seq(Candidates) /\ Len(eligible) \in Nat
          /\ DOMAIN eligible = 1..Len(eligible)
      BY <1>5 DEF BeginBatch, Taken, InBatch, TypeOK
    <3>1. pc' = "jobs" /\ Len(chunk') \in Nat
      BY <1>5, <2>2, Batch
    <3>2. PICK f \in Nat :
            /\ f <= Len(eligible) /\ Len(chunk') <= f
            /\ \A i \in 1..Len(chunk') : chunk'[i] = eligible[i]
            /\ DOMAIN chunk' = 1..Len(chunk')
      BY <1>5, <2>2, Batch
    <3>3. Taken' = tried \cup Elements(chunk)'
      BY <3>0, <3>1 DEF Taken, InBatch
    <3>4. tried \cup Elements(eligible) = Legal
      <4>1. seen = Listed
        BY <3>0 DEF FiniteInv, Heard
      <4>2. QED
        BY <2>2, <3>0, <4>1 DEF CoverInv, Verifying, InBatch, LegalOf, Legal
    <3>5. ASSUME NEW c \in Taken', NEW d \in Legal \ Taken' PROVE c < d
      <4>1. PICK j \in 1..Len(eligible) : d = eligible[j]
        BY <3>0, <3>3, <3>4, <3>5 DEF Elements
      <4>2. CASE c \in tried
        BY <2>2, <3>0, <3>3, <3>5, <4>2 DEF FiniteInv, Heard
      <4>3. CASE c \notin tried
        <5>1. PICK i \in 1..Len(chunk') : c = chunk'[i]
          BY <3>2, <3>3, <3>5, <4>3 DEF Elements
        <5>2. /\ i \in 1..Len(eligible) /\ c = eligible[i] /\ i \in Nat /\ j \in Nat
              /\ i <= Len(chunk')
          BY <3>0, <3>1, <3>2, <5>1
        <5>3. j \notin 1..Len(chunk')
          BY <3>2, <3>3, <3>5, <4>1 DEF Elements
        <5>4. i < j
          BY <3>1, <4>1, <5>2, <5>3
        <5>5. QED
          BY <3>0, <4>1, <5>2, <5>4 DEF QueueInv, Ascending
      <4>4. QED
        BY <4>2, <4>3
    <3>6. QED
      BY <1>a, <3>0, <3>1, <3>5 DEF FiniteInv, Heard, Verifying
  <2>3. QED
    BY <1>5, <2>1, <2>2 DEF BeginBatch, End, Verifying
<1>6. ASSUME NEW i \in 1..Jobs, StartJob(i) \/ ThreadFails(i) \/ FinishJob(i)
      PROVE  FiniteInv'
  <2>1. /\ pc = "jobs" /\ pc' = "jobs" /\ i \in DOMAIN chunk
        /\ UNCHANGED <<seen, chunk>>
        /\ tried' \in {tried, tried \cup {chunk[i]}}
    BY <1>6 DEF StartJob, ThreadFails, FinishJob, TypeOK
  <2>2. Taken' = Taken
    BY <2>1 DEF Taken, InBatch, Elements
  <2>3. QED
    BY <1>0, <2>1, <2>2, FiniteKept
<1>7. CASE JoinJobs \/ CollectResult
  <2>1. /\ pc \in {"jobs", "collect"} /\ pc' = "collect" /\ UNCHANGED <<seen, chunk, tried>>
    BY <1>7 DEF JoinJobs, CollectResult
  <2>2. Taken' = Taken
    BY <2>1 DEF Taken, InBatch, Elements
  <2>3. QED
    BY <1>0, <2>1, <2>2, FiniteKept
<1>8. CASE EndBatch
  <2>1. CASE Verifying'
    BY <1>8, <2>1, FiniteEnds DEF EndBatch, Verifying
  <2>2. CASE pc' = "batch"
    <3>1. pc = "collect" /\ UNCHANGED <<seen, tried>>
      BY <1>8 DEF EndBatch
    <3>2. ~Stopped => Taken' = Taken
      BY <2>2, <3>1, AllTried DEF Taken, InBatch
    <3>3. QED
      BY <1>0, <2>2, <3>1, <3>2, FiniteKept
  <2>3. QED
    BY <1>8, <2>1, <2>2 DEF EndBatch, End, Continue, Verifying
<1>9. CASE EndRound
  <2>1. Verifying' /\ ~Verifying
    BY <1>9 DEF EndRound, End, Verifying
  <2>2. QED
    BY <2>1, FiniteEnds
<1>10. CASE Propose \/ ProposeFails
  BY <1>10 DEF Propose, ProposeFails, FiniteInv
<1>11. CASE BeginCheck \/ Return \/ \E f \in {"same", "differs", "failed"} : EndCheck(f)
  BY <1>11, <1>b DEF BeginCheck, Return, EndCheck, Verifying
<1>12. CASE Cancel \/ DeadlinePasses \/ UNCHANGED vars
  <2>1. UNCHANGED <<pc, seen, tried, chunk, proposals, stats, termination>>
    BY <1>12 DEF Cancel, DeadlinePasses, vars
  <2>2. Taken' = Taken /\ Elements(proposals)' = Elements(proposals)
    BY <2>1 DEF Taken, InBatch, Elements
  <2>3. (Heard' => Heard) /\ (Verifying' <=> Verifying)
    BY <1>0, <2>1 DEF Heard, Verifying
  <2>4. QED
    BY <1>0, <1>a, <2>1, <2>2, <2>3 DEF FiniteInv
<1>13. QED
  BY <1>1, <1>2, <1>3, <1>4, <1>5, <1>6, <1>7, <1>8, <1>9, <1>10, <1>11, <1>12
     DEF Next, Coordinator, Job

LEMMA FiniteInit == Init => FiniteInv
  BY DEF Init, FiniteInv, Heard, Verifying, Elements, Listed, Counters

-----------------------------------------------------------------------------
(* The order of the verification.                                          *)

\* A check is of the finalist whose turn it is, and none follows a late one.
CheckInv ==
  /\ ~Verifying => checks = <<>>
  /\ pc \in {"verify", "checking"} => Len(checks) = next - 1
  /\ \A k \in DOMAIN checks :
       /\ checks[k].candidate \in feasible
       /\ Place(checks[k].candidate, feasible) = k
       /\ checks[k].outcome = "late" => Stopped /\ k = Len(checks)
  /\ pc = "checking" =>
       next <= Finalists /\ \A k \in DOMAIN checks : checks[k].outcome # "late"
  /\ pc = "verify" => next <= Finalists + 1
  /\ pc = "done" /\ ~Stopped => Len(checks) = Finalists

LEMMA CheckStep == TypeOK /\ CheckInv /\ [Next]_vars => CheckInv'
<1> SUFFICES ASSUME TypeOK, CheckInv, [Next]_vars PROVE CheckInv'
  OBVIOUS
<1> USE DEF queue, batch, archives, history
<1>0. quality' = quality /\ (Stopped => Stopped')
  BY Fixed, StopIsFinal
<1>a. Finalists \in Nat
  <2>1. Cardinality(feasible) \in Nat
    BY DomainAssumption, FS_Subset, FS_CardinalityType DEF TypeOK
  <2>2. QED
    BY <2>1, BudgetAssumption DEF Finalists
<1>b. feasible' = feasible => /\ \A c : Place(c, feasible)' = Place(c, feasible)
                             /\ Finalists' = Finalists
  BY <1>0 DEF Place, Better, Finalists
<1>1. CASE ~Verifying /\ ~Verifying'
  <2>1. checks' = checks /\ checks = <<>>
    BY <1>1 DEF CheckInv, Next, Coordinator, Job, BeginRound, Screen, BadKey, Screened,
           BeginBatch, JoinJobs, CollectResult, EndBatch, EndRound, Propose,
           ProposeFails, BeginCheck, EndCheck, Return, StartJob, ThreadFails,
           FinishJob, Cancel, DeadlinePasses, vars, Verifying
  <2>2. DOMAIN checks' = {}
    BY <2>1
  <2>3. QED
    BY <1>1, <2>1, <2>2 DEF CheckInv, Verifying
<1>2. CASE ~Verifying /\ Verifying'
  <2>1. pc' = "verify" /\ next' = 1 /\ checks' = checks /\ checks = <<>>
    BY <1>2 DEF CheckInv, Next, Coordinator, Job, BeginRound, Screen, BadKey, Screened,
           BeginBatch, JoinJobs, CollectResult, EndBatch, EndRound, Propose,
           ProposeFails, BeginCheck, EndCheck, Return, StartJob, ThreadFails,
           FinishJob, Cancel, DeadlinePasses, vars, Verifying, End, Continue
  <2>2. DOMAIN checks' = {} /\ Len(checks') = 0
    BY <2>1
  <2>3. Finalists' \in Nat
    <3>1. TypeOK'
      BY TypeStep
    <3>2. Cardinality(feasible') \in Nat
      BY <3>1, DomainAssumption, FS_Subset, FS_CardinalityType DEF TypeOK
    <3>3. QED
      BY <3>2, BudgetAssumption DEF Finalists
  <2>4. Len(checks') = next' - 1 /\ next' <= Finalists' + 1
    <3>1. \A n \in Nat : 0 = 1 - 1 /\ 1 <= n + 1
      OBVIOUS
    <3>2. next' = 1 /\ Len(checks') = 0
      BY <2>1, <2>2
    <3>3. QED
      BY <2>3, <3>1, <3>2
  <2>5. \A k \in DOMAIN checks' : FALSE
    BY <2>2
  <2>6. pc' = "verify"
    BY <2>1
  <2>7. QED
    BY <2>4, <2>5, <2>6 DEF CheckInv, Verifying
<1>3. CASE BeginCheck
  <2>1. /\ pc = "verify" /\ pc' = "checking" /\ next <= Finalists /\ ~Stopped
        /\ UNCHANGED <<next, checks, feasible, cancelled, expired>>
    BY <1>3 DEF BeginCheck
  <2>2. QED
    BY <1>b, <2>1 DEF CheckInv, Verifying, Stopped
<1>4. ASSUME NEW fresh \in {"same", "differs", "failed"}, EndCheck(fresh) PROVE CheckInv'
  <2>1. /\ pc = "checking" /\ pc' = "verify" /\ next' = next + 1
        /\ UNCHANGED <<feasible, cancelled, expired>>
    BY <1>4 DEF EndCheck
  <2>2. PICK c \in feasible :
          /\ Place(c, feasible) = next
          /\ checks' = Append(checks, [candidate |-> c,
                                       outcome |-> IF Stopped THEN "late" ELSE fresh])
    BY <1>4 DEF EndCheck
  <2> DEFINE e == [candidate |-> c, outcome |-> IF Stopped THEN "late" ELSE fresh]
             E == [candidate : Candidates, outcome : {"late", "same", "differs", "failed"}]
  <2>3. e \in E /\ checks \in Seq(E) /\ e.candidate = c /\ (e.outcome = "late" => Stopped)
    BY <1>4 DEF TypeOK
  <2>4. checks' = Append(checks, e)
    BY <2>2
  <2> HIDE DEF e, E
  <2>5. /\ Len(checks) \in Nat /\ Len(checks') = Len(checks) + 1
        /\ DOMAIN checks = 1..Len(checks) /\ DOMAIN checks' = 1..Len(checks) + 1
        /\ \A k \in 1..Len(checks) : checks'[k] = checks[k]
        /\ checks'[Len(checks) + 1] = e
    BY <2>3, <2>4, AppendProperties
  <2>6. Len(checks) = next - 1 /\ next \in Nat \ {0} /\ next <= Finalists
    BY <2>1, Numbers DEF CheckInv
  <2>7. ASSUME NEW k \in DOMAIN checks'
        PROVE  /\ checks'[k].candidate \in feasible
               /\ Place(checks'[k].candidate, feasible) = k
               /\ checks'[k].outcome = "late" => Stopped /\ k = Len(checks')
    <3>1. CASE k = Len(checks) + 1
      BY <2>2, <2>3, <2>5, <2>6, <3>1
    <3>2. CASE k \in 1..Len(checks)
      BY <2>1, <2>5, <3>2 DEF CheckInv
    <3>3. QED
      BY <2>5, <2>7, <3>1, <3>2
  <2>8. Stopped' <=> Stopped
    BY <2>1 DEF Stopped
  <2>9. Len(checks') = next' - 1 /\ next' <= Finalists + 1
    BY <1>a, <2>1, <2>5, <2>6
  <2>10. QED
    BY <1>b, <2>1, <2>7, <2>8, <2>9 DEF CheckInv, Verifying
<1>5. CASE Return
  <2>1. /\ pc = "verify" /\ pc' = "done" /\ (next > Finalists \/ Stopped)
        /\ UNCHANGED <<next, checks, feasible, cancelled, expired>>
    BY <1>5 DEF Return
  <2>2. ~Stopped => Len(checks) = Finalists
    BY <1>a, <2>1, Numbers DEF CheckInv
  <2>3. QED
    BY <1>b, <2>1, <2>2 DEF CheckInv, Verifying, Stopped
<1>6. CASE Cancel \/ DeadlinePasses \/ UNCHANGED vars
  <2>1. UNCHANGED <<pc, next, checks, feasible>>
    BY <1>6 DEF Cancel, DeadlinePasses, vars
  <2>2. QED
    BY <1>0, <1>b, <2>1 DEF CheckInv, Verifying
<1>7. QED
  BY <1>1, <1>2, <1>3, <1>4, <1>5, <1>6
     DEF Next, Coordinator, Job, Verifying, BeginRound, Screen, BadKey, Screened,
         BeginBatch, JoinJobs, CollectResult, EndBatch, EndRound, Propose, ProposeFails,
         StartJob, ThreadFails, FinishJob

\* The ranking compares any two candidates it can order.
LEMMA RankingIsTotal ==
  \A c, d \in Assessable : c = d \/ Better(c, d) \/ Better(d, c)
<1>1. \A q \in DOMAIN Rank : Rank[q] \in Nat
  BY DEF Rank
<1>2. \A c \in Assessable : Rank[quality[c]] \in Nat /\ c \in Nat
  BY <1>1, DomainAssumption DEF Assessable
<1>3. QED
  BY <1>2 DEF Better

\* No two candidates share a place in a ranking, and no place is past its end.
LEMMA Places ==
  ASSUME NEW S, S \subseteq Assessable, NEW c \in S
  PROVE  /\ Place(c, S) \in 1..Cardinality(S)
         /\ \A d \in S : Place(d, S) = Place(c, S) => d = c
<1>0. S \subseteq Candidates /\ IsFiniteSet(S) /\ Cardinality(S) \in Nat
  BY DomainAssumption, FS_Subset, FS_CardinalityType DEF Assessable
<1>1. \A d : /\ IsFiniteSet(Ahead(d, S)) /\ Cardinality(Ahead(d, S)) \in Nat
             /\ Place(d, S) = Cardinality(Ahead(d, S)) + 1
  BY <1>0, AheadFinite DEF Place, Ahead
<1>2. Ahead(c, S) \subseteq S /\ c \notin Ahead(c, S)
  BY RankingIsStrict DEF Ahead
<1>3. Cardinality(Ahead(c, S)) <= Cardinality(S) /\ Cardinality(Ahead(c, S)) # Cardinality(S)
  BY <1>0, <1>2, FS_Subset
<1>4. \A x, y \in S : Better(x, y) => Cardinality(Ahead(x, S)) < Cardinality(Ahead(y, S))
  <2> SUFFICES ASSUME NEW x \in S, NEW y \in S, Better(x, y)
               PROVE  Cardinality(Ahead(x, S)) < Cardinality(Ahead(y, S))
    OBVIOUS
  <2>1. Ahead(x, S) \subseteq Ahead(y, S) /\ x \in Ahead(y, S) /\ x \notin Ahead(x, S)
    BY RankingIsStrict DEF Ahead
  <2>2. /\ Cardinality(Ahead(x, S)) <= Cardinality(Ahead(y, S))
        /\ Cardinality(Ahead(x, S)) # Cardinality(Ahead(y, S))
    BY <1>1, <2>1, FS_Subset
  <2>3. QED
    BY <1>1, <2>2
<1>5. ASSUME NEW d \in S, Place(d, S) = Place(c, S) PROVE d = c
  <2>1. Cardinality(Ahead(d, S)) = Cardinality(Ahead(c, S))
    BY <1>1, <1>5
  <2>2. ~Better(c, d) /\ ~Better(d, c)
    BY <1>1, <1>4, <2>1
  <2>3. QED
    BY <2>2, RankingIsTotal
<1>6. Place(c, S) \in 1..Cardinality(S)
  BY <1>0, <1>1, <1>3
<1>7. QED
  BY <1>5, <1>6

\* The finalists checked are the best of the archive.
LEMMA ChecksAreTheBest ==
  ASSUME TypeOK, CheckInv, feasible \subseteq Assessable, Len(checks) = Finalists
  PROVE  {checks[k].candidate : k \in DOMAIN checks} = Best(Verifications, feasible)
<1>0. /\ DOMAIN checks = 1..Finalists /\ Verifications \in Nat
      /\ Cardinality(feasible) \in Nat /\ Finalists \in Nat
  <2>1. Cardinality(feasible) \in Nat
    BY DomainAssumption, FS_Subset, FS_CardinalityType DEF TypeOK
  <2>2. QED
    BY <2>1, BudgetAssumption DEF TypeOK, Finalists
<1>1. Finalists <= Verifications /\ Finalists <= Cardinality(feasible)
      /\ (Finalists = Verifications \/ Finalists = Cardinality(feasible))
  BY <1>0 DEF Finalists
<1>2. \A c : c \in Best(Verifications, feasible) <=>
              c \in feasible /\ Place(c, feasible) - 1 < Verifications
  <2>1. feasible \subseteq Candidates
    BY DEF TypeOK
  <2>2. \A c : Cardinality(Ahead(c, feasible)) \in Nat
    BY <2>1, AheadFinite
  <2>3. \A c : c \in Best(Verifications, feasible) <=>
                c \in feasible /\ Cardinality(Ahead(c, feasible)) < Verifications
    BY DEF Best, Ahead
  <2>4. \A c : Place(c, feasible) = Cardinality(Ahead(c, feasible)) + 1
    BY DEF Place, Ahead
  <2>5. \A c : Place(c, feasible) - 1 = Cardinality(Ahead(c, feasible))
    BY <2>2, <2>4
  <2>6. QED
    BY <2>3, <2>5
<1>3. ASSUME NEW k \in DOMAIN checks PROVE checks[k].candidate \in Best(Verifications, feasible)
  <2>1. checks[k].candidate \in feasible /\ Place(checks[k].candidate, feasible) = k
    BY DEF CheckInv
  <2>2. k \in Int /\ k <= Verifications
    BY <1>0, <1>1
  <2>3. QED
    BY <1>0, <1>2, <2>1, <2>2
<1>4. ASSUME NEW c \in Best(Verifications, feasible)
      PROVE  \E k \in DOMAIN checks : checks[k].candidate = c
  <2>1. c \in feasible /\ Place(c, feasible) \in 1..Cardinality(feasible)
    BY <1>2, Places
  <2>2. Place(c, feasible) \in 1..Finalists
    BY <1>0, <1>1, <1>2, <2>1
  <2>3. PICK k \in DOMAIN checks : k = Place(c, feasible)
    BY <1>0, <2>2
  <2>4. checks[k].candidate \in feasible
        /\ Place(checks[k].candidate, feasible) = Place(c, feasible)
    BY <2>3 DEF CheckInv
  <2>5. QED
    BY <2>1, <2>4, Places
<1>5. QED
  BY <1>3, <1>4

-----------------------------------------------------------------------------
(* What the report says.                                                   *)

\* A set that precedes the rest of L and has n elements, or is all of L and has
\* no more, is the first n of L.
LEMMA FirstOnes ==
  ASSUME NEW L, L \subseteq Candidates, NEW T, T \subseteq L, NEW n \in Nat,
         \A c \in T, d \in L \ T : c < d,
         Cardinality(T) = n \/ (T = L /\ Cardinality(T) <= n)
  PROVE  T = {c \in L : Cardinality({d \in L : d < c}) < n}
<1> DEFINE Below(c) == {d \in L : d < c}
<1>0. IsFiniteSet(L) /\ IsFiniteSet(T) /\ Cardinality(T) \in Nat /\ L \subseteq Nat
  BY DomainAssumption, FS_Subset, FS_CardinalityType
<1>1. ASSUME NEW c \in L
      PROVE  /\ IsFiniteSet(Below(c)) /\ Cardinality(Below(c)) \in Nat
             /\ c \in T <=> Cardinality(Below(c)) < n
  <2>1. IsFiniteSet(Below(c)) /\ Cardinality(Below(c)) \in Nat
    BY <1>0, FS_Subset, FS_CardinalityType
  <2>2. CASE c \in T
    <3>1. Below(c) \subseteq T /\ c \notin Below(c)
      <4>1. ASSUME NEW d \in L, d < c PROVE d \in T
        <5>1. d \in Nat /\ c \in Nat /\ ~(c < d)
          BY <1>0, <1>1, <4>1
        <5>2. QED
          BY <2>2, <5>1
      <4>2. ~(c < c)
        BY <1>0, <1>1
      <4>3. QED
        BY <4>1, <4>2
    <3>2. Cardinality(Below(c)) <= Cardinality(T) /\ Cardinality(Below(c)) # Cardinality(T)
      BY <1>0, <2>2, <3>1, FS_Subset
    <3>3. QED
      BY <1>0, <2>1, <2>2, <3>2
  <2>3. CASE c \notin T
    <3>1. T \subseteq Below(c)
      BY <2>3
    <3>2. Cardinality(T) <= Cardinality(Below(c)) /\ Cardinality(T) = n
      BY <2>1, <2>3, <3>1, FS_Subset
    <3>3. QED
      BY <1>0, <2>1, <2>3, <3>2
  <2>4. QED
    BY <2>2, <2>3, <2>1
<1> HIDE DEF Below
<1>2. T = {c \in L : Cardinality(Below(c)) < n}
  BY <1>1
<1>3. QED
  BY <1>2 DEF Below

SearchInv ==
  /\ TypeOK /\ CountInv /\ TriedInv /\ Joined /\ QueueInv /\ CoverInv /\ AccountInv
  /\ ReasonInv /\ FiniteInv

LEMMA SearchInvariant == Spec => []SearchInv
<1>1. Init => SearchInv
  <2> SUFFICES ASSUME Init PROVE SearchInv
    OBVIOUS
  <2>1. CountInv /\ Joined /\ ReasonInv
    BY BudgetAssumption DEF Init, CountInv, Joined, ReasonInv, Verifying, Counters, SearchLimit
  <2>2. Cardinality({}) = 0
    BY FS_EmptySet
  <2>3. TriedInv
    BY <2>2, BudgetAssumption DEF Init, TriedInv, Verifying, Counters, SearchLimit
  <2>4. QED
    BY <2>1, <2>3, TypeInit, QueueInit, CoverInit, AccountInit, FiniteInit DEF SearchInv
<1>2. SearchInv /\ [Next]_vars => SearchInv'
  BY TypeStep, CountStep, TriedStep, JoinedStep, QueueStep, CoverStep, AccountStep,
     ReasonStep, FiniteStep DEF SearchInv
<1>3. QED
  BY <1>1, <1>2, PTL DEF Spec

\* Between batches the statistics account for every evaluation exactly once:
\* late, failed, unavailable or assessed; none is lost and none counted twice,
\* whatever the jobs' order and whenever the search is stopped.
THEOREM EveryEvaluationIsAccounted == Spec => []EvaluationsAccounted
<1>1. SearchInv => EvaluationsAccounted
  BY DEF SearchInv, AccountInv, EvaluationsAccounted, Accounted, InBatch, Verifying
<1>2. QED
  BY <1>1, SearchInvariant, PTL

\* The reason the search reports for its end is true.
THEOREM TheReasonIsTrue == Spec => []ReasonIsTrue
<1>1. SearchInv => ReasonIsTrue
  BY DEF SearchInv, ReasonInv, ReasonIsTrue, LegalOf, Verifying
<1>2. QED
  BY <1>1, SearchInvariant, PTL

\* A finite domain is reported as processed only when every legal candidate of
\* its list was evaluated and none of their results came late.
THEOREM ProcessedMeansEvaluated == Spec => []FiniteMeansAll
<1>1. SearchInv => FiniteMeansAll
  <2> SUFFICES ASSUME SearchInv, Verifying, termination = "FiniteDomainProcessed"
               PROVE  tried = Legal /\ (checks = <<>> => stats["late"] = 0)
    BY DEF FiniteMeansAll, Verifying
  <2>1. /\ tried = LegalOf(seen) /\ plan.finite
        /\ checks = <<>> => stats["late"] = 0
    BY DEF SearchInv, ReasonInv
  <2>2. seen = Listed
    BY <2>1 DEF SearchInv, FiniteInv, Heard
  <2>3. QED
    BY <2>1, <2>2 DEF LegalOf, Legal
<1>2. QED
  BY <1>1, SearchInvariant, PTL

\* Without a stop, what a search of a finite domain evaluates is the first legal
\* candidates of the list, as many as the budget allows: neither the number of
\* jobs nor their timing has a say.
THEOREM JobsHaveNoSay == Spec => []IndependentOfJobs
<1>1. SearchInv => IndependentOfJobs
  <2> SUFFICES ASSUME SearchInv, pc = "done", plan.finite, ~Stopped
               PROVE  tried = {c \in Legal :
                                 Cardinality({d \in Legal : d < c}) < SearchLimit}
    BY DEF IndependentOfJobs
  <2>1. Verifying /\ Heard /\ Taken = tried
    BY DEF Verifying, Heard, Taken, InBatch
  <2>2. /\ seen = Listed /\ \A c \in tried, d \in Legal \ tried : c < d
        /\ termination \in {"FiniteDomainProcessed", "EvaluationBudget"}
    BY <2>1 DEF SearchInv, FiniteInv
  <2>3. tried \subseteq Legal /\ LegalOf(seen) = Legal
    BY <2>1, <2>2 DEF SearchInv, QueueInv, LegalOf, Legal
  <2>4. Cardinality(tried) = SearchLimit \/ (tried = Legal /\ Cardinality(tried) <= SearchLimit)
    <3>1. CASE termination = "EvaluationBudget"
      BY <2>1, <3>1 DEF SearchInv, ReasonInv
    <3>2. CASE termination = "FiniteDomainProcessed"
      BY <2>1, <2>3, <3>2 DEF SearchInv, ReasonInv, TriedInv
    <3>3. QED
      BY <2>2, <3>1, <3>2
  <2>5. Legal \subseteq Candidates
    BY <2>3 DEF SearchInv, TypeOK, LegalOf
  <2>6. SearchLimit \in Nat
    BY BudgetAssumption DEF SearchLimit
  <2>7. QED
    BY <2>2, <2>3, <2>4, <2>5, <2>6, FirstOnes
<1>2. QED
  BY <1>1, SearchInvariant, PTL

\* The verification goes down the ranking from the best candidate, checks each
\* finalist once, checks nothing after a late result, and unless it is stopped
\* it has checked the best candidates, as many as were reserved.
THEOREM VerificationFollowsTheRanking == Spec => []ChecksFollowRanking
<1>1. Init => CheckInv
  BY DEF Init, CheckInv, Verifying
<1>2. TypeOK /\ CheckInv /\ ArchivesHoldTheBest => ChecksFollowRanking
  <2> SUFFICES ASSUME TypeOK, CheckInv, ArchivesHoldTheBest PROVE ChecksFollowRanking
    OBVIOUS
  <2>1. Len(checks) \in Nat /\ DOMAIN checks = 1..Len(checks)
    BY DEF TypeOK
  <2>2. \A k \in DOMAIN checks : Place(checks[k].candidate, feasible) = k
    BY DEF CheckInv
  <2>3. \A k \in 1..Len(checks) - 1 : checks[k].outcome # "late"
    <3>0. \A n \in Nat : \A k \in 1..n - 1 : k \in 1..n /\ k # n
      OBVIOUS
    <3> TAKE k \in 1..Len(checks) - 1
    <3>1. k \in DOMAIN checks /\ k # Len(checks)
      BY <2>1, <3>0
    <3>2. QED
      BY <3>1 DEF CheckInv
  <2>4. ASSUME pc = "done", ~Stopped
        PROVE  {checks[k].candidate : k \in DOMAIN checks} = Best(Verifications, feasible)
    <3>1. feasible = Best(ArchiveSize, {c \in judged : quality[c] \in Feasible})
      BY <2>4 DEF ArchivesHoldTheBest
    <3>2. feasible \subseteq Assessable
      BY <3>1, Statuses DEF Best, Assessable, TypeOK
    <3>3. QED
      BY <2>4, <3>2, ChecksAreTheBest DEF CheckInv
  <2>5. QED
    BY <2>2, <2>3, <2>4 DEF ChecksFollowRanking
<1>3. QED
  BY <1>1, <1>2, TypeInit, TypeStep, CheckStep, ArchivesAreTheBest, PTL DEF Spec
=============================================================================
