-------------------------------- MODULE Search --------------------------------
(***************************************************************************)
(* search::search: rounds of proposals are screened, evaluated in batches   *)
(* of concurrent jobs and ranked into two bounded archives; the best        *)
(* feasible candidates are then evaluated again under a reserved budget.    *)
(* The deadline and the caller's cancellation may arrive between any two    *)
(* steps.  Candidates are numbers in their Ord order.                       *)
(***************************************************************************)
EXTENDS Naturals, Sequences, FiniteSets

CONSTANTS
  Candidates,             \* a set of naturals
  Assessments,            \* what may become of the candidates: a set of functions
                          \* from Candidates to Qualities
  Plans,                  \* what a domain starts from: records [finite, list, retries],
                          \* retries being SearchDomain::can_propose_after_empty
  Evaluations,            \* SearchBudget::max_evaluations
  Proposals,              \* SearchBudget::max_proposals
  Rounds,                 \* SearchBudget::max_rounds
  Jobs,                   \* SearchBudget::jobs
  Beam,                   \* SearchBudget::beam_per_status
  ArchiveSize,            \* SearchBudget::archive_size
  Verifications,          \* SearchBudget::verification_attempts
  Batches,                \* what propose may return: a set of sequences
  Faults                  \* what may fail: the domain's key or proposals, a thread

\* A candidate's quality: what the domain, the evaluator and the policy make of
\* it, in the order of the archives' ranking.
Qualities == {"illegal", "failed", "unavailable", "good", "fair", "poor"}
Feasible == {"good", "fair"}
Infeasible == {"poor"}
Rank == [q \in Feasible \cup Infeasible |->
          CASE q = "good" -> 0 [] q = "fair" -> 1 [] OTHER -> 2]

Reasons == {"FiniteDomainProcessed", "EvaluationBudget", "ProposalBudget",
            "RoundBudget", "TimeBudget", "Cancelled", "SearchStalled"}

\* The budgets search accepts; it refuses every other one before it starts.
ASSUME BudgetAssumption ==
  /\ Evaluations \in Nat /\ Proposals \in Nat \ {0} /\ Rounds \in Nat \ {0}
  /\ Jobs \in Nat \ {0} /\ Beam \in Nat \ {0} /\ ArchiveSize \in Nat \ {0}
  /\ Verifications \in Nat /\ Verifications < Evaluations
ASSUME DomainAssumption ==
  /\ Candidates \subseteq Nat /\ IsFiniteSet(Candidates)
  /\ Batches \subseteq Seq(Candidates)
  /\ Assessments \subseteq [Candidates -> Qualities]
  /\ Plans \subseteq [finite : BOOLEAN, list : Seq(Candidates), retries : BOOLEAN]
  /\ Faults \subseteq {"key", "propose", "thread"}

SearchLimit == Evaluations - Verifications
Keep == IF ArchiveSize >= Beam THEN ArchiveSize ELSE Beam

VARIABLES
  pc, plan, quality,
  proposals, eligible, seen,      \* this round's queue; all keys ever seen
  chunk, truncated, slot,         \* the batch and the result of each job
  next,                           \* the result or finalist processed next
  feasible, infeasible,           \* the archives, as sets; ranking orders them
  stats, termination,
  checks,                         \* the verifications, in order
  cancelled, expired,
  tried, judged                   \* history: evaluated; assessed in time

queue == <<proposals, eligible, seen>>
batch == <<chunk, truncated, slot, next>>
archives == <<feasible, infeasible>>
history == <<tried, judged>>
vars == <<pc, plan, quality, queue, batch, archives, stats, termination, checks,
          cancelled, expired, history>>

Counters == {"proposals", "duplicates", "rejected", "evaluations", "failures",
             "unavailable", "late", "verifications", "rounds"}

Stopped == cancelled \/ expired
StopReason == IF cancelled THEN "Cancelled" ELSE "TimeBudget"

Count(c) == [stats EXCEPT ![c] = @ + 1]
Count2(c, d) == [stats EXCEPT ![c] = @ + 1, ![d] = @ + 1]

\* ranking: quality first, then the candidate itself.
Better(c, d) ==
  \/ Rank[quality[c]] < Rank[quality[d]]
  \/ Rank[quality[c]] = Rank[quality[d]] /\ c < d

\* The n best of S in ranking order: sort and truncate.
Best(n, S) == {c \in S : Cardinality({d \in S : Better(d, c)}) < n}

\* The place of c in the ranking of S, from 1.
Place(c, S) == Cardinality({d \in S : Better(d, c)}) + 1

\* t is s in Ord order, duplicates kept.
Sorts(s, t) ==
  /\ \A i \in 1..Len(s) - 1 : t[i] <= t[i + 1]
  /\ \A c \in Candidates : Cardinality({i \in 1..Len(s) : s[i] = c})
                             = Cardinality({i \in 1..Len(s) : t[i] = c})

AtMost(n, s) == SubSeq(s, 1, IF Len(s) <= n THEN Len(s) ELSE n)

Init ==
  /\ pc = "round" /\ plan \in Plans /\ Len(plan.list) <= Proposals
  /\ quality \in Assessments
  /\ proposals = plan.list /\ eligible = <<>> /\ seen = {}
  /\ chunk = <<>> /\ truncated = FALSE /\ slot = <<>> /\ next = 1
  /\ feasible = {} /\ infeasible = {}
  /\ stats = [c \in Counters |-> 0] /\ termination = "SearchStalled"
  /\ checks = <<>>
  /\ cancelled = FALSE /\ expired = FALSE
  /\ tried = {} /\ judged = {}

\* break 'rounds with a reason: the archives are cut to the size reported and
\* verification begins.
End(reason) ==
  /\ pc' = "verify" /\ next' = 1 /\ termination' = reason
  /\ feasible' = Best(ArchiveSize, feasible)
  /\ infeasible' = Best(ArchiveSize, infeasible)

Continue(to) == pc' = to /\ UNCHANGED <<termination, archives>>

-----------------------------------------------------------------------------
(* One round.                                                              *)

\* Seeded faults: the proposals keep the order they came in; a round without
\* proposals is not counted.
BeginRoundUnsorted ==
  /\ pc = "round"
  /\ \/ /\ Stopped /\ End(StopReason) /\ UNCHANGED <<stats, queue>>
     \/ /\ ~Stopped /\ stats["rounds"] >= Rounds
        /\ End("RoundBudget") /\ UNCHANGED <<stats, queue>>
     \/ /\ ~Stopped /\ stats["rounds"] < Rounds
        /\ stats' = Count("rounds") /\ eligible' = <<>>
        /\ Continue("screen") /\ UNCHANGED <<proposals, seen, next>>
  /\ UNCHANGED <<plan, quality, chunk, truncated, slot, checks, cancelled,
                 expired, history>>

BeginRoundUncounted ==
  \/ BeginRoundUnsorted /\ proposals # <<>>
  \/ /\ pc = "round" /\ ~Stopped /\ proposals = <<>> /\ Continue("screen")
     /\ UNCHANGED <<plan, quality, queue, batch, stats, checks, cancelled,
                    expired, history>>
  \/ /\ pc = "round" /\ Stopped /\ proposals = <<>> /\ End(StopReason)
     /\ UNCHANGED <<plan, quality, queue, chunk, truncated, slot, stats, checks,
                    cancelled, expired, history>>

\* The head of the loop; sorting makes what follows independent of the order
\* in which workers finished.
BeginRound ==
  /\ pc = "round"
  /\ \/ /\ Stopped /\ End(StopReason) /\ UNCHANGED <<stats, queue>>
     \/ /\ ~Stopped /\ stats["rounds"] >= Rounds
        /\ End("RoundBudget") /\ UNCHANGED <<stats, queue>>
     \/ /\ ~Stopped /\ stats["rounds"] < Rounds
        /\ stats' = Count("rounds")
        /\ \E t \in [1..Len(proposals) -> Candidates] :
             Sorts(proposals, t) /\ proposals' = t
        /\ eligible' = <<>>
        /\ Continue("screen") /\ UNCHANGED <<seen, next>>
  /\ UNCHANGED <<plan, quality, chunk, truncated, slot, checks, cancelled,
                 expired, history>>

\* One proposal: counted, deduplicated over the whole run, validated.
Screen ==
  /\ pc = "screen" /\ proposals # <<>>
  /\ LET c == Head(proposals)
     IN  \/ /\ stats["proposals"] >= Proposals
            /\ End("ProposalBudget") /\ UNCHANGED <<stats, queue>>
         \/ /\ stats["proposals"] < Proposals /\ c \in seen
            /\ stats' = Count2("proposals", "duplicates")
            /\ proposals' = Tail(proposals)
            /\ Continue("screen") /\ UNCHANGED <<eligible, seen, next>>
         \/ /\ stats["proposals"] < Proposals /\ c \notin seen
            /\ seen' = seen \cup {c} /\ proposals' = Tail(proposals)
            /\ \/ /\ Stopped
                  /\ stats' = Count("proposals")
                  /\ End(StopReason) /\ UNCHANGED eligible
               \/ /\ ~Stopped /\ quality[c] = "illegal"
                  /\ stats' = Count2("proposals", "rejected")
                  /\ Continue("screen") /\ UNCHANGED <<eligible, next>>
               \/ /\ ~Stopped /\ quality[c] # "illegal"
                  /\ stats' = Count("proposals")
                  /\ eligible' = Append(eligible, c)
                  /\ Continue("screen") /\ UNCHANGED next
  /\ UNCHANGED <<plan, quality, chunk, truncated, slot, checks, cancelled,
                 expired, history>>

\* A key of the wrong size ends the search with an error and no report.
BadKey ==
  /\ "key" \in Faults /\ pc = "screen" /\ proposals # <<>>
  /\ stats["proposals"] < Proposals
  /\ pc' = "error"
  /\ UNCHANGED <<plan, quality, queue, batch, archives, stats, termination,
                 checks, cancelled, expired, history>>

Screened ==
  /\ pc = "screen" /\ proposals = <<>>
  /\ pc' = "batch"
  /\ UNCHANGED <<plan, quality, queue, batch, archives, stats, termination,
                 checks, cancelled, expired, history>>

\* Seeded fault: the reserve for verification is forgotten.
AvailableWithReserve == Evaluations - stats["evaluations"]

Available == SearchLimit - stats["evaluations"]

\* Seeded fault: the batch is not cut to the evaluations left.
BeginBatchUncut ==
  /\ pc = "batch" /\ eligible # <<>>
  /\ \/ /\ Stopped /\ End(StopReason)
        /\ UNCHANGED <<eligible, chunk, truncated, slot>>
     \/ /\ ~Stopped /\ Available > 0
        /\ chunk' = AtMost(Jobs, eligible) /\ truncated' = FALSE
        /\ eligible' = SubSeq(eligible, Len(chunk') + 1, Len(eligible))
        /\ slot' = [i \in 1..Len(chunk') |-> "waiting"]
        /\ next' = 1 /\ Continue("jobs")
     \/ /\ ~Stopped /\ Available <= 0 /\ End("EvaluationBudget")
        /\ UNCHANGED <<eligible, chunk, truncated, slot>>
  /\ UNCHANGED <<plan, quality, proposals, seen, stats, checks, cancelled,
                 expired, history>>

\* The next batch of at most Jobs candidates, cut to the evaluations left.
BeginBatch ==
  /\ pc = "batch" /\ eligible # <<>>
  /\ \/ /\ Stopped /\ End(StopReason)
        /\ UNCHANGED <<eligible, chunk, truncated, slot>>
     \/ /\ ~Stopped /\ Available = 0 /\ End("EvaluationBudget")
        /\ UNCHANGED <<eligible, chunk, truncated, slot>>
     \/ /\ ~Stopped /\ Available # 0
        /\ LET full == AtMost(Jobs, eligible)
           IN  /\ chunk' = AtMost(Available, full)
               /\ truncated' = (Len(full) > Available)
               /\ eligible' = SubSeq(eligible, Len(full) + 1, Len(eligible))
        /\ slot' = [i \in 1..Len(chunk') |-> "waiting"]
        /\ next' = 1 /\ Continue("jobs")
  /\ UNCHANGED <<plan, quality, proposals, seen, stats, checks, cancelled,
                 expired, history>>

\* A job looks at the control before it calls the evaluator.
StartJob(i) ==
  /\ pc = "jobs" /\ i \in DOMAIN slot /\ slot[i] = "waiting"
  /\ \/ /\ Stopped
        /\ slot' = [slot EXCEPT ![i] = "skipped"] /\ UNCHANGED tried
     \/ /\ ~Stopped
        /\ slot' = [slot EXCEPT ![i] = "running"]
        /\ tried' = tried \cup {chunk[i]}
  /\ UNCHANGED <<pc, plan, quality, queue, chunk, truncated, next, archives,
                 stats, termination, checks, cancelled, expired, judged>>

\* The thread of a job cannot be started: a failure that counts as an attempt.
ThreadFails(i) ==
  /\ "thread" \in Faults
  /\ pc = "jobs" /\ i \in DOMAIN slot /\ slot[i] = "waiting"
  /\ slot' = [slot EXCEPT ![i] = IF Stopped THEN "late" ELSE "unstarted"]
  /\ tried' = tried \cup {chunk[i]}
  /\ UNCHANGED <<pc, plan, quality, queue, chunk, truncated, next, archives,
                 stats, termination, checks, cancelled, expired, judged>>

\* The evaluator returns, or panics and is caught; the control is read again.
FinishJob(i) ==
  /\ pc = "jobs" /\ i \in DOMAIN slot /\ slot[i] = "running"
  /\ slot' = [slot EXCEPT ![i] = IF Stopped THEN "late" ELSE "returned"]
  /\ judged' = judged \cup {c \in {chunk[i]} : ~Stopped /\ quality[c] \in DOMAIN Rank}
  /\ UNCHANGED <<pc, plan, quality, queue, chunk, truncated, next, archives,
                 stats, termination, checks, cancelled, expired, tried>>

\* Every job of the batch is joined before its first result is read.
JoinJobs ==
  /\ pc = "jobs" /\ \A i \in DOMAIN slot : slot[i] \notin {"waiting", "running"}
  /\ pc' = "collect"
  /\ UNCHANGED <<plan, quality, queue, batch, archives, stats, termination,
                 checks, cancelled, expired, history>>

\* Seeded fault: a job that was skipped is counted as one that failed.
OutcomeOfSkipped(i) ==
  LET q == quality[chunk[i]]
  IN  CASE slot[i] = "late" -> "late"
        [] slot[i] \in {"skipped", "unstarted"} \/ q = "failed" -> "failures"
        [] q = "unavailable" -> "unavailable"
        [] OTHER -> "assessed"

\* What becomes of the result of job i.
Outcome(i) ==
  LET q == quality[chunk[i]]
  IN  CASE slot[i] \in {"skipped", "late"} -> slot[i]
        [] slot[i] = "unstarted" \/ (slot[i] = "returned" /\ q = "failed") -> "failures"
        [] slot[i] = "returned" /\ q = "unavailable" -> "unavailable"
        [] OTHER -> "assessed"

\* Seeded fault: an archive that is full takes no other candidate.
CollectResultWhenFree ==
  /\ pc = "collect" /\ next <= Len(chunk)
  /\ next' = next + 1
  /\ LET c == chunk[next]
         outcome == Outcome(next)
         Pushed(archive, status) ==
           IF outcome = "assessed" /\ quality[c] \in status /\ Cardinality(archive) < Keep
             THEN archive \cup {c} ELSE archive
     IN  /\ stats' = CASE outcome = "skipped" -> stats
                       [] outcome = "assessed" -> Count("evaluations")
                       [] OTHER -> Count2("evaluations", outcome)
         /\ feasible' = Pushed(feasible, Feasible)
         /\ infeasible' = Pushed(infeasible, Infeasible)
  /\ UNCHANGED <<pc, plan, quality, queue, chunk, truncated, slot, termination,
                 checks, cancelled, expired, history>>

\* One result, in batch order whatever order the jobs finished in; an assessed
\* candidate is pushed to its archive, which is sorted and truncated.
CollectResult ==
  /\ pc = "collect" /\ next <= Len(chunk)
  /\ next' = next + 1
  /\ LET c == chunk[next]
         outcome == Outcome(next)
         Pushed(archive, status) ==
           IF outcome = "assessed" /\ quality[c] \in status
             THEN Best(Keep, archive \cup {c}) ELSE archive
     IN  /\ stats' = CASE outcome = "skipped" -> stats
                       [] outcome = "assessed" -> Count("evaluations")
                       [] OTHER -> Count2("evaluations", outcome)
         /\ feasible' = Pushed(feasible, Feasible)
         /\ infeasible' = Pushed(infeasible, Infeasible)
  /\ UNCHANGED <<pc, plan, quality, queue, chunk, truncated, slot, termination,
                 checks, cancelled, expired, history>>

\* Seeded fault: a batch that was cut ends the search whether or not it stopped.
EndBatchAsBudget ==
  /\ pc = "collect" /\ next > Len(chunk)
  /\ IF truncated THEN End("EvaluationBudget")
                  ELSE Continue("batch") /\ UNCHANGED next
  /\ UNCHANGED <<plan, quality, queue, chunk, truncated, slot, stats, checks,
                 cancelled, expired, history>>

\* A batch that was cut ends the search; otherwise the next one begins.
EndBatch ==
  /\ pc = "collect" /\ next > Len(chunk)
  /\ IF truncated THEN End(IF Stopped THEN StopReason ELSE "EvaluationBudget")
                  ELSE Continue("batch") /\ UNCHANGED next
  /\ UNCHANGED <<plan, quality, queue, chunk, truncated, slot, stats, checks,
                 cancelled, expired, history>>

\* Seeded fault: a finite list counts as processed although the search stopped.
EndRoundFiniteFirst ==
  /\ pc = "batch" /\ eligible = <<>> /\ plan.finite
  /\ End("FiniteDomainProcessed")
  /\ UNCHANGED <<plan, quality, queue, chunk, truncated, slot, stats, checks,
                 cancelled, expired, history>>

\* No batch is left: the reasons to end, in the order the code asks for them.
EndRound ==
  /\ pc = "batch" /\ eligible = <<>>
  /\ \/ Stopped /\ End(StopReason)
     \/ ~Stopped /\ plan.finite /\ End("FiniteDomainProcessed")
     \/ /\ ~Stopped /\ ~plan.finite
        /\ \/ /\ stats["evaluations"] >= SearchLimit /\ End("EvaluationBudget")
           \/ /\ stats["evaluations"] < SearchLimit
              /\ stats["proposals"] = Proposals /\ End("ProposalBudget")
           \/ /\ stats["evaluations"] < SearchLimit
              /\ stats["proposals"] # Proposals
              /\ stats["rounds"] >= Rounds /\ End("RoundBudget")
           \/ /\ stats["evaluations"] < SearchLimit
              /\ stats["proposals"] # Proposals
              /\ stats["rounds"] < Rounds
              /\ Continue("propose") /\ UNCHANGED next
  /\ UNCHANGED <<plan, quality, queue, chunk, truncated, slot, stats, checks,
                 cancelled, expired, history>>

\* The domain's proposals for the next round: at most the number that is left.
Propose ==
  /\ pc = "propose"
  /\ \/ Stopped /\ End(StopReason) /\ UNCHANGED proposals
     \/ \E s \in Batches :
          /\ ~Stopped /\ Len(s) <= Proposals - stats["proposals"]
          /\ proposals' = s
          /\ IF s = <<>> /\ ~plan.retries
               THEN End("SearchStalled")
               ELSE Continue("round") /\ UNCHANGED next
  /\ UNCHANGED <<plan, quality, eligible, seen, chunk, truncated, slot, stats,
                 checks, cancelled, expired, history>>

\* The domain fails, or exceeds its limit: an error and no report.
ProposeFails ==
  /\ "propose" \in Faults /\ pc = "propose" /\ ~Stopped
  /\ pc' = "error"
  /\ UNCHANGED <<plan, quality, queue, batch, archives, stats, termination,
                 checks, cancelled, expired, history>>

-----------------------------------------------------------------------------
(* Verification of the finalists.                                          *)

Finalists ==
  IF Cardinality(feasible) <= Verifications THEN Cardinality(feasible)
                                            ELSE Verifications

BeginCheck ==
  /\ pc = "verify" /\ next <= Finalists /\ ~Stopped
  /\ pc' = "checking"
  /\ stats' = Count2("evaluations", "verifications")
  /\ UNCHANGED <<plan, quality, queue, batch, archives, termination, checks,
                 cancelled, expired, history>>

\* Seeded fault: a finalist whose check failed is checked again.
EndCheckRetry(fresh) ==
  /\ pc = "checking"
  /\ pc' = "verify" /\ next' = IF fresh = "failed" THEN next ELSE next + 1
  /\ \E c \in feasible :
       /\ Place(c, feasible) = next
       /\ checks' = Append(checks, [candidate |-> c, outcome |->
                                      IF Stopped THEN "late" ELSE fresh])
  /\ UNCHANGED <<plan, quality, queue, chunk, truncated, slot, stats, archives,
                 termination, cancelled, expired, history>>

\* The fresh result: late, failed, different from the ranked evidence, or the
\* same.  A late check counts as late and as a failure.
EndCheck(fresh) ==
  /\ pc = "checking"
  /\ pc' = "verify" /\ next' = next + 1
  /\ LET seenAs == IF Stopped THEN "late" ELSE fresh
     IN  /\ \E c \in feasible :
              /\ Place(c, feasible) = next
              /\ checks' = Append(checks, [candidate |-> c, outcome |-> seenAs])
         /\ stats' = CASE seenAs = "late" -> Count2("late", "failures")
                       [] seenAs = "same" -> stats
                       [] OTHER -> Count("failures")
  /\ UNCHANGED <<plan, quality, queue, chunk, truncated, slot, archives,
                 termination, cancelled, expired, history>>

Return ==
  /\ pc = "verify" /\ (next > Finalists \/ Stopped)
  /\ pc' = "done"
  /\ UNCHANGED <<plan, quality, queue, batch, archives, stats, termination,
                 checks, cancelled, expired, history>>

-----------------------------------------------------------------------------
Ended == pc \in {"done", "error"}

Cancel ==
  /\ ~cancelled /\ ~Ended /\ cancelled' = TRUE
  /\ UNCHANGED <<pc, plan, quality, queue, batch, archives, stats, termination,
                 checks, expired, history>>

DeadlinePasses ==
  /\ ~expired /\ ~Ended /\ expired' = TRUE
  /\ UNCHANGED <<pc, plan, quality, queue, batch, archives, stats, termination,
                 checks, cancelled, history>>

Coordinator ==
  \/ BeginRound \/ Screen \/ BadKey \/ Screened \/ BeginBatch \/ JoinJobs
  \/ CollectResult \/ EndBatch \/ EndRound \/ Propose \/ ProposeFails
  \/ BeginCheck \/ (\E fresh \in {"same", "differs", "failed"} : EndCheck(fresh))
  \/ Return

Job == \E i \in 1..Jobs : StartJob(i) \/ ThreadFails(i) \/ FinishJob(i)

Next ==
  \/ Coordinator \/ Job \/ Cancel \/ DeadlinePasses
  \/ Ended /\ UNCHANGED vars

Spec == Init /\ [][Next]_vars

\* The coordinator runs and every evaluation ends (evaluators honour control);
\* neither the deadline nor a cancellation has to come.
FairSpec ==
  Spec /\ WF_vars(Coordinator)
       /\ \A i \in 1..Jobs : WF_vars(StartJob(i)) /\ WF_vars(FinishJob(i))

-----------------------------------------------------------------------------
(* Properties.                                                             *)

\* Every variable stays within its type.
TypeOK ==
  /\ pc \in {"round", "screen", "batch", "jobs", "collect", "propose", "verify",
             "checking", "done", "error"}
  /\ plan \in Plans /\ quality \in [Candidates -> Qualities]
  /\ proposals \in Seq(Candidates) /\ eligible \in Seq(Candidates)
  /\ seen \subseteq Candidates
  /\ chunk \in Seq(Candidates) /\ truncated \in BOOLEAN
  /\ slot \in [1..Len(chunk) -> {"waiting", "running", "skipped", "late",
                                 "unstarted", "returned"}]
  /\ next \in Nat \ {0}
  /\ feasible \subseteq Candidates /\ infeasible \subseteq Candidates
  /\ stats \in [Counters -> Nat] /\ termination \in Reasons
  /\ checks \in Seq([candidate : Candidates,
                     outcome : {"late", "same", "differs", "failed"}])
  /\ cancelled \in BOOLEAN /\ expired \in BOOLEAN
  /\ tried \subseteq Candidates /\ judged \subseteq Candidates

\* No counter passes its budget, although the evaluations reserved for the
\* verification are counted together with those of the search.
BudgetsHold ==
  /\ stats["evaluations"] <= Evaluations
  /\ stats["verifications"] <= Verifications
  /\ stats["proposals"] <= Proposals
  /\ stats["rounds"] <= Rounds

InFlight == {i \in DOMAIN slot : slot[i] = "running"}

\* Jobs in flight included, the search never tries so many candidates that it
\* eats into the evaluations reserved for verification, nor more at a time than
\* the jobs allowed.
ReserveIsKept ==
  /\ Cardinality(tried) <= Evaluations - Verifications
  /\ Cardinality(InFlight) <= Jobs

\* Between batches the statistics account for every evaluation exactly once:
\* late, failed, unavailable or assessed; none is lost and none counted twice.
EvaluationsAccounted ==
  pc \in {"batch", "propose", "round", "verify"} /\ checks = <<>> =>
    /\ stats["evaluations"] = Cardinality(tried)
    /\ stats["evaluations"] = stats["late"] + stats["failures"]
                                + stats["unavailable"] + Cardinality(judged)

\* Between batches the archives hold the best candidates assessed in time,
\* whatever the order in which jobs finished and although each result is
\* truncated as it comes in; a result that came after the stop never enters.
ArchivesHoldTheBest ==
  pc \notin {"jobs", "collect", "error"} =>
    LET size == IF pc \in {"verify", "checking", "done"} THEN ArchiveSize ELSE Keep
    IN  /\ feasible = Best(size, {c \in judged : quality[c] \in Feasible})
        /\ infeasible = Best(size, {c \in judged : quality[c] \in Infeasible})

Listed == {plan.list[i] : i \in DOMAIN plan.list}
Legal == {c \in Listed : quality[c] # "illegal"}

\* A finite domain is reported as processed only when every legal candidate of
\* the supplied list was evaluated and none of their results came late.
FiniteMeansAll ==
  pc \in {"verify", "checking", "done"} /\ termination = "FiniteDomainProcessed"
    => tried = Legal /\ (checks = <<>> => stats["late"] = 0)

\* The reason reported is true: a stop really happened; a budget named is
\* spent; and a search that ended for want of rounds, proposals or ideas
\* evaluated every legal candidate it was given.
ReasonIsTrue ==
  pc \in {"verify", "checking", "done"} =>
    /\ termination = "Cancelled" => cancelled
    /\ termination = "TimeBudget" => expired
    /\ termination = "EvaluationBudget" => Cardinality(tried) = SearchLimit
    /\ termination = "ProposalBudget" => stats["proposals"] = Proposals
    /\ termination = "RoundBudget" => stats["rounds"] = Rounds
    /\ termination \in {"ProposalBudget", "RoundBudget", "SearchStalled",
                        "FiniteDomainProcessed"} =>
         tried = {c \in seen : quality[c] # "illegal"}

\* Without a stop, what a finite search evaluates and reports depends on the
\* list and the budget alone, not on the number of jobs or their timing: the
\* first legal candidates in order, as many as the budget allows.
IndependentOfJobs ==
  pc = "done" /\ plan.finite /\ ~Stopped =>
    tried = {c \in Legal : Cardinality({d \in Legal : d < c}) < SearchLimit}

\* Verification follows the ranking from the best candidate down, checks each
\* finalist once, and is complete unless a stop interrupted it; nothing is
\* checked after a late check.
ChecksFollowRanking ==
  /\ \A k \in DOMAIN checks : Place(checks[k].candidate, feasible) = k
  /\ \A k \in 1..Len(checks) - 1 : checks[k].outcome # "late"
  /\ pc = "done" /\ ~Stopped =>
       {checks[k].candidate : k \in DOMAIN checks} = Best(Verifications, feasible)

\* Every search ends, cancelled or not.
EverySearchEnds == <>Ended
=============================================================================
