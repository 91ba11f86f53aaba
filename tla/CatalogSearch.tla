----------------------------- MODULE CatalogSearch -----------------------------
(***************************************************************************)
(* The search over a supplied catalog: jobs of the search evaluate documents *)
(* in workers whose program, the backend, may be replaced while they run;    *)
(* what they leave under three locks, the ranking and the fresh check of the *)
(* finalist become one report, published after the document it names.        *)
(*                                                                         *)
(* Of the search (module Search) there is what this needs: batches of jobs,  *)
(* the budget, lateness and the check.  Publication of one file is atomic    *)
(* here (module Publication).  Alternatives are numbers, in their order.     *)
(***************************************************************************)
EXTENDS Naturals, FiniteSets

CONSTANTS
  Alternatives,         \* the documents of the catalog
  Backends,             \* the programs a worker may turn out to run
  Values,               \* what an assessment comes to, less being better
  Feasible,             \* those that meet the requirements
  Jobs,                 \* SearchBudget::jobs
  Evaluations,          \* SearchBudget::max_evaluations, one of them for the check
  Paths,                \* names of files
  Calls                 \* records of the paths of output and export, or "none"

ASSUME CatalogAssumption ==
  /\ Alternatives \subseteq Nat /\ IsFiniteSet(Alternatives)
  /\ Values \subseteq Nat /\ Feasible \subseteq Values
  /\ Jobs \in Nat \ {0} /\ Evaluations \in Nat \ {0, 1}
  /\ "none" \notin Paths
  /\ Calls \subseteq [output : Paths \cup {"none"}, export : Paths \cup {"none"}]

VARIABLES
  pc, call,
  untried, spent, expired,
  job,                  \* the jobs of the batch, or of the check
  identity,             \* the backend recorded under the first lock: none or one
  realized,             \* under the second: how often an alternative succeeded, and
                        \* the backend that the evidence kept is of
  ranked, checked,      \* the search's results, each with the backend it came from
  report,               \* what is to be published, none or one
  files, printed        \* what is published: files, and reports to stdout
search == <<untried, spent, job, ranked, checked>>
locked == <<identity, realized>>
published == <<files, printed>>
vars == <<pc, call, search, locked, report, published, expired>>

Ended == pc \in {"done", "failed"}
Absent == [kind |-> "absent"]
Document(c) == [kind |-> "document", of |-> c]
Published(r) == [kind |-> "report", report |-> r]

SearchLimit == Evaluations - 1

\* ranking: the assessment first, then the alternative.
Better(a, b) == a.value < b.value \/ (a.value = b.value /\ a.candidate < b.candidate)
Finalist ==
  {e \in ranked : e.value \in Feasible /\ \A d \in ranked \ {e} : d.value \in Feasible => Better(e, d)}

Init ==
  /\ pc = "start" /\ call \in Calls
  /\ untried = Alternatives /\ spent = 0 /\ expired = FALSE
  /\ job = <<>> /\ ranked = {} /\ checked = {}
  /\ identity = {}
  /\ realized = [c \in Alternatives |-> [count |-> 0, backends |-> {}]]
  /\ report = {}
  /\ files = [p \in Paths |-> Absent] /\ printed = {}

\* run refuses what exists and one path for both.
Start ==
  /\ pc = "start"
  /\ \A p \in {call.output, call.export} \ {"none"} : files[p] = Absent
  /\ call.output # "none" => call.output # call.export
  /\ pc' = "batch"
  /\ UNCHANGED <<call, search, locked, report, published, expired>>

-----------------------------------------------------------------------------
(* One evaluation, in a thread of its own.                                 *)

At(c, place) == c \in DOMAIN job /\ job[c].at = place
Move(c, place) == job' = [job EXCEPT ![c].at = place]

\* The search looks at the control before it calls the evaluator.
Enter(c) ==
  /\ At(c, "waiting")
  /\ Move(c, IF expired THEN "skipped" ELSE "calling")
  /\ UNCHANGED <<pc, call, untried, spent, ranked, checked, locked, report, published, expired>>

\* The worker's answer, with the backend that gave it.
Calculate(c, value, backend) ==
  /\ At(c, "calling")
  /\ job' = [job EXCEPT ![c] = [at |-> "calculated", value |-> value, backends |-> {backend}]]
  /\ UNCHANGED <<pc, call, untried, spent, ranked, checked, locked, report, published, expired>>

\* No time is left, or the worker, the build or the policy fails.
Fail(c) ==
  /\ At(c, "calling")
  /\ Move(c, "error")
  /\ UNCHANGED <<pc, call, untried, spent, ranked, checked, locked, report, published, expired>>

\* Seeded fault: the backend is recorded and not compared.
IdentifyLatest(c) ==
  /\ At(c, "calculated")
  /\ identity' = job[c].backends /\ Move(c, "identified")
  /\ UNCHANGED <<pc, call, untried, spent, ranked, checked, realized, report, published, expired>>

\* The first lock: the first result fixes the backend, those of another are refused.
Identify(c) ==
  /\ At(c, "calculated")
  /\ \/ /\ identity \in {{}, job[c].backends}
        /\ identity' = job[c].backends /\ Move(c, "identified")
     \/ /\ identity \notin {{}, job[c].backends}
        /\ Move(c, "error") /\ UNCHANGED identity
  /\ UNCHANGED <<pc, call, untried, spent, ranked, checked, realized, report, published, expired>>

\* The second lock, and the third, whose warnings are left out.
Observe(c) ==
  /\ At(c, "identified")
  /\ realized' = [realized EXCEPT ![c] = [count |-> @.count + 1, backends |-> job[c].backends]]
  /\ Move(c, "measured")
  /\ UNCHANGED <<pc, call, untried, spent, ranked, checked, identity, report, published, expired>>

\* The search looks at the control again; a late result is counted and not used.
Leave(c) ==
  /\ c \in DOMAIN job /\ job[c].at \in {"measured", "error"}
  /\ Move(c, IF At(c, "measured") /\ ~expired THEN "given" ELSE "useless")
  /\ UNCHANGED <<pc, call, untried, spent, ranked, checked, locked, report, published, expired>>

-----------------------------------------------------------------------------
(* The search.                                                             *)

Waiting == [at |-> "waiting", value |-> 0, backends |-> {}]

\* The next jobs, cut to the evaluations left.
BeginBatch ==
  LET size == IF Jobs <= SearchLimit - spent THEN Jobs ELSE SearchLimit - spent
      chunk == {c \in untried : Cardinality({d \in untried : d < c}) < size}
  IN  /\ pc = "batch" /\ ~expired /\ chunk # {}
      /\ pc' = "jobs"
      /\ untried' = untried \ chunk /\ job' = [c \in chunk |-> Waiting]
      /\ UNCHANGED <<call, spent, ranked, checked, locked, report, published, expired>>

\* All jobs are joined before a result is taken.
EndBatch ==
  /\ pc = "jobs" /\ \A c \in DOMAIN job : job[c].at \in {"skipped", "given", "useless"}
  /\ pc' = "batch" /\ job' = <<>>
  /\ spent' = spent + Cardinality({c \in DOMAIN job : ~At(c, "skipped")})
  /\ ranked' = ranked \cup {[candidate |-> c, value |-> job[c].value, backends |-> job[c].backends] :
                              c \in {d \in DOMAIN job : At(d, "given")}}
  /\ UNCHANGED <<call, untried, checked, locked, report, published, expired>>

EndRounds ==
  /\ pc = "batch" /\ (expired \/ untried = {} \/ spent = SearchLimit)
  /\ pc' = "verify"
  /\ UNCHANGED <<call, search, locked, report, published, expired>>

\* The finalist is evaluated again, by the same evaluator.
BeginCheck ==
  /\ pc = "verify" /\ ~expired
  /\ \E e \in Finalist : job' = [c \in {e.candidate} |-> [Waiting EXCEPT !.at = "calling"]]
  /\ pc' = "checking" /\ spent' = spent + 1
  /\ UNCHANGED <<call, untried, ranked, checked, locked, report, published, expired>>

EndCheck ==
  /\ pc = "checking"
  /\ \E e \in Finalist :
       /\ job[e.candidate].at \in {"given", "useless"}
       /\ checked' = {[candidate |-> e.candidate, backends |-> job[e.candidate].backends,
                       consistent |-> At(e.candidate, "given") /\ job[e.candidate].value = e.value]}
  /\ pc' = "compose" /\ job' = <<>>
  /\ UNCHANGED <<call, untried, spent, ranked, locked, report, published, expired>>

NoCheck ==
  /\ pc = "verify" /\ (expired \/ Finalist = {})
  /\ pc' = "compose"
  /\ UNCHANGED <<call, search, locked, report, published, expired>>

-----------------------------------------------------------------------------
(* The report.                                                             *)

Best ==
  {e.candidate : e \in {f \in Finalist :
                   \E v \in checked : v.candidate = f.candidate /\ v.consistent}}

\* The report says already what becomes of the export.
Compose ==
  /\ pc = "compose"
  /\ pc' = "export"
  /\ report' = {[backends |-> identity, realized |-> realized, ranked |-> ranked,
                 checked |-> checked, best |-> Best,
                 export |-> IF call.export = "none" THEN "not_requested"
                            ELSE IF Best # {} THEN "written" ELSE "not_written"]}
  /\ UNCHANGED <<call, search, locked, published, expired>>

\* write_new of the export, which replaces nothing.
WriteExport ==
  /\ pc = "export"
  /\ IF call.export = "none" \/ Best = {} THEN UNCHANGED files
     ELSE /\ files[call.export] = Absent
          /\ \E c \in Best : files' = [files EXCEPT ![call.export] = Document(c)]
  /\ pc' = "report"
  /\ UNCHANGED <<call, search, locked, report, printed, expired>>

WriteReport ==
  /\ pc = "report"
  /\ \/ /\ call.output = "none"
        /\ printed' = report /\ UNCHANGED files
     \/ /\ call.output # "none" /\ files[call.output] = Absent
        /\ \E r \in report : files' = [files EXCEPT ![call.output] = Published(r)]
        /\ UNCHANGED printed
  /\ pc' = "done"
  /\ UNCHANGED <<call, search, locked, report, expired>>

\* An error on the way, in a lock, or in writing a file; or the process is killed.
Abort ==
  /\ ~Ended
  /\ pc' = "failed"
  /\ UNCHANGED <<call, search, locked, report, published, expired>>

DeadlinePasses ==
  /\ ~expired /\ ~Ended
  /\ expired' = TRUE
  /\ UNCHANGED <<pc, call, search, locked, report, published>>

\* Somebody else creates a file.
Intrude(p) ==
  /\ files[p] = Absent /\ ~Ended
  /\ files' = [files EXCEPT ![p] = [kind |-> "other"]]
  /\ UNCHANGED <<pc, call, search, locked, report, printed, expired>>

Evaluation(c) ==
  \/ Enter(c) \/ Fail(c) \/ Identify(c) \/ Observe(c) \/ Leave(c)
  \/ \E value \in Values, backend \in Backends : Calculate(c, value, backend)

Next ==
  \/ Start \/ BeginBatch \/ EndBatch \/ EndRounds \/ BeginCheck \/ EndCheck \/ NoCheck
  \/ \E c \in DOMAIN job : ~Ended /\ Evaluation(c)
  \/ Compose \/ WriteExport \/ WriteReport \/ Abort
  \/ DeadlinePasses \/ \E p \in Paths : Intrude(p)

Spec == Init /\ [][Next]_vars

-----------------------------------------------------------------------------
(* Properties.                                                             *)

Reports == printed \cup {files[p].report : p \in {q \in Paths : files[q].kind = "report"}}

\* A report is true when it can be read: one backend gave all that it ranks and
\* checks, the evidence that it keeps is of that backend too, the best one was
\* evaluated twice and came to the same, and the document it says is written is.
\* A document never shows up for anything else, with or without its report.
ReportIsTrue ==
  /\ \A r \in Reports :
       /\ Cardinality(r.backends) <= 1
       /\ \A e \in r.ranked :
            /\ e.backends = r.backends /\ r.realized[e.candidate].backends = r.backends
            /\ r.realized[e.candidate].count > 0
       /\ \A c \in r.best :
            /\ r.realized[c].count = 2
            /\ \E v \in r.checked : v.candidate = c /\ v.consistent /\ v.backends = r.backends
       /\ r.export = "written" => \E c \in r.best, p \in Paths : files[p] = Document(c)
       /\ r.export # "written" => \A p \in Paths : files[p].kind # "document"
  /\ \A p \in Paths : files[p].kind = "document" =>
       \E e \in ranked, v \in checked :
         /\ e.candidate = files[p].of /\ v.candidate = files[p].of
         /\ e.value \in Feasible /\ v.consistent /\ e.backends = v.backends
         /\ \A d \in ranked \ {e} : d.value \in Feasible => Better(e, d)
=============================================================================
