# TLA+ specifications of poe-optimizer

Nine parts of poe-optimizer have to keep a promise over many steps, often of several
actors: the supervisor of evaluator workers, the extraction workers, the search, its
discrete space, the catalog command around it, the publication of artifacts, the
registry of identities, the names and checkpoints above it, and the evaluation of
effect plans.  This directory models them, checks the models with TLC, proves the
results that matter most for every value of the constants with TLAPS, and says
what is left.

* [1. The system](#1-the-system)
* [2. Modules and code](#2-modules-and-code)
* [3. What TLC checks](#3-what-tlc-checks)
* [4. Fairness](#4-fairness)
* [5. What is proved](#5-what-is-proved)
* [6. Abstractions](#6-abstractions)
* [7. What is not modelled](#7-what-is-not-modelled)
* [8. Plan](#8-plan)

`tlc -config X.cfg M` checks a model, `tlapm M.tla` a proof.  PROJECT.json lists
for every definition the lines of code it stands for, and for every property a
faulty variant of the code ("Seeded fault" in the modules) that violates it.
Those variants are not part of any specification.

## 1. The system

| component | state it keeps | operations | hard behaviours |
|---|---|---|---|
| evaluator supervision, `poe-optimizer-pob/src/supervisor.rs` | the child, its three pipes, three threads, one channel, the deadline, a scratch directory | one call of `evaluate_with_options` | exit, answer and ends of streams seen in any order; a worker that hangs or floods a pipe; calls that fail half way; cleanup on every path |
| evaluator worker, `__worker` in `src/main.rs` | where it is in one exchange | hello, read request, evaluate, answer | a request longer than a pipe; being cut off |
| search, `poe-optimizer-search/src/lib.rs` | keys seen, two archives, counters, the batch of running jobs | rounds of proposals, concurrent evaluation, verification | stop between any two steps; order of completion; the last, partial batch; an evaluation reserve |
| publication, `poe-optimizer-host/src/lib.rs` | a staging name and a destination in a shared directory | `write_new`, `publish_artifacts`, `publish_artifact_bundle` | several processes and strangers; crashes; failing operations; names a host takes for one |
| discrete space, `search/src/discrete.rs` | axes, locks, an odometer | enumerate, propose | products beyond u128, limits met exactly, draws that hit the old choice |
| extraction workers, `pob/src/{game_data,tree}_worker.rs` | a child, an artifact file, a deadline | poll, admit, stop, decode | a write after the last look, a deadline passing after the exit, checks that fail while the worker runs |
| catalog search command, `src/catalog_search.rs` | the backend's identity, evidence, the report | search, export, report | a backend replaced while jobs race to fix its identity; export published and report not |
| identity registry, `import/src/owned_mapping/registry*.rs` | two counters, the entries, encoded sizes, active slots of each owner | allocate, retire, resume from a snapshot, check a successor | limits met exactly; a snapshot resumed with dependents recounted; chains of artifacts checked link by link |
| authoring allocation and checkpoints, `authoring/src/{allocation,checkpoint}.rs` | names and identities along a chain of checkpoints | allocate, retire, publish, continue | directories put together from two checkpoints; a lost answer and a retry; requests that depend on one another |
| owned effect plan, `engine/src/owned_plan` | a graph of nodes, a scratch of values | compile, run, extend with what is retained | gates, absent values and failures meeting in different orders; a scratch used again; contributions that come after what reads them |

They interact by calls.  The search calls an `Evaluator` from several threads; the
backend behind it makes one supervised call for each evaluation, which spawns one
worker process; a command that has a report, an export or a release publishes it
at the end; the registry feeds allocation and allocation feeds checkpoints, which
are published.  Nothing is shared between two supervised calls, and nothing but
the control (`SearchControl`: deadline and cancellation) between a search and its
caller.  The remaining components (PROJECT.json lists all of them) are values and
functions on values.

What makes the components correct, in short:

* *Supervision.* A snapshot is reported only for a worker that answered, wrote
  nothing else, exited with success and was collected; the scratch directory
  outlives everything that uses it; a failure is never hidden by the cleanup; a
  call returns whatever the worker does.
* *Search.* No budget is exceeded although jobs run in parallel and part of the
  evaluations is reserved; late results are counted and never ranked; the archives
  are the best of what was assessed; the reason reported is true.
* *Publication.* A destination shows a complete artifact or none; whoever is first
  stays; success and failure are true; only a crash leaves staging behind.
* *Identity registry.* What an operation produces is what a reader accepts; no slot
  is active below a retired owner; along a chain of artifacts no identity is lost,
  retargeted or revived.
* *Names.* The same for names, whatever host continues from whatever checkpoint; a
  transaction gives what it was asked for, and the same twice.
* *Effect plan.* The values do not depend on the order of evaluation, on what a
  scratch held, or on whether a contribution came early or late.
* *Extraction.* Data is taken only whole, bounded, in time and from a worker that is
  gone.
* *Catalog search.* A report that can be read is true, the one export included.
* *Discrete space.* An enumeration is the whole space once; proposals are as far from
  their parents as the round asks.

## 2. Modules and code

| module | models |
|---|---|
| `Supervisor` | one supervised call under an arbitrary worker |
| `EvaluationCall` | abstract: what a call promises its caller |
| `EvaluatorWorker` | extends `Supervisor`: the program's own worker in place of the arbitrary one |
| `Search` | one call of `search` |
| `Publication` | any number of publishing calls in any number of processes |
| `PublishOnce` | abstract: an artifact appears whole in one step |
| `RegistrySnapshot` | registries as values: what is accepted, what succeeds, how entries are added and retired |
| `IdRegistry` | any number of tools that edit registries, and the artifacts they make |
| `NameLedger` | extends `RegistrySnapshot`: hosts that allocate names and publish checkpoints |
| `EffectPlan` | compilation and attempts of effect plans on one scratch |
| `ExtractionWorker` | one call that extracts a tree or game data in a worker |
| `DiscreteSpace` | one call to enumerate a space or to propose points of it |
| `CatalogSearch` | one run of the catalog command: the jobs of a search, its check, two files |
| `MC...` | values for TLC |
| `SupervisorProofs`, `SearchProofs`, `PublicationProofs`, `RegistrySnapshotProofs`, `IdRegistryProofs`, `NameLedgerProofs`, `EffectPlanProofs`, `ComponentProofs` | theorems |

`CatalogSearch` composes with `Search` and `Publication` on paper only: it takes from
the first the batch, the budget, lateness and the check, which are proved there, and
from the second that a new file appears whole and replaces nothing
(`NothingReplaced`, `VisibleIsWhole`).  `NameLedger` takes publication in the same way
and shares `RegistrySnapshot`, definitions and lemmas, with `IdRegistry`.

`CatalogSearch`, `DiscreteSpace` and `ExtractionWorker` share neither state nor actions, and
no name: `ComponentProofs` extends all three, each theorem in it is about the specification of
one of them, and the other two contribute nothing to it.

### Supervisor

`pc` is where the calling thread is: `entry` to `start_stderr` is
`evaluate_with_options` and the head of `supervise`, `top`, `poll` and `recv` are
the three parts of the loop of `exchange`, and the rest is the cleanup after it:
`drop_stdin`, `stop` to `wait` (`ReapedChild::stop`), `join`, `drop_kill` and
`drop_wait` (`Drop for ReapedChild`) and `close` (`with_scratch`).  `hello_received`,
`response`, `finished` and `exit_status` are the locals of `exchange`.  `thread` is
the state of the three I/O threads, `channel` their unbounded `mpsc` channel.
Pipes are a number of lines or chunks written and a number read, with a capacity.
`process` goes from `running` through `killed` to `zombie` and `collected`; `reaped`
is `ReapedChild.reaped`, which is what the code knows of it.

Each arm of the event match is an action (`OnHello`, `OnResponse`, `OnFinished`,
`OnFailed`); each I/O task is an action with one disjunct per read
(`ReadStdout`, `DrainStderr`, `WriteStdin`).  `Faults` says which operating-system
calls may fail, each at every place it is made; `Worker` is any process: it may
write any line, read or ignore its input, close its streams, hang, exit at any
point with any status.

`EvaluatorWorker` replaces `Worker` with the steps of `__worker`, each one a step of
the arbitrary worker with a condition, so that what holds of any worker holds of it.

### Search

`pc` names the parts of the loop: `round`, `screen` (the proposals one by one),
`batch`, `jobs` (threads running), `collect` (their results one by one), `propose`,
`verify`, `checking`.  The coordinator's steps, the jobs (`StartJob`, `FinishJob`,
`ThreadFails`), `Cancel` and `DeadlinePasses` interleave freely.  `slot[i]` is the
result of job i as the thread returns it.  `stats` is `SearchStats`.  The archives are sets, since the
ranking is total; `Best(n, S)` is sort and truncate.  `tried` and `judged` record
history for the properties: the candidates evaluated, and those assessed in time.

### Publication

`fs` maps every destination and staging name to what is there: by whom, and the
state of every entry (`created`, `written`, `synced`, `dir`).  `pc[p]` follows one call:
`start` (validation and the parent), `check` (directories only), `stage`, then for
each entry `entry`, `write` and `sync`, then `rename`, `renamed` (before the guard is
disarmed), or `drop` (the guard removes the staging name) and an end.  `at[p]` is the
entry being written.  `Slot(e)` is where the host's file system puts an entry: names
that `HostFold` makes equal are one.  `Crash` may come at any point, `Intrude` is any
other program.

### IdRegistry

`reg[t]` is the `RegistryInput` a tool holds, `bytes[t]` its `entry_bytes`,
`dependents[t]` its `active_dependents`.  `Load` is `OwnedIdRegistry::new`, on a
published artifact or on a file of any origin (`Inputs`); `Accepts` is what the
constructor of snapshots requires.  `AllocateDefinition` and `AllocateSlot` share
`AppendEntry`, as in the code, and `Retire` is `retire`; a refused operation returns
an error and changes nothing, so it is no step.  `Publish` is a tool that checks its
work with `validate_successor` (`Succeeds`) against what it loaded (`base`), as
`owned_definition_cli` does; `Adopt` accepts a registry that comes as the successor
of an artifact, as a release with a predecessor does.  `lineage` is history: the
pairs of an artifact's ancestor and the artifact.

### NameLedger

`base` is the ledger a host loaded, from the receipt in `from` or from a registry file;
`staged` is the ledger of the transaction, `pending` its requests still to be staged.
`Load` is the reading of a checkpoint directory: its file of names and its registry may
each be of any checkpoint (a directory can be copied together), and the digests in the
receipt and in the names decide.  `Begin` holds every check `allocate` makes before it
stages, and those of `stage_stat_declarations`; `Stage` is one turn of its loop, in the
order of `request_key`, with one disjunct per form of request; `Finish` is its end,
where the successor is checked.  `Retire` is another host.  `Publish` writes the
receipt; checkpoints may fork, since there is no current head.  `lineage` is history.

### EffectPlan

`plan` is the request with its nodes, the templates of its supports and the outputs of
native preparation; `graph` the nodes with their reads bound; `order` the order found so
far; `scratch` the values with the plan and the number of nodes they belong to.
`Compile`, `Order`, `Ordered` and `Check` are the compilation, `Begin` and `Run` the
loop over the scheduled nodes with the four checks of the execution.  `Prepare`,
`Retain`, `Bind` and `Extend` are the second half of a staged attempt
(`compile/support_suffix.rs`): what is retained is appended, everything is bound again
and compared with the prefix that ran, and the values grow in place.  The reductions
and the program of a node are operators that follow the loops (`OrderedSum`,
`ExactIntegerSum`, `AnyOf`, `NumericSelection`, `ApplicationMaximum`, `GateResult`,
`Program`), each loop a recursive function of the number of members it has passed.
`Obstacle` is the four checks before a node runs.  `PlanShape` says what the compiler
makes: reads of things that exist, selections that have their node.
`Exhausted` may come at any step of an attempt.  `Meaning` is the
reference: the values as the fixed point of all nodes at once, with each reduction
defined on the set of its members.

### ExtractionWorker

`step` goes from `start` and `spawn` through the poll loop (`files`, `deadline`, `status`),
the checks after the exit (`last files`, `last deadline`), the cleanup (`stop`, `kill`,
`killed`, `wait`, `drop kill`, `drop wait`), `read`, `decode` and `admit`, to `unwind`, where
the scratch directory goes.  `kind` tells the two callers apart where they differ: game
data is measured before it is written and its deadline is looked at after the exit
and before the read, the tree's is not.  The worker's steps interleave with the
caller's and may stop at any point.

### CatalogSearch

`job[c].at` is where the evaluation of alternative c is: `waiting`, `calling`, `calculated`,
`identified`, `measured` or `error`, and what the search makes of it (`skipped`, `given`,
`useless`).  `identity` and `realized` are what is under the two locks.  The same steps
serve the check of the finalist.  `Compose` makes the report, which says already what
becomes of the export; `WriteExport` and `WriteReport` follow, and `Abort` stands for
every error on the way and for a kill.

### DiscreteSpace

`asked` is the call, `left` the points or attempts still to come.  `ListPoint` is one turn
of the odometer, `Try` one attempt of `propose`, in which every draw of the generator is
possible.  `Enumerate` ends in `refused` when the limit is passed, and in `unreserved` when
`try_reserve_exact` finds no room for the points: that may happen to any space and always
does to one of more points than a vector may hold (`MaxReserve`).

## 3. What TLC checks

States are distinct states.  Every run is exhaustive within its bounds.

### supervisor

| run | bounds | states | shows |
|---|---|---|---|
| `supervisor_protocol` | three lines of four kinds, request of two chunks; threads may panic or not start, waits may fail | 1,225,785 | `SnapshotIsEarned`, `EveryCallReturns` |
| `supervisor_cleanup` | two lines, two stderr chunks of which one is retained; everything but a blocking wait may fail | 3,069,583 | `ScratchOutlivesWorker`, `NothingLeftBehind`, `DiagnosticsAreComplete`, `FirstFailureKept`, `ImplementsEvaluationCall` |
| `worker_exchange` | the program's own worker, a request of three chunks and four chunks of stderr through pipes of two | 34,317 | `AnswerIsReported`, `NoPipeDeadlock` |

Three lines are enough because `read_stdout` has three stages, and what it does with
a line depends on the stage and the kind.  Two stderr chunks with one retained reach
the limit and pass it.  A request of two chunks through a pipe of one, and one of
three through a pipe of two, block in the middle; with one chunk of stderr retained,
a reader that stopped there would leave the fourth to block the worker.  The faults are divided over runs
by the question asked; the division leaves no fault untried.

What is worth knowing:

* `AnswerIsReported`: an exit status that arrives before the answer has been read
  from the pipe does not lose the answer, because success is decided only when all
  three streams have finished, and a failing exit only when the status is a failure.
  The same property says that the program's own worker is never blamed for a breach of
  the protocol: what the two sides of the pipe require of each other agrees.
* The guarantees stop at waitpid.  When a blocking wait fails the worker is not
  collected; that is the exception written into `ScratchOutlivesWorker`,
  `NothingLeftBehind` and the assumption of theorem `ImplementsCall`.
  `ReapedChild::stop` returns the error of `try_wait` before it kills, so that a
  status query that fails leaves the join waiting for a worker nobody stopped;
  `EveryCallReturns` is claimed without those faults, and the hazard is listed.
* One directory may stay behind without a word: when its own path does not resolve,
  `with_scratch` returns before there is a worker (supervisor.rs:207-210), the `TempDir`
  is dropped, and a drop ignores that the removal failed.  `OpenScratch` has both
  outcomes, and `NothingLeftBehind` names this as the only exception: the result is the
  path error, nothing was started, and no cleanup error was noted.

### search

| run | bounds | states | shows |
|---|---|---|---|
| `search` | four candidates; finite lists of four and of two with a duplicate, and generated domains with empty and repeated samples that stall or ask again; five evaluations, of which two are reserved for as many verifications, two jobs, four proposals, three rounds, beam one, archive two; keys, threads and proposals may fail | 1,109,958 | `BudgetsHold`, `ReserveIsKept`, `EvaluationsAccounted`, `FiniteMeansAll`, `IndependentOfJobs`, `ArchivesHoldTheBest`, `ReasonIsTrue`, `ChecksFollowRanking`, `EverySearchEnds` |

The run takes all assignments of the six qualities to three of the candidates
(`Assessments`), so each batch mixes illegal, failing, unavailable, feasible and
infeasible candidates in each order.  The fourth is always good: it leads or ties with
any of them, and fixing it keeps the run short.  Three
evaluations are left to the search.  The list of four exceeds them, meets them when one
of its candidates is illegal and stays below them when more are.  With two jobs
the second batch has room for one evaluation, so it is cut to one.  A third feasible
result meets an archive of two that is full, and pushes one out or is itself
dropped; an archive that took no other candidate once full breaks
`ArchivesHoldTheBest`, and is the mutant of that property.  The beam breeds from one
where the archive holds two.  An archive smaller than the beam, which `End` cuts once more
when the rounds are over, is left to theorem `ArchivesAreTheBest`: with one place it would leave
one finalist, and `ChecksFollowRanking` is about the order of two.

### publication

| run | bounds | states | shows |
|---|---|---|---|
| `publication_race` | a file, a set of artifacts and a bundle for one path; any operation fails, any process crashes, strangers intrude | 97,680 | `VisibleIsWhole`, `NoLeftovers`, `NothingReplaced`, `PublishesOnce` |
| `publication_edges` | two bundles for one path, one at both limits and one empty; two calls for another whose names are equal up to ASCII case, equal to the host but not to the code, or refused; nothing fails | 59,520 | `AcceptedNeverCollides`, `Publishes` |

Three publishers of the three kinds meet each other at every step; a bundle has a
file, a directory and a file in it, which is every case of `stage_bundle`.

### identity registry

| run | bounds | states | shows |
|---|---|---|---|
| `id_registry` | one tool, three entries, integers up to five, eleven bytes: three entries and two bytes of reasons; three artifacts, the empty one included | 208,898 | `HistoryIsSound`, `SizesAreExact`, `DependentsAreExact`, `LineageIsKept` |

One definition kind, whose members own slots, one kind of slot, two reasons of
different length; six files come from elsewhere, two of them sound and four that
break one rule each.  An owner and two slots are what the rules of dependents relate;
a chain needs three artifacts for a pair that no check compares.  A registry of three
entries and two tombstones meets both the limit of integers and that of bytes.  One
tool is enough: tools share nothing but the artifacts, and one tool that loads them
in any order does what several do.

What is worth knowing: `validate_successor` says nothing of new entries, so a
successor may hold a new slot, a tombstone from the start, below an owner that was a
tombstone in the predecessor.  No operation produces that (an owner must be active
when its slot is allocated), and no property needs it to be excluded: the rules of one
snapshot and of its neighbours are enough for `LineageIsKept`, which is why it holds of
registries from elsewhere too.

### names and checkpoints

| run | bounds | states | shows |
|---|---|---|---|
| `name_ledger` | two names in each of two spaces, seven requests of which a transaction has two, two registry files, three checkpoints, integers up to five, three entries and three names | 350,961 | `NamesAreKept`, `RequestsAreMet`, `RetryFindsTheSame` |

Three checkpoints make a chain with a pair that no check compares, or a fork.  The
requests name a slot below a definition of the same transaction, an alias of that name
and of another, a definition of a kind that has no definitions, and one name asked for
in two ways.  Both limits are met: three names, and three entries below a tombstone.
`RetryFindsTheSame` is about a host that published and lost the answer: what it asks
again is met by the ledger as it is, in full or in part, and no request of it is
refused while it is staged.

### effect plan

| run | bounds | states | shows |
|---|---|---|---|
| `effect_plan` | 351 plans of three to five nodes, plain and staged; up to two retained applications, each eligible or not, any native outputs; integers up to three | 133,351 | `ReportIsMeaning`, `PrefixNeverChanges`, `ReadsAreScheduled`, `CyclesAreRefused` |

The plans are five families (MCEffectPlan): sums with overflow, unknown and
failing members in each place; disjunctions and gates; selections and maxima that agree,
conflict or are empty; stages, where a value is read in gates, in either side of a choice,
before it is delivered, or in a circle; and programs of two nodes of which one alone
reaches a read, or none does.  A reduction has two early members and up to two late ones.  The numbers are small enough for a sum to
leave the bounded integers and to come back.

`PrefixNeverChanges` is the argument that a staged attempt needs: the check against
*potential* deliveries at compilation (`Touches`) is strong enough for the comparison
after the retained applications are known never to fail, so that its error is a second
line of defence.  There is one exception, stated in the property (`ReadsAreReached`):
admission looks at the reads that a node reaches (support_suffix.rs:141-176), the
comparison at all reads of its program (721-735).  A plan whose program has a read that
no node reaches may be admitted and then refused by the comparison, for a channel whose
value it never uses; the family of programs has both outcomes.  `ReadsAreScheduled` says the same of the four errors of the execution.

### extraction, catalog, discrete space

| run | bounds | states | shows |
|---|---|---|---|
| `extraction_worker` | artifacts of up to three writes where two are allowed, both kinds | 3,178 | `NothingLeftRunning`, `AdmittedIsFinal`, `CallReturns` |
| `catalog_search` | three alternatives, two jobs, four evaluations, two backends, three values of which two are feasible, four invocations | 317,204 | `ReportIsTrue` |
| `discrete_space` | nine spaces of two and three axes with free, locked and one-choice axes, one that is locked throughout and one axis of thirteen; limits below, at and above the size; products up to 13 where 18 is met; room for twelve points at most; every call with up to two parents | 102,461 | `AnswersAreSound` |

Three writes are one too many; the extraction worker has no other data.  Two backends
and three alternatives in batches of two leave one for a later batch, after the
identity was fixed, and the check of the finalist may again come from the other
backend.  `ReportIsTrue` says what the file says: it names one backend, the ranking and the
evidence kept for it came from that backend, the best was evaluated twice with one
result, and an export that is said to be written is there, although the report is
composed before and either write may fail.  A document without a report may be left (the
process was killed between the two), and then it is still the verified best.

`AnswersAreSound` compares with the set of all points: an enumeration lists it once in
lexical order, is refused exactly above its limit, and overflow of the product is no
way around that; a proposal is new, valid, and as far from a parent as its round asks,
and a call that finds none was stopped or had nothing to move.

## 4. Fairness

*Supervisor.* The calling thread and the I/O threads are scheduled (the code holds no
lock across a call), the deadline comes, and a kill is delivered by the operating
system.  Nothing is assumed of the worker: it may stop at any point for good.
`EveryCallReturns` is checked with waits that fail and excludes status queries and kills
that do, for which the code makes no such promise (above).

*EvaluatorWorker.* The deadline need *not* come; everything else is scheduled and the
evaluation ends.  Under that the exchange must come to its end by itself, which is
what shows that the pipes and the channel do not wait on each other in a circle.

*Search.* The coordinator runs and every job's evaluation ends.  The code starts
evaluators under a control that they must honour, and joins them without a timeout,
so termination rests on that and on nothing else: neither the deadline nor a
cancellation has to come.  A domain that may be asked again after an empty sample is
stopped by the round budget.

*Publication.* A process that has not crashed goes on.

*ExtractionWorker.* The caller runs, and the deadline passes.  Nothing is assumed of the
worker: one that hangs is killed.  A kill is taken to work at once, and a wait for a
process that has exited to end.

*The other modules.* None: their properties are ones of safety.

## 5. What is proved

Every theorem is for all values of the constants under the assumptions named in the
modules: any budgets `search` accepts (`BudgetAssumption`), any finite set of
candidates with any qualities (`DomainAssumption`), any faults and lines (of the program's own worker, that
it can write a hello line: `HelloAssumption`), any number of publishers, any
artifacts nested as the API nests them (`RequestAssumption`), any host that does not
identify portable names which ASCII case keeps apart (`HostAssumption`), any kinds of
which none is both a slot's and a definition's (`KindAssumption`), any sizes of entries
with which the empty registry fits (`SizeAssumption`), any files in
which slots have owners and definitions have none, as in the type of targets
(`InputAssumption`, `SourceAssumption`), any plans shaped as the compiler makes them
(`PlansAssumption`: the reads are of known kinds, a choice of source is decided by a node
of the plan, every query of a selection has its node, only the plan's own nodes select,
and none of those reads whether an application applies), any catalog of finitely many
alternatives with any values, backends, calls, and a budget of at least two evaluations, as the
command demands (`CatalogAssumption`), any spaces with a
positive number of positive axes and fixed choices within them, any width of the product
that holds every limit and any number of points that can be reserved (`SpaceAssumption`), any calls to propose whose settings `propose`
accepts (`SettingsAssumption`, which for the rest is the types of its arguments), and any limit of
an artifact (`LimitAssumption`).

| theorem | states |
|---|---|
| `SupervisorProofs!TypeCorrect`, `SearchProofs!TypeCorrect`, `PublicationProofs!TypeCorrect`, `IdRegistryProofs!TypeCorrect` | type correctness |
| `ScratchIsSafe` | `Spec => []ScratchOutlivesWorker` |
| `SnapshotsAreEarned` | `Spec => []SnapshotIsEarned` |
| `DiagnosticsAreWhole` | `Spec => []DiagnosticsAreComplete` |
| `LeavesNothingBehind` | `Spec => []NothingLeftBehind` |
| `FirstFailureIsKept` | `Spec => FirstFailureKept` |
| `ImplementsCall` | the supervisor implements `EvaluationCall` |
| `WorkerImplements` | with the program's own worker it is the supervisor under some worker |
| `TheAnswerIsReported` | `WorkerSpec => []AnswerIsReported` |
| `BudgetsAreKept` | `Spec => []BudgetsHold` |
| `TheReserveIsKept` | `Spec => []ReserveIsKept` |
| `ArchivesAreTheBest` | `Spec => []ArchivesHoldTheBest` |
| `EveryEvaluationIsAccounted` | `Spec => []EvaluationsAccounted` |
| `TheReasonIsTrue` | `Spec => []ReasonIsTrue` |
| `ProcessedMeansEvaluated` | `Spec => []FiniteMeansAll` |
| `JobsHaveNoSay` | `Spec => []IndependentOfJobs` |
| `VerificationFollowsTheRanking` | `Spec => []ChecksFollowRanking` |
| `VisibleStaysWhole`, `ResultsAreTrue`, `StagingIsRemoved`, `NothingIsReplaced` | the four guarantees of publication |
| `AcceptedBundlesFit` | `Spec => []AcceptedNeverCollides` |
| `ImplementsOnce` | publication implements `PublishOnce` |
| `HistoriesAreSound` | `Spec => []HistoryIsSound` |
| `DependentsExact` | `Spec => []DependentsAreExact` |
| `SizesExact` | `Spec => []SizesAreExact` |
| `EverythingLoads` | no artifact and no registry held is one that loading refuses |
| `OwnWorkIsAccepted` | `Spec => []OwnWorkSucceeds` |
| `LineageKept` | `Spec => []LineageIsKept` |
| `NamesKept` | `Spec => []NamesAreKept` |
| `TransactionsAreMet` | `Spec => []RequestsAreMet` |
| `RetriesGoThrough` | `Spec => []RetryGoesThrough`, the part of `RetryFindsTheSame` without ENABLED |
| `ReportMeans` | `Spec => []ReportIsMeaning` |
| `SchedulesAreSound` | `Spec => []ReadsAreScheduled` |
| `PrefixIsKept` | `Spec => []PrefixNeverChanges` |
| `CyclesRefused` | `Spec => []CyclesAreRefused` |
| `WorkerIsGone` | `ExtractionSpec => []NothingLeftRunning` |
| `OnlyFinalArtifacts` | `ExtractionSpec => AdmittedIsFinal` |
| `CatalogReportIsTrue` | `Spec => []ReportIsTrue` |
| `EnumerationsAndProposals` | `SpaceSpec => []AnswersAreSound` |

**Supervisor.** `CleanupInv` ties the process and the threads to the place of the
calling thread: a pid exists from the spawn on, `reaped` implies collected, and at
`close` no thread runs.  That gives `ScratchIsSafe`.  It says nothing of what was
written, so `SnapshotIsEarned` needs `ExchangeInv`: what has been read of stdout
determines the stage of its thread (`ReadInv`); every event in the channel is true
of its sender, a `Finished` of a drained and closed stream (`QueueInv`); what
`exchange` remembers was true when heard (`HeardInv`) and stays true, since a
drained stream of a closed pipe stays drained (`Monotone`, `StaysDrained`); a status
held is the worker's (`StatusInv`).  The refinement adds `PhaseInv`, that an outcome
exists exactly from the cleanup on.  `RetainInv` says what is kept of stderr as a
function of what was read; with everything drained that is all that was written.
`ReportInv` says that a failure of the cleanup is noted only in a call that fails, so what
is left behind is reported and no first failure is replaced (`ResultKept`); its part
`Dropped` says of the one directory that is not reported that its call ended with the path
error, before anything was started and with no cleanup to fail.

*The program's own worker.* Each of its steps is a step of the arbitrary worker
(`OwnWorker`), so all of this holds of the two together (`WorkerImplements`).  What they
agree on needs more.  `ProgressInv`: the place of the worker decides what it has written
and read.  `QuietInv` and `OpenInv`: while the exchange goes on nobody kills it and its
request is not cut short, so it exits with an answer or as one that broke.  `TurnInv`: in the
channel the answer comes before the end of stdout, and a failure only from a worker that
broke.  So no end of an exchange is a breach of the protocol (`Ends`), and the cleanup
adds nothing (`SettledInv`).

**Search.** `CountInv` counts one evaluation in hand for every slot not yet
collected, so that counters stay below their budgets with a batch half done.
`TriedInv` bounds the candidates tried by the evaluations counted plus the slots
spent and not yet counted.  The archives need an argument of their own: the ranking
is a strict total order on assessed candidates, and keeping the n best after each
insertion yields the n best of everything inserted (`TruncationIsHarmless`,
`PushAndTruncate`); cutting again to a smaller size at the end is the same as having
kept that size (`TruncateTwice`).  `Held` states it for a batch half collected:
what was judged but not yet collected is what the later slots hold, since all jobs
were joined first (`Joined`).

`QueueInv` follows a candidate from the domain to its job: what waits is legal, seen, in
order and not tried, and what was tried in a batch is what its jobs began.  `AccountInv`
counts: every candidate tried is counted as late, failed, unavailable or assessed, or is
in the batch, `Spent` or `Awaited`.  `CoverInv` is the converse of `QueueInv`: without a
stop every legal candidate seen is taken or waits, and a batch that was cut has used up
the evaluations.  That decides what the reasons claim; `ReasonInv` says that a reason is
true when it is set, and `Verification` that nothing is taken back.  `FiniteInv`: a finite
list is screened in one round and taken in order, so what is evaluated is its first
legal candidates (`FirstOnes`), of which there are as many as the budget allows, whatever
the jobs do.  `CheckInv`: the i-th check is of the i-th in the ranking, and places are
unique (`Places`).

**Publication.** `Private`: under p's staging name there is p's work and nobody
else's while p works.  `Staged`: the entries before `at[p]` are finished, the one being
written is as far as `pc` says, the rest is empty.  So at the rename the artifact is
whole, and the rename is one step (`Shown`, `Told`).  `AcceptedBundlesFit` is the
argument for `validate_bundle`: names unique up to ASCII case and portable have
distinct slots on every host (`SlotsAreDistinct`), so no exclusive creation can
collide.

**Identity registry.** `History`: what a tool holds, what it loaded and every artifact
is `Sound`, and each pair of the lineage is in succession.  `AppendKeeps` and
`RetireKeeps` are about registries as values (`RegistrySnapshotProofs`, shared with the names): each operation
keeps one sound, makes a successor of it and changes the active slots of one owner by one.  Retiring an owner
needs the count to be exact (`DependentsAreExact`): a count of zero is an empty set
of active slots, so no slot is left below the tombstone.  Sizes need the sum over the
entries after an entry is appended or changed (`EntryBytesUpTo`, and its lemmas in
`RegistrySnapshotProofs`); with it the bytes kept edit by edit are those a reader
adds up (`SizesExact`), the last thing needed for loading to accept all that was made
(`EverythingLoads`).  Succession is transitive
(`SuccessionIsOrder`), which is why checks of neighbours suffice.  In sound registries
the revision is entries plus tombstones and both only grow, so equal revisions mean
equal registries (`SuccessorKeeps`).

**Names.** `LInv`: every ledger held or published is a sound registry with names for
identities it knows (`Ledgers`), and a transaction half done has grown from `base` by what
the requests staged so far asked for (`Progress`).  A request once met stays met while
later ones are staged, because staging only adds (`MetStays`, `StageAdvances`); a new
identity is above all that names refer to, so no other name has it (`Issues`).  A
retirement keeps names.  Of a directory put together from two checkpoints only what
equals the receipt is loaded, so the ledger loaded *is* the receipt's (`LoadKeeps`), and
continuation is transitive (`ContinuesIsOrder`).  For retries, `RetrySound`: a checkpoint that was
published holds what it was asked for, the owners of slots included (an active slot has
an active owner, `MetIsHeld`), so asking again reuses every name and changes nothing
(`HeldIsReused`, which also shows that the step is one of the specification).
`RetryGoesThrough` states the guards of `Stage` and `Finish` as predicates of the state;
that one of the requests left is the least, and so ENABLED itself, stays with TLC.

**Effect plan.** `OrderSound`: every node in the order has its dependencies before it.
`PrefixSound`: the prefix is the nodes of the early stages, and stages do not decrease
along reads, so it is closed under dependencies; an extension keeps it so.
`ScratchSound`: while an attempt runs, the values are of this plan and this graph, and
those computed are exactly the scheduled nodes no longer in `todo`.  Together a node
that runs has all it reads (`DependenciesComputed`).

*Circles.* The first of a circle in an order would have a dependency behind it
(`OrderedIsAcyclic`).  For the other half, all dependencies of a bound node are nodes
(`GraphInv`, `AddedInv`, by way of `PlanShape`), so when none is ready each node without a
place reads another such one: those nodes are the circle (`OrderedGraph`, `CycleInv`).

*The prefix.* What late nodes write is among the potential deliveries or is the
applicability of an application (`LateWrites`); what is not touched by either keeps its
producer, its parts and its selector (`SameProducer`, `SameParts`, `SameSelector`), so a
node admitted is bound as it was (`SameNode`), provided each of its reads was looked at
(`AdmittedInv`, `RefusalInv`).

*Meaning.* Each loop is shown to compute the definition of its reduction on the set of
its members (`SumIsItsMeaning`, `ExactIsItsMeaning`, `AnyIsItsMeaning`,
`SelectionIsItsMeaning`, `MaximumIsItsMeaning`, `GatesAreTheirMeaning`), so a node computes what it
means on values that agree where it reads (`NodesAgree`).  `ValueInv`: from its first
value to its report the scratch is consistent, each value being what its node means by
the others; a value added changes none that was there (`ValuesGrow`), and neither does
binding the prefix again.  Consistent values of all nodes of an ordered graph are the fixed
point: each round of `Rounds` settles the next node of the order, and there are as many
rounds as nodes (`ConsistentIsMeaning`).

**Extraction.** `CallerSound` says what the caller's step knows of the process: from `stop`
on a path either has it collected or leads through a kill; from `read` on it is
collected, so nobody writes any more (`OutcomeSound`, `AdmitStep`).

**Catalog search.** `ReportIsTrue` is about a file, and by the time the file can be read
the locks, the jobs and the batches are gone; so what it
says does not follow from what it said a step before.  `ReportInv` has one part for each step of the way.  `OneBackend`: at
most one identity is recorded, and a job that has passed the first lock carries it, as do the ranked.
`JobsSound`: the jobs in hand are of a batch taken from the untried, or of the finalist, of
whom there is one (`OneFinalist`: quality and name decide), so no alternative is evaluated
by two jobs.
`CountsSound` counts the passes through the second lock by where the job is: none before,
one after, two after the check.  So a check that agrees is of the recorded backend and of the
second success (`CheckSound`).  `FilesSound`: from the composition on, the report is that of
the final state, which no later step changes, and the only document that can be there is the
best one's, at the path that was asked for.  The steps of a job are proved once, for the
search and for the check (`EvaluationInv`, `WhileJobsRun`), and the writes by what the report
says already.

**Discrete space.** `size` multiplies the axes that are not fixed and stops at the first product
that is too large; the model folds them in an unspecified order with a value for "too
large" that absorbs.  `ProductOfBox`: the fold is the number of choices on those axes, or
that value.  It goes by taking axes away one by one, as the fold does (`TakingAway`): the
choices on a set of axes are pairs of a choice on one and a choice on the others
(`BoxGrows`), and to saturate on the way is to saturate at the end (`SaturatedStep`).
Fixed axes add nothing (`PointsAreTheBox`), so a refusal for the limit means that there are
more points than the limit, overflow or not (`ProductIsTheNumberOfPoints`); a space refused
for want of room has nothing listed, and one that is listed has no more points than can be reserved.  The odometer: `Below(p)` is
what lies before p in lexical order; nothing lies before `First` (`FirstIsFirst`), the
point after p has before it what p has, and p (`FollowingIsNext`, by the greatest axis that can go up),
and a point on which no axis can has everything else before it (`LastIsLast`).  `ListSound`
then is that what is listed is `Below(current)`, in order, and that list and rest are
together as many as the points; at the end of the count nothing can be missing
(`ListedOnce`).  `ProposalsSound` says of every attempt that its point is in the space and
at the radius (`MovedAreNear`: a draw that skips the old choice names another one,
`OtherIsAnother`) and that with one parent and without a restart an attempt cannot fail
(`TryProposes`).

**Induction.** The induction theorems of the library take an operator as a parameter,
which the provers here cannot instantiate.  The proofs use its first-order form: a set
of numbers that holds 0 and with each n below N the next holds all up to N, since of the
others there would be a least one (`CountingUp`, from well-foundedness).  A recursive function on
0..N exists because an iteration that stays in a set does (`Iteration`).  With these two
the loops of `EffectPlan` and the sums of `RegistrySnapshot` are within reach.  For the fold of
`DiscreteSpace`, over a set in the order of a CHOOSE, the same is done on finite subsets ordered by
inclusion (`TakingAway`), and the recursive function needs no construction: the saturated number of choices
satisfies its equation, so the function that the fold chooses satisfies it too.

**Only checked by TLC:** liveness (`EveryCallReturns`, `NoPipeDeadlock`,
`EverySearchEnds`, `Publishes`, `CallReturns`) and `RetryFindsTheSame` in so far as it says that
a step is possible.  Fairness and that property need ENABLED, which is out of the prover's
reach.  Every other property of a run is a theorem.

## 6. Abstractions

* A line on stdout is one of seven kinds, told apart by what the two validators make
  of it.  Limits on bytes appear as the kind `long` and as the retention of stderr in
  chunks; the text of errors is left out, their kind is kept.
* A candidate of the search is its deduplication key, and a quality stands for what
  domain, evaluator and policy make of it.  `same_assessment`, on the second
  evaluation of a finalist, is a choice between same and different.  Beam parents and
  seeds go to the domain, whose proposals are arbitrary within its limit; samples of
  error messages are left out.  Two branches of the code are kept although no search
  reaches them: the proposal budget during screening and the round budget at the head
  of a round, since the end of the round before has already asked.
* The random name under which publisher p stages is p.  Exclusive creation retries
  until it finds a free name, so two publishers never share one.  Removal of a staging
  name is taken to succeed; a failing removal leaves what a crash leaves.  Sudden power
  loss is outside what the code promises, and so is a host without a rename that
  replaces nothing, where publishing a directory is refused.
* An identity of the registry is its number, since its key is computed from it.  One
  namespace and one version are assumed and the entries of a file are in the order the
  constructor sorts them into; registries that differ in either are refused.  The
  size of an entry depends on its state and the size of the rest is a constant: the
  digits by which numbers grow are left out.  `max_entries` stands for the smaller of
  two limits on the number of entries.  Whether the predecessor is the stored one is
  for the host to check, as the code says (registry_snapshot.rs:131-132), so artifacts
  may branch.
* In `NameLedger` a digest is what it digests, names are numbers in the order of their
  spellings, and the build command's definitions are one case of what a host may ask for.
  Byte limits of snapshots, which make a transaction fail late, are part of `Abandon`:
  a failure may come at any point and leaves nothing.
* In `EffectPlan` a stage is a number.  The code's stages are ordered only as their
  declared predecessors say (data/src/owned_stages.rs:437-472), and a dependency between
  two stages that are not ordered is refused (owned_plan/supports.rs:384-393).  Every such
  order extends to one of numbers in which the stages up to preparation come first, and
  numbers compare any two stages; so the model refuses fewer plans and has the runs
  of all that the code accepts.  A value is an integer or a Boolean, reads nest one level, as the compiler makes them, and a
  selection exists in the plan for every query of it (`PlanShape`).  Values outside
  the schema of an effect (`UnsupportedValue`) are left out.  The nodes of one program
  share its reads, as in the code, and a node depends on those it reaches.  What a report shows of the final values of an
  incomplete plan is masked by the code (`final_value`); the property is about the rows.
  The programs are those of MCEffectPlan's operations, each with one shape of demand:
  all in order, one after another, one of two.
* In `ExtractionWorker` sizes are counted in writes; both files of the code's scratch have
  the same limit and the artifact stands for them.  Decoding fails at will, and always
  on an artifact that is not whole.
* In `DiscreteSpace` the generator is any sequence of draws within their bounds, which
  is more than its seeds can give.  Whether room for the points can be reserved is a
  choice; the copies of points made while listing allocate too, and there a failure
  aborts the process (discrete.rs:139).  In `CatalogSearch` an assessment is a number with a
  feasible part; the backend is any program at every call.
* Bounds of TLC only: `MaxLines` and `MaxStderr` limit the arbitrary worker, and
  the chosen `Batches` what a domain proposes; `MaxPublished` and `MaxBuilt` limit
  artifacts and checkpoints.  The theorems have no bound on the
  data but that the bounds are natural numbers.

## 7. What is not modelled

PROJECT.json lists each component with a reason.  The map covers a small share of the
repository's lines, and that will stay so: most of the lines are the evidence drivers
under `data/`, the import of documents item by item, rule compilers, the calculation
engine, data packages, the authoring language and contracts.  These are functions of values: they
have no state that steps of two actors can disturb, they compute with floating-point
numbers and text, and the repository compares them with a reference by evidence of its
own.  A model of them would repeat them.  The Lua side runs other people's programs.
The other commands parse arguments, call one function and publish.  Build identities
are a checked counter with a single owner.

Left out of components that are modelled in part:

* effect plans: the compilation of rules to nodes, generated inputs, products, modifier
  transforms, source properties, and the readiness of outputs;
* names: the files of source names and the check of their aliases, the refusal of a
  stale predecessor, the assembly of a release;
* the catalog command: the loading of the catalog, and the warnings, which are appended
  under a lock of their own;
* the worker process: the commands of `main.rs` other than `__worker`.

The one hazard without a property is in PROJECT.json with its reason (`ReapedChild::stop`
after a status query that failed).

## 8. Plan

What was planned first is built: supervision, search, publication, the registry, and
above them names, effect plans, extraction, the catalog command and the discrete space.
In the order of what each adds, there is left:

1. Products and generated inputs in `EffectPlan`.
2. The assembly of a release from checkpoints, on top of `NameLedger`.
3. The loading of a catalog, in front of `CatalogSearch`.
