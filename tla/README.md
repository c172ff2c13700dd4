# Document Optimizer: a TLA+ verification development

Document Optimizer turns construction reports (KS-2, KS-6a, SVVR workbooks and
their PDFs) into drawing cards and reconciled target workbooks. It is a Python
package, `src/src/report_processor`, used through a command line and through a
private local web service (Starlette). This directory models two kinds of code:
the stores, jobs and engines in which state outlives a call, where a crash, a
raising write, a second thread or a second process can do something to an
operator's work; and the algorithms that decide which rows are summed, grouped,
matched and written. TLC checks the models on small instances. TLAPS proves the
safety of nearly all of the stateful ones for every instance, and what six of the
algorithms promise for every input.

    tlc -workers 2 -config JobCalm.cfg MCDrawingCardJob      # any run of the table in section 4
    tlapm StoreProofs.tla                                    # any of the proofs of section 5

## 1. Inventory

### 1.1 How the program runs

`admin_panel/app.py:106-110` builds three services: `AdminPanelService`
(reconciliation jobs), `DrawingCardService(background=True)` and
`PackageReconciliationService`. Handlers are `async` but call the services
synchronously, so every API call runs to its end on the event-loop thread; only
the creation of a package job goes to a thread pool (`app.py:160-162`).
Drawing-card runs started by a create, a retry or a restart happen on daemon
threads behind a semaphore of `max_background_workers = 2` slots; an apply of a
review runs on the event-loop thread. Nothing orders a daemon thread against the
event loop except `_jobs_lock`, and that lock is not held while a manifest is
written. Files are replaced atomically (temporary file, fsync, `os.replace`);
SQLite transactions commit or roll back; there is no transaction across the two.
The processing engine runs from the command line: every attempt is a process of
its own and shares inputs, journal, output names and cache with the others.

### 1.2 Components with state

| component | state it keeps | operations | what is hard | what makes it correct | modules |
|---|---|---|---|---|---|
| drawing-card job (`drawing_card_service.py`) | a `DrawingCardJob` record, `job-manifest.json`, workbooks under `attempts/NNNN`, a cancel event, worker slots | create, cancel, retry, decide, apply, run, restart | documents built from memory and written later without a lock; checks of the event and of the inputs separated from what they protect; a restart that rewrites the manifest it reads | one run at a time, a fresh directory for every attempt, confirmed cancellations and decisions that survive, a job that comes to rest | `DrawingCardJob` |
| creation and retention of drawing-card jobs (`create_job`, `load_all`, pruning) | `_jobs`, manifests, idempotency keys, reservations with their events | ask, wait, reserve, launch, roll back, retry, prune, restart | a key is published before its job is durable; a job may be rolled back or pruned under those who wait for it; pruning takes no lock, lists first and pops later, and tests a key before it pops it | one job for a key, answers that fit the content, no active job dropped but one that was retried while listed | `CardIntake` |
| review of a drawing card (`drawing_card/review/`, `inline.py`) | page, inline approvals, fanouts, epochs | decide a row or packet, undo, apply | two reviewers of one page, two cards on one ledger | an undo takes nobody's decision, a page is applied once | `CardReview` |
| drawing-card feedback ledger (`feedback.py`) | an append-only page behind a file lock | append, look up, invalidate | concurrent appends, duplicates, invalidation of the newest | every confirmed record is kept once and the newest valid one answers | `CardReview` |
| active-learning shadow store | one file of autosave and undo | load, apply, undo | answers posted twice, late, or for a queue that was rebuilt | no answer lost unseen, none shown under another queue | `ActiveLearning` |
| reconciliation job (`service.py`) | `self.jobs`, manifest, autosave, `result.xlsx`, per-job lock | create, run, decide, apply, restart, prune | plan, transaction and publication in three stores; replay after a crash | decisions enter the shared feedback at most once, below a durable plan, and only what was entered is published | `ReconciliationApply`, `ExactlyOnceApply`, `JobManifest`, `ReviewRecording` |
| feedback store (`reconciliation_feedback_store.py`) | two SQLite tables | records, commit_apply | idempotence by apply key, validation inside the transaction | a replay changes nothing, a conflicting one is refused | `ReconciliationApply` |
| review state (`reconciliation_state.py`, `reconciliation_batch_store.py`, `reconciliation_review/`) | four decision maps, versions, one undo, an autosave | put/delete at four levels, accept safe packages, undo, restore | precedences computed twice (page, calculation); every version digests every decision | calculation agrees with page, restarts keep decisions, mass acceptance overwrites nothing | `ReconciliationReview` |
| processing engine with audit journal, export and result cache (`processing/engine.py`, `audit/`) | a hash chain in SQLite, published workbooks, cached answers | start, stages, publish, verify, resume | stores that commit one after the other; two processes on one output name; a journal restored from a copy | a success is borne out by a verified run over the inputs it names | `ProcessingRun` |
| pattern registry (`reconciliation_patterns/`) | histories of patterns, feedback edges, plans in SQLite | register, transition, supersede, roll back, store | plans built away from the store and stored later, perhaps twice | stored histories only grow and can be loaded | `PatternRegistry` |
| writing of a report (`excel_writer/engine.py`, `ooxml.py`, `formula_materialization.py`) | the report, the files under the output names, a private copy and a temporary package | snapshot, plan, rewrite, recalculate, compare, link, verify, remove | the report is edited and output names are taken meanwhile; a call may fail after the link, and again while it is taken back | what is published is whole and what was ordered, a writer that failed has left nothing, no file of others is touched | `TargetWriting` |
| package reconciliation service | in-memory jobs, uploaded files | create, read | nothing is shared between jobs | an upload is stored whole or not at all | `PackageRun` |
| DuckDB storage, Qdrant index | analytics rows; collections | save, query; publish, switch | idempotent re-save; readers while publishing | not modelled | |

### 1.3 Algorithms

Each is a function of its inputs; the models keep its control (every branch,
early return, error and the order they are tried in) and abstract texts to what
the code asks of them.

| module | code | decides |
|---|---|---|
| `RowReconciling` | `matching/engine.py`, `processing/reconciliation.py`, `calculation/engine.py`, `quality_control` | which source rows count for a row of the report, their sums, whether it may be written |
| `ReviewPackages` | `reconciliation_review/grouping.py`, `reconciliation_grouping/packages.py` | groups, families and the packages that may be accepted with one click |
| `DecisionPackages` | `reconciliation_grouping/clustering.py`, `optimizer.py` | the smallest partition in which every pair is attested |
| `ReviewApplication` | `reconciliation_identity.py`, `reconciliation_execution.py`, `reconciliation_verification.py` | documents bound to the report, decisions turned into cells, the comparison of a report with documents |
| `SheetSchema` | `schema/` | the kind of a sheet, the role of its columns, the bounds of its table |
| `WorkbookSources`, `TargetReport` | `reconciliation_sources.py`, `reconciliation_target.py` | which rows of uploads and report are read |
| `TargetMeasures`, `PeriodInsertion` | `reconciliation_target_measure.py`, `excel_writer/period_insertion.py` | the pair of columns of a period; how two columns are inserted and everything that refers to columns follows |
| `CorpusPatterns`, `PromotionGate`, `HybridRanking` | `reconciliation_patterns/` | mining of patterns, replay and acceptance before activation, ranking of suggestions |
| `SourceSelection`, `CardSources`, `CardMatching`, `CardWorkbook` | `drawing_card/` | files, columns and rows of a card, the category of a row, the sums and the merge into an existing card |
| `PackageFacts`, `PackageRun` | `package_reconciliation/` | facts of workbooks and acts, which act confirms which row |
| `JobManifest`, `ReviewRecording` | `service.py`, `review_presentation.py` | what a restart takes back of a job; what a review shows, records and serves |

### 1.4 How they interact

The web application calls the services; a service writes its job's manifest
through the private job store and asks the workflow of its kind to run. Jobs of
one service meet in three places: the idempotency map and retention of drawing
cards (`CardIntake`), the feedback ledger of drawing cards (`CardReview`), and the
SQLite feedback of reconciliation (`ReconciliationApply`). Processes of the
engine meet in the journal, the output names and the cache (`ProcessingRun`);
writers of reports, theirs and those of the web application, meet in the output
names and share the report with whoever edits it (`TargetWriting`).
The algorithms are called by these and keep nothing.

`PROJECT.json` lists every component with what is modelled of it, and the
hazards, each at the line where it bites, with the properties that would catch
it.

## 2. Plan

Done: drawing-card job; reconciliation job with its refinement and its review;
creation, retention and review of drawing cards, the two feedback ledgers;
processing engine with journal and cache; pattern registry; the writing of a
report; the algorithms of 1.3; and the proofs of section 5, those of the stores,
jobs and engines first and then the laws of six algorithms.

Left, in this order:

1. the laws of `ReviewRecording` and `ReviewApplication` (what a review records, serves
   and applies), proved as those of section 5.7 are;
2. the records of patterns and their validation (`pattern_models.py`), the plan of
   writes of the engine (`processing/engine.py:275-361`);
3. storage: the idempotent save of a run in DuckDB.

## 3. Modules

A `...Constants` operator or assumption in a module says what its constants may
be; a module that ends in `Proofs`, or is named in section 5, holds theorems; `MC`
modules give the constants of a run. Operators whose comment begins with "Bug" or
"Mutant" stand just before the definition they spoil; no specification uses them.
Each is listed in `PROJECT.json` and makes TLC refute the property it is listed
with, so every property of every run is known to fail for some plausible bug.
Many modules also state properties that no run checks because the code does not
satisfy them: section 4.3 says which and what TLC shows.

### 3.1 `DrawingCardJob`

One job with its record (`job`), manifest (`disk`), workbooks (`files`), cancel
events (`raised`; the record names the current one in `job.ev`), slots
(`freeSlots`) and, for each thread, a control point and its locals (`pc`, `loc`).
`promise` is history: what the API has acknowledged.

* `_persist_job` is two steps. `Save` builds the document from memory, `Commit`
  replaces the file; another thread may run in between. That split carries most
  of the hazards of this component.
* `_run` (`drawing_card_service.py:853-1072`) is `CheckInputs`, `CheckCancel`,
  `CheckPassed`, `Begin`, `Launch`, `RunnerWrites`, `Progress`, `RunnerReturns` /
  `RunnerCancelled` / `RunnerRaises`, `AfterRun...`, `Publish...`. What the runner
  answers is open, except that an outcome with a workbook has written it.
* The callers of `_run` end in `Leave`, `LeaveApply` or, for the recovery of a
  review, `LeaveRecovery`, which puts the saved decisions back.
* A write that fails takes the `except` clause of its caller: `CreateFails`,
  `RetryFails`, `TransitionFails`, `ProgressFails`, `PutFails`, `RestoreFails`,
  `WriteRaises`.
* `_restore_jobs` and `_job_from_manifest` are `Restorable` and the `Restore...`
  actions, by the status and the cancel flag the manifest holds.

Abstractions: the decisions on a page are one Boolean, "the whole page is
decided" (`CardReview` has them one by one); an attempt reports progress at most
once; an unsafe workspace counts as failed; a failing write leaves the old
manifest (a failure after `os.replace` is not modelled). `Patient` is an
assumption about clients, named because the code does not enforce it: a client
acts on a published status only when the worker that published it has finished
writing. The page polls every few seconds, so it usually holds.

### 3.2 `ExactlyOnceApply` and `ReconciliationApply`

`ExactlyOnceApply` is the promise: a ledger and what each job has published;
`Enter` puts a job's decisions into the ledger once, `Publish` publishes what was
entered.

`ReconciliationApply` is `AdminPanelService` for jobs on one target: memory,
manifest, autosave, workbook and the two SQLite tables.

* `create_job` and `run`: `CreateJob`, `Prepared`, `PrepareFailed`, `CreateFails`;
  finished jobs beyond `Retained` are forgotten (`Prunable`).
* every mutator of the review: `Decide`; memory first, the autosave may raise.
* `apply_reconciliation` (`service.py:300-398`): `ApplyBegin`, `ApplyWrite` or
  `ApplyAborts`, `ApplyPlan`, `ApplyCommit` or `CommitFails`, `ApplyPublish`.
* `commit_apply` with its key, payload conflict and validator: `CommitApply`.
* `__init__` and `get_job`: `Start`, `RecoverReview`, `RecoverReady`,
  `RecoverInterrupted`, `Replay` with `Settle`, `Skip`, `Serve`.
* `Crash` at any point; `Tamper` changes uploads or the output workbook.

Abstractions: the decisions of a review are one `Choice`; a workbook and its
digest are the choice it was written from; the apply key is the job with its
choice, because the plan binds the job; `pending` and `running` are one status;
which finished job is pruned is left open; the snapshot of the inputs taken for an
apply is part of `ApplyWrite`. Only the operation `reconcile` with an authoritative
review is modelled. The per-job lock lets operations of different jobs interleave
at every step, which includes every order the event loop allows. The refinement
(`ExactlyOnce`) maps the ledger to the feedback table and a job's result to the
digest of a ready manifest.

### 3.3 `ReconciliationReview`

The four decision maps in one record `decided`, the version stamped on each group
and row decision, one undo, the autosave, and the feedback by name. `Change` is
what every mutator does: remember, change, stamp anew (`_refresh_decision_versions`),
autosave. `Resolved`, `Shown` are what the page shows; `Overrides` is what
`core_decisions` and `apply_overrides` hand to the calculation; `FromFeedback` is
`_restore_feedback`, `Remembered` is `_feedback_records` with `latest_feedback`.
A version is the set of decisions it digests, so `restore` can be modelled by what
it compares. A client with a stale group or row version is refused and changes
nothing; package and family versions do not depend on decisions and never refuse.
`byHand` and `applied` are history variables, for properties only.

### 3.4 The stores and the writer: `CardIntake`, `CardReview`, `ActiveLearning`, `PatternRegistry`, `TargetWriting`

* `CardIntake`: a caller of `create_job` finds its key taken, reserved or free
  (`Ask`), waits on the reservation's event (`Wake`), makes the directory and
  writes the sources (`MakeDirectoryFails`, `WriteSourcesFails`), publishes and
  persists the job (`PublishSaved`, `PublishFails`), starts the worker (`Launch`,
  `LaunchFails`), and takes its job back when anything inside the `try` raised
  (`Rollback`). Every block under the service's lock is one step. What takes no
  lock moves one access at a time: a worker changes its record and writes the
  manifest later (`WorkerSets`, `WorkerSaves`); `retry_job` looks at the status,
  queues the record and persists it (`RetryFinds`, `RetryQueues`, `RetrySaved`,
  `RetryFails`); `_prune_terminal_jobs` lists the finished jobs and then, for each,
  pops the record, tests the key, pops the key and deletes the manifest
  (`ListTerminal`, `PopRecord`, `TestKey`, `PopKey`, `DeleteManifest`), in each of
  several threads (`Pruner`: the workers, and the event loop after an apply or a
  restart). `table` says which records can be found in `_jobs`; `jobs` keeps a
  record for as long as a thread may hold it. `RestoreJobs` is `load_all` with its
  bounds, its order and what it deletes. `robbed` and `overtaken` are history: the
  keys whose entry was popped for another job than the one it named, and the jobs
  that were retried while a thread had them listed as finished. A listed job is
  pruned in any order where the code goes by age; a dictionary that changes while it
  is listed raises and ends the pruning of that thread, which is a thread that stops.
* `CardReview`: what a client saw of a page is part of its state, because every
  request echoes it (`cluster_id`, epoch). `PutItem`, `ConfirmItem`, `PutCluster` and
  `UndoCluster` change memory under the review lock of the card. Only packets
  that are eligible (`PacketEligible`: complete and without hazard) are fanned out to
  the ledger. Reading the packets also saves the manifest, with counters of what
  was opened that no operation reads: `ListClusters` is that request without them.
  An apply is
  `ApplyAsk`, `ApplyClaim`, `LockLedger`, `ReplaceLedger`, then `ApplyFails` or
  `ApplyRuns` and, when the run ends, `RunReady` or `RunReviews`, with the lock of
  the ledger as a file lock between cards. `Recover` is a restart that builds the
  page anew and restores what still fits it; `Invalidate` puts an event of the
  ledger out of force.
* `ActiveLearning`: annotators hold the revision of the queue and the autosave
  last shown to them; `Apply` and `Undo` name both and are refused when the file
  has moved on; `Rebuild` changes the queue; an answer of the store may be lost.
  `trail` is history: the contents the file has had.
* `PatternRegistry`: a history is a sequence of entries (record, event) and an
  entry stands for the chain below it. Operators load a
  history and revise it away from the store (`Draft`, `Extend`), or plan a rollback,
  a supersession or an edge (`PlanRollback`, `PlanSupersession`, `Judge`), and store
  it later, perhaps twice (`AppendHistory`, `ApplyPlan`, `AppendEdge`); what no longer
  fits is given up (`Refuse`). Edges that contradict each other revise both patterns
  in the transaction that stores the second.

* `TargetWriting` is `write_target_report` (`excel_writer/engine.py:98-207`) as run by
  several processes: `BeginWriting` copies the report, `PlanWriting` checks every
  calculation, row, binding and cell (`PlanStands`), `WriteTemp` replaces the cells
  (`Replaced`), `Recalculate` puts values in the place of formulas (`Materialized`),
  `CompareSource` looks whether the report is still the copy, `LinkOutput`,
  `ConfirmLink` and `VerifyOutput` publish, `LookAtOutput` and `RemoveOutput` take a
  failed publication back. `WritingFails` is an exception of the operating system at
  any of these, `WriterDies` a kill, `EditSource` and `Meddle` are what others do to
  the report and to the output names. A package is its worksheet parts and their
  cells; a cell is its value, whether it is a formula, styled and numeric, and the
  shape of its XML. What LibreOffice computes is open; the private files of a writer
  are known to nobody else. `raced` is history: somebody was at the name since the
  writer looked.

`MCRequests` puts `CardIntake` beside `ReconciliationReview`, and `MCStores` the four
others side by side: they share no state, a behaviour runs one.

### 3.5 `ProcessingRun`

Attempts of every mode (`inspect`, `dry-run`, `write`; strict or not; fresh or a
resume) as processes. `Step` is the next of the engine's own steps, in their order:
snapshot of the inputs, the run opened in the journal under their digests, the
stages (which may raise), the quality gate, the publication by a hard link that
never replaces a file, the verification of the export, the cached answer, and a
resume that takes a cached answer back after comparing it with journal, inputs
and workbook. `EditInput` changes an input, `Crash` kills a process between any two
steps, `RollBack` puts an older copy of the journal back,
and `Fault` is an exception of the step a process is at. What the stages
compute is a constant, `Verdict`.

### 3.6 The algorithms

`MCAlgorithms` has one action for each of 34 calls: it picks an input from a bounded
set, computes what the code answers, and returns. A property says of the input and
answer of the last call what a reference definition says, or how the answers to two
inputs are related. The modules state these as operators; `RowsReconcile`,
`GroupsAreSafe`, ... are their conjunctions by area.

The calls are in three modules, each of which extends the one before: `MCCalls` has
the constants, the assumptions on them and the calls whose laws are proved,
`MCReviews` those of the package reconciliation and of the reviews, `MCAlgorithms` the
others and the run. `AlgorithmLaws` proves the laws of the modules that `MCCalls`
uses, and `AlgorithmProofs` carries them over to the properties of the run. What
repeats itself in the code is a fold or a recursive function here; no module
declares a `RECURSIVE` operator.

In `PROJECT.json` a helper whose lines lie inside those of the operation it serves may
have no row of its own: the row of the operation stands for it.

## 4. What is checked

### 4.1 Runs

| run | instance | distinct states | properties |
|---|---|---|---|
| `job_calm` | 2 workers, 2 slots, patient, no cancellation; 1 retry, 1 apply, 1 failed write, 1 crash, 1 change of inputs | 657,683 | `TypeOK`, `OneRun`, `FreshAttempt`, `ReadyIsDurable`, `CalmInv`, `AttemptMonotonic` |
| `job_restart` | as above without failed writes | 311,194 | `JobRecovered`, `ChoiceKept`, `DiskAgrees`: one crash anywhere loses neither the job nor a confirmed decision |
| `job_cancel` | patient, 2 cancellations, 1 apply, 1 crash | 154,500 | `CancelledIsClean` |
| `job_settles` | 1 slot, impatient, 1 cancellation, 1 retry, 1 crash, fair | 310,861 | `Settles`: a job in progress comes to rest |
| `apply_faults` | 2 jobs, 2 choices, 2 crashes, 1 fault, 1 tamper, 1 retained | 255,967 | `TypeOK`, `CommittedIsPlanned`, `ReadyIsCommitted`, `NeverReopened`, and the refinement `ExactlyOnce` |
| `apply_settles` | 2 jobs, 2 choices, 2 crashes, fair | 33,492 | `AutosavedPlanSettles` |
| `requests` | cards: 2 clients with 3 requests under 2 keys, 1 finished job retained, in three instances: 2 jobs, 2 pruning threads, a failure and a restart; 3 jobs and 2 pruning threads without them; 2 jobs made by 2 requests, a retry, one pruning thread at a time, a clock, a failure and a restart. Review: 3 rows, 2 groups, 2 families, 1 safe package; 3 edits, 1 failed autosave, a second review | 380,780 | `CreationIsIdempotent`, `RetentionStands`, `CalculatedAsShown`, `RestartKeepsDecisions`, `MassAcceptFillsOnly` |
| `processing_runs` | 2 processes, 2 output names, 2 versions of the inputs, 2 starts, 1 edit, 1 fault, 1 crash, 1 restored journal | 851,105 | `ConclusionsStand`, `PublicationStands`, `HistoryStands` |
| `stores` | three stores and the writer side by side: 3 reviewers of 2 cards; 2 annotators with 3 answers; 2 operators with 4 drafts and 5 revisions; 2 writers of one output name with 8 orders on 4 reports, 2 faults, 1 edit, 1 crash, 1 meddling | 283,987 | `ReviewStands`, `DecisionsLast`, `AnswersStand`, `NoAnswerLostUnseen`, `RegistryStands`, `RegistryGrows`, `WritesStand`, `OutputsAreSpared` |
| `algorithms` | each of 34 calls on every input of its bounded set | 368,793 | `RowsReconcile`, `GroupsAreSafe`, `SheetsAreRead`, `PeriodsInsert`, `PatternsStand`, `ReviewsStand`, `CardsStand` |
| `cancel_then_publish` | 2 workers, patient, 1 cancellation | until refuted | `CancelNeverPublishes`, violated |
| `retired_unreadable` | the registry with 6 revisions | until refuted | `HistoriesLoad`, violated |

**Why the bounds are enough.** Two workers are the code's limit, and a third thread
waits for a slot like a second one with `Slots = 1`. One retry, one apply and one
crash already give every pair of operations on every pair of threads; one failed
write can hit every write of every operation. Two reconciliation jobs are needed
because jobs meet only in the feedback table and in pruning, and two choices
because that is what tells "the same decisions" from "other ones"; two crashes let
recovery itself be interrupted. Three rows in two groups of different families are
the smallest set in which every level of the review has two members below and a
row whose group and name disagree. Two processes with two output names meet, and
miss each other, in journal, name and cache; one edit, one crash and one restored
journal can fall between any two of their steps, and two starts let a resume find
what an earlier attempt left. Two clients with three requests give an owner, a
waiter and a late repetition of one key with two contents. What goes wrong in
pruning needs two threads that prune one job and a third job under its key, or one
thread and a retry; the three instances hold each of these, and the two exceptions
of the properties (`robbed`, `overtaken`) do occur in them: checked without the
exception, TLC refutes both (4.3). In the stores, three reviewers give two on one card and one on the other; three posts give an answer,
its change and an undo; five revisions of two patterns give creation, activation,
suspension, a rollback and a contradiction. Two writers of one name race for it; the
orders and reports hold one case of each answer of the plan that a property tells
apart, the second fault can hit the removal after the first has hit the
verification, and the meddling can fall between any two steps. The algorithms are called on every
input of sets of two or three rows, columns, names and measures, chosen so that
every branch of the code and every error answer occurs. What the bounds leave out
for the modules with proofs is covered by section 5, whose theorems have no bound.

**Symmetry** is used for safety only: among threads that run the same program, among
processes, and among jobs and choices nothing tells apart. In `requests` the clients are alike, and so are the threads that prune. In `stores` two
reviewers of one card, two operators and two writers are alike; only one store moves,
so the permutation that exchanges all three pairs at once maps behaviours to behaviours.

**Deadlock** is not checked: a service whose callers have used up their bounded
calls, and a process that has answered, have nothing left to do.

**Fairness.** `job_settles` and `apply_settles` assume only that a thread of a live
process keeps running, that a runner returns, and that a crashed service is
started again and its constructor runs to the end. Clients, look-ups, faults and
crashes owe nothing; crashes and faults are bounded by their constants.

### 4.2 Findings

The two violation runs, with the lines they contradict, are the findings of
`PROJECT.json`:

1. `cancel_then_publish`: a cancellation accepted after the last look at the event
   still ends in a published card (`drawing_card_service.py:934` against 1030-1068).
2. `retired_unreadable`: a pattern that was rolled back and is then retired or
   superseded is stored with a history that `load_history` refuses from then on
   (`reconciliation_patterns/pattern_persistence.py:738`).

### 4.3 Behaviours outside the instances of the passing runs

The modules state more than the runs check. What follows is defined next to the
code it is about and refuted by TLC when it is checked with the constants named
here, or with those of the run that uses the module. The properties of section 4.1
are stated so that they say what the code does keep.

| property | where | what TLC shows |
|---|---|---|
| `OneRun` | `job_cancel` with a retry | a retry after cancelling a queued job replaces the cancel event before the old worker has looked at it: two workers run the job |
| `FreshAttempt` | `job_cancel` with `Patient = FALSE`, `MaxRetries = 1` | a cancellation's older document rolls the durable attempt back; the retry after a restart opens the old directory |
| `CancelSurvivesRestart` | `job_cancel` | a worker's older document drops the durable cancel flag |
| `ChoiceKept` | `job_restart` with `MaxCrashes = 2` | the saved decisions of a review under recovery exist only in its worker; a second crash loses them |
| `ChoiceKept` | `job_restart` with `Patient = FALSE` | a decision saved while the worker's own last write is in flight is overwritten by it |
| `JobRecovered` | `job_restart` with `MaxCrashes = 2` | a restart writes a review back as `queued` with its review path; a second restart rejects that manifest |
| `JobRecovered` | `job_restart` with `MaxFaults = 1` | an apply whose transition is not saved leaves a review path that the next decision makes durable and the next restart rejects |
| `PlanSettles` | `apply_settles` | a durable plan whose decisions came from feedback, so nothing was autosaved, is refused for ever once another job has committed |
| `GroupDecisionReaches`, `VerdictsReturn` | `ReconciliationReview` | verdicts restored from feedback count as row decisions: a decision on the group does not reach them, and the verdict on a row that bears its group's name decides the group in the next review |
| `AcceptedQuantityCounts` | `ReviewApplication` | an accepted row may count for nothing (`calculation/engine.py:316`) |
| `VerificationReplays` | `ReviewApplication` | the numeric verification calls the matching without identities: every verification with an accepted row ends `VERIFICATION_CALCULATION_UNAVAILABLE` (`reconciliation_numeric_verification.py:76`) |
| `OneFitPerTarget`, `BlockedStaysBlocked`, `FailureIsRetried`, `GroupCostAddsUp` | `ReviewRecording` | `service.py:528-531`, `review_presentation.py:245` |
| `LostIsForgotten`, `InjectedIsRecovered`, `EndedIsFound` | `JobManifest` | what recovery does with interrupted and failed manifests (`service.py:646-647`, 1051-1062) |
| `WaiterIsServed`, `AnsweredKeepsJob` | `CardIntake` | a directory that cannot be made leaves its waiters without an answer (`drawing_card_service.py:320`); the key is taken before the job is persisted, so who asks in between holds a job its creator takes back |
| `RetriedJobStays` | `CardIntake`, instance `retries` | a thread lists a finished job for pruning, the job is retried, and the thread pops the record of the queued job and deletes its manifest (`drawing_card_service.py:387-400` against 806-844) |
| `NoKeyIsRobbed` | `CardIntake`, instance `pruning` | two threads prune one job; one has tested the key (398) when the other removes it and a client creates a new job under it; the pop (399) takes the new job's key away, and a repetition of the request makes a second job |
| `FailedLeavesNothing` | `ProcessingRun` | inputs are compared once more after publication, and a failed attempt leaves its workbook (`processing/engine.py:127`) |
| `ReviewGoesOn` | `ActiveLearning` | once the queue is rebuilt the stored answers are stale and no operation takes them away |
| `RemovesOnlyItsOwn` | `TargetWriting` | a failed publication looks whose file is there and removes it in two calls (`excel_writer/engine.py:595`): a file that comes in between is removed |
| `SheetsShareColumns` | `TargetWriting` | the bindings of all sheets are matched by their column letter alone (`excel_writer/engine.py:319`): an order with rows on two sheets with the same columns is refused |
| `TotalsAddUp`, `ScopesAreRead` | `RowReconciling` | `matching/engine.py:359` |
| `GroupsOnlyGrow` | `ReviewPackages` | a group may be split by a row that is added |
| `ClusteringReturns` | `DecisionPackages` | atoms that cannot be safe become one manual family whatever their signatures are, and such a family is refused (`clustering.py:139`) |
| `TypeIsSomeonesFirst`, `EqualsAreAmbiguous` | `SheetSchema` | `sheet_classifier.py:48`, `column_resolver.py:116` |
| `LostTextIsSeen` | `WorkbookSources` | a text cut off between rows is not reported (`reconciliation_sources.py:748`) |
| `NamesFollow`, `PlansPrepare`, `PeriodIsHonoured` | `PeriodInsertion`, `TargetMeasures` | defined names and filters after an insertion (`period_insertion.py:1012`, 1155, 2012, 2221; `reconciliation_period_preview.py:75`) |
| `AllRecoveredStagesHaveRows`, `BlocksHoldNoOthers` | `TargetReport` | `reconciliation_target.py:901`, 1173 |
| `AllMinedLoad` | `CorpusPatterns` | a mined pattern the loader refuses (`offline.py:1394` against 1600) |
| `SelectionKeepsFormulas`, `UnnumberedKeepTheirPlace`, `LateMoneyIsNoQuantity`, `NumberingIsNoWork`, `NothingBelowIsLost`, `GivenObjectsAreServed`, `EveryFileIsRecorded`, `ContentIsReadOnce`, `MappingDecides` | `CardSources`, `SourceSelection` | rows and files the reader drops or misplaces (`readers.py:206` and others) |
| `SectionAddsUp`, `NoRowIsForgotten`, `ScaleIsKept`, `ConflictsAreReviewed`, `UnitStaysWithQuantity` | `CardWorkbook` | sums over mixed units, rows of an existing card that lose their contract (`workflow.py:822`) |
| `ConsensusIsFresh`, `MatchedKeepsAmount`, `ModelFailureIsReviewed` | `CardMatching` | `consensus.py:63`, `matcher.py:513`, 634 |
| `NothingAboveIsLost`, `CostIsNoPrice`, `LayerIsKept`, `MatchIsCompared`, `FailureNeverDecides`, `PackagesAreIndependent`, `EvidenceIsSeen` | `PackageFacts`, `PackageRun` | `workbook.py:129`, `pdf_documents.py:93`, `matcher.py:1`, `pipeline.py:61` |

Some of these are plain defects, others are choices a team may make; only the two
of section 4.2 contradict a line of the repository that says otherwise about the
very thing, in a way one run can show.

## 5. What is proved

Every theorem holds for all constants the `ASSUME`s allow. These say only that
markers are not data, that bounds are natural numbers and that the tables given as
constants are functions of the right type: `ConstantsOK`, `NilOK`, `NoneOK`,
`NothingAssumption`, `ProcessingAssumption`, `IntakeAssumption`, `ReviewAssumption`,
`LearningAssumption`, `RegistryAssumption`, `WritingAssumption`, and for the algorithms
`NoneIsNothing` (Python's `None` is no code, action or status), `ParameterIsNoValue` (the
marker a mined pattern has in the place of a parameter is no value a row can have)
and `RulesHaveCategories` (no rule of the matcher is about `None`). TLC evaluates each
of them in a run.
Where a theorem has a hypothesis of its own it is named here, with what happens
without it. Every inductive invariant was first checked by TLC on the instance of
its run, or on its module alone.

### 5.1 One drawing-card job

| module | hypotheses | theorems |
|---|---|---|
| `DrawingCardJobProofs` | none | `TypeCorrect` |
| | `Patient`, `MaxCancels = 0` | `CalmCorrect`, `OneRunCorrect`, `FreshAttemptCorrect`, `AttemptMonotonicCorrect` |
| | `Patient`, `MaxCancels = 0`, the documents on disk | `ReadyCorrect`, `ReadyIsDurableCorrect` |
| | and `MaxFaults = 0` | `AgreesCorrect`, `DiskAgreesCorrect` |
| | and `MaxCrashes` 0 or 1 | `LivesCorrect`, `JobRecoveredCorrect`, `ChoiceKeptCorrect` |
| | `Patient`, `MaxRetries = 0`, `MaxFaults = 0`, cancellations | `CancelCorrect`, `CancelledIsCleanCorrect` |

`OneRun` is not inductive: nothing in it says that a thread in `schedule` is the
only one, or that a failed transition rolls back to the durable attempt. `CalmInv`
says it: either nobody works on the job, or one thread owns it, and what it owns
ties the status, the attempt in memory, the attempt on disk and the document about
to be written together; no workbook belongs to an attempt that is not durable.
`ReadyInv` adds the workbooks: whatever says `ready`, be it a record, a manifest or
a document not yet written, names the workbook of its own attempt, and that is on
disk. `AgreesInv` says which of the two, record or manifest, is behind the other at
each control point, and by what. `LivesInv` says where the decisions a client was
promised are at each point of the one recovery; with a second crash there are
points at which they are nowhere, and the theorem is false (section 4.3).
`CancelInv` follows an accepted cancellation through every document that was built
before it: a cancelled record or manifest names no workbook, the attempt has none,
and whoever could still write one will find the event raised. The hypotheses cannot
be dropped: the first six rows of 4.3 are what happens without them.

### 5.2 Reconciliation

`ReconciliationApplyProofs`, no hypothesis: `ApplySound` (the inductive invariant
`Sound`), `TypeCorrect`, `WriteAhead` (`CommittedIsPlanned`), `ReadyCommitted`
(`ReadyIsCommitted`), `ReviewsAreOpen` (`NeverReopened`) and `AppliesExactlyOnce`,
the refinement of `ExactlyOnceApply`. Each job's manifest has one of a few shapes
and bounds what the job may have entered (`Shaped`); each control point and each
record in memory fixes the shape of the manifest (`Coupled`); the apply table and
the feedback name the same choices (`Ledger`). A step of one job leaves the
entries and the manifests of others alone and forgets at most finished records
(`Frame`), so it is enough to look at the job that moves, one lemma for each
action. For the refinement: a job that moves either leaves the feedback and
publishes from a manifest that was not ready, or appends its first entry
(`Advances`).

`ReconciliationReviewProofs`, no hypothesis: `ReviewSound`, `RestartsKeepDecisions`,
`CalculationFollowsPage`, `MassAcceptanceFillsOnly`. The invariant `FileKeepsUp`
says that unless a write has failed the autosave holds the decisions in memory,
stamped with versions that a restart computes again, or there is none and nothing
was decided by hand. It needs that stamping is a function of the decisions alone,
which is the lemma on `_refresh_decision_versions`. `CalculatedAsShown` holds of
every state with typed decisions: the two computations of precedence are proved
equal.

### 5.3 Processing engine

`ProcessingRunProofs`, no hypothesis: `ProcessingSound`, `ProcessingTyped`,
`SuccessesStand` (`ConclusionsStand`), `PublishedStands` (`PublicationStands`),
`HistoryIsKept` (`HistoryStands`). `ProcessingInv` says that an attempt between
opening and closing its run has a run of its own in the journal that stands where
the attempt is, unless the journal was restored from a copy since; that the copy is
a beginning of a journal the service has had; that a published workbook names a run
and was allowed by the gate; and that a cached answer is that of a verified run or
of one a restored journal has forgotten. Restored journals are why several parts
say "unless the journal was rolled back": without that clause they are false.

### 5.4 Creation, retention and review of cards

`CardServiceProofs`, no hypothesis. `IntakeSoundness` (`IntakeSound`): who makes a
job, who waits, which key stands for it and what is reserved agree
(`ClientsStand`); a thread that prunes has popped what it has in hand, a retry holds
a job that was created (`ThreadsStand`), and only drawn jobs have records or
manifests (`DrawnStands`); through failures, rollbacks, restarts and pruning one
access at a time. From it, `CreationCorrect` (`CreationIsIdempotent`).
`RetentionCorrect` adds `OwnersStand` (the record of a job being made stays under its
creator) and shows the action property `RetentionStands` of every step, restarts
included. Both properties say what survives pruning without a lock: a job in memory has
its key unless the key's entry was popped for another job (`robbed`), and an active
job leaves only if it was retried while listed (`overtaken`). These clauses cannot be dropped:
`NoKeyIsRobbed` and `RetriedJobStays` of 4.3 are false. What the theorems say is that
nothing else breaks the promise: no other interleaving of clients, workers, retries
and pruning, and no failed write, rollback or restart.
At a restart the code sorts what it found and keeps a bounded number, so
the proof is an induction over finite sets of jobs. The library states that
induction with an operator as its parameter; here it is stated for a set (the sets
for which the claim holds), which the provers can instantiate.

`ReviewSoundness` (`ReviewSound`): whoever replaces the ledger holds its lock and its
newest copy, one apply of a card runs at a time, no row of a remembered packet was
decided alone. From it `ReviewStandsCorrect` and the action property
`DecisionsLastCorrect`.

### 5.5 Shadow answers and pattern registry

The first part of `StoreProofs`, no hypothesis. `LearningSound`, `AnswersStandCorrect`,
`NoAnswerLostCorrect`: the trail of writes ends with what the file holds, and the
file fits the queue it was written for. `RegistrySoundness` (`RegistrySound`),
`RegistryStandsCorrect`, `RegistryGrowsCorrect`: every stored history stands, every
edge is bound to stored histories, and the drafts of operators, which are built
away from the store, are their own and, as long as the stored chain is still a
beginning of them, show what the edges say. That last part is what makes the
invariant inductive: `ContradictionsShown` says nothing of a history that is about
to be stored, and the transaction compares only the chain below it.

### 5.6 Writing of a report

The second part of `StoreProofs`, no hypothesis. `WritingSound` (the invariant `WriterSound`): a
writer that is about to write has a plan that stands on the very package the schema
was read from; what it has written carries the ordered values and nothing else
(`Copies`), what it is about to link has no formula either (`Carries`), and a file
under an output name comes from a writer at a step at which it may have one. Most
of it are four lemmas on the data: the cell a value goes to is the one the plan
looked at (`WrittenStands`), replacing changes these cells alone (`ReplacedCopies`),
without formulas that is the report ordered (`CopiesCarry`), and materializing makes
it so (`MaterializedCarries`). From it `WritesStandCorrect` (`WritesStand`) and the
action property `OutputsSparedCorrect` (`OutputsAreSpared`). The clause on a file
that was `raced` cannot be dropped: `RemovesOnlyItsOwn` of 4.3 is false.

### 5.7 The algorithms

`AlgorithmLaws` proves, about the modules of six algorithms, what they answer for
every input of the kind the code gives them, of any size and with any text: no
bound of the run appears in a law.

| algorithm | laws |
|---|---|
| `RowReconciling` | the calculation finds every rule the match names (`RulesAlwaysStand`); a result that may be written without a further look counts a row at most once, in the unit of its target, and no row a clause excludes (`WrittenRowsAlwaysCountOnce`); what a reviewer accepted is counted unless the target is held back (`AcceptedRowsAlwaysCount`); a row that is added changes the selection only for itself, and only by a stronger strategy (`SelectionIsAlwaysMonotone`) |
| `ReviewPackages` | the groups of a package that one click accepts are alike and without conflict (`SafePackagesAlwaysAgree`), every group is in exactly one family of one package (`EveryGroupAlwaysOnce`), and what is safe is safe without the others (`AlwaysSafeWithoutOthers`) |
| `PromotionGate` | no acceptance of a record already approved passes, and one that passes counted nothing wrong (`AcceptedAlwaysBeforeApproval`); an activation has a replay behind it, of the very record and policy the owner approved (`ActivationAlwaysReplayed`) |
| `CorpusPatterns` | no candidate but a modifier publishes a value of a parameter (`NoParameterEverPublished`), private rows leave no trace (`PrivateRowsAlwaysUnseen`) |
| `CardMatching` | a row whose formula has no value is decided by people alone (`UnresolvedNeverGuessed`), a quantity keeps its unit (`QuantityAlwaysKeepsUnit`), suggestions change no amount and no review (`SuggestionsNeverDecide`), a consensus is unanimous (`ConsensusAlwaysUnanimous`), the last answer of a reviewer counts (`LastWordAlwaysCounts`) |
| `SourceSelection` | no file is read under an object its evidence speaks against (`NeverEvidenceAgainst`), where an object has files one is read or a warning says why not (`EveryObjectAlwaysServed`), what is read is of the right period and no copy (`RightPeriodAlwaysRead`) |

`AlgorithmProofs` extends the run and shows `RowsCorrect`, `GroupsCorrect`,
`PatternsCorrect` and `CardsCorrect`: `Spec => []RowsReconcile`, and so on for
`GroupsAreSafe`, `PatternsStand` and `CardsStand`. The inductive invariant is `Called`: the
input of the last call is one of its algorithm (`IsReconciliation`, `IsMining`,
`IsPromotion`, `IsAcceptance`, `IsMatching`, `IsSelection`). It says the types the laws
need and that the calls of the run are such inputs; a property of the last call then
follows from the law of its algorithm.

### 5.8 What is only model-checked

* `Settles` and `AutosavedPlanSettles`: liveness under fairness, and with it ENABLED,
  is out of the prover's reach.
* `SheetsAreRead` and `PeriodsInsert`: layouts of sheets, sums, and rewriting of
  references are recursive functions and folds over rows and columns. What they
  answer for inputs of every size needs induction over data. TLC compares them
  with reference definitions on all inputs of bounded sets.
* `ReviewsStand`: three of its parts (`PartitionIsOptimal`, `PackagesAreAttested`,
  `EveryAtomOnce`) are about the search of the clustering, a fold, `NothingIsHidden` and
  `DecisionsAreWritten` are about sums, and `MinedAgree` is not true of arbitrary
  records, only of those the code builds. The others are within reach and not proved
  yet (section 2).

## 6. What is not modelled

Of the modelled components: the verify operation and the generic executor path of
reconciliation jobs beyond `ReviewRecording`; the legacy persist and the schema
migration of the feedback store; path checks and file modes; a failure after
`os.replace`; two clients as separate actors of one reconciliation review (their
requests are refused by version and change nothing).

Of the algorithms: the scores of names by similarity and of language models (open
choices among the candidates), the regular expressions of AOSR forms, OCR and PDF
engines, ODS conversion, cell styles, images and the rendering of templates, the
legacy reader `reconciliation_sources.py:801-1960`, which nothing calls, and the
search limit `MAX_SEARCH_STATES` of the clustering.

Not modelled at all, for the reasons given in `PROJECT.json`: DuckDB storage, Qdrant
and the embedding search, training and evaluation scripts, argument parsing.
