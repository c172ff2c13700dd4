--------------------------- MODULE DrawingCardJob ---------------------------
(***************************************************************************)
(* The life of one drawing-card job in the private web service: the        *)
(* in-memory record, the manifest on disk, the artifacts of each attempt,  *)
(* the event-loop thread that serves the API (Api) and the background      *)
(* threads that run the workflow (Workers).                                *)
(*                                                                         *)
(* A manifest write is two steps: Save builds the document from memory,    *)
(* and Commit replaces the file, because the write fsyncs without a lock   *)
(* and another thread may run in between.                                  *)
(***************************************************************************)
EXTENDS Naturals

CONSTANTS
  Workers,      \* background threads that may ever be started at once
  Api,          \* the event-loop thread
  Nil,          \* no file, no document
  Slots,        \* max_background_workers
  Patient,      \* clients wait for a worker to finish writing what it published
  MaxCancels, MaxRetries, MaxApplies, MaxFaults, MaxCrashes, MaxTampers

ASSUME ConstantsOK ==
  /\ Api \notin Workers
  /\ Slots \in Nat \ {0}
  /\ Patient \in BOOLEAN
  /\ {MaxCancels, MaxRetries, MaxApplies, MaxFaults, MaxCrashes, MaxTampers} \subseteq Nat

VARIABLES
  service,      \* "empty": no job; "up"; "down": crashed; "lost": manifest rejected
  job,          \* the DrawingCardJob record in memory
  raised,       \* cancel events that are set
  deferred,     \* the job is in _deferred_review_publication
  disk,         \* job-manifest.json
  files,        \* workbooks under attempts/NNNN
  tampered,     \* a retained input no longer has its recorded hash
  pc, loc,      \* control point and locals of every thread
  freeSlots,    \* the worker-slot semaphore
  promise,      \* what the API has acknowledged to the client (history)
  spent         \* how much of each bound is used

vars == <<service, job, raised, deferred, disk, files, tampered, pc, loc,
          freeSlots, promise, spent>>

-----------------------------------------------------------------------------
Threads  == Workers \cup {Api}
Active   == {"queued", "processing"}
Terminal == {"ready", "failed", "blocked", "cancelled"}
Status   == Active \cup Terminal \cup {"review_required"}
Outcomes == {"review", "ready", "blocked", "failed"}

Path      == {"result", "review", "completed"} \X Nat
ResultOf(n)  == <<"result", n>>
ReviewOf(n)  == <<"review", n>>
CompletedOf(n) == <<"completed", n>>

Job == [status : Status, result : Path \cup {Nil}, review : Path \cup {Nil},
        attempt : Nat, choices : BOOLEAN, ev : Nat]

Manifest == [status : Status, result : Path \cup {Nil}, review : Path \cup {Nil},
             attempt : Nat, choices : BOOLEAN, cancel : BOOLEAN]

\* Nil stands for None: no manifest and no path is Nil.
ASSUME NilOK == Nil \notin Manifest \cup Path

NewJob == [status |-> "queued", result |-> Nil, review |-> Nil,
           attempt |-> 0, choices |-> FALSE, ev |-> 0]

\* kind: what the thread is doing; next: where it goes once its manifest is
\* written; before: the record to roll back to; saved: choices to put back.
NoLocals == [kind |-> "none", attempt |-> 0, ev |-> 0, outcome |-> "failed",
             doc |-> Nil, next |-> "idle", before |-> NewJob,
             saved |-> FALSE, told |-> FALSE]

Kinds == {"none", "create", "retry", "restore", "recovery", "recovered", "run",
          "cancel", "put", "apply", "applied", "workbook"}
Labels == {"idle", "schedule", "settle", "entered", "launch", "running", "leave"}
PC    == Labels \cup {"commit", "waiting", "checked", "returned", "publish"}
Locals == [kind : Kinds, attempt : Nat, ev : Nat, outcome : Outcomes,
           doc : Manifest \cup {Nil}, next : Labels, before : Job,
           saved : BOOLEAN, told : BOOLEAN]

\* _manifest_for: the document a thread builds from the record it sees.
ManifestFor(j, r) ==
  [status |-> j.status, result |-> j.result, review |-> j.review,
   attempt |-> j.attempt, choices |-> j.choices, cancel |-> j.ev \in r]

\* Mutant: the attempt number is not restored.
JobFromStart(m) ==
  [status |-> m.status, result |-> m.result, review |-> m.review,
   attempt |-> 0, choices |-> m.choices, ev |-> 0]

\* _job_from_manifest: the record a fresh service rebuilds.
JobFrom(m) ==
  [status |-> m.status, result |-> m.result, review |-> m.review,
   attempt |-> m.attempt, choices |-> m.choices, ev |-> 0]

\* Mutant: a status the manifest does not know.
FailedMisspelt(j) == [j EXCEPT !.status = "error"]

\* What _job_from_manifest accepts; anything else is skipped by the restart.
Restorable(m) ==
  /\ ~tampered
  /\ {m.result, m.review} \ {Nil} \subseteq files
  /\ m.status = "ready" => m.result = ResultOf(m.attempt)
  /\ m.status = "review_required" => m.review \in {Nil, ReviewOf(m.attempt)}
  /\ m.status # "review_required" => m.review = Nil

Failed(j)    == [j EXCEPT !.status = "failed"]
Cancelled(j) == [j EXCEPT !.status = "cancelled", !.result = Nil, !.review = Nil]

\* _persist_job up to the atomic replace: memory becomes j, the document is
\* built, and the thread goes on to write it.
Save(t, l, j, r, next) ==
  /\ job' = j
  /\ raised' = r
  /\ loc' = [loc EXCEPT ![t] = [l EXCEPT !.doc = ManifestFor(j, r), !.next = next]]
  /\ pc' = [pc EXCEPT ![t] = "commit"]

\* Mutant: the attempt's workbooks stay.
FinishCancelledDirty(t, l, j, r) ==
  /\ Save(t, l, Cancelled(j), r, "leave")
  /\ UNCHANGED files

\* _finish_cancelled: unlink the current attempt's workbooks, then save.
FinishCancelled(t, l, j, r) ==
  /\ files' = files \ {ResultOf(j.attempt), ReviewOf(j.attempt)}
  /\ Save(t, l, Cancelled(j), r, "leave")

\* Mutant: the slot is not given back.
EndsWithSlot(t) ==
  /\ pc' = [pc EXCEPT ![t] = "idle"]
  /\ loc' = [loc EXCEPT ![t] = NoLocals]
  /\ UNCHANGED freeSlots

\* The thread is done: a worker releases its slot, the API answers.
Ends(t) ==
  /\ pc' = [pc EXCEPT ![t] = "idle"]
  /\ loc' = [loc EXCEPT ![t] = NoLocals]
  /\ freeSlots' = IF t \in Workers THEN freeSlots + 1 ELSE freeSlots

Spend(what, max) == spent[what] < max /\ spent' = [spent EXCEPT ![what] = @ + 1]

-----------------------------------------------------------------------------
Init ==
  /\ service = "empty" /\ job = NewJob /\ raised = {} /\ deferred = FALSE
  /\ disk = Nil /\ files = {} /\ tampered = FALSE
  /\ pc = [t \in Threads |-> "idle"]
  /\ loc = [t \in Threads |-> NoLocals]
  /\ freeSlots = Slots
  /\ promise = [cancel |-> FALSE, choice |-> FALSE]
  /\ spent = [cancels |-> 0, retries |-> 0, applies |-> 0,
              faults |-> 0, crashes |-> 0, tampers |-> 0]

(***************************************************************************)
(* The API, on the event-loop thread.                                      *)
(***************************************************************************)
Idle == pc[Api] = "idle" /\ service = "up"

\* A patient client acts on a published status only after its write is over.
Polled == Patient => \A w \in Workers : pc[w] \notin {"commit", "leave"}

\* create_job(background=True): publish the record, persist it, then schedule.
CreateJob ==
  /\ pc[Api] = "idle" /\ service = "empty"
  /\ service' = "up"
  /\ Save(Api, [NoLocals EXCEPT !.kind = "create"], NewJob, {}, "schedule")
  /\ UNCHANGED <<deferred, disk, files, tampered, freeSlots, promise, spent>>

\* _schedule / _schedule_review_recovery: start a thread that waits for a slot.
Schedule(w) ==
  /\ pc[Api] = "schedule" /\ pc[w] = "idle"
  /\ pc' = [pc EXCEPT ![Api] = "idle", ![w] = "waiting"]
  /\ loc' = [loc EXCEPT ![Api] = NoLocals,
             ![w] = [NoLocals EXCEPT
                       !.kind = IF loc[Api].kind = "recovery" THEN "recovery" ELSE "run",
                       !.saved = loc[Api].saved]]
  /\ UNCHANGED <<service, job, raised, deferred, disk, files, tampered,
                 freeSlots, promise, spent>>

\* cancel_job: set the event and persist; Settle finishes a queued job.
CancelJob ==
  /\ Idle /\ job.status \in Active /\ Spend("cancels", MaxCancels)
  /\ Save(Api, [NoLocals EXCEPT !.kind = "cancel"], job, raised \cup {job.ev}, "settle")
  /\ UNCHANGED <<service, deferred, disk, files, tampered, freeSlots, promise>>

Settle ==
  /\ pc[Api] = "settle"
  /\ \/ /\ job.status = "queued"
        /\ FinishCancelled(Api, loc[Api], job, raised)
        /\ UNCHANGED <<freeSlots, promise>>
     \/ /\ job.status # "queued"
        /\ Ends(Api)
        /\ promise' = [promise EXCEPT !.cancel = TRUE]
        /\ UNCHANGED <<job, raised, files>>
  /\ UNCHANGED <<service, deferred, disk, tampered, spent>>

\* Mutant: a job that is being processed can be retried too.
RetryAnyStatus ==
  /\ Idle /\ Polled /\ job.status # "queued" /\ Spend("retries", MaxRetries)
  /\ Save(Api, [NoLocals EXCEPT !.kind = "retry", !.before = job],
          [job EXCEPT !.status = "queued", !.result = Nil, !.review = Nil, !.ev = @ + 1],
          raised, "schedule")
  /\ promise' = [cancel |-> FALSE, choice |-> FALSE]
  /\ UNCHANGED <<service, deferred, disk, files, tampered, freeSlots>>

\* retry_job: a fresh cancel event and a queued record, persisted before the
\* new thread starts; saved choices go to the runner as its decisions file.
RetryJob ==
  /\ Idle /\ Polled /\ job.status \in Terminal /\ Spend("retries", MaxRetries)
  /\ Save(Api, [NoLocals EXCEPT !.kind = "retry", !.before = job],
          [job EXCEPT !.status = "queued", !.result = Nil, !.review = Nil, !.ev = @ + 1],
          raised, "schedule")
  /\ promise' = [cancel |-> FALSE, choice |-> FALSE]
  /\ UNCHANGED <<service, deferred, disk, files, tampered, freeSlots>>

\* Mutant: the decision is answered before it is persisted.
PutReviewVolatile ==
  /\ Idle /\ Polled /\ job.status = "review_required" /\ ~job.choices
  /\ job' = [job EXCEPT !.choices = TRUE]
  /\ promise' = [promise EXCEPT !.choice = TRUE]
  /\ UNCHANGED <<service, raised, deferred, disk, files, tampered, pc, loc, freeSlots, spent>>

\* put_review_item / put_review_cluster: the operator decides the open page.
PutReview ==
  /\ Idle /\ Polled /\ job.status = "review_required" /\ ~job.choices
  /\ Save(Api, [NoLocals EXCEPT !.kind = "put", !.before = job],
          [job EXCEPT !.choices = TRUE], raised, "leave")
  /\ UNCHANGED <<service, deferred, disk, files, tampered, freeSlots, promise, spent>>

\* apply_inline_review: persist the complete page, then run on this thread.
ApplyInlineReview ==
  /\ Idle /\ Polled /\ job.status = "review_required" /\ job.choices
  /\ Spend("applies", MaxApplies)
  /\ Save(Api, [NoLocals EXCEPT !.kind = "apply"], job, raised, "entered")
  /\ promise' = [promise EXCEPT !.choice = FALSE]
  /\ UNCHANGED <<service, deferred, disk, files, tampered, freeSlots>>

\* apply_review: the uploaded workbook is staged under the next attempt and
\* becomes job.review, then the workflow runs on this thread.
ApplyWorkbookReview ==
  /\ Idle /\ Polled /\ job.status = "review_required"
  /\ Spend("applies", MaxApplies)
  /\ files' = files \cup {CompletedOf(job.attempt + 1)}
  /\ job' = [job EXCEPT !.review = CompletedOf(job.attempt + 1)]
  /\ pc' = [pc EXCEPT ![Api] = "entered"]
  /\ loc' = [loc EXCEPT ![Api] = [NoLocals EXCEPT !.kind = "workbook"]]
  /\ promise' = [promise EXCEPT !.choice = FALSE]
  /\ UNCHANGED <<service, raised, deferred, disk, tampered, freeSlots>>

-----------------------------------------------------------------------------
(***************************************************************************)
(* _run, on a worker or, for a review, on the event-loop thread.           *)
(***************************************************************************)
\* The worker gets a slot; a recovery worker defers the review publication.
Acquire(w) ==
  /\ pc[w] = "waiting" /\ freeSlots > 0
  /\ freeSlots' = freeSlots - 1
  /\ pc' = [pc EXCEPT ![w] = "entered"]
  /\ deferred' = (deferred \/ loc[w].kind = "recovery")
  /\ UNCHANGED <<service, job, raised, disk, files, tampered, loc, promise, spent>>

CancelSeen == job.ev \in raised

\* The checks before a run: changed inputs fail the job, a set event ends it.
\* A plain worker looks at the event first, _run at the inputs first.
CheckInputs(t) ==
  /\ pc[t] = "entered" /\ tampered
  /\ ~(loc[t].kind = "run" /\ CancelSeen)
  /\ Save(t, loc[t], Failed(job), raised, "leave")
  /\ UNCHANGED <<service, deferred, disk, files, tampered, freeSlots, promise, spent>>

CheckCancel(t) ==
  /\ pc[t] = "entered" /\ CancelSeen
  /\ tampered => loc[t].kind = "run"
  /\ FinishCancelled(t, loc[t], job, raised)
  /\ UNCHANGED <<service, deferred, disk, tampered, freeSlots, promise, spent>>

CheckPassed(t) ==
  /\ pc[t] = "entered" /\ ~tampered /\ ~CancelSeen
  /\ pc' = [pc EXCEPT ![t] = "checked"]
  /\ UNCHANGED <<service, job, raised, deferred, disk, files, tampered, loc,
                 freeSlots, promise, spent>>

\* Mutant: the artifact of the open review stays in the record.
BeginKeepsReview(t) ==
  /\ pc[t] = "checked"
  /\ Save(t, [loc[t] EXCEPT !.attempt = job.attempt + 1, !.before = job],
          [job EXCEPT !.status = "processing", !.result = Nil, !.attempt = @ + 1],
          raised, "launch")
  /\ UNCHANGED <<service, deferred, disk, files, tampered, freeSlots, promise, spent>>

\* Mutant: the previous attempt's number, and so its directory, is used again.
BeginInOldDirectory(t) ==
  /\ pc[t] = "checked"
  /\ Save(t, [loc[t] EXCEPT !.attempt = job.attempt, !.before = job],
          [job EXCEPT !.status = "processing", !.result = Nil, !.review = Nil],
          raised, "launch")
  /\ UNCHANGED <<service, deferred, disk, files, tampered, freeSlots, promise, spent>>

\* The transition to processing: a new attempt, durable before anything runs.
Begin(t) ==
  /\ pc[t] = "checked"
  /\ Save(t, [loc[t] EXCEPT !.attempt = job.attempt + 1, !.before = job],
          [job EXCEPT !.status = "processing", !.result = Nil, !.review = Nil,
                      !.attempt = @ + 1],
          raised, "launch")
  /\ UNCHANGED <<service, deferred, disk, files, tampered, freeSlots, promise, spent>>

\* The request carries the event the job has at this moment.
Launch(t) ==
  /\ pc[t] = "launch"
  /\ pc' = [pc EXCEPT ![t] = "running"]
  /\ loc' = [loc EXCEPT ![t].ev = job.ev]
  /\ UNCHANGED <<service, job, raised, deferred, disk, files, tampered,
                 freeSlots, promise, spent>>

\* The runner writes a workbook of its attempt.
RunnerWrites(t) ==
  /\ pc[t] = "running"
  /\ \E f \in {ResultOf(loc[t].attempt), ReviewOf(loc[t].attempt)} \ files :
       files' = files \cup {f}
  /\ UNCHANGED <<service, job, raised, deferred, disk, tampered, pc, loc,
                 freeSlots, promise, spent>>

\* on_progress persists the record (one report stands for an attempt's many).
Progress(t) ==
  /\ pc[t] = "running" /\ ~loc[t].told
  /\ Save(t, [loc[t] EXCEPT !.told = TRUE], job, raised, "running")
  /\ UNCHANGED <<service, deferred, disk, files, tampered, freeSlots, promise, spent>>

\* The runner returns; an outcome with a workbook has written it.
RunnerReturns(t) ==
  /\ pc[t] = "running"
  /\ \E o \in Outcomes :
       /\ o = "ready" => ResultOf(loc[t].attempt) \in files
       /\ o = "review" => ReviewOf(loc[t].attempt) \in files
       /\ loc' = [loc EXCEPT ![t].outcome = o]
  /\ pc' = [pc EXCEPT ![t] = "returned"]
  /\ UNCHANGED <<service, job, raised, deferred, disk, files, tampered,
                 freeSlots, promise, spent>>

\* The runner probes its own event and raises DrawingCardWorkflowCancelled.
RunnerCancelled(t) ==
  /\ pc[t] = "running" /\ loc[t].ev \in raised
  /\ FinishCancelled(t, loc[t], job, raised)
  /\ UNCHANGED <<service, deferred, disk, tampered, freeSlots, promise, spent>>

\* Any other exception fails the job and removes the attempt's output.
Excepted(t) ==
  /\ Save(t, loc[t], Failed(job), raised, "leave")
  /\ files' = files \ {ResultOf(loc[t].attempt)}

RunnerRaises(t) ==
  /\ pc[t] = "running"
  /\ Excepted(t)
  /\ UNCHANGED <<service, deferred, disk, tampered, freeSlots, promise, spent>>

\* The event is looked at once more before anything becomes public.
AfterRunCancelled(t) ==
  /\ pc[t] = "returned" /\ CancelSeen
  /\ FinishCancelled(t, loc[t], job, raised)
  /\ UNCHANGED <<service, deferred, disk, tampered, freeSlots, promise, spent>>

AfterRunProceeds(t) ==
  /\ pc[t] = "returned" /\ ~CancelSeen
  /\ pc' = [pc EXCEPT ![t] = "publish"]
  /\ UNCHANGED <<service, job, raised, deferred, disk, files, tampered, loc,
                 freeSlots, promise, spent>>

\* The branches of the publication, on the outcome of the attempt.
\* Mutant: the workbook is not looked for.
HasResultUnchecked(t) == loc[t].outcome # "review"

HasReview(t) == loc[t].outcome = "review" /\ ReviewOf(loc[t].attempt) \in files
HasResult(t) == loc[t].outcome = "ready" /\ ResultOf(loc[t].attempt) \in files
Canonical(t) == loc[t].attempt = job.attempt

PublishTampered(t) ==
  /\ pc[t] = "publish" /\ tampered
  /\ Excepted(t)
  /\ UNCHANGED <<service, deferred, disk, tampered, freeSlots, promise, spent>>

PublishReview(t) ==
  /\ pc[t] = "publish" /\ ~tampered /\ HasReview(t) /\ Canonical(t)
  /\ Save(t, loc[t],
          [job EXCEPT !.review = ReviewOf(job.attempt), !.choices = FALSE,
                      !.status = IF deferred THEN "processing" ELSE "review_required"],
          raised, "leave")
  /\ UNCHANGED <<service, deferred, disk, files, tampered, freeSlots, promise, spent>>

PublishResult(t) ==
  /\ pc[t] = "publish" /\ ~tampered /\ HasResult(t) /\ Canonical(t)
  /\ Save(t, loc[t],
          [job EXCEPT !.result = ResultOf(job.attempt), !.review = Nil, !.status = "ready"],
          raised, "leave")
  /\ UNCHANGED <<service, deferred, disk, files, tampered, freeSlots, promise, spent>>

PublishFailure(t) ==
  /\ pc[t] = "publish" /\ ~tampered
  /\ (HasReview(t) \/ HasResult(t)) => ~Canonical(t)
  /\ LET blocked == loc[t].outcome = "blocked" \/ (loc[t].outcome = "review" /\ ~HasReview(t))
     IN  Save(t, loc[t], [job EXCEPT !.status = IF blocked THEN "blocked" ELSE "failed"],
              raised, "leave")
  /\ UNCHANGED <<service, deferred, disk, files, tampered, freeSlots, promise, spent>>

\* Mutant: the saved choices are not put back.
LeaveRecoveryForgets(t) ==
  /\ pc[t] = "leave" /\ loc[t].kind = "recovery"
  /\ deferred' = FALSE
  /\ \/ /\ job.status \in {"processing", "review_required"}
        /\ Save(t, [loc[t] EXCEPT !.kind = "recovered"],
                [job EXCEPT !.status = "review_required"], raised, "leave")
        /\ UNCHANGED freeSlots
     \/ /\ job.status \notin {"processing", "review_required"}
        /\ Ends(t)
        /\ UNCHANGED <<job, raised>>
  /\ UNCHANGED <<service, disk, files, tampered, promise, spent>>

-----------------------------------------------------------------------------
(***************************************************************************)
(* What each caller of _run, and each API handler, does once it is done.   *)
(***************************************************************************)
LeaveRecovery(t) ==
  /\ pc[t] = "leave" /\ loc[t].kind = "recovery"
  /\ deferred' = FALSE
  /\ \/ /\ job.status \in {"processing", "review_required"}
        /\ Save(t, [loc[t] EXCEPT !.kind = "recovered"],
                [job EXCEPT !.choices = loc[t].saved, !.status = "review_required"],
                raised, "leave")
        /\ UNCHANGED freeSlots
     \/ /\ job.status \notin {"processing", "review_required"}
        /\ Ends(t)
        /\ UNCHANGED <<job, raised>>
  /\ UNCHANGED <<service, disk, files, tampered, promise, spent>>

\* An inline apply that did not end ready persists its error metric.
LeaveApply(t) ==
  /\ pc[t] = "leave" /\ loc[t].kind = "apply" /\ job.status # "ready"
  /\ Save(t, [loc[t] EXCEPT !.kind = "applied"], job, raised, "leave")
  /\ UNCHANGED <<service, deferred, disk, files, tampered, freeSlots, promise, spent>>

Leave(t) ==
  /\ pc[t] = "leave" /\ loc[t].kind # "recovery"
  /\ loc[t].kind = "apply" => job.status = "ready"
  /\ Ends(t)
  /\ promise' = [promise EXCEPT !.cancel = @ \/ loc[t].kind = "cancel",
                                !.choice = @ \/ loc[t].kind = "put"]
  /\ UNCHANGED <<service, job, raised, deferred, disk, files, tampered, spent>>

-----------------------------------------------------------------------------
(***************************************************************************)
(* The manifest write, and its failures.                                   *)
(***************************************************************************)
Commit(t) ==
  /\ pc[t] = "commit"
  /\ disk' = loc[t].doc
  /\ pc' = [pc EXCEPT ![t] = loc[t].next]
  /\ loc' = [loc EXCEPT ![t] = [@ EXCEPT !.doc = Nil, !.next = "idle", !.before = NewJob]]
  /\ UNCHANGED <<service, job, raised, deferred, files, tampered, freeSlots,
                 promise, spent>>

CommitFails(t, next) ==
  pc[t] = "commit" /\ loc[t].next = next /\ Spend("faults", MaxFaults)

\* create_job's except clause drops the record and the job directory.
CreateFails ==
  /\ CommitFails(Api, "schedule") /\ loc[Api].kind = "create"
  /\ service' = "empty" /\ job' = NewJob /\ files' = {}
  /\ Ends(Api)
  /\ UNCHANGED <<raised, deferred, disk, tampered, promise>>

\* _restore_retry_snapshot puts every retry-mutated field back.
RetryFails ==
  /\ CommitFails(Api, "schedule") /\ loc[Api].kind = "retry"
  /\ LET b == loc[Api].before
     IN  job' = [job EXCEPT !.status = b.status, !.result = b.result,
                            !.review = b.review, !.ev = b.ev]
  /\ Ends(Api)
  /\ UNCHANGED <<service, raised, deferred, disk, files, tampered, promise>>

\* Mutant: the transition is not rolled back.
TransitionKept(t) ==
  /\ CommitFails(t, "launch")
  /\ deferred' = (deferred /\ loc[t].kind # "recovery")
  /\ Ends(t)
  /\ UNCHANGED <<service, job, raised, disk, files, tampered, promise>>

\* _restore_run_transition, then the error leaves _run and ends its caller.
TransitionFails(t) ==
  /\ CommitFails(t, "launch")
  /\ LET b == loc[t].before
     IN  job' = [job EXCEPT !.status = b.status, !.result = b.result,
                            !.review = b.review, !.attempt = b.attempt]
  /\ deferred' = (deferred /\ loc[t].kind # "recovery")
  /\ Ends(t)
  /\ UNCHANGED <<service, raised, disk, files, tampered, promise>>

\* A failed progress write surfaces inside the runner as its exception.
ProgressFails(t) ==
  /\ CommitFails(t, "running")
  /\ Excepted(t)
  /\ UNCHANGED <<service, deferred, disk, tampered, freeSlots, promise>>

\* _persist_review_mutation puts the choices back.
PutFails ==
  /\ CommitFails(Api, "leave") /\ loc[Api].kind = "put"
  /\ job' = [job EXCEPT !.choices = loc[Api].before.choices]
  /\ Ends(Api)
  /\ UNCHANGED <<service, raised, deferred, disk, files, tampered, promise>>

\* A write that fails in __init__ keeps the service from starting.
RestoreFails ==
  /\ pc[Api] = "commit" /\ loc[Api].kind \in {"restore", "recovery"}
  /\ Spend("faults", MaxFaults)
  /\ service' = "down"
  /\ job' = NewJob /\ raised' = {}
  /\ Ends(Api)
  /\ UNCHANGED <<deferred, disk, files, tampered, promise>>

\* Any other failed write ends the worker or the request, memory as it is.
WriteRaises(t) ==
  /\ \E next \in {"leave", "settle", "entered"} : CommitFails(t, next)
  /\ t = Api => loc[t].kind \notin {"put", "restore", "recovery"}
  /\ deferred' = (deferred /\ loc[t].kind # "recovery")
  /\ Ends(t)
  /\ UNCHANGED <<service, job, raised, disk, files, tampered, promise>>

-----------------------------------------------------------------------------
(***************************************************************************)
(* Crashes, restarts, and inputs changed behind the service's back.        *)
(***************************************************************************)
Crash ==
  /\ service = "up" /\ Spend("crashes", MaxCrashes)
  /\ service' = "down" /\ job' = NewJob /\ raised' = {} /\ deferred' = FALSE
  /\ pc' = [t \in Threads |-> "idle"]
  /\ loc' = [t \in Threads |-> NoLocals]
  /\ freeSlots' = Slots
  /\ UNCHANGED <<disk, files, tampered, promise>>

\* _restore_jobs for this manifest, by the status and the cancel flag it holds.
RestoreNothing ==
  /\ service = "down"
  /\ \/ disk = Nil /\ service' = "empty"
     \/ disk # Nil /\ ~Restorable(disk) /\ service' = "lost"
  /\ UNCHANGED <<job, raised, deferred, disk, files, tampered, pc, loc, freeSlots, promise, spent>>

Restarting == service = "down" /\ disk # Nil /\ Restorable(disk)

RestoreCancelled ==
  /\ Restarting /\ disk.cancel
  /\ service' = "up"
  /\ FinishCancelled(Api, [NoLocals EXCEPT !.kind = "restore"], JobFrom(disk), {0})
  /\ UNCHANGED <<deferred, disk, tampered, freeSlots, promise, spent>>

RestoreActive ==
  /\ Restarting /\ ~disk.cancel /\ disk.status \in Active
  /\ service' = "up"
  /\ job' = [JobFrom(disk) EXCEPT !.status = "queued"]
  /\ pc' = [pc EXCEPT ![Api] = "schedule"]
  /\ loc' = [loc EXCEPT ![Api].kind = "restore"]
  /\ UNCHANGED <<raised, deferred, disk, files, tampered, freeSlots, promise, spent>>

RestoreReview ==
  /\ Restarting /\ ~disk.cancel /\ disk.status = "review_required"
  /\ service' = "up"
  /\ Save(Api, [NoLocals EXCEPT !.kind = "recovery", !.saved = disk.choices],
          [JobFrom(disk) EXCEPT !.status = "queued"], {}, "schedule")
  /\ UNCHANGED <<deferred, disk, files, tampered, freeSlots, promise, spent>>

RestoreTerminal ==
  /\ Restarting /\ ~disk.cancel /\ disk.status \in Terminal
  /\ service' = "up"
  /\ job' = JobFrom(disk)
  /\ UNCHANGED <<raised, deferred, disk, files, tampered, pc, loc, freeSlots,
                 promise, spent>>

Tamper ==
  /\ ~tampered /\ service # "empty" /\ Spend("tampers", MaxTampers)
  /\ tampered' = TRUE
  /\ UNCHANGED <<service, job, raised, deferred, disk, files, pc, loc, freeSlots, promise>>

-----------------------------------------------------------------------------
RunStep(t) ==
  \/ CheckInputs(t) \/ CheckCancel(t) \/ CheckPassed(t) \/ Begin(t) \/ Launch(t)
  \/ RunnerWrites(t) \/ Progress(t) \/ RunnerReturns(t) \/ RunnerCancelled(t)
  \/ RunnerRaises(t) \/ AfterRunCancelled(t) \/ AfterRunProceeds(t)
  \/ PublishTampered(t) \/ PublishReview(t) \/ PublishResult(t) \/ PublishFailure(t)
  \/ LeaveRecovery(t) \/ LeaveApply(t) \/ Leave(t) \/ Commit(t)

WorkerStep(w) == Acquire(w) \/ RunStep(w)

Restore == RestoreNothing \/ RestoreCancelled \/ RestoreActive \/ RestoreReview
           \/ RestoreTerminal

ApiStep == RunStep(Api) \/ Settle \/ (\E w \in Workers : Schedule(w)) \/ Restore

Client == CreateJob \/ CancelJob \/ RetryJob \/ PutReview \/ ApplyInlineReview
          \/ ApplyWorkbookReview

Fault == \/ CreateFails \/ RetryFails \/ PutFails \/ RestoreFails
         \/ \E t \in Threads : TransitionFails(t) \/ ProgressFails(t) \/ WriteRaises(t)

Next == \/ \E w \in Workers : WorkerStep(w)
        \/ ApiStep \/ Client \/ Fault \/ Crash \/ Tamper

Spec == Init /\ [][Next]_vars

\* Threads of a live process keep running, runners return, and a crashed
\* service is started again; clients, faults and crashes owe nothing.
Fairness == WF_vars(ApiStep) /\ \A w \in Workers : WF_vars(WorkerStep(w))

FairSpec == Spec /\ Fairness
-----------------------------------------------------------------------------
(***************************************************************************)
(* Properties.                                                             *)
(***************************************************************************)
\* Every variable holds values of its kind, in every state of the service.
TypeOK ==
  /\ job \in Job /\ raised \subseteq Nat
  /\ pc \in [Threads -> PC] /\ loc \in [Threads -> Locals]
  /\ service \in {"empty", "up", "down", "lost"}
  /\ deferred \in BOOLEAN /\ tampered \in BOOLEAN
  /\ disk \in Manifest \cup {Nil} /\ files \subseteq Path
  /\ freeSlots \in Nat
  /\ promise \in [cancel : BOOLEAN, choice : BOOLEAN]
  /\ spent \in [{"cancels", "retries", "applies", "faults", "crashes", "tampers"} -> Nat]

InsideRun(t) == \/ pc[t] \in {"launch", "running", "returned", "publish"}
                \/ pc[t] = "commit" /\ loc[t].next \in {"launch", "running"}

\* At most one thread runs the workflow of the job: a restart must not
\* "resurrect a second active worker", a duplicate upload never runs one.
OneRun == \A t, u \in Threads : InsideRun(t) /\ InsideRun(u) => t = u

\* A new attempt starts in a directory that holds no workbook of an earlier
\* one, whatever was lost in crashes and failed writes before it.
FreshAttempt ==
  \A t \in Threads : pc[t] = "commit" /\ loc[t].next = "launch"
    => {ResultOf(loc[t].attempt), ReviewOf(loc[t].attempt)} \cap files = {}

\* The attempt number on disk never goes back while the job exists.
AttemptMonotonic ==
  [][disk # Nil /\ disk' # Nil => disk'.attempt >= disk.attempt]_vars

\* A durable ready manifest is always one that a restart would publish: its
\* workbook is there and belongs to the current attempt.
ReadyIsDurable ==
  disk # Nil /\ disk.status = "ready"
    => disk.result = ResultOf(disk.attempt) /\ disk.result \in files

\* No restart loses the job while its inputs are intact.
JobRecovered == service = "lost" => tampered

\* A review decision that the API confirmed is there whenever the page is
\* open again, in particular after a restart.
ChoiceKept ==
  /\ service = "up" /\ pc[Api] = "idle" /\ promise.choice
  /\ job.status = "review_required"
  => job.choices

Quiet == service = "up" /\ \A t \in Threads : pc[t] = "idle"

\* Once all threads are done, a cancelled job has neither a reference to a
\* workbook nor a workbook of its current attempt on disk.
CancelledIsClean ==
  Quiet /\ job.status = "cancelled"
    => /\ job.result = Nil /\ job.review = Nil
       /\ {ResultOf(job.attempt), ReviewOf(job.attempt)} \cap files = {}

\* A cancellation that the API confirmed never ends in a published card.
CancelNeverPublishes ==
  service = "up" /\ promise.cancel => job.status # "ready"

\* No run starts or goes on without seeing a cancellation the API confirmed.
CancelSurvivesRestart ==
  promise.cancel => \A t \in Threads : pc[t] = "running" => loc[t].ev \in raised

\* When all threads are done, the manifest says what memory says.
DiskAgrees == Quiet => disk = ManifestFor(job, raised)

\* A job that is queued or processing reaches a status at rest, through
\* cancellations, retries and restarts, if no manifest write fails.
Settles ==
  (service \in {"up", "down"} /\ job.status \in Active)
    ~> (service \in {"empty", "lost"} \/ (service = "up" /\ job.status \notin Active))
-----------------------------------------------------------------------------
(***************************************************************************)
(* The strengthening of OneRun, FreshAttempt and AttemptMonotonic that is  *)
(* inductive while nobody cancels and clients are patient.                 *)
(***************************************************************************)
Writing(t, next) == pc[t] = "commit" /\ loc[t].next = next

\* Nobody works on the job: the attempt in memory is the durable one.
AtRest ==
  /\ \A t \in Threads : pc[t] = "idle"
  /\ service = "empty" => disk = Nil
  /\ service = "up" => disk # Nil /\ job.attempt = disk.attempt

\* Thread t alone works on the job, the status in memory tells how far it is,
\* and the attempt in memory is the durable one except while it is being saved.
Owned(t) ==
  /\ service = "up"
  /\ \A u \in Threads : pc[u] # "idle" <=> u = t
  /\ t # Api => /\ pc[t] \notin {"schedule", "settle"}
                /\ pc[t] = "commit" => loc[t].next \in {"launch", "running", "leave"}
                /\ pc[t] \in {"waiting", "entered", "checked"} => job.status = "queued"
  /\ pc[t] = "schedule" \/ Writing(t, "schedule") => job.status = "queued"
  /\ InsideRun(t) => job.status = "processing" /\ loc[t].attempt = job.attempt
  /\ disk = Nil <=> Writing(t, "schedule") /\ loc[t].kind = "create"
  /\ Writing(t, "launch")
       => job.attempt = disk.attempt + 1 /\ loc[t].before.attempt = disk.attempt
  /\ disk # Nil /\ ~Writing(t, "launch") => job.attempt = disk.attempt
  /\ pc[t] = "commit" => loc[t].doc # Nil /\ loc[t].doc.attempt = job.attempt

\* No workbook belongs to an attempt that is not durable.
FilesBelowDisk ==
  \A f \in files : f[1] # "completed" => disk # Nil /\ f[2] <= disk.attempt

\* With patient clients and no cancellation, at most one thread works on the
\* job, and every workbook belongs to an attempt the manifest knows of.
CalmInv == FilesBelowDisk /\ (AtRest \/ \E t \in Threads : Owned(t))
=============================================================================
