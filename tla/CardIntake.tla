------------------------------ MODULE CardIntake ------------------------------
(***************************************************************************)
(* How drawing-card jobs come and go: create_job with its idempotency      *)
(* keys, the retention of finished jobs, and what a restart takes back     *)
(* from the manifest store.  What a job does in between is DrawingCardJob. *)
(*                                                                         *)
(* A request is its idempotency key and what is uploaded under it, a       *)
(* manifest is a record of the job as it was persisted.  Every block of    *)
(* create_job under the service's lock is one step.  Workers, retries and  *)
(* pruning hold no lock: they move one access to the shared tables at a    *)
(* time, and a record lives on for whoever still holds it.                 *)
(***************************************************************************)
EXTENDS Naturals, FiniteSets, SequencesExt

CONSTANTS
  Client,       \* callers of create_job, in threads of their own
  Pruner,       \* threads that prune: the workers, and the API after an apply
  Request,      \* what they ask for: a key and the content uploaded under it
  Key, Job,     \* keys, and the job identifiers that may be drawn
  MaxRetained,  \* MAX_RETAINED_TERMINAL_JOBS
  MaxLoaded,    \* MAX_LOADED_JOBS
  MaxAsks, MaxTime, MaxFailures, MaxRestarts, MaxRetries, NoJob

VARIABLES
  jobs,         \* the record of every job, in memory or in the hands of a thread
  table,        \* _jobs: the jobs that can be found
  manifests,    \* the records on disk
  unsaved,      \* what the worker of each job has changed and not yet persisted
  idempotency,  \* _idempotency: the job of each key
  pending,      \* _pending_idempotency: the reservation of each key
  signalled,    \* reservations whose event is set
  caller,       \* local state of each client
  pruner,       \* local state of each pruning thread
  retry,        \* local state of retry_job, which the event loop serves
  robbed,       \* history: keys whose entry was popped for another job's
  overtaken,    \* history: jobs retried while a thread had them listed as finished
  intake        \* the clock and how much of each bound is used

recordVars  == <<jobs, table, manifests, unsaved>>
keyVars     == <<idempotency, pending, signalled>>
pruningVars == <<pruner, robbed>>
retryVars   == <<retry, overtaken>>
intakeVars  == <<recordVars, keyVars, caller, pruningVars, retryVars, intake>>

\* One status stands for queued, processing and review_required, one for all others.
Active   == {"queued"}
Terminal == {"ready"}
Reserved == 1..MaxAsks
Document == [key : Key, content : {r.content : r \in Request},
             status : Active \cup Terminal, updated : 0..MaxTime]

Caller   == [pc : {"idle", "wait", "prepare", "launch", "rollback"},
             request : Request \cup {NoJob}, reservation : Reserved \cup {NoJob},
             job : Job \cup {NoJob}, answer : Job \cup {NoJob}, owner : BOOLEAN]
Nobody   == [pc |-> "idle", request |-> NoJob, reservation |-> NoJob,
             job |-> NoJob, answer |-> NoJob, owner |-> FALSE]
Usage    == [now : 0..MaxTime, asks : 0..MaxAsks, drawn : SUBSET Job, failures : 0..MaxFailures,
             restarts : 0..MaxRestarts, retries : 0..MaxRetries]

\* What is left of the list, and the job in hand with what is done to it next.
Pruning  == [todo : SUBSET Job, job : Job \cup {NoJob}, next : {"record", "test", "key", "manifest"}]
NoList   == [todo |-> {}, job |-> NoJob, next |-> "record"]

\* The job found, and from when it is queued its snapshot.
Retrying == [job : Job \cup {NoJob}, before : Document \cup {NoJob}]

IntakeTypeOK ==
  /\ {jobs, manifests, unsaved} \subseteq [Job -> Document \cup {NoJob}]
  /\ table \subseteq Job
  /\ idempotency \in [Key -> Job \cup {NoJob}]
  /\ pending \in [Key -> Reserved \cup {NoJob}]
  /\ signalled \subseteq Reserved
  /\ caller \in [Client -> Caller]
  /\ pruner \in [Pruner -> Pruning] /\ robbed \subseteq Key
  /\ retry \in Retrying /\ overtaken \subseteq Job
  /\ intake \in Usage

\* Job identifiers are ordered, requests have keys, NoJob is nothing else.
IntakeConstants ==
  /\ Job \subseteq Nat
  /\ \A r \in Request : r.key \in Key
  /\ {MaxAsks, MaxTime, MaxFailures, MaxRestarts, MaxRetries} \subseteq Nat
  /\ {MaxRetained, MaxLoaded} \subseteq Nat \ {0}
  /\ NoJob \notin Job /\ NoJob \notin Request /\ NoJob \notin Document /\ NoJob \notin Reserved
ASSUME IntakeAssumption == IntakeConstants

Known(docs)    == {j \in Job : docs[j] # NoJob}
KeyOf(c)       == caller[c].request.key
ContentOf(c)   == caller[c].request.content
InMemory       == [j \in Job |-> IF j \in table THEN jobs[j] ELSE NoJob]
Finished(docs) == {j \in Known(docs) : docs[j].status \in Terminal}

\* (updated_at, job_id): two jobs may be written within one tick of the clock.
Older(docs, i, j) == \/ docs[i].updated < docs[j].updated
                     \/ docs[i].updated = docs[j].updated /\ i < j
Newest(docs, S, n) == {j \in S : Cardinality({i \in S : Older(docs, j, i)}) < n}

IntakeInit ==
  /\ jobs = [j \in Job |-> NoJob] /\ table = {} /\ manifests = jobs /\ unsaved = jobs
  /\ idempotency = [k \in Key |-> NoJob] /\ pending = idempotency
  /\ signalled = {}
  /\ caller = [c \in Client |-> Nobody]
  /\ pruner = [p \in Pruner |-> NoList] /\ robbed = {}
  /\ retry = [job |-> NoJob, before |-> NoJob] /\ overtaken = {}
  /\ intake = [now |-> 0, asks |-> 0, drawn |-> {}, failures |-> 0, restarts |-> 0, retries |-> 0]

CallerAt(c, l) == caller[c].pc = l

\* A write or a system call that raises.
Fails == /\ intake.failures < MaxFailures
         /\ intake' = [intake EXCEPT !.failures = @ + 1]

\* create_job returns job j to c, or raises when j is NoJob.
Returns(c, j, own) ==
  caller' = [caller EXCEPT ![c] =
    [pc |-> "idle", request |-> IF j = NoJob THEN NoJob ELSE @.request,
     reservation |-> NoJob, job |-> NoJob, answer |-> j, owner |-> own]]

\* Bug: whoever knows the key gets the job.
ReturnsAny(c, j) == Returns(c, j, FALSE)

\* get_job and _same_idempotent_request: a job that is not found is an error,
\* another upload under the key a conflict.
ReturnsExisting(c, j) ==
  Returns(c, IF j \in table /\ jobs[j].content = ContentOf(c) THEN j ELSE NoJob, FALSE)

\* The reservation of key k is popped, and its event set.
Release(k) == /\ pending' = [pending EXCEPT ![k] = NoJob]
              /\ signalled' = signalled \cup ({pending[k]} \ {NoJob})

-----------------------------------------------------------------------------
(* create_job.                                                             *)

\* Bug: a reservation of somebody else is not looked for.
AskAnyway(c, request) ==
  /\ CallerAt(c, "idle") /\ intake.asks < MaxAsks
  /\ idempotency[request.key] = NoJob
  /\ intake' = [intake EXCEPT !.asks = @ + 1]
  /\ pending' = [pending EXCEPT ![request.key] = intake.asks + 1]
  /\ caller' = [caller EXCEPT ![c] = [@ EXCEPT !.pc = "prepare", !.request = request,
                                !.reservation = intake.asks + 1, !.answer = NoJob]]
  /\ UNCHANGED <<recordVars, idempotency, signalled, pruningVars, retryVars>>

\* The first block under the lock: an existing job, a reservation to wait for,
\* or a reservation of one's own, numbered as its Event is new.
Ask(c, request) ==
  /\ CallerAt(c, "idle") /\ intake.asks < MaxAsks
  /\ LET number == intake.asks + 1
         found  == idempotency[request.key]
         held   == pending[request.key]
         same   == found \in table /\ jobs[found].content = request.content
         goes(l, r, j) == caller' = [caller EXCEPT ![c] =
           [pc |-> l, request |-> IF l = "idle" /\ j = NoJob THEN NoJob ELSE request,
            reservation |-> r, job |-> NoJob, answer |-> j, owner |-> FALSE]]
     IN  /\ intake' = [intake EXCEPT !.asks = number]
         /\ \/ /\ found # NoJob
               /\ goes("idle", NoJob, IF same THEN found ELSE NoJob)
               /\ UNCHANGED pending
            \/ /\ found = NoJob /\ held = NoJob
               /\ pending' = [pending EXCEPT ![request.key] = number]
               /\ goes("prepare", number, NoJob)
            \/ /\ found = NoJob /\ held # NoJob
               /\ goes("wait", held, NoJob)
               /\ UNCHANGED pending
  /\ UNCHANGED <<recordVars, idempotency, signalled, pruningVars, retryVars>>

\* A waiter wakes up and looks for the job again.
Wake(c) ==
  /\ CallerAt(c, "wait") /\ caller[c].reservation \in signalled
  /\ LET found == idempotency[KeyOf(c)]
     IN  IF found = NoJob THEN Returns(c, NoJob, FALSE) ELSE ReturnsExisting(c, found)
  /\ UNCHANGED <<recordVars, keyVars, pruningVars, retryVars, intake>>

\* The job's directory is made before the try: its failure reaches the caller
\* and leaves the reservation behind.
MakeDirectoryFails(c) ==
  /\ CallerAt(c, "prepare") /\ Fails /\ Returns(c, NoJob, FALSE)
  /\ UNCHANGED <<recordVars, keyVars, pruningVars, retryVars>>

WriteSourcesFails(c) ==
  /\ CallerAt(c, "prepare") /\ Fails
  /\ caller' = [caller EXCEPT ![c].pc = "rollback"]
  /\ UNCHANGED <<recordVars, keyVars, pruningVars, retryVars>>

\* The job is known, its key taken and its waiters woken, then it is persisted,
\* all under the lock.  persisted is what became of the manifest.
Publish(c, j, persisted) ==
  /\ CallerAt(c, "prepare") /\ j \notin intake.drawn
  /\ LET document == [key |-> KeyOf(c), content |-> ContentOf(c),
                      status |-> "queued", updated |-> intake.now]
     IN  /\ jobs' = [jobs EXCEPT ![j] = document]
         /\ manifests' = IF persisted THEN [manifests EXCEPT ![j] = document] ELSE manifests
  /\ table' = table \cup {j}
  /\ idempotency' = [idempotency EXCEPT ![KeyOf(c)] = j]
  /\ Release(KeyOf(c))
  /\ UNCHANGED <<unsaved, pruningVars, retryVars>>

PublishSaved(c, j) ==
  /\ Publish(c, j, TRUE)
  /\ caller' = [caller EXCEPT ![c].pc = "launch", ![c].job = j]
  /\ intake' = [intake EXCEPT !.drawn = @ \cup {j}]

\* _persist_job raises, before the manifest is replaced or after it.
PublishFails(c, j) ==
  /\ \E persisted \in BOOLEAN : Publish(c, j, persisted)
  /\ caller' = [caller EXCEPT ![c].pc = "rollback", ![c].job = j]
  /\ intake.failures < MaxFailures
  /\ intake' = [intake EXCEPT !.drawn = @ \cup {j}, !.failures = @ + 1]

Launch(c) ==
  /\ CallerAt(c, "launch") /\ Returns(c, caller[c].job, TRUE)
  /\ UNCHANGED <<recordVars, keyVars, pruningVars, retryVars, intake>>

LaunchFails(c) ==
  /\ CallerAt(c, "launch") /\ Fails
  /\ caller' = [caller EXCEPT ![c].pc = "rollback"]
  /\ UNCHANGED <<recordVars, keyVars, pruningVars, retryVars>>

\* The except branch: the job and its key are taken back, its directory removed.
\* Whatever the key names or reserves by then goes with them.
Rollback(c) ==
  /\ CallerAt(c, "rollback")
  /\ LET j == caller[c].job
         without(docs) == [i \in Job |-> IF i = j THEN NoJob ELSE docs[i]]
     IN  jobs' = without(jobs) /\ manifests' = without(manifests) /\ table' = table \ {j}
  /\ idempotency' = [idempotency EXCEPT ![KeyOf(c)] = NoJob]
  /\ Release(KeyOf(c)) /\ Returns(c, NoJob, FALSE)
  /\ UNCHANGED <<unsaved, pruningVars, retryVars, intake>>

-----------------------------------------------------------------------------
(* The life of a job, as far as retention sees it.                         *)

\* A job nobody is creating any more.
Launched(j) == j \in Known(jobs) /\ \A c \in Client : caller[c].job # j

\* A worker sets the status of its job and the time, then persists what it finds
\* in the record: in DrawingCardJob every step of that.  A review is applied and
\* goes on or ends.  Whether the job can be found does not matter.
WorkerSets(j) ==
  /\ Launched(j) /\ jobs[j].status \in Active /\ retry.job # j /\ unsaved[j] = NoJob
  /\ \E status \in Active \cup Terminal :
       LET document == [jobs[j] EXCEPT !.status = status, !.updated = intake.now]
       IN  /\ document # jobs[j]
           /\ jobs' = [jobs EXCEPT ![j] = document] /\ unsaved' = [unsaved EXCEPT ![j] = document]
  /\ UNCHANGED <<table, manifests, keyVars, caller, pruningVars, retryVars, intake>>

\* The document is composed right after the change or right before it is stored.
WorkerSaves(j) ==
  /\ unsaved[j] # NoJob
  /\ \E document \in {unsaved[j], jobs[j]} : manifests' = [manifests EXCEPT ![j] = document]
  /\ unsaved' = [unsaved EXCEPT ![j] = NoJob]
  /\ UNCHANGED <<jobs, table, keyVars, caller, pruningVars, retryVars, intake>>

Tick ==
  /\ intake.now < MaxTime
  /\ intake' = [intake EXCEPT !.now = @ + 1]
  /\ UNCHANGED <<recordVars, keyVars, caller, pruningVars, retryVars>>

-----------------------------------------------------------------------------
(* _prune_terminal_jobs.  It takes no lock.                                *)

\* Bug: active jobs count among those that may go.
PrunedAny(docs, keep) == Known(docs) \ Newest(docs, Known(docs), keep)

\* The finished jobs but the newest ones.
Pruned(docs, keep) == Finished(docs) \ Newest(docs, Finished(docs), keep)

Hands(p, job, next) == pruner' = [pruner EXCEPT ![p].job = job, ![p].next = next]

\* Listed are the finished jobs of the moment; the oldest go first, here any.
ListTerminal(p) ==
  /\ pruner[p] = NoList /\ Pruned(InMemory, MaxRetained) # {}
  /\ pruner' = [pruner EXCEPT ![p].todo = Pruned(InMemory, MaxRetained)]
  /\ UNCHANGED <<recordVars, keyVars, caller, robbed, retryVars, intake>>

\* The next job leaves the table, whatever its record says by now.
PopRecord(p, j) ==
  /\ pruner[p].next = "record" /\ j \in pruner[p].todo
  /\ table' = table \ {j}
  /\ pruner' = [pruner EXCEPT ![p] = [todo |-> @.todo \ {j}, job |-> j, next |-> "test"]]
  /\ UNCHANGED <<jobs, manifests, unsaved, keyVars, caller, robbed, retryVars, intake>>

\* Is the job in hand the one its key names?
TestKey(p) ==
  /\ pruner[p].next = "test"
  /\ LET j == pruner[p].job
     IN  Hands(p, j, IF idempotency[jobs[j].key] = j THEN "key" ELSE "manifest")
  /\ UNCHANGED <<recordVars, keyVars, caller, robbed, retryVars, intake>>

\* Bug: the key is left to the job that is gone.
KeepKey(p) ==
  /\ pruner[p].next = "key" /\ Hands(p, pruner[p].job, "manifest")
  /\ UNCHANGED <<recordVars, keyVars, caller, robbed, retryVars, intake>>

\* The entry of the key is popped, whatever job it names by now.
PopKey(p) ==
  /\ pruner[p].next = "key"
  /\ LET j == pruner[p].job
         k == jobs[j].key
     IN  /\ idempotency' = [idempotency EXCEPT ![k] = NoJob]
         /\ robbed' = IF idempotency[k] \in {j, NoJob} THEN robbed ELSE robbed \cup {k}
         /\ Hands(p, j, "manifest")
  /\ UNCHANGED <<recordVars, pending, signalled, caller, retryVars, intake>>

\* The manifest is deleted, or that fails and delete reports it by FALSE.
DeleteManifest(p) ==
  /\ pruner[p].next = "manifest" /\ Hands(p, NoJob, "record")
  /\ \/ manifests' = [manifests EXCEPT ![pruner[p].job] = NoJob] /\ UNCHANGED intake
     \/ UNCHANGED manifests /\ Fails
  /\ UNCHANGED <<jobs, table, unsaved, keyVars, caller, robbed, retryVars>>

-----------------------------------------------------------------------------
(* retry_job.                                                              *)

\* get_job and the test of the status.
RetryFinds(j) ==
  /\ retry.job = NoJob /\ intake.retries < MaxRetries
  /\ j \in table /\ jobs[j].status \in Terminal
  /\ retry' = [retry EXCEPT !.job = j]
  /\ intake' = [intake EXCEPT !.retries = @ + 1]
  /\ UNCHANGED <<recordVars, keyVars, caller, pruningVars, overtaken>>

\* The record found is queued, wherever it is listed or gone from by then.
RetryQueues ==
  /\ retry.job # NoJob /\ retry.before = NoJob
  /\ LET j == retry.job
     IN  /\ retry' = [retry EXCEPT !.before = jobs[j]]
         /\ jobs' = [jobs EXCEPT ![j].status = "queued", ![j].updated = intake.now]
         /\ overtaken' = IF \E p \in Pruner : j \in pruner[p].todo \cup {pruner[p].job}
                         THEN overtaken \cup {j} ELSE overtaken
  /\ UNCHANGED <<table, manifests, unsaved, keyVars, caller, pruningVars, intake>>

\* The manifest is written and the job scheduled.
RetrySaved ==
  /\ retry.before # NoJob
  /\ manifests' = [manifests EXCEPT ![retry.job] = jobs[retry.job]]
  /\ retry' = [job |-> NoJob, before |-> NoJob]
  /\ UNCHANGED <<jobs, table, unsaved, keyVars, caller, pruningVars, overtaken, intake>>

\* _persist_job raises, before the manifest is replaced or after it: the snapshot
\* is restored.
RetryFails ==
  /\ retry.before # NoJob /\ Fails
  /\ manifests' \in {manifests, [manifests EXCEPT ![retry.job] = jobs[retry.job]]}
  /\ jobs' = [jobs EXCEPT ![retry.job] = retry.before]
  /\ retry' = [job |-> NoJob, before |-> NoJob]
  /\ UNCHANGED <<table, unsaved, keyVars, caller, pruningVars, overtaken>>

-----------------------------------------------------------------------------
(* Restart.                                                                *)

\* Bug: an item that is older than the oldest retained one replaces it.
RetainAny(docs, kept, j, limit) ==
  IF Cardinality(kept) < limit THEN kept \cup {j}
  ELSE (kept \ {CHOOSE i \in kept : \A h \in kept \ {i} : Older(docs, i, h)}) \cup {j}

\* _retain_restored_job: a bounded heap with the oldest retained job on top.
Retain(docs, kept, j, limit) ==
  IF Cardinality(kept) < limit THEN kept \cup {j}
  ELSE LET oldest == CHOOSE i \in kept : \A h \in kept \ {i} : Older(docs, i, h)
       IN  IF Older(docs, oldest, j) THEN (kept \ {oldest}) \cup {j} ELSE kept

\* One pass over the directory, in the order the file system lists it: what is
\* retained after the first n manifests.
Retained(docs, listing, S, limit) ==
  LET kept[n \in 0 .. Len(listing)] ==
        IF n = 0 THEN {}
        ELSE IF listing[n] \in S THEN Retain(docs, kept[n - 1], listing[n], limit) ELSE kept[n - 1]
  IN  kept[Len(listing)]

\* _restore_jobs of the manifests docs, listed in some order: what is selected,
\* active jobs first, and of every key only the first one.
Selected(docs, listing) ==
  LET running  == Retained(docs, listing, Known(docs) \ Finished(docs), MaxLoaded)
      finished == Retained(docs, listing, Finished(docs), MaxRetained)
  IN  running \cup Newest(docs, finished, MaxLoaded - Cardinality(running))

Before(docs, i, j) == \/ docs[i].status \in Active /\ docs[j].status \in Terminal
                      \/ /\ (docs[i].status \in Active) = (docs[j].status \in Active)
                         /\ Older(docs, j, i)

Duplicates(docs, S) == {j \in S : \E i \in S : docs[i].key = docs[j].key /\ Before(docs, i, j)}

\* The process dies and comes back: every running job is queued again, the
\* callers are answered by nobody, retention is enforced once more.
RestoreJobs(listing) ==
  /\ intake.restarts < MaxRestarts
  /\ LET chosen == Selected(manifests, listing)
         kept   == chosen \ Duplicates(manifests, chosen)
         lost   == (Finished(manifests) \cup chosen) \ kept
     IN  /\ jobs' = [j \in Job |-> IF j \in kept THEN manifests[j] ELSE NoJob]
         /\ manifests' = [j \in Job |-> IF j \in lost THEN NoJob ELSE manifests[j]]
         /\ table' = kept
  /\ unsaved' = [j \in Job |-> NoJob]
  /\ idempotency' = [k \in Key |->
       IF \E j \in table' : jobs'[j].key = k THEN CHOOSE j \in table' : jobs'[j].key = k ELSE NoJob]
  /\ pending' = [k \in Key |-> NoJob] /\ signalled' = {}
  /\ caller' = [c \in Client |-> Nobody]
  /\ pruner' = [p \in Pruner |-> NoList] /\ robbed' = {}
  /\ retry' = [job |-> NoJob, before |-> NoJob] /\ overtaken' = {}
  /\ intake' = [intake EXCEPT !.restarts = @ + 1]

IntakeNext ==
  \/ \E c \in Client, request \in Request : Ask(c, request)
  \/ \E c \in Client : \/ Wake(c) \/ MakeDirectoryFails(c) \/ WriteSourcesFails(c)
                       \/ Launch(c) \/ LaunchFails(c) \/ Rollback(c)
  \/ \E c \in Client, j \in Job : PublishSaved(c, j) \/ PublishFails(c, j)
  \/ \E j \in Job : WorkerSets(j) \/ WorkerSaves(j) \/ RetryFinds(j)
  \/ \E p \in Pruner : \/ ListTerminal(p) \/ TestKey(p) \/ PopKey(p) \/ DeleteManifest(p)
                       \/ \E j \in Job : PopRecord(p, j)
  \/ RetryQueues \/ RetrySaved \/ RetryFails \/ Tick
  \/ \E listing \in SetToSeqs(Known(manifests)) : RestoreJobs(listing)

IntakeSpec == IntakeInit /\ [][IntakeNext]_intakeVars

-----------------------------------------------------------------------------
(* Properties.                                                             *)

\* However callers with one key interleave and fail, at most one job in memory has
\* the key, and the key names that job, but for a key whose entry was popped for
\* another job than the one it named.
OneJobPerKey ==
  \A j \in table : jobs[j].key \notin robbed => idempotency[jobs[j].key] = j

\* A key leads to a job that has it and can be found, unless a thread that has
\* just pruned the job is about to look at the key.
KeyLeads ==
  \A k \in Key : idempotency[k] # NoJob =>
    LET j == idempotency[k]
    IN  /\ j \in Known(jobs) /\ jobs[j].key = k
        /\ \/ j \in table
           \/ \E p \in Pruner : pruner[p].job = j /\ pruner[p].next \in {"test", "key"}

\* Whoever is answered, as creator, as waiter or later, is answered with a job
\* that has its key and the very content it uploaded.
AnswerMatches ==
  \A c \in Client :
    LET j == caller[c].answer
    IN  j # NoJob /\ j \in Known(jobs)
          => jobs[j].key = KeyOf(c) /\ jobs[j].content = ContentOf(c)

\* Until the next restart a job leaves the table under the caller it was given to
\* only when it has finished, or was retried after it was listed for pruning.
StaysFor(callers) ==
  \A c \in callers :
    LET j == caller[c].answer
    IN  j \in table \ table' => jobs[j].status \in Terminal \/ j \in overtaken

\* The caller that created a job keeps it: what fails afterwards is not its
\* creation.
CreatorKeepsJob ==
  intake'.restarts = intake.restarts => StaysFor({c \in Client : caller[c].owner})

\* No job whose worker may still run leaves the table, unless it was retried while
\* listed as finished.  No manifest of such a job is deleted, except that its
\* creation is taken back, its record says that it has ended, or it was retried
\* while listed; at a restart an older job of the same key gives way and what
\* exceeds the bound stays on disk.
ActiveIsKept ==
  \A j \in Job :
       /\ j \in table /\ Launched(j) /\ jobs[j].status \in Active /\ intake'.restarts = intake.restarts
            => j \in table' \/ j \in overtaken
       /\ j \in Known(manifests) /\ manifests[j].status \in Active /\ j \notin Known(manifests')
            => \/ \E c \in Client : caller[c].pc = "rollback" /\ caller[c].job = j
               \/ /\ intake'.restarts = intake.restarts
                  /\ jobs[j].status \in Terminal \/ j \in overtaken
               \/ \E i \in table' : /\ manifests[i].key = manifests[j].key
                                    /\ Before(manifests, i, j)

\* Whatever order the directory is listed in, a restart keeps the newest
\* finished jobs: nothing it deletes is newer than a finished job it keeps,
\* unless an active or newer job has its key.
RestartKeepsNewest ==
  intake'.restarts > intake.restarts =>
       \A i \in Finished(manifests) \ Known(manifests') :
         \/ \A j \in table' \cap Finished(manifests) : Older(manifests, i, j)
         \/ \E j \in table' : manifests[j].key = manifests[i].key

\* create_job keeps its promise to every caller of a key.
CreationIsIdempotent == OneJobPerKey /\ KeyLeads /\ AnswerMatches

\* What pruning, rolled back creations and restarts never take away.
RetentionStands == [][CreatorKeepsJob /\ ActiveIsKept /\ RestartKeepsNewest]_intakeVars

\* No key loses the entry of a job that somebody created meanwhile.  The code
\* breaks this: the test of the key and the pop are two steps of a thread without
\* a lock, so two of them may prune one job, and the slower takes the key away
\* from the job that a client has put in its place.
NoKeyIsRobbed == robbed = {}

\* No job is pruned that was retried.  The code breaks this: it lists the finished
\* jobs first, and retry_job may queue one of them before its record is popped.
RetriedJobStays ==
  [][\A j \in table : jobs[j].status \in Active /\ Launched(j)
                       /\ intake'.restarts = intake.restarts => j \in table']_intakeVars

\* A caller that waits has somebody to wake it: its reservation is signalled or
\* its owner is still at work.  The code breaks this when the directory of the
\* owner cannot be made.
WaiterIsServed ==
  \A c \in Client : CallerAt(c, "wait") =>
    \/ caller[c].reservation \in signalled
    \/ \E o \in Client : /\ caller[o].pc \in {"prepare", "rollback"}
                         /\ caller[o].reservation = caller[c].reservation

\* So does every other caller that was given the job.  The code breaks this: the
\* key is taken before the job is persisted, so who asks in between is left with
\* a job that its creator takes back.
AnsweredKeepsJob ==
  [][intake'.restarts = intake.restarts => StaysFor(Client)]_intakeVars
===============================================================================
