------------------------- MODULE ReconciliationApply -------------------------
(***************************************************************************)
(* AdminPanelService: reconciliation jobs on one target workbook, from     *)
(* upload to published result.  Each job has a record in memory, a         *)
(* manifest, an autosave of the operator's decisions and an output         *)
(* workbook; all of them share the target's feedback table in SQLite.      *)
(*                                                                         *)
(* The whole set of decisions of a review is one Choice; a review that is  *)
(* not fully decided has NoChoice.  A workbook is the Choice it was        *)
(* written from, and so is its digest.                                     *)
(***************************************************************************)
EXTENDS Naturals, Sequences, FiniteSets

CONSTANTS
  Job, Choice,
  NoChoice,   \* no decision, no plan, no digest
  NoFile,     \* no autosave, no output
  Changed,    \* an output somebody edited, replaced or re-moded
  Earlier,    \* a job applied before this history starts
  Retained,   \* MAX_RETAINED_TERMINAL_JOBS
  MaxCrashes, MaxFaults, MaxTampers

ASSUME ConstantsOK ==
  /\ Choice \cap {NoChoice, NoFile, Changed} = {}
  /\ NoChoice # NoFile
  /\ Earlier \notin Job
  /\ {Retained, MaxCrashes, MaxFaults, MaxTampers} \subseteq Nat

VARIABLES
  up,         \* "down", "starting" (in __init__) or "serving"
  todo,       \* manifests that __init__ still has to recover
  mem,        \* self.jobs
  pc,         \* where the job's operation is; the job's lock is free at "idle"
  manifest,   \* job-manifest.json
  autosave,   \* reconciliation-review.json
  output,     \* result.xlsx
  tampered,   \* jobs whose uploads no longer have their recorded digests
  feedback,   \* rows of reconciliation_feedback, one per applied choice
  applies,    \* rows of reconciliation_applies
  spent       \* how much of each bound is used

disk == <<manifest, autosave, output, tampered>>
db   == <<feedback, applies>>
vars == <<up, todo, mem, pc, manifest, autosave, output, tampered, feedback,
          applies, spent>>

-----------------------------------------------------------------------------
MaybeChoice == Choice \cup {NoChoice}
Status   == {"pending", "review_required", "applying", "ready", "failed"}
Terminal == {"ready", "failed"}

Record    == [status : Status \cup {"absent"}, choice : MaybeChoice, plan : MaybeChoice]
Manifest  == [status : Status \cup {"none"}, plan : MaybeChoice, digest : MaybeChoice]
Entry     == [job : Job \cup {Earlier}, choice : Choice]
Apply     == [job : Job, choice : Choice, digest : Choice]
Control   == {"idle", "prepare", "write", "plan", "commit", "publish", "settle"}

Absent        == [status |-> "absent", choice |-> NoChoice, plan |-> NoChoice]
NoManifest    == [status |-> "none", plan |-> NoChoice, digest |-> NoChoice]
Plain(s)      == [status |-> s, plan |-> NoChoice, digest |-> NoChoice]
Planned(c)    == [status |-> "applying", plan |-> c, digest |-> c]
Published(c)  == [status |-> "ready", plan |-> NoChoice, digest |-> c]

TypeOK ==
  /\ up \in {"down", "starting", "serving"}
  /\ todo \subseteq Job
  /\ mem \in [Job -> Record]
  /\ pc \in [Job -> Control]
  /\ manifest \in [Job -> Manifest]
  /\ autosave \in [Job -> MaybeChoice \cup {NoFile}]
  /\ output \in [Job -> Choice \cup {NoFile, Changed}]
  /\ tampered \subseteq Job
  /\ feedback \in Seq(Entry)
  /\ applies \subseteq Apply
  /\ spent \in [crashes : 0..MaxCrashes, faults : 0..MaxFaults, tampers : 0..MaxTampers]

-----------------------------------------------------------------------------
(* A write or a transaction either happens or raises and costs one fault.  *)
NoFault == UNCHANGED spent
Fault   == spent.faults < MaxFaults /\ spent' = [spent EXCEPT !.faults = @ + 1]

Goto(j, l) == pc' = [pc EXCEPT ![j] = l]

\* _verify_inputs.
Intact(j) == j \notin tampered

\* _verify_apply_artifacts, the precommit validator.
ArtifactsOK(j, digest) == Intact(j) /\ output[j] = digest

\* The feedback a new review starts from: the highest sequence wins.
Latest == IF feedback = <<>> THEN NoChoice ELSE feedback[Len(feedback)].choice

\* Bug: the review takes the autosave without asking whether there is one.
RebuiltUnchecked(j) == autosave[j]

\* Bug: a rebuilt review forgets the autosave.
RebuiltFromFeedback(j) == Latest

\* _prepare_job_review: feedback first, then an autosave replaces it wholesale.
Rebuilt(j) == IF autosave[j] = NoFile THEN Latest ELSE autosave[j]

\* Bug: the transaction does not look its apply key up.
KnownNever(j, c) == FALSE

\* The apply key is the job and its decisions; the payload binds the digest.
Known(j, c)       == \E a \in applies : a.job = j /\ a.choice = c
Conflict(j, c, d) == \E a \in applies : a.job = j /\ a.choice = c /\ a.digest # d

\* commit_apply: one transaction appends the feedback and records the apply.
CommitApply(j, c, d) ==
  /\ ~Conflict(j, c, d)
  /\ ArtifactsOK(j, d)
  /\ applies' = applies \cup {[job |-> j, choice |-> c, digest |-> d]}
  /\ feedback' = IF Known(j, c) THEN feedback
                 ELSE Append(feedback, [job |-> j, choice |-> c])

\* _prune_terminal_jobs forgets finished jobs beyond the limit; which of them
\* is the order of the dictionary, left open here.
Prunable(m, dropped) ==
  LET terminal == {k \in Job : m[k].status \in Terminal}
      active   == {k \in Job : m[k].status \notin Terminal \cup {"absent"}}
      room     == IF Cardinality(active) >= Retained THEN 0
                  ELSE Retained - Cardinality(active)
  IN  /\ dropped \subseteq terminal
      /\ Cardinality(terminal \ dropped)
           = IF Cardinality(terminal) <= room THEN Cardinality(terminal) ELSE room

Without(m, dropped) == [k \in Job |-> IF k \in dropped THEN Absent ELSE m[k]]

-----------------------------------------------------------------------------
\* The feedback of the target may already hold a choice of an earlier job.
Init ==
  /\ up = "down" /\ todo = {}
  /\ mem = [j \in Job |-> Absent]
  /\ pc = [j \in Job |-> "idle"]
  /\ manifest = [j \in Job |-> NoManifest]
  /\ autosave = [j \in Job |-> NoFile]
  /\ output = [j \in Job |-> NoFile]
  /\ tampered = {}
  /\ feedback \in {<<>>} \cup {<<[job |-> Earlier, choice |-> c]>> : c \in Choice}
  /\ applies = {}
  /\ spent = [crashes |-> 0, faults |-> 0, tampers |-> 0]

(***************************************************************************)
(* Upload.  A job directory holds nothing of an earlier job: identifiers   *)
(* are random, so a name is taken again only when no file bears it.        *)
(***************************************************************************)
\* create_job: the record and a manifest "pending", then "running".
CreateJob(j) ==
  /\ up = "serving" /\ pc[j] = "idle"
  /\ mem[j] = Absent /\ manifest[j] = NoManifest
  /\ output[j] = NoFile /\ autosave[j] = NoFile /\ Intact(j)
  /\ mem' = [mem EXCEPT ![j].status = "pending"]
  /\ manifest' = [manifest EXCEPT ![j] = Plain("pending")]
  /\ Goto(j, "prepare")
  /\ UNCHANGED <<up, todo, autosave, output, tampered, db, spent>>

\* run: the review is built, with decisions taken over from the feedback.
Prepared(j) ==
  /\ pc[j] = "prepare" /\ Intact(j)
  /\ \E dropped \in SUBSET Job :
       LET m == [mem EXCEPT ![j].status = "review_required", ![j].choice = Rebuilt(j)]
       IN  Prunable(m, dropped) /\ mem' = Without(m, dropped)
  /\ manifest' = [manifest EXCEPT ![j] = Plain("review_required")]
  /\ Goto(j, "idle")
  /\ UNCHANGED <<up, todo, autosave, output, tampered, db, spent>>

\* run: preparation failed or the uploads changed; nothing of the job is kept.
PrepareFailed(j) ==
  /\ pc[j] = "prepare"
  /\ \E dropped \in SUBSET Job :
       LET m == [mem EXCEPT ![j].status = "failed"]
       IN  Prunable(m, dropped) /\ mem' = Without(m, dropped)
  /\ manifest' = [manifest EXCEPT ![j] = NoManifest]
  /\ Goto(j, "idle")
  /\ UNCHANGED <<up, todo, autosave, output, tampered, db, spent>>

\* create_job: the last persist raised; the record and the directory go.
CreateFails(j) ==
  /\ pc[j] = "prepare" /\ Fault
  /\ mem' = [mem EXCEPT ![j] = Absent]
  /\ manifest' = [manifest EXCEPT ![j] = NoManifest]
  /\ Goto(j, "idle")
  /\ UNCHANGED <<up, todo, autosave, output, tampered, db>>

(***************************************************************************)
(* Review.                                                                 *)
(***************************************************************************)
\* Any mutator of the review: memory first, then the autosave, which may raise.
Decide(j, c) ==
  /\ up = "serving" /\ pc[j] = "idle"
  /\ mem[j].status = "review_required"
  /\ mem' = [mem EXCEPT ![j].choice = c]
  /\ \/ autosave' = [autosave EXCEPT ![j] = c] /\ NoFault
     \/ UNCHANGED autosave /\ Fault
  /\ UNCHANGED <<up, todo, pc, manifest, output, tampered, db>>

(***************************************************************************)
(* Apply: applying manifest, workbook, durable plan, transaction, ready.   *)
(***************************************************************************)
\* apply_reconciliation: a raising first persist leaves "applying" in memory.
ApplyBegin(j) ==
  /\ up = "serving" /\ pc[j] = "idle"
  /\ mem[j].status = "review_required" /\ mem[j].choice # NoChoice
  /\ mem' = [mem EXCEPT ![j].status = "applying"]
  /\ \/ /\ manifest' = [manifest EXCEPT ![j] = Plain("applying")]
        /\ Goto(j, "write") /\ NoFault
     \/ UNCHANGED <<manifest, pc>> /\ Fault
  /\ UNCHANGED <<up, todo, autosave, output, tampered, db>>

\* The writer publishes result.xlsx, never over another file.
ApplyWrite(j) ==
  /\ pc[j] = "write" /\ Intact(j) /\ output[j] = NoFile
  /\ output' = [output EXCEPT ![j] = mem[j].choice]
  /\ mem' = [mem EXCEPT ![j].plan = mem[j].choice]
  /\ Goto(j, "plan")
  /\ UNCHANGED <<up, todo, manifest, autosave, tampered, db, spent>>

\* Before a plan exists a failure closes the job; the workbook is left behind.
ApplyAborts(j) ==
  /\ pc[j] = "write"
  /\ output' \in {output, [output EXCEPT ![j] = mem[j].choice]}
  /\ mem' = [mem EXCEPT ![j].status = "failed"]
  /\ \/ manifest' = [manifest EXCEPT ![j] = NoManifest] /\ NoFault
     \/ UNCHANGED manifest /\ Fault
  /\ Goto(j, "idle")
  /\ UNCHANGED <<up, todo, autosave, tampered, db>>

\* Bug: the plan is only kept in memory while the transaction runs.
PlanInMemory(j) ==
  /\ pc[j] = "plan" /\ Goto(j, "commit")
  /\ UNCHANGED <<up, todo, mem, disk, db, spent>>

\* The exact replay plan is durable before touching SQLite.
ApplyPlan(j) ==
  /\ pc[j] = "plan"
  /\ \/ /\ manifest' = [manifest EXCEPT ![j] = Planned(mem[j].plan)]
        /\ Goto(j, "commit") /\ NoFault
     \/ UNCHANGED manifest /\ Goto(j, "idle") /\ Fault
  /\ UNCHANGED <<up, todo, mem, autosave, output, tampered, db>>

ApplyCommit(j) ==
  /\ pc[j] = "commit"
  /\ CommitApply(j, mem[j].plan, mem[j].plan)
  /\ Goto(j, "publish")
  /\ UNCHANGED <<up, todo, mem, disk, spent>>

\* Bug: a transaction that raised is taken for one that committed.
CommitFailureIgnored(j) ==
  /\ pc[j] = "commit" /\ Goto(j, "publish")
  /\ \/ ~ArtifactsOK(j, mem[j].plan) /\ NoFault
     \/ Fault
  /\ UNCHANGED <<up, todo, mem, disk, db>>

\* The transaction raised, or its validator did: the job stays "applying".
CommitFails(j) ==
  /\ pc[j] = "commit"
  /\ \/ ~ArtifactsOK(j, mem[j].plan) /\ NoFault
     \/ Fault
  /\ Goto(j, "idle")
  /\ UNCHANGED <<up, todo, mem, disk, db>>

\* The ready manifest first, the status in memory after it.
ApplyPublish(j) ==
  /\ pc[j] = "publish"
  /\ Goto(j, "idle")
  /\ \/ /\ manifest' = [manifest EXCEPT ![j] = Published(mem[j].plan)]
        /\ mem' = [mem EXCEPT ![j].status = "ready", ![j].plan = NoChoice]
        /\ NoFault
     \/ UNCHANGED <<manifest, mem>> /\ Fault
  /\ UNCHANGED <<up, todo, autosave, output, tampered, db>>

(***************************************************************************)
(* Start and recovery.  __init__ recovers the manifests one by one; later  *)
(* get_job recovers a job that is not in memory.                           *)
(***************************************************************************)
Start ==
  /\ up = "down" /\ up' = "starting"
  /\ todo' = {j \in Job : manifest[j] # NoManifest}
  /\ UNCHANGED <<mem, pc, disk, db, spent>>

Serve ==
  /\ up = "starting" /\ todo = {} /\ \A k \in Job : pc[k] = "idle"
  /\ up' = "serving"
  /\ \E dropped \in SUBSET Job : Prunable(mem, dropped) /\ mem' = Without(mem, dropped)
  /\ UNCHANGED <<todo, pc, disk, db, spent>>

MayRecover(j) ==
  /\ pc[j] = "idle" /\ mem[j] = Absent /\ manifest[j] # NoManifest
  /\ \/ up = "starting" /\ j \in todo /\ \A k \in Job : pc[k] = "idle"
     \/ up = "serving"

Interrupted(j) ==
  \/ manifest[j].status = "pending"
  \/ manifest[j].status = "applying" /\ manifest[j].plan = NoChoice

\* The rebuilt decisions must be exactly the planned ones.
Replayable(j) ==
  /\ manifest[j].plan # NoChoice
  /\ ArtifactsOK(j, manifest[j].digest)
  /\ Rebuilt(j) = manifest[j].plan

Recoverable(j) ==
  /\ Intact(j)
  /\ \/ manifest[j].status = "review_required"
     \/ manifest[j].status = "ready" /\ ArtifactsOK(j, manifest[j].digest)
     \/ Interrupted(j)
     \/ Replayable(j)

\* Bug: an interrupted apply is offered for review again.
ReopenApplying(j) ==
  /\ MayRecover(j) /\ Recoverable(j)
  /\ manifest[j].status \in {"review_required", "applying"}
  /\ mem' = [mem EXCEPT ![j].status = "review_required", ![j].choice = Rebuilt(j)]
  /\ todo' = todo \ {j}
  /\ UNCHANGED <<up, pc, disk, db, spent>>

RecoverReview(j) ==
  /\ MayRecover(j) /\ Recoverable(j) /\ manifest[j].status = "review_required"
  /\ mem' = [mem EXCEPT ![j].status = "review_required", ![j].choice = Rebuilt(j)]
  /\ todo' = todo \ {j}
  /\ UNCHANGED <<up, pc, disk, db, spent>>

RecoverReady(j) ==
  /\ MayRecover(j) /\ Recoverable(j) /\ manifest[j].status = "ready"
  /\ mem' = [mem EXCEPT ![j].status = "ready"]
  /\ todo' = todo \ {j}
  /\ UNCHANGED <<up, pc, disk, db, spent>>

\* Interrupted processing is never repeated.
RecoverInterrupted(j) ==
  /\ MayRecover(j) /\ Recoverable(j) /\ Interrupted(j)
  /\ mem' = [mem EXCEPT ![j].status = "failed"]
  /\ \/ manifest' = [manifest EXCEPT ![j] = Plain("failed")] /\ NoFault
     \/ UNCHANGED manifest /\ Fault
  /\ todo' = todo \ {j}
  /\ UNCHANGED <<up, pc, autosave, output, tampered, db>>

\* _recover_applying_job: the transaction of the durable plan is replayed ...
Replay(j) ==
  /\ MayRecover(j) /\ Recoverable(j) /\ Replayable(j)
  /\ CommitApply(j, manifest[j].plan, manifest[j].digest)
  /\ Goto(j, "settle")
  /\ UNCHANGED <<up, todo, mem, disk, spent>>

\* ... and the job is registered as ready before that is persisted.
Settle(j) ==
  /\ pc[j] = "settle"
  /\ mem' = [mem EXCEPT ![j].status = "ready"]
  /\ \/ manifest' = [manifest EXCEPT ![j] = Published(manifest[j].digest)] /\ NoFault
     \/ UNCHANGED manifest /\ Fault
  /\ Goto(j, "idle")
  /\ todo' = todo \ {j}
  /\ UNCHANGED <<up, autosave, output, tampered, db>>

\* A manifest that cannot be recovered now is skipped and stays on disk.
Skip(j) ==
  /\ up = "starting" /\ MayRecover(j)
  /\ \/ ~Recoverable(j) /\ NoFault
     \/ Fault
  /\ todo' = todo \ {j}
  /\ UNCHANGED <<up, mem, pc, disk, db>>

(***************************************************************************)
(* The world.                                                              *)
(***************************************************************************)
Crash ==
  /\ up # "down" /\ spent.crashes < MaxCrashes
  /\ spent' = [spent EXCEPT !.crashes = @ + 1]
  /\ up' = "down" /\ todo' = {}
  /\ mem' = [j \in Job |-> Absent]
  /\ pc' = [j \in Job |-> "idle"]
  /\ UNCHANGED <<disk, db>>

Tamper(j) ==
  /\ manifest[j] # NoManifest
  /\ spent.tampers < MaxTampers
  /\ spent' = [spent EXCEPT !.tampers = @ + 1]
  /\ \/ tampered' = tampered \cup {j} /\ UNCHANGED output
     \/ /\ output[j] \in Choice
        /\ output' = [output EXCEPT ![j] = Changed] /\ UNCHANGED tampered
  /\ UNCHANGED <<up, todo, mem, pc, manifest, autosave, db>>

-----------------------------------------------------------------------------
ApplyStep(j) ==
  ApplyWrite(j) \/ ApplyAborts(j) \/ ApplyPlan(j) \/ ApplyCommit(j)
    \/ CommitFails(j) \/ ApplyPublish(j)

RecoverStep(j) ==
  RecoverReview(j) \/ RecoverReady(j) \/ RecoverInterrupted(j) \/ Replay(j)
    \/ Skip(j)

Next ==
  \/ Start \/ Serve \/ Crash
  \/ \E j \in Job :
       \/ CreateJob(j) \/ Prepared(j) \/ PrepareFailed(j) \/ CreateFails(j)
       \/ \E c \in MaybeChoice : Decide(j, c)
       \/ ApplyBegin(j) \/ ApplyStep(j)
       \/ RecoverStep(j) \/ Settle(j)
       \/ Tamper(j)

Spec == Init /\ [][Next]_vars

\* A crashed service is started again, its constructor runs to the end, and an
\* apply or a replay that has begun goes on.  Nobody owes a look-up or a click.
Fairness ==
  /\ WF_vars(Start) /\ WF_vars(Serve)
  /\ \A j \in Job : /\ WF_vars(up = "starting" /\ RecoverStep(j))
                    /\ WF_vars(Settle(j)) /\ WF_vars(ApplyStep(j))

FairSpec == Spec /\ Fairness

-----------------------------------------------------------------------------
Entered(j) == {i \in DOMAIN feedback : feedback[i].job = j}

\* Write-ahead: feedback of a job stands only beside a manifest that still
\* carries the plan it came from, or the result published from that plan.
\* Covers the order of persist, transaction and publication in
\* apply_reconciliation and every path of recovery.
CommittedIsPlanned ==
  \A j \in Job : \A i \in Entered(j) :
    manifest[j] \in {Planned(feedback[i].choice), Published(feedback[i].choice)}

\* A result that is offered, or that will be offered after a restart, was
\* written from decisions the feedback holds, and from no others.
ReadyIsCommitted ==
  \A j \in Job :
    /\ mem[j].status = "ready" => Entered(j) # {}
    /\ manifest[j].status = "ready" =>
         \E i \in Entered(j) : feedback[i].choice = manifest[j].digest

\* A review that can still be edited has not been applied, in memory or by a
\* restart: decisions never change under feedback that is already shared.
NeverReopened ==
  \A j \in Job :
    mem[j].status = "review_required" =>
      Entered(j) = {} /\ manifest[j] = Plain("review_required")

\* An apply enters the feedback at most once and publishes what it entered,
\* across crashes, raising writes and replays.
Promise == INSTANCE ExactlyOnceApply
             WITH ledger <- feedback,
                  result <- [j \in Job |-> IF manifest[j].status = "ready"
                                           THEN manifest[j].digest ELSE NoChoice]
ExactlyOnce == Promise!Spec

Durable(j) == manifest[j].status = "applying" /\ manifest[j].plan # NoChoice

\* A durable plan whose decisions were autosaved ends as a published result,
\* whatever happens in between, when nobody touches the files.
AutosavedPlanSettles ==
  \A j \in Job :
    Durable(j) /\ autosave[j] # NoFile ~> manifest[j].status = "ready"

\* The same for every durable plan, whether its decisions were autosaved or
\* taken over from feedback.
PlanSettles == \A j \in Job : Durable(j) ~> manifest[j].status = "ready"
=============================================================================
