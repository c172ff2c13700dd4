----------------------------- MODULE ProcessingRun -----------------------------
(***************************************************************************)
(* ProcessingEngine over its audit journal and the Excel writer: attempts  *)
(* of report-processor, each a process of its own, on one source and one   *)
(* target workbook.  They share the input files, the SQLite journal, the   *)
(* output names and the result cache.                                      *)
(*                                                                         *)
(* The content of an input is a version number, which its digest, size and *)
(* mtime tell apart.  What matching, calculation and quality control say   *)
(* of a source is a constant, Verdict: they are functions of their input.  *)
(* A run is its position in the journal (its nonce is never drawn twice),  *)
(* an output is the run that published it and the inputs it was made from. *)
(***************************************************************************)
EXTENDS Naturals, Sequences, FiniteSets

CONSTANTS
  Proc,        \* operating-system processes, one attempt each at a time
  Output,      \* names of result workbooks
  Request,     \* the ProcessReportRequests that are made
  Verdict,     \* of each source version: the gate's decision, whether inspection
               \* and the later stages warn, whether the hierarchy has issues
  None,        \* no run, no output, no answer
  MaxVersion, MaxEdits, MaxStarts, MaxFaults, MaxCrashes, MaxRollbacks

Version   == 0..MaxVersion
Mode      == {"inspect", "dry-run", "write"}
Decision  == {"allow_write", "allow_write_with_warnings",
              "require_manual_review", "block_write"}
Boundary  == {"PENDING", "DATA_COMMITTED", "EXPORT_PREPARED", "EXPORT_VERIFIED"}
State     == {"SUCCEEDED", "SUCCEEDED_WITH_WARNINGS", "MANUAL_REVIEW_REQUIRED",
              "QUALITY_BLOCKED", "FAILED"}
Succeeded == {"SUCCEEDED", "SUCCEEDED_WITH_WARNINGS"}

\* An output name is given in write mode and in no other.
Requests == {r \in [mode : Mode, strict : BOOLEAN, output : Output \cup {None},
                    resume : BOOLEAN] : (r.mode = "write") <=> (r.output # None)}

ASSUME ProcessingAssumption ==
  /\ Request \subseteq Requests
  /\ Verdict \in [Version -> [decision : Decision, noticed : BOOLEAN,
                              warnings : BOOLEAN, hierarchy : BOOLEAN]]
  /\ {MaxVersion, MaxEdits, MaxStarts, MaxFaults, MaxCrashes, MaxRollbacks} \subseteq Nat
  /\ None \notin Output \cup Nat \cup Boundary

VARIABLES
  inputs,    \* the two workbooks on disk
  journal,   \* runs: inputs, strictness, chain of states, cross-store hash; the
             \* mode is not stored, the properties ask for it
  published, \* result workbooks on disk
  cache,     \* one entry for each _cache_identity
  attempt,   \* local state of each process
  spent      \* how much of each bound is used

vars == <<inputs, journal, published, cache, attempt, spent>>

Inputs   == [source : Version, target : Version]
RunIds   == 1..Len(journal)
File     == [run : Nat, of : Inputs]
Run      == [inputs : Inputs, mode : Mode, strict : BOOLEAN, chain : Seq(Boundary),
             exported : BOOLEAN, crossStore : File \cup {None}]
Answer   == [state : State, inputs : Inputs, run : Nat \cup {None},
             boundary : Boundary, resumed : BOOLEAN]
Identity == Mode \X BOOLEAN

\* No file and no answer are None.
ASSUME NothingAssumption == None \notin File \cup Answer

Control  == {"idle", "cache", "inspect", "begin", "pending", "data", "prepare",
             "export", "snapshot", "link", "check", "verify", "record", "decide",
             "unchanged", "save"}

Attempt  == [pc : Control, request : Request \cup {None}, snapshot : Inputs, seen : Inputs,
             run : Nat \cup {None}, answer : Answer \cup {None}]
Spent    == [edits : 0..MaxEdits, starts : 0..MaxStarts, faults : 0..MaxFaults,
             crashes : 0..MaxCrashes, rollbacks : 0..MaxRollbacks]

TypeOK ==
  /\ inputs \in Inputs
  /\ journal \in Seq(Run)
  /\ published \in [Output -> File \cup {None}]
  /\ cache \in [Identity -> Answer \cup {None}]
  /\ attempt \in [Proc -> Attempt]
  /\ spent \in Spent

-----------------------------------------------------------------------------
(* The journal.                                                            *)

Last(chain) == IF chain = <<>> THEN None ELSE chain[Len(chain)]

\* _valid_transition: the one chain of states, with DATA_COMMITTED repeatable.
ValidTransition(from, to) ==
  \/ <<from, to>> \in {<<None, "PENDING">>, <<"PENDING", "DATA_COMMITTED">>,
                       <<"DATA_COMMITTED", "EXPORT_PREPARED">>,
                       <<"EXPORT_PREPARED", "EXPORT_VERIFIED">>}
  \/ from = "DATA_COMMITTED" /\ to = "DATA_COMMITTED"

BoundaryOf(r) == Last(journal[r].chain)

\* append_event, one BEGIN IMMEDIATE transaction.
AppendEvent(r, state) ==
  /\ ValidTransition(BoundaryOf(r), state)
  /\ journal' = [journal EXCEPT ![r].chain = Append(@, state)]

\* record_cross_store_hashes: the first writer wins, another hash is refused.
RecordHashes(r, file) ==
  /\ BoundaryOf(r) \in Boundary \ {"PENDING"}
  /\ journal[r].crossStore \in {None, file}
  /\ journal' = [journal EXCEPT ![r].crossStore = file]

-----------------------------------------------------------------------------
(* What the controller makes of the stages.                                *)

VerdictOf(p) == Verdict[attempt[p].seen.source]
Strict(p)    == attempt[p].request.strict
ModeOf(p)    == attempt[p].request.mode
OutputOf(p)  == attempt[p].request.output
FileOf(p)    == [run |-> attempt[p].run, of |-> attempt[p].seen]

\* audit(): hierarchy issues turn any decision of the quality gate into a review.
DecisionOf(p) == IF VerdictOf(p).hierarchy THEN "require_manual_review"
                 ELSE VerdictOf(p).decision
Warned(p)     == \/ VerdictOf(p).noticed
                 \/ ModeOf(p) # "inspect" /\ (VerdictOf(p).warnings \/ VerdictOf(p).hierarchy)

\* Bug: --non-strict is not asked for when there are warnings.
MayWriteWarned(p) == DecisionOf(p) \in {"allow_write", "allow_write_with_warnings"}

MayWrite(p) ==
  \/ DecisionOf(p) = "allow_write"
  \/ DecisionOf(p) = "allow_write_with_warnings" /\ ~Strict(p)

QualityStop(p) == \/ DecisionOf(p) \in {"require_manual_review", "block_write"}
                  \/ Strict(p) /\ Warned(p)

QualityState(p) == IF DecisionOf(p) = "require_manual_review" \/ (Strict(p) /\ Warned(p))
                   THEN "MANUAL_REVIEW_REQUIRED" ELSE "QUALITY_BLOCKED"

\* _quality_result where the gate stopped the run, else _success_result.
StateOf(p) ==
  IF \/ ModeOf(p) = "write" /\ ~MayWrite(p)
     \/ ModeOf(p) = "dry-run" /\ QualityStop(p)
  THEN QualityState(p)
  ELSE IF Warned(p) THEN "SUCCEEDED_WITH_WARNINGS" ELSE "SUCCEEDED"

Identified(p) == <<ModeOf(p), Strict(p)>>

\* A result with status FAILED names no run.
Failed(p) ==
  [state |-> "FAILED", inputs |-> attempt[p].snapshot, run |-> None,
   boundary |-> IF ModeOf(p) = "inspect" THEN "PENDING" ELSE "DATA_COMMITTED",
   resumed |-> FALSE]

-----------------------------------------------------------------------------
Init ==
  /\ inputs = [source |-> 0, target |-> 0]
  /\ journal = <<>>
  /\ published = [o \in Output |-> None]
  /\ cache = [i \in Identity |-> None]
  /\ attempt = [p \in Proc |-> [pc |-> "idle", request |-> None, snapshot |-> inputs,
                                seen |-> inputs, run |-> None, answer |-> None]]
  /\ spent = [edits |-> 0, starts |-> 0, faults |-> 0, crashes |-> 0, rollbacks |-> 0]

At(p, l)   == attempt[p].pc = l
Goto(p, l) == attempt' = [attempt EXCEPT ![p].pc = l]

\* The attempt has its result: it is cached before process_report returns.
Conclude(p, a) == attempt' = [attempt EXCEPT ![p].pc = "save", ![p].answer = a]

\* process_report: validation, the two snapshots and the run key.
Start(p, request) ==
  /\ At(p, "idle") /\ spent.starts < MaxStarts
  /\ spent' = [spent EXCEPT !.starts = @ + 1]
  /\ attempt' = [attempt EXCEPT ![p] =
       [pc |-> "cache", request |-> request, snapshot |-> inputs, seen |-> inputs,
        run |-> None, answer |-> None]]
  /\ UNCHANGED <<inputs, journal, published, cache>>

\* Bug: resuming does not compare the inputs with the cached ones.
ResumableAnyInput(p, e) ==
  /\ e # None
  /\ e.run # None => e.run \in RunIds /\ BoundaryOf(e.run) = e.boundary

\* Bug: resuming does not look at the journal.
ResumableUnaudited(p, e) == e # None /\ e.inputs = attempt[p].snapshot

\* _read_cache and _validate_audit_resume.
Resumable(p, e) ==
  /\ e # None
  /\ e.inputs = attempt[p].snapshot
  /\ e.run # None => e.run \in RunIds /\ BoundaryOf(e.run) = e.boundary

\* A resumed answer, or a refusal, is returned as it is and not cached again.
ReadCache(p) ==
  /\ At(p, "cache")
  /\ LET entry == cache[Identified(p)]
         reply(a) == attempt' = [attempt EXCEPT ![p].pc = "idle", ![p].answer = a]
     IN  IF ~attempt[p].request.resume THEN Goto(p, "inspect")
         ELSE IF Resumable(p, entry) THEN reply([entry EXCEPT !.resumed = TRUE])
         ELSE reply(Failed(p))
  /\ UNCHANGED <<inputs, journal, published, cache, spent>>

\* inspect() and calculate(): the workbooks are read again, after the snapshot.
Inspect(p) ==
  /\ At(p, "inspect")
  /\ attempt' = [attempt EXCEPT ![p].seen = inputs,
                   ![p].pc = IF ModeOf(p) = "inspect" THEN "unchanged" ELSE "begin"]
  /\ UNCHANGED <<inputs, journal, published, cache, spent>>

\* audit(): a new run under the digests of the snapshot, not of what was read.
BeginRun(p) ==
  /\ At(p, "begin")
  /\ journal' = Append(journal, [inputs |-> attempt[p].snapshot, mode |-> ModeOf(p),
                                 strict |-> Strict(p), chain |-> <<>>,
                                 exported |-> FALSE, crossStore |-> None])
  /\ attempt' = [attempt EXCEPT ![p].run = Len(journal) + 1, ![p].pc = "pending"]
  /\ UNCHANGED <<inputs, published, cache, spent>>

AppendPending(p) ==
  /\ At(p, "pending") /\ AppendEvent(attempt[p].run, "PENDING")
  /\ Goto(p, "data")
  /\ UNCHANGED <<inputs, published, cache, spent>>

\* The data event ends audit() of a write, which waits for the decision.
AppendData(p) ==
  /\ At(p, "data") /\ AppendEvent(attempt[p].run, "DATA_COMMITTED")
  /\ Goto(p, IF ModeOf(p) = "dry-run" THEN "prepare" ELSE "decide")
  /\ UNCHANGED <<inputs, published, cache, spent>>

\* Only a permitted write reaches write(); a hierarchy issue never gets there.
Decide(p) ==
  /\ At(p, "decide")
  /\ Goto(p, IF MayWrite(p) THEN "prepare" ELSE "unchanged")
  /\ UNCHANGED <<inputs, journal, published, cache, spent>>

AppendPrepared(p) ==
  /\ At(p, "prepare") /\ AppendEvent(attempt[p].run, "EXPORT_PREPARED")
  /\ Goto(p, "export")
  /\ UNCHANGED <<inputs, published, cache, spent>>

\* export_snapshot of the run's events, under the run's own name.
ExportSnapshot(p) ==
  /\ At(p, "export")
  /\ journal' = [journal EXCEPT ![attempt[p].run].exported = TRUE]
  /\ Goto(p, IF ModeOf(p) = "write" THEN "snapshot" ELSE "verify")
  /\ UNCHANGED <<inputs, published, cache, spent>>

-----------------------------------------------------------------------------
(* write_target_report.                                                    *)

\* An exception in a stage: PROCESSING_STAGE_FAILED without artifacts.
Raise(p) == Conclude(p, Failed(p))

\* _snapshot_source, _validate_schema_identity, the decision and the output name.
SnapshotTarget(p) ==
  /\ At(p, "snapshot")
  /\ IF inputs.target = attempt[p].seen.target /\ published[OutputOf(p)] = None
     THEN Goto(p, "link") ELSE Raise(p)
  /\ UNCHANGED <<inputs, journal, published, cache, spent>>

\* Bug: the finished workbook is moved over whatever stands there.
LinkReplacing(p) ==
  /\ At(p, "link") /\ inputs.target = attempt[p].seen.target
  /\ published' = [published EXCEPT ![OutputOf(p)] = FileOf(p)]
  /\ Goto(p, "check")
  /\ UNCHANGED <<inputs, journal, cache, spent>>

\* _assert_source_unchanged and publish_no_clobber: a link, never a replacement.
Link(p) ==
  /\ At(p, "link")
  /\ IF inputs.target = attempt[p].seen.target /\ published[OutputOf(p)] = None
     THEN /\ published' = [published EXCEPT ![OutputOf(p)] = FileOf(p)]
          /\ Goto(p, "check")
     ELSE Raise(p) /\ UNCHANGED published
  /\ UNCHANGED <<inputs, journal, cache, spent>>

\* _reopen_published_output and _verify_published_output.
CheckPublished(p) ==
  /\ At(p, "check")
  /\ IF published[OutputOf(p)] = FileOf(p) THEN Goto(p, "verify") ELSE Raise(p)
  /\ UNCHANGED <<inputs, journal, published, cache, spent>>

\* _remove_published_output_if_owned.
RemoveOwned(p) ==
  published' = IF published[OutputOf(p)] = FileOf(p)
               THEN [published EXCEPT ![OutputOf(p)] = None] ELSE published

-----------------------------------------------------------------------------
\* verify_export, after write() or at the end of a dry run's audit().
AppendVerified(p) ==
  /\ At(p, "verify") /\ AppendEvent(attempt[p].run, "EXPORT_VERIFIED")
  /\ Goto(p, "record")
  /\ UNCHANGED <<inputs, published, cache, spent>>

RecordCrossStore(p) ==
  /\ At(p, "record") /\ RecordHashes(attempt[p].run, FileOf(p))
  /\ Goto(p, "unchanged")
  /\ UNCHANGED <<inputs, published, cache, spent>>

\* Bug: only the target is compared at the end.
UnchangedTarget(p) == inputs.target = attempt[p].snapshot.target

\* _verify_unchanged compares digest, size and mtime with the snapshots.
Unchanged(p) == inputs = attempt[p].snapshot

VerifyUnchanged(p) ==
  /\ At(p, "unchanged")
  /\ Conclude(p, IF ~Unchanged(p) THEN Failed(p)
       ELSE [state |-> StateOf(p), inputs |-> attempt[p].snapshot, run |-> attempt[p].run,
             boundary |-> IF attempt[p].run = None THEN "PENDING" ELSE BoundaryOf(attempt[p].run),
             resumed |-> FALSE])
  /\ UNCHANGED <<inputs, journal, published, cache, spent>>

\* _write_cache, one replace under the identity of the request.
SaveCache(p) ==
  /\ At(p, "save")
  /\ cache' = [cache EXCEPT ![Identified(p)] = attempt[p].answer]
  /\ Goto(p, "idle")
  /\ UNCHANGED <<inputs, journal, published, spent>>

-----------------------------------------------------------------------------
(* The environment.                                                        *)

\* A stage raises; inside write_target_report a published workbook is withdrawn.
Fault(p) ==
  /\ spent.faults < MaxFaults
  /\ attempt[p].pc \in Control \ {"idle", "cache", "unchanged", "save"}
  /\ IF At(p, "check") THEN RemoveOwned(p) ELSE UNCHANGED published
  /\ Raise(p)
  /\ spent' = [spent EXCEPT !.faults = @ + 1]
  /\ UNCHANGED <<inputs, journal, cache>>

\* The process dies; what it wrote stays.
Crash(p) ==
  /\ spent.crashes < MaxCrashes /\ ~At(p, "idle")
  /\ attempt' = [attempt EXCEPT ![p].pc = "idle", ![p].answer = None]
  /\ spent' = [spent EXCEPT !.crashes = @ + 1]
  /\ UNCHANGED <<inputs, journal, published, cache>>

\* Somebody saves one of the two workbooks: its mtime is new, so its version is.
EditInput(file) ==
  /\ spent.edits < MaxEdits
  /\ \E v \in Version : v > inputs[file] /\ inputs' = [inputs EXCEPT ![file] = v]
  /\ spent' = [spent EXCEPT !.edits = @ + 1]
  /\ UNCHANGED <<journal, published, cache, attempt>>

\* The journal comes back from a copy made while run r was going on.
RollBack(r) ==
  /\ spent.rollbacks < MaxRollbacks
  /\ \A p \in Proc : At(p, "idle")
  /\ journal[r].chain # <<>>
  /\ \E n \in 0..(Len(journal[r].chain) - 1) :
       journal' = [journal EXCEPT ![r].chain = SubSeq(@, 1, n), ![r].crossStore = None]
  /\ spent' = [spent EXCEPT !.rollbacks = @ + 1]
  /\ UNCHANGED <<inputs, published, cache, attempt>>

Step(p) ==
  \/ ReadCache(p) \/ Inspect(p) \/ BeginRun(p) \/ AppendPending(p) \/ AppendData(p)
  \/ Decide(p) \/ AppendPrepared(p) \/ ExportSnapshot(p) \/ SnapshotTarget(p)
  \/ Link(p) \/ CheckPublished(p) \/ AppendVerified(p) \/ RecordCrossStore(p)
  \/ VerifyUnchanged(p) \/ SaveCache(p)

Next ==
  \/ \E p \in Proc : Step(p) \/ Fault(p) \/ Crash(p)
  \/ \E p \in Proc, request \in Request : Start(p, request)
  \/ \E file \in {"source", "target"} : EditInput(file)
  \/ \E r \in RunIds : RollBack(r)

Spec == Init /\ [][Next]_vars

-----------------------------------------------------------------------------
(* Properties.                                                             *)

Answered(p) == At(p, "idle") /\ attempt[p].answer # None

\* A write that reports success, fresh or resumed, has a verified run behind it
\* whose recorded workbook was made from the very inputs the answer names: two
\* processes, edited inputs, faults and crashes do not put another run's
\* workbook, or one made from other inputs, behind a success.
SuccessIsVerified ==
  \A p \in Proc :
    LET a == attempt[p].answer
    IN  (Answered(p) /\ ModeOf(p) = "write" /\ a.state \in Succeeded /\ ~a.resumed)
          => \/ spent.rollbacks > 0
             \/ /\ BoundaryOf(a.run) = "EXPORT_VERIFIED"
                /\ journal[a.run].crossStore = [run |-> a.run, of |-> a.inputs]

\* A verified run of a write has its workbook on disk, and no two verified runs
\* share a name: a workbook is withdrawn only before its run is verified, and
\* only by the attempt that put it there.
VerifiedIsPublished ==
  \A r \in RunIds :
    BoundaryOf(r) = "EXPORT_VERIFIED" /\ journal[r].mode = "write"
      => \E o \in Output : published[o] # None /\ published[o].run = r

\* A resumed answer is what an attempt on these very inputs concluded, and the
\* journal still stands where that attempt left it: a journal brought back
\* from an older copy, or an edited workbook, is never answered from the cache.
ResumedStands ==
  \A p \in Proc :
    LET a == attempt[p].answer
    IN  (Answered(p) /\ a.resumed)
          => /\ a.inputs = attempt[p].snapshot
             /\ (a.run # None /\ spent.rollbacks = 0) => BoundaryOf(a.run) = a.boundary

\* When a resumed answer is given, the journal is where the answer says it is.
ResumeAgreesWithJournal ==
  \A p \in Proc :
       (ReadCache(p) /\ attempt'[p].answer # None /\ attempt'[p].answer.resumed)
         => LET a == attempt'[p].answer
            IN  a.run # None => a.run \in RunIds /\ BoundaryOf(a.run) = a.boundary

\* Nothing the quality gate withheld is ever on disk: a published workbook comes
\* from a source that was read after the snapshot, and the verdict on that very
\* source, under the strictness its run records, allows writing.
PublishedWasAllowed ==
  \A o \in Output : published[o] # None =>
    LET v == Verdict[published[o].of.source]
    IN  /\ ~v.hierarchy
        /\ \/ v.decision = "allow_write"
           \/ v.decision = "allow_write_with_warnings" /\ ~journal[published[o].run].strict

\* A workbook under an output name is never replaced by another one.
OutputNeverReplaced ==
  \A o \in Output : published[o] # None => published'[o] \in {published[o], None}

\* Every success, fresh or resumed, stands on verified work over the same inputs.
ConclusionsStand == SuccessIsVerified /\ ResumedStands

\* Every workbook on disk was allowed, and every verified run still has its own.
PublicationStands == VerifiedIsPublished /\ PublishedWasAllowed

\* No step replaces a workbook or resumes what the journal has left behind.
HistoryStands == [][OutputNeverReplaced /\ ResumeAgreesWithJournal]_vars

\* A failed attempt leaves no workbook under the name it was given.  The code
\* does not promise it: inputs edited after the publication, or a journal that
\* raises, fail the attempt and leave the workbook.
FailedLeavesNothing ==
  \A p \in Proc :
    (Answered(p) /\ ModeOf(p) = "write" /\ attempt[p].answer.state = "FAILED" /\ attempt[p].run # None)
      => published[OutputOf(p)] # FileOf(p)

-----------------------------------------------------------------------------
(***************************************************************************)
(* The inductive invariant behind ConclusionsStand and PublicationStands.  *)
(***************************************************************************)
Working == {"pending", "data", "prepare", "decide", "export", "snapshot", "link",
            "check", "verify", "record"}

Grown(old, new) == old.source <= new.source /\ old.target <= new.target

\* The states of every run follow one another, from PENDING on.
ChainsAreValid ==
  \A r \in RunIds : \A i \in 1..Len(journal[r].chain) :
    ValidTransition(IF i = 1 THEN None ELSE journal[r].chain[i - 1], journal[r].chain[i])

\* Until it begins a run, an attempt has its request and nothing else.
HasRequest(p) ==
  /\ attempt[p].pc # "idle" => attempt[p].request \in Request
  /\ attempt[p].pc \in {"cache", "inspect"} => attempt[p].run = None
  /\ attempt[p].pc = "begin" => ModeOf(p) # "inspect"

\* Where the run of a working attempt stands at each control point.
Stands(p) ==
  IF attempt[p].pc = "pending" THEN None
  ELSE IF attempt[p].pc = "data" THEN "PENDING"
  ELSE IF attempt[p].pc \in {"prepare", "decide"} THEN "DATA_COMMITTED"
  ELSE IF attempt[p].pc = "record" THEN "EXPORT_VERIFIED"
  ELSE "EXPORT_PREPARED"

\* A working attempt has begun a run like its request, which stands where the
\* attempt is; what it writes is allowed, and stays under its name once linked.
RunIsAtPc(p) ==
  attempt[p].pc \in Working =>
    /\ attempt[p].run \in RunIds /\ ModeOf(p) # "inspect"
    /\ journal[attempt[p].run].mode = ModeOf(p) /\ journal[attempt[p].run].strict = Strict(p)
    /\ journal[attempt[p].run].crossStore = None
    /\ BoundaryOf(attempt[p].run) = Stands(p)
    /\ attempt[p].pc \in {"decide", "snapshot", "link", "check"} => ModeOf(p) = "write"
    /\ ModeOf(p) = "write" =>
         /\ attempt[p].pc \notin {"pending", "data", "decide"} => MayWrite(p)
         /\ attempt[p].pc \in {"check", "verify", "record"} => published[OutputOf(p)] = FileOf(p)

\* An attempt that compares its inputs for the last time has verified its run,
\* or has none, or was not allowed to write.
RunIsDone(p) ==
  attempt[p].pc = "unchanged" =>
    \/ ModeOf(p) = "inspect" /\ attempt[p].run = None
    \/ /\ attempt[p].run \in RunIds
       /\ \/ /\ ModeOf(p) = "write" => MayWrite(p)
             /\ BoundaryOf(attempt[p].run) = "EXPORT_VERIFIED"
             /\ journal[attempt[p].run].crossStore = FileOf(p)
          \/ /\ ModeOf(p) = "write" /\ ~MayWrite(p)
             /\ BoundaryOf(attempt[p].run) = "DATA_COMMITTED"

\* Versions only grow, so inputs that are equal at the end were equal all along.
InputsGrow(p) == Grown(attempt[p].snapshot, attempt[p].seen) /\ Grown(attempt[p].seen, inputs)

\* A run that an answer names is in the journal and no attempt works on it.
Settled(a) ==
  a # None /\ a.run # None =>
    a.run \in RunIds /\ \A p \in Proc : attempt[p].pc \in Working => attempt[p].run # a.run

\* What an answer rests on, from the moment it is concluded.
AnswerStands(p) ==
  LET a == attempt[p].answer
  IN  /\ attempt[p].pc \notin {"save", "idle"} => a = None
      /\ a # None /\ attempt[p].pc = "save" => ~a.resumed
      /\ a # None /\ ~a.resumed /\ ModeOf(p) = "write" /\ a.state \in Succeeded /\ spent.rollbacks = 0
           => /\ a.run \in RunIds /\ BoundaryOf(a.run) = "EXPORT_VERIFIED"
              /\ journal[a.run].crossStore = [run |-> a.run, of |-> a.inputs]
      /\ a # None /\ a.resumed
           => /\ a.inputs = attempt[p].snapshot
              /\ a.run # None /\ spent.rollbacks = 0 => BoundaryOf(a.run) = a.boundary

\* Two attempts never have the same run.
RunsApart ==
  \A p, q \in Proc :
    p # q /\ attempt[p].pc \in Working /\ attempt[q].pc \in Working \cup {"unchanged"}
      => attempt[p].run # attempt[q].run

\* Every workbook on disk is of a run of a write.
FilesHaveRuns ==
  \A o \in Output : published[o] # None =>
    published[o].run \in RunIds /\ journal[published[o].run].mode = "write"

AttemptStands(p) ==
  HasRequest(p) /\ RunIsAtPc(p) /\ RunIsDone(p) /\ InputsGrow(p) /\ AnswerStands(p)

ProcessingInv ==
  /\ TypeOK /\ ChainsAreValid /\ RunsApart /\ FilesHaveRuns
  /\ \A p \in Proc : AttemptStands(p) /\ Settled(attempt[p].answer)
  /\ \A i \in Identity : Settled(cache[i])
  /\ VerifiedIsPublished /\ PublishedWasAllowed
=============================================================================
