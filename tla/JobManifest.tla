----------------------------- MODULE JobManifest -----------------------------
(* The manifest of a reconciliation job: what the service saves of a job,   *)
(* what it takes back of it after a restart, and what it then makes of an   *)
(* interrupted job.  A digest is the data it is computed from.  The three   *)
(* lists of sources are one, and the sorted list of decisions is a set.     *)
EXTENDS Integers, FiniteSets, Sequences, TLC

CONSTANT None

\* Merging with the empty function leaves a manifest as it is.
NoFields == <<>>
Has(manifest, key) == key \in DOMAIN manifest

-----------------------------------------------------------------------------
(* The target a job is bound to.                                            *)
StrictIdentity(job) == <<job.target.digest, job.stage, None>>
PeriodIdentity(job) == <<job.target.digest, job.stage, job.period>>
\* A new job with a period is bound to a target by its review.
CreatedIdentity(job) == IF job.period = None THEN StrictIdentity(job) ELSE None
PreparedIdentity(job) == IF job.period = None THEN StrictIdentity(job) ELSE PeriodIdentity(job)
\* Bug: a period job is bound as soon as it is saved.
BoundAtOnce(job) == IF job.period = None THEN StrictIdentity(job) ELSE PeriodIdentity(job)
ExpectedIdentity(job) ==
  IF job.period = None THEN StrictIdentity(job)
  ELSE IF job.status \in {"pending", "running"} THEN None ELSE PeriodIdentity(job)
IdentityIsValid(job) ==
  /\ job.operation = "verify" => job.period = None
  /\ job.identity = ExpectedIdentity(job)

-----------------------------------------------------------------------------
(* Which artifacts a status has.                                            *)
NoVerdict == [status |-> None, message |-> None, checked |-> 0, failed |-> 0]
VerdictIsValid(job) ==
  /\ job.verdict.failed \in 0 .. job.verdict.checked
  /\ IF job.status \in {"pending", "running", "failed"} THEN job.verdict = NoVerdict
     ELSE /\ job.status = "ready" /\ job.verdict.message # None
          /\ \/ job.verdict.status = "passed" /\ job.output = None /\ job.verdict.failed = 0
             \/ job.verdict.status = "failed" /\ job.output # None /\ job.verdict.failed > 0

\* Pairs of "has an output" and "has a plan to apply".
Bare == {<<FALSE, FALSE>>}
WithOutput == {<<TRUE, FALSE>>}
Reconciled(status) ==
  CASE status \in {"pending", "running", "review_required", "failed"} -> Bare
    [] status = "applying" -> Bare \cup {<<TRUE, TRUE>>}
    [] status = "ready" -> WithOutput
    [] OTHER -> {}
Processed(status) ==
  CASE status = "review_required" -> Bare \cup WithOutput
    [] status \in {"blocked", "review_recorded"} -> WithOutput
    [] OTHER -> Reconciled(status)
Verified(job) ==
  CASE job.status \in {"pending", "running", "failed"} -> Bare
    [] job.status = "ready" -> {<<job.verdict.status = "failed", FALSE>>}
    [] OTHER -> {}
\* A processed job, one without an authoritative review, has statuses of its own.
Artifacts(job, processed) ==
  IF job.operation = "verify" THEN Verified(job) ELSE IF processed THEN Processed(job.status) ELSE Reconciled(job.status)
ArtifactsAreValid(job, processed) == <<job.output # None, job.plan # None>> \in Artifacts(job, processed)

-----------------------------------------------------------------------------
(* The decisions of a plan, told without their categories.                  *)
Token(identity, category) == <<identity, category>>
DumpDecision(d, identity) ==
  [action |-> d.action, group |-> d.group, mode |-> d.mode, row |-> d.row, version |-> d.version,
   token |-> IF d.category = None THEN None ELSE Token(identity, d.category)]
DumpDecisions(decisions, identity) == {DumpDecision(d, identity) : d \in decisions}
DumpIsValid(record) == IF record.action = "accept" THEN record.mode # None /\ record.token # None ELSE record.mode = None /\ record.token = None
Named(categories, identity, token) == {c \in categories : Token(identity, c) = token}
ResolveDecision(record, categories, identity) ==
  [action |-> record.action, group |-> record.group, mode |-> record.mode, row |-> record.row, version |-> record.version,
   category |-> IF record.token = None THEN None ELSE CHOOSE c \in Named(categories, identity, record.token) : TRUE]
\* Bug: a token the review does not know is left out of the replay.
KnownOnly(records, categories, identity) ==
  {ResolveDecision(r, categories, identity) : r \in {s \in records : s.token = None \/ Named(categories, identity, s.token) # {}}}
ResolveDecisions(records, categories, identity) ==
  IF \E r \in records : r.token # None /\ Named(categories, identity, r.token) = {} THEN None
  ELSE {ResolveDecision(r, categories, identity) : r \in records}

-----------------------------------------------------------------------------
(* The plan of an apply, and the evidence it is rebuilt from.               *)
SnapshotNames(job) == [i \in 1 .. Len(job.sources) + 1 |-> IF i <= Len(job.sources) THEN <<"source", i>> ELSE <<"target", 0>>]
Catalog(world, identity) == <<world.categories, identity>>
Actionable(decisions) == \E d \in decisions : d.action = "accept"
Evidence(job, world, decisions) ==
  [contract |-> "2.0", catalog_digest |-> Catalog(world, job.identity), target_identity_digest |-> job.identity,
   calculation_digest |-> decisions, rules_hash |-> world.rules, actionable |-> Actionable(decisions),
   decisions |-> DumpDecisions(decisions, job.identity), input_snapshots |-> SnapshotNames(job)]
\* An executor given to the service tells no digests.
InjectedEvidence(job, world, decisions) ==
  [contract |-> "2.0", catalog_digest |-> "legacy", target_identity_digest |-> job.identity, calculation_digest |-> "legacy",
   rules_hash |-> "legacy", actionable |-> TRUE, decisions |-> DumpDecisions(decisions, job.identity),
   input_snapshots |-> SnapshotNames(job), legacy_injected |-> TRUE]
PlanHash(job, world, decisions) ==
  <<[i \in DOMAIN job.sources |-> job.sources[i].digest], job.target.digest, job.identity, world.rules, world.categories, decisions>>
ApplyKey(job, world, decisions) == <<"key", PlanHash(job, world, decisions)>>
PayloadHash(job, world, decisions, digest) == <<PlanHash(job, world, decisions), digest>>
Plan(job, world, decisions, evidence) ==
  [output_path |-> job.output.path, output_digest |-> job.output.digest, output_identity |-> job.output.inode,
   apply_key |-> ApplyKey(job, world, decisions), payload_hash |-> PayloadHash(job, world, decisions, job.output.digest), evidence |-> evidence]
HeaderIsValid(job, plan) ==
  /\ plan.output_path = job.output.path /\ plan.output_path = "result.xlsx"
  /\ plan.output_digest = job.output.digest /\ plan.output_identity = job.output.inode
EvidenceKeys ==
  {"contract", "catalog_digest", "target_identity_digest", "calculation_digest", "rules_hash", "actionable", "decisions", "input_snapshots"}
EvidenceLoads(evidence) ==
  DOMAIN evidence = EvidenceKeys /\ evidence.target_identity_digest # None /\ \A record \in evidence.decisions : DumpIsValid(record)

-----------------------------------------------------------------------------
(* The manifest of a job.                                                   *)
Fields(job) ==
  [contract |-> "4.0", status |-> job.status, operation |-> job.operation, mode |-> job.mode, stage |-> job.stage, sources |-> job.sources,
   target |-> job.target, reporting_period |-> job.period, target_identity_digest |-> job.identity]
OutputFields(job) ==
  IF job.output = None THEN NoFields
  ELSE [output_path |-> job.output.path, output_digest |-> job.output.digest, output_identity |-> job.output.inode, result_name |-> job.output.name]
PlanFields(job) == IF job.plan = None THEN NoFields ELSE [apply |-> job.plan]
VerdictFields(job) == IF job.operation = "verify" THEN [verdict |-> job.verdict] ELSE NoFields
Saves(job) ==
  /\ IdentityIsValid(job)
  /\ job.operation = "verify" => VerdictIsValid(job)
  /\ ArtifactsAreValid(job, job.operation = "reconcile" /\ ~job.reviewed)
  /\ job.plan # None => HeaderIsValid(job, job.plan)
ManifestFor(job) == IF Saves(job) THEN Fields(job) @@ OutputFields(job) @@ PlanFields(job) @@ VerdictFields(job) ELSE None

Recoverable == {"ready", "review_required", "applying", "pending", "running"}
OutputKeys == {"output_path", "output_digest", "output_identity", "result_name"}
RequiredKeys == {"contract", "status", "operation", "mode", "stage", "sources", "target", "reporting_period", "target_identity_digest"}
KeysAreValid(m) ==
  /\ RequiredKeys \subseteq DOMAIN m
  /\ DOMAIN m \subseteq RequiredKeys \cup OutputKeys \cup (IF m.operation = "verify" THEN {"verdict"} ELSE {})
                       \cup (IF m.status = "applying" THEN {"apply"} ELSE {})
  /\ m.operation = "verify" => Has(m, "verdict")
  /\ (DOMAIN m \cap OutputKeys) \in {{}, OutputKeys}
Loaded(m) ==
  [status |-> m.status, operation |-> m.operation, mode |-> m.mode, stage |-> m.stage, sources |-> m.sources, target |-> m.target,
   period |-> m.reporting_period, identity |-> m.target_identity_digest, reviewed |-> m.operation = "reconcile",
   output |-> IF Has(m, "output_path") THEN [path |-> m.output_path, digest |-> m.output_digest, inode |-> m.output_identity, name |-> m.result_name] ELSE None,
   plan |-> IF Has(m, "apply") THEN m.apply ELSE None, verdict |-> IF Has(m, "verdict") THEN m.verdict ELSE NoVerdict]
FilesOf(job) == {job.sources[i].path : i \in DOMAIN job.sources} \cup {job.target.path} \cup (IF job.output = None THEN {} ELSE {job.output.path})
LoadedIsValid(job, disk) ==
  /\ FilesOf(job) \subseteq DOMAIN disk
  /\ IdentityIsValid(job)
  /\ job.operation = "verify" => VerdictIsValid(job)
  /\ ArtifactsAreValid(job, FALSE)
  /\ job.plan # None => HeaderIsValid(job, job.plan) /\ EvidenceLoads(job.plan.evidence)
JobFromManifest(m, disk) ==
  IF m # None /\ m.status \in Recoverable /\ KeysAreValid(m) /\ LoadedIsValid(Loaded(m), disk) THEN Loaded(m) ELSE None

-----------------------------------------------------------------------------
(* The files of a job.                                                      *)
\* Bug: only the target is read again.
TargetIsIntact(job, disk) == disk[job.target.path].digest = job.target.digest
InputsAreIntact(job, disk) ==
  /\ \A i \in DOMAIN job.sources : disk[job.sources[i].path].digest = job.sources[i].digest
  /\ disk[job.target.path].digest = job.target.digest
\* Bug: any file with the name of the output will do.
OutputIsThere(job, disk) == job.output.path \in DOMAIN disk
OutputIsIntact(job, disk) ==
  /\ job.output.path \in DOMAIN disk
  /\ disk[job.output.path] = [digest |-> job.output.digest, inode |-> job.output.inode, private |-> TRUE]
\* A snapshot is taken of an upload unless there is one, which then must be that upload.
SnapshotDigest(job, name) == IF name[1] = "target" THEN job.target.digest ELSE job.sources[name[2]].digest
SnapshotsAreIntact(job, disk) ==
  \A i \in DOMAIN SnapshotNames(job) :
    SnapshotNames(job)[i] \in DOMAIN disk.snapshots => disk.snapshots[SnapshotNames(job)[i]] = SnapshotDigest(job, SnapshotNames(job)[i])

-----------------------------------------------------------------------------
(* A job is taken back after a restart.  The world is what it is rebuilt    *)
(* from: the rules, the categories of the target, whether the inputs can be *)
(* reviewed, and the decisions autosaved with the review.                   *)
ReplayIsValid(job, evidence, world) ==
  LET decisions == ResolveDecisions(evidence.decisions, world.categories, evidence.target_identity_digest)
      rebuilt == Evidence(job, world, decisions)
  IN /\ decisions # None
     /\ DumpDecisions(world.decisions, evidence.target_identity_digest) = evidence.decisions
     /\ \A key \in {"catalog_digest", "target_identity_digest", "calculation_digest", "rules_hash", "actionable"} : rebuilt[key] = evidence[key]
     /\ ApplyKey(job, world, decisions) = job.plan.apply_key
     /\ PayloadHash(job, world, decisions, job.output.digest) = job.plan.payload_hash
\* Bug: a plan is committed without being rebuilt.
TrustedPlan(job, files, world) == world.readable /\ OutputIsIntact(job, files.named)
PlanReplays(job, files, world) ==
  /\ job.plan.evidence.target_identity_digest = job.identity
  /\ job.plan.evidence.input_snapshots = SnapshotNames(job)
  /\ OutputIsIntact(job, files.named)
  /\ job.plan.evidence.actionable \/ job.plan.output_digest = job.target.digest
  /\ world.readable
  /\ SnapshotsAreIntact(job, files)
  /\ ReplayIsValid(job, job.plan.evidence, world)

Interrupted(job) == [job EXCEPT !.status = "failed"]
Replayed(job) == [job EXCEPT !.status = "ready", !.plan = None]
\* What the loaded job becomes; None when it cannot be taken back.
Recovered(job, files, world) ==
  IF ~InputsAreIntact(job, files.named) THEN None
  ELSE CASE job.status = "review_required" -> IF world.readable THEN job ELSE None
         [] job.status = "ready" -> IF job.output = None \/ OutputIsIntact(job, files.named) THEN job ELSE None
         [] job.status = "applying" /\ job.plan # None -> IF PlanReplays(job, files, world) THEN Replayed(job) ELSE None
         [] OTHER -> Interrupted(job)
\* The job is put in memory before it is saved, and a save that fails leaves it there.
Kept(job, manifest) ==
  IF job = None THEN [found |-> FALSE, job |-> None, manifest |-> manifest]
  ELSE IF ManifestFor(job) = None THEN [found |-> FALSE, job |-> job, manifest |-> manifest]
  ELSE [found |-> TRUE, job |-> job, manifest |-> ManifestFor(job)]
RecoverJob(job, manifest, files, world) == IF job = None THEN Kept(None, manifest) ELSE Kept(Recovered(job, files, world), manifest)
RecoverManifest(manifest, files, world) == RecoverJob(JobFromManifest(manifest, files.named), manifest, files, world)

-----------------------------------------------------------------------------
(* Properties.  A job is one the service may be in, and its files are those *)
(* it then has; "after" is what RecoverManifest makes of its manifest.      *)
\* Whatever the service saves of a job under way it takes back: a ready job and a review as
\* they were, an apply with a plan as ready, and anything else as failed.
RestoredAsSaved(job, after) ==
  /\ ManifestFor(job) # None
  /\ after.job # None
  /\ after.job = CASE job.status \in {"ready", "review_required"} -> job
                   [] job.status = "applying" /\ job.plan # None -> Replayed(job)
                   [] OTHER -> Interrupted(job)

\* When files were lost or replaced, the rules or the review changed or can no longer be
\* read, a job is taken back as it would have been, or as failed, or not at all; one that
\* goes on rests on the uploads and the result it was saved with.
ChangedIsRefused(saved, files, after, intact) ==
  \/ after.job = None \/ after.job.status = "failed"
  \/ /\ after.job = intact.job
     /\ \A path \in DOMAIN saved.named : path \in DOMAIN files.named /\ files.named[path].digest = saved.named[path].digest

\* A plan is replayed only with the inputs, rules and decisions it was made from.
ReplayIsThePlan(job, after, world, planned) ==
  (job.status = "applying" /\ after.job # None /\ after.job.status = "ready") =>
    PlanHash(job, world, world.decisions) = PlanHash(job, planned, planned.decisions)

\* A job that is found is on disk as it is in memory, and the next restart finds the same.
RestartsAgree(after, again) ==
  after.found => /\ after.manifest = ManifestFor(after.job)
                 /\ after.job.status # "failed" => again = after

\* The decisions of a plan come back as they were, or the replay is refused: when the target
\* is another one or a category is gone, nothing is left out of it.
DecisionsComeBack(decisions, saved, categories, identity) ==
  ResolveDecisions(DumpDecisions(decisions, saved), categories, identity) \in {None, decisions}

(* What does not hold. *)
\* A job that is not found is not in memory: an interrupted period job cannot be saved as failed.
LostIsForgotten(after) == ~after.found => after.job = None
\* Whatever the executor, an apply with a plan can be taken back.
InjectedIsRecovered(job, after) == job.plan # None => after.found
\* A job that ended is found after a restart.
EndedIsFound(job, after) == job.status \in {"blocked", "review_recorded"} => after.found
=============================================================================
