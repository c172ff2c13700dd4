---------------------------- MODULE PromotionGate ----------------------------
(* What stands between a shadow pattern and its activation: a replay on two  *)
(* sealed snapshots (replay.py), the owner's approval of exactly that report  *)
(* under exactly that policy, and the aggregate acceptance of the shadow run  *)
(* (acceptance.py, acceptance_runner.py).                                     *)
(*                                                                           *)
(* Fingerprints are the values they digest.  What a replay counts as wrong is *)
(* a set of fault kinds, what it leaves to people a function on Manual.       *)
EXTENDS Integers, Sequences, FiniteSets, SequencesExt, FiniteSetsExt, Functions

CONSTANT None

Oracled == {"calculation", "xlsx"}
Manual  == {"groups", "actions", "unresolved"}
Splits  == <<"baseline", "holdout">>

Stopped(code) == [error |-> code]
IsStopped(x) == "error" \in DOMAIN x

Undefined(r) == r = <<0, 0>>
AtLeast(r, s) == ~Undefined(r) /\ ~Undefined(s) /\ r[1] * s[2] >= s[1] * r[2]
NearestRank(samples, percentile) ==
  SortSeq(samples, <)[(percentile * Len(samples) + 99) \div 100]

-----------------------------------------------------------------------------
(* The replay of one shadow pattern.                                         *)
Supported(p) == p.support.confirmed >= 3 /\ p.support.documents >= 2
Contradicted(p) == p.support.contradictory > 0 \/ p.conflicts # {}

Independent(baseline, holdout) ==
  /\ baseline.sources \cap holdout.sources = {}
  /\ baseline.documents \cap holdout.documents = {}
  /\ baseline.manifest # holdout.manifest /\ baseline.corpus # holdout.corpus

\* An observation belongs to the snapshot and the head it was asked for.
BoundTo(observation, snapshot, pattern) ==
  /\ observation.snapshot = snapshot /\ observation.head = pattern
  /\ observation.documents \subseteq snapshot.documents
  /\ observation.rows <= snapshot.rows /\ observation.groups <= snapshot.groups

\* Bug: the second pass is not compared with the first.
MeasurableOnce(run) == IF run.after.faults \cap Oracled # run.oracles THEN "ORACLE_INVALID" ELSE None
Measurable(run) ==
  IF run.after # run.repeat THEN "REPLAY_NONDETERMINISTIC"
  ELSE IF run.after.faults \cap Oracled # run.oracles THEN "ORACLE_INVALID" ELSE None

\* What stops the replay of one snapshot.
Trouble(run, snapshot, pattern) ==
  IF ~\A o \in {run.before, run.after, run.repeat} : BoundTo(o, snapshot, pattern) THEN "EXECUTOR_INVALID"
  ELSE IF run.took[1] < 0 \/ run.took[2] < 0 THEN "MEASUREMENT_INVALID" ELSE Measurable(run)

Metrics(snapshot, run) ==
  [snapshot |-> snapshot, rows |-> <<run.after.rows, snapshot.rows>>, groups |-> <<run.after.groups, snapshot.groups>>,
   precision |-> <<run.after.correct, run.after.decided>>, documents |-> Cardinality(run.after.documents),
   faults |-> (run.after.faults \ Oracled) \cup run.oracles, before |-> run.before.manual, after |-> run.after.manual]

\* run_grouping_replay; runs[split] holds what the executor and the oracles
\* answered on that snapshot, and how long both passes took.
Replayed(pattern, snapshots, policy, runs, index) ==
  LET took == runs.baseline.took \o runs.holdout.took
      trouble == [i \in 1 .. 2 |-> Trouble(runs[Splits[i]], snapshots[Splits[i]], pattern)]
  IN IF pattern.state # "shadow" THEN Stopped("PATTERN_STATE_INVALID")
     ELSE IF ~Independent(snapshots.baseline, snapshots.holdout) THEN Stopped("SNAPSHOT_OVERLAP")
     ELSE IF snapshots.baseline.versions # snapshots.holdout.versions THEN Stopped("VERSION_CONTEXT_MISMATCH")
     ELSE IF Contradicted(pattern) THEN Stopped("CONTRADICTION_PRESENT")
     ELSE IF ~Supported(pattern) THEN Stopped("SUPPORT_INSUFFICIENT")
     ELSE IF pattern.kind \notin policy.kinds THEN Stopped("PATTERN_KIND_NOT_ALLOWED")
     ELSE IF pattern.scope \notin policy.scopes THEN Stopped("SCOPE_NOT_ALLOWED")
     ELSE IF pattern.support.documents < policy.minSupport THEN Stopped("SUPPORT_INSUFFICIENT")
     ELSE IF Cardinality(snapshots.holdout.documents) < policy.minHoldout THEN Stopped("HOLDOUT_INSUFFICIENT")
     ELSE IF trouble # <<None, None>> THEN Stopped(SelectSeq(trouble, LAMBDA t : t # None)[1])
     ELSE [pattern |-> pattern.id, head |-> pattern, policy |-> policy,
                baseline |-> Metrics(snapshots.baseline, runs.baseline), holdout |-> Metrics(snapshots.holdout, runs.holdout),
                measured |-> [p50 |-> NearestRank(took, 50), p95 |-> NearestRank(took, 95), index |-> index]]

-----------------------------------------------------------------------------
(* The owner's approval and the promotion.                                   *)
ApprovalRef(shadow, report, policy) == [shadow |-> shadow, report |-> report, policy |-> policy]

\* Bug: only the state and the revision are compared.
NextRevision(shadow, approved) ==
  approved.state = "owner_approved" /\ shadow.state = "shadow" /\ approved.revision = shadow.revision + 1
ExactSuccessor(shadow, approved) ==
  /\ shadow.state = "shadow" /\ approved.state = "owner_approved"
  /\ approved.revision = shadow.revision + 1 /\ approved.previous = shadow
  /\ approved.owner # None /\ approved.owner.revision = approved.revision
  /\ \A field \in {"id", "kind", "scope", "support", "conflicts"} : shadow[field] = approved[field]

Regressed(metric, policy) ==
  \E m \in Manual : metric.after[m] > policy.maxManual[m] \/ metric.after[m] > metric.before[m]

\* The record a decision about this history is about.
Shadow(history) ==
  LET head == Last(history)
  IN IF head.state = "shadow" THEN head
     ELSE IF head.state = "owner_approved" /\ Len(history) > 1 THEN history[Len(history) - 1] ELSE None
IsEvaluated(shadow, report) == shadow # None /\ shadow = report.head

ThresholdReasons(p, report, policy) ==
  LET metrics == {report.baseline, report.holdout}
      holdout == report.holdout
      found == UNION {m.faults : m \in metrics}
      index == report.measured.index
  IN {code \in {"THRESHOLDS_NOT_APPROVED", "SUPPORT_INSUFFICIENT", "CONTRADICTION_PRESENT", "PATTERN_KIND_NOT_ALLOWED",
                "SCOPE_NOT_ALLOWED", "HOLDOUT_INSUFFICIENT", "PRECISION_UNDEFINED", "PRECISION_BELOW_THRESHOLD",
                "COVERAGE_BELOW_THRESHOLD", "FAULT_PRESENT", "MANUAL_METRIC_REGRESSION", "LATENCY_EXCEEDED", "INDEX_EXCEEDED"} :
       CASE code = "THRESHOLDS_NOT_APPROVED" -> report.policy # policy
         [] code = "SUPPORT_INSUFFICIENT" -> ~Supported(p) \/ p.support.documents < policy.minSupport
         [] code = "CONTRADICTION_PRESENT" -> Contradicted(p)
         [] code = "PATTERN_KIND_NOT_ALLOWED" -> p.kind \notin policy.kinds
         [] code = "SCOPE_NOT_ALLOWED" -> p.scope \notin policy.scopes
         [] code = "HOLDOUT_INSUFFICIENT" -> holdout.documents < policy.minHoldout \/ holdout.precision[2] < policy.minDecisions
         [] code = "PRECISION_UNDEFINED" -> Undefined(holdout.precision)
         [] code = "PRECISION_BELOW_THRESHOLD" -> ~Undefined(holdout.precision) /\ ~AtLeast(holdout.precision, policy.minPrecision)
         [] code = "COVERAGE_BELOW_THRESHOLD" -> ~AtLeast(holdout.rows, policy.minCoverage) \/ ~AtLeast(holdout.groups, policy.minCoverage)
         [] code = "FAULT_PRESENT" -> found # {}
         [] code = "MANUAL_METRIC_REGRESSION" -> \E m \in metrics : Regressed(m, policy)
         [] code = "LATENCY_EXCEEDED" -> report.measured.p95 > policy.maxLatency
         [] OTHER -> policy.maxIndex # None /\ (index = None \/ index > policy.maxIndex)}

\* The approval reference of another policy cannot be derived: the evaluation
\* of an approved record then raises instead of stopping.
Underivable(head, shadow, report, policy) ==
  /\ head.state = "owner_approved" /\ head.owner # None /\ policy # None
  /\ IsEvaluated(shadow, report) /\ report.policy # policy

\* evaluate_promotion.
Promotion(history, report, policy) ==
  LET head == Last(history)
      shadow == Shadow(history)
      stale == \/ ~IsEvaluated(shadow, report)
               \/ head.state = "owner_approved" /\ shadow # None /\ ~ExactSuccessor(shadow, head)
               \/ /\ head.state = "owner_approved" /\ head.owner # None /\ policy # None /\ IsEvaluated(shadow, report)
                  /\ head.owner.by # policy.owner \/ head.owner.ref # ApprovalRef(shadow, report, policy)
      reasons == (IF policy = None THEN {"THRESHOLDS_MISSING"}
                  ELSE ThresholdReasons(IF shadow = None THEN head ELSE shadow, report, policy))
                 \cup {code \in {"REACTIVATION_UNSUPPORTED"} : head.state \in {"suspended", "retired"}}
                 \cup {code \in {"PATTERN_STATE_INVALID"} : shadow = None /\ head.state \notin {"suspended", "retired"}}
                 \cup {code \in {"OWNER_APPROVAL_STALE"} : stale}
  IN IF Underivable(head, shadow, report, policy) THEN Stopped("OWNER_APPROVAL_STALE")
     ELSE
     [verdict |-> IF reasons # {} THEN "stop" ELSE IF head.state = "shadow" THEN "owner_approval_required" ELSE "activation_eligible",
      reasons |-> reasons, report |-> report, policy |-> policy, head |-> head]

\* build_activation_metadata.
Activation(history, report, decision, policy) ==
  IF IsStopped(decision) \/ decision # Promotion(history, report, policy) \/ decision.verdict # "activation_eligible"
  THEN Stopped("PATTERN_STATE_INVALID")
  ELSE [head |-> Last(history), report |-> report, policy |-> policy, revision |-> Last(history).revision + 1]

-----------------------------------------------------------------------------
(* The acceptance of the shadow run.                                         *)
AtLeastRates == {"recall_at_5", "mrr", "pattern_reuse", "availability"}
AtMostRates == {"top_1_error", "review", "operator_correction", "suspension"}

\* Bug: the promotion is bound to the report, not to the head it replayed.
BoundToReport(promotion, report) == promotion.report = report /\ promotion.policy = report.policy
PromotionBound(promotion, report) ==
  promotion.report = report /\ promotion.policy = report.policy /\ promotion.head = report.head

GateReasons(report, promotion, gates) ==
  LET found == report.baseline.faults \cup report.holdout.faults
      whole == <<1, 1>>
  IN {code \in {"PROMOTION_BINDING_INVALID", "PROMOTION_STOP", "HARD_GATE_BINDING_INVALID", "HARD_GATE_METRICS_MISMATCH",
                "SOURCE_MUTATION_PRESENT", "LIMIT_EXCEEDED", "FAULT_PRESENT", "ROW_COVERAGE_INCOMPLETE",
                "OUTAGE_DELTA_PRESENT", "REPEATABILITY_FAILED"} :
       CASE code = "PROMOTION_BINDING_INVALID" -> ~PromotionBound(promotion, report)
         [] code = "PROMOTION_STOP" -> promotion.verdict = "stop"
         [] code = "HARD_GATE_BINDING_INVALID" -> gates.report # report
         [] code = "HARD_GATE_METRICS_MISMATCH" -> gates.faults # found \/ ~gates.repeatable
         [] code = "SOURCE_MUTATION_PRESENT" -> gates.before # gates.after \/ gates.mutations > 0
         [] code = "LIMIT_EXCEEDED" -> gates.current > 50 \/ gates.repeated > 30 \/ gates.disputed > 20
         [] code = "FAULT_PRESENT" -> gates.faults # {}
         [] code = "ROW_COVERAGE_INCOMPLETE" -> \E r \in {gates.coverage, report.baseline.rows, report.holdout.rows} : r # whole
         [] code = "OUTAGE_DELTA_PRESENT" -> gates.outageDelta > 0
         [] OTHER -> ~gates.repeatable}
OperationalReasons(report, thresholds, operational) ==
  {code \in {"OPERATIONAL_BINDING_INVALID", "RATE_BELOW_THRESHOLD", "RATE_EXCEEDED", "LATENCY_EXCEEDED", "INDEX_SIZE_EXCEEDED"} :
     CASE code = "OPERATIONAL_BINDING_INVALID" -> \/ operational.measured # report.measured
                                                  \/ operational.p95 # report.measured.p95
                                                  \/ report.measured.index = None \/ operational.index # report.measured.index
       [] code = "RATE_BELOW_THRESHOLD" -> \E r \in AtLeastRates : ~AtLeast(operational.rates[r], thresholds.rates[r])
       [] code = "RATE_EXCEEDED" -> \E r \in AtMostRates : ~AtLeast(thresholds.rates[r], operational.rates[r])
       [] code = "LATENCY_EXCEEDED" -> operational.p95 > thresholds.p95
       [] OTHER -> operational.index > thresholds.index}

\* evaluate_shadow_acceptance.
Accepted(report, promotion, gates, thresholds, operational) ==
  IF None \in {report, promotion, gates, thresholds, operational} THEN "BLOCKED"
  ELSE IF operational.rates = None THEN "UNAVAILABLE"
  ELSE IF GateReasons(report, promotion, gates) # {} \/ OperationalReasons(report, thresholds, operational) # {} THEN "FAIL"
  ELSE "PASS"

\* What the runner accepts as belonging together (_bind).
BoundInputs(in) ==
  LET gates == in.gates  source == in.source  report == in.report IN
  /\ Independent(in.baseline, in.holdout) /\ in.baseline.versions = in.holdout.versions
  /\ report.baseline.snapshot = in.baseline /\ report.holdout.snapshot = in.holdout
  /\ gates.report = report /\ gates.before = source.before /\ gates.after = source.after /\ source.before = source.after
  /\ gates.mutations = source.mutations /\ source.mutations = 0
  /\ gates.outageDelta = in.outage.delta /\ in.outage.delta = 0 /\ in.outage.down /\ gates.oracle = in.outage
  /\ in.thresholds.representative = in.baseline /\ in.thresholds.independent = in.holdout
  /\ source.manifests = <<in.baseline.manifest, in.holdout.manifest>>
  /\ source.sets = <<in.baseline.sources, in.holdout.sources>>
  /\ gates.observed = <<report.baseline, report.holdout, gates.current, gates.repeated, gates.disputed>>
  /\ in.operational.rates # None => in.operational.outage = in.outage

\* run_shadow_acceptance.
Acceptance(in) ==
  IF ~BoundInputs(in) THEN "RUNNER_BINDING_INVALID"
  ELSE Accepted(in.report, in.promotion, in.gates, in.thresholds, in.operational)

-----------------------------------------------------------------------------
(* Properties of a replay that ran, a history that went on, and a decision.  *)

\* An activation has a replay behind it that ran, twice alike, on the very
\* record the owner approved, under the very policy the owner approved, left
\* people no more work than before and counted nothing wrong.
ActivationWasReplayed(history, report, policy, snapshots, runs) ==
  LET activation == Activation(history, report, Promotion(history, report, policy), policy)
  IN ~IsStopped(activation) =>
       \E i \in 1 .. Len(history) - 1 :
         /\ history[i].state = "shadow" /\ i = Len(history) - 1 /\ activation.revision = history[i].revision + 2
         /\ activation.head.owner.ref = ApprovalRef(history[i], report, policy)
         /\ history[i].conflicts = {} /\ Last(history).conflicts = {}
         /\ \A split \in Range(Splits) :
              LET run == runs[split] IN
              /\ run.after = run.repeat /\ run.after.head = history[i] /\ run.after.faults = {} /\ run.oracles = {}
              /\ \A m \in Manual : run.after.manual[m] <= run.before.manual[m]

\* The acceptance comes before the approval: no report passes together with the
\* promotion of a record that has already been approved, and one that passes was
\* repeated, counted nothing wrong and covered every row of sources that did not
\* change and have nothing in common.
AcceptedBeforeApproval(in) ==
  Acceptance(in) = "PASS" =>
    /\ in.promotion.verdict = "owner_approval_required" /\ in.promotion.head.state = "shadow"
    /\ in.report.baseline.snapshot.sources \cap in.report.holdout.snapshot.sources = {}
    /\ \A m \in {in.report.baseline, in.report.holdout} : m.faults = {} /\ m.rows = <<1, 1>>
=============================================================================
