--------------------------- MODULE ReviewRecording ---------------------------
(* The review of a processed job: what the operator is shown of the issues  *)
(* and suggestions of a run, the decisions the service records about them,  *)
(* and when a result is served.  A decision is filed under the number of    *)
(* the request that made it.                                                *)
EXTENDS Integers, FiniteSets, Sequences, FiniteSetsExt

CONSTANT None

-----------------------------------------------------------------------------
(* What a run's issues and suggestions are shown as.                        *)
UnchangedCodes == {"UNCHANGED_VALUE", "VALUE_UNCHANGED", "NO_VALUE_CHANGE"}
HierarchyCodes == {"HIERARCHY_COST_MISMATCH", "HIERARCHY_POSITION_GAP"}

Or(value, other) == IF value # None THEN value ELSE other
The(things) == IF things = {} THEN None ELSE CHOOSE thing \in things : TRUE
NameOf(thing) == IF thing = None THEN None ELSE thing.name

Context(row, match, calculation) ==
  [title |-> Or(NameOf(row), Or(NameOf(match), NameOf(calculation))),
   cost |-> IF calculation = None THEN None ELSE calculation.cost]

MatchOf(issue, artifacts) ==
  Or(The({m \in artifacts.matches : m.id = issue.match}), The({m \in artifacts.matches : m.target = issue.target}))
IssueContext(issue, artifacts) ==
  Context(The({r \in artifacts.rows : r.id = issue.row}), MatchOf(issue, artifacts),
          The({c \in artifacts.calculations : c.id = issue.calculation}))
SuggestionContext(source, target, artifacts) ==
  Context(The({r \in artifacts.rows : r.id = source}), The({m \in artifacts.matches : m.id = target}),
          The({c \in artifacts.calculations : c.match = target}))

Issue(issue, artifacts) ==
  [item |-> <<"discrepancy", issue.id>>, code |-> issue.code, severity |-> issue.severity, context |-> IssueContext(issue, artifacts)]
Warning(code, severity) ==
  [item |-> <<"discrepancy", code>>, code |-> code, severity |-> severity, context |-> [title |-> None, cost |-> None]]
SuggestionsOf(artifacts) ==
  {[item |-> <<"suggestion", s.target, s.source>>, target |-> s.target,
    context |-> SuggestionContext(s.source, s.target, artifacts)] : s \in artifacts.suggestions}
Issues(artifacts) == {Issue(issue, artifacts) : issue \in artifacts.issues}
DiscrepanciesOf(artifacts) ==
  Issues(artifacts)
  \cup {Warning(code, "warning") : code \in (artifacts.warnings \cap (UnchangedCodes \cup HierarchyCodes)) \ {i.code : i \in artifacts.issues}}
  \cup (IF artifacts.rag /\ artifacts.suggestions = {} THEN {Warning("RAG_MODEL_UNAVAILABLE", "manual_review")} ELSE {})

-----------------------------------------------------------------------------
(* What is open, and the groups it is shown in.                             *)
Manual(discrepancies) == {d \in discrepancies : d.severity = "manual_review"}
DecidedIn(decisions) == {d.item : d \in decisions}
UnresolvedSuggestions(job) == {s.item : s \in job.suggestions} \ DecidedIn(job.decisions)
UnresolvedManual(job) == {d.item : d \in Manual(job.discrepancies)} \ DecidedIn({d \in job.decisions : d.decision \in {"approve", "reject"}})
Unresolved(job) == UnresolvedSuggestions(job) \cup UnresolvedManual(job)

OpenManual(job) == {d \in Manual(job.discrepancies) : d.item \notin DecidedIn({e \in job.decisions : e.decision \in {"approve", "reject"}})}
ManualKey(d) == <<d.code, d.context.title>>
ManualGroup(job, key) == {d \in OpenManual(job) : ManualKey(d) = key}
ManualReviewGroups(job) == {ManualGroup(job, key) : key \in {ManualKey(d) : d \in OpenManual(job)}}
\* Bug: a suggestion that does not fit stays open.
StillOpen(job, target) ==
  {s \in job.suggestions : s.target = target /\ s.item \notin DecidedIn({e \in job.decisions : e.decision = "fit"})}
OpenSuggestions(job, target) ==
  {s \in job.suggestions : s.target = target /\ s.item \notin DecidedIn({e \in job.decisions : e.decision \in {"fit", "not_fit"}})}
SuggestionReviewGroups(job) == {OpenSuggestions(job, s.target) : s \in job.suggestions} \ {{}}

\* Of the costs of a group's calculations each amount is added once.
GroupCost(group) == FoldSet(LAMBDA cost, sum : cost + sum, 0, {d.context.cost : d \in group} \ {None})
PassiveKey(d) == [code |-> d.code, severity |-> d.severity, context |-> d.context]
\* Bug: equal discrepancies are shown once, uncounted.
ShownOnce(job) == {[record |-> PassiveKey(d), count |-> 1] : d \in job.discrepancies \ Manual(job.discrepancies)}
PassiveDiscrepancies(job) ==
  LET passive == job.discrepancies \ Manual(job.discrepancies)
  IN {[record |-> PassiveKey(d), count |-> Cardinality({e \in passive : PassiveKey(e) = PassiveKey(d)})] : d \in passive}

-----------------------------------------------------------------------------
(* A job takes the result of its run.                                       *)
Journal == "review-journal.json"
\* Bug: the file of a blocked run is served before its review is done.
ServedUnreviewed(job) == job.status # "failed" /\ job.output # None /\ job.file # None
ResultAvailable(job) ==
  /\ job.status \in (IF job.operation = "verify" \/ job.reviewed THEN {"ready"} ELSE {"ready", "blocked", "review_recorded"})
  /\ job.output # None /\ job.file # None
  /\ Unresolved(job) = {}

Fails(job) == [job EXCEPT !.status = "failed", !.output = None]
Publish(job, output) == [job EXCEPT !.output = output, !.file = [name |-> output, decisions |-> job.decisions], !.status = "ready"]

VerificationResult(job, result) ==
  IF result.output = None THEN [job EXCEPT !.status = "ready", !.verification = result.status]
  ELSE IF ~result.exists THEN Fails(job)
  ELSE [Publish(job, result.output) EXCEPT !.verification = result.status]
ReviewResult(job, result) ==
  IF result.state = None THEN Fails(job) ELSE [job EXCEPT !.status = "review_required", !.reviewed = TRUE]
PathResult(job, result) == IF result.exists THEN Publish(job, "result.xlsx") ELSE Fails(job)

Shown(job, artifacts) == [job EXCEPT !.discrepancies = DiscrepanciesOf(artifacts), !.suggestions = SuggestionsOf(artifacts)]
WithOutput(job, written) ==
  IF written THEN [job EXCEPT !.output = "result.xlsx", !.file = [name |-> "result.xlsx", decisions |-> {}]] ELSE job
StatusOf(exit, job) ==
  IF exit \notin {0, 1, 3, 4} THEN "failed"
  ELSE IF Unresolved(job) # {} THEN "review_required"
  ELSE IF exit \in {0, 1} THEN "ready" ELSE "blocked"
\* Bug: a run that left no workbook leaves no journal either.
WithoutJournal(job) == job
WithJournal(job) ==
  IF job.output = None /\ Unresolved(job) = {} THEN [job EXCEPT !.output = Journal, !.file = [name |-> Journal, decisions |-> job.decisions]] ELSE job
Settled(exit, job) ==
  IF StatusOf(exit, job) = "failed" THEN Fails(job) ELSE WithJournal([job EXCEPT !.status = StatusOf(exit, job)])
ProcessedResult(job, result) == Settled(result.exit, WithOutput(Shown(job, result.artifacts), result.written))

ApplyExecutionResult(job, result) ==
  CASE result.kind = "verified" -> VerificationResult(job, result)
    [] result.kind = "review" -> ReviewResult(job, result)
    [] result.kind = "path" -> PathResult(job, result)
    [] result.kind = "processed" -> ProcessedResult(job, result)

Running(operation) ==
  [status |-> "running", operation |-> operation, reviewed |-> FALSE, output |-> None, file |-> None, verification |-> None,
   discrepancies |-> {}, suggestions |-> {}, decisions |-> {}]

-----------------------------------------------------------------------------
(* The operator's requests.                                                 *)
Entries(at, items, decision) == {[at |-> at, item |-> item, decision |-> decision] : item \in items}

\* Bug: a suggestion may be decided again.
AnySuggestion(job, at, request) ==
  IF request.item \in {s.item : s \in job.suggestions} THEN Entries(at, {request.item}, request.decision) ELSE {}
RecordDecision(job, at, request) ==
  IF request.item \in {s.item : s \in job.suggestions} /\ request.item \notin DecidedIn(job.decisions)
  THEN Entries(at, {request.item}, request.decision) ELSE {}

\* Bug: the group is taken as it was before anything was decided.
WholeGroup(job, at, request) ==
  LET members == {s.item : s \in {s \in job.suggestions : s.target = request.target}}
  IN IF request.item \in members THEN Entries(at, {request.item}, "fit") \cup Entries(at, members \ {request.item}, "not_fit")
     ELSE IF request.item = None THEN Entries(at, members, "not_fit") ELSE {}
GroupDecision(job, at, request) ==
  LET members == {s.item : s \in OpenSuggestions(job, request.target)}
  IN IF request.item \in members THEN Entries(at, {request.item}, "fit") \cup Entries(at, members \ {request.item}, "not_fit")
     ELSE IF request.item = None THEN Entries(at, members, "not_fit") ELSE {}

\* Bug: of a group only the named discrepancies are decided.
NamedOnly(job, at, request) ==
  LET expected == {d.item : d \in ManualGroup(job, request.key)}
  IN IF request.items = None THEN Entries(at, expected, request.decision) ELSE Entries(at, expected \cap request.items, request.decision)
ManualDecision(job, at, request) ==
  LET expected == {d.item : d \in ManualGroup(job, request.key)}
  IN IF request.items \in {None, expected} THEN Entries(at, expected, request.decision) ELSE {}

Recorded(job, at, request) ==
  CASE request.kind = "suggestion" -> RecordDecision(job, at, request)
    [] request.kind = "group" -> GroupDecision(job, at, request)
    [] request.kind = "manual" -> ManualDecision(job, at, request)

\* Bug: the journal is written as soon as the suggestions are decided.
JournalOfSuggestions(job, fault) ==
  IF UnresolvedSuggestions(job) # {} THEN job
  ELSE IF job.output # None THEN [job EXCEPT !.status = IF job.status = "review_required" THEN "ready" ELSE job.status]
  ELSE IF fault = "journal" THEN [job EXCEPT !.output = Journal]
  ELSE [job EXCEPT !.output = Journal, !.file = [name |-> Journal, decisions |-> job.decisions], !.status = "review_recorded"]
CompleteReview(job, fault) ==
  IF Unresolved(job) # {} THEN job
  ELSE IF job.output # None THEN [job EXCEPT !.status = IF job.status = "review_required" THEN "ready" ELSE job.status]
  ELSE IF fault = "journal" THEN [job EXCEPT !.output = Journal]
  ELSE [job EXCEPT !.output = Journal, !.file = [name |-> Journal, decisions |-> job.decisions], !.status = "review_recorded"]

After(job, entries, fault) ==
  IF entries = {} THEN job ELSE CompleteReview([job EXCEPT !.decisions = @ \cup entries], fault)
\* The job before the first request, and after each.
Reviewed(first, requests, fault) ==
  LET jobs[at \in 0 .. Len(requests)] ==
        IF at = 0 THEN first
        ELSE After(jobs[at - 1], Recorded(jobs[at - 1], at, requests[at]), IF fault.at = at THEN fault.kind ELSE "none")
  IN [at \in 1 .. Len(requests) + 1 |-> jobs[at - 1]]

-----------------------------------------------------------------------------
(* Properties of a review.                                                  *)
\* No issue or suggestion is decided twice, by whichever of the three requests
\* (record_decision, record_suggestion_group_decision, record_manual_discrepancy_decision).
DecidedOnce(job) == \A d, e \in job.decisions : d.item = e.item => d = e

\* A request decides all of one group the operator was shown, or one suggestion, or nothing,
\* also when the journal cannot be written.
DecidedAsShown(before, after) ==
  LET decided == DecidedIn(after.decisions) \ DecidedIn(before.decisions)
      groups == ManualReviewGroups(before) \cup SuggestionReviewGroups(before)
  IN \/ decided = {} \/ \E suggestion \in before.suggestions : decided = {suggestion.item}
     \/ decided \in {{d.item : d \in group} : group \in groups}

\* Every open item is in exactly one group the operator is shown, so the review can be
\* finished, and a group shows no item that is decided.
OpenIsShown(job) ==
  LET groups == {{d.item : d \in group} : group \in ManualReviewGroups(job) \cup SuggestionReviewGroups(job)}
  IN UNION groups = Unresolved(job) /\ \A g, h \in groups : g = h \/ g \cap h = {}

\* A processed job's result is served exactly when nothing is open any more, whatever its
\* exit code and its mode.
ServedWhenDecided(job) == (job.status # "failed" /\ job.operation = "reconcile" /\ ~job.reviewed) => (ResultAvailable(job) <=> Unresolved(job) = {})

\* Nothing open is served, also after a failed write.
NothingOpenIsServed(job) == ResultAvailable(job) => Unresolved(job) = {} /\ job.file.name = job.output

\* A journal holds every decision made about the job.
JournalIsComplete(job) == (job.file # None /\ job.file.name = Journal) => job.file.decisions = job.decisions

\* The discrepancies shown and the open ones are all there are (not the decided ones).
NothingIsHidden(job) ==
  MapThenSumSet(LAMBDA shown : shown.count, PassiveDiscrepancies(job)) + Cardinality(Manual(job.discrepancies))
    = Cardinality(job.discrepancies)

(* What does not hold. *)
\* Of the suggestions for one target at most one fits: two single decisions may both say "fit".
OneFitPerTarget(job) ==
  \A d, e \in job.decisions : (d.decision = "fit" /\ e.decision = "fit" /\ d.item[2] = e.item[2]) => d = e
\* A run that was blocked is not ready: its review makes it so when a file was left.
BlockedStaysBlocked(exit, job) == exit \in {3, 4} => job.status # "ready"
\* After a failed write of the journal the review can still be finished.
FailureIsRetried(job) == Unresolved(job) = {} => ResultAvailable(job)
\* The cost shown for a group is that of its calculations.
GroupCostAddsUp(job, artifacts) ==
  \A group \in ManualReviewGroups(job) :
    GroupCost(group) = MapThenSumSet(LAMBDA c : c.cost, {c \in artifacts.calculations : \E i \in artifacts.issues : i.calculation = c.id /\ <<"discrepancy", i.id>> \in {d.item : d \in group}})
=============================================================================
