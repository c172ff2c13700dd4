-------------------------- MODULE ReviewApplication --------------------------
(***************************************************************************)
(* From the decisions of a review to the cells of the report: the documents *)
(* are bound to the report's documents (reconciliation_identity.py), their   *)
(* rows are proposed and decided, and what was accepted is calculated and    *)
(* written (reconciliation_execution.py).  And the other way, the            *)
(* verification of uploaded documents against a report                      *)
(* (reconciliation_verification.py, reconciliation_numeric_verification.py): *)
(* each visible row must be accepted, by a decision or by being in a safe    *)
(* package, and what is accepted must add up to what the cells of the report *)
(* show; the rows that fail are marked in copies of the documents.          *)
(*                                                                         *)
(* A text that may name a document is [form, id]: "bare" four digits, "part" *)
(* three, "dotted" a full number, "prose" anything else.  A document is       *)
(* [name, digest, rows], a name [stem, primary, inside]: the whole of it, the *)
(* numbers in it, and the texts in its parentheses.  A row is [sheet, number, *)
(* name, unit, quantity, cost, matched], matched the targets the matcher      *)
(* proposes; a target is [row, index, category, unit, quantity, cost], index  *)
(* a text.  Numbers are in halves of what a cell shows.  For a verification a *)
(* target has the cells [quantity, cost] of the report too, each None when it *)
(* has no final number.                                                     *)
(***************************************************************************)
EXTENDS Integers, FiniteSets, Sequences, SequencesExt, FiniteSetsExt

CONSTANT None   \* no document, category, unit, number, ...

LOCAL Groups == INSTANCE ReviewPackages

-----------------------------------------------------------------------------
(* Which document of the report an uploaded document is.                    *)

\* Numbers that read as a year name no document.
Years == 2000..2099

\* terminal_identity
Terminal(text) == IF text.form \in {"bare", "dotted"} /\ text.id \notin Years THEN text.id ELSE None

\* _source_part_identity
PartIdentity(text) == IF text.form = "part" THEN text.id ELSE Terminal(text)

\* source_basename_identities
BasenameIdentities(name) ==
  ((IF Terminal(name.stem) # None THEN {Terminal(name.stem)} ELSE name.primary \ Years)
   \cup {PartIdentity(text) : text \in name.inside}) \ {None}

\* Bug: the first of the documents that fit.
FirstOf(candidates, stage) == IF candidates \cap stage = {} THEN None ELSE Min(candidates \cap stage)

\* resolve_source_identity
ResolveIdentity(candidates, stage) ==
  IF Cardinality(candidates \cap stage) = 1 THEN CHOOSE id \in candidates \cap stage : TRUE ELSE None

\* document_index_from_basename: what a name says without the report.
IndexOf(name) == IF Cardinality(BasenameIdentities(name)) = 1 THEN CHOOSE id \in BasenameIdentities(name) : TRUE ELSE None

StageIdentities(targets) == {Terminal(t.index) : t \in targets} \ {None}

\* descriptor_from_upload_basename and resolve_descriptor_identity
DocumentIndex(name, stage) == IF stage = {} THEN IndexOf(name) ELSE ResolveIdentity(BasenameIdentities(name), stage)

-----------------------------------------------------------------------------
(* What is read.                                                           *)

RowOf(document, row, index) ==
  [id |-> <<document.digest, row.sheet, row.number>>, file |-> document.digest, filename |-> document.name, index |-> index, row |-> row]

\* _sources, extract_reconciliation_sources: a document of no index is not read.
Sources(job, targets) ==
  LET indexed == {d \in job.documents : DocumentIndex(d.name, StageIdentities(targets)) # None} IN
  [rows   |-> UNION {{RowOf(d, r, DocumentIndex(d.name, StageIdentities(targets))) : r \in d.rows} : d \in indexed},
   issues |-> {<<"DOCUMENT_INDEX_MISSING", d.name>> : d \in job.documents \ indexed}
              \cup {<<"NO_USABLE_RECONCILIATION_SOURCE", d.name>> : d \in {d \in indexed : d.rows = {}}}]

\* _catalog: the targets a category and a document name.
Catalog(targets) == {t \in targets : t.category # None /\ Terminal(t.index) # None}
CatalogIsValid(targets) ==
  \A s, t \in Catalog(targets) : Terminal(s.index) = Terminal(t.index) /\ s.category = t.category => s = t
Labels(targets) == {t.category : t \in Catalog(targets)}
\* Bug: the document of a row is not looked at.
AnyNamed(targets, index, category) == {t \in Catalog(targets) : t.category = category}
Named(targets, index, category) == {t \in Catalog(targets) : Terminal(t.index) = index /\ t.category = category}

\* Bug: a category of any document is proposed.
ProposedAnywhere(row, targets) == {t.category : t \in {t \in targets : t.row \in row.row.matched}}

\* _review_rows: what the matcher proposes for the document of the row.
Proposed(row, targets) == {t.category : t \in {t \in targets : t.row \in row.row.matched /\ Terminal(t.index) = row.index}}

\* _unique
Unique(proposed, targets) ==
  IF Cardinality(proposed \cap Labels(targets)) = 1 THEN CHOOSE c \in proposed \cap Labels(targets) : TRUE ELSE None

ReviewRow(row, targets) ==
  [id |-> row.id, name |-> row.row.name, unit |-> row.row.unit, category |-> Unique(Proposed(row, targets), targets),
   quantity |-> row.row.quantity, cost |-> row.row.cost]
ReviewRows(batch, targets) == {ReviewRow(r, targets) : r \in batch.rows}

\* Bug: any category of the report may be chosen.
AllCategories(row, targets) == Labels(targets)

\* _available_categories
Available(row, targets) == {t.category : t \in {t \in Catalog(targets) : Terminal(t.index) = row.index}}
RowNamed(batch, id) == CHOOSE r \in batch.rows : r.id = id
AvailableTo(ids, batch, targets) == {c \in Labels(targets) : \A id \in ids : c \in Available(RowNamed(batch, id), targets)}
IdsOf(group) == {r.id : r \in group.members}

\* _group_category_availability, for build_reconciliation_packages
AvailableToGroups(groups, batch, targets) == [g \in groups |-> AvailableTo(IdsOf(g), batch, targets)]

ReviewOf(job, targets, batch, visible, groups) ==
  [status |-> "review", batch |-> batch, rows |-> visible, groups |-> groups,
   packages |-> Groups!PackagesOf(groups, job.lexicon, {}, AvailableToGroups(groups, batch, targets))]
Grouped(job, targets, batch, visible) == ReviewOf(job, targets, batch, visible, Groups!ReviewGroups(visible))

\* Documents of the same content have the same rows, which the groups refuse.
RowsAreDistinct(batch) == Cardinality({r.id : r \in batch.rows}) = Cardinality(batch.rows)

Ended(status, issues) == [status |-> status, issues |-> issues]

\* _prepare_review_from_targets
Prepared(job, targets, batch) ==
  IF batch.rows = {} THEN Ended("sources_unusable", batch.issues)
  ELSE IF ~RowsAreDistinct(batch) THEN Ended("raises", {})
  ELSE Grouped(job, targets, batch, Groups!Visible(ReviewRows(batch, targets)))

\* prepare_review and prepare_period_review: the targets are those of the report,
\* or of its projection to the period.
PrepareReview(job, targets) ==
  IF ~CatalogIsValid(targets) THEN Ended("target_error", {}) ELSE Prepared(job, targets, Sources(job, targets))

-----------------------------------------------------------------------------
(* What is decided: a set of [of, ids, action, mode, category], of "group" or *)
(* "row".                                                                  *)

\* ReconciliationReviewState.validate_decision
DecisionIsValid(d, review, targets) == d.action = "accept" => d.category \in AvailableTo(d.ids, review.batch, targets)

\* Bug: whatever a group was told goes for its rows.
GroupsFirst(id, decisions) ==
  LET of(kind) == {d \in decisions : d.of = kind /\ id \in d.ids} IN IF of("group") # {} THEN of("group") ELSE of("row")

\* apply_overrides: what was said of a row goes before what was said of its group.
DecisionOf(id, decisions) ==
  LET of(kind) == {d \in decisions : d.of = kind /\ id \in d.ids} IN IF of("row") # {} THEN of("row") ELSE of("group")

Accepted(id, decisions) == {d \in DecisionOf(id, decisions) : d.action = "accept"}
Overrides(rows, decisions) ==
  UNION {{[id |-> r.id, category |-> d.category, quantity |-> d.mode = "quantity_cost"] : d \in Accepted(r.id, decisions)} : r \in rows}

-----------------------------------------------------------------------------
(* What is written.                                                        *)

TargetOf(override, row, targets) == Named(targets, row.index, override.category)

\* _selected_matches: a row of each override, with the target it goes to.
Selection(override, row, targets) ==
  [override |-> override, row |-> row, target |-> IF TargetOf(override, row, targets) = {} THEN None ELSE CHOOSE t \in TargetOf(override, row, targets) : TRUE]
SelectedMatches(overrides, batch, targets) == {Selection(o, RowNamed(batch, o.id), targets) : o \in overrides}

\* _quantity_unit_allowed
UnitAllowed(unit, target) == target.unit = None \/ unit = target.unit
Counted(selections, target) == {s \in selections : s.target = target}

\* Round half up, to what a cell shows: two halves.
Rounded(value) == 2 * ((value + 1) \div 2)

\* Bug: every row is rounded on its own.
SumOfRounded(values) == IF values = {} THEN None ELSE MapThenSumSet(LAMBDA v : Rounded(v[2]), values)
\* calculate_matches and writer_calculations: the sum of what there is, rounded.
Total(values) == IF values = {} THEN None ELSE Rounded(MapThenSumSet(LAMBDA v : v[2], values))

QuantitiesOf(selections, target) ==
  {<<s.row.id, s.row.row.quantity>> : s \in {s \in Counted(selections, target) :
     s.override.quantity /\ s.row.row.quantity # None /\ UnitAllowed(s.row.row.unit, target)}}
CostsOf(selections, target) ==
  {<<s.row.id, s.row.row.cost>> : s \in {s \in Counted(selections, target) : s.row.row.cost # None}}
Calculation(selections, target) ==
  [target |-> target.row, quantity |-> Total(QuantitiesOf(selections, target)), cost |-> Total(CostsOf(selections, target))]

\* NO_VALUES is not written.
HasValues(c) == c.quantity # None \/ c.cost # None
Calculated(selections) == {c \in {Calculation(selections, t) : t \in {s.target : s \in selections}} : HasValues(c)}

\* _catalog_version, and the targets that were matched.
CatalogVersion(targets) == {<<Terminal(t.index), t.category, t.row>> : t \in Catalog(targets)}
MatchedRows(selections) == {s.target.row : s \in selections}

Unavailable(selections) == \E s \in selections : s.target = None
Evidence(targets, selections) ==
  [catalog |-> CatalogVersion(targets), matched |-> MatchedRows(selections), selected |-> Calculated(selections), actionable |-> Calculated(selections) # {}]

\* _calculate_selected, and rebuild_apply_evidence after it
SelectedFrom(job, review, decisions, targets) ==
  SelectedMatches(Overrides(review.rows, decisions), Sources(job, targets), targets)
EvidenceOf(targets, selections) ==
  IF ~CatalogIsValid(targets) \/ Unavailable(selections) THEN None ELSE Evidence(targets, selections)
RebuildEvidence(job, review, decisions, targets) == EvidenceOf(targets, SelectedFrom(job, review, decisions, targets))

Raises(code) == [status |-> code, written |-> {}]
Written(evidence) == [status |-> "written", written |-> evidence.selected]

\* Bug: the period's report is written whatever it turned out to be.
WrittenAnyway(evidence, strict) ==
  IF strict = None THEN Raises("RECONCILIATION_PERIOD_APPLY_DRIFT") ELSE Written(strict)

\* The report of the period is read again, and must be what was shown.
WrittenStrictly(evidence, strict) ==
  IF strict # None /\ strict.catalog = evidence.catalog /\ strict.matched = evidence.matched /\ strict.selected = evidence.selected
  THEN Written(strict) ELSE Raises("RECONCILIATION_PERIOD_APPLY_DRIFT")

\* apply_review: shown are the targets of the review, prepared those of the
\* report with the period inserted, None without a period.
Applied(job, review, decisions, evidence, prepared) ==
  IF evidence = None THEN Raises("SELECTED_CATEGORY_UNAVAILABLE")
  ELSE IF ~evidence.actionable THEN [status |-> "unchanged", written |-> {}]
  ELSE IF prepared = None THEN Written(evidence)
  ELSE WrittenStrictly(evidence, RebuildEvidence(job, review, decisions, prepared))
ApplyReview(job, review, decisions, shown, prepared) ==
  Applied(job, review, decisions, RebuildEvidence(job, review, decisions, shown), prepared)

-----------------------------------------------------------------------------
(* Properties of one job.                                                  *)

\* A row is of at most one document of the report, one its name says and the
\* only one it says; a document that says none or two is not read, and reported.
OneDocumentEach(job, targets) ==
  LET batch == Sources(job, targets)
      said(d) == {id \in StageIdentities(targets) : id \in BasenameIdentities(d.name)}
  IN  /\ \A r \in batch.rows : \E d \in job.documents : r.row \in d.rows /\ d.digest = r.file /\ (StageIdentities(targets) # {} => said(d) = {r.index})
      /\ \A d \in job.documents : Cardinality(said(d)) # 1 /\ StageIdentities(targets) # {} => <<"DOCUMENT_INDEX_MISSING", d.name>> \in batch.issues

\* A category that is proposed for a row can be chosen for it, and for no row is
\* one proposed that would be written to another document.
ProposalsStand(review, targets) ==
  \A r \in review.rows : r.category # None => \E t \in targets :
    /\ t.category = r.category /\ Terminal(t.index) = RowNamed(review.batch, r.id).index
    /\ t.row \in RowNamed(review.batch, r.id).row.matched

\* What the review lets an operator decide can be applied.
DecidedCanBeApplied(decisions, review, targets, result) ==
  (\A d \in decisions : DecisionIsValid(d, review, targets)) => result.status \in {"written", "unchanged"}

\* A cell is written the sum of the accepted rows of its document and category:
\* of each the cost, and the quantity where it was accepted with its quantity and
\* is of the unit; nothing is written to any other cell.
Accepts(decisions, r) ==
  LET own == {d \in decisions : d.of = "row" /\ r.id \in d.ids}
      last == IF own # {} THEN own ELSE {d \in decisions : r.id \in d.ids}
  IN  {d \in last : d.action = "accept"}
GoesTo(decisions, review, r, t) ==
  \E d \in Accepts(decisions, r) : d.category = t.category /\ Terminal(t.index) = RowNamed(review.batch, r.id).index
WithQuantity(decisions, r, t) ==
  /\ \E d \in Accepts(decisions, r) : d.mode = "quantity_cost"
  /\ t.unit \in {None, r.unit}
AddUp(values) == IF values = {} THEN None ELSE (MapThenSumSet(LAMBDA v : v[2], values) + 1) \div 2
Shown(value) == IF value = None THEN None ELSE value \div 2
DecisionsAreWritten(decisions, review, targets, result) ==
  result.status \in {"written", "unchanged"} => \A t \in Catalog(targets) :
    LET rows == {r \in review.rows : GoesTo(decisions, review, r, t)}
        quantity == AddUp({<<r.id, r.quantity>> : r \in {r \in rows : r.quantity # None /\ WithQuantity(decisions, r, t)}})
        cost == AddUp({<<r.id, r.cost>> : r \in {r \in rows : r.cost # None}})
        written == {c \in result.written : c.target = t.row}
    IN  IF quantity = None /\ cost = None THEN written = {}
        ELSE \E c \in written : written = {c} /\ Shown(c.quantity) = quantity /\ Shown(c.cost) = cost

\* What is written to the report of a period is what its evidence, calculated
\* from what the operator was shown, says.
PeriodIsAsShown(job, review, decisions, shown, result) ==
  result.status = "written" => result.written = RebuildEvidence(job, review, decisions, shown).selected

\* A row accepted with its quantity adds to the quantity.  The code does not
\* satisfy it: a quantity of another unit is left out, and nobody is told
\* (calculation/engine.py:316).
AcceptedQuantityCounts(decisions, review, targets, result) ==
  result.status = "written" => \A r \in review.rows, t \in Catalog(targets) :
    GoesTo(decisions, review, r, t) /\ r.quantity \notin {None, 0} /\ (\E d \in Accepts(decisions, r) : d.mode = "quantity_cost") =>
      \E c \in result.written : c.target = t.row /\ c.quantity # None /\ UnitAllowed(r.unit, t)

-----------------------------------------------------------------------------
(* The verification of documents against a report.                          *)

Failure(code) == [status |-> "technical_failure", code |-> code, failed |-> {}, checked |-> 0, artifact |-> {}]

-----------------------------------------------------------------------------
(* verify_numeric                                                          *)

\* _reject_duplicate_target_keys
TargetsAreDistinct(targets) ==
  \A s, t \in targets : /\ Terminal(t.index) # None
                        /\ Terminal(s.index) = Terminal(t.index) /\ s.category = t.category => s = t

\* What a safe package says of the rows of its groups.
PackagesOf(id, review) == {p \in review.packages : p.safe /\ \E f \in UNION p.families : id \in IdsOf(f.group)}
SafeDecision(feature) == [of |-> "group", ids |-> IdsOf(feature.group), action |-> "accept", mode |-> feature.mode, category |-> feature.group.category]
SafeDecisions(id, review) ==
  UNION {{SafeDecision(f) : f \in {f \in UNION p.families : id \in IdsOf(f.group)}} : p \in PackagesOf(id, review)}

\* Bug: a safe package goes before what was decided.
PackagesFirst(id, review, decisions) ==
  IF SafeDecisions(id, review) # {} THEN SafeDecisions(id, review) ELSE DecisionOf(id, decisions)

\* _authorizations
Authorization(id, review, decisions) ==
  IF DecisionOf(id, decisions) # {} THEN DecisionOf(id, decisions) ELSE SafeDecisions(id, review)

AuthorizedRows(review, decisions) == {r \in review.rows : \E d \in Authorization(r.id, review, decisions) : d.action = "accept"}
Authorized(review, decisions) == UNION {Authorization(r.id, review, decisions) : r \in review.rows}
AcceptedOverrides(review, decisions) ==
  UNION {{[id |-> r.id, category |-> d.category, quantity |-> d.mode = "quantity_cost"] : d \in Authorization(r.id, review, decisions)}
         : r \in AuthorizedRows(review, decisions)}

\* Bug: only rejected rows fail.
RejectedOnly(review, decisions) == {r.id : r \in {r \in review.rows : \E d \in Authorization(r.id, review, decisions) : d.action = "reject"}}
Undecided(review, decisions) == {r.id : r \in review.rows \ AuthorizedRows(review, decisions)}

\* _validate_units: by what the name of the document says alone.
UnitFits(override, row, targets) ==
  \E t \in Named(targets, IndexOf(row.filename), override.category) : row.row.unit # None /\ t.unit = row.row.unit
UnitsFit(overrides, batch, targets) == \A o \in overrides : o.quantity => UnitFits(o, RowNamed(batch, o.id), targets)

\* The rows as verify_numeric hands them on: without the identities of their documents.
WithoutIdentities(batch) == [batch EXCEPT !.rows = {[r EXCEPT !.index = None] : r \in batch.rows}]

\* _matches_target
CostMatches(c, target) == target.cells.cost # None /\ c.cost # None /\ c.cost = Rounded(target.cells.cost)
QuantityMatches(c, target) == target.cells.quantity # None /\ c.quantity # None /\ c.quantity = Rounded(target.cells.quantity)
MatchesTarget(c, target, withQuantity) == CostMatches(c, target) /\ (withQuantity => QuantityMatches(c, target))
Mixed(selections, target) == Cardinality({s.override.quantity : s \in Counted(selections, target)}) > 1
ValueMissing(selections, target) ==
  \/ target.cells.cost = None
  \/ /\ target.cells.quantity = None /\ CostMatches(Calculation(selections, target), target)
     /\ \E s \in Counted(selections, target) : s.override.quantity
Differs(selections, target) ==
  ~MatchesTarget(Calculation(selections, target), target, \E s \in Counted(selections, target) : s.override.quantity)
FailedSums(selections) == {s.override.id : s \in {s \in selections : Differs(selections, s.target)}}

Checked(review, failed) == [status |-> "checked", code |-> None, failed |-> failed, checked |-> Cardinality(review.rows), artifact |-> {}]
Compared(review, undecided, selections) ==
  IF Unavailable(selections) \/ (\E s \in selections : ~HasValues(Calculation(selections, s.target))) THEN Failure("VERIFICATION_CALCULATION_UNAVAILABLE")
  ELSE IF \E s \in selections : Mixed(selections, s.target) THEN Failure("VERIFICATION_CATEGORY_AMBIGUOUS")
  ELSE IF \E s \in selections : ValueMissing(selections, s.target) THEN Failure("VERIFICATION_TARGET_VALUE_UNAVAILABLE")
  ELSE Checked(review, undecided \cup FailedSums(selections))

\* What is accepted, written again.
Replayed(review, targets, undecided, overrides) ==
  IF overrides = {} THEN Checked(review, undecided)
  ELSE IF ~UnitsFit(overrides, review.batch, targets) THEN Failure("VERIFICATION_UNIT_UNAVAILABLE")
  ELSE Compared(review, undecided, SelectedMatches(overrides, WithoutIdentities(review.batch), targets))
VerifyNumeric(review, targets, decisions) ==
  IF ~TargetsAreDistinct(targets) THEN Failure("VERIFICATION_TARGET_BINDING_AMBIGUOUS")
  ELSE Replayed(review, targets, Undecided(review, decisions), AcceptedOverrides(review, decisions))

-----------------------------------------------------------------------------
(* verify_reconciliation                                                   *)

\* Bug: the rows of all the documents are marked in each.
MarkedInAll(document, batch, failed) == {<<r.row.sheet, r.row.number>> : r \in {r \in batch.rows : r.id \in failed}}

\* _source_locations: where the rows that fail are, in one document.
Marked(document, batch, failed) ==
  {<<r.row.sheet, r.row.number>> : r \in {r \in batch.rows : r.id \in failed /\ r.filename = document.name}}

\* _write_artifact: a copy of each document, marked or as it was uploaded.
Artifact(job, batch, failed) == {[name |-> d.name, rows |-> Marked(d, batch, failed)] : d \in job.documents}

NamesAreDistinct(job) == Cardinality({d.name : d \in job.documents}) = Cardinality(job.documents)

Verdict(job, review, numeric) ==
  IF numeric.status # "checked" THEN numeric
  ELSE IF numeric.failed = {} THEN [numeric EXCEPT !.status = "passed"]
  ELSE [numeric EXCEPT !.status = "failed", !.artifact = Artifact(job, review.batch, numeric.failed)]
VerifyReview(job, review, targets, decisions) ==
  IF review.status # "review" \/ review.batch.issues # {} THEN Failure("VERIFICATION_INPUT_UNUSABLE")
  ELSE IF ~NamesAreDistinct(job) THEN Failure("VERIFICATION_SOURCE_MAPPING_UNAVAILABLE")
  ELSE Verdict(job, review, VerifyNumeric(review, targets, decisions))
Verify(job, targets, decisions) == VerifyReview(job, PrepareReview(job, targets), targets, decisions)

-----------------------------------------------------------------------------
(* Properties of one verification.                                         *)

\* A row that was rejected, or that nobody decided and no safe package has, fails.
OnlyAcceptedPass(review, decisions, result) ==
  result.status \in {"passed", "failed"} => \A r \in review.rows :
    r.id \notin result.failed => \E d \in DecisionOf(r.id, decisions) \cup SafeDecisions(r.id, review) :
      d.action = "accept" /\ (DecisionOf(r.id, decisions) = {} \/ d \in decisions)

\* A row is rejected when its decision says so, whatever package it is in.
DecisionsGoFirst(review, decisions) ==
  \A r \in review.rows : (\E d \in decisions : r.id \in d.ids) =>
    Authorization(r.id, review, decisions) \subseteq decisions

\* The copies show the rows that failed, each in the document it is of, and no other.
FailedRowsAreMarked(job, review, result) ==
  result.status = "failed" =>
    /\ \A id \in result.failed : LET r == RowNamed(review.batch, id) IN
         \E copy \in result.artifact : copy.name = r.filename /\ <<r.row.sheet, r.row.number>> \in copy.rows
    /\ \A copy \in result.artifact : \A at \in copy.rows :
         \E r \in review.batch.rows : r.id \in result.failed /\ r.filename = copy.name /\ at = <<r.row.sheet, r.row.number>>
    /\ Cardinality(result.artifact) = Cardinality(job.documents)

\* Documents whose rows are all accepted and add up to what the report shows pass.
\* The code does not satisfy it: verify_numeric asks for the matches without the
\* identities of the documents, so no accepted row has a target
\* (reconciliation_numeric_verification.py:72).
VerificationReplays(job, review, targets, decisions, result) ==
  review.status = "review" =>
    LET written == ApplyReview(job, review, decisions, targets, None)
        matches == \A c \in written.written : \E t \in targets :
                     t.row = c.target /\ c.cost # None /\ CostMatches(c, t) /\ (c.quantity # None => QuantityMatches(c, t))
    IN  (review.batch.issues = {} /\ written.status = "written" /\ matches
         /\ \A r \in review.rows : \E d \in DecisionOf(r.id, decisions) : d.action = "accept" /\ d.mode = "cost_only")
        => result.status = "passed"
=============================================================================
