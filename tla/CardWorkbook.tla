---------------------------- MODULE CardWorkbook ----------------------------
(* From the rows of a source to the drawing card: hierarchy/filtering.py     *)
(* leaves the lines that are counted, aggregation/aggregator.py adds them    *)
(* up, output/writer.py merges them into an existing card and writes it,     *)
(* output/validator.py reads it back, and workflow.py gives the run a status.*)
(*                                                                           *)
(* A position is the sequence of its segments.  Costs are in millions of     *)
(* roubles, before the division by the scale.                                *)
EXTENDS Integers, FiniteSets, Sequences
LOCAL INSTANCE FiniteSetsExt

CONSTANTS None,
          Categories,    \* CATEGORY_ORDER
          Expected,      \* the first expected unit of every category, or None
          Group,         \* group key of a spelling of a drawing code, by drawing_code_mode
          Plausible,     \* the spellings validate_card takes for a drawing code
          AllowHint,     \* allow_template_unit_hint
          Tolerance      \* CONTRACT_COST_TOLERANCE_RUB

-----------------------------------------------------------------------------
(* Hierarchy: entries are records [id, code, amount, transactional].         *)
IsAncestor(parent, child) == Len(parent) < Len(child) /\ SubSeq(child, 1, Len(parent)) = parent
ParentKey(code) == SubSeq(code, 1, Len(code) - 1)
Parsed(entries) == {e \in entries : e.code # None}
Twins(e, entries) == {t \in Parsed(entries) : t.code = e.code}
Repeated(e, entries) == Cardinality(Twins(e, entries)) > 1
Children(e, entries) == {c \in Parsed(entries) : Len(c.code) > 1 /\ ParentKey(c.code) = e.code}
Descendants(e, entries) == {d \in Parsed(entries) : IsAncestor(e.code, d.code)}
Heads(entries) == {e \in Parsed(entries) : Children(e, entries) # {} /\ ~Repeated(e, entries)}

\* Bug: only the children of a measured row are its details.
ChildrenAreDetails(entries) ==
  UNION {Children(e, entries) : e \in {h \in Heads(entries) : h.transactional}}
ParentRows(entries) == {e \in Heads(entries) : ~e.transactional}
ResourceDetails(entries) ==
  UNION {{d \in Descendants(e, entries) : ~Repeated(d, entries)} : e \in {h \in Heads(entries) : h.transactional}}
Leaves(entries) == entries \ (ParentRows(entries) \cup ResourceDetails(entries))

Compared(e, entries) ==
  LET measured == {d \in Descendants(e, entries) : d.transactional}
  IN IF measured = {} THEN Children(e, entries) ELSE measured
Amount(e) == e.amount
CostIssue(e, compared) ==
  IF \E x \in compared \cup {e} : x.amount = None THEN {<<"missing", e.id>>}
  ELSE IF MapThenSumSet(Amount, compared) # e.amount THEN {<<"mismatch", e.id>>} ELSE {}
Gaps(entries) ==
  LET Numbers(key) == {e.code[Len(e.code)] : e \in {x \in Parsed(entries) : Len(x.code) > 1 /\ ParentKey(x.code) = key}}
  IN {<<"gap", key>> : key \in {k \in {ParentKey(e.code) : e \in {x \in Parsed(entries) : Len(x.code) > 1}} :
        \E m, n \in Numbers(k) : n - m > 1 /\ \A l \in m + 1 .. n - 1 : l \notin Numbers(k)}}
Issues(entries) ==
  {<<"duplicate", e.code>> : e \in {x \in Parsed(entries) : Repeated(x, entries)}} \cup Gaps(entries)
    \cup UNION {CostIssue(e, Compared(e, entries)) : e \in ParentRows(entries)}
Filtered(entries) ==
  [leaves |-> Leaves(entries), parents |-> ParentRows(entries), details |-> ResourceDetails(entries), issues |-> Issues(entries)]

\* hierarchy/filtering.py: where no position is repeated or skipped, no line is
\* counted together with the section above it; and a line that is left out always
\* has a counted line above or below it.
FrontierCountsOnce(entries, result) ==
  /\ (/\ \A e \in Parsed(entries) : ~Repeated(e, entries)
      /\ \A e \in Parsed(entries) : Len(e.code) = 1 \/ \E p \in Parsed(entries) : p.code = ParentKey(e.code))
       => \A e \in result.leaves, f \in result.leaves :
            e \in Parsed(entries) /\ f \in Parsed(entries) => ~IsAncestor(e.code, f.code)
  /\ \A e \in entries \ result.leaves : \E f \in result.leaves :
       f \in Parsed(entries) /\ (IsAncestor(e.code, f.code) \/ IsAncestor(f.code, e.code))
\* Not so: a section over a measured row with details counts the details again.
SectionAddsUp(entries, result) ==
  \A e \in result.parents :
    LET kept == {f \in result.leaves : f \in Descendants(e, entries)}
    IN (\A f \in kept \cup {e} : f.amount # None) /\ <<"mismatch", e.id>> \notin result.issues /\ e \notin result.details
         => MapThenSumSet(Amount, kept) = e.amount

-----------------------------------------------------------------------------
(* Accounting: what becomes of every extracted row.  A row is a record       *)
(* [object, drawing, unit, remaining, contract, performed, hazards, excluded,*)
(* bare, decision]; `excluded` is the policy that left it out, `bare` a row  *)
(* none of whose fields tells its role.                                      *)
Metrics == {"quantity", "cost"}
Disposition(row) ==
  IF row.excluded # None THEN row.excluded
  ELSE IF row.decision.review THEN "review"
  ELSE IF row.decision.category # None THEN "matched" ELSE "unclassified"
FunnelBlockers(rows) ==
  {"UNKNOWN_ROLE" : i \in {i \in DOMAIN rows : Disposition(rows[i]) = "unclassified" /\ rows[i].bare}}
    \cup {"EXCLUSION_SHARE" : x \in {x \in {1} : 2 * Cardinality({i \in DOMAIN rows : rows[i].excluded # None}) > Len(rows)}}
Reviewed(rows) == {i \in DOMAIN rows : rows[i].excluded = None /\ rows[i].decision.review}
HasDrawing(row) == row.excluded = None /\ row.object # None /\ row.drawing # None

-----------------------------------------------------------------------------
(* Aggregation of the matched rows of an object, a drawing and a category.   *)
Bucket(rows, mode, object, key, category) ==
  {i \in DOMAIN rows : /\ HasDrawing(rows[i]) /\ rows[i].decision.category = category
                       /\ rows[i].object = object /\ Group[mode][rows[i].drawing] = key}
\* Bug: what waits for a review is added too.
AllMatched(rows, bucket, metric) == {i \in bucket : rows[i].remaining[metric] # None}
Included(rows, bucket, metric) ==
  {i \in bucket : rows[i].decision[metric] = "include" /\ rows[i].remaining[metric] # None}
Units(rows, S) == {rows[i].unit : i \in S} \ {None}
Sum(rows, S, field, metric) == MapThenSumSet(LAMBDA i : rows[i][field][metric], S)
Sums(rows, quantities, costs, field) ==
  [quantity |-> Sum(rows, quantities, field, "quantity"), cost |-> Sum(rows, costs, field, "cost")]
Aggregated(rows, bucket, quantities, costs, units) ==
  [unit |-> IF Cardinality(units) = 1 THEN CHOOSE u \in units : TRUE ELSE None,
   remaining |-> [quantity |-> IF Cardinality(units) > 1 \/ quantities \cup costs = {} THEN None
                               ELSE Sum(rows, quantities, "remaining", "quantity"),
                  cost |-> IF costs = {} THEN None ELSE Sum(rows, costs, "remaining", "cost")],
   contract |-> Sums(rows, quantities, costs, "contract"), performed |-> Sums(rows, quantities, costs, "performed"),
   quantities |-> quantities, costs |-> costs, mixed |-> Cardinality(units) > 1]
AggregateOf(rows, bucket, quantities, costs) == Aggregated(rows, bucket, quantities, costs, Units(rows, quantities))
AggregateRows(rows, bucket) == AggregateOf(rows, bucket, Included(rows, bucket, "quantity"), Included(rows, bucket, "cost"))

\* The cells of a line nothing was found for: a unit, if the rules give one.
Nothing == [quantity |-> 0, cost |-> 0]
NotFound(category) ==
  [unit |-> IF AllowHint THEN Expected[category] ELSE None, remaining |-> [quantity |-> None, cost |-> None],
   contract |-> Nothing, performed |-> Nothing, quantities |-> {}, costs |-> {}, mixed |-> FALSE]
WithUnit(line, category) == [line EXCEPT !.unit = IF @ = None THEN Expected[category] ELSE @]
CardLine(rows, bucket, category) ==
  IF bucket = {} THEN NotFound(category) ELSE WithUnit(AggregateRows(rows, bucket), category)

\* Every drawing of the sources gets every category; a drawing is spelled as the
\* last new spelling of its group, and drawings are sorted by object and group.
FirstOf(rows) ==
  {i \in DOMAIN rows : HasDrawing(rows[i])
     /\ \A j \in 1 .. i - 1 : HasDrawing(rows[j]) => <<rows[j].object, rows[j].drawing>> # <<rows[i].object, rows[i].drawing>>}
Keys(rows, mode) == {<<rows[i].object, Group[mode][rows[i].drawing]>> : i \in FirstOf(rows)}
Before(k, l) == k[1] < l[1] \/ (k[1] = l[1] /\ k[2] < l[2])
KeyAt(keys, n) == CHOOSE k \in keys : Cardinality({l \in keys : Before(l, k)}) = n - 1
Spelled(rows, mode, key) ==
  rows[Max({i \in FirstOf(rows) : <<rows[i].object, Group[mode][rows[i].drawing]>> = key})].drawing
Drawing(rows, mode, key) ==
  [object |-> key[1], drawing |-> Spelled(rows, mode, key), group |-> key[2],
   lines |-> [c \in DOMAIN Expected |-> CardLine(rows, Bucket(rows, mode, key[1], key[2], c), c)]]
Drawings(rows, mode, keys) == [n \in 1 .. Cardinality(keys) |-> Drawing(rows, mode, KeyAt(keys, n))]
BuildCompleteCardRows(rows, mode) == Drawings(rows, mode, Keys(rows, mode))

-----------------------------------------------------------------------------
(* Update: the lines of an existing card, a sequence of drawings             *)
(* [object, drawing, lines] whose lines are [unit, quantity, cost].          *)
Old(existing, d) ==
  {e \in {existing[n] : n \in DOMAIN existing} : e.object = d.object /\ e.drawing = d.drawing}
Or(left, right) == IF left # None THEN left ELSE right
\* Bug: new values win under every policy.
NewFirst(policy, old, new) == Or(new, old)
Chosen(policy, old, new) == IF policy = "overwrite" THEN Or(new, old) ELSE Or(old, new)
Merged(policy, line, old) ==
  [line EXCEPT !.unit = Chosen(policy, old.unit, line.unit),
               !.remaining = [quantity |-> Chosen(policy, old.quantity, line.remaining.quantity),
                              cost |-> Chosen(policy, old.cost, line.remaining.cost)]]
MergedDrawing(d, olds, policy) ==
  [d EXCEPT !.lines = [c \in DOMAIN d.lines |->
     IF \E o \in olds : c \in DOMAIN o.lines THEN Merged(policy, d.lines[c], (CHOOSE o \in olds : c \in DOMAIN o.lines).lines[c])
     ELSE d.lines[c]]]
\* A drawing only the existing card has keeps its quantity and cost, and is grouped
\* in the default mode.
PreservedDrawing(e) ==
  [object |-> e.object, drawing |-> e.drawing, group |-> Group["preserve_group"][e.drawing],
   lines |-> [c \in DOMAIN e.lines |->
     [unit |-> e.lines[c].unit, remaining |-> [quantity |-> e.lines[c].quantity, cost |-> e.lines[c].cost],
      contract |-> Nothing, performed |-> Nothing, quantities |-> {}, costs |-> {}, mixed |-> FALSE]]]
Preserved(new, existing) ==
  SelectSeq(existing, LAMBDA e : \A n \in DOMAIN new : <<new[n].object, new[n].drawing>> # <<e.object, e.drawing>>)
MergeUpdateRows(new, existing, policy) ==
  LET kept == Preserved(new, existing)
  IN [n \in DOMAIN new |-> MergedDrawing(new[n], Old(existing, new[n]), policy)]
       \o [n \in DOMAIN kept |-> PreservedDrawing(kept[n])]
Differ(old, new) == None \notin {old, new} /\ old # new
Conflicting(old, line) ==
  Differ(old.unit, line.unit) \/ Differ(old.quantity, line.remaining.quantity) \/ Differ(old.cost, line.remaining.cost)
Conflicts(new, existing) ==
  {"CONFLICT_REQUIRES_REVIEW" : n \in {m \in DOMAIN new : \E o \in Old(existing, new[m]) :
     \E c \in DOMAIN o.lines : Conflicting(o.lines[c], new[m].lines[c])}}

-----------------------------------------------------------------------------
(* Layout: objects side by side, the drawings of an object one under another.*)
Span == 10      \* CARD_BLOCK_COLUMN_SPAN: nine headers and a gap
\* Only the first spelling of a group is placed.
Laid(card) ==
  {n \in DOMAIN card : \A m \in 1 .. n - 1 : <<card[m].object, card[m].group>> # <<card[n].object, card[n].group>>}
Objects(card) == {card[n].object : n \in DOMAIN card}
Rank(card, n) == Cardinality({o \in Objects(card) : o < card[n].object})
Above(card, laid, n) == Cardinality({m \in laid : m < n /\ card[m].object = card[n].object})
\* Bug: a block starts on the last row of the one above it.
RowsOverlap(card, laid, n, perSheet) ==
  [sheet |-> Rank(card, n) \div perSheet, column |-> 2 + Span * (Rank(card, n) % perSheet),
   row |-> 4 + (Len(Categories) - 1) * Above(card, laid, n)]
Place(card, laid, n, perSheet) ==
  [sheet |-> Rank(card, n) \div perSheet, column |-> 2 + Span * (Rank(card, n) % perSheet),
   row |-> 4 + Len(Categories) * Above(card, laid, n)]
PlanLayout(card, laid, perSheet) == [n \in laid |-> Place(card, laid, n, perSheet)]

-----------------------------------------------------------------------------
(* The written book: the lines that are placed, and a summary of all rows.   *)
Published(value, scale) == IF value = None THEN None ELSE value \div scale
Scaled(measures, scale) == [quantity |-> measures.quantity, cost |-> Published(measures.cost, scale)]
CellsOf(line, scale) ==
  [unit |-> line.unit, remaining |-> Scaled(line.remaining, scale), contract |-> Scaled(line.contract, scale),
   performed |-> Scaled(line.performed, scale)]
Cells(card, laid, scale) ==
  [n \in laid |-> [c \in DOMAIN Expected |-> CellsOf(card[n].lines[c], scale)]]
Fields == {"remaining", "contract", "performed"}
OrZero(value) == IF value = None THEN 0 ELSE value
SingleUnit(units) == IF Cardinality(units) = 1 THEN CHOOSE u \in units : TRUE ELSE None
UnitsOf(card, S, category) == {card[n].lines[category].unit : n \in {n \in S : category \in DOMAIN card[n].lines}}
RowsOf(card, object) == {n \in DOMAIN card : object \in {None, card[n].object}}
\* The sums of a category, over one object or (None) over all: costs always, and
\* quantities when every drawing has the same unit.
SumOfRows(card, S, category, field, metric, scale) ==
  MapThenSumSet(LAMBDA n : OrZero(Scaled(card[n].lines[category][field], scale)[metric]),
                {n \in S : category \in DOMAIN card[n].lines})
SummaryUnit(card, object, category) ==
  IF object # None THEN SingleUnit(UnitsOf(card, RowsOf(card, object), category))
  ELSE SingleUnit({SingleUnit(UnitsOf(card, RowsOf(card, o), category)) : o \in Objects(card)})
SummaryLine(card, S, category, unit, scale) ==
  [unit |-> unit,
   sums |-> [field \in Fields |-> [quantity |-> IF unit = None THEN None ELSE SumOfRows(card, S, category, field, "quantity", scale),
                                   cost |-> SumOfRows(card, S, category, field, "cost", scale)]]]
AddSummary(card, scale) ==
  [object \in Objects(card) \cup {None} |-> [c \in DOMAIN Expected |->
     SummaryLine(card, RowsOf(card, object), c, SummaryUnit(card, object, c), scale)]]

\* Lines with a contract quantity but no cost, or more performed than contracted.
IssueOf(line) ==
  IF line.contract.quantity # 0 /\ line.contract.cost = 0 THEN "contract_quantity_without_cost"
  ELSE IF line.performed.cost - line.contract.cost > Tolerance THEN "performed_cost_exceeds_contract" ELSE None
Violations(card) ==
  {v \in (DOMAIN card) \X (DOMAIN Expected) : v[2] \in DOMAIN card[v[1]].lines /\ IssueOf(card[v[1]].lines[v[2]]) # None}
\* The cell a violation is linked to: the block of its object with its spelling.
Linked(card, laid, n) == {m \in laid : card[m].object = card[n].object /\ card[m].drawing = card[n].drawing}

-----------------------------------------------------------------------------
(* Validation: the temporary file is read back before it becomes the output. *)
LaidOf(card, laid, object) == {n \in laid : object \in {None, card[n].object}}
CellUnits(cells, S, category) == {cells[n][category].unit : n \in S}
UnitStatus(units) == IF None \in units THEN "missing" ELSE IF Cardinality(units) = 1 THEN "valid" ELSE "mixed"
SumOfCells(cells, S, category, field, metric) ==
  MapThenSumSet(LAMBDA n : OrZero(cells[n][category][field][metric]), S)
\* Bug: only the costs of the summary are compared.
CostsAgree(sums, cells, S, category, status) ==
  \A field \in Fields : sums[field].cost = SumOfCells(cells, S, category, field, "cost")
SumsAgree(sums, cells, S, category, status) ==
  \A field \in Fields :
    /\ sums[field].cost = SumOfCells(cells, S, category, field, "cost")
    /\ sums[field].quantity = IF status = "valid" THEN SumOfCells(cells, S, category, field, "quantity") ELSE None
TotalStatus(statuses, units) ==
  IF "missing" \in statuses THEN "missing" ELSE IF "mixed" \in statuses \/ Cardinality(units) # 1 THEN "mixed" ELSE "valid"
ObjectStatus(card, laid, cells, object, category) == UnitStatus(CellUnits(cells, LaidOf(card, laid, object), category))
GrandStatus(card, laid, cells, summary, category) ==
  TotalStatus({ObjectStatus(card, laid, cells, o, category) : o \in Objects(card)},
              {summary[o][category].unit : o \in Objects(card)} \ {None})
SummaryErrors(card, laid, cells, summary) ==
  {"SUMMARY_VALUE" : o \in {o \in Objects(card) : \E c \in DOMAIN Expected :
     ~SumsAgree(summary[o][c].sums, cells, LaidOf(card, laid, o), c, ObjectStatus(card, laid, cells, o, c))}}
  \cup {"SUMMARY_ALL_INDICES_VALUE" : c \in {c \in DOMAIN Expected :
     ~SumsAgree(summary[None][c].sums, cells, laid, c, GrandStatus(card, laid, cells, summary, c))}}
  \cup {"SUMMARY_UNIT" : c \in {c \in DOMAIN Expected : GrandStatus(card, laid, cells, summary, c) # "valid"}}
\* Costs that repeat the quantities of an object are taken for a column read twice.
Both(card, laid, cells, object) ==
  {x \in LaidOf(card, laid, object) \X (DOMAIN Expected) :
     {cells[x[1]][x[2]].remaining.quantity, cells[x[1]][x[2]].remaining.cost} \cap {None, 0} = {}}
Same(cells, both) == {x \in both : cells[x[1]][x[2]].remaining.quantity = cells[x[1]][x[2]].remaining.cost}
Suspicious(cells, both) == Cardinality(both) >= 3 /\ 20 * Cardinality(Same(cells, both)) >= 9 * Cardinality(both)
ValidateCard(card, laid, places, cells, summary, sheets) ==
  SummaryErrors(card, laid, cells, summary)
  \cup {"INVALID_DRAWING_CODE" : n \in {n \in laid : card[n].drawing \notin Plausible}}
  \cup {"SUSPICIOUS_IDENTICAL_QUANTITY_COST" : o \in {o \in Objects(card) : Suspicious(cells, Both(card, laid, cells, o))}}
  \* A sheet of the base that no object needs any more still shows its objects.
  \cup {"OBJECT_COUNT" : x \in {x \in {sheets} : \A n \in laid : places[n].sheet + 1 < x}}

-----------------------------------------------------------------------------
(* The run: a call is [rows, mode, policy, existing, sheets, perSheet, scale,*)
(* strict, dryRun, base, problems, cancelled, changed]; policy None creates. *)
Contributing(card) ==
  UNION {UNION {card[n].lines[c].quantities \cup card[n].lines[c].costs : c \in DOMAIN Expected \cap DOMAIN card[n].lines} : n \in DOMAIN card}
MixedRows(card) ==
  UNION {UNION {card[n].lines[c].quantities : c \in {c \in DOMAIN Expected \cap DOMAIN card[n].lines : card[n].lines[c].mixed}} : n \in DOMAIN card}
\* Bug: only what the matcher left to people.
MatcherReviews(call, card) == Reviewed(call.rows)
InReview(call, card) == Reviewed(call.rows) \cup MixedRows(card)
Doubts == {"DRAWING_CODE_AMBIGUOUS", "INVALID_NUMBER", "EXCEL_ERROR", "FORMULA_WITHOUT_CACHED_VALUE", "CONFLICT_REQUIRES_REVIEW"}
Global == {"SOURCE_EXTRACTION_FAILED", "AMBIGUOUS_SCHEMA", "OBJECT_CONFLICT", "UNKNOWN_ROLE", "EXCLUSION_SHARE", "MANUAL_REVIEW_REQUIRED"}
Warnings(call, new, card) ==
  call.problems \cup FunnelBlockers(call.rows) \cup UNION {call.rows[i].hazards : i \in DOMAIN call.rows}
    \cup {"MANUAL_REVIEW_REQUIRED" : i \in InReview(call, card)}
    \cup (IF call.policy = "conflicts_to_review" THEN Conflicts(new, call.existing) ELSE {})
PublicationBlockers(call, card, warnings) ==
  (warnings \cap Global) \cup UNION {call.rows[i].hazards \cap Doubts : i \in Contributing(card)}

Lost == <<>>
Result(status, output, review) == [status |-> status, output |-> output, review |-> review]
Graded(blockers, warnings) ==
  IF blockers # {} THEN "PARTIALLY_READY" ELSE IF warnings # {} THEN "COMPLETED_WITH_WARNINGS" ELSE "OK"
Finished(call, status, output, review) == Result(IF call.changed THEN "BLOCKED" ELSE status, output, review)
Book(card, laid, places, cells, summary) ==
  [card |-> card, laid |-> laid, places |-> places, cells |-> cells, summary |-> summary, violations |-> Violations(card)]
\* Written to a temporary file that replaces the output only when it is valid; a
\* run cancelled after that removes the output again.
WriteCard(call, book, blockers, warnings) ==
  IF \/ ValidateCard(book.card, book.laid, book.places, book.cells, book.summary, call.sheets) # {}
     \/ \E v \in book.violations : Linked(book.card, book.laid, v[1]) = {}
  THEN Result("raised", Lost, InReview(call, book.card))
  ELSE IF call.cancelled = "after" THEN Result("cancelled", Lost, InReview(call, book.card))
  ELSE Finished(call, Graded(blockers, warnings), <<book>>, InReview(call, book.card))
Writing(call, card, laid, blockers, warnings) ==
  WriteCard(call, Book(card, laid, PlanLayout(card, laid, call.perSheet), Cells(card, laid, call.scale), AddSummary(card, call.scale)),
            blockers, warnings)
Blocked(call, card, blockers) == (call.strict /\ blockers # {}) \/ card = <<>>
Concluded(call, card, laid, blockers, warnings) ==
  IF \E n \in laid : DOMAIN card[n].lines # DOMAIN Expected THEN Result("raised", Lost, {})
  ELSE IF Blocked(call, card, blockers) \/ (~call.dryRun /\ ~call.base) THEN Finished(call, "BLOCKED", Lost, InReview(call, card))
  ELSE IF call.dryRun THEN Finished(call, Graded(blockers, warnings), Lost, InReview(call, card))
  ELSE IF call.cancelled = "before" THEN Result("cancelled", Lost, {})
  ELSE Writing(call, card, laid, blockers, warnings)
Warned(call, card, warnings) == Concluded(call, card, Laid(card), PublicationBlockers(call, card, warnings), warnings)
Merging(call, new, card) == Warned(call, card, Warnings(call, new, card))
CardRows(call, new) == Merging(call, new, IF call.policy = None THEN new ELSE MergeUpdateRows(new, call.existing, call.policy))
RunWorkflow(call) == CardRows(call, BuildCompleteCardRows(call.rows, call.mode))
IsPublishable(call, result) ==
  result.output # Lost /\ ~call.changed /\ result.status \in {"OK", "COMPLETED_WITH_WARNINGS", "PARTIALLY_READY"}

-----------------------------------------------------------------------------
(* What a published card promises.                                           *)
Counted(rows, category, metric) ==
  {i \in DOMAIN rows : /\ HasDrawing(rows[i]) /\ rows[i].decision.category = category
                       /\ rows[i].decision[metric] = "include" /\ rows[i].remaining[metric] # None}
Cell(book, n, category) == book.cells[n][category]

\* aggregation, layout and summary: the amounts of a new card are those of the
\* rows that were included, but for quantities of different units, whose rows are
\* handed to people; and the totals of the summary are the same sums again.
EveryAmountLands(call, result) ==
  IsPublishable(call, result) /\ call.policy = None /\ call.scale = 1 =>
    \A category \in DOMAIN Expected, metric \in Metrics :
      LET book == result.output[1]
          mixed == IF metric = "quantity" THEN MixedRows(book.card) ELSE {}
          landed == Counted(call.rows, category, metric) \ mixed
      IN /\ mixed \subseteq result.review
         /\ SumOfCells(book.cells, book.laid, category, "remaining", metric) = Sum(call.rows, landed, "remaining", metric)
         /\ book.summary[None][category].sums["remaining"][metric] = Sum(call.rows, landed, "remaining", metric)
\* Not so for a row whose drawing is not known: nobody is told of its amount.
NoRowIsForgotten(call, result) ==
  IsPublishable(call, result) /\ call.strict =>
    \A i \in DOMAIN call.rows : Disposition(call.rows[i]) = "matched" => i \in Contributing(result.output[1].card)

\* validator.py: whatever is left on disk has a summary that adds up to its cells,
\* also when rows of an existing card found no place in the layout.
SummaryIsTheCards(result) ==
  result.output # Lost =>
    LET book == result.output[1]
    IN \A object \in DOMAIN book.summary, category \in DOMAIN Expected, field \in Fields, metric \in Metrics :
         book.summary[object][category].sums[field][metric]
           = SumOfCells(book.cells, LaidOf(book.card, book.laid, object), category, field, metric)

\* writer.py: an update loses no amount of the existing card; only `overwrite` may
\* replace one, and only where the sources have an amount (a cost alone sets the
\* quantity to zero).
OldAmount(call, book, old, category, metric) ==
  \E n \in book.laid :
    /\ book.card[n].object = old.object /\ book.card[n].drawing = old.drawing
    /\ \/ Cell(book, n, category).remaining[metric] = old.lines[category][metric]
       \/ call.policy = "overwrite" /\ \E of \in Metrics : \E i \in Counted(call.rows, category, of) : call.rows[i].drawing = old.drawing
ExistingIsKept(call, result) ==
  IsPublishable(call, result) /\ call.policy # None /\ call.scale = 1 =>
    \A n \in DOMAIN call.existing : \A category \in DOMAIN call.existing[n].lines, metric \in Metrics :
      call.existing[n].lines[category][metric] \notin {None, 0}
        => OldAmount(call, result.output[1], call.existing[n], category, metric)
\* Not so with another scale, by which the costs of the existing card are not multiplied.
ScaleIsKept(call, result) == ExistingIsKept([call EXCEPT !.scale = 1], result)

\* workflow.py: nothing in a strictly published card waits for a person or is
\* doubtful, a new card adds up no two units; and a stopped run leaves no file.
StrictCardIsClean(call, result) ==
  /\ IsPublishable(call, result) /\ call.strict =>
       /\ result.review = {} /\ call.problems \cap Global = {}
       /\ \A category \in DOMAIN Expected, metric \in Metrics : \A i \in Counted(call.rows, category, metric) :
            /\ call.rows[i].hazards \cap Doubts = {}
            /\ metric = "quantity" /\ call.policy = None => \A j \in Counted(call.rows, category, metric) :
                 {call.rows[i].unit, call.rows[j].unit} \cap {None} = {} => call.rows[i].unit = call.rows[j].unit
  /\ result.status \in {"cancelled", "raised"} => result.output = Lost
\* Not so: a new quantity that fills an empty cell gets the unit of the existing card.
UnitStaysWithQuantity(call, result) ==
  IsPublishable(call, result) /\ call.strict =>
    \A category \in DOMAIN Expected : \A i \in Counted(call.rows, category, "quantity") :
      \A n \in result.output[1].laid :
        i \in result.output[1].card[n].lines[category].quantities
          => \/ Cell(result.output[1], n, category).unit \in {None, call.rows[i].unit} \/ call.rows[i].unit = None
             \/ Cell(result.output[1], n, category).remaining.quantity
                  \in {x.lines[category].quantity : x \in {y \in {call.existing[m] : m \in DOMAIN call.existing} : category \in DOMAIN y.lines}}
\* Not so: conflicts left to review neither block a strict card nor are they queued.
ConflictsAreReviewed(call, result) ==
  IsPublishable(call, result) /\ call.strict /\ call.policy = "conflicts_to_review" =>
    Conflicts(BuildCompleteCardRows(call.rows, call.mode), call.existing) = {}

\* layout.py, discrepancies.py: blocks never share a cell, and every discrepancy
\* points at the one cell that shows it.
BlocksAreApart(result) ==
  result.output # Lost =>
    LET book == result.output[1]
    IN /\ \A n, m \in book.laid :
            n # m /\ book.places[n].sheet = book.places[m].sheet =>
              \/ book.places[m].column - book.places[n].column \notin 1 - Span .. Span - 1
              \/ book.places[m].row - book.places[n].row \notin 1 - Len(Categories) .. Len(Categories) - 1
       /\ \A v \in book.violations : Cardinality(Linked(book.card, book.laid, v[1])) = 1
=============================================================================
