--------------------------- MODULE WorkbookSources ---------------------------
(***************************************************************************)
(* Which rows of the uploaded workbooks are read (reconciliation_sources.py): *)
(* the tables of a sheet are found by a quantity heading with a cost heading  *)
(* at its right, and a workbook counts only when it has one table to read.    *)
(*                                                                         *)
(* A sheet is [cells, formulas, spans]: what is in the cells that have a      *)
(* value, <<row, column>> -> [words, number], the cells that hold a formula,  *)
(* and the merged ranges <<top, left, bottom, right>>.  The text of a cell is *)
(* the set of its words; a formula without a cached value has no value.       *)
(***************************************************************************)
EXTENDS Integers, FiniteSets, Sequences, SequencesExt, FiniteSetsExt

CONSTANT None

Schema == INSTANCE SheetSchema

Overlap(left, right, left2, right2) == left <= right2 /\ left2 <= right

-----------------------------------------------------------------------------
(* _sparse_region_index                                                    *)

Has(sheet, row, column)   == <<row, column>> \in DOMAIN sheet.cells
Words(sheet, row, column) == IF Has(sheet, row, column) THEN sheet.cells[<<row, column>>].words ELSE {}
SpanAt(sheet, row, column) ==
  LET at == {s \in sheet.spans : s[1] = row /\ s[2] = column}
  IN  IF at = {} THEN <<row, column, row, column>> ELSE CHOOSE s \in at : TRUE
RowsOf(sheet) == {at[1] : at \in DOMAIN sheet.cells}
ColumnsOf(sheet) == {at[2] : at \in DOMAIN sheet.cells \cup sheet.formulas} \cup UNION {{s[2], s[4]} : s \in sheet.spans}
LastRow(sheet) ==
  Max({0} \cup {at[1] : at \in DOMAIN sheet.cells \cup sheet.formulas} \cup {s[3] : s \in sheet.spans})
Occupied(sheet, row) == row \in RowsOf(sheet) \/ \E s \in sheet.spans : s[1] <= row /\ row <= s[3]
Tangled(sheet) ==
  \E s, t \in sheet.spans : s # t /\ Overlap(s[2], s[4], t[2], t[4]) /\ Overlap(s[1], s[3], t[1], t[3])

-----------------------------------------------------------------------------
(* Headings                                                                *)

\* _indexed_metric_pairs: the quantity headings of a row with the cost beside them.
Pairs(sheet, row, left, right) ==
  {q \in left..right : "quantity" \in Words(sheet, row, q) /\ "cost" \in Words(sheet, row, q + 1)}
HeaderEnd(sheet, row, q) == Max({SpanAt(sheet, row, q)[3], SpanAt(sheet, row, q + 1)[3]})

IsCumulative(sheet, span) == "cumulative" \in Words(sheet, span[1], span[2])

\* _indexed_cumulative_leaves: <<row, quantity>> below a span or the spans right below it.
Leaves(sheet, root) ==
  LET below[s \in sheet.spans] ==
        {<<s[3] + 1, q>> : q \in Pairs(sheet, s[3] + 1, s[2], s[4])}
        \cup UNION {below[t] : t \in {t \in sheet.spans : t[1] = s[3] + 1 /\ s[2] <= t[2] /\ t[4] <= s[4]}}
  IN  below[root]

\* _indexed_cumulative_ancestor: a cumulative heading above, by spans without a gap.
HasAncestor(sheet, row, column, start) ==
  LET parents(s) == {p \in sheet.spans : p[3] = s[1] - 1 /\ p[1] >= start /\ p[2] <= s[2] /\ s[4] <= p[4]}
      own == SpanAt(sheet, row, column)
      under[s \in sheet.spans \cup {own}] == \E p \in parents(s) : IsCumulative(sheet, p) \/ under[p]
  IN  under[own]

\* Bug: the header of a table begins at the top of the sheet.
TopOfSheet(sheet, row) == 1

\* _indexed_band_start: the first of the rows without a gap above.
BandStart(sheet, row) == Min({r \in 1..row : \A i \in r..(row - 1) : Occupied(sheet, i)})

\* _indexed_lineage, _indexed_roles: the headers of the columns beside the metrics.
Lineage(sheet, column, start, end) ==
  UNION {Words(sheet, r, column) : r \in start..end}
  \cup UNION {Words(sheet, s[1], s[2]) :
                s \in {s \in sheet.spans : s[2] <= column /\ column <= s[4] /\ Overlap(s[1], s[3], start, end)}}
BandColumns(sheet, start, end) ==
  {at[2] : at \in {at \in DOMAIN sheet.cells : start <= at[1] /\ at[1] <= end}}
  \cup UNION {{c \in ColumnsOf(sheet) : s[2] <= c /\ c <= s[4]} :
                s \in {s \in sheet.spans : Overlap(s[1], s[3], start, end)}}
Headers(sheet, start, end, left, right) ==
  {h \in {[column |-> c, words |-> Lineage(sheet, c, start, end)] : c \in BandColumns(sheet, start, end) \ (left..right)} :
     h.words # {} /\ "price" \notin h.words}

Rule(logical, exact, required, optional, forbidden) ==
  [logical |-> logical, exact |-> exact, required |-> required, optional |-> optional, forbidden |-> forbidden,
   priority |-> 100, context |-> FALSE, current |-> FALSE]
RoleRules == {Rule("work", {{"name", "works"}}, {"works"}, {"name"}, {"cost", "quantity"}),
              Rule("unit", {{"unit"}}, {"unit"}, {}, {"cost", "price"})}

\* _resolved_region_roles: both roles, each in a column of its own, or none.
Roles(sheet, start, end, left, right) ==
  LET resolved == Schema!Ok(Schema!Columns(Headers(sheet, start, end, left, right), RoleRules))
  IN  {<<x[1].column, x[2].column>> : x \in
         {x \in resolved \X resolved : x[1].logical = "work" /\ x[2].logical = "unit" /\ x[1].column # x[2].column}}

\* _indexed_structural_layouts: a layout is [cumulative, q, top, end, work, unit].
Layout(cumulative, q, top, end, role) ==
  [cumulative |-> cumulative, q |-> q, top |-> top, end |-> end, work |-> role[1], unit |-> role[2]]
CumulativeLayouts(sheet) ==
  UNION {LET end == HeaderEnd(sheet, x[2][1], x[2][2])  root == x[1]
         IN  {Layout(TRUE, x[2][2], root[1], end, role) : role \in Roles(sheet, root[1], end, root[2], root[4])} :
    x \in UNION {{root} \X Leaves(sheet, root) : root \in {s \in sheet.spans : s[4] > s[2] /\ IsCumulative(sheet, s)}}}
DirectLayouts(sheet) ==
  UNION {LET row == x[1]  q == x[2]  start == BandStart(sheet, row)  end == HeaderEnd(sheet, row, q)
         IN  IF HasAncestor(sheet, row, q, start) \/ HasAncestor(sheet, row, q + 1, start) THEN {}
             ELSE {Layout(FALSE, q, row, end, role) : role \in Roles(sheet, start, end, q, q + 1)} :
    x \in UNION {{row} \X Pairs(sheet, row, 1, Max(ColumnsOf(sheet) \cup {0})) : row \in RowsOf(sheet)}}
Layouts(sheet) == CumulativeLayouts(sheet) \cup DirectLayouts(sheet)

-----------------------------------------------------------------------------
(* Rows                                                                    *)

\* _indexed_detail_end: down to the next table over the same columns.
Below(layout, layouts) ==
  {l \in layouts : l.top > layout.end /\ Overlap(layout.q, layout.q + 1, l.q, l.q + 1)}
\* Bug: the rows of a table go to the end of the sheet.
ToTheEnd(layout, layouts, last) == Max({last, layout.end})
DetailEnd(layout, layouts, last) ==
  IF Below(layout, layouts) # {} THEN Min({l.top : l \in Below(layout, layouts)}) - 1 ELSE Max({last, layout.end})

Number(sheet, row, column) == IF Has(sheet, row, column) THEN sheet.cells[<<row, column>>].number ELSE None
IsWork(sheet, layout, row) ==
  /\ Has(sheet, row, layout.work) /\ Has(sheet, row, layout.unit)
  /\ "code" \notin Words(sheet, row, layout.unit)

\* Bug: a row counts when its metrics have values.
HasValues(sheet, row, q) == \A c \in {q, q + 1} : Number(sheet, row, c) # None

\* A row counts when each metric has a value or a formula.
HasMetrics(sheet, row, q) == \A c \in {q, q + 1} : Number(sheet, row, c) # None \/ <<row, c>> \in sheet.formulas

\* _canonical_index_rows, of one of the layouts of the sheet.
DetailRows(sheet, layouts, layout) ==
  LET last == DetailEnd(layout, layouts, LastRow(sheet))
  IN  {r \in (layout.end + 1)..last : IsWork(sheet, layout, r) /\ HasMetrics(sheet, r, layout.q)}

\* What a row says: its texts and its metrics.
Said(sheet, l, r) ==
  [row |-> r, work |-> Words(sheet, r, l.work), unit |-> Words(sheet, r, l.unit),
   quantity |-> Number(sheet, r, l.q), cost |-> Number(sheet, r, l.q + 1), cumulative |-> l.cumulative]

\* _indexed_sheet_layouts: the rows of every layout.
ProbedAs(sheet, layouts) ==
  {[layout |-> l, rows |-> {Said(sheet, l, r) : r \in DetailRows(sheet, layouts, l)}] : l \in layouts}
Probed(sheet) == ProbedAs(sheet, Layouts(sheet))
Uncached(probed) == \E p \in probed : \E r \in p.rows : None \in {r.quantity, r.cost}
\* A table without rows below another one of its columns.
HeaderAmongRows(probed) ==
  \E p, other \in probed :
    /\ p.rows = {}
    /\ other.layout.end < p.layout.top
    /\ Overlap(other.layout.q, other.layout.q + 1, p.layout.q, p.layout.q + 1)
Tables(probed) == {p \in probed : p.rows # {}}

\* The tables of a workbook; those of cumulative amounts are preferred.
AllTables(probed) == UNION {{i} \X Tables(probed[i]) : i \in DOMAIN probed}
Viable(tables) ==
  IF \E t \in tables : t[2].layout.cumulative THEN {t \in tables : t[2].layout.cumulative} ELSE tables

\* _extract_one, of a workbook: its sheets.
Answer(code, rows) == [code |-> code, rows |-> rows]
Answered(workbook, probed, viable) ==
  CASE \E i \in DOMAIN workbook : Tangled(workbook[i]) -> Answer("SOURCE_LAYOUT_AMBIGUOUS", {})
    [] \E i \in DOMAIN workbook : Uncached(probed[i]) -> Answer("FORMULA_CACHE_UNAVAILABLE", {})
    [] \E i \in DOMAIN workbook : HeaderAmongRows(probed[i]) -> Answer("SOURCE_LAYOUT_AMBIGUOUS", {})
    [] Cardinality(viable) > 1 -> Answer("SOURCE_LAYOUT_AMBIGUOUS", {})
    [] viable = {} -> Answer("NO_USABLE_RECONCILIATION_SOURCE", {})
    [] OTHER -> Answer("OK", (CHOOSE t \in viable : TRUE)[2].rows)
ExtractedFrom(workbook, probed) == Answered(workbook, probed, Viable(AllTables(probed)))
Extracted(workbook) == ExtractedFrom(workbook, [i \in DOMAIN workbook |-> Probed(workbook[i])])

\* extract_reconciliation_sources: one workbook's trouble is an issue of its own.
Batch(workbooks) ==
  [rows |-> UNION {{id} \X Extracted(workbooks[id]).rows : id \in DOMAIN workbooks},
   issues |-> [id \in {id \in DOMAIN workbooks : Extracted(workbooks[id]).code # "OK"} |-> Extracted(workbooks[id]).code]]

-----------------------------------------------------------------------------
(* Properties of one sheet.                                                *)

\* No cell counts for two tables of a sheet, and the headings of a table are not
\* read as a row of the one above it.
MetricsReadOnce(sheet) ==
  \A p, q \in Tables(Probed(sheet)) :
    p # q /\ Overlap(p.layout.q, p.layout.q + 1, q.layout.q, q.layout.q + 1) =>
      {r.row : r \in p.rows} \cap ({r.row : r \in q.rows} \cup q.layout.top..q.layout.end) = {}

\* Titled: a line of text and an empty row above everything.
Titled(sheet, words) ==
  LET down(at) == <<at[1] + 2, at[2]>>
      title == {<<1, c>> : c \in 1..6}
  IN  [cells |-> [at \in {down(x) : x \in DOMAIN sheet.cells} \cup title |->
                    IF at \in title THEN [words |-> words, number |-> None] ELSE sheet.cells[<<at[1] - 2, at[2]>>]],
       formulas |-> {down(at) : at \in sheet.formulas},
       spans |-> {<<s[1] + 2, s[2], s[3] + 2, s[4]>> : s \in sheet.spans}]

LowerBy(lines, plain, titled) ==
  titled.code = plain.code /\ titled.rows = {[r EXCEPT !.row = @ + lines] : r \in plain.rows}

\* What stands above an empty row says nothing about the tables below it: with a
\* title, whatever its words, the same rows are read two lines further down.
TitleIsIgnored(sheet, words) ==
  LowerBy(2, Extracted(<<sheet>>), Extracted(<<Titled(sheet, words)>>))

\* Without the cached value of a metric: the cell has a formula and no value.
Forgotten(sheet, at) ==
  [sheet EXCEPT !.cells = [x \in DOMAIN sheet.cells \ {at} |-> sheet.cells[x]], !.formulas = @ \cup {at}]

\* A workbook saved without the value of a metric's formula is refused or gives the
\* rows it gives with the value: never silently fewer rows.
SeenLost(whole, now) == now = whole \/ now.code \in {"FORMULA_CACHE_UNAVAILABLE", "SOURCE_LAYOUT_AMBIGUOUS"}
LossesAreSeen(sheet, places, whole) ==
  whole.code = "OK" => \A at \in places : SeenLost(whole, Extracted(<<Forgotten(sheet, at)>>))
LostCacheIsSeen(sheet) ==
  LossesAreSeen(sheet, {at \in DOMAIN sheet.cells : sheet.cells[at].number # None}, Extracted(<<sheet>>))

\* Not satisfied by the code: the same of the texts.  A row whose work name is a
\* formula without a cached value is passed over (reconciliation_sources.py:748).
LostTextIsSeen(sheet) ==
  LossesAreSeen(sheet, {at \in DOMAIN sheet.cells : sheet.cells[at].number = None}, Extracted(<<sheet>>))
=============================================================================
