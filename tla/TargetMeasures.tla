--------------------------- MODULE TargetMeasures ---------------------------
(* The pair of columns (quantity, total cost) of one period in a target     *)
(* report: reconciliation_target_measure.py.                                *)
(*                                                                          *)
(* A text is its words, of which only those with a meaning are kept         *)
(* ("quantity", "cost", "rate", "history", "current", "other") and the      *)
(* months it names, <<month, year or None>>.  A sheet is its cells, its     *)
(* merged spans <<top, left, bottom, right>> and its first detail row.      *)
EXTENDS Integers, FiniteSets, Sequences, FiniteSetsExt, SequencesExt

CONSTANTS None

HeaderRows == 80   \* _HEADER_ROWS

Says(text) == text.words # {}
Width(span) == span[4] - span[2]

\* The raw merged ranges are read row by row: a range that begins in columns
\* some open range still covers is refused.
Covers(span, column) == span[2] <= column /\ column <= span[4]
Events(spans) == {s[1] : s \in spans} \cup {s[3] + 1 : s \in spans}
\* Bug: a range is closed in its last row.
OpenBefore(spans, row) == {s \in spans : s[1] < row /\ row < s[3]}
OpenAt(spans, row) == {s \in spans : s[1] < row /\ row < s[3] + 1}
Busy(open, left, right) == Max({Cardinality({s \in open : Covers(s, c)}) : c \in left..right})
Refused(spans, row) ==
  LET starting == {s \in spans : s[1] = row}
  IN  \/ \E s \in starting : Busy(OpenAt(spans, row), s[2], s[4]) > 0
      \/ \E s, t \in starting : s # t /\ Busy({s}, t[2], t[4]) > 0
IsSpan(span) == span[1] <= span[3] /\ span[2] <= span[4] /\ <<span[1], span[2]>> # <<span[3], span[4]>>
SpansAccepted(spans) == (\A s \in spans : IsSpan(s)) /\ \A row \in Events(spans) : ~Refused(spans, row)

-----------------------------------------------------------------------------
(* The header of a column, from the top of the window down to a row.        *)
Window(sheet) == Max({1, sheet.detail - HeaderRows})..(sheet.detail - 1)
InWindow(sheet, span) == span[1] < sheet.detail /\ span[3] >= Min(Window(sheet))
WindowColumns(sheet) ==
  {at[2] : at \in {at \in DOMAIN sheet.cells : at[1] \in Window(sheet)}}
  \cup UNION {s[2]..s[4] : s \in {s \in sheet.spans : InWindow(sheet, s)}}

SpanOf(sheet, row, column) ==
  LET over == {s \in sheet.spans : Covers(s, column) /\ s[1] <= row /\ row <= s[3]}
  IN  IF over = {} THEN <<row, column, row, column>> ELSE CHOOSE s \in over : TRUE
Blank == [words |-> {}, periods |-> {}]
TextAt(sheet, span) == IF <<span[1], span[2]>> \in DOMAIN sheet.cells THEN sheet.cells[<<span[1], span[2]>>] ELSE Blank

Label(sheet, row, column) ==
  LET span == SpanOf(sheet, row, column) IN [span |-> span, text |-> TextAt(sheet, span)]
\* A label counts once, in the first row of its span that the window shows.
PathFrom(labels, first) ==
  LET rows == SetToSortSeq({r \in DOMAIN labels : Says(labels[r].text) /\ r = Max({labels[r].span[1], first})}, <)
  IN  [i \in DOMAIN rows |-> labels[rows[i]]]
Path(sheet, row, column) ==
  PathFrom([r \in {r \in Window(sheet) : r <= row} |-> Label(sheet, r, column)], Min(Window(sheet)))
Leaf(path) == path[Len(path)]
EndsAt(path, row) == path # <<>> /\ Leaf(path).span[1] = row
WordsOf(path) == UNION {path[i].text.words : i \in DOMAIN path}
PeriodsOf(path) == UNION {path[i].text.periods : i \in DOMAIN path}

IsQuantity(text) == "quantity" \in text.words
IsTotalCost(text) == "cost" \in text.words /\ "rate" \notin text.words
Priced(path) == "rate" \in WordsOf(path)
Historical(words) == "history" \in words

\* Two columns side by side whose headers end in the same row.
Measured(quantity, cost, row) ==
  /\ EndsAt(quantity, row) /\ EndsAt(cost, row)
  /\ IsQuantity(Leaf(quantity).text) /\ IsTotalCost(Leaf(cost).text)
  /\ ~Priced(quantity) /\ ~Priced(cost)
PairsAmong(paths) ==
  {[row |-> at[1], column |-> at[2], quantity |-> paths[at], cost |-> paths[at[1], at[2] + 1]] :
    at \in {at \in DOMAIN paths : <<at[1], at[2] + 1>> \in DOMAIN paths /\ Measured(paths[at], paths[at[1], at[2] + 1], at[1])}}
Pairs(sheet) == PairsAmong([row \in Window(sheet), c \in WindowColumns(sheet) |-> Path(sheet, row, c)])
Common(pair) ==
  {label \in Range(pair.quantity) : Width(label.span) > 0 /\ \E other \in Range(pair.cost) : other.span = label.span}

PeriodConflict(quantity, cost) ==
  \/ Cardinality(quantity) > 1
  \/ Cardinality(cost) > 1
  \/ quantity # {} /\ cost # {} /\ quantity # cost
SamePeriod(quantity, cost) == quantity = cost /\ Cardinality(quantity) = 1

IsCurrent(pair) ==
  LET periods == PeriodsOf(pair.quantity)
      others == PeriodsOf(pair.cost)
  IN  /\ ~Historical(WordsOf(pair.quantity) \cup WordsOf(pair.cost))
      /\ ~PeriodConflict(periods, others)
      /\ SamePeriod(periods, others) \/ \E label \in Common(pair) : "current" \in label.text.words
Parents(pair) ==
  {label \in Common(pair) : label.span[2] <= pair.column /\ label.span[4] > pair.column /\ Historical(label.text.words)}
\* Something must follow the columns the new ones are inserted after.
HasSuffix(sheet, column) == \E at \in DOMAIN sheet.cells : at[2] > column /\ Says(sheet.cells[at])

Key(pair) == <<pair.column, Leaf(pair.quantity).span, Leaf(pair.cost).span>>
CurrentPairs(sheet) ==
  {[column |-> pair.column, periods |-> PeriodsOf(pair.quantity) \cup PeriodsOf(pair.cost), key |-> Key(pair)] :
    pair \in {pair \in Pairs(sheet) : IsCurrent(pair)}}
Anchor(sheet, pair) ==
  [quantity |-> pair.column, cost |-> pair.column + 1,
   parent |-> (CHOOSE label \in Parents(pair) : TRUE).span, row |-> pair.row,
   labels |-> <<TextAt(sheet, <<Leaf(pair.quantity).span[1], pair.column>>),
                TextAt(sheet, <<Leaf(pair.cost).span[1], pair.column + 1>>)>>]
\* Of the rows that give the same columns and the same parent the last one stays.
Latest(anchors) == {x \in anchors : ~\E y \in anchors : y.quantity = x.quantity /\ y.parent = x.parent /\ y.row > x.row}
Anchors(sheet) ==
  Latest({Anchor(sheet, pair) : pair \in
    {pair \in Pairs(sheet) : Cardinality(Parents(pair)) = 1 /\ HasSuffix(sheet, pair.column + 1)}})

\* The pair of a sheet, or why it has none.
StatusOf(pairs) == CASE pairs = {} -> "missing" [] Cardinality(pairs) > 1 -> "ambiguous" [] OTHER -> "found"
Current(sheet) == StatusOf(CurrentPairs(sheet))
CurrentPair(sheet) == CHOOSE pair \in CurrentPairs(sheet) : TRUE

-----------------------------------------------------------------------------
(* Properties.                                                              *)

(* The sweep accepts exactly the sets of spans no two of which share a      *)
(* cell (reconciliation_target_measure.py:158 _reject_overlapping_merge_    *)
(* ranges with its segment tree; the same sweep in period_insertion.py:242).*)
Cells(span) == (span[1]..span[3]) \X (span[2]..span[4])
SweepFindsOverlaps(spans) ==
  SpansAccepted(spans) <=> \A s, t \in spans : s # t => Cells(s) \cap Cells(t) = {}
=============================================================================
