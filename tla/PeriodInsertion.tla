-------------------------- MODULE PeriodInsertion --------------------------
(* Two new columns for a reporting period in a target report: the plan, the *)
(* rewriting of the package and its verification, excel_writer/             *)
(* period_insertion.py, over the pairs that TargetMeasures finds.           *)
(*                                                                          *)
(* A cell adds to its text its style and, when it holds a formula, the      *)
(* pairs of columns <<left, right>> its operands span.  A sheet adds its    *)
(* column definitions, the column spans of its formats and dimension, its   *)
(* filter, the columns of its links and legacy comments, its threaded       *)
(* comments, its shared formulas (the range the group says it fills, its    *)
(* members, which of them say so, and the columns it reads) and the columns *)
(* of its drawings, from zero.  A book adds the people of the comments, the *)
(* defined names (terms of one sheet's columns, <<>> for whole rows) and    *)
(* the calculation chain (<<sheet or None, column>>, None for the sheet of  *)
(* the entry above).                                                        *)
EXTENDS TargetMeasures

Shift(column, after) == IF column > after THEN column + 2 ELSE column
Unshift(column, after) == IF column > after + 2 THEN column - 2 ELSE column
\* Bug: only what lies beyond the place of the new columns is moved.
ShiftSpanFar(span, after) == [i \in 1..2 |-> IF span[i] > after + 2 THEN span[i] + 2 ELSE span[i]]
ShiftSpan(span, after) == <<Shift(span[1], after), Shift(span[2], after)>>
UnshiftSpan(span, after) == <<Unshift(span[1], after), Unshift(span[2], after)>>
ShiftMerge(s, after) == <<s[1], Shift(s[2], after), s[3], Shift(s[4], after)>>
UnshiftMerge(s, after) == <<s[1], Unshift(s[2], after), s[3], Unshift(s[4], after)>>
\* A filter is its columns and its criteria, numbered from its first column.
FilterId(id, left, after) == IF left + id > after THEN id + 2 ELSE id
ShiftFilter(f, after) ==
  [columns |-> ShiftSpan(f.columns, after), ids |-> {FilterId(id, f.columns[1], after) : id \in f.ids}]
MovedCell(cell, after) == [cell EXCEPT !.refs = {ShiftSpan(r, after) : r \in @}]
Columns(low, high, style) == [low |-> low, high |-> high, style |-> style]
Filled(sheet) == {at[1] : at \in DOMAIN sheet.cells}

\* A column definition is cut at the insertion; the new columns take over
\* the definitions of the pair they are inserted after.
Moved(def, after) ==
  {Columns(x[1] + x[3], x[2] + x[3], def.style) :
    x \in {x \in {<<def.low, Min({def.high, after}), 0>>, <<Max({def.low, after + 1}), def.high, 2>>} : x[1] <= x[2]}}
Defining(cols, column) == {def \in cols : def.low <= column /\ column <= def.high}
NewColumns(cols, anchor) ==
  UNION {{Columns(x[2], x[2], def.style) : def \in Defining(cols, x[1])} :
    x \in {<<anchor.quantity, anchor.cost + 1>>, <<anchor.cost, anchor.cost + 2>>}}
TranslatedCols(cols, anchor) == UNION {Moved(def, anchor.cost) : def \in cols} \cup NewColumns(cols, anchor)
Disjoint(cols) == \A x, y \in cols : x # y => x.high < y.low \/ y.high < x.low

\* Bug: the new header repeats the old one.
RepeatedText(anchor, i, period) == anchor.labels[i]
InsertedText(anchor, i, period) ==
  [words |-> anchor.labels[i].words \cup {"other"}, periods |-> anchor.labels[i].periods \cup {period}]
Inserted(sheet, anchor, period, at) ==
  LET i == at[2] - anchor.cost
      model == <<at[1], IF i = 1 THEN anchor.quantity ELSE anchor.cost>>
      text == IF at[1] = anchor.parent[1] THEN InsertedText(anchor, i, period) ELSE Blank
  IN  [words |-> text.words, periods |-> text.periods, refs |-> {},
       style |-> IF model \in DOMAIN sheet.cells THEN sheet.cells[model].style ELSE None]
NewPlaces(sheet, anchor) == Filled(sheet) \X {anchor.cost + 1, anchor.cost + 2}

TransformedSheet(sheet, anchor, period) ==
  LET after == anchor.cost
      places == {<<at[1], Shift(at[2], after)>> : at \in DOMAIN sheet.cells}
  IN  [sheet EXCEPT
        !.cells = [at \in places \cup NewPlaces(sheet, anchor) |->
                    IF at \in NewPlaces(sheet, anchor) THEN Inserted(sheet, anchor, period, at)
                    ELSE MovedCell(sheet.cells[<<at[1], Unshift(at[2], after)>>], after)],
        !.spans = {ShiftMerge(s, after) : s \in @},
        !.regions = {ShiftSpan(r, after) : r \in @},
        !.filter = {ShiftFilter(f, after) : f \in @},
        !.drawings = [i \in DOMAIN @ |-> <<Shift(@[i][1], after - 1), Shift(@[i][2], after - 1)>>],
        !.cols = TranslatedCols(@, anchor)]

-----------------------------------------------------------------------------
(* What a sheet may hold to be rewritten, and what other parts it touches.  *)
Crosses(left, right, after) == left <= after /\ after < right
\* A shared formula fills its range, which lies to the left with all it reads.
SharedAccepted(shared, after) ==
  /\ \A g \in shared : /\ g.anchors = {<<g.range[1], g.range[2]>>}
                       /\ g.members = Cells(g.range)
                       /\ g.range[4] <= after
                       /\ \A r \in g.refs : r[2] <= after
  /\ \A g, h \in shared : g # h => g.members \cap h.members = {}
\* Threaded comments keep their part, so it has to be sound and to the left.
ThreadsAccepted(threads, persons, after) ==
  /\ \A t \in threads : t.at[2] <= after /\ t.person \in persons /\ t.parent # t.id
  /\ \A t, u \in threads : t # u => t.id # u.id /\ t.at # u.at
  /\ {t.parent : t \in threads} \subseteq {t.id : t \in threads} \cup {None}
NotesAccepted(notes, after) == \A c \in notes : c <= after
DrawingsAccepted(drawings, after) == \A i \in DOMAIN drawings : ~Crosses(drawings[i][1], drawings[i][2], after - 1)

Rewritable(sheet, persons, anchor) ==
  LET after == anchor.cost
  IN  /\ \A s \in sheet.spans : ~Crosses(s[2], s[4], after)
      /\ NotesAccepted(sheet.notes, after)
      /\ ThreadsAccepted(sheet.threads, persons, after)
      /\ SharedAccepted(sheet.shared, after)
      /\ DrawingsAccepted(sheet.drawings, after)
      /\ Disjoint(TranslatedCols(sheet.cols, anchor))
      /\ {sheet.detail, anchor.row} \subseteq Filled(sheet)

\* A name counts when its first quoted term of a rewritten sheet is affected.
FirstTerm(name, sheet) ==
  LET of == SelectSeq(name.terms, LAMBDA t : t.sheet = sheet /\ t.quoted) IN IF of = <<>> THEN <<>> ELSE of[1].columns
NameAffected(name, anchors) ==
  \E s \in DOMAIN anchors : FirstTerm(name, s) # <<>> /\ FirstTerm(name, s)[2] > anchors[s].cost
TranslatedName(name, anchors) ==
  [name EXCEPT !.terms = [i \in DOMAIN @ |->
    IF @[i].sheet \in DOMAIN anchors /\ @[i].columns # <<>>
      THEN [@[i] EXCEPT !.columns = ShiftSpan(@, anchors[name.terms[i].sheet].cost)] ELSE @[i]]]

ChainSheet(chain, i) == chain[Max({j \in 1..i : chain[j][1] # None})][1]
ChainValid(book) ==
  \A i \in DOMAIN book.chain : (\E j \in 1..i : book.chain[j][1] # None) /\ ChainSheet(book.chain, i) \in DOMAIN book.sheets
ChainAffected(book, anchors) ==
  \E i \in DOMAIN book.chain :
    LET s == ChainSheet(book.chain, i) IN s \in DOMAIN anchors /\ book.chain[i][2] > anchors[s].cost
TranslatedChain(chain, anchors) ==
  [i \in DOMAIN chain |-> LET s == ChainSheet(chain, i) IN
    IF s \in DOMAIN anchors THEN <<chain[i][1], Shift(chain[i][2], anchors[s].cost)>> ELSE chain[i]]

-----------------------------------------------------------------------------
(* The plan for the sheets with rows of the selected stage.                 *)
Refusal(why) == [status |-> why, anchors |-> <<>>]
\* Bug: the year is not looked at.
ConflictsInMonth(pair, period) == \E p \in pair.periods : p[1] # period[1]
Conflicts(pair, period) == \E p \in pair.periods : p[1] # period[1] \/ p[2] \notin {None, period[2]}
PlanFrom(book, selected, period, state, anchors) ==
  LET has == {s \in selected : state[s] = "found"}
      anchor == [s \in selected |-> CHOOSE x \in anchors[s] : TRUE]
      affected == {i \in DOMAIN book.names : NameAffected(book.names[i], anchor)}
  IN  CASE \E s \in selected : ~SpansAccepted(book.sheets[s].spans) -> Refusal("package")
        [] \E s \in selected : state[s] = "ambiguous" -> Refusal("anchor")
        [] \E s \in has : Conflicts(CurrentPair(book.sheets[s]), period) -> Refusal("conflict")
        [] has # {} /\ has # selected -> Refusal("mixed")
        [] has = selected -> [status |-> "idempotent", anchors |-> <<>>]
        [] \E s \in selected : Cardinality(anchors[s]) # 1 -> Refusal("anchor")
        [] \/ \E s \in selected : ~Rewritable(book.sheets[s], book.persons, anchor[s])
           \/ \E i \in affected : ~book.names[i].permitted
           \/ ~ChainValid(book) -> Refusal("unsupported")
        [] OTHER -> [status |-> "planned", anchors |-> anchor]
Plan(book, selected, period) ==
  PlanFrom(book, selected, period, [s \in selected |-> Current(book.sheets[s])], [s \in selected |-> Anchors(book.sheets[s])])

\* Before a plan is used it is built again, and its anchors are looked at.
PlanValid(book, selected, period, plan) ==
  /\ plan = Plan(book, selected, period)
  /\ plan.status = "planned"
  /\ \A s \in DOMAIN plan.anchors :
       plan.anchors[s].parent[2] = plan.anchors[s].quantity /\ plan.anchors[s].parent[4] = plan.anchors[s].cost

Transformed(book, anchors, period) ==
  [book EXCEPT
    !.sheets = [s \in DOMAIN @ |-> IF s \in DOMAIN anchors THEN TransformedSheet(@[s], anchors[s], period) ELSE @[s]],
    !.names = [i \in DOMAIN @ |-> IF NameAffected(@[i], anchors) THEN TranslatedName(@[i], anchors) ELSE @[i]],
    !.chain = IF ChainAffected(book, anchors) THEN TranslatedChain(@, anchors) ELSE @]

-----------------------------------------------------------------------------
(* The verification, which undoes the change and compares.                  *)
UnfilterId(id, left, after) == IF left + id > after THEN id - 2 ELSE id
UnshiftFilter(f, after) ==
  LET columns == UnshiftSpan(f.columns, after)
  IN  [columns |-> columns, ids |-> {UnfilterId(id, columns[1], after) : id \in f.ids}]
Undone(sheet, cols, after) ==
  LET kept == {at \in DOMAIN sheet.cells : at[2] \notin {after + 1, after + 2}}
  IN  [sheet EXCEPT
        !.cells = [at \in {<<x[1], Unshift(x[2], after)>> : x \in kept} |->
                    [sheet.cells[<<at[1], Shift(at[2], after)>>] EXCEPT !.refs = {UnshiftSpan(r, after) : r \in @}]],
        !.spans = {UnshiftMerge(s, after) : s \in @},
        !.regions = {UnshiftSpan(r, after) : r \in @},
        !.filter = {UnshiftFilter(f, after) : f \in @},
        !.cols = cols]
\* Bug: the new cells are counted, their contents not compared.
InsertedInPlace(old, new, anchor, period) ==
  {at \in DOMAIN new.cells : at[2] \in {anchor.cost + 1, anchor.cost + 2}} = NewPlaces(old, anchor)
InsertedAsPlanned(old, new, anchor, period) ==
  /\ Filled(new) = Filled(old)
  /\ {at \in DOMAIN new.cells : at[2] \in {anchor.cost + 1, anchor.cost + 2}} = NewPlaces(old, anchor)
  /\ \A at \in NewPlaces(old, anchor) : new.cells[at] = Inserted(old, anchor, period, at)
DrawingsAsShifted(old, new, after) ==
  /\ Len(old) = Len(new)
  /\ \A i \in DOMAIN old, end \in 1..2 :
       IF old[i][end] > after - 1 THEN new[i][end] - 2 = old[i][end] ELSE new[i][end] = old[i][end]
ColsAsTranslated(old, new, anchor) == new = TranslatedCols(old, anchor)
SharedAsBefore(old, new, after) == SharedAccepted(new, after) /\ new = old
SheetVerified(old, new, anchor, period) ==
  /\ SharedAsBefore(old.shared, new.shared, anchor.cost)
  /\ InsertedAsPlanned(old, new, anchor, period)
  /\ ColsAsTranslated(old.cols, new.cols, anchor)
  /\ DrawingsAsShifted(old.drawings, new.drawings, anchor.cost)
  /\ [Undone(new, old.cols, anchor.cost) EXCEPT !.drawings = old.drawings] = old

UndoneName(name, anchors) ==
  [name EXCEPT !.terms = [i \in DOMAIN @ |->
    IF @[i].sheet \in DOMAIN anchors /\ @[i].columns # <<>>
      THEN [@[i] EXCEPT !.columns = UnshiftSpan(@, anchors[name.terms[i].sheet].cost)] ELSE @[i]]]
NameVerified(old, new, anchors) == old = new \/ (old.permitted /\ UndoneName(new, anchors) = old)
\* Once the chain is rewritten, every entry of it has to be of a rewritten sheet.
ChainVerified(old, new, anchors) ==
  /\ Len(old) = Len(new)
  /\ \A i \in DOMAIN old :
       LET s == ChainSheet(old, i)
       IN  /\ new[i][1] = old[i][1]
           /\ s \in DOMAIN anchors
           /\ IF old[i][2] > anchors[s].cost THEN Unshift(new[i][2], anchors[s].cost) = old[i][2] ELSE new[i][2] = old[i][2]

Reread(book, anchors) ==
  \A s \in DOMAIN anchors : Current(book.sheets[s]) = "found" /\ CurrentPair(book.sheets[s]).column = anchors[s].cost + 1
Verified(old, new, anchors, period) ==
  /\ new.persons = old.persons
  /\ \A s \in DOMAIN anchors : SpansAccepted(new.sheets[s].spans)
  /\ \A s \in DOMAIN old.sheets \ DOMAIN anchors : new.sheets[s] = old.sheets[s]
  /\ \A s \in DOMAIN anchors : SheetVerified(old.sheets[s], new.sheets[s], anchors[s], period)
  /\ IF \E i \in DOMAIN old.names : NameAffected(old.names[i], anchors)
       THEN Len(new.names) = Len(old.names) /\ \A i \in DOMAIN old.names : NameVerified(old.names[i], new.names[i], anchors)
       ELSE new.names = old.names
  /\ IF ChainAffected(old, anchors) THEN ChainVerified(old.chain, new.chain, anchors) ELSE new.chain = old.chain
  /\ Reread(new, anchors)

\* The book with its new columns, or <<>>.
Published(book, new, selected, period, plan) ==
  IF PlanValid(book, selected, period, plan) /\ Verified(book, new, plan.anchors, period) THEN <<new>> ELSE <<>>
Prepared(book, selected, period, plan) ==
  Published(book, Transformed(book, plan.anchors, period), selected, period, plan)

\* reconciliation_period_preview.py: the columns the review is shown for, a
\* plan being made only when some sheet has no current pair.
Previewed(book, selected, period) ==
  IF \A s \in selected : Current(book.sheets[s]) = "found"
    THEN [status |-> "current", pairs |-> [s \in selected |-> CurrentPair(book.sheets[s])]]
    ELSE [status |-> Plan(book, selected, period).status, pairs |-> <<>>]

-----------------------------------------------------------------------------
(* Properties.  Where a column goes is stated without the shift: the        *)
(* columns that are not new keep their order.                               *)
Image(columns, after, last) ==
  LET kept == SetToSortSeq(1..(last + 2) \ {after + 1, after + 2}, <) IN {kept[c] : c \in columns}
Without(columns, after) == columns \ {after + 1, after + 2}
Follows(old, new, after, last) == Without(new[1]..new[2], after) = Image(old[1]..old[2], after, last)
AllFollow(old, new, after, last) ==
  /\ \A r \in old : \E n \in new : Follows(r, n, after, last)
  /\ \A n \in new : \E r \in old : Follows(r, n, after, last)
Where(at, after, last) == <<at[1], CHOOSE c \in Image({at[2]}, after, last) : TRUE>>
Criteria(f) == {f.columns[1] + id : id \in f.ids}

(* In a book the insertion published, every operand of a formula, every     *)
(* format and every filter criterion of a rewritten sheet covers the same   *)
(* cells as before, and the amounts stand in their columns                  *)
(* (period_insertion.py:573 _transform_sheet, checked only by undoing it).  *)
ReferencesFollow(book, plan, prepared, last) ==
  prepared # <<>> => \A s \in DOMAIN plan.anchors :
    LET old == book.sheets[s]
        new == prepared[1].sheets[s]
        after == plan.anchors[s].cost
    IN  /\ \A at \in DOMAIN old.cells :
             /\ Where(at, after, last) \in DOMAIN new.cells
             /\ new.cells[Where(at, after, last)].words = old.cells[at].words
             /\ AllFollow(old.cells[at].refs, new.cells[Where(at, after, last)].refs, after, last)
        /\ AllFollow(old.regions, new.regions, after, last)
        /\ \A f \in old.filter : \E g \in new.filter : Criteria(g) = Image(Criteria(f), after, last)

(* A plan that was shown can be carried out on the unchanged target, when   *)
(* its parent header spans the pair alone, its leaf labels name no history  *)
(* and no month, and no other sheet calculates (period_insertion.py:414     *)
(* prepare_period_insertion plans again, verifies and reads the result).    *)
Plain(book, plan) ==
  /\ \A s \in DOMAIN plan.anchors :
       LET x == plan.anchors[s]
       IN  /\ x.parent[2] = x.quantity
           /\ \A i \in 1..2 : ~Historical(x.labels[i].words) /\ x.labels[i].periods = {}
  /\ \A i \in DOMAIN book.chain : ChainSheet(book.chain, i) \in DOMAIN plan.anchors
PlansPrepare(plan, prepared) == plan.status = "planned" => prepared # <<>>
PlainPlansPrepare(book, plan, prepared) == Plain(book, plan) => PlansPrepare(plan, prepared)

(* A target that was prepared for a month needs nothing more for it, and is *)
(* refused for every other month (period_insertion.py:355, :1965).          *)
PreparedIsSettled(selected, period, other, prepared) ==
  prepared # <<>> => \A p \in {period, other} :
    Plan(prepared[1], selected, p).status = IF p = period THEN "idempotent" ELSE "conflict"

(* The verification accepts nothing but the planned rewriting: of the books *)
(* with no reference into the new columns, only the transformed one passes  *)
(* (period_insertion.py:467 verify_period_insertion).                       *)
UsesNew(sheet, after) ==
  \E at \in DOMAIN sheet.cells : \E r \in sheet.cells[at].refs : {r[1], r[2]} \cap {after + 1, after + 2} # {}
TamperingIsSeen(book, period, new, plan) ==
  /\ plan.status = "planned"
  /\ Verified(book, new, plan.anchors, period)
  /\ \A s \in DOMAIN plan.anchors : ~UsesNew(new.sheets[s], plan.anchors[s].cost)
  => new = Transformed(book, plan.anchors, period)

(* Not so in the code: a name written without quotes, or whose first term   *)
(* lies to the left, keeps its columns (period_insertion.py:2221).          *)
NamesFollow(book, plan, prepared, last) ==
  prepared # <<>> => \A i \in DOMAIN book.names : \A j \in DOMAIN book.names[i].terms :
    LET old == book.names[i].terms[j]
        new == prepared[1].names[i].terms[j]
    IN  old.sheet \in DOMAIN plan.anchors /\ old.columns # <<>> =>
          Follows(old.columns, new.columns, plan.anchors[old.sheet].cost, last)

(* Not so in the code: the amounts of a review for a month go to a pair of  *)
(* that month; an existing pair is taken as it is, whatever month it names  *)
(* (reconciliation_period_preview.py:75).                                   *)
PeriodIsHonoured(book, selected, period) ==
  LET shown == Previewed(book, selected, period)
  IN  shown.status = "current" => \A s \in selected : ~Conflicts(shown.pairs[s], period)
=============================================================================
