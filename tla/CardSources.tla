----------------------------- MODULE CardSources -----------------------------
(* drawing_card/sources: readers.py reads the cells of a sheet, schema.py    *)
(* finds its headings, and extractor.py makes a source row of every line.    *)
(*                                                                           *)
(* A sheet is a record [headers, data]: the heading rows are sequences of    *)
(* cells, a cell is the set of the words schema.py looks for, or None.  A    *)
(* line of data is a record [drawing, index, work, position, metrics]; a     *)
(* metric cell is a record [value, formula], the formula being the columns   *)
(* of a subtraction on its own row, <<0>> any other one, <<>> none.          *)
EXTENDS Integers, FiniteSets, Sequences
LOCAL INSTANCE FiniteSetsExt
LOCAL Listed == INSTANCE SequencesExt

CONSTANTS None,
          Codes,        \* drawing codes is_plausible_drawing_code accepts
          Numeral,      \* one of them: the text of a row that numbers the columns
          Indexes,      \* texts extract_document_index reads
          Dashes,       \* texts that clear the document index
          ScanRows,     \* max_scan_rows
          EmptyLimit    \* empty_row_limit

-----------------------------------------------------------------------------
(* readers.py: a sheet file is a sequence of rows [number, cells], a cell is *)
(* a record [column, value, kind, formula, group]; kind is "none", "own",    *)
(* "master" or "shared", the formula of a shared cell stands at its master.  *)
\* Bug: a shared formula is read as it stands at its master.
Unmoved(formula, distance) == formula
Moved(formula, distance) == [k \in DOMAIN formula |-> formula[k] + distance]
IsSelected(cell, selected) == selected = {} \/ cell.column \in selected
FormulaOf(cell, masters) ==
  CASE cell.kind = "none" -> <<>>
    [] cell.kind \in {"own", "master"} -> cell.formula
    [] cell.kind = "shared" /\ cell.group \notin DOMAIN masters -> <<0>>
    [] OTHER -> Moved(masters[cell.group].formula, cell.column - masters[cell.group].column)
Masters(cells, masters) ==
  LET here == {k \in DOMAIN cells : cells[k].kind = "master"}
  IN [g \in DOMAIN masters \cup {cells[k].group : k \in here} |->
        IF \E k \in here : cells[k].group = g THEN cells[Max({k \in here : cells[k].group = g})] ELSE masters[g]]
ReadCells(cells, masters) == {[column |-> cells[k].column, value |-> cells[k].value, formula |-> FormulaOf(cells[k], masters)] : k \in DOMAIN cells}
\* A row without a number follows the last one that was read.
NumberOf(row, last) == IF row.number = None THEN last + 1 ELSE row.number
\* Bug: the rows a file leaves out are not counted.
GapsSkipped(before, number, cells, masters) ==
  [last |-> number, masters |-> masters, rows |-> Append(before.rows, ReadCells(cells, masters))]
ReadOn(before, number, cells, masters) ==
  [last |-> number, masters |-> masters, rows |-> before.rows \o [k \in 1 .. number - before.last - 1 |-> {}] \o <<ReadCells(cells, masters)>>]
ReadRow(before, row, number, minRow, cells) ==
  IF number < minRow THEN before ELSE ReadOn(before, number, cells, Masters(cells, before.masters))
Chosen(row, selected) == SelectSeq(row.cells, LAMBDA cell : IsSelected(cell, selected))
IterRows(file, minRow, selected) ==
  LET next(before, row) == ReadRow(before, row, NumberOf(row, before.last), minRow, Chosen(row, selected))
  IN  Listed!FoldLeft(next, [last |-> minRow - 1, masters |-> <<>>, rows |-> <<>>], file).rows

Numbered(file) == \A n \in DOMAIN file : file[n].number # None
Stands(cell, row) == \E k \in DOMAIN row.cells : row.cells[k].column = cell.column /\ row.cells[k].value = cell.value
\* readers.py:188: the rows the reader yields are the rows of the sheet, each at
\* its own number, with blank rows between them, whatever columns are asked for.
RowsKeepTheirPlace(file, minRow, result) ==
  Numbered(file) =>
    \A k \in DOMAIN result : \A cell \in result[k] :
      \E n \in DOMAIN file : file[n].number = minRow + k - 1 /\ Stands(cell, file[n])
Relative(cell) == [n \in DOMAIN cell.formula |-> cell.formula[n] - cell.column]
CellsOf(file) == UNION {{file[n].cells[k] : k \in DOMAIN file[n].cells} : n \in DOMAIN file}
\* readers.py:230: a cell of a shared formula looks as far to its left and right
\* as the master of its group does, or at nothing, whatever columns and rows are
\* read; a cell with a formula of its own keeps it.
SharedFormulaMoves(file, minRow, selected, result) ==
  Numbered(file) => \A k \in DOMAIN result : \A cell \in result[k] :
    \A n \in DOMAIN file : file[n].number = minRow + k - 1 =>
      \A written \in {c \in CellsOf(<<file[n]>>) : c.column = cell.column /\ c.kind # "none"} :
        \/ written.kind = "shared" /\ cell.formula = <<0>>
        \/ \E master \in {c \in CellsOf(file) : c = written \/ (c.kind = "master" /\ c.group = written.group)} :
             Relative(cell) = Relative(master)
\* Not so: a formula whose master is not among the selected columns is lost.
SelectionKeepsFormulas(file, minRow, selected, result) ==
  Numbered(file) => \A k \in DOMAIN result : \A cell \in result[k] : cell \in IterRows(file, 1, {})[minRow + k - 1]
\* Not so: rows without a number are counted from the first row asked for.
UnnumberedKeepTheirPlace(file, minRow, result) ==
  (\A n \in DOMAIN file : file[n].number = None) =>
    \A k \in DOMAIN result : \A cell \in result[k] : minRow + k - 1 <= Len(file) /\ Stands(cell, file[minRow + k - 1])

-----------------------------------------------------------------------------
(* Headings: parent rows are filled to the right, the last row is not.       *)
Texts(sheet, n) == {c \in DOMAIN sheet.headers[n] : sheet.headers[n][c] # None}
Filled(sheet, n, column) ==
  LET left == {c \in Texts(sheet, n) : c <= column} IN IF left = {} THEN {} ELSE sheet.headers[n][Max(left)]
Leaf(sheet, n, column) ==
  IF n \in DOMAIN sheet.headers /\ sheet.headers[n][column] # None THEN sheet.headers[n][column] ELSE {}
Layers(sheet, start, end) == start .. (IF end - 1 < Len(sheet.headers) THEN end - 1 ELSE Len(sheet.headers))
ComposeHeaders(sheet, start, end) ==
  [column \in 1 .. Len(sheet.headers[1]) |->
     UNION {Filled(sheet, n, column) : n \in Layers(sheet, start, end)} \cup Leaf(sheet, end, column)]

Texted == {"drawing", "index", "cost_type", "position", "work", "unit"}
Residual == {"remaining_quantity", "remaining_cost"}
Names(role, header) ==
  CASE role = "remaining_quantity" -> {"left", "quantity"} \subseteq header
    [] role = "remaining_cost" -> {"left", "cost"} \subseteq header /\ "price" \notin header
    [] role = "performed_quantity" -> {"performed", "quantity"} \subseteq header
    [] role = "performed_cost" -> {"performed", "cost"} \subseteq header /\ "price" \notin header
    [] OTHER -> role \in header
Candidates(headers, role) == {c \in DOMAIN headers : Names(role, headers[c])}
Only(S) == CHOOSE x \in S : TRUE
Unique(headers, roles) ==
  [role \in {r \in roles : Cardinality(Candidates(headers, r)) = 1} |-> Only(Candidates(headers, role))]
Unclear(headers, roles) == {<<"AMBIGUOUS_COLUMN", r>> : r \in {r \in roles : Cardinality(Candidates(headers, r)) > 1}}
\* One physical column with two roles has neither.
\* Bug: both roles of a column stay.
NoneShared(found) == {}
Shared(found) == {role \in DOMAIN found : \E other \in DOMAIN found : other # role /\ found[other] = found[role]}
Apart(found, clashes) == [role \in DOMAIN found \ clashes |-> found[role]]

\* The contract: a quantity, a price and a cost from left to right.
IsContractCost(headers, c) ==
  \/ {"contract", "cost"} \subseteq headers[c] /\ "price" \notin headers[c]
  \/ headers[c] = {"contract"} /\ c - 1 \in DOMAIN headers /\ "price" \in headers[c - 1]
QuantitiesBefore(headers, cost) ==
  {c \in DOMAIN headers : /\ c < cost /\ cost - c <= 6 /\ "quantity" \in headers[c]
                          /\ \E p \in DOMAIN headers : c < p /\ p < cost /\ "price" \in headers[p]}
ContractPairs(headers) ==
  {<<Max(QuantitiesBefore(headers, cost)), cost>> :
     cost \in {c \in DOMAIN headers : IsContractCost(headers, c) /\ QuantitiesBefore(headers, c) # {}}}
ContractRoles(pairs) ==
  IF Cardinality(pairs) # 1 THEN <<>>
  ELSE [role \in {"contract_quantity", "contract_cost"} |-> Only(pairs)[IF role = "contract_quantity" THEN 1 ELSE 2]]

\* A column that is taken loses the role it had, and the new one is not given.
Taken(found, column) == {role \in DOMAIN found : found[role] = column}
Give(found, role, column) ==
  IF Taken(found, column) # {} THEN Apart(found, Taken(found, column))
  ELSE [r \in DOMAIN found \cup {role} |-> IF r = role THEN column ELSE found[r]]
GiveNext(state, role, roles) ==
  IF role \notin DOMAIN roles THEN state
  ELSE [columns |-> Give(state.columns, role, roles[role]),
        warnings |-> state.warnings \cup {<<"CONFLICTING_ROLES", role>> : r \in Taken(state.columns, roles[role])}]
GiveAll(state, contract, performed) ==
  GiveNext(GiveNext(GiveNext(GiveNext(state, "contract_quantity", contract), "contract_cost", contract),
                    "performed_quantity", performed), "performed_cost", performed)
WithAuthority(state) ==
  [state EXCEPT !.warnings = @ \cup {<<"AUTHORITATIVE", "contract_quantity">> :
                                       x \in {x \in {1} : {"performed_quantity", "remaining_quantity"} \subseteq DOMAIN state.columns}}
                               \cup {<<"AUTHORITATIVE", "contract_cost">> :
                                       x \in {x \in {1} : {"performed_cost", "remaining_cost"} \subseteq DOMAIN state.columns}}]
ResolvedColumns(headers, found, warnings) ==
  WithAuthority(GiveAll([columns |-> Apart(found, Shared(found)),
                         warnings |-> warnings \cup {<<"CONFLICTING_ROLES", r>> : r \in Shared(found)}],
                        ContractRoles(ContractPairs(headers)), Unique(headers, {"performed_quantity", "performed_cost"})))
ResolveColumns(headers) ==
  ResolvedColumns(headers, Unique(headers, Texted \cup Residual),
                  Unclear(headers, Texted \cup Residual \cup {"performed_quantity", "performed_cost"}))

SchemaScore(columns) ==
  2 * Cardinality({"drawing", "work", "unit"} \cap DOMAIN columns) + 4 * Cardinality(Residual \cap DOMAIN columns)
    + Cardinality({"contract_quantity", "contract_cost", "performed_quantity", "performed_cost"} \cap DOMAIN columns)

-----------------------------------------------------------------------------
(* A quantity whose formula starts from the contract's cost is money.  It is *)
(* computed anew from the contract's quantity where every sampled formula    *)
(* has one signature; otherwise the column is given up.                      *)
Scanned(sheet, from) == {n \in DOMAIN sheet.data : n >= from /\ Len(sheet.headers) + n <= ScanRows}
Formulas(sheet, from, column) ==
  {sheet.data[n].metrics[column].formula : n \in {n \in Scanned(sheet, from) : column \in DOMAIN sheet.data[n].metrics}}
Subtractions(formulas) == {f \in formulas : Len(f) > 1}
Signatures(sheet, from, column, pairs) ==
  {f \in Subtractions(Formulas(sheet, from, column)) : \E pair \in pairs : pair[2] = f[1]}
UpstreamPairs(sheet, from, quantity, pairs) ==
  {pair \in pairs : pair[1] # quantity /\ \E f \in Subtractions(Formulas(sheet, from, quantity)) : f[1] = pair[1]}
QuantityOf(cost, pairs) == (CHOOSE pair \in pairs : pair[2] = cost)[1]
WithRepair(state, signature, base, upstream) ==
  [columns |-> [role \in DOMAIN state.columns \cup {"contract_quantity", "contract_cost"} |->
                  IF role = "contract_quantity" THEN (IF Cardinality(upstream) = 1 THEN Only(upstream)[1] ELSE base)
                  ELSE IF role = "contract_cost" THEN (IF Cardinality(upstream) = 1 THEN Only(upstream)[2] ELSE signature[1])
                  ELSE state.columns[role]],
   warnings |-> state.warnings \cup {<<"REPAIRED", "remaining_quantity">>},
   repair |-> [base |-> base, formula |-> signature]]
Unrepaired(state, warnings, lost) ==
  [columns |-> Apart(state.columns, lost), warnings |-> state.warnings \cup warnings, repair |-> None]
RepairedBy(state, sheet, from, signatures, pairs) ==
  IF signatures = {} THEN Unrepaired(state, {}, {})
  ELSE IF Cardinality(signatures) > 1 THEN Unrepaired(state, {<<"AMBIGUOUS_FORMULA", "remaining_quantity">>}, {"remaining_quantity"})
  ELSE WithRepair(state, Only(signatures), QuantityOf(Only(signatures)[1], pairs),
                  UpstreamPairs(sheet, from, QuantityOf(Only(signatures)[1], pairs), pairs))
Repair(state, sheet, from, pairs) ==
  IF "remaining_quantity" \notin DOMAIN state.columns THEN Unrepaired(state, {}, {})
  ELSE RepairedBy(state, sheet, from, Signatures(sheet, from, state.columns["remaining_quantity"], pairs), pairs)

\* Positions under a heading that does not name them make the sheet ambiguous.
Prefixes(codes) == {pc \in codes \X codes : Len(pc[1]) < Len(pc[2]) /\ SubSeq(pc[2], 1, Len(pc[1])) = pc[1]}
PositionEvidence(sheet, from) ==
  LET codes == {sheet.data[n].position : n \in Scanned(sheet, from)} \ {None}
  IN Cardinality(codes) >= 4 /\ Cardinality(Prefixes(codes)) >= 2
Required == {"drawing", "work", "unit"} \cup Residual
Unsafe(warnings) == \E w \in warnings : w[1] \in {"AMBIGUOUS_COLUMN", "CONFLICTING_ROLES"}
StatusOf(columns, warnings, positions) ==
  IF ~(Required \subseteq DOMAIN columns) THEN "MISSING_REQUIRED_COLUMNS"
  ELSE IF Unsafe(warnings) \/ positions THEN "AMBIGUOUS_SCHEMA" ELSE "OK"
SchemaOf(state, end, positions) ==
  [columns |-> state.columns, warnings |-> state.warnings, repair |-> state.repair, end |-> end,
   confidence |-> IF SchemaScore(state.columns) > 14 THEN 14 ELSE SchemaScore(state.columns),
   status |-> StatusOf(state.columns, state.warnings, positions)]
NoSchema == [columns |-> <<>>, warnings |-> {}, repair |-> None, end |-> 1, confidence |-> 0, status |-> "MISSING_REQUIRED_COLUMNS"]

Anchors(sheet) ==
  {n \in DOMAIN sheet.headers : \E c, d \in Texts(sheet, n) : "drawing" \in sheet.headers[n][c] /\ "work" \in sheet.headers[n][d]}
LastRow(sheet) == IF Len(sheet.headers) + Len(sheet.data) < ScanRows THEN Len(sheet.headers) + Len(sheet.data) ELSE ScanRows
Spans(sheet) == {span \in Anchors(sheet) \X (1 .. LastRow(sheet)) : span[2] - span[1] \in 0 .. 4}
\* The best score, then the shortest span, then the first anchor.
Better(x, y) ==
  \/ x.score > y.score
  \/ x.score = y.score /\ x.end - x.start < y.end - y.start
  \/ x.score = y.score /\ x.end - x.start = y.end - y.start /\ x.start < y.start
Best(spans) == CHOOSE x \in spans : \A y \in spans \ {x} : Better(x, y)
Scored(sheet, spans) ==
  {[score |-> SchemaScore(ResolveColumns(ComposeHeaders(sheet, s[1], s[2])).columns), start |-> s[1], end |-> s[2]] : s \in spans}
DataFrom(sheet, end) == IF end < Len(sheet.headers) THEN 1 ELSE end - Len(sheet.headers) + 1
DetectFrom(sheet, headers, end) ==
  SchemaOf(Repair(ResolveColumns(headers), sheet, DataFrom(sheet, end), ContractPairs(headers)), end,
           PositionEvidence(sheet, DataFrom(sheet, end)) /\ "position" \notin DOMAIN ResolveColumns(headers).columns)
DetectAt(sheet, span) == DetectFrom(sheet, ComposeHeaders(sheet, span.start, span.end), span.end)
DetectSheetSchema(sheet) ==
  IF Spans(sheet) = {} THEN NoSchema ELSE DetectAt(sheet, Best(Scored(sheet, Spans(sheet))))

Usable(schema) == schema.status = "OK"

-----------------------------------------------------------------------------
(* extractor.py: one pass over the lines below the headings.                 *)
HeadLine(cells, columns) ==
  [drawing |-> IF cells[columns["drawing"]] = None THEN None
               ELSE IF cells[columns["drawing"]] = {"number"} THEN Numeral ELSE "heading", index |-> None, position |-> None,
   work |-> cells[columns["work"]] # None, blank |-> \A r \in DOMAIN columns : cells[columns[r]] = None,
   metrics |-> [c \in DOMAIN cells |-> [value |-> None, formula |-> <<>>]]]
Blank(line, columns) ==
  /\ line.drawing = None /\ ~line.work
  /\ \A role \in DOMAIN columns \cap {"remaining_quantity", "remaining_cost", "contract_quantity", "contract_cost", "performed_quantity", "performed_cost"} :
       line.metrics[columns[role]] = [value |-> None, formula |-> <<>>]
Lines(sheet, schema) ==
  [k \in 1 .. (IF Len(sheet.headers) > schema.end THEN Len(sheet.headers) - schema.end ELSE 0) |-> HeadLine(sheet.headers[schema.end + k], schema.columns)]
    \o SubSeq(sheet.data, DataFrom(sheet, schema.end), Len(sheet.data))

OrZero(value) == IF value = None THEN 0 ELSE value
ValueAt(line, columns, role) == IF role \in DOMAIN columns THEN line.metrics[columns[role]].value ELSE None
SumAt(line, S) == MapThenSumSet(LAMBDA c : OrZero(line.metrics[c].value), S)
\* Bug: without a base the amount in the cell stays.
KeptWithoutBase(line, schema, formula) ==
  IF formula # schema.repair.formula \/ line.metrics[schema.repair.base].value = None THEN ValueAt(line, schema.columns, "remaining_quantity")
  ELSE line.metrics[schema.repair.base].value - SumAt(line, {formula[k] : k \in 2 .. Len(formula)})
\* Only a formula of the signature the schema approved is computed anew.
Corrected(line, schema, formula) ==
  IF formula = <<>> \/ (Len(formula) > 1 /\ formula[1] = schema.repair.base) THEN ValueAt(line, schema.columns, "remaining_quantity")
  ELSE IF formula # schema.repair.formula \/ line.metrics[schema.repair.base].value = None THEN None
  ELSE line.metrics[schema.repair.base].value - SumAt(line, {formula[k] : k \in 2 .. Len(formula)})
QuantityOfLine(line, schema) ==
  IF schema.repair = None THEN ValueAt(line, schema.columns, "remaining_quantity")
  ELSE Corrected(line, schema, line.metrics[schema.columns["remaining_quantity"]].formula)
\* Bug: a neighbouring triplet overrides the performed and the residual column.
TripletFirst(schema, contract, performed, remaining) ==
  {performed, remaining} \subseteq DOMAIN schema.columns /\ contract \notin DOMAIN schema.columns
\* The contract is what was performed and what is left, unless a triplet says more.
Derived(schema, contract, performed, remaining) ==
  /\ {performed, remaining} \subseteq DOMAIN schema.columns
  /\ contract \notin DOMAIN schema.columns \/ (<<"AUTHORITATIVE", contract>> \in schema.warnings /\ schema.repair = None)
ContractOf(line, schema, contract, performed, remaining, left) ==
  IF Derived(schema, contract, performed, remaining) THEN OrZero(ValueAt(line, schema.columns, performed)) + OrZero(left)
  ELSE OrZero(ValueAt(line, schema.columns, contract))
Uncached(line, schema) ==
  \E role \in {"remaining_quantity", "remaining_cost", "contract_quantity", "contract_cost", "performed_quantity", "performed_cost"} \cap DOMAIN schema.columns :
    line.metrics[schema.columns[role]].formula # <<>> /\ line.metrics[schema.columns[role]].value = None
RowOf(number, line, schema, drawing, index, quantity) ==
  [number |-> number, drawing |-> drawing, index |-> index, quantity |-> quantity,
   cost |-> ValueAt(line, schema.columns, "remaining_cost"),
   contract |-> [quantity |-> ContractOf(line, schema, "contract_quantity", "performed_quantity", "remaining_quantity", quantity),
                 cost |-> ContractOf(line, schema, "contract_cost", "performed_cost", "remaining_cost", ValueAt(line, schema.columns, "remaining_cost"))],
   warned |-> \/ drawing = None \/ Uncached(line, schema) \/ line.drawing \notin Codes \cup {None}
              \/ line.index \notin Indexes \cup Dashes \cup {None}
              \/ schema.repair # None /\ quantity # ValueAt(line, schema.columns, "remaining_quantity")]

IndexAfter(index, line) ==
  IF line.index = None THEN index ELSE IF line.index \in Indexes THEN line.index ELSE None
\* Bug: any text of the drawing column replaces the drawing above it.
AnyCode(drawing, line) == IF line.drawing # None THEN line.drawing ELSE drawing
DrawingAfter(drawing, line) == IF line.drawing \in Codes THEN line.drawing ELSE drawing
Emitted(state, number, line, schema, filename) ==
  IF ~line.work THEN <<>>
  ELSE <<RowOf(number, line, schema, DrawingAfter(state.drawing, line),
               IF IndexAfter(state.index, line) = None THEN filename ELSE IndexAfter(state.index, line), QuantityOfLine(line, schema))>>
ExtractLine(state, number, line, schema, filename) ==
  IF Blank(line, schema.columns) THEN [state EXCEPT !.streak = @ + 1]
  ELSE [drawing |-> DrawingAfter(state.drawing, line), index |-> IndexAfter(state.index, line), streak |-> 0,
        rows |-> state.rows \o Emitted(state, number, line, schema, filename)]
ExtractRows(sheet, schema, filename) ==
  LET lines == Lines(sheet, schema)
      next(state, n) == IF state.streak >= EmptyLimit THEN state
                        ELSE ExtractLine(state, schema.end + n, lines[n], schema, filename)
  IN  Listed!FoldLeftDomain(next, [drawing |-> None, index |-> None, streak |-> 0, rows |-> <<>>], lines).rows

\* What a book with these sheets gives: its schema and its rows.
ReadWith(sheet, schema, filename) ==
  [schema |-> schema, rows |-> IF Usable(schema) THEN ExtractRows(sheet, schema, filename) ELSE <<>>]
ReadSheet(sheet, filename) == ReadWith(sheet, DetectSheetSchema(sheet), filename)

LineAt(sheet, schema, row) == Lines(sheet, schema)[row.number - schema.end]
\* schema.py:403, 433: in a sheet that is used no column is read as two things,
\* and no other column under the headings could be read as one of them.
OneColumnOneRole(sheet, result) ==
  Usable(result.schema) =>
    /\ \A r, s \in DOMAIN result.schema.columns : r # s => result.schema.columns[r] # result.schema.columns[s]
    /\ \E start \in DOMAIN sheet.headers : \A role \in Required :
         Candidates(ComposeHeaders(sheet, start, result.schema.end), role) = {result.schema.columns[role]}
\* schema.py:272, extractor.py:54: where a formula takes a quantity from the cost
\* of the contract, the amount in the cell never becomes the row's quantity.
MoneyIsNoQuantity(sheet, result) ==
  \A k \in DOMAIN result.rows : LET line == LineAt(sheet, result.schema, result.rows[k])
                                    cell == line.metrics[result.schema.columns["remaining_quantity"]] IN
    (/\ Len(sheet.headers) + Len(sheet.data) <= ScanRows /\ Len(cell.formula) > 1
     /\ \E start \in DOMAIN sheet.headers : \E pair \in ContractPairs(ComposeHeaders(sheet, start, result.schema.end)) :
          pair[2] = cell.formula[1])
      => \/ result.rows[k].quantity = None /\ result.rows[k].warned
         \/ /\ result.schema.repair # None /\ line.metrics[result.schema.repair.base].value # None
            /\ result.rows[k].quantity = line.metrics[result.schema.repair.base].value - SumAt(line, {cell.formula[i] : i \in 2 .. Len(cell.formula)})
\* Not so: only the first max_scan_rows rows are looked at.
LateMoneyIsNoQuantity(sheet, result) ==
  \A k \in DOMAIN result.rows : LET cell == LineAt(sheet, result.schema, result.rows[k]).metrics[result.schema.columns["remaining_quantity"]] IN
    (/\ Len(cell.formula) > 1
     /\ \E start \in DOMAIN sheet.headers : \E pair \in ContractPairs(ComposeHeaders(sheet, start, result.schema.end)) : pair[2] = cell.formula[1])
      => result.rows[k].quantity # cell.value \/ cell.value = None
\* extractor.py:169: the drawing of a row is the last code in its column at or
\* above it, what is no code changes nothing, and the amounts of a row add up:
\* the contract is what was performed and what is left.
RowsBelongToTheirDrawing(sheet, result) ==
  \A k \in DOMAIN result.rows :
    LET lines == Lines(sheet, result.schema)
        above == {n \in 1 .. result.rows[k].number - result.schema.end : lines[n].drawing \in Codes}
    IN result.rows[k].drawing = (IF above = {} THEN None ELSE lines[Max(above)].drawing)
RowsAddUp(sheet, result) ==
  \A k \in DOMAIN result.rows :
    LET line == LineAt(sheet, result.schema, result.rows[k])
        columns == result.schema.columns
    IN /\ "performed_cost" \in DOMAIN columns /\ result.schema.repair = None =>
            result.rows[k].contract.cost = OrZero(ValueAt(line, columns, "performed_cost")) + OrZero(result.rows[k].cost)
       /\ "performed_quantity" \in DOMAIN columns /\ result.schema.repair = None =>
            result.rows[k].contract.quantity = OrZero(ValueAt(line, columns, "performed_quantity")) + OrZero(result.rows[k].quantity)
\* Not so: a row that numbers the columns is a line of work of drawing "1".
NumberingIsNoWork(result) == \A k \in DOMAIN result.rows : result.rows[k].drawing # Numeral
\* Not so: reading stops at a gap, and what stands below is not told.
NothingBelowIsLost(sheet, result) ==
  Usable(result.schema) =>
    LET lines == Lines(sheet, result.schema)
    IN Len(result.rows) = Cardinality({n \in DOMAIN lines : lines[n].work})
=============================================================================
