---------------------------- MODULE TargetReport ----------------------------
(* The rows of a target report: admin_panel/reconciliation_target.py.       *)
(*                                                                          *)
(* A cell is its text (None when blank), the terminal index and the stage   *)
(* the text names (or None) and whether it is a formula; a position with no *)
(* cell holds no value.  A sheet is its cells, the resolution of every role *)
(* from its headers, <<status, column, conflict>>, and what the search for  *)
(* its pair of measures comes to (TargetMeasures).                          *)
EXTENDS Integers, FiniteSets, Sequences, FiniteSetsExt, SequencesExt

CONSTANTS None

CoreRoles == {"index", "stage", "position"}
Skeleton == {"position", "name", "unit"}
BaseRoles == CoreRoles \cup Skeleton
Failure(why) == [ok |-> FALSE, why |-> why]

Status(sheet, role) == sheet.headers[role][1]
Column(sheet, role) == sheet.headers[role][2]
Conflicting(sheet, role) == sheet.headers[role][3]
Bound(sheet) == {role \in BaseRoles : Status(sheet, role) = "OK"}
Participates(sheet) ==
  LET core == Cardinality(Bound(sheet) \cap CoreRoles) IN core >= 2 \/ (core >= 1 /\ Cardinality(Bound(sheet)) >= 3)

RowsOf(sheet) == {at[1] : at \in DOMAIN sheet.cells}
In(sheet, column) == {row \in RowsOf(sheet) : <<row, column>> \in DOMAIN sheet.cells}
Says(sheet, row, column) == row \in In(sheet, column) /\ sheet.cells[<<row, column>>].text # None

-----------------------------------------------------------------------------
(* The columns of the index and the stage when no header names them: the    *)
(* only two that name both in the same rows, each above a detail row.       *)
Anchors(sheet, column, field) ==
  {row \in In(sheet, column) : LET c == sheet.cells[<<row, column>>] IN ~c.formula /\ c[field] # None}
Named(sheet, row) ==
  \A role \in Skeleton : Says(sheet, row, Column(sheet, role)) /\ ~sheet.cells[<<row, Column(sheet, role)>>].formula
\* Bug: the rows below the last anchor are not looked at.
InnerBlocksDescribe(sheet, anchors) ==
  \A start \in anchors \ {Max(anchors)} :
    \E row \in RowsOf(sheet) : row >= start /\ (\A next \in anchors : next > start => row < next) /\ Named(sheet, row)
BlocksDescribe(sheet, anchors) ==
  \A start \in anchors :
    \E row \in RowsOf(sheet) : row >= start /\ (\A next \in anchors : next > start => row < next) /\ Named(sheet, row)
Recoverable(sheet) ==
  /\ \A role \in {"index", "stage"} : Status(sheet, role) = "COLUMN_NOT_FOUND"
  /\ Skeleton \subseteq Bound(sheet)
  /\ Cardinality({Column(sheet, role) : role \in Skeleton}) = 3
RecoveryPairs(sheet) ==
  LET columns == {at[2] : at \in DOMAIN sheet.cells} \ {Column(sheet, role) : role \in Skeleton}
      fits(d, s) == /\ d # s
                    /\ Anchors(sheet, d, "index") # {}
                    /\ Anchors(sheet, d, "index") = Anchors(sheet, s, "stage")
                    /\ BlocksDescribe(sheet, Anchors(sheet, d, "index"))
  IN  {x \in columns \X columns : fits(x[1], x[2])}

\* The columns of the roles of a sheet, or why they are not known.
SheetRoles(sheet) ==
  LET pairs == IF Recoverable(sheet) THEN RecoveryPairs(sheet) ELSE {}
      pair == CHOOSE x \in pairs : TRUE
      found == [role \in BaseRoles |-> IF role = "index" /\ pairs # {} THEN pair[1]
                                       ELSE IF role = "stage" /\ pairs # {} THEN pair[2] ELSE Column(sheet, role)]
      open == {role \in BaseRoles : Status(sheet, role) # "OK" /\ ~(role \in {"index", "stage"} /\ pairs # {})}
  IN  CASE Cardinality(pairs) > 1 -> Failure("BASE_ROLE_AMBIGUOUS")
        [] \E role \in open : Status(sheet, role) = "COLUMN_NOT_FOUND" \/ Conflicting(sheet, role) -> Failure("BASE_ROLE_MISSING")
        [] open # {} -> Failure("BASE_ROLE_AMBIGUOUS")
        [] OTHER -> [ok |-> TRUE, columns |-> found]
\* One layout for all the sheets that take part.
CommonRoles(sheets, roles) ==
  LET failing == {s \in sheets : ~roles[s].ok}
  IN  CASE sheets = {} -> Failure("BASE_ROLE_MISSING")
        [] failing # {} -> roles[Min(failing)]
        [] Cardinality({roles[s].columns : s \in sheets}) # 1 -> Failure("BASE_ROLE_HETEROGENEOUS")
        [] OTHER -> [ok |-> TRUE, sheets |-> sheets, columns |-> roles[Min(sheets)].columns]
Roles(book) ==
  LET sheets == {s \in DOMAIN book : Participates(book[s])} IN CommonRoles(sheets, [s \in sheets |-> SheetRoles(book[s])])

-----------------------------------------------------------------------------
(* The index and the stage hold until another cell of their columns: a text *)
(* that is no index ends the document, a blank does not end the stage.      *)
LastIn(rows, row) == Max({r \in rows : r <= row})
ActiveIndex(sheet, columns, row) ==
  LET rows == In(sheet, columns.index)
  IN  IF \A r \in rows : r > row THEN None ELSE sheet.cells[<<LastIn(rows, row), columns.index>>].index
StageCell(sheet, columns, row) ==
  LET rows == {r \in In(sheet, columns.stage) : Says(sheet, r, columns.stage)}
  IN  IF \A r \in rows : r > row THEN [text |-> None, stage |-> None] ELSE sheet.cells[<<LastIn(rows, row), columns.stage>>]
ActiveStage(sheet, columns, row) ==
  LET cell == StageCell(sheet, columns, row) IN IF cell.stage # None THEN cell.stage ELSE cell.text

\* Bug: a row with no stage of its own belongs to every stage.
LooselyDetail(sheet, columns, row, stage) ==
  /\ ActiveIndex(sheet, columns, row) # None
  /\ ActiveStage(sheet, columns, row) # None
  /\ stage \in {None, ActiveStage(sheet, columns, row)} \/ ~Says(sheet, row, columns.stage)
  /\ \A role \in Skeleton : Says(sheet, row, columns[role])
IsDetail(sheet, columns, row, stage) ==
  /\ ActiveIndex(sheet, columns, row) # None
  /\ ActiveStage(sheet, columns, row) # None
  /\ stage \in {None, ActiveStage(sheet, columns, row)}
  /\ \A role \in Skeleton : Says(sheet, row, columns[role])
Details(sheet, columns, stage) == {row \in RowsOf(sheet) : IsDetail(sheet, columns, row, stage)}

\* The stages the report names, and those of them with rows.
Stages(book, roles) ==
  {ActiveStage(book[x[1]], roles.columns, x[2]) :
    x \in {x \in UNION {{s} \X RowsOf(book[s]) : s \in roles.sheets} :
            ActiveIndex(book[x[1]], roles.columns, x[2]) # None /\ ActiveStage(book[x[1]], roles.columns, x[2]) # None}}
ValidStages(book, roles) ==
  UNION {{ActiveStage(book[s], roles.columns, row) : row \in Details(book[s], roles.columns, None)} : s \in roles.sheets}
Resolved(stages, requested) ==
  CASE requested # None /\ requested \notin stages -> Failure("STAGE_MISSING")
    [] requested # None -> [ok |-> TRUE, stage |-> requested]
    [] stages = {} -> Failure("STAGE_EMPTY")
    [] Cardinality(stages) > 1 -> Failure("STAGE_AMBIGUOUS")
    [] OTHER -> [ok |-> TRUE, stage |-> CHOOSE s \in stages : TRUE]

\* The sheets of the stage, each with its first row of any stage.
SelectedSheets(book, roles, stage) == {s \in roles.sheets : Details(book[s], roles.columns, stage) # {}}
\* Bug: the table begins where the stage does.
StageBoundaries(book, roles, stage) ==
  [s \in SelectedSheets(book, roles, stage) |-> Min(Details(book[s], roles.columns, stage))]
Boundaries(book, roles, stage) ==
  [s \in SelectedSheets(book, roles, stage) |-> Min(Details(book[s], roles.columns, None))]

TargetRows(book, roles, stage) ==
  LET places == SetToSortSeq(UNION {{s} \X Details(book[s], roles.columns, stage) : s \in roles.sheets},
                             LAMBDA x, y : x[1] < y[1] \/ (x[1] = y[1] /\ x[2] < y[2]))
  IN  [i \in DOMAIN places |-> [sheet |-> places[i][1], row |-> places[i][2],
                                name |-> StageCell(book[places[i][1]], roles.columns, places[i][2]).text,
                                index |-> ActiveIndex(book[places[i][1]], roles.columns, places[i][2])]]

\* Runs of rows with one name; the blocks are kept in the order of the rows.
Block(sheet, start, end, name) == [sheet |-> sheet, start |-> start, end |-> end, name |-> name]
\* Bug: the name alone keeps a block open.
ContinuesName(block, row) == block.name = row.name
Continues(block, row) == block.sheet = row.sheet /\ block.name = row.name
AddToBlocks(blocks, row) ==
  IF blocks # <<>> /\ Continues(Last(blocks), row)
    THEN [blocks EXCEPT ![Len(blocks)].end = row.row]
    ELSE Append(blocks, Block(row.sheet, row.row, row.row, row.name))
Blocks(rows) == FoldLeft(AddToBlocks, <<>>, rows)

\* read_reconciliation_target, up to the cells of the rows.
ReadRows(book, roles, stage, boundaries, rows) ==
  CASE boundaries = <<>> -> Failure("STAGE_EMPTY")
    [] \E s \in DOMAIN boundaries : book[s].measure # "found" -> Failure("MEASURE")
    [] OTHER -> [ok |-> TRUE, stage |-> stage, columns |-> roles.columns, boundaries |-> boundaries, rows |-> rows,
                 blocks |-> Blocks(rows)]
ReadStage(book, roles, choice) ==
  IF ~choice.ok THEN choice
  ELSE ReadRows(book, roles, choice.stage, Boundaries(book, roles, choice.stage), TargetRows(book, roles, choice.stage))
ReadWith(book, roles, requested) ==
  IF ~roles.ok THEN roles ELSE ReadStage(book, roles, Resolved(Stages(book, roles), requested))
Read(book, requested) == ReadWith(book, Roles(book), requested)

-----------------------------------------------------------------------------

(* Reading the report once for every stage that is offered gives each row   *)
(* with a position, a name and a unit below an index and a stage exactly    *)
(* once, and gives no stage without rows (reconciliation_target.py:394      *)
(* _valid_stages and :1057 _rows_for_pairs scan on their own).              *)
Taken(read) == {<<r.sheet, r.row>> : r \in Range(read.rows)}
ReadOnceEach(whole, reads) ==
  /\ \A stage \in DOMAIN reads : reads[stage].ok /\ reads[stage].rows # <<>>
  /\ \A x \in whole : Cardinality({stage \in DOMAIN reads : x \in Taken(reads[stage])}) = 1
OneStageEach(book, roles) ==
  roles.ok /\ (\A s \in roles.sheets : book[s].measure = "found") =>
    ReadOnceEach(UNION {{s} \X Details(book[s], roles.columns, None) : s \in roles.sheets},
                 [stage \in ValidStages(book, roles) |-> ReadWith(book, roles, stage)])
EveryRowHasOneStage(book) == OneStageEach(book, Roles(book))

(* The header of a sheet, that the pair of measures is looked for in, ends  *)
(* above the first row of any stage, also when the stage that is read       *)
(* begins further down (reconciliation_target.py:995 _physical_detail_rows).*)
HeaderHoldsNoRows(book, read) ==
  read.ok => \A s \in DOMAIN read.boundaries : \A stage \in ValidStages(book, Roles(book)) :
                   \A row \in Details(book[s], read.columns, stage) : row >= read.boundaries[s]

(* Every row lies in one block of its own sheet, and the blocks of a sheet  *)
(* do not overlap (reconciliation_target.py:1173 _object_blocks).           *)
BlocksHoldTheRows(read) ==
  LET holds(block, x) == block.sheet = x.sheet /\ block.start <= x.row /\ x.row <= block.end
  IN  read.ok => \A i \in DOMAIN read.rows :
                   /\ Cardinality({j \in DOMAIN read.blocks : holds(read.blocks[j], read.rows[i])}) = 1
                   /\ \E j \in DOMAIN read.blocks : holds(read.blocks[j], read.rows[i]) /\ read.blocks[j].name = read.rows[i].name

(* When the two columns were found by their contents and hold nothing but   *)
(* indices and stages, each of the stages they name has a row               *)
(* (reconciliation_target.py:572 _recover_content_roles).                   *)
Clean(sheet, columns) ==
  \A at \in DOMAIN sheet.cells :
    /\ at[2] = columns.index => at[1] \in Anchors(sheet, columns.index, "index")
    /\ at[2] = columns.stage => at[1] \in Anchors(sheet, columns.stage, "stage")
RecoveredStagesHaveRows(book) ==
  LET roles == Roles(book)
  IN  roles.ok /\ (\A s \in roles.sheets : Recoverable(book[s]) /\ Clean(book[s], roles.columns)) =>
        Stages(book, roles) = ValidStages(book, roles)

(* Not so in the code: without `Clean', a text or a formula below an anchor *)
(* ends its document for the reader though not for the recovery             *)
(* (reconciliation_target.py:901 _carried_role_values).                     *)
AllRecoveredStagesHaveRows(book) ==
  LET roles == Roles(book)
  IN  roles.ok /\ (\A s \in roles.sheets : Recoverable(book[s])) => Stages(book, roles) = ValidStages(book, roles)

(* Not so in the code: a block holds rows of its stage alone; it spans the  *)
(* rows of another stage between two of its own (:1173).                    *)
BlocksHoldNoOthers(book, read) ==
  read.ok => \A j \in DOMAIN read.blocks : \A row \in Details(book[read.blocks[j].sheet], read.columns, None) :
        row \in read.blocks[j].start..read.blocks[j].end =>
          \E i \in DOMAIN read.rows : read.rows[i].sheet = read.blocks[j].sheet /\ read.rows[i].row = row
=============================================================================
