---------------------------- MODULE TargetWriting ----------------------------
(***************************************************************************)
(* write_target_report: the calculated values are written into a private   *)
(* copy of the report, formulas are replaced by their values, and the copy *)
(* is linked under an output name, which it never takes from another file. *)
(* Each writer is a process of its own; beside them somebody edits the     *)
(* report, and puts files under the output names or takes them away.       *)
(*                                                                         *)
(* A package is its worksheet parts: what the sheets of the workbook name, *)
(* and per part and place the cell the scan of its XML finds.  A value is  *)
(* a member of a set, formatted the one way the code does.  The private    *)
(* files of a writer (the copy of the source, the temporary package) are   *)
(* known to nobody else, and their removal is taken to succeed.            *)
(***************************************************************************)
EXTENDS Naturals, Sequences

CONSTANTS
  Writer, Output,     \* processes, and the names they may write to
  Worksheet, Part,    \* names of sheets, and of worksheet parts
  Letter, Number,     \* of columns and rows
  Column, Value,      \* logical columns that are written, and decimal values
  Workbooks,          \* the packages the source may hold
  Order,              \* what a writer may be asked for
  MaxEdits, MaxFaults, MaxCrashes, MaxMeddles,
  None, Infinite, Somebody   \* nothing, a decimal that is not finite, and who is no writer

VARIABLES
  source,   \* the report: its package, and a stamp that every edit moves on
  output,   \* the file under each name
  writer,   \* the local state of each process
  used_up   \* how much of each bound is used

writingVars == <<source, output, writer, used_up>>

-----------------------------------------------------------------------------
Place == Letter \X Number

\* A cell is plain (a value node), bare (an empty element), hollow (neither),
\* nested (a value node with elements inside) or broken (its reference, its formula
\* or its value stands twice).  It is numeric when its type is absent or "n".
Cell == [value : Value \cup {None}, formula : BOOLEAN, style : BOOLEAN, numeric : BOOLEAN,
         shape : {"plain", "bare", "hollow", "nested", "broken"}]

\* The archive is sound, damaged inside, or no archive; the XML of a part is good,
\* bad, or has a formula in a cell without a reference.
Package == [archive : {"sound", "damaged", "none"}, parts : [Worksheet -> Part \cup {None}],
            xml : [Part -> {"good", "stray", "bad"}], cells : [Part -> [Place -> Cell \cup {None}]],
            chain : BOOLEAN]

\* What the schema of the report saw of a row, a calculation for it, and the bindings
\* of columns to letters, one from each sheet they were read from.
Seen == [place : Place, value : Value \cup {None}, formula : BOOLEAN]
TargetRow == [writable : BOOLEAN, sheet : Worksheet, number : Number, cells : [Column -> Seen \cup {None}]]
Calculation == [id : Nat, row : Nat, usable : BOOLEAN, target : TargetRow,
                amount : [Column -> Value \cup {None, Infinite}]]
Schema == [usable : BOOLEAN, read : Package, merged : [Worksheet -> (SUBSET Place) \cup {None}],
           bindings : SUBSET [column : Column, letter : Letter, sheet : Worksheet]]

WritingConstants ==
  /\ Workbooks \subseteq Package
  /\ \A o \in Order : /\ o.allowed \in BOOLEAN /\ o.schema \in Schema /\ o.output \in Output
                      /\ o.calculations \in Seq(Calculation)
  /\ {MaxEdits, MaxFaults, MaxCrashes, MaxMeddles} \subseteq Nat
  /\ None \notin Cell \cup Part \cup Seen \cup Value /\ Infinite \notin Value
  /\ Somebody \notin Writer /\ None \notin [by : Writer \cup {Somebody}, package : Package \cup {None}]
ASSUME WritingAssumption == WritingConstants

-----------------------------------------------------------------------------
(* The plan of an order: which cells get which value.                       *)

Calculations(order) == DOMAIN order.calculations
TargetOf(order, x) == order.calculations[x[1]].target
SeenAt(order, x)   == TargetOf(order, x).cells[x[2]]
Amount(order, x)   == order.calculations[x[1]].amount[x[2]]
BoundAt(order, x)  == {b \in order.schema.bindings : b.column = x[2]}

\* Every value of a bound column; the others are skipped.
Asked(order) == {x \in Calculations(order) \X Column : Amount(order, x) # None /\ BoundAt(order, x) # {}}

CalculationsStand(order) ==
  /\ Calculations(order) # {}
  /\ \A i, j \in Calculations(order) :
       LET c == order.calculations[i]  d == order.calculations[j]
       IN  c.usable /\ (c.id = d.id \/ c.row = d.row => i = j)

RowsStand(order, package) ==
  \A i \in Calculations(order) :
    LET c == order.calculations[i]  row == c.target
    IN  /\ row.writable /\ order.schema.merged[row.sheet] # None
        /\ package.parts[row.sheet] # None /\ package.xml[package.parts[row.sheet]] # "bad"
        /\ \A column \in Column : c.amount[column] # Infinite

\* One binding, of whatever sheet, names the column of the cell in this row.
BindingStands(order, x) ==
  LET names(b) == SeenAt(order, x) # None
                  /\ SeenAt(order, x).place = <<b.letter, TargetOf(order, x).number>>
  IN  \E b \in BoundAt(order, x) : {c \in BoundAt(order, x) : names(c)} = {b}

CellIn(order, package, x) == package.cells[package.parts[TargetOf(order, x).sheet]][SeenAt(order, x).place]

\* Bug: the merged ranges of the sheet are not asked for.
CellStandsMerged(order, package, x) ==
  LET cell == CellIn(order, package, x)  seen == SeenAt(order, x)
  IN  /\ cell # None /\ cell.shape \notin {"nested", "broken"}
      /\ cell.style /\ cell.numeric /\ ~cell.formula /\ ~seen.formula
      /\ cell.value = seen.value

\* The cell is there as the schema saw it: alone, styled, numeric and no formula.
CellStands(order, package, x) ==
  LET cell == CellIn(order, package, x)  seen == SeenAt(order, x)
  IN  /\ seen.place \notin order.schema.merged[TargetOf(order, x).sheet]
      /\ cell # None /\ cell.shape \notin {"nested", "broken"}
      /\ cell.style /\ cell.numeric /\ ~cell.formula /\ ~seen.formula
      /\ cell.value = seen.value

PlanStands(order, package) ==
  /\ CalculationsStand(order) /\ RowsStand(order, package) /\ Asked(order) # {}
  /\ \A x \in Asked(order) : BindingStands(order, x) /\ CellStands(order, package, x)
  /\ \A x, y \in Asked(order) :
       TargetOf(order, x).sheet = TargetOf(order, y).sheet /\ SeenAt(order, x).place = SeenAt(order, y).place => x = y

-----------------------------------------------------------------------------
(* The package that is written.                                             *)

SheetParts(package) == {package.parts[s] : s \in Worksheet} \ {None}

\* The values that go to one place of one part, which sheets may share.
Written(order, package, part, place) ==
  {x \in Asked(order) : package.parts[TargetOf(order, x).sheet] = part /\ SeenAt(order, x).place = place}

\* Bug: two values for one place of a part: the last one wins.
ReplaceStandsTwice(order, package) == \A x \in Asked(order) : CellIn(order, package, x).shape # "hollow"

ReplaceStands(order, package) ==
  /\ \A part \in Part, place \in Place : \A x, y \in Written(order, package, part, place) : x = y
  /\ \A x \in Asked(order) : CellIn(order, package, x).shape # "hollow"

Filled(cell, value) == [cell EXCEPT !.value = value, !.shape = "plain"]

Replaced(order, package) ==
  [package EXCEPT !.chain = FALSE, !.cells = [part \in Part |-> [place \in Place |->
     LET asked == Written(order, package, part, place)
     IN  IF asked = {} THEN package.cells[part][place]
         ELSE Filled(package.cells[part][place], Amount(order, CHOOSE x \in asked : TRUE))]]]

Formulas(package) ==
  {at \in SheetParts(package) \X Place :
     LET cell == package.cells[at[1]][at[2]] IN cell # None /\ cell.formula}
HasFormulas(package) ==
  Formulas(package) # {} \/ \E part \in SheetParts(package) : package.xml[part] = "stray"

\* Every formula has a reference and a value to put in its place, and no cell of a
\* worksheet stands twice.
Recalculable(package) ==
  /\ \A part \in SheetParts(package) :
       /\ package.xml[part] = "good"
       /\ \A place \in Place :
            package.cells[part][place] = None \/ package.cells[part][place].shape # "broken"
  /\ \A at \in Formulas(package) : package.cells[at[1]][at[2]].shape = "plain"

Materialized(package, computed) ==
  [package EXCEPT !.chain = FALSE, !.cells = [part \in Part |-> [place \in Place |->
     IF <<part, place>> \in Formulas(package)
     THEN [Filled(package.cells[part][place], computed[<<part, place>>]) EXCEPT !.formula = FALSE, !.numeric = TRUE]
     ELSE package.cells[part][place]]]]

-----------------------------------------------------------------------------
(* The writers.                                                             *)

Idle == [pc |-> "idle", order |-> None, copy |-> None, temp |-> None, private |-> FALSE, raced |-> FALSE]

WritingInit ==
  /\ source \in [package : Workbooks, stamp : {0}]
  /\ output = [o \in Output |-> None]
  /\ writer = [w \in Writer |-> Idle]
  /\ used_up = [faults |-> 0, crashes |-> 0, meddles |-> 0]

Steps == {"plan", "write", "recalculate", "compare", "link", "linked", "verify", "look", "remove"}
Ended == {"skipped", "failed", "stranded", "written", "dead"}

WriterState == [pc : Steps \cup Ended \cup {"idle"}, order : Order \cup {None},
                copy : [package : Workbooks, stamp : Nat] \cup {None},
                temp : Package \cup {None}, private : BOOLEAN, raced : BOOLEAN]

WritingTypeOK ==
  /\ source \in [package : Workbooks, stamp : Nat]
  /\ output \in [Output -> [by : Writer \cup {Somebody}, package : Package \cup {None}] \cup {None}]
  /\ writer \in [Writer -> WriterState]
  /\ used_up \in [faults : Nat, crashes : Nat, meddles : Nat]

Name(w) == writer[w].order.output
Mine(w) == output[Name(w)] # None /\ output[Name(w)].by = w

Goes(w, pc)   == writer' = [writer EXCEPT ![w].pc = pc]
Builds(w, pc, package) == writer' = [writer EXCEPT ![w].pc = pc, ![w].temp = package]
\* Bug: only the temporary package is removed.
ClosedHalf(w, pc) == [writer[w] EXCEPT !.pc = pc, !.temp = None, !.raced = FALSE]
\* However a writer ends, its private files go.
Closed(w, pc) == [writer[w] EXCEPT !.pc = pc, !.temp = None, !.private = FALSE, !.raced = FALSE]
Ends(w, pc) == writer' = [writer EXCEPT ![w] = Closed(w, pc)]
\* History: those who have looked at a name do not see what is done to it since.
RacedAt(o) == [w \in Writer |-> [writer[w] EXCEPT !.raced = @ \/ (writer[w].pc = "remove" /\ Name(w) = o)]]

\* The arguments are validated and the source is copied; a source that changes
\* while it is read is noticed and the copy dropped, which is no step here.
BeginWriting(w, order) ==
  /\ writer[w].pc = "idle" /\ source.package.archive # "none"
  /\ writer' = [writer EXCEPT ![w] = [pc |-> "plan", order |-> order, copy |-> source, temp |-> None,
                                       private |-> TRUE, raced |-> FALSE]]
  /\ UNCHANGED <<source, output, used_up>>

\* Bug: the digest the schema was read with is not compared.
SchemaFitsAny(order, copy) == order.schema.usable
SchemaFits(order, copy) == order.schema.usable /\ order.schema.read = copy.package
Plannable(order, copy) ==
  SchemaFits(order, copy) /\ order.allowed /\ copy.package.archive = "sound" /\ PlanStands(order, copy.package)

SkipWriting(w) ==
  /\ writer[w].pc = "plan" /\ SchemaFits(writer[w].order, writer[w].copy) /\ ~writer[w].order.allowed
  /\ Ends(w, "skipped")
  /\ UNCHANGED <<source, output, used_up>>

PlanWriting(w) ==
  /\ writer[w].pc = "plan"
  /\ IF Plannable(writer[w].order, writer[w].copy) /\ output[Name(w)] = None
     THEN Goes(w, "write")
     ELSE ~(SchemaFits(writer[w].order, writer[w].copy) /\ ~writer[w].order.allowed) /\ Ends(w, "failed")
  /\ UNCHANGED <<source, output, used_up>>

\* The package is written and compared with the source, part by part.
WriteTemp(w) ==
  LET order == writer[w].order  package == writer[w].copy.package  temp == Replaced(order, package)
  IN  /\ writer[w].pc = "write"
      /\ IF ReplaceStands(order, package) /\ \A part \in SheetParts(package) : package.xml[part] # "bad"
         THEN Builds(w, IF HasFormulas(temp) THEN "recalculate" ELSE "compare", temp)
         ELSE Ends(w, "failed")
      /\ UNCHANGED <<source, output, used_up>>

\* LibreOffice computes the formulas of a copy, or it does not.
Recalculate(w) ==
  LET temp == writer[w].temp
  IN  /\ writer[w].pc = "recalculate"
      /\ \/ /\ Recalculable(temp)
            /\ \E computed \in [Formulas(temp) -> Value] : Builds(w, "compare", Materialized(temp, computed))
         \/ Ends(w, "failed")
      /\ UNCHANGED <<source, output, used_up>>

CompareSource(w) ==
  /\ writer[w].pc = "compare"
  /\ IF source = writer[w].copy THEN Goes(w, "link") ELSE Ends(w, "failed")
  /\ UNCHANGED <<source, output, used_up>>

\* Bug: the package is renamed to the name, over what is there.
LinkOutputOver(w) ==
  /\ writer[w].pc = "link"
  /\ output' = [output EXCEPT ![Name(w)] = [by |-> w, package |-> writer[w].temp]]
  /\ Goes(w, "linked")
  /\ UNCHANGED <<source, used_up>>

\* os.link answers FileExistsError for a name that is taken.
LinkOutput(w) ==
  /\ writer[w].pc = "link"
  /\ IF output[Name(w)] = None
     THEN /\ output' = [output EXCEPT ![Name(w)] = [by |-> w, package |-> writer[w].temp]]
          /\ Goes(w, "linked")
     ELSE Ends(w, "failed") /\ UNCHANGED output
  /\ UNCHANGED <<source, used_up>>

\* publish_no_clobber opens what it linked; another file there is left alone.
ConfirmLink(w) ==
  /\ writer[w].pc = "linked"
  /\ IF Mine(w) THEN Goes(w, "verify") ELSE Ends(w, "failed")
  /\ UNCHANGED <<source, output, used_up>>

\* Path, file and bytes are compared once more.
VerifyOutput(w) ==
  /\ writer[w].pc = "verify"
  /\ IF Mine(w) THEN Ends(w, "written") ELSE Goes(w, "look")
  /\ UNCHANGED <<source, output, used_up>>

\* Bug: whatever is there is taken for the writer's own.
LookAtOutputOnly(w) ==
  /\ writer[w].pc = "look"
  /\ IF output[Name(w)] # None THEN Goes(w, "remove") ELSE Ends(w, "failed")
  /\ UNCHANGED <<source, output, used_up>>

\* A failed publication looks whose file is there, and removes its own: two calls.
LookAtOutput(w) ==
  /\ writer[w].pc = "look"
  /\ IF Mine(w) THEN Goes(w, "remove") ELSE Ends(w, "failed")
  /\ UNCHANGED <<source, output, used_up>>

RemoveOutput(w) ==
  /\ writer[w].pc = "remove"
  /\ output' = [output EXCEPT ![Name(w)] = None]
  /\ writer' = [RacedAt(Name(w)) EXCEPT ![w] = Closed(w, "failed")]
  /\ UNCHANGED <<source, used_up>>

\* Bug: what raises after the link leaves what was published.
WritingFailsAfter(w) ==
  /\ used_up.faults < MaxFaults
  /\ \/ writer[w].pc \in {"plan", "write", "recalculate", "compare", "link", "linked", "verify"} /\ Ends(w, "failed")
     \/ writer[w].pc \in {"look", "remove"} /\ Ends(w, "stranded")
  /\ used_up' = [used_up EXCEPT !.faults = @ + 1]
  /\ UNCHANGED <<source, output>>

\* A call of the operating system raises.  Before the link nothing is published;
\* after it the writer removes what it published; when that raises too, its output
\* stays beside the error it answers.
WritingFails(w) ==
  /\ used_up.faults < MaxFaults
  /\ \/ writer[w].pc \in {"plan", "write", "recalculate", "compare", "link"} /\ Ends(w, "failed")
     \/ writer[w].pc \in {"linked", "verify"} /\ Goes(w, "look")
     \/ writer[w].pc \in {"look", "remove"} /\ Ends(w, "stranded")
  /\ used_up' = [used_up EXCEPT !.faults = @ + 1]
  /\ UNCHANGED <<source, output>>

\* A killed writer leaves its private files, and its output if it was linked.
WriterDies(w) ==
  /\ writer[w].pc \in Steps /\ used_up.crashes < MaxCrashes
  /\ Goes(w, "dead")
  /\ used_up' = [used_up EXCEPT !.crashes = @ + 1]
  /\ UNCHANGED <<source, output>>

EditSource ==
  /\ source.stamp < MaxEdits
  /\ \E package \in Workbooks : source' = [package |-> package, stamp |-> source.stamp + 1]
  /\ UNCHANGED <<output, writer, used_up>>

\* Somebody puts a file under an output name, or takes one away.
Meddle(o) ==
  /\ used_up.meddles < MaxMeddles
  /\ \E file \in {None, [by |-> Somebody, package |-> None]} : output' = [output EXCEPT ![o] = file]
  /\ writer' = RacedAt(o)
  /\ used_up' = [used_up EXCEPT !.meddles = @ + 1]
  /\ UNCHANGED source

WriterMoves(w) ==
  \/ \E order \in Order : BeginWriting(w, order)
  \/ SkipWriting(w) \/ PlanWriting(w) \/ WriteTemp(w) \/ Recalculate(w) \/ CompareSource(w)
  \/ LinkOutput(w) \/ ConfirmLink(w) \/ VerifyOutput(w) \/ LookAtOutput(w) \/ RemoveOutput(w)
  \/ WritingFails(w) \/ WriterDies(w)

WritingNext == (\E w \in Writer : WriterMoves(w)) \/ EditSource \/ (\E o \in Output : Meddle(o))
WritingSpec == WritingInit /\ [][WritingNext]_writingVars

-----------------------------------------------------------------------------
(* What a report that was written is.                                       *)

\* A file carries an order when it differs from the package the schema of the order
\* was read from exactly in this: every calculated value of a bound column stands
\* in its cell, which was styled, numeric, not merged and no formula; formulas of
\* the worksheets are values; and the calculation chain is gone.
Carries(file, order) ==
  LET old == order.schema.read
  IN  /\ file.parts = old.parts /\ ~file.chain
      /\ \A part \in Part, place \in Place :
           LET was == old.cells[part][place]  is == file.cells[part][place]
               asked == Written(order, old, part, place)
           IN  /\ asked = {} => \/ is = was
                                \/ part \in SheetParts(old) /\ was # None /\ was.formula /\ is.style = was.style
               /\ part \in SheetParts(old) => is = None \/ ~is.formula
               /\ \A x \in asked :
                    /\ was # None /\ was.style /\ was.numeric /\ ~was.formula
                    /\ place \notin order.schema.merged[TargetOf(order, x).sheet]
                    /\ is = Filled(was, Amount(order, x))

\* Whatever is under an output name and comes from a writer, be the writer dead or
\* its run failed, is the whole report its order asked for.
PublishedIsCalculated ==
  \A o \in Output : output[o] # None /\ output[o].by # Somebody =>
    LET order == writer[output[o].by].order IN order.output = o /\ order.allowed /\ Carries(output[o].package, order)

\* A writer that answers an error has left nothing, unless the removal raised.
NothingIsLeft == \A w \in Writer :
  /\ writer[w].pc \in {"skipped", "failed", "stranded", "written"} => ~writer[w].private
  /\ writer[w].pc \in {"skipped", "failed"} => \A o \in Output : output[o] = None \/ output[o].by # w

\* What was answered as written is there until somebody takes it away; so of two
\* writers to one name at most one has written.
WrittenStays == \A w \in Writer : writer[w].pc = "written" /\ used_up.meddles = 0 => Mine(w)

WritesStand == PublishedIsCalculated /\ NothingIsLeft /\ WrittenStays

\* No writer replaces a file or removes one that is not its own, except in the gap
\* between its look at the name and its removal.
OutputsAreSpared == [][\A o \in Output : output[o] # None /\ output'[o] # output[o] =>
  \/ used_up'.meddles # used_up.meddles
  \/ \E w \in Writer : /\ writer[w].pc = "remove" /\ Name(w) = o /\ output'[o] = None
                       /\ Mine(w) \/ writer[w].raced]_writingVars

\* There is no such gap.  The code does not satisfy it: the file is looked at and
\* removed in two calls (engine.py:595).
RemovesOnlyItsOwn == \A w \in Writer : ~writer[w].raced

\* An order whose rows are on two sheets with the same columns can be written.  The
\* code does not satisfy it: the bindings of all sheets are matched by their column
\* letter alone (engine.py:319), and two of them match.
SheetsShareColumns ==
  \A order \in Order, package \in Workbooks : \A x \in Asked(order) :
    (\E b \in BoundAt(order, x) : /\ b.sheet = TargetOf(order, x).sheet /\ SeenAt(order, x) # None
                                  /\ SeenAt(order, x).place = <<b.letter, TargetOf(order, x).number>>)
    => BindingStands(order, x)
=============================================================================
