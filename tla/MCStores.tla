------------------------------- MODULE MCStores -------------------------------
(***************************************************************************)
(* The three stores the web application keeps beside its jobs, and the     *)
(* writers of reports, put side by side for TLC. They share no state: a    *)
(* behaviour runs one of them, and the others keep their initial values.   *)
(***************************************************************************)
EXTENDS CardReview, ActiveLearning, PatternRegistry, TargetWriting, TLC

CONSTANTS
  d1, d2, d3, j1, j2, r1, r2, accept, exclude,
  i1, i2, a1, a2,
  o1, o2, w1, w2,
  s1, s2, q1, q2, u, v

VARIABLE store  \* the one that this behaviour runs

-----------------------------------------------------------------------------
\* Two reviewers of one card, one of another; a run regroups the rows.
LOCAL PacketOf(rows, context) == [members |-> rows, context |-> context]
MCPages     == {{PacketOf({r1, r2}, 1)}, {PacketOf({r1}, 1), PacketOf({r2}, 2)}}
MCFirstPage == j1 :> {PacketOf({r1, r2}, 1)} @@ j2 :> {PacketOf({r1}, 1), PacketOf({r2}, 2)}
MCCardOf    == d1 :> j1 @@ d2 :> j1 @@ d3 :> j2

\* A rebuilt queue changes the members of one item and overrides the other.
LOCAL Open(whole) == [allowed |-> {"accept", "split"}, overridden |-> FALSE, whole |-> whole]
MCFirstRevision == i1 :> Open({1, 2}) @@ i2 :> Open({1, 2})
MCRevisions == {MCFirstRevision,
  i1 :> Open({1, 3}) @@ i2 :> [allowed |-> {"accept"}, overridden |-> TRUE, whole |-> {1}]}
MCIntent == {[action |-> "accept", parts |-> {}], [action |-> "split", parts |-> {1, 2}]}

\* The two edges contradict each other.
MCFeedbackEdge == {[relation |-> r, ends |-> {1, 2}] : r \in {"must_link", "cannot_link"}}

\* Every sheet of a report has u under A, and an empty cell or a formula under B;
\* one report has both sheets in one part, another a formula without a value.
LOCAL At(letter) == <<letter, 1>>
LOCAL CellOf(value, shape) == [value |-> value, formula |-> FALSE, style |-> TRUE, numeric |-> TRUE, shape |-> shape]
LOCAL Computes(shape) == [CellOf(v, shape) EXCEPT !.formula = TRUE]
LOCAL Book(first, second, parts) ==
  [archive |-> "sound", parts |-> parts, xml |-> [p \in Part |-> "good"], chain |-> TRUE,
   cells |-> q1 :> (At("A") :> CellOf(u, "plain") @@ At("B") :> first)
          @@ q2 :> (At("A") :> CellOf(u, "plain") @@ At("B") :> second)]
LOCAL Apart  == s1 :> q1 @@ s2 :> q2
LOCAL Bare   == CellOf(None, "bare")
LOCAL Report == Book(Bare, Computes("plain"), Apart)
LOCAL Shared == Book(Bare, Bare, s1 :> q1 @@ s2 :> q1)
LOCAL Hollow == Book(Computes("hollow"), Bare, Apart)
MCWorkbooks  == {Report, Shared, Hollow, [Report EXCEPT !.archive = "none"]}

\* Orders for two cells of one row, for one cell of two rows on two sheets, and twice
\* for one cell; they are refused when writing is not allowed, when the target is
\* merged or a formula, when a place is asked for twice or bound by both sheets, or
\* when the formulas cannot be computed.
LOCAL SeenIn(letter) == [place |-> At(letter), value |-> IF letter = "A" THEN u ELSE None, formula |-> FALSE]
LOCAL RowOn(sheet, letters) ==
  [writable |-> TRUE, sheet |-> sheet, number |-> 1,
   cells |-> [column \in Column |-> IF column \in DOMAIN letters THEN SeenIn(letters[column]) ELSE None]]
LOCAL Calculated(n, target, quantity, cost) ==
  [id |-> n, row |-> n, usable |-> TRUE, target |-> target, amount |-> "quantity" :> quantity @@ "cost" :> cost]
LOCAL Bindings == {[column |-> "quantity", letter |-> "A", sheet |-> s1], [column |-> "cost", letter |-> "B", sheet |-> s1]}
LOCAL OrderOf(book, merged, calculations) ==
  [allowed |-> TRUE, output |-> "report", calculations |-> calculations,
   schema |-> [usable |-> TRUE, read |-> book, merged |-> [s \in Worksheet |-> merged], bindings |-> Bindings]]
LOCAL OneRow == <<Calculated(1, RowOn(s1, "quantity" :> "A" @@ "cost" :> "B"), v, u)>>
LOCAL TwoRows(sheet) ==
  <<Calculated(1, RowOn(s1, "quantity" :> "A"), v, None), Calculated(2, RowOn(sheet, "quantity" :> "A"), u, None)>>
MCOrder == {OrderOf(book, {}, OneRow) : book \in {Report, Shared, Hollow}}
      \cup {[OrderOf(Report, {}, OneRow) EXCEPT !.allowed = FALSE], OrderOf(Shared, {At("B")}, OneRow)}
      \cup {OrderOf(Report, {}, TwoRows(s1)), OrderOf(Shared, {}, TwoRows(s2))}
      \cup {[OrderOf(Report, {}, TwoRows(s2)) EXCEPT !.schema.bindings = @ \cup {[column |-> "quantity", letter |-> "A", sheet |-> s2]}]}

\* Reviewers of one card, operators and writers run the same program, and
\* only one store moves: all pairs change places together.
LOCAL With(p, x, y) == IF p[d1] = d1 THEN x :> x @@ y :> y ELSE x :> y @@ y :> x
Symmetry == {p @@ With(p, o1, o2) @@ With(p, w1, w2) : p \in Permutations({d1, d2})}

-----------------------------------------------------------------------------
Init == /\ store \in {"cards", "learning", "patterns", "writer"}
        /\ ReviewInit /\ LearningInit /\ RegistryInit /\ WritingInit
        /\ store # "writer" => source.package = Report

CardsMove     == /\ store = "cards" /\ ReviewNext
                 /\ UNCHANGED <<store, learningVars, registryVars, writingVars>>
LearningMoves == /\ store = "learning" /\ LearningNext
                 /\ UNCHANGED <<store, reviewVars, registryVars, writingVars>>
PatternsMove  == /\ store = "patterns" /\ RegistryNext
                 /\ UNCHANGED <<store, reviewVars, learningVars, writingVars>>
WritersMove   == /\ store = "writer" /\ WritingNext
                 /\ UNCHANGED <<store, reviewVars, learningVars, registryVars>>

Next == CardsMove \/ LearningMoves \/ PatternsMove \/ WritersMove
Spec == Init /\ [][Next]_<<store, reviewVars, learningVars, registryVars, writingVars>>
=============================================================================
