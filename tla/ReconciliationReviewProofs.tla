--------------------- MODULE ReconciliationReviewProofs ---------------------
(***************************************************************************)
(* Theorems about ReconciliationReview, for every set of rows, groups,     *)
(* families and packages, every target and every bound.                    *)
(***************************************************************************)
EXTENDS ReconciliationReview, TLAPS

USE ConstantsOK DEF Verdict, Maybe

\* Every decision map, and what it resolves to, is typed.
LEMMA ResolvedTyped ==
  ASSUME NEW d \in Decided
  PROVE  /\ Resolved(d) \in [Group -> Maybe]
         /\ \A r \in Row : Shown(d, r) \in Maybe
<1>1. Resolved(d) \in [Group -> Maybe]
  BY DEF Resolved, Decided
<1> QED BY <1>1 DEF Shown, Decided

\* No decisions, and decisions taken from typed feedback, are typed.
LEMMA FeedbackTyped ==
  ASSUME feedback \in [Name -> Maybe]
  PROVE  Nothing \in Decided /\ FromFeedback \in Decided
<1>1. Nothing \in Decided
  BY DEF Nothing, Decided
<1>2. [g \in Group |-> LET v == feedback[GroupName[g]]
                       IN  IF v # None /\ Fits(v, RowsOf(g)) THEN v ELSE None] \in [Group -> Maybe]
  OBVIOUS
<1>3. [r \in Row |-> LET v == feedback[RowName[r]]
                     IN  IF v # None /\ Fits(v, {r}) THEN v ELSE None] \in [Row -> Maybe]
  OBVIOUS
<1> QED BY <1>1, <1>2, <1>3 DEF FromFeedback, Decided

\* Versions of typed decisions are typed.
LEMMA VersionTyped ==
  ASSUME NEW d \in Decided
  PROVE  Refreshed(d) \in Version /\ Unstamped \in Version
BY DEF Refreshed, Unstamped, Version

\* What a mutator does keeps the types, and the file keeps up with memory
\* unless its write failed.
LEMMA ChangeKeeps ==
  ASSUME TypeOK, FileKeepsUp, NEW d \in Decided, NEW hand \in SUBSET (Group \cup Row),
         Change(d, hand)
  PROVE  TypeOK' /\ FileKeepsUp'
<1>1. Refreshed(d) \in Version
  BY VersionTyped
<1>2. /\ saved' \in Saved \cup {None} /\ faults' \in 0..MaxFaults
      /\ faults' = 0 => saved' = [decided |-> d, version |-> Refreshed(d)]
  <2>1. CASE saved' = [decided |-> d, version |-> Refreshed(d)] /\ UNCHANGED faults
    BY <1>1, <2>1 DEF TypeOK, Saved
  <2>2. CASE faults < MaxFaults /\ faults' = faults + 1 /\ UNCHANGED saved
    BY <2>2 DEF TypeOK
  <2> QED BY <2>1, <2>2 DEF Change, Autosave
<1>3. edits' \in 0..MaxEdits
  BY DEF Change, TypeOK
<1>4. TypeOK'
  BY <1>1, <1>2, <1>3 DEF Change, TypeOK
<1>5. Refreshed(d)' = Refreshed(d') /\ d' = d
  OBVIOUS
<1>6. FileKeepsUp'
  <2> SUFFICES ASSUME faults' = 0
               PROVE  /\ saved' \in Saved /\ saved'.decided = decided'
                      /\ saved'.version = Refreshed(decided')
    BY DEF FileKeepsUp, Refreshed, Stamped
  <2>1. saved' = [decided |-> d, version |-> Refreshed(d)]
    BY <1>2
  <2> QED BY <1>1, <2>1 DEF Change, Saved
<1> QED BY <1>4, <1>6

\* A decision on one package, family, group or row gives typed decisions.
LEMMA PutTyped ==
  ASSUME decided \in Decided, NEW v \in Maybe
  PROVE  /\ \A p \in Package : [decided EXCEPT !.packages[p] = v] \in Decided
         /\ \A f \in Family : [decided EXCEPT !.families[f] = v] \in Decided
         /\ \A g \in Group : [decided EXCEPT !.groups[g] = v] \in Decided
         /\ \A r \in Row : [decided EXCEPT !.rows[r] = v] \in Decided
BY DEF Decided

\* So does a mass acceptance.
LEMMA MassTyped ==
  ASSUME decided \in Decided, NEW P \in SUBSET Safe
  PROVE  [decided EXCEPT !.packages =
            [p \in Package |-> IF p \in P THEN Proposed[p] ELSE @[p]]] \in Decided
<1>1. [p \in Package |-> IF p \in P THEN Proposed[p] ELSE decided.packages[p]] \in [Package -> Maybe]
  BY DEF Decided
<1> QED BY <1>1 DEF Decided

\* A restart reads back a typed review.
LEMMA ReopenedTyped ==
  ASSUME TypeOK
  PROVE  /\ Reopened \in Decided
         /\ Restorable => saved \in Saved /\ saved.decided \in Decided /\ saved.version \in Version
<1>1. ASSUME Restorable
      PROVE  saved \in Saved /\ saved.decided \in Decided /\ saved.version \in Version
  BY <1>1 DEF TypeOK, Restorable, Saved
<1> QED BY <1>1, FeedbackTyped DEF Reopened, TypeOK

\* What the file holds while it keeps up is what a restart shows.
LEMMA ReopenedAsDecided ==
  ASSUME TypeOK, FileKeepsUp, phase = "review", faults = 0
  PROVE  Reopened = decided
<1>1. CASE saved \in Saved /\ saved.decided = decided /\ saved.version = Refreshed(decided)
  <2>1. Restorable
    BY <1>1, NoneOK DEF Restorable, Refreshed
  <2> QED BY <1>1, <2>1 DEF Reopened
<1>2. CASE saved = None /\ decided = FromFeedback
  BY <1>2 DEF Reopened, Restorable
<1> QED BY <1>1, <1>2 DEF FileKeepsUp

\* Every step of the review keeps the types and the file up to date.
LEMMA ReviewStep ==
  ASSUME TypeOK, FileKeepsUp, [Next]_vars
  PROVE  TypeOK' /\ FileKeepsUp'
<1>0. decided \in Decided
  BY DEF TypeOK
<1>1. ASSUME NEW v \in Verdict, NEW p \in Package, PutPackage(p, v)
      PROVE  TypeOK' /\ FileKeepsUp'
  <2> DEFINE d == [decided EXCEPT !.packages[p] = v]
  <2>1. d \in Decided
    BY <1>0, PutTyped
  <2>2. Change(d, {})
    BY <1>1 DEF PutPackage
  <2> HIDE DEF d
  <2> QED BY <2>1, <2>2, ChangeKeeps
<1>2. ASSUME NEW v \in Verdict, NEW f \in Family, PutFamily(f, v)
      PROVE  TypeOK' /\ FileKeepsUp'
  <2> DEFINE d == [decided EXCEPT !.families[f] = v]
  <2>1. d \in Decided
    BY <1>0, PutTyped
  <2>2. Change(d, {})
    BY <1>2 DEF PutFamily
  <2> HIDE DEF d
  <2> QED BY <2>1, <2>2, ChangeKeeps
<1>3. ASSUME NEW v \in Verdict, NEW g \in Group, PutGroup(g, v)
      PROVE  TypeOK' /\ FileKeepsUp'
  <2> DEFINE d == [decided EXCEPT !.groups[g] = v]
  <2>1. d \in Decided
    BY <1>0, PutTyped
  <2>2. Change(d, {g})
    BY <1>3 DEF PutGroup
  <2> HIDE DEF d
  <2> QED BY <2>1, <2>2, ChangeKeeps
<1>4. ASSUME NEW v \in Verdict, NEW r \in Row, PutRow(r, v)
      PROVE  TypeOK' /\ FileKeepsUp'
  <2> DEFINE d == [decided EXCEPT !.rows[r] = v]
  <2>1. d \in Decided
    BY <1>0, PutTyped
  <2>2. Change(d, {r})
    BY <1>4 DEF PutRow
  <2> HIDE DEF d
  <2> QED BY <2>1, <2>2, ChangeKeeps
<1>5. ASSUME NEW r \in Row, DeleteRow(r)
      PROVE  TypeOK' /\ FileKeepsUp'
  <2> DEFINE d == [decided EXCEPT !.rows[r] = None]
  <2>1. d \in Decided
    BY <1>0, PutTyped
  <2>2. Change(d, {})
    BY <1>5 DEF DeleteRow
  <2> HIDE DEF d
  <2> QED BY <2>1, <2>2, ChangeKeeps
<1>6. ASSUME NEW P \in SUBSET Package, AcceptSafePackages(P)
      PROVE  TypeOK' /\ FileKeepsUp'
  <2>1. P \in SUBSET Safe
    BY <1>6 DEF AcceptSafePackages
  <2> DEFINE d == [decided EXCEPT !.packages =
                     [p \in Package |-> IF p \in P THEN Proposed[p] ELSE @[p]]]
  <2>2. d \in Decided
    BY <1>0, <2>1, MassTyped
  <2>3. Change(d, {})
    BY <1>6 DEF AcceptSafePackages
  <2> HIDE DEF d
  <2> QED BY <2>2, <2>3, ChangeKeeps
<1>7. CASE Undo
  <2>1. undo \in Decided
    BY <1>7 DEF Undo, TypeOK
  <2>2. Refreshed(undo) \in Version
    BY <2>1, VersionTyped
  <2>3. /\ saved' \in Saved \cup {None} /\ faults' \in 0..MaxFaults
        /\ faults' = 0 => saved' = [decided |-> undo, version |-> Refreshed(undo)]
    <3>1. CASE saved' = [decided |-> undo, version |-> Refreshed(undo)] /\ UNCHANGED faults
      BY <2>1, <2>2, <3>1 DEF TypeOK, Saved
    <3>2. CASE faults < MaxFaults /\ faults' = faults + 1 /\ UNCHANGED saved
      BY <3>2 DEF TypeOK
    <3> QED BY <1>7, <3>1, <3>2 DEF Undo, Autosave
  <2>4. TypeOK'
    BY <1>7, <2>1, <2>2, <2>3 DEF Undo, TypeOK
  <2>5. FileKeepsUp'
    <3> SUFFICES ASSUME faults' = 0
                 PROVE  /\ saved' \in Saved /\ saved'.decided = decided'
                        /\ saved'.version = Refreshed(decided')
      BY DEF FileKeepsUp, Refreshed, Stamped
    <3> QED BY <1>7, <2>1, <2>2, <2>3 DEF Undo, Saved
  <2> QED BY <2>4, <2>5
<1>8. CASE Restart
  <2>1. TypeOK'
    BY <1>8, ReopenedTyped, VersionTyped, <1>0 DEF Restart, TypeOK
  <2>2. FileKeepsUp'
    <3> SUFFICES ASSUME faults = 0, phase = "review"
                 PROVE  FileKeepsUp'
      BY <1>8 DEF Restart, FileKeepsUp
    <3>1. decided' = decided
      BY <1>8, ReopenedAsDecided DEF Restart
    <3> QED BY <1>8, <3>1 DEF Restart, FileKeepsUp, Refreshed, Stamped, FromFeedback
  <2> QED BY <2>1, <2>2
<1>9. CASE ApplyReview
  <2>1. \A r \in Row : Shown(decided, r) \in Verdict
    <3> SUFFICES ASSUME NEW r \in Row
                 PROVE  Shown(decided, r) \in Verdict
      OBVIOUS
    <3>1. Shown(decided, r) # None
      BY <1>9 DEF ApplyReview, Unresolved, Shown
    <3> QED BY <1>0, <3>1, ResolvedTyped
  <2>2. TypeOK'
    BY <1>9, <2>1 DEF ApplyReview, TypeOK
  <2>3. FileKeepsUp'
    BY <1>9 DEF ApplyReview, FileKeepsUp
  <2> QED BY <2>2, <2>3
<1>10. CASE NextReview
  <2>1. FromFeedback \in Decided
    BY FeedbackTyped DEF TypeOK
  <2>2. TypeOK'
    <3>1. applied' \in [Row -> IF phase' = "applied" THEN Verdict ELSE Maybe]
      BY <1>10 DEF NextReview, TypeOK
    <3>2. reviews' \in 0..MaxReviews
      BY <1>10 DEF NextReview, TypeOK
    <3> QED BY <1>0, <1>10, <2>1, <3>1, <3>2, VersionTyped DEF NextReview, TypeOK
  <2>3. FileKeepsUp'
    BY <1>10 DEF NextReview, FileKeepsUp, FromFeedback
  <2> QED BY <2>2, <2>3
<1>11. CASE UNCHANGED vars
  <2>1. TypeOK'
    BY <1>11 DEF vars, TypeOK
  <2>2. FileKeepsUp'
    BY <1>11 DEF vars, FileKeepsUp, Refreshed, Stamped, FromFeedback
  <2> QED BY <2>1, <2>2
<1> QED BY <1>1, <1>2, <1>3, <1>4, <1>5, <1>6, <1>7, <1>8, <1>9, <1>10, <1>11 DEF Next

\* The first review has no decision, no feedback and no file.
LEMMA ReviewInit ==
  ASSUME Init
  PROVE  TypeOK /\ FileKeepsUp
<1>1. Nothing \in Decided /\ FromFeedback \in Decided
  BY FeedbackTyped DEF Init
<1>2. TypeOK
  BY <1>1, VersionTyped DEF Init, TypeOK
<1>3. FromFeedback = Nothing
  <2>1. \A n \in Name : feedback[n] = None
    BY DEF Init
  <2> DEFINE G == [g \in Group |-> LET v == feedback[GroupName[g]]
                                   IN  IF v # None /\ Fits(v, RowsOf(g)) THEN v ELSE None]
             R == [r \in Row |-> LET v == feedback[RowName[r]]
                                 IN  IF v # None /\ Fits(v, {r}) THEN v ELSE None]
  <2>2. G = [g \in Group |-> None] /\ R = [r \in Row |-> None]
    BY <2>1
  <2>3. FromFeedback = [Nothing EXCEPT !.groups = G, !.rows = R]
    BY DEF FromFeedback
  <2> HIDE DEF G, R
  <2> QED BY <2>2, <2>3 DEF Nothing
<1> QED BY <1>2, <1>3 DEF Init, FileKeepsUp

\* In every reachable state each variable of the review has its type, and
\* the autosave file keeps up with the decisions unless a write failed.
THEOREM ReviewSound == Spec => [](TypeOK /\ FileKeepsUp)
BY ReviewInit, ReviewStep, PTL DEF Spec

\* While no write has failed, a restart of the service shows the operator every
\* decision made, whatever was edited and undone before it.
THEOREM RestartsKeepDecisions == Spec => []RestartKeepsDecisions
<1>1. TypeOK /\ FileKeepsUp => RestartKeepsDecisions
  BY ReopenedAsDecided DEF RestartKeepsDecisions
<1> QED BY <1>1, ReviewSound, PTL

\* The overrides that the calculation receives are exactly the accepted rows of
\* the page, in the categories of the page, for every reachable review.
THEOREM CalculationFollowsPage == Spec => []CalculatedAsShown
<1>1. ASSUME TypeOK PROVE CalculatedAsShown
  <2> DEFINE byGroup == {r \in Row : Resolved(decided)[GroupOf[r]] \in Category}
             byRow == {r \in Row : decided.rows[r] \in Category}
             withdrawn == {r \in Row : decided.rows[r] = Reject}
  <2>1. \A r \in Row : decided.rows[r] \in Maybe /\ Resolved(decided)[GroupOf[r]] \in Maybe
    BY <1>1, ResolvedTyped DEF TypeOK, Decided
  <2>2. Overrides(decided) = [r \in (byGroup \ withdrawn) \cup byRow |->
                                IF r \in byRow THEN decided.rows[r] ELSE Resolved(decided)[GroupOf[r]]]
    BY DEF Overrides
  <2>3. \A r \in Row : Shown(decided, r) \in Category <=> r \in (byGroup \ withdrawn) \cup byRow
    BY <2>1 DEF Shown
  <2>4. \A r \in (byGroup \ withdrawn) \cup byRow :
          Shown(decided, r) = IF r \in byRow THEN decided.rows[r] ELSE Resolved(decided)[GroupOf[r]]
    BY <2>1 DEF Shown
  <2> HIDE DEF byGroup, byRow, withdrawn
  <2>5. (byGroup \ withdrawn) \cup byRow \subseteq Row
    BY DEF byGroup, byRow
  <2> QED BY <2>2, <2>3, <2>4, <2>5 DEF CalculatedAsShown
<1> QED BY <1>1, ReviewSound, PTL

\* Accepting the safe packages at once changes no verdict that the page already
\* showed: it fills only rows that nobody had decided, at any level.
THEOREM MassAcceptanceFillsOnly == Spec => MassAcceptFillsOnly
<1>1. ASSUME TypeOK, NEW P \in SUBSET Package, AcceptSafePackages(P),
             NEW r \in Row, Shown(decided, r) # None
      PROVE  Shown(decided, r)' = Shown(decided, r)
  <2> DEFINE g == GroupOf[r]
             f == FamilyOf[g]
             p == PackageOf[f]
             d == [decided EXCEPT !.packages =
                     [q \in Package |-> IF q \in P THEN Proposed[q] ELSE @[q]]]
  <2>1. decided' = d /\ decided \in Decided /\ d \in Decided
    BY <1>1, MassTyped DEF AcceptSafePackages, Change, TypeOK
  <2>2. g \in Group /\ f \in Family /\ p \in Package
    OBVIOUS
  <2>3. /\ d.rows[r] = decided.rows[r] /\ d.groups[g] = decided.groups[g]
        /\ d.families[f] = decided.families[f]
        /\ p \notin P => d.packages[p] = decided.packages[p]
    BY <2>1, <2>2 DEF Decided
  <2>4. p \notin P
    <3> SUFFICES ASSUME p \in P PROVE FALSE
      OBVIOUS
    <3>1. ~Manual(p)
      BY <1>1 DEF AcceptSafePackages
    <3>2. f \in FamiliesOf(p) /\ g \in GroupsIn(p) /\ r \in RowsBelow(GroupsIn(p))
      BY <2>2 DEF FamiliesOf, GroupsIn, RowsBelow
    <3>3. /\ decided.packages[p] = None /\ decided.families[f] = None
          /\ decided.groups[g] = None /\ decided.rows[r] = None
      BY <3>1, <3>2 DEF Manual
    <3> QED BY <1>1, <2>2, <3>3 DEF Shown, Resolved
  <2>5. Resolved(d)[g] = Resolved(decided)[g]
    BY <2>2, <2>3, <2>4 DEF Resolved
  <2>6. Shown(d, r) = Shown(decided, r)
    BY <2>3, <2>5 DEF Shown
  <2> HIDE DEF d
  <2> QED BY <2>1, <2>6 DEF Shown, Resolved
<1>2. TypeOK /\ [Next]_vars =>
        [(\E P \in SUBSET Package : AcceptSafePackages(P)) =>
           \A r \in Row : Shown(decided, r) # None => Shown(decided, r)' = Shown(decided, r)]_vars
  BY <1>1
<1> QED BY <1>2, ReviewSound, PTL DEF Spec, MassAcceptFillsOnly
=============================================================================
