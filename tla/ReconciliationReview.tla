------------------------ MODULE ReconciliationReview ------------------------
(***************************************************************************)
(* ReconciliationReviewState: the operator's decisions on one set of       *)
(* source rows, decided by package, family, group or single row, with one  *)
(* level of undo and an autosave; and the feedback through which the next  *)
(* review of the same rows starts from what was applied.                   *)
(*                                                                         *)
(* A client must send the version of the snapshot it looked at to decide a *)
(* group or a row; a stale one is refused and changes nothing, so only     *)
(* current ones are actions here.  A version digests all the decisions of  *)
(* the review, and is modelled by them.                                    *)
(***************************************************************************)
EXTENDS Naturals, FiniteSets

CONSTANTS
  Row, Group, Family, Package,
  GroupOf, FamilyOf, PackageOf,   \* functions: a row's group, a group's family, ...
  Name, RowName, GroupName,       \* normalized names; a group bears its base name
  Category, Reject, None,
  Allowed,                        \* the categories the target offers a row
  Safe, Proposed,                 \* packages that may be mass-accepted, and as what
  MaxEdits, MaxFaults, MaxReviews

ASSUME ConstantsOK ==
  /\ GroupOf \in [Row -> Group] /\ FamilyOf \in [Group -> Family]
  /\ PackageOf \in [Family -> Package]
  /\ RowName \in [Row -> Name] /\ GroupName \in [Group -> Name]
  /\ Allowed \in [Row -> SUBSET Category]
  /\ Reject \notin Category /\ None \notin Category \cup {Reject}
  /\ Safe \subseteq Package /\ Proposed \in [Safe -> Category]
  /\ {MaxEdits, MaxFaults, MaxReviews} \subseteq Nat

VARIABLES
  decided,    \* the four decision maps
  version,    \* of each group and row decision: the decisions it was stamped with
  undo,       \* the decisions one step back, or None
  saved,      \* the autosave file, or None
  feedback,   \* the latest verdict per name in the target's feedback
  phase,      \* "review" or "applied"
  byHand,     \* groups and rows the operator decided in this review (history)
  applied,    \* the verdict of each row in the last applied review (history)
  edits, faults, reviews

vars == <<decided, version, undo, saved, feedback, phase, byHand, applied,
          edits, faults, reviews>>

-----------------------------------------------------------------------------
Verdict  == Category \cup {Reject}
Maybe    == Verdict \cup {None}
Decided  == [packages : [Package -> Maybe], families : [Family -> Maybe],
             groups : [Group -> Maybe], rows : [Row -> Maybe]]
Nothing  == [packages |-> [p \in Package |-> None], families |-> [f \in Family |-> None],
             groups |-> [g \in Group |-> None], rows |-> [r \in Row |-> None]]

Version  == [Group \cup Row -> Decided \cup {None}]
Unstamped == [x \in Group \cup Row |-> None]
Saved    == [decided : Decided, version : Version]

\* No decisions and no autosave file are None.
ASSUME NoneOK == None \notin Decided \cup Saved

TypeOK ==
  /\ decided \in Decided
  /\ version \in Version
  /\ undo \in Decided \cup {None}
  /\ saved \in Saved \cup {None}
  /\ feedback \in [Name -> Maybe]
  /\ phase \in {"review", "applied"}
  /\ byHand \subseteq Group \cup Row
  /\ applied \in [Row -> IF phase = "applied" THEN Verdict ELSE Maybe]
  /\ edits \in 0..MaxEdits /\ faults \in 0..MaxFaults /\ reviews \in 0..MaxReviews

RowsOf(g)     == {r \in Row : GroupOf[r] = g}
GroupsOf(f)   == {g \in Group : FamilyOf[g] = f}
FamiliesOf(p) == {f \in Family : PackageOf[f] = p}
RowsBelow(G)  == {r \in Row : GroupOf[r] \in G}
GroupsIn(p)   == {g \in Group : PackageOf[FamilyOf[g]] = p}

\* validate_decision: rejecting always fits, a category must suit every member.
Fits(v, rows) == v = Reject \/ \A r \in rows : v \in Allowed[r]

-----------------------------------------------------------------------------
\* _resolved_group_decisions: package, then family over it, then group over both.
Resolved(d) ==
  [g \in Group |->
     CASE d.groups[g] # None             -> d.groups[g]
       [] d.groups[g] = None /\ d.families[FamilyOf[g]] # None
                                         -> d.families[FamilyOf[g]]
       [] OTHER                          -> d.packages[PackageOf[FamilyOf[g]]]]

\* unresolved_row_ids.
Unresolved(d) == {r \in Row : d.rows[r] = None /\ Resolved(d)[GroupOf[r]] = None}

\* What the page shows for a row.
Shown(d, r) == IF d.rows[r] # None THEN d.rows[r] ELSE Resolved(d)[GroupOf[r]]

\* Bug: group decisions are applied last and win over their rows.
OverridesGroupsLast(d) ==
  LET byGroup == {r \in Row : Resolved(d)[GroupOf[r]] \in Category}
      byRow   == {r \in Row : d.rows[r] \in Category}
  IN  [r \in byGroup \cup byRow |->
         IF r \in byGroup THEN Resolved(d)[GroupOf[r]] ELSE d.rows[r]]

\* apply_overrides, what the calculation receives: accepted rows only, group
\* decisions first, then a row decision replaces or withdraws its row.
Overrides(d) ==
  LET byGroup   == {r \in Row : Resolved(d)[GroupOf[r]] \in Category}
      byRow     == {r \in Row : d.rows[r] \in Category}
      withdrawn == {r \in Row : d.rows[r] = Reject}
  IN  [r \in (byGroup \ withdrawn) \cup byRow |->
         IF r \in byRow THEN d.rows[r] ELSE Resolved(d)[GroupOf[r]]]

\* _restore_feedback: the verdict of a name goes to the group of that name and
\* to every row of that name, where the target still offers it.
FromFeedback ==
  [Nothing EXCEPT
     !.groups = [g \in Group |->
        LET v == feedback[GroupName[g]]
        IN  IF v # None /\ Fits(v, RowsOf(g)) THEN v ELSE None],
     !.rows = [r \in Row |->
        LET v == feedback[RowName[r]]
        IN  IF v # None /\ Fits(v, {r}) THEN v ELSE None]]

\* The version of a group digests every decision of the review.
Stamped(x, d) == IF x \in Group THEN d.groups[x] # None ELSE d.rows[x] # None

\* restore: every version in the file must be the one its decisions give.
Restorable ==
  /\ saved # None
  /\ \A x \in Group \cup Row :
       Stamped(x, saved.decided) => saved.version[x] = saved.decided

\* An autosave that can be restored replaces everything.
Reopened == IF Restorable THEN saved.decided ELSE FromFeedback

\* _feedback_records, latest_feedback: group records come before row records,
\* and the last record of a name is the one that stays.
Remembered(n) ==
  LET rows   == {r \in Row : RowName[r] = n /\ decided.rows[r] # None}
      groups == {g \in Group : GroupName[g] = n /\ Resolved(decided)[g] # None}
  IN  IF rows # {} THEN {decided.rows[r] : r \in rows}
      ELSE IF groups # {} THEN {Resolved(decided)[g] : g \in groups}
      ELSE {feedback[n]}

-----------------------------------------------------------------------------
Init ==
  /\ decided = Nothing /\ version = Unstamped /\ undo = None /\ saved = None
  /\ feedback = [n \in Name |-> None]
  /\ phase = "review" /\ byHand = {} /\ applied = [r \in Row |-> None]
  /\ edits = 0 /\ faults = 0 /\ reviews = 0

\* Bug: only a decision that was not there before gets the new version.
RefreshedNew(d) ==
  [x \in Group \cup Row |->
     IF ~Stamped(x, d) THEN None ELSE IF version[x] = None THEN d ELSE version[x]]

\* _refresh_decision_versions: every group and row decision is stamped anew.
Refreshed(d) == [x \in Group \cup Row |-> IF Stamped(x, d) THEN d ELSE None]

\* _changed: the autosave may raise after memory has changed.
Autosave(d) ==
  \/ saved' = [decided |-> d, version |-> Refreshed(d)] /\ UNCHANGED faults
  \/ faults < MaxFaults /\ faults' = faults + 1 /\ UNCHANGED saved

\* What every mutator does once its decision is valid.
Change(d, hand) ==
  /\ phase = "review" /\ edits < MaxEdits
  /\ edits' = edits + 1
  /\ undo' = decided
  /\ decided' = d /\ version' = Refreshed(d)
  /\ Autosave(d)
  /\ byHand' = byHand \cup hand
  /\ UNCHANGED <<feedback, phase, applied, reviews>>

PutPackage(p, v) ==
  /\ Fits(v, RowsBelow(GroupsIn(p)))
  /\ Change([decided EXCEPT !.packages[p] = v], {})

PutFamily(f, v) ==
  /\ Fits(v, RowsBelow(GroupsOf(f)))
  /\ Change([decided EXCEPT !.families[f] = v], {})

PutGroup(g, v) ==
  /\ Fits(v, RowsOf(g))
  /\ Change([decided EXCEPT !.groups[g] = v], {g})

PutRow(r, v) ==
  /\ Fits(v, {r})
  /\ Change([decided EXCEPT !.rows[r] = v], {r})

DeleteRow(r) == Change([decided EXCEPT !.rows[r] = None], {})

\* Bug: an earlier decision on the package itself is not looked for.
ManualBelow(p) ==
  \/ \E f \in FamiliesOf(p) : decided.families[f] # None
  \/ \E g \in GroupsIn(p) : decided.groups[g] # None
  \/ \E r \in RowsBelow(GroupsIn(p)) : decided.rows[r] # None

\* _package_has_manual_decisions.
Manual(p) ==
  \/ decided.packages[p] # None
  \/ \E f \in FamiliesOf(p) : decided.families[f] # None
  \/ \E g \in GroupsIn(p) : decided.groups[g] # None
  \/ \E r \in RowsBelow(GroupsIn(p)) : decided.rows[r] # None

AcceptSafePackages(P) ==
  /\ P # {} /\ P \subseteq Safe
  /\ \A p \in P : ~Manual(p) /\ Fits(Proposed[p], RowsBelow(GroupsIn(p)))
  /\ Change([decided EXCEPT
       !.packages = [p \in Package |-> IF p \in P THEN Proposed[p] ELSE @[p]]], {})

Undo ==
  /\ phase = "review" /\ undo # None /\ edits < MaxEdits
  /\ edits' = edits + 1
  /\ decided' = undo /\ undo' = None /\ version' = Refreshed(undo)
  /\ Autosave(undo)
  /\ UNCHANGED <<feedback, phase, byHand, applied, reviews>>

\* The service restarts and builds the review again.
Restart ==
  /\ phase = "review"
  /\ decided' = Reopened /\ undo' = None
  /\ version' = IF Restorable THEN saved.version ELSE Unstamped
  /\ UNCHANGED <<saved, feedback, phase, byHand, applied, edits, faults, reviews>>

\* The review is applied and its decisions are remembered by name.
ApplyReview ==
  /\ phase = "review" /\ Unresolved(decided) = {}
  /\ phase' = "applied"
  /\ applied' = [r \in Row |-> Shown(decided, r)]
  /\ feedback' \in {f \in [Name -> Maybe] : \A n \in Name : f[n] \in Remembered(n)}
  /\ UNCHANGED <<decided, version, undo, saved, byHand, edits, faults, reviews>>

\* A new job on the same target brings the same rows again.
NextReview ==
  /\ phase = "applied" /\ reviews < MaxReviews
  /\ reviews' = reviews + 1
  /\ phase' = "review"
  /\ decided' = FromFeedback /\ version' = Unstamped
  /\ undo' = None /\ saved' = None /\ byHand' = {}
  /\ UNCHANGED <<feedback, applied, edits, faults>>

Next ==
  \/ \E v \in Verdict :
       \/ \E p \in Package : PutPackage(p, v)
       \/ \E f \in Family : PutFamily(f, v)
       \/ \E g \in Group : PutGroup(g, v)
       \/ \E r \in Row : PutRow(r, v)
  \/ \E r \in Row : DeleteRow(r)
  \/ \E P \in SUBSET Package : AcceptSafePackages(P)
  \/ Undo \/ Restart \/ ApplyReview \/ NextReview

Spec == Init /\ [][Next]_vars

\* While the review is open and no write has failed, the file holds what the
\* operator sees, stamped with it; or nothing was decided since the review was
\* built from the feedback and there is no file.  With TypeOK it is inductive.
FileKeepsUp ==
  phase = "review" /\ faults = 0 =>
    \/ saved \in Saved /\ saved.decided = decided /\ saved.version = Refreshed(decided)
    \/ saved = None /\ decided = FromFeedback

-----------------------------------------------------------------------------
\* The calculation takes exactly the rows the page shows as accepted, in the
\* category it shows: core_decisions and apply_overrides agree with the review.
CalculatedAsShown ==
  LET o == Overrides(decided)
  IN  /\ DOMAIN o = {r \in Row : Shown(decided, r) \in Category}
      /\ \A r \in DOMAIN o : o[r] = Shown(decided, r)

\* While no write has failed, a restart shows the operator the decisions made,
\* whatever was edited and undone: a stale version never makes it start over.
RestartKeepsDecisions ==
  phase = "review" /\ faults = 0 => Reopened = decided

\* Mass acceptance only fills rows nobody had decided: it changes no verdict
\* the page already showed, the ones restored from feedback included.
MassAcceptFillsOnly ==
  [][(\E P \in SUBSET Package : AcceptSafePackages(P)) =>
       \A r \in Row : Shown(decided, r) # None => Shown(decided, r)' = Shown(decided, r)]_vars

\* An operator's decision on a group reaches each of its rows the operator has
\* not decided one by one.
GroupDecisionReaches ==
  [][\A g \in Group, v \in Verdict : PutGroup(g, v) =>
       \A r \in RowsOf(g) \ byHand : Shown(decided, r)' = v]_vars

\* The next review of the same rows starts from the verdicts just applied.
VerdictsReturn ==
  [][NextReview => \A r \in Row : Shown(decided, r)' \in {applied[r], None}]_vars
=============================================================================
