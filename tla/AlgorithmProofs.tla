--------------------------- MODULE AlgorithmProofs ---------------------------
(* Four properties of the run of MCAlgorithms, for every vocabulary and every  *)
(* text: what AlgorithmLaws shows of an input holds of the last call.          *)
EXTENDS MCAlgorithms, AlgorithmLaws

\* An algorithm runs by its own call.
LEMMA RunsAreCalled ==
  ASSUME Next
  PROVE  /\ Ran("reconcile")' => Reconcile
         /\ Ran("mine")' => Mine
         /\ Ran("promote")' => Promote
         /\ Ran("accept")' => Accept
         /\ Ran("match row")' => MatchRow
         /\ Ran("select")' => SelectSources
<1>1. CASE Return
  BY <1>1 DEF Return, Ran
<1>2. CASE ~Return
  <2>1. Ran("reconcile")' => Reconcile
    BY <1>2 DEF Next, Call, Ran
  <2>2. Ran("mine")' => Mine
    BY <1>2 DEF Next, Call, Ran
  <2>3. Ran("promote")' => Promote
    BY <1>2 DEF Next, Call, Ran
  <2>4. Ran("accept")' => Accept
    BY <1>2 DEF Next, Call, Ran
  <2>5. Ran("match row")' => MatchRow
    BY <1>2 DEF Next, Call, Ran
  <2>6. Ran("select")' => SelectSources
    BY <1>2 DEF Next, Call, Ran
  <2> QED BY <2>1, <2>2, <2>3, <2>4, <2>5, <2>6
<1> QED BY <1>1, <1>2

\* An input is always one of its algorithm.
LEMMA CallsCalled == Spec => []Called
<1>1. Init => Called
  BY DEF Init, Called, Ran
<1>2. Called /\ [Next]_<<algorithm, input>> => Called'
  <2> SUFFICES ASSUME Called, [Next]_<<algorithm, input>>
               PROVE  Called'
    OBVIOUS
  <2>1. CASE Next
    <3>1. Ran("reconcile")' => IsReconciliation(Argument)'
      BY <2>1, RunsAreCalled, ReconcileCalls
    <3>2. Ran("mine")' => IsMining(Argument)'
      BY <2>1, RunsAreCalled, MineCalls
    <3>3. Ran("promote")' /\ Argument'.history # None => IsPromotion(Argument)'
      BY <2>1, RunsAreCalled, PromoteCalls
    <3>4. Ran("accept")' => IsAcceptance(Argument)'
      BY <2>1, RunsAreCalled, AcceptCalls
    <3>5. Ran("match row")' => IsMatching(Argument)'
      BY <2>1, RunsAreCalled, MatchCalls
    <3>6. Ran("select")' => IsSelection(Argument)'
      BY <2>1, RunsAreCalled, SelectCalls
    <3> QED BY <3>1, <3>2, <3>3, <3>4, <3>5, <3>6 DEF Called
  <2>2. CASE UNCHANGED <<algorithm, input>>
    BY <2>2 DEF Called, Ran, Argument, IsReconciliation, IsMining, IsPromotion, IsAcceptance, IsMatching, IsSelection, HasNumbers
  <2> QED BY <2>1, <2>2
<1> QED BY <1>1, <1>2, PTL DEF Spec

-----------------------------------------------------------------------------
(* The properties of the run.                                                *)

\* matching/engine.py, calculation/engine.py, quality_control: rules, decisions and
\* matches give every written row its sources, once, whatever rows, rules and
\* decisions a reconciliation is called with.
THEOREM RowsCorrect == Spec => []RowsReconcile
<1>1. Called => RowsReconcile
  BY CalledRows DEF RowsReconcile
<1> QED BY <1>1, CallsCalled, PTL

\* semantics/packages.py: what is offered for acceptance in one step is complete,
\* alike, offered once, and stays offered without another group.
THEOREM GroupsCorrect == Spec => []GroupsAreSafe
<1>1. Called => GroupsAreSafe
  BY CalledGroups DEF GroupsAreSafe
<1> QED BY <1>1, CallsCalled, PTL

\* offline.py, replay.py, promotion.py, acceptance.py: mined patterns tell no
\* parameter and no private text; they are activated after the replay and the
\* approval of exactly that record, which the acceptance comes before.
THEOREM PatternsCorrect == Spec => []PatternsStand
<1>1. Called => PatternsStand
  BY CalledPatterns DEF PatternsStand
<1> QED BY <1>1, CallsCalled, PTL

\* card matcher and sources: people decide a row first, then what is certain, and never
\* a suggestion; the files that are read are those of their object and its period.
THEOREM CardsCorrect == Spec => []CardsStand
<1>1. Called => CardsStand
  BY CalledCards DEF CardsStand
<1> QED BY <1>1, CallsCalled, PTL
==============================================================================
