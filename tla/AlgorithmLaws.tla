---------------------------- MODULE AlgorithmLaws ----------------------------
(* What the algorithms promise for every input they can be called with: the  *)
(* reconciliation of rows (RowReconciling), the packages of a review          *)
(* (ReviewPackages), the promotion of a pattern (PromotionGate), the patterns *)
(* mined from a corpus (CorpusPatterns), the decision of one row of a drawing *)
(* card (CardMatching) and the choice of its files (SourceSelection).  A law  *)
(* of an algorithm is stated once, about its module; AlgorithmProofs carries  *)
(* the laws over to the calls of MCAlgorithms.                                *)
EXTENDS MCCalls, FiniteSetTheorems, TLAPS

\* The size of a set is the same wherever it is asked for.
LEMMA SizesAgree ==
  ASSUME NEW S
  PROVE  /\ Rows!Cardinality(S) = Cardinality(S)
         /\ Review!Cardinality(S) = Cardinality(S)
         /\ Gate!Cardinality(S) = Cardinality(S)
         /\ Rules!Cardinality(S) = Cardinality(S)
         /\ Choice!Cardinality(S) = Cardinality(S)
BY DEF Rows!Cardinality, Review!Cardinality, Gate!Cardinality, Rules!Cardinality, Choice!Cardinality, Cardinality

-----------------------------------------------------------------------------
(* The reconciliation of rows.                                               *)

\* What is selected for a target is one of its candidates, or was decided.
LEMMA SelectedAre ==
  ASSUME NEW S, NEW T, NEW world, NEW overrides,
         NEW m \in Rows!Effective(S, T, world, overrides), NEW c \in m.selected
  PROVE  /\ m.target \in T /\ c.source \in S
         /\ \/ c \in Rows!Candidates(S, m.target, world)
            \/ c = Rows!Authoritative(c.source) /\ \A d \in Rows!Candidates(S, m.target, world) : d.source # c.source
<1> DEFINE C(t) == Rows!Candidates(S, t, world)
<1>1. \A t \in T : \A d \in C(t) : d.source \in S
  BY DEF Rows!Candidates
<1>2. CASE DOMAIN overrides = {}
  <2>1. PICK t \in T : m = Rows!Selection(t, C(t))
    BY <1>2 DEF Rows!Effective, Rows!Matches
  <2>2. m.target = t /\ c \in C(t)
    BY <2>1 DEF Rows!Selection, Rows!Best, Rows!Eligible
  <2> QED BY <1>1, <2>2
<1>3. CASE DOMAIN overrides # {}
  <2>1. PICK t \in T : m = Rows!Decided(S, t, world, overrides)
    BY <1>3 DEF Rows!Effective
  <2>2. m.target = t
    BY <2>1 DEF Rows!Decided
  <2>3. PICK s \in S : c = IF \E d \in C(t) : d.source = s THEN CHOOSE d \in C(t) : d.source = s
                           ELSE Rows!Authoritative(s)
    BY <2>1 DEF Rows!Decided
  <2>4. CASE \E d \in C(t) : d.source = s
    BY <2>2, <2>3, <2>4
  <2>5. CASE ~\E d \in C(t) : d.source = s
    BY <2>2, <2>3, <2>5 DEF Rows!Authoritative
  <2> QED BY <2>4, <2>5
<1> QED BY <1>2, <1>3

\* matching/engine.py, calculation/engine.py: the calculation finds every rule the
\* match names, whatever rules, scopes, rows and decisions there are.
THEOREM RulesAlwaysStand ==
  ASSUME NEW S, NEW T, NEW world, NEW overrides
  PROVE  Rows!RulesStand(S, T, world, overrides)
<1> SUFFICES ASSUME NEW m \in Rows!Effective(S, T, world, overrides), NEW c \in m.selected
             PROVE  ~Rows!Drifts(c, m.target, world)
  BY DEF Rows!RulesStand
<1>1. CASE c \in Rows!Candidates(S, m.target, world)
  <2>1. c.rules = {rc[1].id : rc \in Rows!Clauses(c.source, m.target, world)}
    BY <1>1 DEF Rows!Candidates
  <2> SUFFICES ASSUME NEW rc \in Rows!Clauses(c.source, m.target, world)
               PROVE  rc \in Rows!Applied(c, m.target, world) /\ rc[1].approved
    BY <2>1 DEF Rows!Drifts
  <2>2. rc[1].id \in c.rules
    BY <2>1
  <2> QED BY <2>2 DEF Rows!Clauses, Rows!Applied, Rows!InScope
<1>2. CASE c = Rows!Authoritative(c.source)
  <2>1. c.rules = {}
    BY <1>2 DEF Rows!Authoritative
  <2> QED BY <2>1 DEF Rows!Drifts
<1> QED BY <1>1, <1>2, SelectedAre

\* A clause that holds for a selected row is found again by its calculation.
LEMMA ClausesApply ==
  ASSUME NEW S, NEW T, NEW world, NEW overrides,
         NEW m \in Rows!Effective(S, T, world, overrides), NEW c \in m.selected,
         NEW rc \in Rows!Clauses(c.source, m.target, world)
  PROVE  rc \in Rows!Applied(c, m.target, world)
<1>1. Rows!Strategies(c.source, m.target, world) # {}
  <2>1. 6 \in Rows!Strategies(c.source, m.target, world)
    BY DEF Rows!Strategies
  <2> QED BY <2>1
<1>2. c.source \in S
  BY SelectedAre
<1>3. \E d \in Rows!Candidates(S, m.target, world) : d.source = c.source
  <2> DEFINE t == m.target
             held(s, x) == \E q \in Rows!Clauses(s, t, world) : q[2].action = x
             d(s) == [source |-> s, rules |-> {q[1].id : q \in Rows!Clauses(s, t, world)},
                      ordinal |-> Rows!Min(Rows!Strategies(s, t, world)), blocked |-> held(s, "exclude"),
                      manual |-> held(s, "review") \/ Rows!Strategies(s, t, world) = {7}]
  <2>1. Rows!Candidates(S, t, world) = {d(s) : s \in {s \in S : Rows!Strategies(s, t, world) # {}}}
    BY DEF Rows!Candidates
  <2>2. d(c.source).source = c.source
    OBVIOUS
  <2> HIDE DEF d
  <2> QED BY <1>1, <1>2, <2>1, <2>2
<1>4. c \in Rows!Candidates(S, m.target, world)
  BY <1>3, SelectedAre
<1>5. rc[1].id \in c.rules
  BY <1>4 DEF Rows!Candidates
<1> QED BY <1>5 DEF Rows!Clauses, Rows!Applied, Rows!InScope

\* What is summed is counted, and says how it went.
LEMMA SumsCount ==
  ASSUME NEW parts, NEW world
  PROVE  /\ Rows!Summed(parts, world).contributions = parts
         /\ Rows!Summed(parts, world).status \in {"no_values", "calculated", "calculated_with_warnings"}
<1> DEFINE quantity(p) == p.quantity
           cost(p) == p.cost
           sums == [quantity |-> Rows!Total(parts, quantity), cost |-> Rows!Total(parts, cost)]
           warns == \E p \in parts : p.warns
           status == IF sums.quantity = None /\ sums.cost = None THEN "no_values"
                     ELSE IF warns THEN "calculated_with_warnings" ELSE "calculated"
           sum == Rows!Rounded(sums.quantity, 1, world.quantum)
           rounded == Rows!Rounded(sums.cost, world.coefficient, world.quantum)
<1>1. Rows!Summed(parts, world) =
        [status |-> status, quantity |-> sum, raw |-> sums.cost, cost |-> rounded, contributions |-> parts, warns |-> warns]
  BY Zenon DEF Rows!Summed
<1>2. status \in {"no_values", "calculated", "calculated_with_warnings"}
  OBVIOUS
<1> HIDE DEF status, sum, sums, rounded, warns
<1> QED BY <1>1, <1>2

\* What a result counts is what is selected, unless it is held back.
LEMMA ResultsCount ==
  ASSUME NEW m, NEW world, NEW overrides, NEW r, r = Rows!Calculated(m, world, overrides)
  PROVE  /\ m.status \notin {"ambiguous", "unmatched"} /\ r.status # "manual_review"
              => /\ r.contributions = {Rows!Contribution(c, m.target, world, overrides) : c \in m.selected}
                 /\ \A c \in m.selected : \A rk \in Rows!Applied(c, m.target, world) :
                      rk[2].action \notin {"exclude", "review"}
         /\ m.status \in {"ambiguous", "unmatched"} => r.contributions = {}
         /\ m.status = "ambiguous" => r.status = "manual_review"
         /\ r.status = "manual_review" => r.contributions = {}
<1> DEFINE parts == {Rows!Contribution(c, m.target, world, overrides) : c \in m.selected}
           held(x) == \E c \in m.selected : \E rk \in Rows!Applied(c, m.target, world) : rk[2].action = x
<1>1. Rows!Nothing("manual_review").status = "manual_review" /\ Rows!Nothing("manual_review").contributions = {}
  BY DEF Rows!Nothing
<1>2. Rows!Nothing("no_match").status = "no_match" /\ Rows!Nothing("no_match").contributions = {}
  BY DEF Rows!Nothing
<1>3. CASE m.status = "unmatched"
  <2>1. r = Rows!Nothing("no_match")
    BY <1>3 DEF Rows!Calculated
  <2> QED BY <1>2, <1>3, <2>1
<1>4. CASE m.status # "unmatched" /\ (m.status = "ambiguous" \/ held("exclude") \/ held("review"))
  <2>1. r = Rows!Nothing("manual_review")
    BY <1>4 DEF Rows!Calculated
  <2> QED BY <1>1, <1>4, <2>1
<1>5. CASE m.status \notin {"ambiguous", "unmatched"} /\ ~(held("exclude") \/ held("review"))
  <2>1. r = Rows!Summed(parts, world)
    BY <1>5 DEF Rows!Calculated
  <2>2. r.contributions = parts /\ r.status \in {"no_values", "calculated", "calculated_with_warnings"}
    BY <2>1, SumsCount
  <2> QED BY <1>5, <2>2
<1> QED BY <1>3, <1>4, <1>5

\* The row a contribution counts is the row that is selected.
LEMMA ContributionsCount ==
  ASSUME NEW c, NEW t, NEW world, NEW overrides
  PROVE  Rows!Contribution(c, t, world, overrides).source = c.source
BY DEF Rows!Contribution

\* calculation/engine.py, quality_control/engine.py: a result that may be written
\* without a further look counts a row at most once, in the unit of its target,
\* and no row a clause excludes or holds back.
THEOREM WrittenRowsAlwaysCountOnce ==
  ASSUME NEW S, NEW T, NEW world, NEW overrides
  PROVE  Rows!WrittenRowsCountOnce(S, T, world, overrides)
<1> DEFINE M == Rows!Effective(S, T, world, overrides)
           counted(m) == Rows!Calculated(m, world, overrides).contributions
<1> SUFFICES ASSUME Rows!Decision(Rows!Issues(M, world, overrides)) = "allow_write"
             PROVE  /\ \A m, n \in M : m # n => \A p \in counted(m), q \in counted(n) : p.source # q.source
                    /\ \A m \in M : \A p \in counted(m) :
                         /\ p.source.unit = m.target.unit
                         /\ ~\E rc \in Rows!Clauses(p.source, m.target, world) : rc[2].action \in {"exclude", "review"}
  BY DEF Rows!WrittenRowsCountOnce
<1>1. {"blocking", "manual_review", "warning"} \cap Rows!Issues(M, world, overrides) = {}
  BY DEF Rows!Decision
<1>2. Rows!Reuse(M) = {} /\ \A m \in M : Rows!MatchIssues(m, Rows!Calculated(m, world, overrides), world) \cap {"manual_review"} = {}
  <2>1. Rows!Reuse(M) \subseteq {"manual_review"}
    BY DEF Rows!Reuse
  <2> QED BY <1>1, <2>1 DEF Rows!Issues
<1> HIDE DEF M
\* A result that is not held back counts what is selected.
<1>3. ASSUME NEW m \in M, NEW p \in counted(m)
      PROVE  \E c \in m.selected : /\ p.source = c.source
                                   /\ Rows!UnitIssue(c, m.target) = {}
                                   /\ \A rk \in Rows!Applied(c, m.target, world) : rk[2].action \notin {"exclude", "review"}
  <2> DEFINE r == Rows!Calculated(m, world, overrides)
  <2>1. r.status # "manual_review" /\ m.status \notin {"ambiguous", "unmatched"}
    <3> HIDE DEF r
    <3>1. r = Rows!Calculated(m, world, overrides) /\ p \in r.contributions
      BY <1>3 DEF r
    <3> QED BY <3>1, ResultsCount
  <2>2. r.contributions = {Rows!Contribution(c, m.target, world, overrides) : c \in m.selected}
    <3> HIDE DEF r
    <3>1. r = Rows!Calculated(m, world, overrides)
      BY DEF r
    <3> QED BY <2>1, <3>1, ResultsCount
  <2>3. PICK c \in m.selected : p = Rows!Contribution(c, m.target, world, overrides)
    BY <2>2
  <2>4. \A rk \in Rows!Applied(c, m.target, world) : rk[2].action \notin {"exclude", "review"}
    <3> HIDE DEF r
    <3>1. r = Rows!Calculated(m, world, overrides)
      BY DEF r
    <3> QED BY <2>1, <3>1, ResultsCount
  <2>5. Rows!UnitIssue(c, m.target) \subseteq Rows!MatchIssues(m, r, world)
    BY DEF Rows!MatchIssues, Rows!SelectedIssues
  <2>6. Rows!UnitIssue(c, m.target) = {}
    <3>1. Rows!UnitIssue(c, m.target) \in {{"manual_review"}, {}}
      BY DEF Rows!UnitIssue
    <3> QED BY <1>2, <2>5, <3>1
  <2> QED BY <2>3, <2>4, <2>6, ContributionsCount
<1>4. ASSUME NEW m \in M, NEW n \in M, m # n, NEW p \in counted(m), NEW q \in counted(n)
      PROVE  p.source # q.source
  <2>1. PICK c \in m.selected : p.source = c.source
    BY <1>3
  <2>2. PICK d \in n.selected : q.source = d.source
    BY <1>3
  <2>3. {x.source : x \in m.selected} \cap {x.source : x \in n.selected} = {}
    BY <1>2, <1>4 DEF Rows!Reuse
  <2> QED BY <2>1, <2>2, <2>3
<1>5. ASSUME NEW m \in M, NEW p \in counted(m)
      PROVE  /\ p.source.unit = m.target.unit
             /\ ~\E rc \in Rows!Clauses(p.source, m.target, world) : rc[2].action \in {"exclude", "review"}
  <2>1. PICK c \in m.selected : /\ p.source = c.source
                                /\ Rows!UnitIssue(c, m.target) = {}
                                /\ \A rk \in Rows!Applied(c, m.target, world) : rk[2].action \notin {"exclude", "review"}
    BY <1>3
  <2>2. p.source.unit = m.target.unit
    BY <2>1 DEF Rows!UnitIssue
  <2>3. \A rc \in Rows!Clauses(c.source, m.target, world) : rc \in Rows!Applied(c, m.target, world)
    BY ClausesApply DEF M
  <2> QED BY <2>1, <2>2, <2>3
<1> QED BY <1>4, <1>5

\* processing/reconciliation.py: what a reviewer accepted for a target is what its
\* result counts, unless the target is held back.
THEOREM AcceptedRowsAlwaysCount ==
  ASSUME NEW S, NEW T, NEW world, NEW overrides
  PROVE  Rows!AcceptedRowsCount(S, T, world, overrides)
<1> DEFINE accepted(t) == {s \in S : s.id \in DOMAIN overrides /\ overrides[s.id].target = t.id}
<1> SUFFICES ASSUME DOMAIN overrides # {}, NEW m \in Rows!Effective(S, T, world, overrides),
                    NEW r, r = Rows!Calculated(m, world, overrides), r.status # "manual_review"
             PROVE  {p.source : p \in r.contributions} = accepted(m.target)
  BY DEF Rows!AcceptedRowsCount
<1>1. PICK t \in T : m = Rows!Decided(S, t, world, overrides)
  BY DEF Rows!Effective
<1> DEFINE C == Rows!Candidates(S, t, world)
           pick(s) == IF \E c \in C : c.source = s THEN CHOOSE c \in C : c.source = s ELSE Rows!Authoritative(s)
<1>2. m.target = t /\ m.selected = {pick(s) : s \in accepted(t)}
  BY <1>1 DEF Rows!Decided
<1>3. m.status = IF m.selected = {} THEN "unmatched" ELSE "matched"
  BY <1>1 DEF Rows!Decided
<1>4. \A s \in accepted(t) : pick(s).source = s
  BY DEF Rows!Authoritative
<1> HIDE DEF pick
<1>5. {c.source : c \in m.selected} = accepted(t)
  BY <1>2, <1>4
<1>6. CASE m.selected = {}
  <2>1. r.contributions = {}
    BY <1>3, <1>6, ResultsCount
  <2> QED BY <1>2, <1>5, <1>6, <2>1
<1>7. CASE m.selected # {}
  <2>1. r.contributions = {Rows!Contribution(c, m.target, world, overrides) : c \in m.selected}
    BY <1>3, <1>7, ResultsCount
  <2>2. {p.source : p \in r.contributions} = {c.source : c \in m.selected}
    BY <2>1, ContributionsCount
  <2> QED BY <1>2, <1>5, <2>2
<1> QED BY <1>6, <1>7
\* The candidate a row is for a target, if it is one.
CandidateOf(s, t, world) == CHOOSE c : Rows!Candidates({s}, t, world) = {c}

\* Each row is a candidate by itself, whatever other rows there are.
LEMMA CandidatesAre ==
  ASSUME NEW S, NEW t, NEW world
  PROVE  /\ Rows!Candidates(S, t, world) = {CandidateOf(s, t, world) : s \in {s \in S : Rows!Strategies(s, t, world) # {}}}
         /\ \A s \in S : Rows!Strategies(s, t, world) # {} =>
              /\ CandidateOf(s, t, world).source = s
              /\ CandidateOf(s, t, world).ordinal \in 1 .. 7
<1> DEFINE asks(s, action) == \E rc \in Rows!Clauses(s, t, world) : rc[2].action = action
           found(s) == Rows!Strategies(s, t, world)
           d(s) == [source |-> s, rules |-> {rc[1].id : rc \in Rows!Clauses(s, t, world)}, ordinal |-> Rows!Min(found(s)),
                    blocked |-> asks(s, "exclude"), manual |-> asks(s, "review") \/ found(s) = {7}]
<1>1. \A R : Rows!Candidates(R, t, world) = {d(s) : s \in {s \in R : found(s) # {}}}
  BY DEF Rows!Candidates
<1>2. \A s : d(s).source = s /\ d(s).ordinal = Rows!Min(found(s))
  OBVIOUS
<1>3. ASSUME NEW s, found(s) # {} PROVE Rows!Min(found(s)) \in 1 .. 7
  <2>1. found(s) \subseteq 1 .. 7
    BY DEF Rows!Strategies
  <2>2. PICK k \in found(s) : \A i \in found(s) : k <= i
    <3> HIDE DEF found
    <3> QED BY <1>3, <2>1
  <2>3. \E n \in found(s) : \A i \in found(s) : n <= i
    BY <2>2
  <2>4. Rows!Min(found(s)) \in found(s)
    <3> HIDE DEF found
    <3> QED BY <2>3 DEF Rows!Min
  <2> QED BY <2>1, <2>4
<1> HIDE DEF d
<1>4. ASSUME NEW s \in S, found(s) # {} PROVE CandidateOf(s, t, world) = d(s)
  <2>1. Rows!Candidates({s}, t, world) = {d(s)}
    BY <1>1, <1>4
  <2> HIDE DEF found
  <2> QED BY <2>1 DEF CandidateOf
<1> HIDE DEF found
<1>5. {CandidateOf(s, t, world) : s \in {s \in S : found(s) # {}}} = {d(s) : s \in {s \in S : found(s) # {}}}
  BY <1>4
<1> USE DEF found
<1> QED BY <1>1, <1>2, <1>3, <1>4, <1>5

\* matching/engine.py: when a row is added, the rows a target is matched with change
\* only for that row, and only when it matches by a stronger strategy.
THEOREM SelectionIsAlwaysMonotone ==
  ASSUME NEW S, IsFiniteSet(S), NEW T, NEW world
  PROVE  Rows!SelectionIsMonotone(S, T, world)
<1> SUFFICES ASSUME NEW t \in T, NEW s \in S,
                    NEW few, few = Rows!Selection(t, Rows!Candidates(S \ {s}, t, world)),
                    NEW all, all = Rows!Selection(t, Rows!Candidates(S, t, world)),
                    few.status = "matched", all.status = "matched", few.selected # all.selected,
                    NEW c \in few.selected, NEW d \in all.selected
             PROVE  d.source = s /\ d.ordinal < c.ordinal
  BY DEF Rows!SelectionIsMonotone
<1> DEFINE C(R) == Rows!Candidates(R, t, world)
\* Its best candidates are found: a selection that is matched has exactly one.
<1>1. \A R \in SUBSET S : IsFiniteSet(C(R))
  <2> SUFFICES ASSUME NEW R \in SUBSET S PROVE IsFiniteSet(C(R))
    OBVIOUS
  <2> DEFINE Q == {r \in R : Rows!Strategies(r, t, world) # {}}
             f == [r \in Q |-> CandidateOf(r, t, world)]
  <2>1. IsFiniteSet(Q)
    BY FS_Subset
  <2>2. C(R) = {CandidateOf(r, t, world) : r \in Q}
    BY CandidatesAre
  <2> HIDE DEF Q, C
  <2>3. f \in Surjection(Q, C(R))
    BY <2>2 DEF Surjection
  <2> HIDE DEF f
  <2> QED BY <2>1, <2>3, FS_Surjection
<1>2. ASSUME NEW R \in SUBSET S, NEW m, m = Rows!Selection(t, C(R)), m.status = "matched", NEW x \in m.selected
      PROVE  /\ m.selected = {x}
             /\ \A y : y \in Rows!Best(Rows!Eligible(C(R))) <=> y = x
  <2> DEFINE best == Rows!Best(Rows!Eligible(C(R)))
  <2>1. IsFiniteSet(best)
    <3>1. best \subseteq C(R)
      BY DEF Rows!Best, Rows!Eligible
    <3>2. IsFiniteSet(C(R))
      BY <1>1
    <3> HIDE DEF best, C
    <3> QED BY <3>1, <3>2, FS_Subset
  <2>2. m.status = IF Cardinality(best) = 1 THEN "matched"
                   ELSE IF \E y \in C(R) : ~y.blocked THEN "ambiguous" ELSE "unmatched"
    BY <1>2, SizesAgree DEF Rows!Selection
  <2>3. m.selected = IF Cardinality(best) = 1 THEN best ELSE {}
    BY <1>2, SizesAgree DEF Rows!Selection
  <2> HIDE DEF best, C
  <2>4. Cardinality(best) = 1
    BY <1>2, <2>2
  <2>5. \E y : best = {y}
    BY <2>1, <2>4, FS_Singleton
  <2>6. best = {x}
    BY <1>2, <2>3, <2>4, <2>5
  <2> QED BY <2>3, <2>4, <2>6 DEF best
<1>3. few.selected = {c} /\ \A y : y \in Rows!Best(Rows!Eligible(C(S \ {s}))) <=> y = c
  <2> HIDE DEF C
  <2>1. S \ {s} \in SUBSET S /\ few = Rows!Selection(t, C(S \ {s}))
    BY DEF C
  <2> QED BY <1>2, <2>1
<1>4. all.selected = {d} /\ \A y : y \in Rows!Best(Rows!Eligible(C(S))) <=> y = d
  <2> HIDE DEF C
  <2>1. S \in SUBSET S /\ all = Rows!Selection(t, C(S))
    BY DEF C
  <2> QED BY <1>2, <2>1
<1>5. c # d
  BY <1>3, <1>4
\* The row that is taken away takes its candidate away, and no other.
<1>6. \A x \in C(S) : x.source # s => x \in C(S \ {s})
  <2>1. C(S) = {CandidateOf(r, t, world) : r \in {r \in S : Rows!Strategies(r, t, world) # {}}}
    BY CandidatesAre
  <2>2. C(S \ {s}) = {CandidateOf(r, t, world) : r \in {r \in S \ {s} : Rows!Strategies(r, t, world) # {}}}
    BY CandidatesAre
  <2>3. \A r \in S : Rows!Strategies(r, t, world) # {} => CandidateOf(r, t, world).source = r
    BY CandidatesAre
  <2> HIDE DEF C
  <2> QED BY <2>1, <2>2, <2>3
<1>7. C(S \ {s}) \subseteq C(S)
  <2>1. C(S) = {CandidateOf(r, t, world) : r \in {r \in S : Rows!Strategies(r, t, world) # {}}}
    BY CandidatesAre
  <2>2. C(S \ {s}) = {CandidateOf(r, t, world) : r \in {r \in S \ {s} : Rows!Strategies(r, t, world) # {}}}
    BY CandidatesAre
  <2> HIDE DEF C
  <2> QED BY <2>1, <2>2
<1>8. \A x \in C(S) : x.ordinal \in 1 .. 7
  <2>1. C(S) = {CandidateOf(r, t, world) : r \in {r \in S : Rows!Strategies(r, t, world) # {}}}
    BY CandidatesAre
  <2>2. \A r \in S : Rows!Strategies(r, t, world) # {} => CandidateOf(r, t, world).ordinal \in 1 .. 7
    BY CandidatesAre
  <2> HIDE DEF C
  <2> QED BY <2>1, <2>2
<1> HIDE DEF C
<1>9. /\ c \in C(S \ {s}) /\ ~c.blocked /\ ~c.manual
      /\ \A y \in C(S \ {s}) : ~y.blocked /\ ~y.manual => c.ordinal <= y.ordinal
  BY <1>3 DEF Rows!Best, Rows!Eligible
<1>10. /\ d \in C(S) /\ ~d.blocked /\ ~d.manual
       /\ \A y \in C(S) : ~y.blocked /\ ~y.manual => d.ordinal <= y.ordinal
  BY <1>4 DEF Rows!Best, Rows!Eligible
<1>11. d.source = s
  <2> SUFFICES ASSUME d.source # s PROVE FALSE
    OBVIOUS
  <2>1. d \in C(S \ {s})
    BY <1>6, <1>10
  <2>2. d \in Rows!Best(Rows!Eligible(C(S \ {s})))
    BY <1>7, <1>10, <2>1 DEF Rows!Best, Rows!Eligible
  <2> QED BY <1>3, <1>5, <2>2
<1>12. d.ordinal < c.ordinal
  <2>1. c \in C(S)
    BY <1>7, <1>9
  <2>2. d.ordinal <= c.ordinal /\ d.ordinal \in 1 .. 7 /\ c.ordinal \in 1 .. 7
    BY <1>8, <1>9, <1>10, <2>1
  <2> SUFFICES ASSUME d.ordinal = c.ordinal PROVE FALSE
    BY <2>2
  <2>3. c \in Rows!Best(Rows!Eligible(C(S)))
    BY <1>9, <1>10, <2>1 DEF Rows!Best, Rows!Eligible
  <2> QED BY <1>4, <1>5, <2>3
<1> QED BY <1>11, <1>12

-----------------------------------------------------------------------------
(* The packages of an upload.                                                *)

\* A family holds features of one family key, all of them exceptions or none.
LEMMA FamiliesAgree ==
  ASSUME NEW F, NEW X, NEW family \in Review!Families(F, X), NEW f \in family, NEW g \in family
  PROVE  /\ f \in F
         /\ f \in X => g \in X
         /\ Review!PackageKey(f) = Review!PackageKey(g)
<1>1. PICK k : family = {h \in F : <<Review!FamilyKey(h), IF h \in X THEN {h.group} ELSE {}>> = k}
  BY DEF Review!Families
<1>2. Review!FamilyKey(f) = Review!FamilyKey(g)
  BY <1>1
<1>3. (IF f \in X THEN {f.group} ELSE {}) = IF g \in X THEN {g.group} ELSE {}
  BY <1>1
<1>4. Review!PackageKey(f) = Review!PackageKey(g)
  BY <1>2 DEF Review!FamilyKey
<1> QED BY <1>1, <1>3, <1>4

\* What a package asks for is the same of everything in it.
LEMMA KeysAgree ==
  ASSUME NEW f, NEW g, Review!PackageKey(f) = Review!PackageKey(g)
  PROVE  /\ f.group.category = g.group.category
         /\ Review!Known(f) <=> Review!Known(g)
BY DEF Review!PackageKey, Review!Known

\* A package is the families of one key.
OneOf(family) == CHOOSE f \in family : TRUE
PackedUnder(family, X) ==
  <<Review!PackageKey(OneOf(family)),
    IF ~Review!Known(OneOf(family)) THEN family ELSE IF family \cap X # {} THEN "manual" ELSE "safe">>
PackedTogether(F, X, family) ==
  LET of == {other \in Review!Families(F, X) : PackedUnder(other, X) = PackedUnder(family, X)} IN
  [families |-> of,
   safe |-> \A other \in of : /\ OneOf(other).group.category # None
                              /\ Review!Known(OneOf(other)) /\ other \cap X = {}]
LEMMA PackagesAre ==
  ASSUME NEW F, NEW X
  PROVE  Review!Packages(F, X) = {PackedTogether(F, X, family) : family \in Review!Families(F, X)}
<1> DEFINE of(k) == {family \in Review!Families(F, X) : PackedUnder(family, X) = k}
           safe(k) == \A family \in of(k) : /\ OneOf(family).group.category # None
                                            /\ Review!Known(OneOf(family)) /\ family \cap X = {}
           pack(k) == [families |-> of(k), safe |-> safe(k)]
<1>1. Review!Packages(F, X) = {pack(k) : k \in {PackedUnder(family, X) : family \in Review!Families(F, X)}}
  BY Zenon DEF Review!Packages, PackedUnder, OneOf
<1>2. \A family : PackedTogether(F, X, family) = pack(PackedUnder(family, X))
  BY Zenon DEF PackedTogether
<1> HIDE DEF pack
<1> QED BY <1>1, <1>2

\* A family has a feature, and each of its features agrees with the one that is
\* chosen of it.
LEMMA FamiliesHaveOne ==
  ASSUME NEW F, NEW X, NEW family \in Review!Families(F, X)
  PROVE  OneOf(family) \in family
<1>1. family # {}
  BY DEF Review!Families
<1> QED BY <1>1 DEF OneOf

\* What a safe package holds has a category, is known and is no exception, and
\* all of it has one package key.
LEMMA SafePackagesAre ==
  ASSUME NEW F, NEW X, NEW p \in Review!Packages(F, X), p.safe, NEW f \in UNION p.families
  PROVE  /\ f \in F /\ f \notin X /\ f.group.category # None /\ Review!Known(f)
         /\ \A g \in UNION p.families : Review!PackageKey(f) = Review!PackageKey(g)
<1>1. PICK family \in Review!Families(F, X) : p = PackedTogether(F, X, family)
  BY PackagesAre
<1>2. \A g \in UNION p.families :
         /\ g \in F /\ g \notin X /\ g.group.category # None /\ Review!Known(g)
         /\ Review!PackageKey(g) = Review!PackageKey(OneOf(family))
  <2> SUFFICES ASSUME NEW other \in p.families, NEW g \in other
               PROVE  /\ g \in F /\ g \notin X /\ g.group.category # None /\ Review!Known(g)
                      /\ Review!PackageKey(g) = Review!PackageKey(OneOf(family))
    OBVIOUS
  <2>1. other \in Review!Families(F, X) /\ PackedUnder(other, X) = PackedUnder(family, X)
    BY <1>1 DEF PackedTogether
  <2>2. OneOf(other).group.category # None /\ Review!Known(OneOf(other)) /\ other \cap X = {}
    BY <1>1, <2>1 DEF PackedTogether
  <2>3. Review!PackageKey(OneOf(other)) = Review!PackageKey(OneOf(family))
    BY <2>1 DEF PackedUnder
  <2>4. g \in F /\ Review!PackageKey(g) = Review!PackageKey(OneOf(other))
    BY <2>1, FamiliesHaveOne, FamiliesAgree
  <2> QED BY <2>2, <2>3, <2>4, KeysAgree
<1> QED BY <1>2

\* packages.py: one click on a safe package decides groups of one category, mode,
\* action and object, none of which conflicts with another, whatever is uploaded.
THEOREM SafePackagesAlwaysAgree ==
  ASSUME NEW groups, NEW lexicon, NEW negativePairs, NEW available
  PROVE  Review!SafePackagesAgree(groups, lexicon, negativePairs, available)
<1> DEFINE F == Review!AllFeatures(groups, lexicon)
           X == Review!Exceptions(F, negativePairs, available)
<1> SUFFICES ASSUME NEW p \in Review!Packages(F, X), p.safe,
                    NEW f \in UNION p.families, NEW g \in UNION p.families
             PROVE  /\ f.group.category = g.group.category /\ f.group.category # None
                    /\ Review!Known(f) /\ ~Review!Unfit(f, available)
                    /\ Review!PackageKey(f) = Review!PackageKey(g) /\ f.critical = g.critical /\ f.typed = g.typed
                    /\ f # g => ~Review!HardConflict(f, g, negativePairs)
  BY DEF Review!SafePackagesAgree, Review!PackagesOf, Review!Clicked
<1>1. /\ f \in F /\ f \notin X /\ g \in F /\ g \notin X
      /\ f.group.category # None /\ Review!Known(f) /\ Review!PackageKey(f) = Review!PackageKey(g)
  BY SafePackagesAre
<1>2. f.group.category = g.group.category
  BY <1>1, KeysAgree
<1>3. ~Review!Unfit(f, available) /\ (f # g => ~Review!HardConflict(f, g, negativePairs))
  BY <1>1 DEF Review!Exceptions
<1>4. f.critical = g.critical /\ f.typed = g.typed
  BY <1>3 DEF Review!HardConflict
<1> QED BY <1>1, <1>2, <1>3, <1>4

\* packages.py: every group is in exactly one family of exactly one package.
THEOREM EveryGroupAlwaysOnce ==
  ASSUME NEW groups, NEW lexicon, NEW negativePairs, NEW available
  PROVE  Review!EveryGroupOnce(groups, lexicon, negativePairs, available)
<1> DEFINE F == Review!AllFeatures(groups, lexicon)
           X == Review!Exceptions(F, negativePairs, available)
           packages == Review!Packages(F, X)
           places(g) == {x \in packages \X UNION {p.families : p \in packages} :
                           x[2] \in x[1].families /\ \E f \in x[2] : f.group = g}
<1> SUFFICES ASSUME NEW g \in groups PROVE Review!Cardinality(places(g)) = 1
  BY DEF Review!EveryGroupOnce, Review!PackagesOf
<1> DEFINE f == Review!Features(g, lexicon)
           key(h) == <<Review!FamilyKey(h), IF h \in X THEN {h.group} ELSE {}>>
           family == {h \in F : key(h) = key(f)}
           package == PackedTogether(F, X, family)
<1>1. f \in F /\ \A h \in F : h.group = g => h = f
  BY DEF Review!AllFeatures, Review!Features
<1> HIDE DEF F, X, f
<1>2. family \in Review!Families(F, X) /\ f \in family
  BY <1>1 DEF Review!Families
<1>3. \A other \in Review!Families(F, X) : f \in other => other = family
  BY DEF Review!Families
<1>4. f.group = g
  BY DEF f, Review!Features
<1> HIDE DEF family, key
<1>5. package \in packages /\ family \in package.families
  BY <1>2, PackagesAre DEF PackedTogether
<1>6. ASSUME NEW p \in packages, NEW other \in p.families, NEW h \in other, h.group = g
      PROVE  p = package /\ other = family
  <2>1. PICK first \in Review!Families(F, X) : p = PackedTogether(F, X, first)
    BY <1>6, PackagesAre
  <2>2. other \in Review!Families(F, X) /\ PackedUnder(other, X) = PackedUnder(first, X)
    BY <2>1 DEF PackedTogether
  <2>3. h = f
    BY <1>1, <1>6, <2>2, FamiliesAgree
  <2>4. other = family
    BY <1>3, <2>2, <2>3
  <2> QED BY <2>1, <2>2, <2>4 DEF PackedTogether
<1> HIDE DEF package, packages
<1>7. places(g) = {<<package, family>>}
  <2>1. <<package, family>> \in places(g)
    BY <1>2, <1>4, <1>5
  <2>2. \A x \in places(g) : x = <<package, family>>
    BY <1>6
  <2> QED BY <2>1, <2>2
<1>8. Cardinality({<<package, family>>}) = 1
  BY FS_Singleton
<1> QED BY <1>7, <1>8, SizesAgree

\* packages.py: what may be accepted by one click may be so without any of the
\* other groups of the upload.
THEOREM AlwaysSafeWithoutOthers ==
  ASSUME NEW groups, NEW lexicon, NEW negativePairs, NEW available
  PROVE  Review!SafeWithoutOthers(groups, lexicon, negativePairs, available)
<1> DEFINE features(G) == Review!AllFeatures(G, lexicon)
           exceptions(G) == Review!Exceptions(features(G), negativePairs, available)
           packages(G) == Review!Packages(features(G), exceptions(G))
           safe(G) == UNION {{f.group : f \in UNION p.families} : p \in {p \in packages(G) : p.safe}}
<1> SUFFICES ASSUME NEW g \in groups, NEW h \in safe(groups), h # g
             PROVE  h \in safe(groups \ {g})
  BY DEF Review!SafeWithoutOthers, Review!PackagesOf, Review!Clicked
<1> DEFINE F == features(groups \ {g})
           X == exceptions(groups \ {g})
           f == Review!Features(h, lexicon)
<1>1. /\ f \in features(groups) /\ f \notin exceptions(groups)
      /\ f.group.category # None /\ Review!Known(f)
  <2>1. PICK p \in packages(groups) : p.safe /\ h \in {x.group : x \in UNION p.families}
    OBVIOUS
  <2>2. PICK x \in UNION p.families : h = x.group
    BY <2>1
  <2>3. /\ x \in features(groups) /\ x \notin exceptions(groups)
        /\ x.group.category # None /\ Review!Known(x)
    <3> HIDE DEF features, exceptions
    <3> QED BY <2>1, SafePackagesAre
  <2>4. x = f
    BY <2>2, <2>3 DEF Review!AllFeatures, Review!Features
  <2> QED BY <2>3, <2>4
<1>2. f \in F /\ F \subseteq features(groups)
  <2>1. h \in groups
    BY <1>1 DEF Review!AllFeatures, Review!Features
  <2> QED BY <2>1 DEF Review!AllFeatures
\* Nothing becomes an exception because a group is taken away.
<1>3. f \notin X
  BY <1>1, <1>2 DEF Review!Exceptions
<1>4. X \subseteq F
  BY DEF Review!Exceptions
<1> DEFINE key(x) == <<Review!FamilyKey(x), IF x \in X THEN {x.group} ELSE {}>>
           family == {x \in F : key(x) = key(f)}
<1> HIDE DEF features, exceptions, F, X, f
<1>5. family \in Review!Families(F, X) /\ f \in family
  BY <1>2 DEF Review!Families
<1>6. \A x \in family : x \notin X
  BY <1>3
<1> HIDE DEF family, key
\* Every family of its package is known, of its category and free of exceptions.
<1>7. ASSUME NEW other \in Review!Families(F, X), PackedUnder(other, X) = PackedUnder(family, X)
      PROVE  OneOf(other).group.category # None /\ Review!Known(OneOf(other)) /\ other \cap X = {}
  <2>1. Review!PackageKey(OneOf(family)) = Review!PackageKey(f)
    BY <1>5, FamiliesHaveOne, FamiliesAgree
  <2>2. Review!PackageKey(OneOf(other)) = Review!PackageKey(f)
    BY <1>7, <2>1 DEF PackedUnder
  <2>3. /\ Review!Known(OneOf(family)) /\ Review!Known(OneOf(other))
        /\ OneOf(other).group.category # None
    BY <1>1, <2>1, <2>2, KeysAgree
  <2>4. family \cap X = {}
    BY <1>6
  <2>5. (IF other \cap X # {} THEN "manual" ELSE "safe") = "safe"
    BY <1>7, <2>3, <2>4 DEF PackedUnder
  <2> QED BY <2>3, <2>5
<1>8. PackedTogether(F, X, family).safe /\ family \in PackedTogether(F, X, family).families
  BY <1>5, <1>7 DEF PackedTogether
<1>9. PackedTogether(F, X, family) \in packages(groups \ {g})
  BY <1>5, PackagesAre DEF F, X
<1>10. f.group = h
  BY DEF f, Review!Features
<1> HIDE DEF packages
<1>11. h \in {x.group : x \in UNION PackedTogether(F, X, family).families}
  BY <1>5, <1>8, <1>10
<1> QED BY <1>8, <1>9, <1>11

-----------------------------------------------------------------------------
(* The promotion of a pattern.                                               *)

\* What is said of a replay that ran.
LEMMA ReplaysAreBound ==
  ASSUME NEW pattern, NEW snapshots, NEW policy, NEW runs, NEW index,
         NEW report, report = Gate!Replayed(pattern, snapshots, policy, runs, index), ~Gate!IsStopped(report)
  PROVE  /\ pattern.state = "shadow" /\ report.head = pattern
         /\ report.baseline = Gate!Metrics(snapshots.baseline, runs.baseline)
         /\ report.holdout = Gate!Metrics(snapshots.holdout, runs.holdout)
         /\ Gate!Trouble(runs.baseline, snapshots.baseline, pattern) = None
         /\ Gate!Trouble(runs.holdout, snapshots.holdout, pattern) = None
<1>1. \A code : Gate!IsStopped(Gate!Stopped(code))
  BY DEF Gate!IsStopped, Gate!Stopped
<1> DEFINE took == runs.baseline.took \o runs.holdout.took
           trouble == [i \in 1 .. 2 |-> Gate!Trouble(runs[Gate!Splits[i]], snapshots[Gate!Splits[i]], pattern)]
           answer == [pattern |-> pattern.id, head |-> pattern, policy |-> policy,
                      baseline |-> Gate!Metrics(snapshots.baseline, runs.baseline),
                      holdout |-> Gate!Metrics(snapshots.holdout, runs.holdout),
                      measured |-> [p50 |-> Gate!NearestRank(took, 50), p95 |-> Gate!NearestRank(took, 95), index |-> index]]
<1>2. pattern.state = "shadow" /\ trouble = <<None, None>> /\ report = answer
  BY <1>1 DEF Gate!Replayed
<1>3. trouble[1] = None /\ trouble[2] = None
  BY <1>2
<1>4. Gate!Splits[1] = "baseline" /\ Gate!Splits[2] = "holdout"
  BY DEF Gate!Splits
<1> QED BY <1>2, <1>3, <1>4

\* acceptance.py, acceptance_runner.py: no report passes together with the promotion
\* of a record that has been approved, and one that passes was repeated, counted
\* nothing wrong and covered every row of sources that have nothing in common.
THEOREM AcceptedAlwaysBeforeApproval ==
  ASSUME NEW in, NEW pattern, NEW snapshots, NEW policy, NEW runs, NEW index,
         in.report = Gate!Replayed(pattern, snapshots, policy, runs, index), ~Gate!IsStopped(in.report),
         NEW history, NEW report, NEW current,
         in.promotion = Gate!Promotion(history, report, current), ~Gate!IsStopped(in.promotion)
  PROVE  Gate!AcceptedBeforeApproval(in)
<1> SUFFICES ASSUME Gate!Acceptance(in) = "PASS"
             PROVE  /\ in.promotion.verdict = "owner_approval_required" /\ in.promotion.head.state = "shadow"
                    /\ in.report.baseline.snapshot.sources \cap in.report.holdout.snapshot.sources = {}
                    /\ \A m \in {in.report.baseline, in.report.holdout} : m.faults = {} /\ m.rows = <<1, 1>>
  BY DEF Gate!AcceptedBeforeApproval
<1>1. Gate!BoundInputs(in) /\ Gate!GateReasons(in.report, in.promotion, in.gates) = {}
  BY DEF Gate!Acceptance, Gate!Accepted
<1>2. in.report.baseline.snapshot.sources \cap in.report.holdout.snapshot.sources = {}
  BY <1>1 DEF Gate!BoundInputs, Gate!Independent
<1> DEFINE found == in.report.baseline.faults \cup in.report.holdout.faults
<1>3. /\ Gate!PromotionBound(in.promotion, in.report) /\ in.promotion.verdict # "stop"
      /\ in.gates.faults = found /\ in.gates.faults = {}
      /\ \A r \in {in.report.baseline.rows, in.report.holdout.rows} : r = <<1, 1>>
  BY <1>1 DEF Gate!GateReasons
<1>4. in.report.head.state = "shadow"
  BY ReplaysAreBound
<1>5. in.promotion.head.state = "shadow"
  BY <1>3, <1>4 DEF Gate!PromotionBound
<1>6. in.promotion.verdict = "owner_approval_required"
  <2>1. \A code : Gate!IsStopped(Gate!Stopped(code))
    BY DEF Gate!IsStopped, Gate!Stopped
  <2>2. in.promotion.verdict \in {"stop", IF in.promotion.head.state = "shadow" THEN "owner_approval_required"
                                          ELSE "activation_eligible"}
    BY <2>1 DEF Gate!Promotion
  <2> QED BY <1>3, <1>5, <2>2
<1> QED BY <1>2, <1>3, <1>5, <1>6

\* A pass that can be measured was repeated alike, on the record it was asked for,
\* and what it counted wrong is what the oracles found.
LEMMA UntroubledRuns ==
  ASSUME NEW run, NEW snapshot, NEW pattern, Gate!Trouble(run, snapshot, pattern) = None
  PROVE  /\ run.after = run.repeat /\ run.after.head = pattern
         /\ run.after.faults \cap Gate!Oracled = run.oracles
BY NoneIsNothing DEF Gate!Trouble, Gate!BoundTo, Gate!Measurable

\* promotion.py, replay.py: an activation has a replay behind it that ran, twice
\* alike, on the very record the owner approved, under the very policy the owner
\* approved, left people no more work than before and counted nothing wrong.
THEOREM ActivationAlwaysReplayed ==
  ASSUME NEW pattern, NEW snapshots, NEW replayed, NEW runs, NEW index,
         NEW report, report = Gate!Replayed(pattern, snapshots, replayed, runs, index), ~Gate!IsStopped(report),
         pattern.revision \in Int,
         \A run \in {runs.baseline, runs.holdout} : \A m \in Gate!Manual :
           run.before.manual[m] \in Int /\ run.after.manual[m] \in Int,
         NEW Records, NEW history \in Seq(Records), NEW policy
  PROVE  Gate!ActivationWasReplayed(history, report, policy, snapshots, runs)
<1> DEFINE decision == Gate!Promotion(history, report, policy)
           activation == Gate!Activation(history, report, decision, policy)
           head == Gate!Last(history)
           i == Len(history) - 1
<1> SUFFICES ASSUME ~Gate!IsStopped(activation)
             PROVE  /\ i \in 1 .. Len(history) - 1
                    /\ history[i].state = "shadow" /\ activation.revision = history[i].revision + 2
                    /\ activation.head.owner.ref = Gate!ApprovalRef(history[i], report, policy)
                    /\ history[i].conflicts = {} /\ head.conflicts = {}
                    /\ \A run \in {runs.baseline, runs.holdout} :
                         /\ run.after = run.repeat /\ run.after.head = history[i] /\ run.after.faults = {} /\ run.oracles = {}
                         /\ \A m \in Gate!Manual : run.after.manual[m] <= run.before.manual[m]
  <2>1. \A split \in Gate!Range(Gate!Splits) : runs[split] \in {runs.baseline, runs.holdout}
    BY DEF Gate!Range, Gate!Splits
  <2> HIDE DEF activation, decision, head
  <2>2. Gate!ActivationWasReplayed(history, report, policy, snapshots, runs) <=>
          (~Gate!IsStopped(activation) =>
             \E k \in 1 .. Len(history) - 1 :
               /\ history[k].state = "shadow" /\ k = Len(history) - 1 /\ activation.revision = history[k].revision + 2
               /\ activation.head.owner.ref = Gate!ApprovalRef(history[k], report, policy)
               /\ history[k].conflicts = {} /\ head.conflicts = {}
               /\ \A split \in Gate!Range(Gate!Splits) :
                    /\ runs[split].after = runs[split].repeat /\ runs[split].after.head = history[k]
                    /\ runs[split].after.faults = {} /\ runs[split].oracles = {}
                    /\ \A m \in Gate!Manual : runs[split].after.manual[m] <= runs[split].before.manual[m])
    BY SMTT(40) DEF Gate!ActivationWasReplayed, activation, decision, head
  <2> QED BY <2>1, <2>2
<1>1. \A code : Gate!IsStopped(Gate!Stopped(code))
  BY DEF Gate!IsStopped, Gate!Stopped
<1>2. /\ decision.verdict = "activation_eligible" /\ ~Gate!IsStopped(decision)
      /\ activation.head = head /\ activation.revision = head.revision + 1
  <2> HIDE DEF decision
  <2> QED BY <1>1 DEF Gate!Activation
\* What the decision leaves no reason against.
<1> DEFINE shadow == Gate!Shadow(history)
<1>3. /\ head.state # "shadow" /\ policy # None
      /\ Gate!ThresholdReasons(IF shadow = None THEN head ELSE shadow, report, policy) = {}
      /\ ~(shadow = None /\ head.state \notin {"suspended", "retired"}) /\ head.state \notin {"suspended", "retired"}
      /\ Gate!IsEvaluated(shadow, report)
      /\ head.state = "owner_approved" => Gate!ExactSuccessor(shadow, head)
      /\ head.state = "owner_approved" /\ head.owner # None => head.owner.ref = Gate!ApprovalRef(shadow, report, policy)
  BY <1>1, <1>2 DEF Gate!Promotion, Gate!IsEvaluated
<1>4. /\ head.state = "owner_approved" /\ Len(history) > 1 /\ shadow = history[i]
  BY <1>3 DEF Gate!Shadow
<1>5. shadow = pattern /\ pattern.state = "shadow"
  BY <1>3, ReplaysAreBound DEF Gate!IsEvaluated
<1>6. /\ head.revision = shadow.revision + 1 /\ head.owner # None /\ head.conflicts = shadow.conflicts
      /\ head.owner.ref = Gate!ApprovalRef(shadow, report, policy)
  BY <1>3, <1>4 DEF Gate!ExactSuccessor
<1>7. /\ shadow.conflicts = {}
      /\ report.baseline.faults = {} /\ report.holdout.faults = {}
      /\ ~Gate!Regressed(report.baseline, policy) /\ ~Gate!Regressed(report.holdout, policy)
  BY <1>3 DEF Gate!ThresholdReasons, Gate!Contradicted, Gate!IsEvaluated
<1>8. ASSUME NEW run \in {runs.baseline, runs.holdout}
      PROVE  /\ run.after = run.repeat /\ run.after.head = pattern /\ run.after.faults = {} /\ run.oracles = {}
             /\ \A m \in Gate!Manual : run.after.manual[m] <= run.before.manual[m]
  <2>1. PICK snapshot : Gate!Trouble(run, snapshot, pattern) = None /\ Gate!Metrics(snapshot, run) \in {report.baseline, report.holdout}
    BY ReplaysAreBound
  <2>2. /\ run.after = run.repeat /\ run.after.head = pattern
        /\ run.after.faults \cap Gate!Oracled = run.oracles
    BY <2>1, UntroubledRuns
  <2>3. /\ (run.after.faults \ Gate!Oracled) \cup run.oracles = {}
        /\ ~Gate!Regressed(Gate!Metrics(snapshot, run), policy)
    BY <1>7, <2>1 DEF Gate!Metrics
  <2>4. \A m \in Gate!Manual : run.after.manual[m] <= run.before.manual[m]
    BY <2>3 DEF Gate!Regressed, Gate!Metrics
  <2> QED BY <2>2, <2>3, <2>4
<1>9. Len(history) \in Nat
  OBVIOUS
<1>10. activation.revision = shadow.revision + 2
  BY <1>2, <1>5, <1>6
<1> HIDE DEF activation, decision, head, shadow
<1> QED BY <1>2, <1>4, <1>5, <1>6, <1>7, <1>8, <1>9, <1>10

-----------------------------------------------------------------------------
(* The mined patterns.                                                       *)

\* A published text with its parameters taken out has none.
LEMMA PublicHasNoRaw ==
  ASSUME NEW words
  PROVE  ~Corpus!HasRaw(Corpus!Public(words))
BY ParameterIsNoValue DEF Corpus!HasRaw, Corpus!Public, Corpus!Range

\* A candidate is about the texts it was made for.
LEMMA CandidatesTell ==
  ASSUME NEW kind, NEW texts, NEW relation, NEW entries, NEW records,
         NEW c, c = Corpus!Candidate(kind, texts, relation, entries, records)
  PROVE  c.proposal.kind = kind /\ c.proposal.texts = texts
<1>1. c.proposal = Corpus!Proposal(kind, texts, relation, entries)
  BY DEF Corpus!Candidate
<1> QED BY <1>1 DEF Corpus!Proposal

\* What is mined of the skeletons and of the texts, by what it is made for.
SkeletonGroups(records, support) ==
  {g \in {{r \in Corpus!Usable(records) : r.scope = q.scope /\ r.skeleton = q.skeleton} : q \in Corpus!Usable(records)} :
     Corpus!Enough(g, support)}
SkeletonOf(g) == (CHOOSE r \in g : TRUE).skeleton
ActionOf(g) == (CHOOSE r \in g : TRUE).outcome.action
AgreedGroups(records, support) ==
  {g \in SkeletonGroups(records, support) : Corpus!Cardinality(Corpus!Outcomes(g)) = 1 /\ ~Corpus!HasRaw(SkeletonOf(g))}
Templates(G, records) ==
  {Corpus!Candidate("slot_template", {SkeletonOf(g)}, None, g, records) : g \in {g \in G : Corpus!Cardinality({r.slots : r \in g}) > 1}}
Decisions(G, records) ==
  {Corpus!Candidate("include_exclude", {SkeletonOf(g)}, ActionOf(g), g, records) : g \in G}
Splittings(G, records) ==
  {Corpus!Candidate("split_merge", Corpus!Parts(g), "partitioned_outcomes", g, records) :
     g \in {g \in G : Corpus!Cardinality(Corpus!Outcomes(g)) > 1}}
LEMMA SkeletonCandidatesAre ==
  ASSUME NEW records, NEW support
  PROVE  Corpus!SkeletonCandidates(records, support) =
           Templates(AgreedGroups(records, support), records) \cup Decisions(AgreedGroups(records, support), records)
           \cup Splittings(SkeletonGroups(records, support), records)
BY Zenon DEF Corpus!SkeletonCandidates, Templates, Decisions, Splittings, AgreedGroups, SkeletonGroups, SkeletonOf, ActionOf

TextPairs(facts) ==
  {<<q[1].scope, {q[1].words, q[2].words}>> : q \in {q \in facts \X facts : q[1].scope = q[2].scope /\ q[1].words # q[2].words}}
RowsOf(facts, scope, x) == {r \in facts : r.scope = scope /\ r.words = x}
OneText(p) == CHOOSE x \in p[2] : TRUE
OtherText(p) == CHOOSE y \in p[2] : y # OneText(p)
LEMMA TextCandidatesAre ==
  ASSUME NEW records, NEW support
  PROVE  Corpus!TextCandidates(records, support) =
           UNION {Corpus!PairCandidates(OneText(p), OtherText(p), RowsOf(Corpus!Usable(records), p[1], OneText(p)),
                                        RowsOf(Corpus!Usable(records), p[1], OtherText(p)), records, support) :
                    p \in TextPairs(Corpus!Usable(records))}
BY Zenon DEF Corpus!TextCandidates, TextPairs, RowsOf, OneText, OtherText

\* A pair of texts is asked for when neither holds a parameter, and all but its
\* modifiers are about both of them.
LEMMA PairCandidatesAre ==
  ASSUME NEW x, NEW y, NEW left, NEW right, NEW records, NEW support,
         NEW c \in Corpus!PairCandidates(x, y, left, right, records, support)
  PROVE  /\ ~Corpus!HasRaw(x) /\ ~Corpus!HasRaw(y)
         /\ \E kind, texts, relation, entries :
              /\ c = Corpus!Candidate(kind, texts, relation, entries, records)
              /\ kind # "critical_modifier" => texts = {x, y}
<1> DEFINE entries == left \cup right
           of(kind, about, relation) == Corpus!Candidate(kind, about, relation, entries, records)
           agreed == Corpus!Cardinality(Corpus!Outcomes(entries)) = 1
           outcome == (CHOOSE r \in entries : TRUE).outcome
           near == Corpus!LexicallyNear(x, y)
           modifiers == {of("critical_modifier", Corpus!Modifier(x, y, entries), "hard_boundary_review") :
                           q \in {q \in {1} : ~agreed /\ Corpus!Modifier(x, y, entries) # {}}}
           links == {of("must_link_cannot_link", {x, y}, relation) : relation \in {q \in Corpus!Linked(entries) : near}}
           merges == {of(q[1], {x, y}, q[2]) :
                        q \in {q \in {<<"synonym_abbreviation", None>>, <<"split_merge", "same_outcome">>} : near /\ agreed}}
           norms == {of("category_specific_normalization", {x, y}, outcome.category) :
                       q \in {q \in {1} : /\ near /\ agreed /\ outcome.action = "accept"
                                          /\ Corpus!Enough(left, support) /\ Corpus!Enough(right, support)}}
           refused == Corpus!HasRaw(x) \/ Corpus!HasRaw(y) \/ ~Corpus!Enough(entries, support)
<1>1. Corpus!PairCandidates(x, y, left, right, records, support) =
        IF refused THEN {} ELSE modifiers \cup links \cup merges \cup norms
  BY Zenon DEF Corpus!PairCandidates
<1> HIDE DEF modifiers, links, merges, norms
<1>2. ~refused /\ (c \in modifiers \/ c \in links \/ c \in merges \/ c \in norms)
  BY <1>1
<1>3. CASE c \in modifiers
  BY <1>2, <1>3 DEF modifiers
<1>4. CASE c \in links
  BY <1>2, <1>4 DEF links
<1>5. CASE c \in merges
  BY <1>2, <1>5 DEF merges
<1>6. CASE c \in norms
  BY <1>2, <1>6 DEF norms
<1> QED BY <1>2, <1>3, <1>4, <1>5, <1>6

\* offline.py: no candidate but a modifier publishes a parameter value of a row.
THEOREM NoParameterEverPublished ==
  ASSUME NEW records, NEW support
  PROVE  Corpus!NoParameterPublished(Corpus!Mined(records, support))
<1> SUFFICES ASSUME NEW c \in Corpus!Mined(records, support), c.proposal.kind # "critical_modifier",
                    NEW text \in c.proposal.texts
             PROVE  ~Corpus!HasRaw(text)
  BY DEF Corpus!NoParameterPublished
<1> DEFINE G == SkeletonGroups(records, support)
           A == AgreedGroups(records, support)
<1>1. \/ c \in Templates(A, records) \/ c \in Decisions(A, records) \/ c \in Splittings(G, records)
      \/ c \in Corpus!TextCandidates(records, support)
  BY SkeletonCandidatesAre DEF Corpus!Mined
<1>2. CASE c \in Templates(A, records) \/ c \in Decisions(A, records)
  <2>1. \E kind, relation : \E g \in A : c = Corpus!Candidate(kind, {SkeletonOf(g)}, relation, g, records)
    <3>1. CASE c \in Templates(A, records)
      BY <3>1 DEF Templates
    <3>2. CASE c \in Decisions(A, records)
      BY <3>2 DEF Decisions
    <3> QED BY <1>2, <3>1, <3>2
  <2>2. \A g \in A : ~Corpus!HasRaw(SkeletonOf(g))
    BY DEF AgreedGroups
  <2> QED BY <2>1, <2>2, CandidatesTell
<1>3. CASE c \in Splittings(G, records)
  <2>1. PICK g : c = Corpus!Candidate("split_merge", Corpus!Parts(g), "partitioned_outcomes", g, records)
    BY <1>3 DEF Splittings
  <2>2. text \in Corpus!Parts(g)
    BY <2>1, CandidatesTell
  <2> QED BY <2>2, PublicHasNoRaw DEF Corpus!Parts
<1>4. CASE c \in Corpus!TextCandidates(records, support)
  <2>1. PICK x, y, left, right : c \in Corpus!PairCandidates(x, y, left, right, records, support)
    BY <1>4, TextCandidatesAre
  <2>2. ~Corpus!HasRaw(x) /\ ~Corpus!HasRaw(y)
    BY <2>1, PairCandidatesAre
  <2>3. PICK kind, texts, relation, entries :
          /\ c = Corpus!Candidate(kind, texts, relation, entries, records)
          /\ kind # "critical_modifier" => texts = {x, y}
    BY <2>1, PairCandidatesAre
  <2>4. text \in {x, y}
    BY <2>3, CandidatesTell
  <2> QED BY <2>2, <2>4
<1> QED BY <1>1, <1>2, <1>3, <1>4

\* offline.py: private rows leave no trace in the descriptions or the candidates,
\* and still count in the coverage.
THEOREM PrivateRowsAlwaysUnseen ==
  ASSUME NEW records, NEW rules, NEW support
  PROVE  Corpus!PrivateRowsAreUnseen(records, rules, support, Corpus!Mined(records, support))
<1> DEFINE open == {r \in records : ~r.private}
<1>1. Corpus!Confirmed(records) = Corpus!Confirmed(open) /\ Corpus!Described(records) = Corpus!Described(open)
  BY DEF Corpus!Confirmed, Corpus!Described, Corpus!ReviewRelevant
<1>2. Corpus!Coverage(records, rules).review = Corpus!Cardinality({r \in records : r.eligibility = "review_relevant"})
  BY DEF Corpus!Coverage, Corpus!ReviewRelevant
<1> HIDE DEF open
<1>3. Corpus!Contradictory(records) = Corpus!Contradictory(open)
  BY <1>1 DEF Corpus!Contradictory
<1>4. Corpus!Usable(records) = Corpus!Usable(open)
  BY <1>1, <1>3 DEF Corpus!Usable
<1>5. \A kind, texts, relation, entries :
         Corpus!Candidate(kind, texts, relation, entries, records) = Corpus!Candidate(kind, texts, relation, entries, open)
  BY <1>1, <1>3 DEF Corpus!Candidate
<1>6. Corpus!SkeletonCandidates(records, support) = Corpus!SkeletonCandidates(open, support)
  <2>1. SkeletonGroups(records, support) = SkeletonGroups(open, support)
    BY <1>4 DEF SkeletonGroups
  <2>2. AgreedGroups(records, support) = AgreedGroups(open, support)
    BY <2>1 DEF AgreedGroups
  <2>3. ASSUME NEW G PROVE Templates(G, records) = Templates(G, open)
    BY <1>5 DEF Templates
  <2>4. ASSUME NEW G PROVE Decisions(G, records) = Decisions(G, open)
    BY <1>5 DEF Decisions
  <2>5. ASSUME NEW G PROVE Splittings(G, records) = Splittings(G, open)
    BY <1>5 DEF Splittings
  <2> QED BY <2>1, <2>2, <2>3, <2>4, <2>5, SkeletonCandidatesAre
<1>7. \A x, y, left, right :
         Corpus!PairCandidates(x, y, left, right, records, support) = Corpus!PairCandidates(x, y, left, right, open, support)
  <2> SUFFICES ASSUME NEW x, NEW y, NEW left, NEW right
               PROVE  Corpus!PairCandidates(x, y, left, right, records, support) =
                      Corpus!PairCandidates(x, y, left, right, open, support)
    OBVIOUS
  <2> DEFINE entries == left \cup right
             agreed == Corpus!Cardinality(Corpus!Outcomes(entries)) = 1
             outcome == (CHOOSE r \in entries : TRUE).outcome
             near == Corpus!LexicallyNear(x, y)
             of(R, kind, about, relation) == Corpus!Candidate(kind, about, relation, entries, R)
             modifiers(R) == {of(R, "critical_modifier", Corpus!Modifier(x, y, entries), "hard_boundary_review") :
                                q \in {q \in {1} : ~agreed /\ Corpus!Modifier(x, y, entries) # {}}}
             links(R) == {of(R, "must_link_cannot_link", {x, y}, relation) : relation \in {q \in Corpus!Linked(entries) : near}}
             merges(R) == {of(R, q[1], {x, y}, q[2]) :
                             q \in {q \in {<<"synonym_abbreviation", None>>, <<"split_merge", "same_outcome">>} : near /\ agreed}}
             norms(R) == {of(R, "category_specific_normalization", {x, y}, outcome.category) :
                            q \in {q \in {1} : /\ near /\ agreed /\ outcome.action = "accept"
                                               /\ Corpus!Enough(left, support) /\ Corpus!Enough(right, support)}}
             refused == Corpus!HasRaw(x) \/ Corpus!HasRaw(y) \/ ~Corpus!Enough(entries, support)
  <2>1. \A R : Corpus!PairCandidates(x, y, left, right, R, support) =
                 IF refused THEN {} ELSE modifiers(R) \cup links(R) \cup merges(R) \cup norms(R)
    BY ZenonT(60) DEF Corpus!PairCandidates
  <2>2. \A kind, about, relation : of(records, kind, about, relation) = of(open, kind, about, relation)
    BY <1>5
  <2> HIDE DEF of, agreed, outcome, near, refused
  <2>3. modifiers(records) = modifiers(open) /\ links(records) = links(open)
    BY <2>2
  <2>4. merges(records) = merges(open)
    BY <2>2
  <2>5. norms(records) = norms(open)
    BY <2>2
  <2> HIDE DEF modifiers, links, merges, norms
  <2> QED BY <2>1, <2>3, <2>4, <2>5
<1>8. Corpus!TextCandidates(records, support) = Corpus!TextCandidates(open, support)
  <2> DEFINE facts == Corpus!Usable(open)
             asked(p, R) == Corpus!PairCandidates(OneText(p), OtherText(p), RowsOf(facts, p[1], OneText(p)),
                                                  RowsOf(facts, p[1], OtherText(p)), R, support)
  <2>1. Corpus!TextCandidates(open, support) = UNION {asked(p, open) : p \in TextPairs(facts)}
    BY TextCandidatesAre
  <2>2. Corpus!TextCandidates(records, support) = UNION {asked(p, records) : p \in TextPairs(facts)}
    BY <1>4, TextCandidatesAre
  <2>3. \A p : asked(p, records) = asked(p, open)
    BY <1>7
  <2> HIDE DEF asked
  <2> QED BY <2>1, <2>2, <2>3
<1>9. Corpus!Descriptions(records) = Corpus!Descriptions(open)
  BY <1>1, Zenon DEF Corpus!Descriptions
<1> QED BY <1>2, <1>6, <1>8, <1>9 DEF Corpus!PrivateRowsAreUnseen, Corpus!Mined, open

-----------------------------------------------------------------------------
(* The decision of one row of a drawing card.                                *)

\* A decision is a decision.
LEMMA Decides ==
  /\ \A c, q, k, s : Rules!Decision(c, q, k, s) # Rules!Undecided
  /\ \A c, w : Rules!Reviewed(c, w) # Rules!Undecided
<1>1. ASSUME NEW c, NEW q, NEW k, NEW s PROVE Rules!Decision(c, q, k, s) # Rules!Undecided
  <2>1. "category" \in DOMAIN Rules!Decision(c, q, k, s)
    BY DEF Rules!Decision
  <2>2. DOMAIN Rules!Undecided = {}
    BY DEF Rules!Undecided
  <2> QED BY <2>1, <2>2
<1>2. ASSUME NEW c, NEW w PROVE Rules!Reviewed(c, w) # Rules!Undecided
  <2>1. "category" \in DOMAIN Rules!Reviewed(c, w)
    BY DEF Rules!Reviewed
  <2>2. DOMAIN Rules!Undecided = {}
    BY DEF Rules!Undecided
  <2> QED BY <2>1, <2>2
<1> QED BY <1>1, <1>2

\* The first stage that decides is the first of the six.
LEMMA FirstIs ==
  ASSUME NEW p, NEW q, NEW r, NEW s, NEW t, NEW u, u # Rules!Undecided
  PROVE  Rules!First(<<p, q, r, s, t, u>>) =
           IF p # Rules!Undecided THEN p ELSE IF q # Rules!Undecided THEN q ELSE IF r # Rules!Undecided THEN r
           ELSE IF s # Rules!Undecided THEN s ELSE IF t # Rules!Undecided THEN t ELSE u
<1> DEFINE stages == <<p, q, r, s, t, u>>
           is(i) == stages[i] # Rules!Undecided /\ \A j \in 1 .. i - 1 : stages[j] = Rules!Undecided
<1>1. Rules!First(stages) = stages[CHOOSE i \in DOMAIN stages : is(i)]
  BY DEF Rules!First
<1>2. DOMAIN stages = 1 .. 6 /\ stages[1] = p /\ stages[2] = q /\ stages[3] = r /\ stages[4] = s /\ stages[5] = t /\ stages[6] = u
  OBVIOUS
<1> HIDE DEF stages
<1>3. \A i, j \in 1 .. 6 : is(i) /\ is(j) => i = j
  <2> SUFFICES ASSUME NEW i \in 1 .. 6, NEW j \in 1 .. 6, is(i), is(j), i < j PROVE FALSE
    OBVIOUS
  <2>1. i \in 1 .. j - 1
    OBVIOUS
  <2> QED BY <2>1
<1>4. \A i \in 1 .. 6 : is(i) => Rules!First(stages) = stages[i]
  BY <1>1, <1>2, <1>3
<1>5. CASE p # Rules!Undecided
  <2>1. is(1) BY <1>2, <1>5
  <2> QED BY <1>2, <1>4, <1>5, <2>1 DEF stages
<1>6. CASE p = Rules!Undecided /\ q # Rules!Undecided
  <2>1. is(2) BY <1>2, <1>6
  <2> QED BY <1>2, <1>4, <1>6, <2>1 DEF stages
<1>7. CASE p = Rules!Undecided /\ q = Rules!Undecided /\ r # Rules!Undecided
  <2>1. is(3) BY <1>2, <1>7
  <2> QED BY <1>2, <1>4, <1>7, <2>1 DEF stages
<1>8. CASE p = Rules!Undecided /\ q = Rules!Undecided /\ r = Rules!Undecided /\ s # Rules!Undecided
  <2>1. is(4) BY <1>2, <1>8
  <2> QED BY <1>2, <1>4, <1>8, <2>1 DEF stages
<1>9. CASE p = Rules!Undecided /\ q = Rules!Undecided /\ r = Rules!Undecided /\ s = Rules!Undecided /\ t # Rules!Undecided
  <2>1. is(5) BY <1>2, <1>9
  <2> QED BY <1>2, <1>4, <1>9, <2>1 DEF stages
<1>10. CASE p = Rules!Undecided /\ q = Rules!Undecided /\ r = Rules!Undecided /\ s = Rules!Undecided /\ t = Rules!Undecided
  <2>1. is(6) BY <1>2, <1>10
  <2> QED BY <1>2, <1>4, <1>10, <2>1 DEF stages
<1> QED BY <1>5, <1>6, <1>7, <1>8, <1>9, <1>10

\* A suggestion leaves the row and its amounts to the review.
LEMMA SuggestedSays ==
  ASSUME NEW suggestion, NEW retrieved, NEW d, d = Rules!Suggested(suggestion, retrieved)
  PROVE  /\ d # Rules!Undecided /\ d.quantity = "review" /\ d.cost = "review" /\ d.review = TRUE
         /\ d.strategy \in {"review", "tiny_model_suggestion", "raised"}
<1> DEFINE renamed(c, w, s) == [Rules!Reviewed(c, w) EXCEPT !.strategy = s]
<1>1. ASSUME NEW c, NEW w, d = Rules!Reviewed(c, w)
      PROVE  d # Rules!Undecided /\ d.quantity = "review" /\ d.cost = "review" /\ d.review = TRUE /\ d.strategy = "review"
  BY <1>1, Decides DEF Rules!Reviewed
<1>2. ASSUME NEW c, NEW w, NEW s, d = renamed(c, w, s)
      PROVE  d # Rules!Undecided /\ d.quantity = "review" /\ d.cost = "review" /\ d.review = TRUE /\ d.strategy = s
  <2>1. d.quantity = "review" /\ d.cost = "review" /\ d.review = TRUE /\ d.strategy = s /\ "category" \in DOMAIN d
    BY <1>2 DEF Rules!Reviewed
  <2>2. DOMAIN Rules!Undecided = {}
    BY DEF Rules!Undecided
  <2> QED BY <2>1, <2>2
<1>3. \/ \E c, w : d = Rules!Reviewed(c, w)
      \/ \E c, w : \E s \in {"tiny_model_suggestion", "raised"} : d = renamed(c, w, s)
  BY DEF Rules!Suggested, Rules!ModelSuggestion, Rules!Raised
<1> HIDE DEF renamed
<1> QED BY <1>1, <1>2, <1>3

\* The cascade, one stage after the other.
LEMMA MatchIs ==
  ASSUME NEW row, NEW call, NEW examples, NEW match, match = Rules!Match(row, call, examples)
  PROVE  match = IF Rules!Approved(call.approval) # Rules!Undecided THEN Rules!Approved(call.approval)
                 ELSE IF Rules!Dictionary(row, examples) # Rules!Undecided THEN Rules!Dictionary(row, examples)
                 ELSE IF Rules!Certain(row) # Rules!Undecided THEN Rules!Certain(row)
                 ELSE IF Rules!Consensus(row, call.consensus) # Rules!Undecided THEN Rules!Consensus(row, call.consensus)
                 ELSE IF Rules!ByRules(row) # Rules!Undecided THEN Rules!ByRules(row)
                 ELSE Rules!Suggested(call.suggestion, Rules!Retrieved(row, examples))
<1>1. Rules!Suggested(call.suggestion, Rules!Retrieved(row, examples)) # Rules!Undecided
  BY SuggestedSays
<1>2. match = Rules!First(<<Rules!Approved(call.approval), Rules!Dictionary(row, examples), Rules!Certain(row), Rules!Consensus(row, call.consensus),
                      Rules!ByRules(row), Rules!Suggested(call.suggestion, Rules!Retrieved(row, examples))>>)
  BY Zenon DEF Rules!Match
<1> QED BY <1>1, <1>2, FirstIs

\* An approval is a word of a person.
LEMMA ApprovedSays ==
  ASSUME NEW approval, Rules!Approved(approval) # Rules!Undecided
  PROVE  Rules!Approved(approval).strategy = "manual_review"
BY DEF Rules!Approved, Rules!Excluded, Rules!Decision

\* An earlier answer is replayed in a unit of its category only.
LEMMA FromExampleSays ==
  ASSUME NEW row, NEW e, NEW d, d = Rules!FromExample(row, e)
  PROVE  /\ d # Rules!Undecided
         /\ \/ d.review = TRUE /\ d.strategy = "review" /\ d.quantity = "review"
            \/ d.strategy = "confirmed_dictionary" /\ (d.quantity = "include" => Rules!UnitFits(row.unit, d.category))
<1>1. CASE e.category # None /\ e.quantity = "include" /\ ~Rules!UnitFits(row.unit, e.category)
  <2>1. d = [Rules!Reviewed(e.category, {"UNIT_MISMATCH"}) EXCEPT !.cost = e.cost]
    BY <1>1 DEF Rules!FromExample
  <2>2. d.review = TRUE /\ d.strategy = "review" /\ d.quantity = "review" /\ "category" \in DOMAIN d
    BY <2>1 DEF Rules!Reviewed
  <2>3. DOMAIN Rules!Undecided = {}
    BY DEF Rules!Undecided
  <2> QED BY <2>2, <2>3
<1>2. CASE /\ ~(e.category # None /\ e.quantity = "include" /\ ~Rules!UnitFits(row.unit, e.category))
           /\ e.category = None \/ e.unit \in {None, row.unit}
  <2>1. d = Rules!Decision(e.category, e.quantity, e.cost, "confirmed_dictionary")
    BY <1>2, Zenon DEF Rules!FromExample
  <2>2. d.strategy = "confirmed_dictionary" /\ d.quantity = e.quantity /\ d.category = e.category
    BY <2>1 DEF Rules!Decision
  <2>3. e.category = None => Rules!UnitFits(row.unit, e.category)
    BY RulesHaveCategories DEF Rules!UnitFits
  <2> QED BY <1>2, <2>1, <2>2, <2>3, Decides
<1>3. CASE /\ ~(e.category # None /\ e.quantity = "include" /\ ~Rules!UnitFits(row.unit, e.category))
           /\ ~(e.category = None \/ e.unit \in {None, row.unit})
  <2>1. d = Rules!Reviewed(e.category, {"UNIT_MISMATCH"})
    BY <1>3, Zenon DEF Rules!FromExample
  <2> QED BY <2>1, Decides DEF Rules!Reviewed
<1> QED BY <1>1, <1>2, <1>3

\* The answers in force decide as one of them does, or leave the row to the review.
LEMMA DictionarySays ==
  ASSUME NEW row, NEW examples, NEW d, d = Rules!Dictionary(row, examples), d # Rules!Undecided
  PROVE  \/ d.review = TRUE /\ d.strategy = "review" /\ d.quantity = "review"
         \/ d.strategy = "confirmed_dictionary" /\ (d.quantity = "include" => Rules!UnitFits(row.unit, d.category))
<1>1. \/ d = Rules!Reviewed(None, {"CONFLICT_REQUIRES_REVIEW"})
      \/ \E e : d = Rules!FromExample(row, e)
  BY DEF Rules!Dictionary
<1>2. CASE d = Rules!Reviewed(None, {"CONFLICT_REQUIRES_REVIEW"})
  BY <1>2 DEF Rules!Reviewed
<1>3. CASE \E e : d = Rules!FromExample(row, e)
  BY <1>3, FromExampleSays
<1> QED BY <1>1, <1>2, <1>3

\* What is certain of a row includes nothing, and leaves an unresolved row to the review.
LEMMA CertainSays ==
  ASSUME NEW row, NEW d, d = Rules!Certain(row)
  PROVE  /\ Rules!Unresolved(row) => d # Rules!Undecided /\ d.review = TRUE
         /\ d # Rules!Undecided => /\ d.quantity # "include"
                             /\ d.strategy \notin {"manual_review", "machine_consensus_exact", "exact_feedback_replay"}
<1>1. CASE Rules!Unresolved(row)
  <2>1. d = Rules!Reviewed(None, row.warnings \cap Rules!OfFormulas)
    BY <1>1 DEF Rules!Certain
  <2>2. d.review = TRUE /\ d.quantity = "review" /\ d.strategy = "review"
    BY <2>1 DEF Rules!Reviewed
  <2> QED BY <2>1, <2>2, Decides
<1>2. CASE ~Rules!Unresolved(row)
  <2>1. \/ d = Rules!Undecided
        \/ \E s \in {"deterministic_no_impact", "deterministic_negative"} : d = Rules!Excluded(s)
        \/ d = Rules!Reviewed(PowerCable, {})
        \/ d = Rules!Decision(PowerCable, "exclude", "include", "deterministic_cable_coupling_cost_only")
    BY <1>2 DEF Rules!Certain
  <2>2. CASE \E s \in {"deterministic_no_impact", "deterministic_negative"} : d = Rules!Excluded(s)
    BY <1>2, <2>2 DEF Rules!Excluded, Rules!Decision
  <2>3. CASE d = Rules!Reviewed(PowerCable, {})
    BY <1>2, <2>3 DEF Rules!Reviewed
  <2>4. CASE d = Rules!Decision(PowerCable, "exclude", "include", "deterministic_cable_coupling_cost_only")
    BY <1>2, <2>4 DEF Rules!Decision
  <2> QED BY <1>2, <2>1, <2>2, <2>3, <2>4
<1> QED BY <1>1, <1>2

\* A consensus is a line every machine agrees on, in a unit of its category.
LEMMA ConsensusSays ==
  ASSUME NEW row, NEW lines, NEW d, d = Rules!Consensus(row, lines), d # Rules!Undecided
  PROVE  \/ d.strategy = "review" /\ d.quantity = "review"
         \/ /\ d.strategy = "machine_consensus_exact" /\ ~Rules!NeedsReview(lines, row)
            /\ d.quantity = "include" => Rules!UnitFits(row.unit, d.category)
            /\ \E r \in Rules!Agreed(Rules!Parsed(lines)) :
                 Rules!KeyOf(r) = Rules!RowKey(row) /\ <<d.category, d.quantity, d.cost>> = <<r.category, r.quantity, r.cost>>
<1> DEFINE found == {r \in Rules!Agreed(Rules!Parsed(lines)) : Rules!KeyOf(r) = Rules!RowKey(row)}
           one == CHOOSE r \in found : TRUE
<1>1. CASE Rules!NeedsReview(lines, row)
  <2>1. d = Rules!Reviewed(None, {"CONFLICT_REQUIRES_REVIEW"})
    BY <1>1 DEF Rules!Consensus
  <2> QED BY <2>1 DEF Rules!Reviewed
<1>2. CASE ~Rules!NeedsReview(lines, row)
  <2>1. found # {}
    BY <1>2 DEF Rules!Consensus
  <2>2. one \in found
    BY <2>1
  <2>3. d = IF one.quantity = "include" /\ ~Rules!UnitFits(row.unit, one.category) THEN Rules!Reviewed(one.category, {"UNIT_MISMATCH"})
            ELSE Rules!Decision(one.category, one.quantity, one.cost, "machine_consensus_exact")
    BY <1>2, <2>1 DEF Rules!Consensus
  <2> HIDE DEF one
  <2>4. CASE one.quantity = "include" /\ ~Rules!UnitFits(row.unit, one.category)
    BY <2>3, <2>4 DEF Rules!Reviewed
  <2>5. CASE ~(one.quantity = "include" /\ ~Rules!UnitFits(row.unit, one.category))
    <3>1. d = Rules!Decision(one.category, one.quantity, one.cost, "machine_consensus_exact")
      BY <2>3, <2>5
    <3>2. d.strategy = "machine_consensus_exact" /\ d.category = one.category /\ d.quantity = one.quantity /\ d.cost = one.cost
      BY <3>1 DEF Rules!Decision
    <3> QED BY <1>2, <2>2, <2>5, <3>2
  <2> QED BY <2>4, <2>5
<1> QED BY <1>1, <1>2

\* The rules speak for themselves, and include nothing in a unit its category does not have.
LEMMA RulesSay ==
  ASSUME NEW row, NEW d, d = Rules!ByRules(row), d # Rules!Undecided
  PROVE  /\ d.strategy \notin {"manual_review", "machine_consensus_exact", "exact_feedback_replay"}
         /\ d.quantity = "include" => Rules!UnitFits(row.unit, d.category)
<1> DEFINE compatible == {c \in {c \in DOMAIN Expected : Rules!RuleMatches(row.text, c)} : Rules!UnitFits(row.unit, c)}
<1>1. \/ \E c \in compatible : d = Rules!Deterministic(row, c)
      \/ \E c, w : d = Rules!Reviewed(c, w)
      \/ \E c : d = Rules!Decision(c, "exclude", "include", "deterministic_strong_rule_cost_only")
      \/ d = Rules!Excluded("deterministic_irrelevant")
  BY DEF Rules!ByRules
<1>2. CASE \E c \in compatible : d = Rules!Deterministic(row, c)
  BY <1>2 DEF Rules!Deterministic, Rules!Decision
<1>3. CASE \E c, w : d = Rules!Reviewed(c, w)
  BY <1>3 DEF Rules!Reviewed
<1>4. CASE \E c : d = Rules!Decision(c, "exclude", "include", "deterministic_strong_rule_cost_only")
  BY <1>4 DEF Rules!Decision
<1>5. CASE d = Rules!Excluded("deterministic_irrelevant")
  BY <1>5 DEF Rules!Excluded, Rules!Decision
<1> QED BY <1>1, <1>2, <1>3, <1>4, <1>5

\* matcher.py:332, context.py:68: a row whose formula has no value is decided by what
\* people said of it, whatever rules, agreements and earlier answers there are.
THEOREM UnresolvedNeverGuessed ==
  ASSUME NEW row, NEW call, NEW examples, NEW match, match = Rules!Match(row, call, examples),
         NEW result, result = Rules!Decided(row, call, match)
  PROVE  Rules!UnresolvedIsNotGuessed(row, result)
<1> SUFFICES ASSUME Rules!Unresolved(row), ~result.review
             PROVE  result.strategy \in {"manual_review", "confirmed_dictionary"}
  BY DEF Rules!UnresolvedIsNotGuessed
<1>1. result = match
  <2>1. Rules!Hazard(row, match)
    BY DEF Rules!Unresolved, Rules!Hazard, Rules!OfFormulas
  <2> QED BY <2>1 DEF Rules!Decided, Rules!Replayed
<1>2. \/ match = Rules!Approved(call.approval) /\ match # Rules!Undecided
      \/ match = Rules!Dictionary(row, examples) /\ match # Rules!Undecided
      \/ match = Rules!Certain(row)
  BY MatchIs, CertainSays
<1> QED BY <1>1, <1>2, ApprovedSays, DictionarySays, CertainSays

\* matcher.py:279, :364, :392: no path but an explicit answer to this row includes a
\* quantity in a unit its category does not have.
THEOREM QuantityAlwaysKeepsUnit ==
  ASSUME NEW row, NEW call, NEW examples, NEW match, match = Rules!Match(row, call, examples),
         NEW result, result = Rules!Decided(row, call, match)
  PROVE  Rules!QuantityKeepsUnit(row, result)
<1> SUFFICES ASSUME result.quantity = "include", result.strategy \notin {"manual_review", "exact_feedback_replay"}
             PROVE  Rules!UnitFits(row.unit, result.category)
  BY DEF Rules!QuantityKeepsUnit
<1>1. \A entry : Rules!ReplayOf(entry).strategy = "exact_feedback_replay"
  BY DEF Rules!ReplayOf, Rules!Decision
<1>2. result = match
  BY <1>1 DEF Rules!Decided, Rules!Replayed
<1>3. \/ match = Rules!Approved(call.approval) /\ match # Rules!Undecided
      \/ match = Rules!Dictionary(row, examples) /\ match # Rules!Undecided
      \/ match = Rules!Certain(row) /\ match # Rules!Undecided
      \/ match = Rules!Consensus(row, call.consensus) /\ match # Rules!Undecided
      \/ match = Rules!ByRules(row) /\ match # Rules!Undecided
      \/ match = Rules!Suggested(call.suggestion, Rules!Retrieved(row, examples))
  BY MatchIs
<1>4. CASE match = Rules!Dictionary(row, examples) /\ match # Rules!Undecided
  BY <1>2, <1>4, DictionarySays
<1>5. CASE match = Rules!Consensus(row, call.consensus) /\ match # Rules!Undecided
  BY <1>2, <1>5, ConsensusSays
<1>6. CASE match = Rules!ByRules(row) /\ match # Rules!Undecided
  BY <1>2, <1>6, RulesSay
<1>7. match.quantity # "review" /\ match.strategy # "manual_review"
  BY <1>2
<1>8. CASE match = Rules!Approved(call.approval) /\ match # Rules!Undecided
  BY <1>7, <1>8, ApprovedSays
<1>9. CASE match = Rules!Certain(row) /\ match # Rules!Undecided
  BY <1>2, <1>9, CertainSays
<1>10. CASE match = Rules!Suggested(call.suggestion, Rules!Retrieved(row, examples))
  <2> DEFINE suggestion == call.suggestion
             retrieved == Rules!Retrieved(row, examples)
  <2>0. match = Rules!Suggested(suggestion, retrieved)
    BY <1>10
  <2> HIDE DEF suggestion, retrieved
  <2>1. match.quantity = "review"
    BY <2>0, SuggestedSays
  <2> QED BY <1>7, <2>1
<1> QED BY <1>3, <1>4, <1>5, <1>6, <1>8, <1>9, <1>10

\* matcher.py:433-525: neighbours, indexes and the model change no amount, and put no
\* row into or out of the review.
THEOREM SuggestionsNeverDecide ==
  ASSUME NEW row, NEW call, {"approval", "consensus", "suggestion"} \subseteq DOMAIN call,
         NEW examples, NEW match, match = Rules!Match(row, call, examples)
  PROVE  Rules!SuggestionsDecideNothing(row, call, examples, match)
<1> DEFINE unaided == [call EXCEPT !.suggestion = Rules!NoSuggestion]
           alone == Rules!Match(row, unaided, examples)
           says(d) == <<d.quantity, d.cost, d.review>>
           none == Rules!Suggested(unaided.suggestion, Rules!Retrieved(row, examples))
           made == Rules!Suggested(call.suggestion, Rules!Retrieved(row, examples))
<1>1. unaided.approval = call.approval /\ unaided.consensus = call.consensus
  OBVIOUS
<1>2. says(none) = says(made)
  <2>1. ASSUME NEW suggestion, NEW retrieved, NEW d, d = Rules!Suggested(suggestion, retrieved)
        PROVE  says(d) = <<"review", "review", TRUE>>
    BY <2>1, SuggestedSays
  <2> DEFINE retrieved == Rules!Retrieved(row, examples)
             given == call.suggestion
             changed == unaided.suggestion
  <2>2. none = Rules!Suggested(changed, retrieved) /\ made = Rules!Suggested(given, retrieved)
    OBVIOUS
  <2> HIDE DEF says, none, made, retrieved, given, changed
  <2> QED BY <2>1, <2>2
<1>3. match = alone \/ (match = made /\ alone = none)
  <2> DEFINE decided == IF Rules!Approved(call.approval) # Rules!Undecided THEN Rules!Approved(call.approval)
                        ELSE IF Rules!Dictionary(row, examples) # Rules!Undecided THEN Rules!Dictionary(row, examples)
                        ELSE IF Rules!Certain(row) # Rules!Undecided THEN Rules!Certain(row)
                        ELSE IF Rules!Consensus(row, call.consensus) # Rules!Undecided THEN Rules!Consensus(row, call.consensus)
                        ELSE Rules!ByRules(row)
  <2>1. match = IF decided # Rules!Undecided THEN decided ELSE made
    BY MatchIs
  <2>2. alone = IF decided # Rules!Undecided THEN decided ELSE none
    <3> HIDE DEF unaided
    <3> QED BY <1>1, MatchIs
  <2> HIDE DEF decided, alone, none, made
  <2> QED BY <2>1, <2>2
<1>4. says(match) = says(alone)
  <2> HIDE DEF alone, none, made
  <2> QED BY <1>2, <1>3
<1> QED BY <1>4, Zenon DEF Rules!SuggestionsDecideNothing

\* consensus.py:36-67: machines decide a row only if every line that names it is whole
\* and says the same, for the rules in force.
THEOREM ConsensusAlwaysUnanimous ==
  ASSUME NEW row, NEW call, NEW examples, NEW match, match = Rules!Match(row, call, examples)
  PROVE  Rules!ConsensusIsUnanimous(row, call, match)
<1> SUFFICES ASSUME match.strategy = "machine_consensus_exact",
                    NEW l \in call.consensus, Rules!KeyOf(l) = Rules!RowKey(row)
             PROVE  <<l.category, l.quantity, l.cost>> = <<match.category, match.quantity, match.cost>> /\ l.sealed
  BY DEF Rules!ConsensusIsUnanimous
<1> DEFINE records == Rules!Parsed(call.consensus)
<1>1. match = Rules!Consensus(row, call.consensus) /\ match # Rules!Undecided
  <2>1. \/ match = Rules!Approved(call.approval) /\ match # Rules!Undecided
        \/ match = Rules!Dictionary(row, examples) /\ match # Rules!Undecided
        \/ match = Rules!Certain(row) /\ match # Rules!Undecided
        \/ match = Rules!Consensus(row, call.consensus) /\ match # Rules!Undecided
        \/ match = Rules!ByRules(row) /\ match # Rules!Undecided
        \/ match = Rules!Suggested(call.suggestion, Rules!Retrieved(row, examples))
    BY MatchIs
  <2>2. ~(match = Rules!Approved(call.approval) /\ match # Rules!Undecided)
    BY ApprovedSays
  <2>3. ~(match = Rules!Dictionary(row, examples) /\ match # Rules!Undecided)
    BY DictionarySays
  <2>4. ~(match = Rules!Certain(row) /\ match # Rules!Undecided)
    BY CertainSays
  <2>5. ~(match = Rules!ByRules(row) /\ match # Rules!Undecided)
    BY RulesSay
  <2>6. match # Rules!Suggested(call.suggestion, Rules!Retrieved(row, examples))
    BY SuggestedSays
  <2> QED BY <2>1, <2>2, <2>3, <2>4, <2>5, <2>6
<1>2. PICK r \in Rules!Agreed(records) :
        /\ Rules!KeyOf(r) = Rules!RowKey(row)
        /\ <<match.category, match.quantity, match.cost>> = <<r.category, r.quantity, r.cost>>
  BY <1>1, ConsensusSays
<1>3. ~Rules!NeedsReview(call.consensus, row)
  BY <1>1, ConsensusSays
<1>4. l \in records
  BY <1>3 DEF Rules!NeedsReview
<1>5. r \in records /\ (Rules!KeyOf(r) = Rules!KeyOf(l) => l = r)
  BY <1>4 DEF Rules!Agreed
<1>6. l.sealed
  BY <1>4 DEF Rules!Parsed
<1> QED BY <1>2, <1>5, <1>6

\* examples.py:74-92, matcher.py:263-331: the last answer a reviewer gave to the text in
\* its unit is the decision, whatever was said before and whatever machines and rules say.
THEOREM LastWordAlwaysCounts ==
  ASSUME NEW row, NEW call, NEW Lines, NEW lines \in Seq(Lines), NEW category, NEW quantity, quantity # None
  PROVE  Rules!LastWordCounts(row, call, lines, category, quantity)
<1> DEFINE last == Rules!LastWord(row, category, quantity, "exclude")
           all == Append(lines, last)
           examples == Rules!LoadedExamples(all)
           match == Rules!Match(row, call, examples)
           word == Rules!Example(last)
           said == Rules!OfRow(examples, row, row.unit)
<1> SUFFICES ASSUME Rules!Approved(call.approval) = Rules!Undecided, Rules!UnitFits(row.unit, category)
             PROVE  <<match.category, match.quantity, match.cost, match.review>> = <<category, quantity, "exclude", FALSE>>
  BY Zenon DEF Rules!LastWordCounts
<1>1. DOMAIN all = 1 .. Len(lines) + 1 /\ all[Len(lines) + 1] = last /\ Len(all) = Len(lines) + 1 /\ Len(lines) \in Nat
  <2> HIDE DEF last
  <2> QED OBVIOUS
<1>2. last.confirmed /\ last.feedback /\ last.text = row.text.name /\ last.unit = row.unit
  BY DEF Rules!LastWord
<1>3. word.text = row.text.name /\ word.category = category /\ word.unit = row.unit /\ word.feedback
      /\ word.quantity = quantity /\ word.cost = "exclude"
  <2>1. last.decision = "feedback" /\ last.quantity = quantity /\ last.cost = "exclude" /\ last.category = category
    BY DEF Rules!LastWord
  <2>2. Rules!Default(last.quantity, last.decision, "include_quantity") = quantity
    BY <2>1 DEF Rules!Default
  <2>3. Rules!Default(last.cost, last.decision, "include_cost") = "exclude"
    BY <2>1 DEF Rules!Default, Rules!Include
  <2> HIDE DEF last
  <2> QED BY <1>2, <2>1, <2>2, <2>3 DEF Rules!Example
<1> HIDE DEF last, all
<1>4. word \in said
  <2>1. ~\E j \in Len(lines) + 1 + 1 .. Len(all) : TRUE
    BY <1>1
  <2>2. word \in examples
    BY <1>1, <1>2, <2>1 DEF Rules!LoadedExamples
  <2> QED BY <1>3, <2>2 DEF Rules!OfRow
<1>5. \A e \in said : e.feedback => e = word
  <2> SUFFICES ASSUME NEW e \in said, e.feedback PROVE e = word
    OBVIOUS
  <2>1. PICK i \in DOMAIN all :
          /\ e = Rules!Example(all[i])
          /\ ~ (/\ all[i].feedback
                /\ \E j \in i + 1 .. Len(all) : /\ all[j].confirmed /\ all[j].feedback
                                                /\ all[j].text = all[i].text /\ all[j].unit = all[i].unit)
    BY DEF Rules!OfRow, Rules!LoadedExamples
  <2>2. e.text = all[i].text /\ e.unit = all[i].unit /\ e.feedback = all[i].feedback
    BY <2>1 DEF Rules!Example
  <2>3. e.text = row.text.name /\ e.unit = row.unit
    BY DEF Rules!OfRow
  <2>4. CASE i = Len(lines) + 1
    BY <1>1, <2>1, <2>4
  <2>5. CASE i # Len(lines) + 1
    <3>1. Len(lines) + 1 \in i + 1 .. Len(all)
      BY <1>1, <2>5
    <3> QED BY <1>1, <1>2, <2>1, <2>2, <2>3, <3>1
  <2> QED BY <2>4, <2>5
<1> HIDE DEF word, said, examples
<1>6. Rules!PreferFeedback(said) = {word}
  <2>1. {e \in said : e.feedback} = {word}
    BY <1>3, <1>4, <1>5
  <2> QED BY <2>1 DEF Rules!PreferFeedback
<1>7. Rules!Cardinality(Rules!Opinions({word})) = 1
  <2>1. Rules!Opinions({word}) = {<<word.category, word.quantity, word.cost>>}
    BY DEF Rules!Opinions
  <2>2. Cardinality({<<word.category, word.quantity, word.cost>>}) = 1
    BY FS_Singleton
  <2> QED BY <2>1, <2>2, SizesAgree
<1>8. Rules!Candidates(examples, row) = {word}
  BY <1>4, <1>6 DEF Rules!Candidates, said
<1>9. Rules!Dictionary(row, examples) = Rules!FromExample(row, word)
  <2>1. (CHOOSE e \in {word} : TRUE) = word
    OBVIOUS
  <2>2. ~(1 > 1)
    OBVIOUS
  <2>3. Rules!Cardinality(Rules!Opinions(Rules!PreferFeedback(Rules!OfRow(examples, row, row.unit)))) = 1
    BY <1>6, <1>7 DEF said
  <2> QED BY <1>7, <1>8, <2>1, <2>2, <2>3 DEF Rules!Dictionary
<1>10. Rules!FromExample(row, word) = Rules!Decision(category, quantity, "exclude", "confirmed_dictionary")
  BY <1>3 DEF Rules!FromExample
<1>11. match = Rules!Decision(category, quantity, "exclude", "confirmed_dictionary")
  <2>1. Rules!Dictionary(row, examples) # Rules!Undecided
    BY <1>9, <1>10, Decides
  <2> QED BY <1>9, <1>10, <2>1, MatchIs
<1> HIDE DEF match
<1> QED BY <1>11 DEF Rules!Decision

-----------------------------------------------------------------------------
(* The choice of the files of a drawing card.                                *)

\* A finite set of integers that is not empty has a largest one.
LEMMA LargestIs ==
  ASSUME NEW S \in SUBSET Int, IsFiniteSet(S), S # {}
  PROVE  Max(S) \in S /\ \A y \in S : y <= Max(S)
<1> DEFINE above(x) == {y \in S : y > x}
           sizes == {Cardinality(above(x)) : x \in S}
           R == OpToRel(<, Nat)
<1>1. \A x \in S : IsFiniteSet(above(x)) /\ Cardinality(above(x)) \in Nat
  BY FS_Subset, FS_CardinalityType
<1>2. \A m, n \in Nat : <<m, n>> \in R <=> m < n
  BY DEF OpToRel
<1>3. IsWellFoundedOn(R, Nat)
  BY NatLessThanWellFounded
<1>4. sizes \subseteq Nat /\ sizes # {}
  BY <1>1
<1> HIDE DEF R
<1>5. PICK n \in sizes : \A m \in sizes : <<m, n>> \notin R
  BY <1>3, <1>4, WFMin
<1>6. PICK x \in S : Cardinality(above(x)) = n
  BY <1>5
<1>7. \A y \in S : x >= y
  <2> SUFFICES ASSUME NEW y \in S, y > x PROVE FALSE
    OBVIOUS
  <2>0. x \in Int /\ y \in Int /\ \A z \in S : z \in Int
    OBVIOUS
  <2>1. above(y) \subseteq above(x)
    <3> SUFFICES ASSUME NEW z \in S, z > y PROVE z > x
      OBVIOUS
    <3> QED BY <2>0
  <2>2. y \in above(x) /\ y \notin above(y)
    BY <2>0
  <2>3. Cardinality(above(y)) <= Cardinality(above(x)) /\ (Cardinality(above(x)) = Cardinality(above(y)) => above(x) = above(y))
    <3>1. IsFiniteSet(above(x)) /\ above(y) \in SUBSET above(x)
      BY <1>1, <2>1
    <3> HIDE DEF above
    <3> QED BY <3>1, FS_Subset
  <2>4. above(x) # above(y)
    BY <2>2
  <2>5. Cardinality(above(y)) \in sizes
    OBVIOUS
  <2> HIDE DEF above, sizes
  <2>6. Cardinality(above(y)) < n
    BY <1>1, <1>6, <2>3, <2>4
  <2> QED BY <1>2, <1>4, <1>5, <2>5, <2>6
<1> QED BY <1>6, <1>7 DEF Max

\* The largest is the same wherever it is asked for.
LEMMA LargestAgree ==
  ASSUME NEW S
  PROVE  Choice!Max(S) = Max(S)
BY DEF Choice!Max, Max

\* Every entry of the manifest is one of the files.
LEMMA ManifestIs ==
  ASSUME NEW Listed, NEW files \in Seq(Listed), NEW file \in Choice!BuildManifest(files)
  PROVE  \E k \in DOMAIN files : file = files[k]
<1>1. PICK n \in DOMAIN files : file = Choice!LastWith(files, Choice!FileId(files[n]))
  BY DEF Choice!BuildManifest
<1> DEFINE alike == {k \in DOMAIN files : Choice!FileId(files[k]) = Choice!FileId(files[n])}
<1>2. alike \in SUBSET (1 .. Len(files)) /\ alike # {} /\ Len(files) \in Nat
  BY <1>1
<1> HIDE DEF alike
<1>3. IsFiniteSet(alike)
  <2>1. IsFiniteSet(1 .. Len(files))
    BY <1>2, FS_Interval
  <2> QED BY <1>2, <2>1, FS_Subset
<1>4. Max(alike) \in alike
  <2>1. alike \in SUBSET Int
    BY <1>2
  <2> QED BY <1>2, <1>3, <2>1, LargestIs
<1>5. file = files[Max(alike)]
  BY <1>1, LargestAgree DEF Choice!LastWith, alike
<1> QED BY <1>4, <1>5 DEF alike

\* What can be read of the files of a request.
Readable(files) == Choice!Eligible({f \in Choice!BuildManifest(files) : Choice!Inspected(f)})

\* The files of a request are read, but for their period.
LEMMA GivenAreRead ==
  ASSUME NEW files, NEW requested, NEW result, result = Choice!Select(files, TRUE, requested),
         NEW eligible, eligible = Readable(files)
  PROVE  result.selected = Choice!OfPeriod(eligible, requested)
<1> DEFINE inspected == {f \in Choice!BuildManifest(files) : Choice!Inspected(f)}
           chosen == Choice!SelectExplicit(eligible, requested)
           selection == Choice!Selection(inspected, eligible, TRUE, requested)
<1>1. /\ selection.selected = chosen.selected /\ chosen.warnings \subseteq selection.warnings
      /\ DOMAIN selection = DOMAIN chosen /\ {"selected", "warnings"} \subseteq DOMAIN chosen
  BY DEF Choice!Selection, Choice!SelectExplicit
<1>2. \E W : result = [selection EXCEPT !.warnings = @ \cup W]
  BY DEF Choice!Select, Choice!SelectFrom, Choice!SelectInspections, Readable
<1>3. chosen.selected = Choice!OfPeriod(eligible, requested)
  BY DEF Choice!SelectExplicit
<1> HIDE DEF selection, chosen
<1> QED BY <1>1, <1>2, <1>3

\* Of the files that are found those chosen for an object are read, with their warnings.
LEMMA FoundAreRead ==
  ASSUME NEW files, NEW requested, NEW result, result = Choice!Select(files, FALSE, requested),
         NEW eligible, eligible = Readable(files)
  PROVE  /\ \A f : f \in result.selected <=> \E o \in Choice!ObjectsOf(eligible) : f \in Choice!ChoiceOf(eligible, o, requested).selected
         /\ \A o \in Choice!ObjectsOf(eligible) :
              Choice!ChoiceOf(eligible, o, requested).warnings \subseteq result.warnings
<1> DEFINE inspected == {f \in Choice!BuildManifest(files) : Choice!Inspected(f)}
           chosen == Choice!SelectFound(eligible, requested)
           selection == Choice!Selection(inspected, eligible, FALSE, requested)
<1>1. /\ selection.selected = chosen.selected /\ chosen.warnings \subseteq selection.warnings
      /\ DOMAIN selection = DOMAIN chosen /\ {"selected", "warnings"} \subseteq DOMAIN chosen
  BY DEF Choice!Selection, Choice!SelectFound
<1>2. \E W : result = [selection EXCEPT !.warnings = @ \cup W]
  BY DEF Choice!Select, Choice!SelectFrom, Choice!SelectInspections, Readable
<1>3. /\ chosen.selected = UNION {Choice!ChoiceOf(eligible, o, requested).selected : o \in Choice!ObjectsOf(eligible)}
      /\ \A o \in Choice!ObjectsOf(eligible) : Choice!ChoiceOf(eligible, o, requested).warnings \subseteq chosen.warnings
  BY DEF Choice!SelectFound
<1> HIDE DEF selection, chosen
<1>4. result.selected = chosen.selected /\ chosen.warnings \subseteq result.warnings
  BY <1>1, <1>2
<1> DEFINE of(o) == Choice!ChoiceOf(eligible, o, requested).selected
<1>5. \A f : f \in result.selected <=> \E o \in Choice!ObjectsOf(eligible) : f \in of(o)
  <2>1. result.selected = UNION {of(o) : o \in Choice!ObjectsOf(eligible)}
    BY <1>3, <1>4
  <2> HIDE DEF of
  <2> QED BY <2>1
<1>6. \A o \in Choice!ObjectsOf(eligible) : Choice!ChoiceOf(eligible, o, requested).warnings \subseteq result.warnings
  BY <1>3, <1>4
<1> QED BY <1>5, <1>6

\* Of the files of one object one is read, or there is a warning.
LEMMA OneIsChosen ==
  ASSUME NEW eligible, NEW o, NEW requested, NEW c, c = Choice!ChoiceOf(eligible, o, requested)
  PROVE  /\ \/ Cardinality(c.selected) = 1
            \/ c.selected = {} /\ \E w \in c.warnings : Len(w) = 2 /\ w[2] = o
         /\ \A f \in c.selected : /\ f \in Choice!OfPeriod(Choice!OfObject(eligible, o), requested)
                                  /\ f.copy => \A g \in Choice!OfPeriod(Choice!OfObject(eligible, o), requested) : g.copy
<1> DEFINE pool == Choice!OfPeriod(Choice!OfObject(eligible, o), requested)
           originals == Choice!Originals(pool)
<1>1. c = Choice!ChooseOf(o, pool)
  BY DEF Choice!ChoiceOf
<1> HIDE DEF pool
<1>2. CASE pool = {}
  <2>1. c.selected = {} /\ c.warnings = {<<"NO_SOURCE_FOR_PERIOD", o>>}
    BY <1>1, <1>2 DEF Choice!ChooseOf
  <2> QED BY <2>1
<1>3. CASE pool # {}
  <2>1. c.selected = Choice!Winner(originals)
    BY <1>1, <1>3 DEF Choice!ChooseOf, Choice!ChosenOf
  <2>2. Choice!Winner(originals) = {} => <<"MULTIPLE_TOP_CANDIDATES", o>> \in c.warnings
    BY <1>1, <1>3 DEF Choice!ChooseOf, Choice!ChosenOf
  <2>3. Choice!Winner(originals) = {} \/ Cardinality(Choice!Winner(originals)) = 1
    BY SizesAgree DEF Choice!Winner
  <2>4. Choice!Winner(originals) \subseteq originals
    BY DEF Choice!Winner, Choice!Best
  <2>5. \A f \in originals : f \in pool /\ (f.copy => \A g \in pool : g.copy)
    BY DEF Choice!Originals
  <2>6. Len(<<"MULTIPLE_TOP_CANDIDATES", o>>) = 2 /\ <<"MULTIPLE_TOP_CANDIDATES", o>>[2] = o
    OBVIOUS
  <2> HIDE DEF originals
  <2> QED BY <2>1, <2>2, <2>3, <2>4, <2>5, <2>6 DEF pool
<1> QED BY <1>2, <1>3

\* A file that is read can be read; where the files are found, it is chosen for its object.
LEMMA ReadAreReadable ==
  ASSUME NEW files, NEW explicit \in BOOLEAN, NEW requested, NEW result, result = Choice!Select(files, explicit, requested),
         NEW f \in result.selected
  PROVE  /\ f \in Readable(files)
         /\ explicit => f \in Choice!OfPeriod(Readable(files), requested)
         /\ ~explicit => f \in Choice!ChoiceOf(Readable(files), Choice!ObjectOf(f), requested).selected
<1> DEFINE eligible == Readable(files)
<1>1. \A pool : Choice!OfPeriod(pool, requested) \subseteq pool
  BY DEF Choice!OfPeriod
<1>0. eligible = Readable(files)
  OBVIOUS
<1> HIDE DEF eligible
<1>2. CASE explicit
  <2>0. result = Choice!Select(files, TRUE, requested)
    <3>1. explicit = TRUE
      BY <1>2
    <3> QED BY <3>1, Zenon
  <2>1. result.selected = Choice!OfPeriod(eligible, requested)
    BY <1>0, <2>0, GivenAreRead
  <2>2. f \in Choice!OfPeriod(eligible, requested) /\ f \in eligible
    BY <1>1, <1>2, <2>1
  <2> QED BY <1>2, <2>2 DEF eligible
<1>3. CASE ~explicit
  <2>0. result = Choice!Select(files, FALSE, requested)
    <3>1. explicit = FALSE
      BY <1>3
    <3> QED BY <3>1, Zenon
  <2>1. PICK o \in Choice!ObjectsOf(eligible) : f \in Choice!ChoiceOf(eligible, o, requested).selected
    BY <1>0, <2>0, FoundAreRead
  <2>2. f \in Choice!OfPeriod(Choice!OfObject(eligible, o), requested)
    BY <2>1, OneIsChosen
  <2>3. f \in eligible /\ Choice!ObjectOf(f) = o
    BY <1>1, <2>2 DEF Choice!OfObject
  <2> QED BY <1>3, <2>1, <2>3 DEF eligible
<1> QED BY <1>2, <1>3

\* What is told of a file.
HasEvidence(file) == IsFiniteSet(Choice!Told(file))

\* identity.py:90: no file is read under an object any evidence speaks against, whatever
\* files there are and whatever is told of them.
THEOREM NeverEvidenceAgainst ==
  ASSUME NEW Listed, NEW files \in Seq(Listed), \A n \in DOMAIN files : HasEvidence(files[n]),
         NEW explicit \in BOOLEAN, NEW requested, NEW result, result = Choice!Select(files, explicit, requested)
  PROVE  Choice!NoEvidenceAgainst(result)
<1> SUFFICES ASSUME NEW f \in result.selected, NEW object \in Choice!Told(f)
             PROVE  object = Choice!ObjectOf(f)
  BY DEF Choice!NoEvidenceAgainst
<1>1. f \in Choice!BuildManifest(files) /\ Choice!Refusal(f) = None
  BY ReadAreReadable DEF Readable, Choice!Eligible
<1>2. Choice!ObjectOf(f) # None
  BY <1>1, NoneIsNothing DEF Choice!Refusal
<1>3. IsFiniteSet(Choice!Told(f))
  BY <1>1, ManifestIs DEF HasEvidence
<1>4. Cardinality(Choice!Told(f)) = 1
  BY <1>2, SizesAgree DEF Choice!ObjectOf
<1>5. PICK x : Choice!Told(f) = {x}
  BY <1>3, <1>4, FS_Singleton
<1>6. Choice!ObjectOf(f) = x
  BY <1>4, <1>5, SizesAgree DEF Choice!ObjectOf
<1> QED BY <1>5, <1>6

\* inspection.py:157: where files are found for an object, one is read, or a warning
\* says why not.
THEOREM EveryObjectAlwaysServed ==
  ASSUME NEW files, NEW explicit \in BOOLEAN, NEW requested, NEW result, result = Choice!Select(files, explicit, requested)
  PROVE  Choice!EveryObjectIsServed(files, explicit, result)
<1> DEFINE eligible == Readable(files)
           read(o) == {f \in result.selected : Choice!ObjectOf(f) = o}
           warned(o) == \E w \in result.warnings : Len(w) = 2 /\ w[2] = o
<1> SUFFICES ASSUME ~explicit, NEW o \in Choice!ObjectsOf(eligible)
             PROVE  Cardinality(read(o)) = 1 \/ (read(o) = {} /\ warned(o))
  BY SizesAgree, Zenon DEF Choice!EveryObjectIsServed, Readable
<1>0. result = Choice!Select(files, FALSE, requested)
  <2>1. explicit = FALSE
    OBVIOUS
  <2> QED BY <2>1, Zenon
<1>1. read(o) = Choice!ChoiceOf(eligible, o, requested).selected
  <2>1. ASSUME NEW f \in read(o) PROVE f \in Choice!ChoiceOf(eligible, o, requested).selected
    BY ReadAreReadable
  <2>2. ASSUME NEW f \in Choice!ChoiceOf(eligible, o, requested).selected PROVE f \in read(o)
    <3>1. f \in result.selected
      BY <1>0, FoundAreRead
    <3>2. f \in Choice!OfPeriod(Choice!OfObject(eligible, o), requested)
      BY OneIsChosen
    <3>3. Choice!ObjectOf(f) = o
      BY <3>2 DEF Choice!OfPeriod, Choice!OfObject
    <3> QED BY <3>1, <3>3
  <2> QED BY <2>1, <2>2
<1>2. Choice!ChoiceOf(eligible, o, requested).warnings \subseteq result.warnings
  BY <1>0, FoundAreRead
<1> HIDE DEF read, eligible
<1> QED BY <1>1, <1>2, OneIsChosen

\* inspection.py:96, 183: what is read is of the period that was asked for, or of the
\* latest one of its object, and no copy of another file of that period.
THEOREM RightPeriodAlwaysRead ==
  ASSUME NEW Listed, NEW files \in Seq(Listed), \A n \in DOMAIN files : files[n].period \in Int \cup {None},
         NEW explicit \in BOOLEAN, NEW requested, NEW result, result = Choice!Select(files, explicit, requested)
  PROVE  Choice!RightPeriodIsRead(files, explicit, requested, result)
<1> DEFINE eligible == Readable(files)
<1> SUFFICES ASSUME NEW f \in result.selected, NEW g \in eligible, Choice!ObjectOf(f) = Choice!ObjectOf(g)
             PROVE  /\ ~explicit /\ f.period = g.period /\ f.copy => g.copy
                    /\ requested = None /\ f.period # None /\ g.period # None => g.period <= f.period
                    /\ requested # None => f.period \in {requested, None} /\ (g.period = requested => f.period = requested)
  BY DEF Choice!RightPeriodIsRead, Readable
<1> DEFINE all == IF explicit THEN eligible ELSE Choice!OfObject(eligible, Choice!ObjectOf(f))
<1>1. f \in Choice!OfPeriod(all, requested) /\ f \in all /\ g \in all
  <2>1. f \in Choice!OfPeriod(all, requested)
    BY ReadAreReadable, OneIsChosen
  <2>2. f \in eligible
    BY ReadAreReadable
  <2> QED BY <2>1, <2>2 DEF Choice!OfObject
<1>2. ~explicit /\ f.period = g.period /\ f.copy => g.copy
  <2> SUFFICES ASSUME ~explicit, f.period = g.period, f.copy PROVE g.copy
    OBVIOUS
  <2>1. g \in Choice!OfPeriod(all, requested)
    BY <1>1 DEF Choice!OfPeriod
  <2>2. f \in Choice!ChoiceOf(eligible, Choice!ObjectOf(f), requested).selected
    BY ReadAreReadable
  <2> QED BY <2>1, <2>2, OneIsChosen
<1>3. ASSUME requested = None, f.period # None, g.period # None PROVE g.period <= f.period
  <2> DEFINE known == Choice!KnownPeriods(all)
             period == [k \in DOMAIN files |-> files[k].period]
             periods == {files[k].period : k \in DOMAIN files}
  <2>1. \A h \in all : \E k \in DOMAIN files : h = files[k]
    BY ManifestIs DEF Choice!OfObject, Readable, Choice!Eligible
  <2>2. known \subseteq periods /\ known \subseteq Int
    BY <2>1 DEF Choice!KnownPeriods
  <2>3. IsFiniteSet(periods)
    <3>1. period \in Surjection(DOMAIN files, periods)
      BY DEF Surjection
    <3>2. IsFiniteSet(DOMAIN files)
      BY FS_Interval
    <3> QED BY <3>1, <3>2, FS_Surjection
  <2>4. IsFiniteSet(known)
    BY <2>2, <2>3, FS_Subset
  <2>5. f.period \in known /\ g.period \in known
    BY <1>1, <1>3 DEF Choice!KnownPeriods
  <2>6. f.period = Choice!Latest(all)
    BY <1>1, <1>3, <2>5 DEF Choice!OfPeriod
  <2>7. \A p \in known : p <= Max(known)
    BY <2>2, <2>4, <2>5, LargestIs
  <2> QED BY <2>5, <2>6, <2>7, LargestAgree DEF Choice!Latest
<1>4. requested # None => f.period \in {requested, None} /\ (g.period = requested => f.period = requested)
  BY <1>1 DEF Choice!OfPeriod
<1> QED BY <1>2, <1>3, <1>4

-----------------------------------------------------------------------------
(* What the calls pass on.                                                   *)

IsReconciliation(x) == \E s, t : x.S = {s, t}
IsMining(x) == x.mined = Corpus!Mined(x.records, x.support)
HasNumbers(runs) ==
  \A run \in {runs.baseline, runs.holdout} : \A m \in Gate!Manual :
    run.before.manual[m] \in Int /\ run.after.manual[m] \in Int
IsPromotion(x) ==
  \E pattern, policy, index, Records :
    /\ x.report = Gate!Replayed(pattern, x.snapshots, policy, x.runs, index) /\ ~Gate!IsStopped(x.report)
    /\ pattern.revision \in Int /\ HasNumbers(x.runs) /\ x.history \in Seq(Records)
IsAcceptance(x) ==
  /\ \E pattern, snapshots, policy, runs, index :
       x.report = Gate!Replayed(pattern, snapshots, policy, runs, index) /\ ~Gate!IsStopped(x.report)
  /\ \E history, report, current :
       x.promotion = Gate!Promotion(history, report, current) /\ ~Gate!IsStopped(x.promotion)

IsMatching(x) ==
  /\ x.match = Rules!Match(x.row, x.call, x.examples) /\ x.result = Rules!Decided(x.row, x.call, x.match)
  /\ {"approval", "consensus", "suggestion"} \subseteq DOMAIN x.call
  /\ \E Lines : x.lines \in Seq(Lines)
IsSelection(x) ==
  /\ x.result = Choice!Select(x.files, x.explicit, x.requested) /\ x.explicit \in BOOLEAN
  /\ \E Listed : x.files \in Seq(Listed)
  /\ \A n \in DOMAIN x.files : HasEvidence(x.files[n]) /\ x.files[n].period \in Int \cup {None}

\* The inductive invariant: an input is one of its algorithm.
Called ==
  /\ Ran("reconcile") => IsReconciliation(Argument)
  /\ Ran("mine") => IsMining(Argument)
  /\ Ran("promote") /\ Argument.history # None => IsPromotion(Argument)
  /\ Ran("accept") => IsAcceptance(Argument)
  /\ Ran("match row") => IsMatching(Argument)
  /\ Ran("select") => IsSelection(Argument)

\* An input is taken as it is given.
LEMMA TakesArgument ==
  ASSUME NEW x, Takes(x)
  PROVE  Argument' = x
BY DEF Takes, Argument

\* A reconciliation is called with two sources.
LEMMA ReconcileCalls ==
  ASSUME Reconcile
  PROVE  IsReconciliation(Argument)'
<1>1. PICK s1, s2, T, world, overrides :
        Takes([S |-> {s1, s2}, T |-> T, world |-> world, overrides |-> overrides])
  BY DEF Reconcile
<1>2. Argument' = [S |-> {s1, s2}, T |-> T, world |-> world, overrides |-> overrides]
  BY <1>1, TakesArgument
<1> QED BY <1>2 DEF IsReconciliation

\* Patterns are mined from the records of the call.
LEMMA MineCalls ==
  ASSUME Mine
  PROVE  IsMining(Argument)'
<1>1. PICK records, support : Mining(records, support)
  BY DEF Mine
<1>2. Argument' = [records |-> records, support |-> support, mined |-> Corpus!Mined(records, support)]
  BY <1>1, TakesArgument DEF Mining
<1> QED BY <1>2 DEF IsMining

\* What a run counts as left to people are numbers.
LEMMA RunsHaveNumbers ==
  ASSUME NEW pattern, NEW holdout, NEW runs \in Pairs(pattern, holdout)
  PROVE  HasNumbers(runs)
<1>1. ASSUME NEW snapshot, NEW rows, NEW faults, NEW manual \in Int
      PROVE  \A m \in Gate!Manual : GateSeen(pattern, snapshot, rows, faults, manual).manual[m] \in Int
  BY DEF GateSeen
<1>2. ASSUME NEW snapshot, NEW run \in GateRuns(pattern, snapshot) \cup {GatePlain(pattern, snapshot)}
      PROVE  \A m \in Gate!Manual : run.before.manual[m] \in Int /\ run.after.manual[m] \in Int
  <2>1. CASE run \in GateRuns(pattern, snapshot)
    <3>1. PICK before, faults : before \in {0, 1} /\ run.before = GateSeen(pattern, snapshot, 0, {}, before)
                              /\ run.after = GateSeen(pattern, snapshot, 1, faults, 1)
      BY <2>1 DEF GateRuns
    <3> QED BY <1>1, <3>1
  <2>2. CASE run = GatePlain(pattern, snapshot)
    <3>1. run.before = GateSeen(pattern, snapshot, 0, {}, 1) /\ run.after = GateSeen(pattern, snapshot, 1, {}, 1)
      BY <2>2 DEF GatePlain
    <3> QED BY <1>1, <3>1
  <2> QED BY <1>2, <2>1, <2>2
<1>3. \E snapshot, other : /\ runs.baseline \in GateRuns(pattern, snapshot) \cup {GatePlain(pattern, snapshot)}
                          /\ runs.holdout \in GateRuns(pattern, other) \cup {GatePlain(pattern, other)}
  BY DEF Pairs
<1> QED BY <1>2, <1>3 DEF HasNumbers

\* A short list is a sequence.
LEMMA ShortAreSequences ==
  ASSUME NEW s, s = <<>> \/ (\E x : s = <<x>>) \/ (\E x, y : s = <<x, y>>) \/ (\E x, y, z : s = <<x, y, z>>)
  PROVE  \E S : s \in Seq(S)
<1>1. CASE s = <<>>
  <2>1. <<>> \in Seq({})
    OBVIOUS
  <2> QED BY <1>1, <2>1
<1>2. CASE \E x : s = <<x>>
  <2>1. PICK x : s = <<x>>
    BY <1>2
  <2>2. <<x>> \in Seq({x})
    OBVIOUS
  <2> QED BY <2>1, <2>2
<1>3. CASE \E x, y : s = <<x, y>>
  <2>1. PICK x, y : s = <<x, y>>
    BY <1>3
  <2> DEFINE S == {x, y}
  <2>2. x \in S /\ y \in S
    OBVIOUS
  <2> HIDE DEF S
  <2>3. <<x, y>> \in Seq(S)
    BY <2>2
  <2> QED BY <2>1, <2>3
<1>4. CASE \E x, y, z : s = <<x, y, z>>
  <2>1. PICK x, y, z : s = <<x, y, z>>
    BY <1>4
  <2> DEFINE S == {x, y, z}
  <2>2. x \in S /\ y \in S /\ z \in S
    OBVIOUS
  <2> HIDE DEF S
  <2>3. <<x, y, z>> \in Seq(S)
    BY <2>2
  <2> QED BY <2>1, <2>3
<1> QED BY <1>1, <1>2, <1>3, <1>4

\* A history is a sequence of records.
LEMMA HistoriesAreSequences ==
  ASSUME NEW shadow, NEW report, NEW policy, NEW history \in Histories(shadow, report, policy)
  PROVE  \E Records : history \in Seq(Records)
<1>1. (\E x : history = <<x>>) \/ (\E x, y : history = <<x, y>>)
  BY DEF Histories
<1> QED BY <1>1, ShortAreSequences

\* A promotion is about a replay that ran and the history of its record.
LEMMA PromoteCalls ==
  ASSUME Promote, Argument'.history # None
  PROVE  IsPromotion(Argument)'
<1>1. PICK pattern \in ShadowPatterns, holdout \in Holdouts, policy \in Policies, index \in {3, 4} : \E runs \in Pairs(pattern, holdout) :
        LET snapshots == [baseline |-> Baseline, holdout |-> holdout]
            report == Gate!Replayed(pattern, snapshots, policy, runs, index)
        IN IF Gate!IsStopped(report) THEN Takes([history |-> None, report |-> report])
           ELSE \E history \in Histories(pattern, report, policy), current \in Policies \cup {None} :
                  Takes([history |-> history, report |-> report, policy |-> current, snapshots |-> snapshots, runs |-> runs])
  BY DEF Promote
<1> DEFINE snapshots == [baseline |-> Baseline, holdout |-> holdout]
           report(runs) == Gate!Replayed(pattern, snapshots, policy, runs, index)
<1> HIDE DEF report
<1>2. PICK runs \in Pairs(pattern, holdout) :
        IF Gate!IsStopped(report(runs)) THEN Takes([history |-> None, report |-> report(runs)])
        ELSE \E history \in Histories(pattern, report(runs), policy), current \in Policies \cup {None} :
               Takes([history |-> history, report |-> report(runs), policy |-> current, snapshots |-> snapshots, runs |-> runs])
  BY <1>1 DEF report
<1>3. ~Gate!IsStopped(report(runs))
  <2> SUFFICES ASSUME Takes([history |-> None, report |-> report(runs)]) PROVE FALSE
    BY <1>2
  <2>1. Argument' = [history |-> None, report |-> report(runs)]
    BY TakesArgument
  <2> QED BY <2>1
<1>4. PICK history \in Histories(pattern, report(runs), policy), current \in Policies \cup {None} :
        Takes([history |-> history, report |-> report(runs), policy |-> current, snapshots |-> snapshots, runs |-> runs])
  BY <1>2, <1>3
<1>5. Argument' = [history |-> history, report |-> report(runs), policy |-> current, snapshots |-> snapshots, runs |-> runs]
  BY <1>4, TakesArgument
<1>6. pattern.revision \in Int
  BY DEF ShadowPatterns
<1>7. PICK Records : history \in Seq(Records)
  BY HistoriesAreSequences
<1>8. HasNumbers(runs)
  BY RunsHaveNumbers
<1>9. report(runs) = Gate!Replayed(pattern, snapshots, policy, runs, index)
  BY DEF report
<1> HIDE DEF snapshots
<1> QED BY <1>3, <1>5, <1>6, <1>7, <1>8, <1>9 DEF IsPromotion

\* An acceptance is about a replay and a promotion that ran.
LEMMA AcceptCalls ==
  ASSUME Accept
  PROVE  IsAcceptance(Argument)'
<1>1. PICK holdout, policy, report, promotion :
        /\ report \in Reports(holdout, policy) /\ promotion \in Promotions(report, policy)
        /\ Argument'.report = report /\ Argument'.promotion = promotion
  <2>1. PICK policy : \E report \in UNION {Reports(h, policy) : h \in Holdouts} :
          \E promotion \in Promotions(report, policy) :
            \E x : Takes(x) /\ x.report = report /\ x.promotion = promotion
    BY DEF Accept
  <2> QED BY <2>1, TakesArgument
<1>2. \E pattern, snapshots, runs, index :
        report = Gate!Replayed(pattern, snapshots, policy, runs, index) /\ ~Gate!IsStopped(report)
  BY <1>1 DEF Reports
<1>3. \E history : promotion = Gate!Promotion(history, report, policy) /\ ~Gate!IsStopped(promotion)
  BY <1>1 DEF Promotions
<1> QED BY <1>1, <1>2, <1>3 DEF IsAcceptance

\* What of a call the cascade looks at.
LEMMA MatchLooksAt ==
  ASSUME NEW row, NEW examples, NEW c, NEW d,
         c.approval = d.approval, c.consensus = d.consensus, c.suggestion = d.suggestion
  PROVE  Rules!Match(row, c, examples) = Rules!Match(row, d, examples)
BY DEF Rules!Match

\* A call holds what the cascade looks at.
LEMMA CallsHold ==
  ASSUME NEW approval, NEW consensus, NEW suggestion, NEW ledger, NEW c, c = Calling(approval, consensus, suggestion, ledger)
  PROVE  /\ c.approval = approval /\ c.consensus = consensus /\ c.suggestion = suggestion
         /\ {"approval", "consensus", "suggestion"} \subseteq DOMAIN c
BY DEF Calling

\* What is passed on of a match.
MatchPassed ==
  \E row, call, lines, examples, match :
    /\ Matching(row, call, lines, examples, match) /\ match = Rules!Match(row, call, examples)
    /\ {"approval", "consensus", "suggestion"} \subseteq DOMAIN call /\ \E Lines : lines \in Seq(Lines)

\* A cascade passes on its match.
LEMMA CascadesPass ==
  ASSUME NEW row, NEW approval, NEW consensus, NEW suggestion, NEW ledger, NEW lines, NEW examples,
         Cascades(row, Calling(approval, consensus, suggestion, ledger), lines, examples), \E Lines : lines \in Seq(Lines)
  PROVE  MatchPassed
<1> DEFINE call == Calling(approval, consensus, suggestion, ledger)
<1>1. Matching(row, call, lines, examples, Rules!Match(row, call, examples))
  BY DEF Cascades
<1>2. {"approval", "consensus", "suggestion"} \subseteq DOMAIN call
  BY CallsHold
<1> HIDE DEF call
<1> QED BY <1>1, <1>2 DEF MatchPassed

\* A row is matched as the cascade says, and decided as the replay does.
LEMMA MatchCalls ==
  ASSUME MatchRow
  PROVE  IsMatching(Argument)'
<1>1. ASSUME MatchByAnswers PROVE MatchPassed
  <2>1. PICK row, approval, consensus, suggestion, lines, examples :
          lines \in Files /\ Cascades(row, Calling(approval, consensus, suggestion, <<>>), lines, examples)
    BY <1>1 DEF MatchByAnswers
  <2>2. \E Lines : lines \in Seq(Lines)
    <3>1. lines = <<>> \/ (\E x : lines = <<x>>) \/ (\E x, y : lines = <<x, y>>)
      BY <2>1 DEF Files
    <3> QED BY <3>1, ShortAreSequences
  <2>3. MatchPassed
    BY <2>1, <2>2, CascadesPass
  <2> QED BY <2>3
<1>2. ASSUME MatchByRules PROVE MatchPassed
  <2>1. PICK row, suggestion, examples : Cascades(row, Calling(None, {}, suggestion, <<>>), <<OtherLine>>, examples)
    BY <1>2 DEF MatchByRules
  <2>2. \E Lines : <<OtherLine>> \in Seq(Lines)
    BY ShortAreSequences
  <2> QED BY <2>1, <2>2, CascadesPass
<1>3. ASSUME MatchWithLedger PROVE MatchPassed
  <2> DEFINE first == Calling(None, {}, Rules!NoSuggestion, <<>>)
             call(ledger) == Calling(None, {}, Rules!NoSuggestion, ledger)
  <2>1. PICK row, match, ledger : match = Rules!Match(row, first, {}) /\ Matching(row, call(ledger), <<>>, {}, match)
    BY <1>3 DEF MatchWithLedger
  <2>2. /\ call(ledger).approval = first.approval /\ call(ledger).consensus = first.consensus
        /\ call(ledger).suggestion = first.suggestion
    BY CallsHold
  <2>3. {"approval", "consensus", "suggestion"} \subseteq DOMAIN call(ledger)
    BY CallsHold
  <2>4. \E Lines : <<>> \in Seq(Lines)
    BY ShortAreSequences
  <2> HIDE DEF first, call
  <2>5. match = Rules!Match(row, call(ledger), {})
    BY <2>1, <2>2, MatchLooksAt
  <2> QED BY <2>1, <2>3, <2>4, <2>5 DEF MatchPassed
<1>4. MatchPassed
  BY <1>1, <1>2, <1>3 DEF MatchRow
<1>5. PICK row, call, lines, examples, match :
        /\ Matching(row, call, lines, examples, match) /\ match = Rules!Match(row, call, examples)
        /\ {"approval", "consensus", "suggestion"} \subseteq DOMAIN call /\ \E Lines : lines \in Seq(Lines)
  BY <1>4 DEF MatchPassed
<1>6. Argument' = [row |-> row, call |-> call, lines |-> lines, examples |-> examples, match |-> match,
                   result |-> Rules!Decided(row, call, match)]
  BY <1>5, TakesArgument DEF Matching
<1> QED BY <1>5, <1>6 DEF IsMatching

\* The plain files of a call.
LEMMA PlainFiles ==
  ASSUME NEW content, NEW name, NEW f \in FileShapes(content, name)
  PROVE  \E period \in {None, 1, 2}, object \in {1, 2}, copy \in BOOLEAN : f = FileOf(content, name, period, object, copy)
BY DEF FileShapes

\* The files of a call whose object is told in more than one way.
LEMMA FilesTold ==
  ASSUME NEW content, NEW name, NEW f \in ToldFiles(content, name)
  PROVE  \E mapped \in {{}, {2}}, hint \in {{}, {1}, {2}}, folder \in {{}, {1}, {2}} : f = ToldFile(content, name, mapped, hint, folder)
BY DEF ToldFiles

\* A flaw leaves what is told of a file alone.
LEMMA FlawsAreElsewhere ==
  ASSUME NEW g, {"period", "mapped", "hint", "folder"} \subseteq DOMAIN g, NEW f \in Flawed(g)
  PROVE  f.period = g.period /\ f.mapped = g.mapped /\ f.hint = g.hint /\ f.folder = g.folder
BY DEF Flawed

\* A call is of two files or of three.
LEMMA PairsOfFiles ==
  ASSUME NEW files \in FilePairs
  PROVE  \E f \in FirstFiles, g \in SecondFiles : files = <<f, g>>
BY DEF FilePairs
LEMMA TriplesOfFiles ==
  ASSUME NEW files \in FileTriples
  PROVE  \E f \in PlainFirst, g \in PlainSecond, h \in LateFiles : files = <<f, g, h>>
BY DEF FileTriples

\* What is told of the files of a call, and their periods.
LEMMA FilesAreTold ==
  ASSUME NEW files \in FileSets
  PROVE  /\ \E Listed : files \in Seq(Listed)
         /\ \A n \in DOMAIN files : HasEvidence(files[n]) /\ files[n].period \in Int \cup {None}
<1> DEFINE Fine(f) == /\ f.period \in {None, 1, 2}
                      /\ f.mapped \in SUBSET {1, 2} /\ f.hint \in SUBSET {1, 2} /\ f.folder \in SUBSET {1, 2}
<1>1. \A content, name : Fine(File(content, name))
  BY DEF File
<1>2. ASSUME NEW content, NEW name, NEW period \in {None, 1, 2}, NEW object \in {1, 2}, NEW copy \in BOOLEAN
      PROVE  Fine(FileOf(content, name, period, object, copy))
  <2> DEFINE f == FileOf(content, name, period, object, copy)
  <2>1. f.period = period /\ f.mapped = {} /\ f.hint = {object} /\ f.folder = {}
    BY DEF File, FileOf
  <2> HIDE DEF f
  <2>2. Fine(f)
    BY <2>1
  <2> HIDE DEF Fine
  <2> QED BY <2>2 DEF f
<1>3. ASSUME NEW content, NEW name, NEW mapped \in {{}, {2}}, NEW hint \in {{}, {1}, {2}}, NEW folder \in {{}, {1}, {2}}
      PROVE  Fine(ToldFile(content, name, mapped, hint, folder))
  <2> DEFINE f == ToldFile(content, name, mapped, hint, folder)
  <2>1. f.period = None /\ f.mapped = mapped /\ f.hint = hint /\ f.folder = folder
    BY DEF File, ToldFile
  <2> HIDE DEF f
  <2>2. f.mapped \in SUBSET {1, 2} /\ f.hint \in SUBSET {1, 2} /\ f.folder \in SUBSET {1, 2}
    BY <2>1
  <2>3. Fine(f)
    BY <2>1, <2>2
  <2> HIDE DEF Fine
  <2> QED BY <2>3 DEF f
<1>4. ASSUME NEW period \in {None, 2}, NEW columns PROVE Fine(LateFile(period, columns))
  <2> DEFINE f == LateFile(period, columns)
  <2>1. f.period = period /\ f.mapped = {} /\ f.hint = {1} /\ f.folder = {}
    BY DEF File, LateFile
  <2> HIDE DEF f
  <2>2. Fine(f)
    BY <2>1
  <2> HIDE DEF Fine
  <2> QED BY <2>2 DEF f
<1>5. ASSUME NEW content, NEW name, NEW f \in Flawed(File(content, name)) PROVE Fine(f)
  <2> DEFINE g == File(content, name)
  <2>1. g.period = None /\ g.mapped = {} /\ g.hint = {1} /\ g.folder = {}
    BY DEF File
  <2>2. {"period", "mapped", "hint", "folder"} \subseteq DOMAIN g
    BY DEF File
  <2> HIDE DEF g
  <2>3. f.period = g.period /\ f.mapped = g.mapped /\ f.hint = g.hint /\ f.folder = g.folder
    BY <2>2, FlawsAreElsewhere DEF g
  <2> QED BY <2>1, <2>3
<1> HIDE DEF Fine
<1>6. ASSUME NEW content, NEW name, NEW f \in FileShapes(content, name) \cup OtherShapes(content, name) PROVE Fine(f)
  <2>1. ASSUME f \in FileShapes(content, name) PROVE Fine(f)
    <3>1. PICK period \in {None, 1, 2}, object \in {1, 2}, copy \in BOOLEAN : f = FileOf(content, name, period, object, copy)
      BY <2>1, PlainFiles
    <3> QED BY <1>2, <3>1
  <2>2. ASSUME f \in ToldFiles(content, name) PROVE Fine(f)
    <3>1. PICK mapped \in {{}, {2}}, hint \in {{}, {1}, {2}}, folder \in {{}, {1}, {2}} : f = ToldFile(content, name, mapped, hint, folder)
      BY <2>2, FilesTold
    <3> QED BY <1>3, <3>1
  <2>3. ASSUME f \in OtherShapes(content, name) PROVE Fine(f)
    <3>1. \/ f = File("broken", name) \/ f = File("x", "file 1")
          \/ f \in Flawed(File(content, name)) \/ f \in ToldFiles(content, name)
      BY <2>3 DEF OtherShapes
    <3> QED BY <1>1, <1>5, <2>2, <3>1
  <2> QED BY <2>1, <2>3
<1>7. \A f \in LateFiles : Fine(f)
  BY <1>4 DEF LateFiles
<1>8. \/ \E f, g : files = <<f, g>> /\ Fine(f) /\ Fine(g)
      \/ \E f, g, h : files = <<f, g, h>> /\ Fine(f) /\ Fine(g) /\ Fine(h)
  <2>1. CASE files \in FilePairs
    <3>1. PICK f \in FirstFiles, g \in SecondFiles : files = <<f, g>>
      BY <2>1, PairsOfFiles
    <3>2. Fine(f) /\ Fine(g)
      BY <1>6 DEF FirstFiles, SecondFiles, PlainFirst, PlainSecond
    <3> QED BY <3>1, <3>2
  <2>2. CASE files \in FileTriples
    <3>1. PICK f \in PlainFirst, g \in PlainSecond, h \in LateFiles : files = <<f, g, h>>
      BY <2>2, TriplesOfFiles
    <3>2. Fine(f) /\ Fine(g) /\ Fine(h)
      BY <1>6, <1>7 DEF PlainFirst, PlainSecond
    <3> QED BY <3>1, <3>2
  <2> QED BY <2>1, <2>2 DEF FileSets
<1>9. \E Listed : files \in Seq(Listed)
  BY <1>8, ShortAreSequences
<1>10. \A n \in DOMAIN files : Fine(files[n])
  <2>1. CASE \E f, g : files = <<f, g>> /\ Fine(f) /\ Fine(g)
    <3>1. PICK f, g : files = <<f, g>> /\ Fine(f) /\ Fine(g)
      BY <2>1
    <3>2. DOMAIN files = {1, 2} /\ files[1] = f /\ files[2] = g
      BY <3>1
    <3> QED BY <3>1, <3>2
  <2>2. CASE \E f, g, h : files = <<f, g, h>> /\ Fine(f) /\ Fine(g) /\ Fine(h)
    <3>1. PICK f, g, h : files = <<f, g, h>> /\ Fine(f) /\ Fine(g) /\ Fine(h)
      BY <2>2
    <3>2. DOMAIN files = {1, 2, 3} /\ files[1] = f /\ files[2] = g /\ files[3] = h
      BY <3>1
    <3> QED BY <3>1, <3>2
  <2> QED BY <1>8, <2>1, <2>2
<1>11. ASSUME NEW f, Fine(f) PROVE HasEvidence(f)
  <2>1. f.mapped \in SUBSET {1, 2} /\ f.hint \in SUBSET {1, 2} /\ f.folder \in SUBSET {1, 2}
    BY <1>11 DEF Fine
  <2>2. Choice!Told(f) = (f.mapped \cup f.hint) \cup f.folder
    BY DEF Choice!Told, Choice!Evidence
  <2>3. Choice!Told(f) \in SUBSET {1, 2}
    BY <2>1, <2>2
  <2>4. IsFiniteSet({1, 2})
    <3>1. IsFiniteSet({1} \cup {2})
      BY FS_Singleton, FS_AddElement
    <3>2. {1} \cup {2} = {1, 2}
      OBVIOUS
    <3> QED BY <3>1, <3>2
  <2> QED BY <2>3, <2>4, FS_Subset DEF HasEvidence
<1>12. \A f : Fine(f) => f.period \in Int \cup {None}
  BY DEF Fine
<1> QED BY <1>9, <1>10, <1>11, <1>12

\* The files of a call are listed, told of, and chosen.
LEMMA SelectCalls ==
  ASSUME SelectSources
  PROVE  IsSelection(Argument)'
<1>1. PICK files \in FileSets, explicit \in BOOLEAN, requested \in {None, 1} :
        Takes([files |-> files, explicit |-> explicit, requested |-> requested,
               result |-> Choice!Select(files, explicit, requested)])
  BY DEF SelectSources
<1>2. Argument' = [files |-> files, explicit |-> explicit, requested |-> requested,
                   result |-> Choice!Select(files, explicit, requested)]
  BY <1>1, TakesArgument
<1>3. /\ \E Listed : files \in Seq(Listed)
      /\ \A n \in DOMAIN files : HasEvidence(files[n]) /\ files[n].period \in Int \cup {None}
  BY FilesAreTold
<1> QED BY <1>2, <1>3 DEF IsSelection

-----------------------------------------------------------------------------
(* What an input shows of its algorithm.                                     *)

\* Rules, decisions and matches give every written row its sources, once.
LEMMA CalledRows ==
  ASSUME Called
  PROVE  RulesStand /\ WrittenRowsCountOnce /\ AcceptedRowsCount /\ SelectionIsMonotone
<1>1. RulesStand
  BY RulesAlwaysStand DEF RulesStand
<1>2. WrittenRowsCountOnce
  BY WrittenRowsAlwaysCountOnce DEF WrittenRowsCountOnce
<1>3. AcceptedRowsCount
  BY AcceptedRowsAlwaysCount DEF AcceptedRowsCount
<1>4. SelectionIsMonotone
  <2> SUFFICES ASSUME Ran("reconcile")
               PROVE  Rows!SelectionIsMonotone(Argument.S, Argument.T, Argument.world)
    BY DEF SelectionIsMonotone
  <2>1. PICK s, t : Argument.S = {s, t}
    BY DEF Called, IsReconciliation
  <2>2. IsFiniteSet({s})
    BY FS_Singleton
  <2>3. IsFiniteSet({s} \cup {t})
    BY <2>2, FS_AddElement
  <2>4. {s} \cup {t} = Argument.S
    BY <2>1
  <2> QED BY <2>3, <2>4, SelectionIsAlwaysMonotone
<1> QED BY <1>1, <1>2, <1>3, <1>4

\* What is offered for acceptance in one step is complete, alike, and offered once.
LEMMA CalledGroups == SafePackagesAgree /\ EveryGroupOnce /\ SafeWithoutOthers
<1>1. SafePackagesAgree
  BY SafePackagesAlwaysAgree DEF SafePackagesAgree, Packaged
<1>2. EveryGroupOnce
  BY EveryGroupAlwaysOnce DEF EveryGroupOnce, Packaged
<1>3. SafeWithoutOthers
  BY AlwaysSafeWithoutOthers DEF SafeWithoutOthers, Packaged
<1> QED BY <1>1, <1>2, <1>3

\* Mined patterns tell no parameter and no private text, and are activated after the
\* replay and the approval of exactly that record.
LEMMA CalledPatterns ==
  ASSUME Called
  PROVE  NoParameterPublished /\ PrivateRowsAreUnseen /\ ActivationWasReplayed /\ AcceptedBeforeApproval
<1>1. NoParameterPublished
  BY NoParameterEverPublished DEF NoParameterPublished, Called, IsMining
<1>2. PrivateRowsAreUnseen
  BY PrivateRowsAlwaysUnseen DEF PrivateRowsAreUnseen, Called, IsMining
<1>3. ActivationWasReplayed
  <2> SUFFICES ASSUME Ran("promote"), Argument.history # None
               PROVE  Gate!ActivationWasReplayed(Argument.history, Argument.report, Argument.policy, Argument.snapshots, Argument.runs)
    BY DEF ActivationWasReplayed
  <2>1. IsPromotion(Argument)
    BY DEF Called
  <2> QED BY <2>1, ActivationAlwaysReplayed DEF IsPromotion, HasNumbers
<1>4. AcceptedBeforeApproval
  <2> SUFFICES ASSUME Ran("accept")
               PROVE  Gate!AcceptedBeforeApproval(Argument)
    BY DEF AcceptedBeforeApproval
  <2>1. IsAcceptance(Argument)
    BY DEF Called
  <2> QED BY <2>1, AcceptedAlwaysBeforeApproval DEF IsAcceptance
<1> QED BY <1>1, <1>2, <1>3, <1>4

\* People decide a row first, then what is certain, and never a suggestion; the files
\* that are read are those of their object and its period.
LEMMA CalledCards ==
  ASSUME Called
  PROVE  /\ UnresolvedIsNotGuessed /\ QuantityKeepsUnit /\ SuggestionsDecideNothing /\ ConsensusIsUnanimous /\ LastWordCounts
         /\ NoEvidenceAgainst /\ EveryObjectIsServed /\ RightPeriodIsRead
<1>1. UnresolvedIsNotGuessed
  BY UnresolvedNeverGuessed DEF UnresolvedIsNotGuessed, Called, IsMatching
<1>2. QuantityKeepsUnit
  BY QuantityAlwaysKeepsUnit DEF QuantityKeepsUnit, Called, IsMatching
<1>3. SuggestionsDecideNothing
  BY SuggestionsNeverDecide DEF SuggestionsDecideNothing, Called, IsMatching
<1>4. ConsensusIsUnanimous
  BY ConsensusAlwaysUnanimous DEF ConsensusIsUnanimous, Called, IsMatching
<1>5. LastWordCounts
  <2> SUFFICES ASSUME Ran("match row"), NEW category \in {"c", "d"}, NEW quantity \in {"include", "exclude"}
               PROVE  Rules!LastWordCounts(Argument.row, Argument.call, Argument.lines, category, quantity)
    BY DEF LastWordCounts
  <2>1. PICK Lines : Argument.lines \in Seq(Lines)
    BY DEF Called, IsMatching
  <2>2. quantity # None
    BY NoneIsNothing
  <2> QED BY <2>1, <2>2, LastWordAlwaysCounts
<1>6. ASSUME Ran("select")
      PROVE  /\ Argument.result = Choice!Select(Argument.files, Argument.explicit, Argument.requested) /\ Argument.explicit \in BOOLEAN
             /\ \A n \in DOMAIN Argument.files : HasEvidence(Argument.files[n]) /\ Argument.files[n].period \in Int \cup {None}
  BY <1>6 DEF Called, IsSelection
<1>7. NoEvidenceAgainst
  <2> SUFFICES ASSUME Ran("select") PROVE Choice!NoEvidenceAgainst(Argument.result)
    BY DEF NoEvidenceAgainst
  <2>1. PICK Listed : Argument.files \in Seq(Listed)
    BY DEF Called, IsSelection
  <2> QED BY <1>6, <2>1, NeverEvidenceAgainst
<1>8. EveryObjectIsServed
  <2> SUFFICES ASSUME Ran("select") PROVE Choice!EveryObjectIsServed(Argument.files, Argument.explicit, Argument.result)
    BY DEF EveryObjectIsServed
  <2> QED BY <1>6, EveryObjectAlwaysServed
<1>9. RightPeriodIsRead
  <2> SUFFICES ASSUME Ran("select")
               PROVE  Choice!RightPeriodIsRead(Argument.files, Argument.explicit, Argument.requested, Argument.result)
    BY DEF RightPeriodIsRead
  <2>1. PICK Listed : Argument.files \in Seq(Listed)
    BY DEF Called, IsSelection
  <2> QED BY <1>6, <2>1, RightPeriodAlwaysRead
<1> QED BY <1>1, <1>2, <1>3, <1>4, <1>5, <1>7, <1>8, <1>9
=============================================================================
