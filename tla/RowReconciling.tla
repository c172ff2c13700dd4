--------------------------- MODULE RowReconciling ---------------------------
(***************************************************************************)
(* The pure core of a reconciliation: source rows are matched to the rows  *)
(* of the report (matching/engine.py), a reviewer's decisions replace the  *)
(* selections (processing/reconciliation.py), the selected rows are summed *)
(* (calculation/engine.py) and the quality gate says whether the result    *)
(* may be written (quality_control).                                       *)
(*                                                                         *)
(* Texts stand for their normal forms.  A source is [id, object,           *)
(* subobject, position, name, unit, index, quantity, cost, kind], a target *)
(* [id, object, subobject, position, name, unit, index, stage, writable,   *)
(* trusted, cost], trusted when the cells it shows hold values and no      *)
(* doubtful formula.  A stage is [text, plain]: its normal form, and       *)
(* whether it is written like that.  A rule is [id, approved, objects,     *)
(* stages, processes, units, clauses], with what its scope allows and      *)
(* nothing where all is allowed; a clause [names, units, action, quantity, *)
(* cost] with the names and units it holds for.  A world is [rules,        *)
(* similar, units, coefficient, quantum, tolerance].                       *)
(***************************************************************************)
EXTENDS Integers, FiniteSets, FiniteSetsExt, Sequences

CONSTANT None   \* an empty text or number

-----------------------------------------------------------------------------
(* match_rows                                                              *)

Equal(a, b) == a # None /\ a = b
Holds(clause, s) == s.name \in clause.names /\ s.unit \in clause.units
Allows(allowed, value) == allowed = {} \/ (value # None /\ value \in allowed)
\* The calculation compares the normal form of all that a scope limits.
InScopeNormal(rule, s, t) == /\ Allows(rule.objects, t.object) /\ Allows(rule.stages, t.stage.text)
                             /\ Allows(rule.processes, t.name) /\ Allows(rule.units, s.unit)
\* The matching compares the stage as it is written.
InScope(rule, s, t) == InScopeNormal(rule, s, t) /\ (rule.stages = {} \/ t.stage.plain)

\* The clauses of every rule, each with its rule.
RuleClauses(world) == UNION {{r} \X r.clauses : r \in world.rules}

\* Bug: the rules are not looked at in their scope.
ClausesAnywhere(s, t, world) == {rc \in RuleClauses(world) : rc[1].approved /\ Holds(rc[2], s)}

Clauses(s, t, world) ==
  {rc \in RuleClauses(world) : rc[1].approved /\ InScope(rc[1], s, t) /\ Holds(rc[2], s)}

\* A strategy is its ordinal: exact_business_key, index_position,
\* object_subobject_position, normalized_name_unit, normalized_name_context,
\* configuration_rule, fuzzy_review, authoritative_review.
Agree(s, t, fields) == \A f \in fields : Equal(s[f], t[f])
Strategies(s, t, world) ==
  {i \in 1..6 :
     \/ i = 1 /\ Agree(s, t, {"object", "subobject", "position", "name", "unit"})
     \/ i = 2 /\ Agree(s, t, {"index", "position"})
     \/ i = 3 /\ Agree(s, t, {"object", "subobject", "position"})
     \/ i = 4 /\ Agree(s, t, {"name", "unit"})
     \/ i = 5 /\ Agree(s, t, {"name"}) /\ \E f \in {"object", "subobject"} : Agree(s, t, {f})
     \/ i = 6 /\ Clauses(s, t, world) # {}}
  \cup {i \in {7} : {s.name, t.name} \in world.similar}

\* A pair that only resembles, or that a rule sends to review, is never selected.
Candidates(S, t, world) ==
  LET asks(s, action) == \E rc \in Clauses(s, t, world) : rc[2].action = action
      found(s) == Strategies(s, t, world)
  IN  {[source |-> s, rules |-> {rc[1].id : rc \in Clauses(s, t, world)},
        ordinal |-> Min(found(s)), blocked |-> asks(s, "exclude"),
        manual |-> asks(s, "review") \/ found(s) = {7}] : s \in {s \in S : found(s) # {}}}

Eligible(C) == {c \in C : ~c.blocked /\ ~c.manual}
Best(C)     == {c \in C : \A d \in C : c.ordinal <= d.ordinal}

\* Bug: of several best candidates one is taken.
SelectionOfAny(t, C) ==
  LET best == Best(Eligible(C)) IN
  [target |-> t, selected |-> IF best = {} THEN {} ELSE {CHOOSE c \in best : TRUE},
   status |-> IF best # {} THEN "matched" ELSE "unmatched"]

\* _selection
Selection(t, C) ==
  LET best == Best(Eligible(C)) IN
  [target |-> t, selected |-> IF Cardinality(best) = 1 THEN best ELSE {},
   status |-> IF Cardinality(best) = 1 THEN "matched"
              ELSE IF \E c \in C : ~c.blocked THEN "ambiguous" ELSE "unmatched"]

Matches(S, T, world) == {Selection(t, Candidates(S, t, world)) : t \in T}

-----------------------------------------------------------------------------
(* Decisions: overrides[id] = [target, quantity], of some of the sources.  *)

\* The candidate a decision makes of a row that did not match by itself.
Authoritative(s) == [source |-> s, rules |-> {}, ordinal |-> 8, blocked |-> FALSE, manual |-> FALSE]

\* Bug: a decision only selects among what was matched.
DecidedAmong(S, t, world, overrides) ==
  LET chosen == {c \in Candidates(S, t, world) :
                   c.source.id \in DOMAIN overrides /\ overrides[c.source.id].target = t.id}
  IN  [target |-> t, selected |-> chosen,
       status |-> IF chosen = {} THEN "unmatched" ELSE "matched"]

\* _effective_match: the rows decided for this target, and only they.
Decided(S, t, world, overrides) ==
  LET C == Candidates(S, t, world)
      mine == {s \in S : s.id \in DOMAIN overrides /\ overrides[s.id].target = t.id}
      chosen == {IF \E c \in C : c.source = s THEN CHOOSE c \in C : c.source = s
                 ELSE Authoritative(s) : s \in mine}
  IN  [target |-> t, selected |-> chosen,
       status |-> IF chosen = {} THEN "unmatched" ELSE "matched"]

\* execute_reconciliation: without decisions the matches stand.
Effective(S, T, world, overrides) ==
  IF DOMAIN overrides = {} THEN Matches(S, T, world)
  ELSE {Decided(S, t, world, overrides) : t \in T}

-----------------------------------------------------------------------------
(* calculate_matches                                                       *)

\* ROUND_HALF_UP to a multiple of the quantum, half away from zero.
RoundTo(v, quantum) ==
  LET up(n) == ((2 * n + quantum) \div (2 * quantum)) * quantum
  IN  IF v < 0 THEN 0 - up(0 - v) ELSE up(v)

\* _sum_optional: nothing, when no value is there.
Total(C, F(_)) == IF \E c \in C : F(c) # None THEN MapThenSumSet(F, {c \in C : F(c) # None}) ELSE None
Rounded(v, factor, quantum) == IF v = None THEN None ELSE RoundTo(v * factor, quantum)

\* _rule_decision: the clauses of the candidate's rules, by the calculation's reading.
Applied(c, t, world) ==
  {rk \in RuleClauses(world) : rk[1].id \in c.rules /\ InScopeNormal(rk[1], c.source, t) /\ Holds(rk[2], c.source)}
Drifts(c, t, world) ==
  \E id \in c.rules : \A rk \in Applied(c, t, world) : rk[1].id # id \/ ~rk[1].approved

Included(c, t, world, overrides, field) ==
  IF c.source.id \in DOMAIN overrides
  THEN field = "cost" \/ overrides[c.source.id].quantity
  ELSE c.rules = {} \/ \E rk \in Applied(c, t, world) : rk[2].action = "include" /\ rk[2][field]

\* _quantity_unit_allowed
UnitAllowed(s, t, world) == /\ world.units = {} \/ s.unit \in world.units
                            /\ t.unit = None \/ s.unit = t.unit

Contribution(c, t, world, overrides) ==
  LET counted(field) == Included(c, t, world, overrides, field)
      mismatch == counted("quantity") /\ ~UnitAllowed(c.source, t, world)
  IN  [source |-> c.source,
       quantity |-> IF counted("quantity") /\ ~mismatch THEN c.source.quantity ELSE None,
       cost |-> IF counted("cost") THEN c.source.cost ELSE None,
       warns |-> mismatch \/ \E v \in {c.source.quantity, c.source.cost} : v # None /\ v < 0]

Nothing(status) == [status |-> status, quantity |-> None, raw |-> None, cost |-> None,
                    contributions |-> {}, warns |-> TRUE]

\* The sums of what is counted.
Summed(parts, world) ==
  LET quantity(p) == p.quantity
      cost(p) == p.cost
      sums == [quantity |-> Total(parts, quantity), cost |-> Total(parts, cost)]
      warns == \E p \in parts : p.warns
  IN  [status |-> IF sums.quantity = None /\ sums.cost = None THEN "no_values"
                  ELSE IF warns THEN "calculated_with_warnings" ELSE "calculated",
       quantity |-> Rounded(sums.quantity, 1, world.quantum), raw |-> sums.cost,
       cost |-> Rounded(sums.cost, world.coefficient, world.quantum),
       contributions |-> parts, warns |-> warns]

\* _calculate_result
Calculated(m, world, overrides) ==
  LET held(action) == \E c \in m.selected : \E rk \in Applied(c, m.target, world) : rk[2].action = action
  IN  IF m.status = "unmatched" THEN Nothing("no_match")
      ELSE IF m.status = "ambiguous" \/ held("exclude") \/ held("review") THEN Nothing("manual_review")
      ELSE Summed({Contribution(c, m.target, world, overrides) : c \in m.selected}, world)

\* _category_totals: one category each, every one rounded by itself.
CategoryTotals(r, world) ==
  {LET parts == {p \in r.contributions : p.source.kind = k}
       quantity(p) == p.quantity
       cost(p) == p.cost
   IN  [kind |-> k, quantity |-> Rounded(Total(parts, quantity), 1, world.quantum),
        raw |-> Total(parts, cost), cost |-> Rounded(Total(parts, cost), world.coefficient, world.quantum)]
   : k \in {p.source.kind : p \in r.contributions}}

-----------------------------------------------------------------------------
(* evaluate_quality_control: severities of the issues there are.           *)

UnitIssue(c, t) == IF c.source.unit = None \/ t.unit = None \/ c.source.unit # t.unit
                   THEN {"manual_review"} ELSE {}
NameIssue(row)  == IF row.name = None THEN {"manual_review"} ELSE {}
TotalsAgree(r, world) ==
  LET totals == CategoryTotals(r, world)
      quantity(k) == k.quantity  raw(k) == k.raw  cost(k) == k.cost
  IN  /\ Total(totals, quantity) = r.quantity
      /\ Total(totals, raw) = r.raw
      /\ Total(totals, cost) = r.cost

\* _check_tolerance: against the cost the report shows now.
ToleranceIssue(r, t, world) ==
  LET off == IF r.cost >= t.cost THEN r.cost - t.cost ELSE t.cost - r.cost
      size == IF t.cost < 0 THEN 0 - t.cost ELSE t.cost
  IN  IF off * 100 > size * world.tolerance THEN {"manual_review"} ELSE {}

Signed(v) == v # None /\ v < 0
SelectedIssues(m) == UNION {NameIssue(c.source) \cup UnitIssue(c, m.target) : c \in m.selected}
SignIssues(r) ==
  IF \E p \in r.contributions : /\ p.source.quantity \notin {None, 0} /\ p.source.cost \notin {None, 0}
                               /\ Signed(p.source.quantity) # Signed(p.source.cost)
  THEN {"manual_review"} ELSE {}
MatchIssues(m, r, world) ==
  NameIssue(m.target) \cup SelectedIssues(m) \cup SignIssues(r)
  \cup (IF ~m.target.trusted \/ (m.status = "matched" /\ ~m.target.writable) THEN {"blocking"} ELSE {})
  \cup (IF m.status # "matched" \/ r.status = "manual_review" THEN {"manual_review"} ELSE {})
  \cup (IF r.status = "no_values" \/ ~TotalsAgree(r, world) THEN {"blocking"} ELSE {})
  \cup (IF r.warns THEN {"warning"} ELSE {})
  \cup (IF m.target.cost = None THEN {} ELSE IF r.cost = None THEN {"blocking"}
        ELSE ToleranceIssue(r, m.target, world))

\* Bug: rows selected twice are not looked for.
ReuseUnseen(M) == {}

\* _check_source_reuse
Reuse(M) == IF \E m, n \in M : m # n /\ {c.source : c \in m.selected} \cap {c.source : c \in n.selected} # {}
            THEN {"manual_review"} ELSE {}

Issues(M, world, overrides) ==
  Reuse(M) \cup UNION {MatchIssues(m, Calculated(m, world, overrides), world) : m \in M}

\* decision: the worst severity decides.
Decision(issues) == IF "blocking" \in issues THEN "block_write"
                    ELSE IF "manual_review" \in issues THEN "require_manual_review"
                    ELSE IF "warning" \in issues THEN "allow_write_with_warnings" ELSE "allow_write"

-----------------------------------------------------------------------------
(* Properties of one input: sources S, targets T, a world and decisions.   *)

\* What matched by a rule can be calculated: the calculation, which reads the
\* scope and the clauses again, finds every rule the match names
\* (RULE_DRIFT at calculation/engine.py:227 is never raised).
RulesStand(S, T, world, overrides) ==
  \A m \in Effective(S, T, world, overrides) : \A c \in m.selected : ~Drifts(c, m.target, world)

\* A result that may be written without a further look counts each row at most
\* once, only rows no approved rule excludes or holds back for that target, in
\* the unit of the target.
WrittenRowsCountOnce(S, T, world, overrides) ==
  LET M == Effective(S, T, world, overrides)
      counted(m) == Calculated(m, world, overrides).contributions
  IN  Decision(Issues(M, world, overrides)) = "allow_write" =>
        /\ \A m, n \in M : m # n => \A p \in counted(m), q \in counted(n) : p.source # q.source
        /\ \A m \in M : \A p \in counted(m) :
             /\ p.source.unit = m.target.unit
             /\ ~\E rc \in Clauses(p.source, m.target, world) : rc[2].action \in {"exclude", "review"}

\* Every row a reviewer accepted for a target is counted there, or the target is
\* held back for review; and no row is counted where nobody accepted it.
AcceptedRowsCount(S, T, world, overrides) ==
  DOMAIN overrides # {} =>
    \A m \in Effective(S, T, world, overrides) :
      LET r == Calculated(m, world, overrides)
          accepted == {s \in S : s.id \in DOMAIN overrides /\ overrides[s.id].target = m.target.id}
      IN  r.status # "manual_review" => {p.source : p \in r.contributions} = accepted

\* More rows never move a selection to a row that matches no better: what a
\* target is matched with changes only for a strictly stronger strategy, or it
\* becomes ambiguous.
SelectionIsMonotone(S, T, world) ==
  \A t \in T, s \in S :
    LET few == Selection(t, Candidates(S \ {s}, t, world))
        all == Selection(t, Candidates(S, t, world))
    IN  few.status = "matched" /\ all.status = "matched" /\ few.selected # all.selected
          => \A c \in few.selected, d \in all.selected : d.source = s /\ d.ordinal < c.ordinal

\* A calculation's category totals add up to its totals.  The code does not
\* satisfy it: every category is rounded by itself.
TotalsAddUp(S, T, world, overrides) ==
  \A m \in Effective(S, T, world, overrides) : TotalsAgree(Calculated(m, world, overrides), world)

\* A rule whose scope names the stage of a target applies to it however the
\* stage is written.  The code does not satisfy it: matching compares the scope's
\* normal forms with the stage as it is written (matching/engine.py:359).
ScopesAreRead(S, T, world) ==
  \A s \in S, t \in T, r \in world.rules : InScopeNormal(r, s, t) => InScope(r, s, t)
=============================================================================
