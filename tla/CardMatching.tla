---------------------------- MODULE CardMatching ----------------------------
(* How one source row of a drawing card is decided: matcher.py tries what    *)
(* people said, then what is certain, then what machines agreed on, then the *)
(* rules, and only suggests after that; review/context.py may then replay an *)
(* exact answer of an earlier review.                                        *)
(*                                                                           *)
(* A text is a record of what the masks find in it: the rules it matches (by *)
(* a broad cue, a phrase or a group), excludes and cues of each category,    *)
(* and whether it is a confirmed negative, a coupling or has a target cue.   *)
(* Units are normalised.  Fingerprints are the values they stand for.        *)
EXTENDS Integers, FiniteSets, Sequences

CONSTANTS None,
          Expected,      \* the units of every category that has a rule
          PowerCable,    \* the category of cable couplings
          Version,       \* the version of the rules
          Distinctive    \* _DISTINCTIVE_TOKEN_LENGTH

-----------------------------------------------------------------------------
(* Masks: a word matches a mask it starts with, or differs from in one edit. *)
StartsWith(word, mask) == Len(mask) <= Len(word) /\ SubSeq(word, 1, Len(mask)) = mask

\* Walking both words; `skipped` letters of the longer one have no partner.
Walk(longer, shorter) ==
  LET step[i \in 0 .. Len(shorter)] ==
        IF i = 0 THEN 0
        ELSE LET s == step[i - 1]
             IN CHOOSE o \in s .. 2 : /\ o = 2 \/ longer[i + o] = shorter[i]
                                      /\ \A n \in s .. o - 1 : longer[i + n] # shorter[i]
  IN step[Len(shorter)]
\* Bug: any two words of nearly the same length.
NearLengths(left, right) == Len(left) - Len(right) \in -1 .. 1
EditDistanceAtMostOne(left, right) ==
  /\ Len(left) - Len(right) \in -1 .. 1
  /\ \/ left = right
     \/ Len(left) = Len(right) /\ Cardinality({i \in DOMAIN left : left[i] # right[i]}) <= 1
     \/ Len(left) > Len(right) /\ Walk(left, right) <= 1
     \/ Len(left) < Len(right) /\ Walk(right, left) <= 1
TokenMatches(mask, word) ==
  \/ StartsWith(word, mask)
  \/ Len(mask) >= Distinctive /\ Len(word) >= Distinctive /\ EditDistanceAtMostOne(mask, word)

\* One edit: a letter replaced, or left out of the longer word.
Without(word, i) == SubSeq(word, 1, i - 1) \o SubSeq(word, i + 1, Len(word))
OneEditApart(s, t) ==
  \/ s = t
  \/ \E i \in DOMAIN s : Without(s, i) = t
  \/ \E i \in DOMAIN t : Without(t, i) = s
  \/ Len(s) = Len(t) /\ \E i \in DOMAIN s : Without(s, i) = Without(t, i)
\* matching/masks.py: the walk finds exactly the words one typing error away.
TyposAreOneEdit(mask, word, matches) ==
  matches <=> \/ StartsWith(word, mask)
              \/ Len(mask) >= Distinctive /\ Len(word) >= Distinctive /\ OneEditApart(mask, word)

-----------------------------------------------------------------------------
(* What a decision says of a row.                                            *)
Undecided == <<>>
Decision(category, quantity, cost, strategy) ==
  [category |-> category, quantity |-> quantity, cost |-> cost, strategy |-> strategy, review |-> FALSE, warnings |-> {}]
Excluded(strategy) == Decision(None, "exclude", "exclude", strategy)
Reviewed(category, warnings) ==
  [category |-> category, quantity |-> "review", cost |-> "review", strategy |-> "review", review |-> TRUE, warnings |-> warnings]
Include(condition) == IF condition THEN "include" ELSE "exclude"
IsAmount(x) == x \notin {None, 0}

\* A category without a rule accepts every unit, and no unit fits every rule.
UnitFits(unit, category) ==
  category \in DOMAIN Expected => unit = None \/ Expected[category] = {} \/ unit \in Expected[category]

-----------------------------------------------------------------------------
(* An approval of the review workbook.                                       *)
Approved(approval) ==
  IF approval = None THEN Undecided
  ELSE IF approval.action \in {"reject", "skip"} THEN Excluded("manual_review")
  ELSE IF approval.category = None THEN Undecided
  ELSE Decision(approval.category, Include(approval.action \in {"approve", "quantity_only", "change_category"}),
                Include(approval.action \in {"approve", "cost_only", "change_category"}), "manual_review")

-----------------------------------------------------------------------------
(* Confirmed examples; feedback is what a reviewer of this service answered. *)
Default(given, decision, including) ==
  IF decision = "exclude" THEN "exclude" ELSE IF given # None THEN given ELSE Include(decision = including)
Example(line) ==
  [id |-> line.id, text |-> line.text, category |-> line.category, unit |-> line.unit, feedback |-> line.feedback,
   quantity |-> Default(line.quantity, line.decision, "include_quantity"), cost |-> Default(line.cost, line.decision, "include_cost")]
\* Bug: every answer is kept, the withdrawn ones too.
AllConfirmed(lines) == {Example(lines[i]) : i \in {i \in DOMAIN lines : lines[i].confirmed}}
LoadedExamples(lines) ==
  {Example(lines[i]) : i \in {i \in DOMAIN lines :
     /\ lines[i].confirmed
     /\ ~ (/\ lines[i].feedback
           /\ \E j \in i + 1 .. Len(lines) : /\ lines[j].confirmed /\ lines[j].feedback
                                             /\ lines[j].text = lines[i].text /\ lines[j].unit = lines[i].unit)}}
PreferFeedback(examples) ==
  LET feedback == {e \in examples : e.feedback} IN IF feedback # {} THEN feedback ELSE examples
Opinions(examples) == {<<e.category, e.quantity, e.cost>> : e \in examples}
OfRow(examples, row, unit) == {e \in examples : e.text = row.text.name /\ e.unit = unit}
\* Without an example of the unit, one for all units counts when it is positive.
Candidates(examples, row) ==
  LET exact == OfRow(examples, row, row.unit)
  IN PreferFeedback(IF exact # {} THEN exact ELSE {e \in OfRow(examples, row, None) : e.category # None})

\* Bug: an example of all units includes the quantity of any.
OfEveryUnit(row, e) ==
  IF e.category = None \/ e.unit \in {None, row.unit} THEN Decision(e.category, e.quantity, e.cost, "confirmed_dictionary")
  ELSE Reviewed(e.category, {"UNIT_MISMATCH"})
FromExample(row, e) ==
  IF e.category # None /\ e.quantity = "include" /\ ~UnitFits(row.unit, e.category)
  THEN [Reviewed(e.category, {"UNIT_MISMATCH"}) EXCEPT !.cost = e.cost]
  ELSE IF e.category = None \/ e.unit \in {None, row.unit}
  THEN Decision(e.category, e.quantity, e.cost, "confirmed_dictionary")
  ELSE Reviewed(e.category, {"UNIT_MISMATCH"})
Dictionary(row, examples) ==
  LET candidates == Candidates(examples, row)
  IN IF Cardinality(Opinions(PreferFeedback(OfRow(examples, row, row.unit)))) > 1
     THEN Reviewed(None, {"CONFLICT_REQUIRES_REVIEW"})
     ELSE IF Cardinality(Opinions(candidates)) # 1 THEN Undecided
     ELSE FromExample(row, CHOOSE e \in candidates : TRUE)

-----------------------------------------------------------------------------
(* What is certain without a rule.                                           *)
OfFormulas == {"FORMULA_WITHOUT_CACHED_VALUE", "FORMULA_NOT_AVAILABLE"}
Unresolved(row) == row.warnings \cap {"FORMULA_WITHOUT_CACHED_VALUE", "EXCEL_ERROR"} # {}
NoImpact(row) == row.text.name = None \/ ~(IsAmount(row.quantity) \/ IsAmount(row.cost))
Certain(row) ==
  IF Unresolved(row) THEN Reviewed(None, row.warnings \cap OfFormulas)
  ELSE IF NoImpact(row) THEN Excluded("deterministic_no_impact")
  ELSE IF row.text.negative THEN Excluded("deterministic_negative")
  ELSE IF ~row.text.coupling THEN Undecided
  ELSE IF row.cost = None \/ row.cost <= 0 THEN Reviewed(PowerCable, {})
  ELSE Decision(PowerCable, "exclude", "include", "deterministic_cable_coupling_cost_only")

-----------------------------------------------------------------------------
(* Machine consensus: a line that cannot be read blocks the row it names.    *)
KeyOf(record) == <<record.text, record.unit, record.type, record.version>>
RowKey(row) == <<row.text.name, row.unit, row.type, Version>>
SameRow(record, row) == SubSeq(KeyOf(record), 1, 3) = SubSeq(RowKey(row), 1, 3)
Parsed(lines) ==
  {l \in lines : l.sealed /\ (l.category = None => "include" \notin {l.quantity, l.cost})}
Agreed(records) == {r \in records : \A s \in records : KeyOf(s) = KeyOf(r) => s = r}
\* Bug: lines that cannot be read are forgotten.
OnlyDisputed(lines, row) ==
  LET records == Parsed(lines)
  IN \/ \E r \in records \ Agreed(records) : KeyOf(r) = RowKey(row)
     \/ \E r \in Agreed(records) : SameRow(r, row) /\ r.version # Version
NeedsReview(lines, row) ==
  LET records == Parsed(lines)
  IN \/ \E r \in records \ Agreed(records) : KeyOf(r) = RowKey(row)
     \/ \E l \in lines \ records : KeyOf(l) = RowKey(row)
     \/ \E r \in Agreed(records) : SameRow(r, row) /\ r.version # Version
Consensus(row, lines) ==
  LET found == {r \in Agreed(Parsed(lines)) : KeyOf(r) = RowKey(row)}
  IN IF NeedsReview(lines, row) THEN Reviewed(None, {"CONFLICT_REQUIRES_REVIEW"})
     ELSE IF found = {} THEN Undecided
     ELSE LET r == CHOOSE r \in found : TRUE
          IN IF r.quantity = "include" /\ ~UnitFits(row.unit, r.category) THEN Reviewed(r.category, {"UNIT_MISMATCH"})
             ELSE Decision(r.category, r.quantity, r.cost, "machine_consensus_exact")

-----------------------------------------------------------------------------
(* Rules.                                                                    *)
RuleMatches(text, category) == category \notin text.excludes /\ \E kind \in {"broad", "phrase", "group"} : <<category, kind>> \in text.rules
StrongRuleMatches(text, category) == category \notin text.excludes /\ \E kind \in {"phrase", "group"} : <<category, kind>> \in text.rules

Deterministic(row, category) ==
  Decision(category, Include(IsAmount(row.quantity) /\ category \notin row.text.costOnly),
           Include(IsAmount(row.cost) /\ category \notin row.text.quantityOnly), "deterministic_rules")
\* Several categories whose units differ, or none, are left to the cues.
ByRules(row) ==
  LET matched == {c \in DOMAIN Expected : RuleMatches(row.text, c)}
      compatible == {c \in matched : UnitFits(row.unit, c)}
      strong == {c \in DOMAIN Expected : StrongRuleMatches(row.text, c)}
  IN IF Cardinality(compatible) > 1 THEN Reviewed(None, {"MULTIPLE_CATEGORY_MATCHES"})
     ELSE IF compatible # {} THEN Deterministic(row, CHOOSE c \in compatible : TRUE)
     ELSE IF Cardinality(matched) = 1
     THEN IF Cardinality(strong) = 1 /\ IsAmount(row.cost)
             /\ \A c \in strong : ~UnitFits(row.unit, c) /\ c \in row.text.costOnly
          THEN Decision(CHOOSE c \in strong : TRUE, "exclude", "include", "deterministic_strong_rule_cost_only")
          ELSE Reviewed(CHOOSE c \in matched : TRUE, {"UNIT_MISMATCH"})
     ELSE IF ~row.text.target THEN Excluded("deterministic_irrelevant") ELSE Undecided

-----------------------------------------------------------------------------
(* Suggestions: a neighbour, an index or a small model may propose.          *)
Retrieved(row, examples) ==
  {e.id : e \in {e \in examples : e.text = row.text.name \/ e.unit \in {row.unit} \ {None}}}
\* An answer that is no valid JSON of the schema, or none at all, is not caught.
NoAnswer == <<>>
Raised == [Reviewed(None, {}) EXCEPT !.strategy = "raised"]
\* Bug: a model that cites the retrieved examples is believed.
ModelBelieved(answer, retrieved) ==
  IF answer # NoAnswer /\ answer.evidence \subseteq retrieved
  THEN Decision(answer.category, "exclude", "include", "tiny_model_suggestion") ELSE Raised
ModelSuggestion(answer, retrieved) ==
  IF answer = NoAnswer THEN Raised
  ELSE IF answer.evidence \subseteq retrieved /\ answer.confirms
  THEN [Reviewed(answer.category, {"MODEL_SUGGESTION_NOT_APPLIED"}) EXCEPT !.strategy = "tiny_model_suggestion"]
  ELSE Reviewed(None, {"MODEL_DECISION_INVALID"})
Suggested(suggestion, retrieved) ==
  IF suggestion.semantic # None THEN Reviewed(suggestion.semantic, {"SEMANTIC_SUGGESTION_NOT_APPLIED"})
  ELSE IF suggestion.dense = "down" THEN Reviewed(None, {"DENSE_RETRIEVAL_UNAVAILABLE"})
  ELSE IF suggestion.dense = "found" THEN Reviewed(None, {"DENSE_SUGGESTION_NOT_APPLIED"})
  ELSE IF suggestion.model # None /\ retrieved # {} THEN ModelSuggestion(suggestion.model, retrieved)
  ELSE Reviewed(None, {"UNCONFIRMED_CLASSIFICATION"})

-----------------------------------------------------------------------------
(* The cascade: the first stage that decides.                                *)
First(stages) ==
  stages[CHOOSE i \in DOMAIN stages : stages[i] # Undecided /\ \A j \in 1 .. i - 1 : stages[j] = Undecided]
\* Bug: a row is matched by the rules before its formulas are looked at.
RulesFirst(row, call, examples) ==
  First(<<Approved(call.approval), Dictionary(row, examples), ByRules(row), Certain(row), Consensus(row, call.consensus),
          Suggested(call.suggestion, Retrieved(row, examples))>>)
Match(row, call, examples) ==
  First(<<Approved(call.approval), Dictionary(row, examples), Certain(row), Consensus(row, call.consensus),
          ByRules(row), Suggested(call.suggestion, Retrieved(row, examples))>>)

-----------------------------------------------------------------------------
(* Replay of an exact answer, for a row that would be reviewed.              *)
Policy(decision) ==
  IF decision.quantity = decision.cost /\ decision.cost = "include" THEN "quantity_cost"
  ELSE IF <<decision.quantity, decision.cost>> = <<"exclude", "include">> THEN "cost_only"
  ELSE IF <<decision.quantity, decision.cost>> = <<"include", "exclude">> THEN "quantity_only"
  ELSE <<decision.quantity, decision.cost>>
Context(row, decision, scope) ==
  [text |-> row.text.name, category |-> decision.category, position |-> row.position, mode |-> decision.strategy,
   unit |-> row.unit, policy |-> Policy(decision), scope |-> scope]
\* Bug: the hazards of the row are not looked at.
HazardOfDecision(row, decision) == decision.warnings \cap OfFormulas # {}
Hazard(row, decision) ==
  (row.warnings \cup decision.warnings) \cap (OfFormulas \cup {"EXCEL_ERROR"}) # {}

\* What a saved answer says; an old one says what its policy meant.
Resolutions(entry) ==
  IF entry.action \in {"reject", "exclude"} THEN <<"exclude", "exclude">>
  ELSE IF entry.quantity # None THEN <<entry.quantity, entry.cost>>
  ELSE CASE entry.context.policy = "quantity_cost" -> <<"include", "include">>
         [] entry.context.policy = "quantity_only" -> <<"include", "exclude">>
         [] entry.context.policy = "cost_only" -> <<"exclude", "include">>
LookupExact(ledger, context) ==
  LET live == {i \in DOMAIN ledger : /\ ledger[i].context = context /\ ledger[i].valid /\ ledger[i].hazards = {}
                                     /\ \A j \in DOMAIN ledger : ledger[j].supersedes # ledger[i].id}
  IN IF live = {} THEN None ELSE ledger[CHOOSE i \in live : \A j \in live : j <= i]
ReplayOf(entry) ==
  Decision(IF entry.action \in {"reject", "exclude"} THEN None ELSE entry.category,
           Resolutions(entry)[1], Resolutions(entry)[2], "exact_feedback_replay")
Replayed(row, decision, entry) ==
  IF ~decision.review \/ Hazard(row, decision) \/ row.text.name = None \/ entry = None THEN decision ELSE ReplayOf(entry)
Decided(row, call, match) ==
  Replayed(row, match, LookupExact(call.ledger, Context(row, match, call.scope)))

-----------------------------------------------------------------------------
(* Properties of one call: `match` is what the cascade says, `result` what   *)
(* is done after the replay.                                                 *)

\* matcher.py:332, context.py:68: a row whose formula has no value is decided
\* by what people said of exactly this row or text, never by a rule, a
\* consensus or an answer to an earlier version of the row.
UnresolvedIsNotGuessed(row, result) ==
  Unresolved(row) /\ ~result.review => result.strategy \in {"manual_review", "confirmed_dictionary"}

\* matcher.py:279, :364, :392: no path but an explicit answer to this row
\* includes a quantity in a unit its category does not have.
QuantityKeepsUnit(row, result) ==
  result.quantity = "include" /\ result.strategy \notin {"manual_review", "exact_feedback_replay"} =>
    UnitFits(row.unit, result.category)

\* matcher.py:433-525: neighbours, indexes and the model change no amount, and
\* put no row into or out of the review.
NoSuggestion == [semantic |-> None, dense |-> "off", model |-> None]
SuggestionsDecideNothing(row, call, examples, match) ==
  LET alone == Match(row, [call EXCEPT !.suggestion = NoSuggestion], examples)
  IN <<match.quantity, match.cost, match.review>> = <<alone.quantity, alone.cost, alone.review>>

\* consensus.py:36-67: machines decide a row only if every line that names it
\* is whole and says the same, for the rules in force.
ConsensusIsUnanimous(row, call, match) ==
  match.strategy = "machine_consensus_exact" =>
    \A l \in call.consensus : KeyOf(l) = RowKey(row) => <<l.category, l.quantity, l.cost>> = <<match.category, match.quantity, match.cost>> /\ l.sealed
\* No line about the row was made for other rules; not so when they disagree.
ConsensusIsFresh(row, call, match) ==
  match.strategy = "machine_consensus_exact" => \A l \in Parsed(call.consensus) : SameRow(l, row) => l.version = Version

\* examples.py:74-92, matcher.py:263-331: the last answer a reviewer gave to
\* the text in its unit is the decision, whatever was said before and whatever
\* machines and rules say, unless its quantity no longer fits the category.
LastWord(row, category, quantity, cost) ==
  [id |-> 0, confirmed |-> TRUE, text |-> row.text.name, category |-> category, unit |-> row.unit, feedback |-> TRUE,
   decision |-> "feedback", quantity |-> quantity, cost |-> cost]
LastWordCounts(row, call, lines, category, quantity) ==
  LET match == Match(row, call, LoadedExamples(Append(lines, LastWord(row, category, quantity, "exclude"))))
  IN Approved(call.approval) = Undecided /\ UnitFits(row.unit, category) =>
       <<match.category, match.quantity, match.cost, match.review>> = <<category, quantity, "exclude", FALSE>>

\* A row with an amount that one rule of its unit matches keeps an amount; not
\* so when it has both a cost-only and a quantity-only cue, or only the other amount.
MatchedKeepsAmount(row, result) ==
  result.strategy = "deterministic_rules" => "include" \in {result.quantity, result.cost}

\* A model that does not answer sends the row to the review; it ends the run.
ModelFailureIsReviewed(match) == match.strategy # "raised"
=============================================================================
