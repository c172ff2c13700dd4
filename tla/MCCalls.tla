------------------------------- MODULE MCCalls -------------------------------
(* The calls of the algorithms whose laws are proved (AlgorithmLaws): the    *)
(* reconciliation of rows, the packages of a review, the patterns mined from *)
(* a corpus and their promotion, the decision of a drawing card's row and    *)
(* the choice of its files.  MCAlgorithms calls them, and all others.        *)
EXTENDS Integers, FiniteSets, Sequences, FiniteSetsExt, TLC

-----------------------------------------------------------------------------
(* The call of one algorithm with one input.                                *)
CONSTANTS None, a, b   \* an empty value, and two of the texts of the inputs
CONSTANTS Raw, Covered, Letters, Close   \* the vocabulary of CorpusPatterns
CONSTANTS Expected, PowerCable, Version, Distinctive   \* the rules of CardMatching
CONSTANT Unreadable   \* the contents SourceSelection cannot read

\* An empty value is no code and no answer, the mark of a parameter is no value of
\* one, and every rule has a category.
ASSUME NoneIsNothing ==
  None \notin {"EXECUTOR_INVALID", "MEASUREMENT_INVALID", "REPLAY_NONDETERMINISTIC", "ORACLE_INVALID", "include", "exclude",
               "skipped_missing_required_columns", "skipped_object_identity_unresolved", "skipped_outdated_file"}
ASSUME ParameterIsNoValue == "<parameter>" \notin Raw
ASSUME RulesHaveCategories == None \notin DOMAIN Expected

VARIABLES algorithm, input

Idle == <<>>
Argument == input[1]
Takes(argument) == input' = <<argument>>
Ran(name) == algorithm = name /\ input # Idle

-----------------------------------------------------------------------------
(* The reconciliation of rows.                                              *)
Rows == INSTANCE RowReconciling

\* A source is one of few rows, so that rows agree in some fields.
SourceRow(id, position, name, unit, quantity, cost, kind) ==
  [id |-> id, object |-> "o", subobject |-> None, position |-> position, name |-> name, unit |-> unit,
   index |-> "i", quantity |-> quantity, cost |-> cost, kind |-> kind]
SourceShapes ==
  {<<"1", a, "m", 1, 10, "works">>, <<"1", b, "m", 1, 10, "works">>, <<"2", a, "m", 2, 5, "materials">>,
   <<"2", a, "t", 1, 10, "works">>, <<None, b, "m", None, None, "works">>, <<None, a, "m", -1, 10, "works">>}
Sources(id) == {SourceRow(id, x[1], x[2], x[3], x[4], x[5], x[6]) : x \in SourceShapes}

TargetRow(id, position, name, stage, writable, cost) ==
  [id |-> id, object |-> "o", subobject |-> "s", position |-> position, name |-> name, unit |-> "m",
   index |-> "i", stage |-> stage, writable |-> writable, trusted |-> TRUE, cost |-> cost]
Stage(plain) == [text |-> "stage", plain |-> plain]
Targets(id, plain) == {TargetRow(id, x[1], x[2], Stage(plain), x[3], x[4]) :
  x \in {<<"1", a, TRUE, 10>>, <<"2", b, TRUE, None>>, <<"1", b, FALSE, 10>>}}

Clause(names, action, quantity) ==
  [names |-> names, units |-> {"m"}, action |-> action, quantity |-> quantity, cost |-> TRUE]
Rule(id, stages, clauses) ==
  [id |-> id, approved |-> TRUE, objects |-> {}, stages |-> stages, processes |-> {}, units |-> {}, clauses |-> clauses]
Narrow(rule) == [rule EXCEPT !.objects = {"o"}, !.processes = {a}, !.units = {"m"}]
RuleSets == {{}} \cup {{Rule("r", stages, clauses)} : stages \in {{}, {"stage"}},
  clauses \in {{Clause({a}, action, TRUE)} : action \in {"include", "exclude", "review"}}
              \cup {{Clause({a, b}, "include", FALSE), Clause({b}, "include", TRUE)}}}
  \cup {{Rule("r", {"other"}, {Clause({a}, "include", TRUE)})}, {Narrow(Rule("r", {}, {Clause({a, b}, "include", TRUE)}))}}
World(rules, similar) == [rules |-> rules, similar |-> similar, units |-> {}, coefficient |-> 1,
                 quantum |-> 5, tolerance |-> 10]
Worlds == {World({}, {})} \cup {World(rules, {{a, b}}) : rules \in RuleSets}
Decide(target, quantity) == [target |-> target, quantity |-> quantity]
Overrides == {<<>>} \cup {[id \in {"s1"} |-> d] : d \in {Decide("t1", TRUE), Decide("t1", FALSE), Decide("t2", TRUE)}}
  \cup {[id \in {"s1", "s2"} |-> IF id = "s1" THEN Decide("t1", TRUE) ELSE Decide(t, TRUE)] : t \in {"t1", "t2"}}

Reconcile ==
  \E plain \in BOOLEAN : \E s1 \in Sources("s1"), s2 \in Sources("s2"), t1 \in Targets("t1", plain), t2 \in Targets("t2", TRUE),
     world \in Worlds, overrides \in Overrides :
    Takes([S |-> {s1, s2}, T |-> {t1, t2}, world |-> world, overrides |-> overrides])

RulesStand == Ran("reconcile") => Rows!RulesStand(Argument.S, Argument.T, Argument.world, Argument.overrides)
WrittenRowsCountOnce ==
  Ran("reconcile") => Rows!WrittenRowsCountOnce(Argument.S, Argument.T, Argument.world, Argument.overrides)
AcceptedRowsCount ==
  Ran("reconcile") => Rows!AcceptedRowsCount(Argument.S, Argument.T, Argument.world, Argument.overrides)
SelectionIsMonotone ==
  Ran("reconcile") => Rows!SelectionIsMonotone(Argument.S, Argument.T, Argument.world)

-----------------------------------------------------------------------------
(* The packages of a review.                                                *)
Review == INSTANCE ReviewPackages

ReviewRow(id, x) ==
  [id |-> id, name |-> x[1], unit |-> x[2], category |-> x[3], quantity |-> x[4], cost |-> 1]
Unit(text) == [text |-> text, family |-> "length"]
\* What the rows may be: names that vary each other, and works that do not agree.
NameShapes == {<<n, u, None, 1>> : u \in {Unit("m"), None},
  n \in {<<>>, <<a>>, <<a, "paren">>, <<a, "paren", "dash">>, <<a, "dash">>, <<a, "dash", "paren">>, <<a, "word">>}}
WorkShapes == {<<n, Unit("m"), "c", 1>> : n \in {<<>>, <<a>>, <<a, "dash">>, <<b>>, <<"power">>, <<"low_current">>, <<"cost">>}}
  \cup {<<<<b>>, Unit("km"), "c", 1>>, <<<<b>>, Unit("km"), "c", 0>>, <<<<b>>, Unit("m"), "c", None>>,
        <<<<b>>, Unit("m"), "d", 1>>, <<<<b>>, Unit("m"), None, 1>>, <<<<b>>, None, "c", 1>>}
Work(name) == [action |-> "installation", object |-> "cable", typed |-> {},
  critical |-> IF name[1] \in {"power", "low_current"} THEN {name[1]} ELSE {},
  negative |-> IF name[1] = "cost" THEN {"cost"} ELSE {}]
Unknown == [action |-> None, object |-> None, typed |-> {}, critical |-> {}, negative |-> {}]
Lexicon == [n \in {x[1] : x \in NameShapes \cup WorkShapes} |-> IF n = <<>> THEN Unknown ELSE Work(n)]

GroupRows ==
  \E x1, x2, x3, x4 \in NameShapes :
    /\ x1[2] # None
    /\ Takes({ReviewRow(1, x1), ReviewRow(2, x2), ReviewRow(3, x3), ReviewRow(4, x4)})
PackageRows ==
  \E x1, x2, x3 \in WorkShapes :
    LET rows == {ReviewRow(1, x1), ReviewRow(2, x2), ReviewRow(3, x3)}
        groups == Review!ReviewGroups(rows)
    IN  \E negativePairs \in {{}} \cup {{pair} : pair \in kSubset(2, groups)},
           available \in {<<>>, [g \in {g \in groups : g.name = <<b>>} |-> {"d"}]} :
          Takes([groups |-> groups, negativePairs |-> negativePairs, available |-> available])

GroupsVaryOneName == Ran("group") => Review!GroupsVaryOneName(Argument)
Packaged(P(_, _, _, _)) == Ran("package") => P(Argument.groups, Lexicon, Argument.negativePairs, Argument.available)
SafePackagesAgree == Packaged(Review!SafePackagesAgree)
EveryGroupOnce == Packaged(Review!EveryGroupOnce)
SafeWithoutOthers == Packaged(Review!SafeWithoutOthers)

-----------------------------------------------------------------------------
(* The patterns mined from a corpus.                                        *)
Corpus == INSTANCE CorpusPatterns

CorpusLetters ==
  [w \in {"lay", "pipelines", "pipelined", "5x5", "6x6", "b", "<parameter>"} |-> IF w = "b" THEN <<"b">> ELSE <<w, w>>]

CorpusText(words, skeleton, slots) == [words |-> words, skeleton |-> skeleton, slots |-> slots]
CorpusTexts ==
  {CorpusText(<<"lay", w>>, <<"lay", w>>, {}) : w \in {"pipelines", "pipelined", "b"}}
  \cup {CorpusText(<<"lay", "b", w>>, <<"lay", "b">>, {<<"size", <<w>>>>}) : w \in {"5x5", "6x6"}}
  \cup {CorpusText(<<"lay", w>>, <<"lay", w>>, {}) : w \in {"5x5"}}
Reviewed(outcome, resolution, manual) == [outcome |-> outcome, resolution |-> resolution, manual |-> manual]
Confirmation(action, mode, category) == [action |-> action, mode |-> mode, category |-> category]
Reviews == {Reviewed(Confirmation("accept", "cost_only", "c"), "confirmed", None),
            Reviewed(Confirmation("reject", None, None), "confirmed", None), Reviewed(<<>>, "manual_unresolved", "m")}
CorpusRow(id, doc, text, review, private, category) ==
  [id |-> id, doc |-> doc, words |-> text.words, skeleton |-> text.skeleton, slots |-> text.slots, unit |-> "m", warned |-> FALSE,
   scope |-> [category |-> category, action |-> None, object |-> None, unit |-> "length"], rules |-> {"rule"}, private |-> private,
   eligibility |-> "review_relevant", resolution |-> review.resolution, outcome |-> review.outcome, manual |-> review.manual]
Mining(records, support) == Takes([records |-> records, support |-> support, mined |-> Corpus!Mined(records, support)])
Mine ==
  \/ \E t1, t2 \in CorpusTexts, t3 \in {t \in CorpusTexts : Len(t.words) = 2}, r1, r2 \in Reviews, r3 \in {r \in Reviews : r.manual = None}, category \in {"c", "d"} :
       Mining({CorpusRow(1, "x", t1, r1, FALSE, "c"), CorpusRow(2, "x", t2, r2, FALSE, category),
               CorpusRow(3, "y", t3, r3, FALSE, "c")}, 1)
  \/ \E t1, t2 \in CorpusTexts, r1, r2 \in {r \in Reviews : r.manual = None}, private \in BOOLEAN, support \in {1, 2} :
       Mining({CorpusRow(1, "x", t1, r1, FALSE, "c"), CorpusRow(2, "y", t1, r1, FALSE, "c"),
               CorpusRow(3, "x", t2, r2, private, "c"), CorpusRow(4, "y", t2, r2, FALSE, "c")}, support)

MinedAgree == Ran("mine") => Corpus!MinedAgree(Argument.records, Argument.mined)
LinksLoad == Ran("mine") => Corpus!LinksLoad(Argument.mined)
NoParameterPublished == Ran("mine") => Corpus!NoParameterPublished(Argument.mined)
PrivateRowsAreUnseen == Ran("mine") => Corpus!PrivateRowsAreUnseen(Argument.records, {"rule"}, Argument.support, Argument.mined)
AllMinedLoad == Ran("mine") => Corpus!AllMinedLoad(Argument.mined)

-----------------------------------------------------------------------------
(* The promotion of a pattern.                                              *)
Gate == INSTANCE PromotionGate

Snapshot(name, sources, rows) ==
  [sources |-> sources, documents |-> {<<name, "d">>}, manifest |-> name, corpus |-> name, versions |-> a, rows |-> rows, groups |-> 1]
Baseline == Snapshot("b", {a}, 1)
Holdouts == {Snapshot("h", {b}, 1), Snapshot("h", {a, b}, 1), Snapshot("h", {b}, 2)}

ShadowPatterns ==
  {[id |-> a, kind |-> "term", scope |-> a, support |-> [confirmed |-> confirmed, documents |-> 2, contradictory |-> 0],
    conflicts |-> conflicts, state |-> "shadow", revision |-> 2, previous |-> None, owner |-> None] :
     confirmed \in {2, 3}, conflicts \in {{}, {"late"}}}
Policies ==
  {[kinds |-> {"term"}, scopes |-> {a}, minSupport |-> 2, minHoldout |-> 1, minDecisions |-> 1, minPrecision |-> <<1, 2>>,
    minCoverage |-> <<1, 2>>, maxManual |-> [m \in Gate!Manual |-> manual], maxLatency |-> 2, maxIndex |-> 3, owner |-> "owner"] :
     manual \in {1, 2}}

GateSeen(pattern, snapshot, rows, faults, manual) ==
  [snapshot |-> snapshot, head |-> pattern, rows |-> rows, groups |-> 1, correct |-> 1, decided |-> 1,
   documents |-> snapshot.documents, faults |-> faults, manual |-> [m \in Gate!Manual |-> manual]]
GateRuns(pattern, snapshot) ==
  {[before |-> GateSeen(pattern, snapshot, 0, {}, before), after |-> GateSeen(head, snapshot, 1, faults, 1),
    repeat |-> GateSeen(head, snapshot, 1, again, 1), oracles |-> oracles, took |-> took] :
     before \in {0, 1}, head \in {pattern}, faults \in {{}, {"xlsx"}, {"double"}}, again \in {{}, {"xlsx"}},
     oracles \in {{}, {"xlsx"}}, took \in {<<1, 2>>}}
GatePlain(pattern, snapshot) ==
  [before |-> GateSeen(pattern, snapshot, 0, {}, 1), after |-> GateSeen(pattern, snapshot, 1, {}, 1),
   repeat |-> GateSeen(pattern, snapshot, 1, {}, 1), oracles |-> {}, took |-> <<2, 1>>]
Pairs(pattern, holdout) ==
  {[baseline |-> run, holdout |-> GatePlain(pattern, holdout)] : run \in GateRuns(pattern, Baseline)}
    \cup {[baseline |-> GatePlain(pattern, Baseline), holdout |-> run] : run \in GateRuns(pattern, holdout)}

Approved(shadow, by, ref, revision, conflicts) ==
  [shadow EXCEPT !.state = "owner_approved", !.revision = 3, !.previous = shadow, !.conflicts = conflicts,
                 !.owner = [by |-> by, ref |-> ref, revision |-> revision]]
Histories(shadow, report, policy) ==
  {<<shadow>>, <<[shadow EXCEPT !.state = "suspended"]>>, <<[shadow EXCEPT !.state = "proposed"]>>}
    \cup {<<shadow, Approved(shadow, by, Gate!ApprovalRef(shadow, approved, p), revision, conflicts)>> :
           by \in {"owner"}, approved \in {report}, p \in Policies, revision \in {3, 4}, conflicts \in {shadow.conflicts, {"later"}}}
    \cup {<<shadow, Approved(shadow, "other", Gate!ApprovalRef(shadow, report, policy), 3, shadow.conflicts)>>,
          <<shadow, Approved(shadow, "owner", Gate!ApprovalRef(shadow, [report EXCEPT !.pattern = b], policy), 3, shadow.conflicts)>>}

Promote ==
  \E pattern \in ShadowPatterns, holdout \in Holdouts, policy \in Policies, index \in {3, 4} :
    \E runs \in Pairs(pattern, holdout) :
      LET snapshots == [baseline |-> Baseline, holdout |-> holdout]
          report == Gate!Replayed(pattern, snapshots, policy, runs, index)
      IN IF Gate!IsStopped(report) THEN Takes([history |-> None, report |-> report])
         ELSE \E history \in Histories(pattern, report, policy), current \in Policies \cup {None} :
                Takes([history |-> history, report |-> report, policy |-> current, snapshots |-> snapshots, runs |-> runs])

Promoted == [id |-> a, kind |-> "term", scope |-> a, support |-> [confirmed |-> 3, documents |-> 2, contradictory |-> 0],
                conflicts |-> {}, state |-> "shadow", revision |-> 2, previous |-> None, owner |-> None]
Reports(holdout, policy) ==
  {r \in {Gate!Replayed(Promoted, [baseline |-> Baseline, holdout |-> holdout], policy, [baseline |-> run, holdout |-> GatePlain(Promoted, holdout)], 3) :
     run \in {r \in GateRuns(Promoted, Baseline) : r.after = r.repeat /\ r.after.faults \cap Gate!Oracled = r.oracles}} : ~Gate!IsStopped(r)}
Promotions(report, policy) ==
  {d \in {Gate!Promotion(history, report, policy) : history \in Histories(Promoted, report, policy)} : ~Gate!IsStopped(d)}
Whole == [r \in Gate!AtLeastRates |-> <<1, 1>>] @@ [r \in Gate!AtMostRates |-> <<0, 1>>]
Rates == [r \in Gate!AtLeastRates |-> <<1, 2>>] @@ [r \in Gate!AtMostRates |-> <<1, 2>>]

Accept ==
  \E holdout \in Holdouts, policy \in Policies, down \in BOOLEAN, rates \in {None, Whole, [Whole EXCEPT !["mrr"] = <<0, 0>>]} :
    \E report \in UNION {Reports(h, policy) : h \in Holdouts}, faults \in {{}, {"double"}}, changed \in BOOLEAN, current \in {50, 51}, latency \in {1, 2} :
      \E promotion \in Promotions(report, policy) :
        LET outage == [delta |-> 0, down |-> down]
            source == [before |-> a, after |-> IF changed THEN b ELSE a, mutations |-> 0,
                       manifests |-> <<"b", "h">>, sets |-> <<Baseline.sources, holdout.sources>>]
        IN Takes([baseline |-> Baseline, holdout |-> holdout, report |-> report, promotion |-> promotion, source |-> source, outage |-> outage,
              gates |-> [report |-> report, before |-> a, after |-> source.after, mutations |-> 0, outageDelta |-> 0, oracle |-> outage,
                         observed |-> <<report.baseline, report.holdout, current, 1, 1>>, current |-> current, repeated |-> 1,
                         disputed |-> 1, faults |-> faults, repeatable |-> TRUE, coverage |-> <<1, 1>>],
              thresholds |-> [representative |-> Baseline, independent |-> holdout, rates |-> Rates, p95 |-> 2, index |-> 3],
              operational |-> [measured |-> report.measured, rates |-> rates, p95 |-> latency, index |-> 3, outage |-> outage]])

ActivationWasReplayed ==
  Ran("promote") /\ Argument.history # None =>
    Gate!ActivationWasReplayed(Argument.history, Argument.report, Argument.policy, Argument.snapshots, Argument.runs)
AcceptedBeforeApproval == Ran("accept") => Gate!AcceptedBeforeApproval(Argument)

-----------------------------------------------------------------------------
(* The decision of one row of a drawing card.                               *)
Rules == INSTANCE CardMatching
CardUnits == [c |-> {"m"}, d |-> {"m", "t"}, p |-> {}]

Words == UNION {[1 .. n -> {1, 2}] : n \in 0 .. 3}
FindTypos == \E mask, word \in Words : Takes([mask |-> mask, word |-> word, matches |-> Rules!TokenMatches(mask, word)])
TyposAreOneEdit == Ran("typo") => Rules!TyposAreOneEdit(Argument.mask, Argument.word, Argument.matches)

Worded(rules, excludes, costOnly, quantityOnly, target) ==
  [name |-> "text", rules |-> rules, excludes |-> excludes, costOnly |-> costOnly, quantityOnly |-> quantityOnly,
   negative |-> FALSE, coupling |-> FALSE, target |-> target]
PlainText == Worded({<<"c", "broad">>}, {}, {}, {}, TRUE)
RowWith(text, unit, quantity, cost, warnings) ==
  [text |-> text, unit |-> unit, type |-> None, quantity |-> quantity, cost |-> cost, warnings |-> warnings, position |-> 1]
FormulaLost == {"FORMULA_WITHOUT_CACHED_VALUE"}

ExampleLine(id, feedback, category, unit, quantity) ==
  [id |-> id, confirmed |-> TRUE, text |-> "text", category |-> category, unit |-> unit, feedback |-> feedback,
   decision |-> IF category = None THEN "exclude" ELSE "review", quantity |-> quantity, cost |-> "exclude"]
LinesOf(id) == {ExampleLine(id, feedback, "c", unit, quantity) : feedback \in BOOLEAN, unit \in {"m", None}, quantity \in {"include", "exclude"}}
                 \cup {ExampleLine(id, feedback, None, "k", None) : feedback \in BOOLEAN}
Files == {<<>>} \cup {<<l>> : l \in LinesOf(1)} \cup {<<l, m>> : l \in LinesOf(1), m \in LinesOf(2)}

Agreement(category, quantity, version, sealed) ==
  [text |-> "text", unit |-> "m", type |-> None, version |-> version, category |-> category, quantity |-> quantity,
   cost |-> "exclude", sealed |-> sealed]
Now == Agreement("c", "include", 2, TRUE)
Before == Agreement("d", "include", 1, TRUE)
Agreements ==
  {{}, {Now}, {Now, Agreement("c", "exclude", 2, TRUE)}, {Now, Agreement("c", "include", 2, FALSE)}, {Now, Before},
   {Now, Before, Agreement("c", "include", 1, TRUE)}, {[Now EXCEPT !.unit = "k"]}}

Answer(category, evidence, confirms) == [category |-> category, evidence |-> evidence, confirms |-> confirms]
Suggestions ==
  {Rules!NoSuggestion, [Rules!NoSuggestion EXCEPT !.semantic = "d"], [Rules!NoSuggestion EXCEPT !.dense = "down"],
   [Rules!NoSuggestion EXCEPT !.dense = "found"]}
    \cup {[Rules!NoSuggestion EXCEPT !.model = answer] : answer \in {Answer("d", {1}, TRUE), Answer("d", {2}, TRUE), Answer("d", {1}, FALSE)}}

Calling(approval, consensus, suggestion, ledger) ==
  [approval |-> approval, consensus |-> consensus, suggestion |-> suggestion, ledger |-> ledger, scope |-> 1]
Matching(row, call, lines, examples, match) ==
  Takes([row |-> row, call |-> call, lines |-> lines, examples |-> examples, match |-> match, result |-> Rules!Decided(row, call, match)])
Cascades(row, call, lines, examples) == \E match \in {Rules!Match(row, call, examples)} : Matching(row, call, lines, examples, match)

Approvals == {None, [action |-> "quantity_only", category |-> "c"], [action |-> "approve", category |-> None], [action |-> "skip", category |-> "c"]}
Event(id, context, action, quantity, supersedes, valid) ==
  [id |-> id, context |-> context, action |-> action, category |-> IF action = "reject" THEN None ELSE "d", quantity |-> quantity,
   cost |-> quantity, valid |-> valid, hazards |-> {}, supersedes |-> supersedes]
Ledgers(context) ==
  {<<Event(1, c, action, "exclude", None, TRUE), Event(2, context, "confirm", "include", supersedes, valid)>> :
     c \in {context, [context EXCEPT !.scope = 2]}, action \in {"confirm", "reject"}, supersedes \in {None, 1}, valid \in BOOLEAN}

MatchByAnswers ==
  \E unit \in {"m", "k"}, warnings \in {{}, FormulaLost}, consensus \in Agreements, lines \in Files :
    \E approval \in IF Len(lines) > 1 THEN {None} ELSE Approvals :
      Cascades(RowWith(PlainText, unit, 1, 1, warnings), Calling(approval, consensus, Rules!NoSuggestion, <<>>), lines, Rules!LoadedExamples(lines))
OtherLine == [ExampleLine(1, FALSE, "c", "t", None) EXCEPT !.text = "other"]
MatchByRules ==
  \E rules \in SUBSET {<<"c", "broad">>, <<"c", "group">>, <<"d", "phrase">>}, excludes, costOnly, quantityOnly \in {{}, {"c"}},
     target \in BOOLEAN, unit \in {"m", "t", "k"}, amounts \in {<<1, 1>>, <<0, 1>>, <<1, None>>}, suggestion \in Suggestions :
    /\ suggestion = Rules!NoSuggestion \/ <<target, excludes, costOnly, quantityOnly>> = <<TRUE, {}, {}, {}>>
    /\ Cascades(RowWith(Worded(rules, excludes, costOnly, quantityOnly, target), unit, amounts[1], amounts[2], {}),
                Calling(None, {}, suggestion, <<>>), <<OtherLine>>, Rules!LoadedExamples(<<OtherLine>>))
MatchWithLedger ==
  \E negative, coupling \in BOOLEAN, cost \in {None, -1, 0, 1}, quantity \in {None, 1}, warnings \in {{}, FormulaLost, {"FORMULA_NOT_AVAILABLE"}, {"EXCEL_ERROR"}} :
    \E row \in {RowWith([PlainText EXCEPT !.negative = negative, !.coupling = coupling, !.rules = {}], "m", quantity, cost, warnings)} :
      \E match \in {Rules!Match(row, Calling(None, {}, Rules!NoSuggestion, <<>>), {})} :
        \E ledger \in Ledgers(Rules!Context(row, match, 1)) :
          Matching(row, Calling(None, {}, Rules!NoSuggestion, ledger), <<>>, {}, match)
MatchRow == MatchByAnswers \/ MatchByRules \/ MatchWithLedger

UnresolvedIsNotGuessed == Ran("match row") => Rules!UnresolvedIsNotGuessed(Argument.row, Argument.result)
QuantityKeepsUnit == Ran("match row") => Rules!QuantityKeepsUnit(Argument.row, Argument.result)
SuggestionsDecideNothing ==
  Ran("match row") => Rules!SuggestionsDecideNothing(Argument.row, Argument.call, Argument.examples, Argument.match)
ConsensusIsUnanimous == Ran("match row") => Rules!ConsensusIsUnanimous(Argument.row, Argument.call, Argument.match)
LastWordCounts ==
  Ran("match row") => \A category \in {"c", "d"}, quantity \in {"include", "exclude"} :
                    Rules!LastWordCounts(Argument.row, Argument.call, Argument.lines, category, quantity)
ConsensusIsFresh == Ran("match row") => Rules!ConsensusIsFresh(Argument.row, Argument.call, Argument.match)
MatchedKeepsAmount == Ran("match row") => Rules!MatchedKeepsAmount(Argument.row, Argument.result)

-----------------------------------------------------------------------------
(* The choice of the files of a drawing card.                               *)
Choice == INSTANCE SourceSelection
File(content, name) ==
  [content |-> content, name |-> name, mapped |-> {}, hint |-> {1}, folder |-> {}, type |-> "ks6a", period |-> None, revision |-> 0,
   copy |-> FALSE, outdated |-> FALSE, temporary |-> FALSE, schema |-> [confidence |-> 10000, columns |-> 7]]
FileOf(content, name, period, object, copy) ==
  [File(content, name) EXCEPT !.period = period, !.hint = {object}, !.copy = copy]
ToldFile(content, name, mapped, hint, folder) ==
  [File(content, name) EXCEPT !.mapped = mapped, !.hint = hint, !.folder = folder]
LateFile(period, columns) == [File("z", "file 3") EXCEPT !.period = period, !.schema.columns = columns]
FileShapes(content, name) ==
  {FileOf(content, name, period, object, copy) : period \in {None, 1, 2}, object \in {1, 2}, copy \in BOOLEAN}
ToldFiles(content, name) ==
  {ToldFile(content, name, mapped, hint, folder) : mapped \in {{}, {2}}, hint \in {{}, {1}, {2}}, folder \in {{}, {1}, {2}}}
Flawed(file) ==
  {[file EXCEPT !.outdated = TRUE], [file EXCEPT !.temporary = TRUE], [file EXCEPT !.schema = None], [file EXCEPT !.type = "visr"], [file EXCEPT !.revision = 1],
   [file EXCEPT !.schema.columns = 8]}
OtherShapes(content, name) ==
  {File("broken", name), File("x", "file 1")} \cup Flawed(File(content, name)) \cup ToldFiles(content, name)
LateFiles == {LateFile(period, columns) : period \in {None, 2}, columns \in {6, 7}}
PlainFirst == FileShapes("x", "file 1")
PlainSecond == FileShapes("y", "file 2")
FirstFiles == PlainFirst \cup OtherShapes("x", "file 1")
SecondFiles == PlainSecond \cup OtherShapes("x", "file 2")
FilePairs == {<<f, g>> : f \in FirstFiles, g \in SecondFiles}
FileTriples == {<<f, g, h>> : f \in PlainFirst, g \in PlainSecond, h \in LateFiles}
FileSets == FilePairs \cup FileTriples
SelectSources ==
  \E files \in FileSets, explicit \in BOOLEAN, requested \in {None, 1} :
    Takes([files |-> files, explicit |-> explicit, requested |-> requested, result |-> Choice!Select(files, explicit, requested)])
NoEvidenceAgainst == Ran("select") => Choice!NoEvidenceAgainst(Argument.result)
EveryObjectIsServed == Ran("select") => Choice!EveryObjectIsServed(Argument.files, Argument.explicit, Argument.result)
RightPeriodIsRead == Ran("select") => Choice!RightPeriodIsRead(Argument.files, Argument.explicit, Argument.requested, Argument.result)
GivenObjectsAreServed == Ran("select") => Choice!GivenObjectsAreServed(Argument.files, Argument.result)
EveryFileIsRecorded == Ran("select") => Choice!EveryFileIsRecorded(Argument.files, Argument.result)
ContentIsReadOnce == Ran("select") => Choice!ContentIsReadOnce(Argument.result)
MappingDecides == Ran("select") => Choice!MappingDecides(Argument.files, Argument.result)
==============================================================================
