---------------------------- MODULE MCAlgorithms ----------------------------
(* The algorithms of the repository, called one after another: Next picks   *)
(* one and an input for it, and every property is about the input of the    *)
(* last call.  Inputs are small but meet every branch.                      *)
EXTENDS MCReviews

-----------------------------------------------------------------------------
Packing == INSTANCE DecisionPackages

Boundary(known) == [ref |-> "b", known |-> known, unitsFit |-> TRUE]
Atom(id, known, critical, blocked) ==
  [id |-> id, boundary |-> Boundary(known), critical |-> critical, typed |-> "t", blocked |-> blocked]
Attested(context) == [relation |-> "must_link", context |-> context, blocked |-> FALSE]
Apart == [relation |-> "cannot_link", context |-> None, blocked |-> FALSE]
Policy(atoms, families, pairs) == [atoms |-> atoms, families |-> families, pairs |-> pairs, context |-> "here"]

\* Four families, one of two atoms, in four orders, every attested graph of them.
Lone(id) == {Atom(id, TRUE, "c", FALSE)}
FamilyOrders == {<<Lone(1), Lone(2), Lone(3), Lone(4)>>, <<Lone(3), Lone(1), Lone(4), Lone(2)>>,
  <<Lone(1) \cup Lone(5), Lone(2), Lone(3), Lone(4)>>, <<Lone(4), Lone(2), Lone(1) \cup Lone(5), Lone(3)>>}
Optimize ==
  \E families \in FamilyOrders, edges \in SUBSET kSubset(2, 1..4),
     policy \in {Policy(5, 4, 10), Policy(3, 3, 3), Policy(5, 2, 10)} :
    LET linked == edges \cup {{1, 5}} \cup {{5} \cup (e \ {1}) : e \in {e \in edges : 1 \in e}}
    IN  Takes([families |-> families, constraints |-> [e \in linked |-> Attested("here")], policy |-> policy])
Clustering(atoms, constraints, policy) ==
  [atoms |-> atoms, constraints |-> constraints, policy |-> policy,
   result |-> Packing!PackagesOf(atoms, constraints, policy, 2)]
Cluster ==
  \E x1, x2, x3 \in {<<TRUE, "c", FALSE>>, <<TRUE, "c", TRUE>>, <<TRUE, "d", FALSE>>, <<FALSE, "c", FALSE>>},
     c12, c13, c23 \in {None, Attested("here"), Attested("there"), Apart}, policy \in {Policy(3, 3, 3), Policy(2, 2, 1)} :
    LET said == {<<{1, 2}, c12>>, <<{1, 3}, c13>>, <<{2, 3}, c23>>}
        linked == {c[1] : c \in {c \in said : c[2] # None}}
    IN  Takes(Clustering({Atom(1, x1[1], x1[2], x1[3]), Atom(2, x2[1], x2[2], x2[3]), Atom(3, x3[1], x3[2], x3[3])},
                         [e \in linked |-> (CHOOSE c \in said : c[1] = e)[2]], policy))

PartitionIsOptimal ==
  Ran("optimize") => Packing!PartitionIsOptimal(Argument.families, Argument.constraints, Argument.policy)
PackagesAreAttested == Ran("cluster") => Packing!PackagesAreAttested(Argument.constraints, Argument.policy, Argument.result)
EveryAtomOnce == Ran("cluster") => Packing!EveryAtomOnce(Argument.atoms, Argument.constraints, 2, Argument.result)

-----------------------------------------------------------------------------
Schema == INSTANCE SheetSchema

RoleRule(logical, required, optional, forbidden, context) ==
  [logical |-> logical, exact |-> {required \cup optional}, required |-> required, optional |-> optional,
   forbidden |-> forbidden, priority |-> 98, context |-> context, current |-> logical = "current"]
RoleRules == {RoleRule("work", {"works"}, {"name"}, {"cost"}, FALSE),
  RoleRule("current", {"cost"}, {"period", "report"}, {"start"}, TRUE),
  RoleRule("cumulative", {"cost"}, {"period", "start"}, {"report"}, TRUE),
  RoleRule("total", {"cost"}, {"works"}, {"start", "report"}, TRUE)}
HeaderTexts == {{}, {"works"}, {"works", "name"}, {"cost"}, {"cost", "works"}, {"cost", "period"},
  {"cost", "period", "report"}, {"cost", "period", "start"}, {"cost", "start"}, {"cost", "month"}, {"other"}}
Header(column, words) == [column |-> column, words |-> words]
ResolveColumns ==
  \E h1, h2, h3 \in HeaderTexts, place \in 1..3 :
    LET headers == {Header(1, h1), Header(2, h2), Header(3, h3)}
        new == CHOOSE h \in headers : h.column = place
    IN  Takes([headers |-> headers \ {new}, new |-> new])
Evidence(scores) == UNION {[types -> scores] : types \in SUBSET (1..3)}
Classify ==
  \E name \in Evidence({42, 94}), content \in Evidence({26, 66}) :
    Takes([name |-> name, content |-> content])
RateSchema ==
  \E status \in {"OK", "LOW_CONFIDENCE_SHEET_TYPE"}, sure \in {6500, 8000, 9500}, header \in {3400, 6000, 9000},
     second \in {0, 8900}, start \in {None, 1}, required \in SUBSET {"work", "unit"},
     roles \in [{"work", "unit", "total", "current"} -> {"OK", "AMBIGUOUS_COLUMN", "COLUMN_NOT_FOUND"}] :
    Takes([class |-> [type |-> 1, confidence |-> sure, status |-> status],
           candidates |-> <<[start |-> 1, score |-> header], [start |-> 4, score |-> second]>>,
           resolutions |-> {[logical |-> l, column |-> None, score |-> 0, status |-> roles[l]] : l \in DOMAIN roles},
           required |-> required, start |-> start])

RolesStand == Ran("columns") => Schema!RolesStand(Argument.headers, RoleRules, Argument.new)
TypeIsSomeonesFirst == Ran("classify") => Schema!TypeIsSomeonesFirst(Argument.name, Argument.content)
EqualsAreAmbiguous == Ran("columns") => Schema!EqualsAreAmbiguous(Argument.headers, RoleRules)
ResolvingHelps == Ran("schema") => Schema!ResolvingHelps(Argument.class, Argument.candidates, Argument.resolutions,
                                                        Argument.required, Argument.start)

-----------------------------------------------------------------------------
Workbooks == INSTANCE WorkbookSources

Text(words) == [words |-> words, number |-> None]
Value(n) == [words |-> {}, number |-> n]
Line(row, columns) == {<<<<row, c>>, columns[c]>> : c \in {c \in DOMAIN columns : columns[c] # None}}
Heading(row, names, pairs) ==
  Line(row, [c \in 1..6 |-> CASE c = 1 /\ names -> Text({"works", "name"}) [] c = 2 /\ names -> Text({"unit"})
                              [] c \in pairs -> Text({"quantity"}) [] c - 1 \in pairs -> Text({"cost"}) [] OTHER -> None])
\* A row of a table: with numbers in both pairs of columns, in one, or a subtitle.
Detail(row, kind) ==
  Line(row, [c \in 1..6 |-> CASE c = 1 -> Text({"w"}) [] c = 2 /\ kind # "title" -> Text(IF kind = "code" THEN {"code"} ELSE {"m"})
                              [] c \in {3, 4} /\ kind \in {"both", "left", "code"} -> Value(c)
                              [] c \in {5, 6} /\ kind \in {"both", "right"} -> Value(c) [] OTHER -> None])
Root(span) == {<<<<span[1], span[2]>>, Text({"cumulative"})>>}
SheetOf(cells, spans) ==
  [cells |-> [at \in {x[1] : x \in cells} |-> (CHOOSE x \in cells : x[1] = at)[2]], formulas |-> {}, spans |-> spans]
ReadSheet ==
  \E roots \in {{}, {<<1, 3, 1, 4>>}, {<<1, 5, 1, 6>>}, {<<1, 3, 1, 6>>}, {<<1, 3, 1, 4>>, <<1, 5, 1, 6>>}},
     pairs \in {{3}, {5}, {3, 5}}, kind1 \in {"both", "left", "code"}, kind2 \in {"both", "right", "title"},
     again \in {<<>>} \cup ({2, 3} \X {{3}, {5}, {3, 5}}), words \in {{"price"}, {"works", "cumulative", "unit"}} :
    LET cells == UNION {Root(s) : s \in roots} \cup Heading(2, TRUE, pairs) \cup Detail(3, kind1) \cup Detail(6, kind2)
                 \cup (IF again = <<>> THEN {} ELSE Heading(5, again[1] = 2, again[2]))
    IN  Takes([sheet |-> SheetOf(cells, roots), words |-> words])

MetricsReadOnce == Ran("sheet") => Workbooks!MetricsReadOnce(Argument.sheet)
TitleIsIgnored == Ran("sheet") => Workbooks!TitleIsIgnored(Argument.sheet, Argument.words)
LostCacheIsSeen == Ran("sheet") => Workbooks!LostCacheIsSeen(Argument.sheet)
LostTextIsSeen == Ran("sheet") => Workbooks!LostTextIsSeen(Argument.sheet)

-----------------------------------------------------------------------------
Periods == INSTANCE PeriodInsertion

ReportCell(words, months, refs, style) == [words |-> words, periods |-> months, refs |-> refs, style |-> style]
Plain(words) == ReportCell(words, {}, {}, None)
August == <<8, 2024>>
\* A target with one historical pair in columns 3 and 4 and something after it.
Layouts == [parent : {<<1, 3, 1, 4>>, <<1, 2, 1, 4>>}, leaf : {{}, {"history"}}, months : {{}, {<<7, None>>}},
           right : {"none", "month", "august", "scope", "price"}]
RightPair(kind) ==
  CASE kind = "none" -> <<>>
    [] kind = "month" -> <<ReportCell({"quantity"}, {<<7, None>>}, {}, None), ReportCell({"cost"}, {<<7, None>>}, {}, None)>>
    [] kind = "august" -> <<ReportCell({"quantity"}, {August}, {}, None), ReportCell({"cost"}, {<<8, 2024>>}, {}, None)>>
    [] kind = "scope" -> <<ReportCell({"quantity"}, {}, {}, None), ReportCell({"cost"}, {}, {}, None)>>
    [] kind = "price" -> <<Plain({"quantity"}), Plain({"cost", "rate"})>>
LayoutCells(h) ==
  (<<1, h.parent[2]>> :> Plain({"history"})) @@ (<<2, 3>> :> ReportCell({"quantity"} \cup h.leaf, h.months, {}, None))
  @@ (<<2, 4>> :> ReportCell({"cost"}, h.months, {}, "money"))
  @@ (IF RightPair(h.right) = <<>> THEN <<>> ELSE (<<2, 5>> :> RightPair(h.right)[1]) @@ (<<2, 6>> :> RightPair(h.right)[2]))
  @@ (IF h.right = "scope" THEN <<1, 5>> :> Plain({"current"}) ELSE <<>>)
Threads == {[at |-> <<3, 1>>, id |-> 1, person |-> "p", parent |-> None], [at |-> <<3, 3>>, id |-> 2, person |-> "p", parent |-> 1]}
Shared == {[range |-> <<3, 2, 3, 3>>, members |-> {<<3, 2>>, <<3, 3>>}, anchors |-> {<<3, 2>>}, refs |-> {<<1, 1>>}]}
Report(h, refs, cols, filter, regions, drawings) ==
  [cells |-> LayoutCells(h) @@ (<<3, 1>> :> Plain({"other"})) @@ (<<3, 3>> :> Plain({"other"}))
             @@ (<<3, 5>> :> ReportCell({"other"}, {}, refs, None)),
   spans |-> {h.parent} \cup (IF h.right = "scope" THEN {<<1, 5, 1, 6>>} ELSE {}), detail |-> 3, cols |-> cols,
   filter |-> filter, regions |-> regions, notes |-> {1}, threads |-> Threads, shared |-> Shared, drawings |-> drawings]
PlainLayout == [parent |-> <<1, 3, 1, 4>>, leaf |-> {}, months |-> {}, right |-> "none"]
PlainReport == Report(PlainLayout, {}, {}, {}, {}, <<>>)
Book(sheets, names, chain) == [sheets |-> sheets, persons |-> {"p"}, names |-> names, chain |-> chain]
Term(sheet, quoted, columns) == [sheet |-> sheet, quoted |-> quoted, columns |-> columns]
DefinedName(permitted, terms) == [permitted |-> permitted, terms |-> terms]
Carried(book, selected, period, plan) ==
  [book |-> book, selected |-> selected, period |-> period, plan |-> plan,
   prepared |-> Periods!Prepared(book, selected, period, plan)]
Selected(book, selected, period) == Carried(book, selected, period, Periods!Plan(book, selected, period))

InsertIntoLayout ==
  \E h \in Layouts, g \in {PlainLayout, [PlainLayout EXCEPT !.right = "month"], [PlainLayout EXCEPT !.right = "august"]},
     selected \in {{1}, {1, 2}}, period \in {August, <<7, 2024>>} :
    Takes(Selected(Book(<<Report(h, {}, {}, {}, {}, <<>>), Report(g, {}, {}, {}, {}, <<>>)>>, <<>>, <<>>), selected, period))
InsertIntoBook ==
  \E refs \in {{}, {<<4, 4>>, <<3, 6>>}, {<<5, 5>>, <<1, 3>>}}, filter \in {{}, {[columns |-> <<1, 6>>, ids |-> {0, 3, 4}]}},
     cols \in {{}, {Periods!Columns(1, 6, "wide")}, {Periods!Columns(3, 3, "q"), Periods!Columns(4, 5, "c")}},
     regions \in {{<<5, 6>>}, {<<1, 6>>, <<4, 4>>}}, drawings \in {<<<<3, 4>>>>, <<<<1, 3>>, <<4, 5>>>>},
     parts \in {<<<<>>, <<>>>>, <<<<DefinedName(TRUE, <<Term(1, TRUE, <<1, 5>>), Term(1, TRUE, <<>>)>>)>>, <<>>>>,
                <<<<DefinedName(FALSE, <<Term(1, TRUE, <<5, 5>>)>>)>>, <<>>>>, <<<<>>, <<<<1, 3>>, <<None, 5>>>>>>,
                <<<<DefinedName(TRUE, <<Term(1, TRUE, <<1, 3>>), Term(1, TRUE, <<5, 6>>)>>)>>, <<>>>>, <<<<>>, <<<<1, 5>>, <<2, 5>>>>>>} :
    Takes(Selected(Book(<<Report(PlainLayout, refs, cols, filter, regions, drawings), PlainReport>>, parts[1], parts[2]), {1}, August))
\* The rewritten book with one thing changed.
Tamper(new, sheet) == [new EXCEPT !.sheets[1] = sheet]
Tampered(new) ==
  LET s == new.sheets[1]
  IN  {Tamper(new, [s EXCEPT !.cells[at].style = "forged"]) : at \in {<<3, 5>>, <<2, 6>>, <<3, 7>>}}
      \cup {Tamper(new, [s EXCEPT !.cells[<<3, 7>>].refs = {r}]) : r \in {<<4, 4>>, <<7, 7>>, <<3, 8>>}}
      \cup {Tamper(new, [s EXCEPT !.cells[<<1, 5>>].words = {"other"}])}
      \cup {Tamper(new, [s EXCEPT !.cols = {Periods!Columns(5, 5, "forged")}]), Tamper(new, [s EXCEPT !.spans = {}])}
      \cup {Tamper(new, [s EXCEPT !.drawings = <<>>]), Tamper(new, [s EXCEPT !.filter = {}]), new, [new EXCEPT !.chain = <<<<1, 5>>>>]}
VerifyInsertion ==
  \E refs \in {{}, {<<5, 5>>, <<1, 3>>}}, cols \in {{}, {Periods!Columns(1, 6, "wide")}}, drawings \in {<<>>, <<<<4, 5>>>>},
     filter \in {{}, {[columns |-> <<1, 6>>, ids |-> {0, 4}]}}, chain \in {<<>>, <<<<1, 3>>, <<None, 5>>>>} :
    LET book == Book(<<Report(PlainLayout, refs, cols, filter, {}, drawings), PlainReport>>, <<>>, chain)
    IN  \E plan \in {Periods!Plan(book, {1}, August)} : \E new \in Tampered(Periods!Transformed(book, plan.anchors, August)) :
          Takes([book |-> book, plan |-> plan, new |-> new])
MergeSpans ==
  \E s, t, u \in {s \in (1..3) \X (1..3) \X (1..3) \X (1..3) : Periods!IsSpan(s)} : Takes([spans |-> {s, t, u}])

Inserting == Ran("insert layout") \/ Ran("insert book")
SweepFindsOverlaps == Ran("merge") => Periods!SweepFindsOverlaps(Argument.spans)
ReferencesFollow == Inserting => Periods!ReferencesFollow(Argument.book, Argument.plan, Argument.prepared, 6)
PlainPlansPrepare == Inserting => Periods!PlainPlansPrepare(Argument.book, Argument.plan, Argument.prepared)
PreparedIsSettled ==
  Inserting => Periods!PreparedIsSettled(Argument.selected, Argument.period, <<8, 2025>>, Argument.prepared)
TamperingIsSeen == Ran("verify") => Periods!TamperingIsSeen(Argument.book, August, Argument.new, Argument.plan)
NamesFollow == Inserting => Periods!NamesFollow(Argument.book, Argument.plan, Argument.prepared, 6)
PlansPrepare == Inserting => Periods!PlansPrepare(Argument.plan, Argument.prepared)
PeriodIsHonoured == Inserting => Periods!PeriodIsHonoured(Argument.book, Argument.selected, Argument.period)

-----------------------------------------------------------------------------
Target == INSTANCE TargetReport

TextCell(text, index, stage) == [text |-> text, index |-> index, stage |-> stage, formula |-> FALSE]
IndexCells == {<<>>, TextCell("i", "i", None), TextCell("text", None, None)}
StageCells == {<<>>, TextCell("s1", None, "1"), TextCell("s2", None, "2"), TextCell(None, None, None)}
Described == {<<>>, TextCell("work", None, None)}
\* A table of rows <<index, stage, description>>, the description in three columns.
TableOf(rows, more) ==
  LET at(r, c) == IF c <= 2 THEN rows[r][c] ELSE IF c <= 5 THEN rows[r][3] ELSE more
      places == {x \in (1..Len(rows)) \X (1..6) : at(x[1], x[2]) # <<>>}
  IN  [x \in places |-> at(x[1], x[2])]
RoleColumns == [role \in Target!BaseRoles |->
  CASE role = "index" -> 1 [] role = "stage" -> 2 [] role = "position" -> 3 [] role = "name" -> 4 [] role = "unit" -> 5]
Found(role) == <<"OK", RoleColumns[role], FALSE>>
HeadersWithout(roles, status) ==
  [role \in Target!BaseRoles |-> IF role \in roles THEN <<status, None, FALSE>> ELSE Found(role)]
TableRows == IndexCells \X StageCells \X Described
SheetWith(headers, rows, more) == [cells |-> TableOf(rows, more), headers |-> headers, measure |-> "found"]
AllBound == HeadersWithout({}, None)
NoneBound == HeadersWithout({"index", "stage"}, "COLUMN_NOT_FOUND")

Reading(book, requested) == [book |-> book, read |-> Target!Read(book, requested)]
ReadTarget ==
  \/ \E r2 \in TableRows, r1, r3 \in {r \in TableRows : r[1] # TextCell("text", None, None)}, headers \in {AllBound, NoneBound} :
       Takes(Reading(<<SheetWith(headers, <<r1, r2, r3>>, <<>>)>>, IF headers = AllBound THEN "1" ELSE None))
  \/ \E r1, r2 \in {r \in TableRows : r[1] # TextCell("text", None, None) /\ r[3] # <<>>}, headers, others \in
        {AllBound, NoneBound, HeadersWithout({"unit"}, "AMBIGUOUS_COLUMN"), HeadersWithout({"index", "stage", "name"}, "COLUMN_NOT_FOUND"),
         [AllBound EXCEPT !["unit"] = <<"OK", 6, FALSE>>], [AllBound EXCEPT !["unit"] = <<"AMBIGUOUS_COLUMN", None, TRUE>>]},
        more \in {<<>>, TextCell("i", "i", None)}, measure \in {"found", "missing"} :
       Takes(Reading(<<SheetWith(headers, <<r1, r2>>, more), [SheetWith(others, <<r2, r1>>, <<>>) EXCEPT !.measure = measure]>>, "1"))

EveryRowHasOneStage == Ran("target") => Target!EveryRowHasOneStage(Argument.book)
HeaderHoldsNoRows == Ran("target") => Target!HeaderHoldsNoRows(Argument.book, Argument.read)
BlocksHoldTheRows == Ran("target") => Target!BlocksHoldTheRows(Argument.read)
RecoveredStagesHaveRows == Ran("target") => Target!RecoveredStagesHaveRows(Argument.book)
AllRecoveredStagesHaveRows == Ran("target") => Target!AllRecoveredStagesHaveRows(Argument.book)
BlocksHoldNoOthers == Ran("target") => Target!BlocksHoldNoOthers(Argument.book, Argument.read)

-----------------------------------------------------------------------------
(* Inputs of HybridRanking.                                                 *)
Hybrid == INSTANCE HybridRanking WITH K <- 2, Failed <- None

\* Evidence 1 and 2 are examples of two identities, 3 a prototype of the first or of a third.
EvidenceOf(ref, identity, kind, outcome, fit, term) ==
  [ref |-> ref, identity |-> identity, kind |-> kind, pattern |-> ref, outcome |-> outcome,
   here |-> TRUE, fit |-> fit, term |-> term]
EvidenceSets ==
  {{EvidenceOf(1, 1, "example", "accept", TRUE, a), EvidenceOf(2, 2, "example", x, fit, b),
    EvidenceOf(3, 1, "example", "accept", TRUE, b), EvidenceOf(ref, identity, "prototype", outcome, TRUE, a)} :
     x \in {"accept", "reject"}, fit \in BOOLEAN, ref \in {4}, identity \in {1, 3}, outcome \in {"accept", "reject"}}
Seen(ref, near) == [ref |-> ref, near |-> near, rank |-> 1, confirmed |-> TRUE, category |-> "works"]
InOrder(matches) == [i \in DOMAIN matches |-> [matches[i] EXCEPT !.rank = i]]
Examples == {InOrder(m) : m \in {<<>>, <<Seen(1, 5)>>, <<Seen(2, 9), Seen(1, 5)>>, <<Seen(1, 5), Seen(3, 4), Seen(2, 9)>>,
                                 <<Seen(3, 4), Seen(2, 9), Seen(1, 5)>>}}
Sourced(answer) == [bound |-> TRUE, answer |-> answer]
Sourcings(ref) ==
  {[c \in Hybrid!Channels |->
      IF c \in Hybrid!OfPrototypes THEN Sourced(prototypes)
      ELSE IF c = "lexical" THEN Sourced(lexical) ELSE Sourced(dense)] :
     prototypes \in {<<>>, <<Seen(ref, 7)>>}, lexical \in Examples \cup {None, <<Seen(2, 9), Seen(1, 5)>>}, dense \in Examples}
Near(identity, ref, edge, near, representation) ==
  [identity |-> identity, ref |-> ref, edge |-> edge, near |-> near, rank |-> 1, representation |-> representation]
NegativeAnswers == {<<>>, None, <<Near(1, 1, "e", 3, "term")>>, <<Near(3, 1, "e", 3, "skeleton")>>,
  <<Near(2, 1, "e", 9, "term"), Near(2, 1, "e", 9, "skeleton")>>, <<Near(2, 1, "other", 9, "term")>>,
  <<Near(1, 1, "e", 3, "term"), Near(2, 1, "e", 3, "term")>>}
Authorities == {[source |-> "manual", patterns |-> {}], [source |-> "manual", patterns |-> {4}], [source |-> "exact", patterns |-> {}]}

Suggest ==
  \E evidence \in EvidenceSets, negatives \in NegativeAnswers, limit \in {1, 3}, authority \in Authorities :
    \E ref \in {e.ref : e \in {e \in evidence : e.kind = "prototype"}} : \E sources \in Sourcings(ref) :
      LET call == [query |-> [exactOnly |-> FALSE, term |-> a, limit |-> limit, category |-> "works"], authority |-> authority,
                   bound |-> TRUE, evidence |-> evidence, sources |-> sources, edges |-> {"e"}, negatives |-> Sourced(negatives),
                   heads |-> {[pattern |-> e.pattern, state |-> "active", current |-> TRUE, attested |-> TRUE, outcome |-> "accept"] :
                                e \in {e \in evidence : e.kind = "prototype"}}]
      IN Takes([call |-> call, result |-> Hybrid!Suggested(call)])

NothingRefused == Ran("suggest") => Hybrid!NothingRefused(Argument.call, Argument.result)
VetoedStaysHidden == Ran("suggest") => Hybrid!VetoedStaysHidden(Argument.call, Argument.result)
BestEvidenceFirst == Ran("suggest") => Hybrid!BestEvidenceFirst(Argument.call, Argument.result)

-----------------------------------------------------------------------------
(* Inputs of the drawing card workbook.                                      *)
Card == INSTANCE CardWorkbook WITH
  Categories <- <<"c", "d">>, Expected <- [c |-> "m", d |-> "t"], Plausible <- 1 .. 4, AllowHint <- TRUE, Tolerance <- 1,
  Group <- [preserve_group |-> <<1, 1, 2, 3, 4>>, split_confirmed |-> <<1, 1, 5, 5, 4>>]

Entry(id, code, transactional, amount) == [id |-> id, code |-> code, transactional |-> transactional, amount |-> amount]
Entries(id, codes, amounts) ==
  {Entry(id, code, transactional, amount) : code \in codes, transactional \in BOOLEAN, amount \in amounts}
FilterRows ==
  \E e \in Entries(1, {<<1>>}, {None, 1, 2}), f \in Entries(2, {<<1>>, <<1, 1>>, <<1, 1, 1>>}, {1}),
     g \in Entries(3, {<<1, 1>>, <<1, 2>>, <<1, 3>>, <<1, 1, 1>>, <<2>>, <<2, 1>>}, {1}), h \in Entries(4, {<<1, 1, 1>>, <<1, 1, 2>>, <<1, 3>>, None}, {1}) :
    \E entries \in {{e, f, g, h}} : Takes([entries |-> entries, result |-> Card!Filtered(entries)])
FrontierCountsOnce == Ran("hierarchy") => Card!FrontierCountsOnce(Argument.entries, Argument.result)
SectionAddsUp == Ran("hierarchy") => Card!SectionAddsUp(Argument.entries, Argument.result)

Decided(category, quantity, cost) ==
  [category |-> category, quantity |-> quantity, cost |-> cost, review |-> "review" \in {quantity, cost}]
Both == Decided("c", "include", "include")
Pair(quantity, cost) == [quantity |-> quantity, cost |-> cost]
CardRow(object, drawing, unit, remaining, decision) ==
  [object |-> object, drawing |-> drawing, unit |-> unit, remaining |-> remaining, contract |-> Pair(2, 2), performed |-> Pair(1, 1),
   hazards |-> {}, excluded |-> None, bare |-> FALSE, decision |-> decision]
BookPlain == CardRow(1, 1, "m", Pair(2, 4), Both)
RowShapes ==
  {BookPlain, [BookPlain EXCEPT !.drawing = 2], [BookPlain EXCEPT !.drawing = 3], [BookPlain EXCEPT !.drawing = 4], [BookPlain EXCEPT !.drawing = None],
   [BookPlain EXCEPT !.object = 2], [BookPlain EXCEPT !.unit = "t"], [BookPlain EXCEPT !.unit = None, !.remaining = Pair(None, 3)],
   [BookPlain EXCEPT !.decision = Decided("c", "exclude", "include")], [BookPlain EXCEPT !.decision = Decided("c", "review", "include")],
   [BookPlain EXCEPT !.unit = "t", !.decision = Decided("c", "exclude", "include")], [BookPlain EXCEPT !.unit = "t", !.decision = Decided("d", "include", "include")],
   [BookPlain EXCEPT !.decision = Decided(None, "exclude", "exclude"), !.bare = TRUE],
   [BookPlain EXCEPT !.hazards = {"INVALID_NUMBER"}, !.decision = Decided("c", "exclude", "include")],
   [BookPlain EXCEPT !.hazards = {"NOTED"}, !.excluded = "aggregate"], [BookPlain EXCEPT !.contract = Pair(2, 0)], [BookPlain EXCEPT !.performed = Pair(1, 4)],
   [BookPlain EXCEPT !.remaining = Pair(3, 3)], [BookPlain EXCEPT !.drawing = 5]}

Create(rows) ==
  [rows |-> rows, mode |-> "preserve_group", policy |-> None, existing |-> <<>>, sheets |-> 1, perSheet |-> 4, scale |-> 1,
   strict |-> FALSE, dryRun |-> FALSE, base |-> TRUE, problems |-> {}, cancelled |-> None, changed |-> FALSE]
Wide == <<BookPlain, [BookPlain EXCEPT !.object = 2], [BookPlain EXCEPT !.drawing = 3]>>
Creations ==
  {[Create(rows) EXCEPT !.strict = strict, !.perSheet = perSheet, !.mode = mode] :
     rows \in {<<r, s>> : r \in RowShapes, s \in RowShapes} \cup {<<>>}, strict \in BOOLEAN, perSheet \in {4},
     mode \in {"preserve_group", "split_confirmed"}}
  \cup {[Create(Wide \o <<r>>) EXCEPT !.perSheet = perSheet] : r \in RowShapes, perSheet \in {1, 4}}
  \cup {[Create(<<[BookPlain EXCEPT !.remaining = Pair(3, x)], [BookPlain EXCEPT !.drawing = 3, !.remaining = Pair(2, y)], [BookPlain EXCEPT !.drawing = 4]>>)
           EXCEPT !.strict = TRUE] : x \in {1, 3}, y \in {0, 2}}

Known(unit, quantity, cost) == [unit |-> unit, quantity |-> quantity, cost |-> cost]
OldDrawing(object, drawing, lines) == [object |-> object, drawing |-> drawing, lines |-> lines]
OldLines ==
  {[c |-> Known(unit, quantity, cost), d |-> Known("t", None, None)] : unit \in {"m", "t"}, quantity \in {None, 5}, cost \in {None, 0, 6}}
  \cup {[c |-> Known("m", 5, 6)]}
Updates ==
  {[Create(rows) EXCEPT !.policy = policy, !.existing = existing, !.strict = strict, !.scale = scale, !.mode = mode] :
     rows \in {<<BookPlain>>, <<BookPlain, [BookPlain EXCEPT !.drawing = 3]>>, <<[BookPlain EXCEPT !.remaining = Pair(None, 3)]>>,
               <<[BookPlain EXCEPT !.drawing = 2], [BookPlain EXCEPT !.decision = Decided("c", "exclude", "include")]>>},
     policy \in {"fill_empty_only", "overwrite", "conflicts_to_review"},
     existing \in {<<OldDrawing(o, d, lines)>> : o \in {1, 2}, d \in {1, 2, 4}, lines \in OldLines},
     strict \in {TRUE}, scale \in {1, 2}, mode \in {"preserve_group"}}

Runs ==
  {[Create(<<BookPlain>>) EXCEPT !.problems = problems, !.cancelled = cancelled, !.changed = changed, !.dryRun = dryRun,
                             !.base = base, !.strict = strict, !.sheets = sheets] :
     problems \in {{}, {"NOTED"}, {"AMBIGUOUS_SCHEMA"}}, cancelled \in {None, "before", "after"}, changed, dryRun, base, strict \in BOOLEAN,
     sheets \in {1, 2}}

RunCard == \E call \in Creations \cup Updates \cup Runs : Takes([call |-> call, result |-> Card!RunWorkflow(call)])
EveryAmountLands == Ran("card") => Card!EveryAmountLands(Argument.call, Argument.result)
SummaryIsTheCards == Ran("card") => Card!SummaryIsTheCards(Argument.result)
ExistingIsKept == Ran("card") => Card!ExistingIsKept(Argument.call, Argument.result)
StrictCardIsClean == Ran("card") => Card!StrictCardIsClean(Argument.call, Argument.result)
BlocksAreApart == Ran("card") => Card!BlocksAreApart(Argument.result)
NoRowIsForgotten == Ran("card") => Card!NoRowIsForgotten(Argument.call, Argument.result)
ScaleIsKept == Ran("card") => Card!ScaleIsKept(Argument.call, Argument.result)
ConflictsAreReviewed == Ran("card") => Card!ConflictsAreReviewed(Argument.call, Argument.result)
UnitStaysWithQuantity == Ran("card") => Card!UnitStaysWithQuantity(Argument.call, Argument.result)

-----------------------------------------------------------------------------
(* Inputs of the drawing card sources.                                       *)
Source == INSTANCE CardSources WITH
  Codes <- {"c1", "c2", "1"}, Numeral <- "1", Indexes <- {"ks-1"}, Dashes <- {"-"}, ScanRows <- 6, EmptyLimit <- 2

OfCell(column, value, kind, formula, group) ==
  [column |-> column, value |-> value, kind |-> kind, formula |-> formula, group |-> group]
CellsOf == {OfCell(c, v, "none", <<>>, 0) : c \in {1, 2}, v \in {7}}
  \cup {OfCell(1, 8, "master", <<3, 4>>, 1), OfCell(2, 8, "master", <<5, 4>>, 1), OfCell(2, 9, "shared", <<>>, 1), OfCell(3, 9, "shared", <<>>, 1), OfCell(2, 6, "own", <<3, 4>>, 0)}
RowCells == {<<>>} \cup {<<c>> : c \in CellsOf} \cup {<<OfCell(1, 8, "master", <<3, 4>>, 1), OfCell(3, 9, "shared", <<>>, 1)>>}
OfRow(number, cells) == [number |-> number, cells |-> cells]
\* A group of shared formulas has one master.
HasMaster(cells) == \E k \in DOMAIN cells : cells[k].kind = "master"
CellTriples == {t \in RowCells \X RowCells \X RowCells : Cardinality({k \in 1..3 : HasMaster(t[k])}) <= 1}
SheetFiles ==
  {<<OfRow(1, t[1]), OfRow(n, t[2]), OfRow(m, t[3])>> : t \in CellTriples, n \in {2, 3}, m \in {4}}
  \cup {<<OfRow(None, <<c>>), OfRow(None, <<d>>)>> : c \in CellsOf, d \in CellsOf}
ReadRows ==
  \E file \in SheetFiles, minRow \in {1, 2, 3}, selected \in {{}, {1}, {2, 3}} :
    Takes([file |-> file, minRow |-> minRow, selected |-> selected, result |-> Source!IterRows(file, minRow, selected)])
RowsKeepTheirPlace == Ran("rows") => Source!RowsKeepTheirPlace(Argument.file, Argument.minRow, Argument.result)
SharedFormulaMoves == Ran("rows") => Source!SharedFormulaMoves(Argument.file, Argument.minRow, Argument.selected, Argument.result)
SelectionKeepsFormulas == Ran("rows") => Source!SelectionKeepsFormulas(Argument.file, Argument.minRow, Argument.selected, Argument.result)
UnnumberedKeepTheirPlace == Ran("rows") => Source!UnnumberedKeepTheirPlace(Argument.file, Argument.minRow, Argument.result)

Amount(value, formula) == [value |-> value, formula |-> formula]
SourcePlain(value) == Amount(value, <<>>)
\* Columns: 1 drawing, 2 work, 3 unit, then amounts.
Names == <<{"drawing"}, {"work"}, {"unit"}>>
Amounts ==
  {<<{"left", "quantity"}, {"left", "cost"}>>,
   <<{"performed", "quantity"}, {"performed", "cost"}, {"left", "quantity"}, {"left", "cost"}>>,
   <<{"quantity"}, {"price"}, {"contract"}, {"left", "quantity"}, {"left", "cost"}>>,
   <<{"quantity"}, {"price"}, {"contract", "cost"}, {"left", "quantity"}, {"left", "cost"}>>,
   <<{"quantity"}, {"price"}, {"contract"}, {"performed", "quantity"}, {"performed", "cost"}, {"left", "quantity"}, {"left", "cost"}>>,
   <<{"left", "quantity"}, {"price"}, {"contract"}, {"left", "cost"}>>,
   <<{"quantity"}, {"price"}, {"contract"}, {"quantity"}, {"price"}, {"contract", "cost"}, {"left", "quantity"}, {"left", "cost"}>>,
   <<{"left", "quantity"}, {"left", "quantity"}, {"left", "cost"}>>,
   <<{"performed", "left", "quantity"}, {"left", "cost"}>>, <<{"price"}, {"left", "quantity", "cost"}>>,
   <<{"performed", "quantity"}, {"left", "quantity"}, {"left", "cost"}, {"performed", "left", "cost"}>>}
Heads(amounts) == Names \o amounts
Split(heads) ==
  <<[c \in DOMAIN heads |-> IF c <= 3 THEN heads[c]
                            ELSE IF "left" \in heads[c] /\ (c = 4 \/ "left" \notin heads[c - 1]) THEN {"left"}
                            ELSE IF "performed" \in heads[c] /\ "performed" \notin heads[c - 1] THEN {"performed"}
                            ELSE IF "left" \in heads[c] \/ "performed" \in heads[c] THEN None ELSE heads[c]],
    [c \in DOMAIN heads |-> IF c > 3 /\ ("left" \in heads[c] \/ "performed" \in heads[c]) THEN heads[c] \ {"left", "performed"} ELSE None]>>
Headings ==
  {<<Heads(amounts)>> : amounts \in Amounts} \cup {Split(Heads(amounts)) : amounts \in Amounts}
  \cup {<<Heads(amounts), [c \in DOMAIN Heads(amounts) |-> IF c = 4 THEN {"left"} ELSE None]>> : amounts \in Amounts}
  \cup {<<[c \in DOMAIN Heads(amounts) |-> IF c = 1 THEN {"title"} ELSE None], Heads(amounts)>> : amounts \in Amounts}
  \cup {<<Heads(amounts), [c \in DOMAIN Heads(amounts) |-> {"number"}]>> : amounts \in Amounts}

SourceLine(drawing, work, metrics) ==
  [drawing |-> drawing, index |-> None, work |-> work, position |-> None, metrics |-> metrics]
Values(headings) == [c \in DOMAIN headings[1] |-> SourcePlain(IF c <= 3 THEN None ELSE 10 + c)]
Gap(headings) == SourceLine(None, FALSE, [c \in DOMAIN headings[1] |-> SourcePlain(None)])
Filled(headings) == SourceLine("c1", TRUE, Values(headings))
\* The column of the residual quantity, and that of the contract's cost.
Residue(headings) == Len(headings[1]) - 1
Formula(headings, formula) == [Filled(headings) EXCEPT !.metrics[Residue(headings)].formula = formula]
Computed(headings) ==
  {Formula(headings, formula) : formula \in {<<>>, <<0>>, <<6, 5>>, <<6, 4>>, <<9, 4>>, <<4, 5>>}}
  \cup {[Formula(headings, <<6, 5>>) EXCEPT !.metrics[4].value = None], [Formula(headings, <<6, 5>>) EXCEPT !.metrics[Residue(headings)].value = None]}
  \cup {[Filled(headings) EXCEPT !.metrics[4].formula = <<7, 5>>]}
Written(headings) ==
  {Filled(headings), Gap(headings), [Filled(headings) EXCEPT !.drawing = None], [Filled(headings) EXCEPT !.drawing = "m"], [Filled(headings) EXCEPT !.drawing = "c2"],
   [Filled(headings) EXCEPT !.drawing = "c2", !.work = FALSE], [Filled(headings) EXCEPT !.index = "ks-1"], [Filled(headings) EXCEPT !.index = "-", !.drawing = None],
   [Filled(headings) EXCEPT !.index = "?", !.drawing = None]}
Positioned(headings) ==
  {[k \in 1 .. 4 |-> [Filled(headings) EXCEPT !.position = codes[k]]] :
     codes \in {<< <<1>>, <<1, 1>>, <<1, 2>>, <<2>> >>, << <<1>>, <<2>>, <<3>>, <<4>> >>, << <<1>>, <<1, 1>>, <<1, 2>>, None>>}}
Sheet(headings, data) == [headers |-> headings, data |-> data]
Sheets ==
  UNION {{Sheet(h, <<x, y>>) : x \in Computed(h), y \in Computed(h)} : h \in Headings}
  \cup UNION {{Sheet(h, <<x, y, z>>) : x \in Written(h), y \in Written(h), z \in Written(h)} : h \in {<<Heads(<<{"performed", "quantity"}, {"performed", "cost"}, {"left", "quantity"}, {"left", "cost"}>>)>>}}
  \cup UNION {{Sheet(h, <<Filled(h), Filled(h), Filled(h), Filled(h), x>>) : x \in Computed(h)} : h \in {<<Heads(amounts), [c \in DOMAIN Heads(amounts) |-> None]>> : amounts \in Amounts}}
  \cup UNION {{Sheet(h, data) : data \in Positioned(h)} : h \in Headings}
ReadSource == \E sheet \in Sheets : Takes([sheet |-> sheet, result |-> Source!ReadSheet(sheet, "name")])
OneColumnOneRole == Ran("source") => Source!OneColumnOneRole(Argument.sheet, Argument.result)
MoneyIsNoQuantity == Ran("source") => Source!MoneyIsNoQuantity(Argument.sheet, Argument.result)
LateMoneyIsNoQuantity == Ran("source") => Source!LateMoneyIsNoQuantity(Argument.sheet, Argument.result)
RowsBelongToTheirDrawing == Ran("source") => Source!RowsBelongToTheirDrawing(Argument.sheet, Argument.result)
RowsAddUp == Ran("source") => Source!RowsAddUp(Argument.sheet, Argument.result)
NumberingIsNoWork == Ran("source") => Source!NumberingIsNoWork(Argument.result)
NothingBelowIsLost == Ran("source") => Source!NothingBelowIsLost(Argument.sheet, Argument.result)

-----------------------------------------------------------------------------
(* The properties of the run, one of each area.                              *)

\* Rules, decisions and matches give every written row its sources, once, and a
\* row that is added takes a target from another only by a stronger match.
RowsReconcile ==
  /\ RulesStand /\ WrittenRowsCountOnce /\ AcceptedRowsCount /\ SelectionIsMonotone

\* What is offered for acceptance in one step is complete, alike, offered once,
\* and stays offered when another group is taken away.
GroupsAreSafe ==
  /\ SafePackagesAgree /\ EveryGroupOnce /\ SafeWithoutOthers

\* Headings, sheets and words with a typing error are read once and in one way, what
\* is lost is seen, the target report is read as the stages and blocks it shows, the
\* names of one group vary each other, an act confirms a row for what it says alone,
\* the columns of a source are chosen without a doubt and its lines counted once,
\* and a card and its summary show all that was counted and lose nothing an earlier
\* card showed.
SheetsAreRead ==
  /\ EveryRowHasOneStage /\ HeaderHoldsNoRows /\ BlocksHoldTheRows /\ RecoveredStagesHaveRows
  /\ RolesStand /\ ResolvingHelps /\ MetricsReadOnce /\ TitleIsIgnored /\ LostCacheIsSeen
  /\ GapsChangeNothing /\ RepeatedHeadingHidesNothing /\ GroupsVaryOneName
  /\ OrderDecidesNothing /\ OthersDoNotDecide /\ HalfReadDecidesNothing /\ UnitsDoNotDecide /\ DrawingIsTheParents
  /\ DocumentsHaveOnePackage /\ RowsAreAnswered /\ StoredAsAWhole
  /\ TyposAreOneEdit /\ FrontierCountsOnce /\ EveryAmountLands /\ SummaryIsTheCards /\ ExistingIsKept
  /\ StrictCardIsClean /\ BlocksAreApart
  /\ RowsKeepTheirPlace /\ SharedFormulaMoves /\ OneColumnOneRole /\ MoneyIsNoQuantity
  /\ RowsBelongToTheirDrawing /\ RowsAddUp

\* A period is inserted as planned, references follow, and nothing else passes.
PeriodsInsert == SweepFindsOverlaps /\ ReferencesFollow /\ PlainPlansPrepare /\ PreparedIsSettled /\ TamperingIsSeen

\* Mined patterns tell no parameter and no private text; they are activated after
\* the replay and the approval of exactly that record.
PatternsStand ==
  /\ NoParameterPublished /\ PrivateRowsAreUnseen
  /\ ActivationWasReplayed /\ AcceptedBeforeApproval

\* Suggestions and patterns agree with their evidence, packages are attested and
\* the best partition, what is shown is what is decided and written, and a restart
\* takes back the job and the decisions that were saved, or refuses.
ReviewsStand ==
  /\ NothingRefused /\ VetoedStaysHidden /\ BestEvidenceFirst /\ MinedAgree /\ LinksLoad
  /\ PartitionIsOptimal /\ PackagesAreAttested /\ EveryAtomOnce
  /\ DecidedOnce /\ DecidedAsShown /\ OpenIsShown /\ ServedWhenDecided /\ NothingOpenIsServed /\ JournalIsComplete /\ NothingIsHidden
  /\ RestoredAsSaved /\ ChangedIsRefused /\ ReplayIsThePlan /\ RestartsAgree /\ DecisionsComeBack
  /\ OneDocumentEach /\ ProposalsStand /\ DecidedCanBeApplied /\ DecisionsAreWritten /\ PeriodIsAsShown
  /\ OnlyAcceptedPass /\ DecisionsGoFirst /\ FailedRowsAreMarked

\* A row of a drawing card is decided by people first, then by what is certain,
\* and never by a suggestion, and the files of a card are those of the object, the
\* period and the original without a doubt.
CardsStand ==
  /\ UnresolvedIsNotGuessed /\ QuantityKeepsUnit /\ SuggestionsDecideNothing
  /\ ConsensusIsUnanimous /\ LastWordCounts
  /\ NoEvidenceAgainst /\ EveryObjectIsServed /\ RightPeriodIsRead

-----------------------------------------------------------------------------
Init == algorithm \in {"reconcile", "group", "package", "optimize", "cluster", "columns", "classify", "schema", "sheet", "insert layout", "insert book", "verify", "merge", "target", "mine", "suggest", "promote", "accept", "match row", "typo", "hierarchy", "card", "rows", "source", "select", "facts", "evidence", "drawing", "folder", "record", "restart", "replay", "apply", "verify documents"} /\ input = Idle
Call(name, Inputs) == algorithm = name /\ input = Idle /\ UNCHANGED algorithm /\ Inputs
Return == input # Idle /\ input' = Idle /\ UNCHANGED algorithm
Next == \/ Call("reconcile", Reconcile)
        \/ Call("group", GroupRows)
        \/ Call("package", PackageRows)
        \/ Call("optimize", Optimize)
        \/ Call("cluster", Cluster)
        \/ Call("columns", ResolveColumns)
        \/ Call("classify", Classify)
        \/ Call("schema", RateSchema)
        \/ Call("sheet", ReadSheet)
        \/ Call("insert layout", InsertIntoLayout)
        \/ Call("insert book", InsertIntoBook)
        \/ Call("verify", VerifyInsertion)
        \/ Call("merge", MergeSpans)
        \/ Call("target", ReadTarget)
        \/ Call("mine", Mine)
        \/ Call("suggest", Suggest)
        \/ Call("promote", Promote)
        \/ Call("accept", Accept)
        \/ Call("match row", MatchRow)
        \/ Call("typo", FindTypos)
        \/ Call("hierarchy", FilterRows)
        \/ Call("card", RunCard)
        \/ Call("rows", ReadRows)
        \/ Call("source", ReadSource)
        \/ Call("select", SelectSources)
        \/ Call("facts", ReadFacts)
        \/ Call("evidence", WeighEvidence)
        \/ Call("drawing", InheritDrawing)
        \/ Call("folder", UploadFolder)
        \/ Call("record", RecordReview)
        \/ Call("restart", RestartService)
        \/ Call("replay", ReplayDecisions)
        \/ Call("apply", ApplyDecisions)
        \/ Call("verify documents", VerifyDocuments)
        \/ Return
Spec == Init /\ [][Next]_<<algorithm, input>>
=============================================================================
