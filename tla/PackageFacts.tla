---------------------------- MODULE PackageFacts ----------------------------
(* package_reconciliation: the rows of the workbooks of a package            *)
(* (workbook.py), what is read of its acts (pdf_documents.py, ocr.py) and    *)
(* which act confirms which row (matcher.py).                                *)
(*                                                                           *)
(* A sheet is a sequence of rows of cells; a cell is a record [words, text,  *)
(* number]: the words _header_field looks for, what is written, and the      *)
(* number _decimal reads.  A code is the sequence of its parts.              *)
EXTENDS Integers, FiniteSets, Sequences
LOCAL INSTANCE FiniteSetsExt
LOCAL INSTANCE SequencesExt
LOCAL INSTANCE Functions

CONSTANTS None,
          EmptyLimit   \* _EMPTY_ROW_LIMIT

-----------------------------------------------------------------------------
(* workbook.py.                                                              *)
\* What a heading names; the first that applies.
HeaderField(words) ==
  IF {"drawing", "code"} \subseteq words THEN "drawing_code"
  ELSE IF "basis" \in words THEN "basis"
  ELSE IF {"object", "code"} \subseteq words THEN "object_code"
  ELSE IF "unit" \in words THEN "unit"
  ELSE IF "name" \in words /\ words \cap {"works", "costs"} # {} THEN "work_name"
  ELSE IF "position" \in words \/ {"number", "works"} \subseteq words THEN "work_code"
  ELSE IF "quantity" \in words THEN "quantity"
  ELSE IF "cost" \in words /\ "price" \notin words THEN "total_cost" ELSE None
WordsAt(sheet, first, last, column) ==
  UNION {sheet[r][column].words : r \in {r \in first .. last : column \in DOMAIN sheet[r] /\ sheet[r][column] # None}}
Width(sheet, first, last) == Max({Len(sheet[r]) : r \in first .. last})
FieldsAt(sheet, first, last) == {<<c, HeaderField(WordsAt(sheet, first, last, c))>> : c \in 1 .. Width(sheet, first, last)}
FirstColumns(fields) == {f \in fields : f[2] # None /\ \A g \in fields : g[2] = f[2] => f[1] <= g[1]}
Scored(columns) ==
  Cardinality(columns) + Cardinality({f \in columns : f[2] \in {"work_code", "work_name"}})
Heading(span, columns) == [first |-> span[1], end |-> span[2], columns |-> columns, score |-> Scored(columns)]
IsHeading(heading) == heading.score >= 3 /\ \E f \in heading.columns : f[2] = "work_name"
Spans(sheet) == {s \in (DOMAIN sheet) \X (DOMAIN sheet) : s[1] <= s[2] /\ s[2] - s[1] <= 2}
CandidateHeaders(sheet) ==
  {h \in {Heading(s, FirstColumns(FieldsAt(sheet, s[1], s[2]))) : s \in Spans(sheet)} : IsHeading(h)}
\* Of equal headings the first, and of those that end together the shortest.
Better(h, g) == h.score > g.score \/ (h.score = g.score /\ (h.end < g.end \/ (h.end = g.end /\ h.first > g.first)))
BestHeading(found) == CHOOSE h \in found : \A g \in found \ {h} : Better(h, g)

IsEmpty(row) == \A c \in DOMAIN row : row[c] = None
CellAt(row, columns, field) ==
  LET at == {f \in columns : f[2] = field /\ f[1] \in DOMAIN row}
  IN  IF at = {} THEN None ELSE row[(CHOOSE f \in at : TRUE)[1]]
TextAt(cell) == IF cell = None THEN None ELSE cell.text
NumberAt(cell) == IF cell = None THEN None ELSE cell.number
Fact(sheet, number, columns) ==
  LET at(field) == CellAt(sheet[number], columns, field)
  IN  [number |-> number, code |-> TextAt(at("work_code")), name |-> TextAt(at("work_name")), drawing |-> TextAt(at("drawing_code")),
       unit |-> TextAt(at("unit")), quantity |-> NumberAt(at("quantity")), cost |-> NumberAt(at("total_cost"))]
SaysSomething(fact) == fact.code # None \/ fact.name # None \/ fact.quantity # None \/ fact.cost # None
ReadFact(facts, fact) == IF SaysSomething(fact) THEN Append(facts, fact) ELSE facts
\* Bug: the blank rows of the whole sheet are counted.
GapsAddUp(before, sheet, number, columns) ==
  IF IsEmpty(sheet[number]) THEN [before EXCEPT !.blank = @ + 1]
  ELSE [before EXCEPT !.facts = ReadFact(@, Fact(sheet, number, columns))]
AfterRow(before, sheet, number, columns) ==
  IF IsEmpty(sheet[number]) THEN [before EXCEPT !.blank = @ + 1]
  ELSE [blank |-> 0, facts |-> ReadFact(before.facts, Fact(sheet, number, columns))]
RowsUnder(sheet, heading) ==
  LET next(before, number) == IF number <= heading.end \/ before.blank >= EmptyLimit THEN before
                              ELSE AfterRow(before, sheet, number, heading.columns)
  IN  FoldLeftDomain(next, [blank |-> 0, facts |-> <<>>], sheet).facts
FactsUnder(sheet, found) == IF found = {} THEN <<>> ELSE RowsUnder(sheet, BestHeading(found))
\* The rows of a sheet; a sheet without a heading has none.
SheetFacts(sheet) == FactsUnder(sheet, CandidateHeaders(sheet))
\* What pipeline.py goes on with.
IsComparable(fact) == fact.name # None /\ (fact.quantity # None \/ fact.cost # None)

-----------------------------------------------------------------------------
(* ocr.py and pdf_documents.py.  A document is a record [path, kind, layer,  *)
(* pages]; the layer is a record [status, text], text = [act, codes, work,   *)
(* pairs], and the pages a record [status, images], an image what tesseract  *)
(* makes of it: [status, text, tokens], the tokens being their confidences.  *)
NoText == [act |-> None, codes |-> {}, work |-> {}, pairs |-> {}]
Reading(source, text, confidence) == [source |-> source, text |-> text, confidence |-> confidence]
TextLayer(layer) ==
  CASE layer.status = "failed" -> Reading("error", NoText, None)
    [] layer.status = "empty" -> Reading("empty", NoText, None)
    [] layer.status = "text" -> Reading("text_layer", layer.text, None)
ActOf(images, acts) == IF acts = {} THEN None ELSE images[Min(acts)].text.act
Joined(images) ==
  [act |-> ActOf(images, {n \in DOMAIN images : images[n].text.act # None}), codes |-> UNION {images[n].text.codes : n \in DOMAIN images},
   work |-> UNION {images[n].text.work : n \in DOMAIN images}, pairs |-> UNION {images[n].text.pairs : n \in DOMAIN images}]
Tokens(images) == UNION {{<<n, k>> : k \in DOMAIN images[n].tokens} : n \in DOMAIN images}
Mean(images, places) ==
  IF places = {} THEN None ELSE MapThenSumSet(LAMBDA at : images[at[1]].tokens[at[2]], places) \div Cardinality(places)
Confidence(images) == Mean(images, {at \in Tokens(images) : images[at[1]].tokens[at[2]] >= 0})
OfImages(images) ==
  IF Tokens(images) = {} THEN Reading("empty", NoText, None) ELSE Reading("ocr", Joined(images), Confidence(images))
IsRead(image) == image.status = "read"
\* Bug: pages that could not be read are left out.
SomePages(pages) == OfImages(SelectSeq(pages.images, IsRead))
OcrPages(pages) ==
  IF pages.status = "failed" \/ \E n \in DOMAIN pages.images : ~IsRead(pages.images[n])
  THEN Reading("error", NoText, None) ELSE OfImages(pages.images)
ProjectCodes(text) == text.codes \ {text.act}
Sufficient(text) == text.act # None /\ (ProjectCodes(text) # {} \/ text.work # {})
Analysed(document) ==
  IF Sufficient(TextLayer(document.layer).text) THEN TextLayer(document.layer) ELSE OcrPages(document.pages)
Evidence(document) ==
  [path |-> document.path, kind |-> document.kind,
   read |-> IF document.kind = "aosr" THEN Analysed(document) ELSE Reading("not_processed", NoText, None)]

-----------------------------------------------------------------------------
(* matcher.py.                                                               *)
IsPrefixOf(shorter, longer) == Len(shorter) <= Len(longer) /\ shorter = SubSeq(longer, 1, Len(shorter))
Ancestors(fact, facts) ==
  {f \in Range(facts) : f.number < fact.number /\ f.code # None /\ f.drawing # None /\ Len(f.code) < Len(fact.code) /\ IsPrefixOf(f.code, fact.code)}
\* Bug: the nearest ancestor, however far up the code.
NearestOnly(fact, ancestors) == {f \in ancestors : \A g \in ancestors : g.number <= f.number}
NearestParent(fact, ancestors) ==
  {f \in ancestors : \A g \in ancestors : Len(g.code) < Len(f.code) \/ (Len(g.code) = Len(f.code) /\ g.number <= f.number)}
DrawingCodes(fact, facts) ==
  CASE fact.drawing # None -> {fact.drawing}
    [] fact.drawing = None /\ fact.code = None -> {}
    [] OTHER -> {f.drawing : f \in NearestParent(fact, Ancestors(fact, facts))}

Fragments(codes) == {code \in codes : Len(code) >= 3}
SameOrExtension(left, right) == IsPrefixOf(left, right) \/ IsPrefixOf(right, left)
ProjectCodeSignal(drawings, codes) ==
  \E left \in Fragments(drawings), right \in Fragments(codes) : SameOrExtension(left, right)
SimilarNames(left, right) ==
  /\ left \cap right # {}
  /\ Cardinality(left \cap right) * 10 >= Min({Cardinality(left), Cardinality(right)}) * 6
Signals(fact, candidate, drawings) ==
  (IF ProjectCodeSignal(drawings, ProjectCodes(candidate.read.text)) THEN {"project_code_match"} ELSE {})
  \cup (IF SimilarNames(fact.name, candidate.read.text.work) THEN {"work_description_similarity"} ELSE {})
Weight(signals) == Cardinality(signals) + Cardinality(signals \cap {"project_code_match"})

\* _unit, and the metres in one.
Scale == [m |-> <<"m", 1>>, mp |-> <<"m", 1>>, km |-> <<"m", 1000>>, pcs |-> <<"pcs", 1>>]
Compared(left, right) == IF left = right THEN "MATCH" ELSE "MISMATCH"
\* Bug: units are not converted.
AsWritten(fact, quantity, unit) == Compared(fact.quantity, quantity)
Converted(fact, quantity, unit) ==
  IF {fact.unit, unit} \subseteq DOMAIN Scale /\ Scale[fact.unit][1] = Scale[unit][1]
  THEN Compared(fact.quantity * Scale[fact.unit][2], quantity * Scale[unit][2]) ELSE "NOT_COMPARABLE"
The(S) == CHOOSE x \in S : TRUE
CompareQuantity(fact, pairs) ==
  IF fact.quantity = None \/ fact.unit = None \/ Cardinality({p[1] : p \in pairs}) # 1 \/ Cardinality({p[2] : p \in pairs}) # 1
  THEN "NOT_COMPARABLE" ELSE Converted(fact, The(pairs)[1], The(pairs)[2])

Answer(status, reasons, path, quantity) ==
  [status |-> status, reasons |-> reasons, path |-> path, quantity |-> quantity]
Unproven(status, reason) == Answer(status, {reason}, None, "NOT_COMPARABLE")
Unread(signals, reason, path) == Answer("NEEDS_REVIEW", signals \cup {reason}, path, "NOT_COMPARABLE")
IsUnsure(read) == read.source = "ocr" /\ (read.confidence = None \/ read.confidence < 70)
Confirmed(read, path, signals, quantity) ==
  CASE IsUnsure(read) -> Unread(signals, "low_ocr_confidence", path)
    [] read.source \in {"error", "empty"} -> Unread(signals, "pdf_text_unavailable", path)
    [] OTHER -> Answer(IF quantity = "MISMATCH" THEN "MISMATCH" ELSE "MATCH", signals, path, quantity)
ConfirmedBy(fact, candidate, signals) ==
  Confirmed(candidate.read, candidate.path, signals, CompareQuantity(fact, candidate.read.text.pairs))
\* Bug: one of the strongest is good enough.
OneOfStrongest(weights) == {CHOOSE c \in DOMAIN weights : \A d \in DOMAIN weights : weights[d] <= weights[c]}
Strongest(weights) == {c \in DOMAIN weights : \A d \in DOMAIN weights : weights[d] <= weights[c]}
FromTop(fact, signals, top) ==
  IF Cardinality(top) > 1 THEN Unproven("AMBIGUOUS", "equally_strong_candidates")
  ELSE ConfirmedBy(fact, The(top), signals[The(top)])
FromSupported(fact, signals, supported) ==
  IF supported = {} THEN Unproven("NEEDS_REVIEW", "independent_content_signal_missing")
  ELSE FromTop(fact, signals, Strongest([c \in supported |-> Weight(signals[c])]))
FromSignals(fact, signals) == FromSupported(fact, signals, {c \in DOMAIN signals : signals[c] # {}})
FromUnsupported(candidates) ==
  IF Cardinality(candidates) = 1 THEN Unread({}, "unsupported_document_type", The(candidates).path)
  ELSE Unproven("AMBIGUOUS", "multiple_unsupported_candidates")
FromUsable(fact, candidates, usable, drawings) ==
  IF usable = {} THEN FromUnsupported(candidates)
  ELSE FromSignals(fact, [c \in usable |-> Signals(fact, c, drawings)])
ReconcileRow(fact, candidates, drawings) ==
  CASE fact.code = None -> Unproven("NEEDS_REVIEW", "missing_work_code")
    [] fact.code # None /\ candidates = {} -> Unproven("NO_EVIDENCE", "no_exact_work_code_candidate")
    [] OTHER -> FromUsable(fact, candidates, {c \in candidates : c.kind = "aosr"}, drawings)
Reconciled(fact, documents, drawings) == ReconcileRow(fact, {Evidence(d) : d \in documents}, drawings)

-----------------------------------------------------------------------------
Runs(sheet) == {r \in (DOMAIN sheet) \X (DOMAIN sheet) : r[1] <= r[2] /\ \A n \in r[1] .. r[2] : IsEmpty(sheet[n])}
WithRow(sheet, n, row) == SubSeq(sheet, 1, n) \o <<row>> \o SubSeq(sheet, n + 1, Len(sheet))
Shifted(facts, n) == [k \in DOMAIN facts |-> IF facts[k].number <= n THEN facts[k] ELSE [facts[k] EXCEPT !.number = @ + 1]]
Under(sheet, found) == IF found = {} THEN {} ELSE BestHeading(found).end .. Len(sheet)
\* workbook.py:256: an empty row anywhere below the headings only moves the rows
\* under it, as long as the gap it is in stays below the limit.
GapsChangeNothing(sheet, result) ==
  \A n \in Under(sheet, CandidateHeaders(sheet)) :
    (\A r \in Runs(WithRow(sheet, n, <<None>>)) : r[2] - r[1] + 1 < EmptyLimit) =>
      SheetFacts(WithRow(sheet, n, <<None>>)) = Shifted(result, n)
\* workbook.py:129: a heading repeated further down does not hide the rows above it.
RepeatedHeadingHidesNothing(sheet, result) ==
  (\A h, g \in CandidateHeaders(sheet) : h.columns = g.columns) =>
    \A h \in CandidateHeaders(sheet) : \A n \in h.end + 1 .. Len(sheet) :
      (IsComparable(Fact(sheet, n, h.columns)) /\ \A r \in Runs(sheet) : r[2] < n => r[2] - r[1] + 1 < EmptyLimit) =>
        Fact(sheet, n, h.columns) \in Range(result)
\* Not so: a richer heading further down hides the rows above it.
NothingAboveIsLost(sheet, result) ==
  \A h \in CandidateHeaders(sheet), n \in DOMAIN sheet :
    (h.first = h.end /\ n > h.end /\ IsComparable(Fact(sheet, n, h.columns))) => \E k \in DOMAIN result : result[k].number = n
\* Not so: under a heading of two rows the price of one is read for the total.
CostIsNoPrice(sheet, result) ==
  \A k \in DOMAIN result, c \in 1 .. Len(sheet[1]) :
    (result[k].cost # None /\ sheet[result[k].number][c] # None /\ sheet[result[k].number][c].number = result[k].cost) =>
      ~\E r \in DOMAIN sheet : c \in DOMAIN sheet[r] /\ sheet[r][c] # None /\ "price" \in sheet[r][c].words

\* matcher.py:77: the drawing of a row is that of its closest part above it;
\* no row below it and none of another part of the code changes that.
Between(code, parent, fact) == code # parent /\ IsPrefixOf(parent, code) /\ IsPrefixOf(code, fact)
DrawingIsTheParents(fact, facts, added) ==
  (fact.code # None /\ fact.drawing = None) => \A parent \in NearestParent(fact, Ancestors(fact, facts)) :
    (added.number > fact.number \/ added.code = None \/ (added.code # parent.code /\ ~Between(added.code, parent.code, fact.code))) =>
      DrawingCodes(fact, Append(facts, added)) = {parent.drawing}

Decides(answer) == answer.status \in {"MATCH", "MISMATCH"}
Exchanged(documents, d, e) ==
  (documents \ {d, e}) \cup {[d EXCEPT !.path = e.path], [e EXCEPT !.path = d.path]}
Swap(path, d, e) == CASE path = d.path -> e.path [] path = e.path -> d.path [] OTHER -> path
\* matcher.py:127: nothing but what the documents say decides between them: two
\* that change places change places in the answer.
OrderDecidesNothing(fact, documents, drawings, answer) ==
  \A d, e \in documents :
    Reconciled(fact, Exchanged(documents, d, e), drawings) = [answer EXCEPT !.path = IF @ = None THEN None ELSE Swap(@, d, e)]
\* matcher.py:91: a document that decides a row still decides it, in the same
\* way, when any of the others is taken away.
OthersDoNotDecide(fact, documents, drawings, answer) ==
  Decides(answer) => \A fewer \in SUBSET documents :
    (\E d \in fewer : d.path = answer.path) => Reconciled(fact, fewer, drawings) = answer
Broken(document) == [document EXCEPT !.layer.status = "failed"]
HalfRead(document) ==
  {[Broken(document) EXCEPT !.pages.images[n].status = "failed"] : n \in DOMAIN document.pages.images}
\* ocr.py:162: a document of which a page could not be read decides nothing.
HalfReadDecidesNothing(fact, documents, drawings) ==
  \A d \in documents : \A broken \in HalfRead(d) :
    LET answer == Reconciled(fact, (documents \ {d}) \cup {broken}, drawings)
    IN  Decides(answer) => answer.path # d.path
InMetres(fact) == [fact EXCEPT !.unit = "m", !.quantity = @ * 1000]
\* matcher.py:273: a length in kilometres is answered as the same one in metres.
UnitsDoNotDecide(fact, documents, drawings, answer) ==
  fact.unit = "km" => Reconciled(InMetres(fact), documents, drawings) = answer
\* Not so: a MATCH may have compared nothing.
MatchIsCompared(answer) == answer.status = "MATCH" => answer.quantity = "MATCH"
\* Not so: a failing tool makes one of two equal documents decide.
FailureNeverDecides(fact, documents, drawings, answer) ==
  \A d \in documents : \A broken \in HalfRead(d) :
    Decides(Reconciled(fact, (documents \ {d}) \cup {broken}, drawings)) => Decides(answer)
\* Not so: the layer of a document that does not say enough is lost with its pages.
LayerIsKept(document) ==
  (document.layer.status = "text" /\ Signals([name |-> {"w1"}], [read |-> TextLayer(document.layer)], {}) # {}) =>
    Signals([name |-> {"w1"}], Evidence(document), {}) # {}
=============================================================================
