---------------------------- MODULE SheetSchema ----------------------------
(***************************************************************************)
(* The schema of a worksheet (schema/): what kind of sheet it is, which of   *)
(* its columns plays which role, and where its table begins and ends.        *)
(*                                                                         *)
(* Scores are in ten-thousandths.  The text of a header stands for the set   *)
(* of its words: [column, words].  A rule is [logical, exact, required,      *)
(* optional, forbidden, priority, context, current], exact a set of texts;   *)
(* "context" marks the logical columns of _CONTEXT_REQUIRED, "current" those *)
(* a named month counts for.  Sheet types are numbers, in the order of their *)
(* names.                                                                  *)
(***************************************************************************)
EXTENDS Integers, FiniteSets, Sequences, SequencesExt, FiniteSetsExt

CONSTANT None

Clamp(x) == Max({0, Min({10000, x})})
Ratio(n, m, whole) == (2 * whole * n + m) \div (2 * m)   \* rounded to a ten-thousandth

-----------------------------------------------------------------------------
(* column_resolver.py                                                      *)

Penalty(hits) == IF hits = 0 THEN 0 ELSE Min({2000 + 1600 * hits, 6200})
Scored(header, rule) ==
  /\ header.words # {}
  /\ header.words \in rule.exact \/ rule.required \subseteq header.words
Score(header, rule) ==
  LET optional == Cardinality(rule.optional \cap header.words)
                  + (IF rule.current /\ "month" \in header.words THEN 1 ELSE 0)
      partial == 5800 + Ratio(optional, Max({1, Cardinality(rule.optional)}), 2500)
                 + Min({10 * rule.priority, 1000}) - (IF rule.context /\ optional = 0 THEN 2400 ELSE 0)
  IN  Clamp((IF header.words \in rule.exact THEN 10000 ELSE partial)
            - Penalty(Cardinality(rule.forbidden \cap header.words)))

\* Resolutions are [logical, column, score, status].
Resolution(logical, headers, rules) ==
  LET candidates == {[column |-> x[1].column, score |-> Score(x[1], x[2])] :
                       x \in {x \in headers \X rules : /\ x[2].logical = logical /\ Scored(x[1], x[2])
                                                              /\ Score(x[1], x[2]) >= 4500}}
      score == IF candidates = {} THEN 0 ELSE Max({c.score : c \in candidates})
      top == Min({c.column : c \in {c \in candidates : c.score = score}})
      competing == {c \in candidates : c.column # top /\ score - c.score <= 450 /\ c.score >= 7200}
      Answer(column, status) == [logical |-> logical, column |-> column, score |-> score, status |-> status]
  IN  IF score < 6400 THEN Answer(None, "COLUMN_NOT_FOUND")
      ELSE IF competing # {} THEN Answer(None, "AMBIGUOUS_COLUMN")
      ELSE Answer(top, "OK")

Ok(resolutions) == {r \in resolutions : r.status = "OK"}
Ambiguous(r) == [r EXCEPT !.column = None, !.status = "AMBIGUOUS_COLUMN"]

\* Bug: a role falls only to one that is clearly better.
Survives(r, others) == \A o \in others : o.score - r.score < 800

\* Of the roles one column plays, only a clearly best one stands.
Wins(r, others) == \A o \in others : r.score - o.score >= 800

\* _resolve_physical_conflicts
Settled(resolutions) ==
  {LET others == {o \in Ok(resolutions) : o.column = r.column /\ o # r}
   IN  IF r.status = "OK" /\ ~Wins(r, others) THEN Ambiguous(r) ELSE r : r \in resolutions}

\* resolve_logical_columns: the rules are those of the type of the sheet.
Columns(headers, rules) ==
  Settled({Resolution(logical, headers, rules) : logical \in {r.logical : r \in rules}})

\* apply_column_overrides: overrides map logical columns to columns.
Overridden(resolutions, overrides) ==
  {r \in resolutions : r.logical \notin DOMAIN overrides}
  \cup {[logical |-> l, column |-> overrides[l], score |-> 10000, status |-> "OK"] : l \in DOMAIN overrides}

-----------------------------------------------------------------------------
(* table_boundaries.py                                                     *)

\* A row is [numbers, texts, digits, heads, numbering].
LooksLikeData(row) ==
  /\ ~row.numbering
  /\ row.numbers + row.texts > 0
  /\ ~(row.heads >= 3 /\ row.numbers = 0)
  /\ (row.numbers > 0 /\ row.texts > 0) \/ (row.texts >= 2 /\ row.digits)
Empty(row) == row.numbers + row.texts = 0

\* detect_data_start_row, of the rows below the header.
DataStart(rows) ==
  LET gaps(i) == Cardinality({j \in 1..i : Empty(rows[j])})
      starts == {i \in 1..Min({Len(rows), 8}) : LooksLikeData(rows[i]) /\ gaps(i) <= 3}
  IN  IF starts = {} THEN None ELSE Min(starts)

\* _clusters: columns no more than three apart, and the largest of them.
ClusterFrom(first, columns) ==
  {c \in columns : c >= first /\ \A d \in columns : first < d /\ d <= c => \E e \in columns : e < d /\ d - e <= 3}
LargestCluster(columns) ==
  LET firsts == {c \in columns : \A d \in columns : d < c => c - d > 3}
      size(c) == Cardinality(ClusterFrom(c, columns))
      most == Max({size(c) : c \in firsts})
  IN  ClusterFrom(Min({c \in firsts : size(c) = most}), columns)

\* detect_table_column_bounds, of the columns that have a header.
Bounds(columns, resolutions) ==
  LET resolved == {r.column : r \in Ok(resolutions)}
      near == {c \in columns : Min(resolved) - 3 <= c /\ c <= Max(resolved) + 3}
      span(S) == <<Min(S), Max(S)>>
  IN  IF resolved # {} THEN span(IF near # {} THEN near ELSE resolved)
      ELSE IF columns # {} THEN span(LargestCluster(columns))
      ELSE <<None, None>>

-----------------------------------------------------------------------------
(* sheet_classifier.py: name and content map types to scores in hundredths. *)

Scores(name, content) ==
  [t \in DOMAIN name \cup DOMAIN content |->
     IF t \in DOMAIN name /\ t \in DOMAIN content THEN 45 * name[t] + 55 * content[t]
     ELSE IF t \in DOMAIN name THEN 85 * name[t] ELSE 90 * content[t]]
First(scores) ==
  CHOOSE t \in DOMAIN scores : \A u \in DOMAIN scores : scores[t] > scores[u] \/ (scores[t] = scores[u] /\ t <= u)

Conflict(name, content) ==
  /\ name # <<>> /\ content # <<>> /\ First(name) # First(content)
  /\ name[First(name)] >= 72 /\ content[First(content)] >= 62

\* classify_worksheet
Classification(name, content) ==
  LET scores == Scores(name, content)
      score == IF scores = <<>> THEN 0 ELSE scores[First(scores)]
      Answer(type, confidence, status) == [type |-> type, confidence |-> confidence, status |-> status]
  IN  IF score < 2800 THEN Answer(None, score, "UNKNOWN_SHEET_TYPE")
      ELSE IF Conflict(name, content)
      THEN Answer(First(scores), 100 * Max({name[First(name)], content[First(content)]}), "AMBIGUOUS_SHEET_TYPE")
      ELSE Answer(First(scores), score, IF score < 6500 THEN "LOW_CONFIDENCE_SHEET_TYPE" ELSE "OK")

-----------------------------------------------------------------------------
(* analyzer.py: headers are candidates [start, score], best first.          *)

HeaderAmbiguous(candidates) ==
  \E i \in 2..Len(candidates) : /\ candidates[1].score - candidates[i].score <= 250
                                /\ candidates[1].start - candidates[i].start \notin -1..1

\* Bug: the roles found must be the required ones.
MissesExactly(resolutions, required) == required # {r.logical : r \in Ok(resolutions)}
Misses(resolutions, required) == ~(required \subseteq {r.logical : r \in Ok(resolutions)})

Warnings(candidates, resolutions, required, start, limited) ==
  {w \in {"SCAN_CELL_LIMIT_REACHED", "AMBIGUOUS_HEADER", "AMBIGUOUS_COLUMNS", "MISSING_REQUIRED_COLUMNS",
          "DATA_START_NOT_FOUND"} :
     \/ w = "SCAN_CELL_LIMIT_REACHED" /\ limited
     \/ w = "AMBIGUOUS_HEADER" /\ HeaderAmbiguous(candidates)
     \/ w = "AMBIGUOUS_COLUMNS" /\ \E r \in resolutions : r.status = "AMBIGUOUS_COLUMN"
     \/ w = "MISSING_REQUIRED_COLUMNS" /\ Misses(resolutions, required)
     \/ w = "DATA_START_NOT_FOUND" /\ candidates # <<>> /\ start = None}

\* calculate_schema_confidence
Weight == [SCAN_CELL_LIMIT_REACHED |-> 1200, AMBIGUOUS_HEADER |-> 1800, AMBIGUOUS_COLUMNS |-> 1200,
           MISSING_REQUIRED_COLUMNS |-> 1800, DATA_START_NOT_FOUND |-> 600]
Confidence(class, candidates, resolutions, required, warnings) ==
  LET resolved == {r.logical : r \in Ok(resolutions)}
      found == Cardinality(resolved \cap required)
  IN  Clamp(Ratio(28, 100, class.confidence) + (IF candidates = <<>> THEN 0 ELSE Ratio(27, 100, candidates[1].score))
            + (IF required # {} THEN Ratio(found, Cardinality(required), 3000)
               ELSE Ratio(Min({Cardinality(resolved), 5}), 5, 2000))
            + Ratio(Min({Cardinality(resolved), 6}), 6, 1500)
            - MapThenSumSet(LAMBDA w : Weight[w], warnings)
            - (CASE class.status = "AMBIGUOUS_SHEET_TYPE" -> 1800
                 [] class.status = "UNKNOWN_SHEET_TYPE" -> 2400 [] OTHER -> 0))

\* _schema_status
Status(class, candidates, warnings, confidence) ==
  CASE class.status \in {"UNKNOWN_SHEET_TYPE", "AMBIGUOUS_SHEET_TYPE"} -> class.status
    [] class.status = "LOW_CONFIDENCE_SHEET_TYPE" -> "LOW_CONFIDENCE_SCHEMA"
    [] candidates = <<>> -> "HEADER_NOT_FOUND"
    [] "AMBIGUOUS_HEADER" \in warnings -> "AMBIGUOUS_HEADER"
    [] "MISSING_REQUIRED_COLUMNS" \in warnings -> "MISSING_REQUIRED_COLUMNS"
    [] "AMBIGUOUS_COLUMNS" \in warnings -> "COLUMNS_NOT_RESOLVED"
    [] "SCAN_CELL_LIMIT_REACHED" \in warnings -> "SHEET_SCAN_LIMIT_REACHED"
    [] confidence < 7000 -> "LOW_CONFIDENCE_SCHEMA"
    [] OTHER -> "OK"

-----------------------------------------------------------------------------
(* Properties of one input.                                                *)

\* The headers do not decide by their number: another column beside those there
\* are never moves a role between them, it takes the role, leaves it or makes it
\* doubtful; and no column plays two roles.
RolesStand(headers, rules, new) ==
  LET before == Columns(headers, rules)  after == Columns(headers \cup {new}, rules)
  IN  /\ \A r \in Ok(before), s \in after : r.logical = s.logical => s.column \in {r.column, new.column, None}
      /\ \A r, s \in Ok(after) : r.column = s.column => r = s

\* To find one more role never costs a sheet its schema: what was OK stays OK.
ResolvingHelps(class, candidates, resolutions, required, start) ==
  LET status(roles) ==
        LET warnings == Warnings(candidates, roles, required, start, FALSE)
        IN  Status(class, candidates, warnings, Confidence(class, candidates, roles, required, warnings))
  IN  \A r \in resolutions \ Ok(resolutions) :
        status(resolutions) = "OK" =>
          status((resolutions \ {r}) \cup {[r EXCEPT !.column = 1, !.score = 9000, !.status = "OK"]}) = "OK"

\* Not satisfied by the code: a sheet that passes as known is of a type its name or
\* its contents rank first.  A type only the name speaks for keeps 0.85 of its score,
\* and one the contents speak for too may fall below it (sheet_classifier.py:48).
TypeIsSomeonesFirst(name, content) ==
  LET class == Classification(name, content)
  IN  class.status = "OK" => \/ name # <<>> /\ class.type = First(name)
                             \/ content # <<>> /\ class.type = First(content)

\* Nor that a role does not depend on the order of the columns: of two columns whose
\* scores are equal but below 0.72 the left one is taken (column_resolver.py:116).
EqualsAreAmbiguous(headers, rules) ==
  \A r \in Ok(Columns(headers, rules)), h \in headers : \A rule \in rules :
    rule.logical = r.logical /\ h.column # r.column /\ Scored(h, rule) => Score(h, rule) # r.score
=============================================================================
