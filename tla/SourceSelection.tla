--------------------------- MODULE SourceSelection ---------------------------
(* drawing_card/sources: manifest.py lists the files, identity.py tells the  *)
(* object of each, inspection.py scores them and chooses those to read.      *)
(*                                                                           *)
(* A file is a record [content, name, mapped, hint, folder, type, period,    *)
(* revision, copy, outdated, temporary, schema]: the objects a mapping, the  *)
(* name and the folder tell are sets, `schema` the confidence of its best    *)
(* sheet and the number of its columns, or None.                             *)
EXTENDS Integers, FiniteSets, Sequences, FiniteSetsExt

CONSTANTS None,
          Unreadable   \* contents inspect_source raises an error on

-----------------------------------------------------------------------------
(* The manifest: one entry for every content and name, by hint and name.     *)
FileId(file) == <<file.content, file.name>>
LastWith(files, id) == files[Max({n \in DOMAIN files : FileId(files[n]) = id})]
BuildManifest(files) == {LastWith(files, FileId(files[n])) : n \in DOMAIN files}

\* Every piece of evidence for the object counts the same: they agree, or there
\* is no object.
Evidence(file) == <<file.mapped, file.hint, file.folder>>
Strongest(file) == CHOOSE k \in DOMAIN Evidence(file) : Evidence(file)[k] # {} /\ \A m \in 1 .. k - 1 : Evidence(file)[m] = {}
Told(file) == UNION {Evidence(file)[k] : k \in DOMAIN Evidence(file)}
\* Bug: the strongest evidence is followed, and the other is not looked at.
StrongestTells(file) ==
  IF Told(file) = {} THEN None ELSE CHOOSE object \in Evidence(file)[Strongest(file)] : TRUE
ObjectOf(file) == IF Cardinality(Told(file)) = 1 THEN CHOOSE object \in Told(file) : TRUE ELSE None

Priority(type) == CASE type = "visr" -> 1200 [] type = "ks6a" -> 1000 [] type = "ks2" -> 600 [] type = "svvr" -> 500 [] OTHER -> 0
Score(file) ==
  file.schema.confidence + 300 * file.schema.columns + Priority(file.type) + (IF file.revision > 20 THEN 20 ELSE file.revision)
    - (IF file.copy THEN 500 ELSE 0) - (IF file.outdated THEN 5000 ELSE 0)
    - (IF file.temporary THEN 10000 ELSE 0)
Inspected(file) == file.content \notin Unreadable
Refusal(file) ==
  IF file.schema = None THEN "skipped_missing_required_columns"
  ELSE IF ObjectOf(file) = None THEN "skipped_object_identity_unresolved"
  ELSE IF file.temporary THEN "skipped_temporary_file"
  ELSE IF file.outdated THEN "skipped_outdated_file" ELSE None

-----------------------------------------------------------------------------
(* The selection: records are pairs <<file, decision>>.                      *)
KnownPeriods(files) == {file.period : file \in files} \ {None}
Latest(files) == Max(KnownPeriods(files))
\* Bug: what is not of the period that was asked for is read too.
AnyPeriod(files, requested) ==
  IF requested # None /\ \E file \in files : file.period = requested THEN {file \in files : file.period = requested} ELSE files
OfPeriod(files, requested) ==
  IF requested # None
  THEN IF \E file \in files : file.period = requested THEN {file \in files : file.period = requested}
       ELSE {file \in files : file.period = None}
  ELSE IF KnownPeriods(files) = {} THEN files ELSE {file \in files : file.period \in {Latest(files), None}}
ReasonOf(files, requested) ==
  IF requested = None THEN "not_selected_older_period"
  ELSE IF \E file \in files : file.period = requested THEN "not_selected_other_period" ELSE "not_selected_period_mismatch"
Passed(files, requested) == {<<file, ReasonOf(files, requested)>> : file \in files \ OfPeriod(files, requested)}
NothingEligible(selected) == IF selected = {} THEN {<<"NO_ELIGIBLE_SOURCES">>} ELSE {}

\* The files of a request are all read, but for their period.
SelectExplicit(eligible, requested) ==
  [selected |-> OfPeriod(eligible, requested), warnings |-> NothingEligible(OfPeriod(eligible, requested)),
   records |-> Passed(eligible, requested) \cup {<<file, "selected_explicit_input">> : file \in OfPeriod(eligible, requested)}]

\* Of the files found for an object one is read: no copy where there is another,
\* and none of several that are equally good.
Originals(pool) == IF \E file \in pool : ~file.copy THEN {file \in pool : ~file.copy} ELSE pool
Best(pool) == {file \in pool : \A other \in pool : Score(other) <= Score(file)}
\* Bug: all of several equally good files are read.
AllOfBest(pool) == Best(pool)
Winner(pool) == IF Cardinality(Best(pool)) = 1 THEN Best(pool) ELSE {}
Lower(pool) == {<<file, "not_selected_lower_score">> : file \in pool \ Best(pool)}
TopRecords(pool) ==
  {<<file, IF Cardinality(Best(pool)) = 1 THEN "selected" ELSE "blocked_ambiguous_top">> : file \in Best(pool)}
ChosenOf(object, pool, originals) ==
  [selected |-> Winner(originals), records |-> TopRecords(originals) \cup Lower(originals),
   warnings |-> {<<"ONLY_COPY_CANDIDATES", object>> : x \in {x \in {1} : \A file \in pool : file.copy}}
                  \cup {<<"MULTIPLE_TOP_CANDIDATES", object>> : x \in {x \in {1} : Winner(originals) = {}}}]
ChooseOf(object, pool) ==
  IF pool = {} THEN [selected |-> {}, records |-> {}, warnings |-> {<<"NO_SOURCE_FOR_PERIOD", object>>}]
  ELSE ChosenOf(object, pool, Originals(pool))
OfObject(eligible, object) == {file \in eligible : ObjectOf(file) = object}
ChoiceOf(eligible, object, requested) == ChooseOf(object, OfPeriod(OfObject(eligible, object), requested))
ObjectsOf(eligible) == {ObjectOf(file) : file \in eligible}
SelectFound(eligible, requested) ==
  [selected |-> UNION {ChoiceOf(eligible, o, requested).selected : o \in ObjectsOf(eligible)},
   records |-> UNION {ChoiceOf(eligible, o, requested).records \cup Passed(OfObject(eligible, o), requested) : o \in ObjectsOf(eligible)},
   warnings |-> UNION {ChoiceOf(eligible, o, requested).warnings : o \in ObjectsOf(eligible)}
                  \cup NothingEligible(UNION {ChoiceOf(eligible, o, requested).selected : o \in ObjectsOf(eligible)})]
Selection(inspected, eligible, explicit, requested) ==
  LET chosen == IF explicit THEN SelectExplicit(eligible, requested) ELSE SelectFound(eligible, requested)
      refused == {<<file, Refusal(file)>> : file \in inspected \ eligible}
  IN [chosen EXCEPT !.records = @ \cup refused, !.warnings = @ \cup {<<r[2]>> : r \in refused}]
Eligible(inspected) == {file \in inspected : Refusal(file) = None}
SelectInspections(inspected, explicit, requested) == Selection(inspected, Eligible(inspected), explicit, requested)
SelectFrom(manifest, explicit, requested) ==
  LET selection == SelectInspections({file \in manifest : Inspected(file)}, explicit, requested)
  IN [selection EXCEPT !.warnings = @ \cup {<<"SOURCE_INSPECTION_FAILED">> : file \in {f \in manifest : ~Inspected(f)}}]
Select(files, explicit, requested) == SelectFrom(BuildManifest(files), explicit, requested)

\* identity.py:90: no file is read under an object any evidence speaks against.
NoEvidenceAgainst(result) == \A file \in result.selected : \A object \in Told(file) : object = ObjectOf(file)
\* inspection.py:157: where files are found for an object, one is read, or a
\* warning says why not.
EveryObjectIsServed(files, explicit, result) ==
  ~explicit => \A object \in ObjectsOf(Eligible({f \in BuildManifest(files) : Inspected(f)})) :
    LET read == {f \in result.selected : ObjectOf(f) = object}
    IN \/ Cardinality(read) = 1
       \/ read = {} /\ \E w \in result.warnings : Len(w) = 2 /\ w[2] = object
\* inspection.py:96, 183: what is read is of the period that was asked for, or of
\* the latest one of its object, and no copy of another file of that period.
RightPeriodIsRead(files, explicit, requested, result) ==
  \A f \in result.selected, g \in Eligible({h \in BuildManifest(files) : Inspected(h)}) :
    ObjectOf(f) = ObjectOf(g) =>
      /\ ~explicit /\ f.period = g.period /\ f.copy => g.copy
      /\ requested = None /\ f.period # None /\ g.period # None => g.period <= f.period
      /\ requested # None => f.period \in {requested, None} /\ (g.period = requested => f.period = requested)
\* Not so: the periods of all objects are compared when the files are given.
GivenObjectsAreServed(files, result) ==
  \A o \in ObjectsOf(Eligible({f \in BuildManifest(files) : Inspected(f)})) :
    \/ \E file \in result.selected : ObjectOf(file) = o
    \/ \E w \in result.warnings : Len(w) = 2 /\ w[2] = o
\* Not so: a copy that is passed over leaves no record.
EveryFileIsRecorded(files, result) ==
  \A file \in BuildManifest(files) : Inspected(file) => \E record \in result.records : record[1] = file
\* Not so: one content under two names is read twice.
ContentIsReadOnce(result) == \A f, g \in result.selected : f.content = g.content => f = g
\* Not so: a mapping does not overrule what the name of the file tells.
MappingDecides(files, result) ==
  \A file \in BuildManifest(files) : Inspected(file) /\ Cardinality(file.mapped) = 1 => file.mapped = {ObjectOf(file)}
=============================================================================
