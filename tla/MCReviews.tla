------------------------------ MODULE MCReviews ------------------------------
(* The calls of the algorithms of the packages and of the reviews of reconciliation jobs. *)
EXTENDS MCCalls, SequencesExt

-----------------------------------------------------------------------------
(* Inputs of the package reconciliation.                                     *)
LOCAL Facts == INSTANCE PackageFacts WITH EmptyLimit <- 2

LOCAL Headed(words) == [words |-> words, text |-> "heading", number |-> None]
LOCAL Said(text, number) == [words |-> {}, text |-> text, number |-> number]
LOCAL CodeHead == Headed({"position"})
LOCAL NameHead == Headed({"name", "works"})
LOCAL UnitHead == Headed({"unit"})
LOCAL QuantityHead == Headed({"quantity"})
LOCAL CostHead == Headed({"cost"})
LOCAL PriceHead == Headed({"cost", "price"})
\* Tables of five columns.
LOCAL HeadRows ==
  {<<CodeHead, NameHead, QuantityHead, CostHead, None>>, <<None, NameHead, QuantityHead, CostHead, QuantityHead>>,
   <<CodeHead, NameHead, QuantityHead, PriceHead, CostHead>>, <<CodeHead, None, None, CostHead, None>>,
   <<None, NameHead, QuantityHead, Headed({"price"}), None>>, <<CodeHead, NameHead, QuantityHead, CostHead, UnitHead>>}
LOCAL DataRows ==
  {<<Said("1", None), Said("w", None), Said("q", 7), Said("c", 9), None>>, <<None, Said("w", None), Said("q", 8), None, None>>,
   <<Said("1", None), Said("w", None), None, Said("c", 9), Said("c", 10)>>, <<Said("note", None), None, None, None, None>>, <<None, None, None, None, None>>}
LOCAL SheetRows == HeadRows \cup DataRows
LOCAL FactSheets == {<<h>> \o rest : h \in HeadRows, rest \in SheetRows \X SheetRows \X DataRows}
ReadFacts == \E sheet \in FactSheets : Takes([sheet |-> sheet, result |-> Facts!SheetFacts(sheet)])
GapsChangeNothing == Ran("facts") => Facts!GapsChangeNothing(Argument.sheet, Argument.result)
RepeatedHeadingHidesNothing == Ran("facts") => Facts!RepeatedHeadingHidesNothing(Argument.sheet, Argument.result)
NothingAboveIsLost == Ran("facts") => Facts!NothingAboveIsLost(Argument.sheet, Argument.result)
CostIsNoPrice == Ran("facts") => Facts!CostIsNoPrice(Argument.sheet, Argument.result)

LOCAL RowFact(number, code, drawing) ==
  [number |-> number, code |-> code, name |-> {"w1", "w2", "w3"}, drawing |-> drawing, unit |-> "km", quantity |-> 2, cost |-> None]
LOCAL Drawing == <<"p1", "p2", "p3">>
LOCAL Act(codes, work, pairs) == [act |-> <<"n">>, codes |-> codes, work |-> work, pairs |-> pairs]
LOCAL Acts ==
  {Act({Drawing \o <<"p4">>}, {"w1"}, {<<2, "km">>}), Act({Drawing}, {"w1", "w2"}, {<<2000, "m">>}), Act({}, {"w1", "w2", "w4"}, {<<3, "km">>}),
   Act({<<"p1", "p2">>}, {"w2", "w3", "w4", "w5"}, {<<2, "km">>, <<2, "m">>})}
LOCAL Layer(status, text) == [status |-> status, text |-> text]
LOCAL Image(text, tokens) == [status |-> "read", text |-> text, tokens |-> tokens]
LOCAL Pages(images) == [status |-> "rendered", images |-> images]
LOCAL Anonymous(text) == [text EXCEPT !.act = None]
LOCAL Documents(path) ==
  {[path |-> path, kind |-> "aosr", layer |-> Layer("text", text), pages |-> Pages(<<Image(Anonymous(text), <<90>>), Image(Anonymous(text), <<50>>)>>)] : text \in Acts}
  \cup {[path |-> path, kind |-> "aosr", layer |-> Layer(status, text), pages |-> Pages(<<Image(text, tokens), Image(Facts!NoText, more)>>)] :
          status \in {"failed"}, text \in Acts, tokens \in {<<90>>}, more \in {<<90>>, <<40, -1>>}}
  \cup {[path |-> path, kind |-> "aosr", layer |-> Layer("text", Anonymous(text)), pages |-> Pages(<<Image(text, tokens)>>)] :
          text \in {t \in Acts : t.codes = {}}, tokens \in {<<>>, <<-1>>}}
  \cup {[path |-> path, kind |-> "aosr", layer |-> Layer("text", Anonymous(text)), pages |-> [status |-> "failed", images |-> <<>>]] :
          text \in {t \in Acts : t.codes = {}}}
  \cup {[path |-> path, kind |-> "other", layer |-> Layer("empty", Facts!NoText), pages |-> Pages(<<>>)]}
LOCAL DocumentSets == {{}} \cup {{d} : d \in Documents(1)} \cup {{d, e} : d \in Documents(1), e \in Documents(2)}
LOCAL Cases(documents, drawings, fact) ==
  [fact |-> fact, documents |-> documents, drawings |-> drawings, result |-> Facts!Reconciled(fact, documents, drawings)]
WeighEvidence ==
  \E documents \in DocumentSets, drawings \in {{}, {Drawing}, {<<"p1", "p2", "p9">>}},
     fact \in {RowFact(3, <<1>>, None), [RowFact(3, <<1>>, None) EXCEPT !.unit = None], [RowFact(3, None, None) EXCEPT !.unit = "pcs"]} :
    Takes(Cases(documents, drawings, fact))
OrderDecidesNothing == Ran("evidence") => Facts!OrderDecidesNothing(Argument.fact, Argument.documents, Argument.drawings, Argument.result)
OthersDoNotDecide == Ran("evidence") => Facts!OthersDoNotDecide(Argument.fact, Argument.documents, Argument.drawings, Argument.result)
HalfReadDecidesNothing == Ran("evidence") => Facts!HalfReadDecidesNothing(Argument.fact, Argument.documents, Argument.drawings)
UnitsDoNotDecide == Ran("evidence") => Facts!UnitsDoNotDecide(Argument.fact, Argument.documents, Argument.drawings, Argument.result)
MatchIsCompared == Ran("evidence") => Facts!MatchIsCompared(Argument.result)
FailureNeverDecides == Ran("evidence") => Facts!FailureNeverDecides(Argument.fact, Argument.documents, Argument.drawings, Argument.result)
LayerIsKept == Ran("evidence") => \A d \in Argument.documents : Facts!LayerIsKept(d)

LOCAL Codes == {None, <<1>>, <<1, 1>>, <<1, 1, 1>>, <<2>>}
LOCAL CodedRows == {<<RowFact(1, c, d), RowFact(3, e, f), RowFact(5, g, h)>> : c \in Codes, e \in Codes, g \in {None, <<1, 1, 1>>, <<1, 1>>}, d \in {None, "d1"}, f \in {None, "d2"}, h \in {None}}
InheritDrawing ==
  \E facts \in CodedRows, code \in Codes, number \in {2, 4, 6} : Takes([facts |-> facts, added |-> RowFact(number, code, "d4")])
DrawingIsTheParents == Ran("drawing") => Facts!DrawingIsTheParents(Argument.facts[3], Argument.facts, Argument.added)

LOCAL Lower == [name \in {"1", "2", "a", "A", "b"} |-> IF name = "A" THEN "a" ELSE name]
LOCAL Folder == INSTANCE PackageRun WITH MaxFiles <- 3, MaxBytes <- 6, Folded <- Lower
LOCAL Stored(folder, name, kind, size, codes) ==
  [folder |-> folder, name |-> name, kind |-> kind, size |-> size, codes |-> codes]
LOCAL Places == {<<>>, <<"1">>, <<"1", "2">>, <<"2", "1">>}
LOCAL Uploaded ==
  {Stored(folder, "a", "workbook", 1, codes) : folder \in Places, codes \in {<<>>, <<"1">>, <<"2", None>>}}
  \cup {Stored(folder, name, "aosr", 2, <<>>) : folder \in Places, name \in {"a", "A", "1", "b"}}
  \cup {Stored(<<"2", "1">>, "b", "other", 2, <<>>), Stored(<<"1">>, "b", "aosr", 5, <<>>), Stored(<<>>, "b", "aosr", 0, <<>>)}
UploadFolder ==
  \E first \in {f \in Uploaded : f.kind = "workbook"}, second \in Uploaded, third \in Uploaded :
    \E upload \in {<<first, second, third>>, <<third, first>>}, fault \in {0, 2, 3} :
      Takes([upload |-> upload, result |-> Folder!CreateJob(upload, fault)])
DocumentsHaveOnePackage == Ran("folder") => Folder!DocumentsHaveOnePackage(Argument.upload)
RowsAreAnswered == Ran("folder") => Folder!RowsAreAnswered(Argument.upload, Argument.result)
StoredAsAWhole == Ran("folder") => Folder!StoredAsAWhole(Argument.upload, Argument.result)
PackagesAreIndependent == Ran("folder") => Folder!PackagesAreIndependent(Argument.upload, Argument.result)
EvidenceIsSeen == Ran("folder") => Folder!EvidenceIsSeen(Argument.upload, Argument.result)

-----------------------------------------------------------------------------
(* Inputs of the reviews and manifests of reconciliation jobs.               *)
LOCAL Recording == INSTANCE ReviewRecording
LOCAL Found(id, code, severity, row, calculation) ==
  [id |-> id, code |-> code, severity |-> severity, row |-> row, match |-> None, target |-> "t1", calculation |-> calculation]
LOCAL Ambiguous(id, calculation) == Found(id, "AMBIGUOUS", "manual_review", "r1", calculation)
LOCAL IssueSets ==
  {{}, {Ambiguous("i1", "c1"), Ambiguous("i2", "c2")},
   {Ambiguous("i1", "c1"), Found("i3", "TOTAL_DISCREPANCY", "error", None, None), Found("i4", "TOTAL_DISCREPANCY", "error", None, None),
    Found("i5", "UNMATCHED", "manual_review", "r2", None)}}
LOCAL Suggested(target, source) == [target |-> target, source |-> source]
LOCAL SuggestionSets ==
  {{}, {Suggested("m1", "r1"), Suggested("m1", "r2")}, {Suggested("m1", "r1"), Suggested("m1", "r2"), Suggested("m2", "r1")}}
LOCAL Artifacts(issues, suggestions) ==
  [issues |-> issues, suggestions |-> suggestions, rag |-> issues # {}, warnings |-> {"UNCHANGED_VALUE"},
   rows |-> {[id |-> "r1", name |-> "x"]}, matches |-> {[id |-> "m1", target |-> "t1", name |-> "z"]},
   calculations |-> {[id |-> "c1", match |-> "m1", name |-> "x", cost |-> 5], [id |-> "c2", match |-> "m2", name |-> "x", cost |-> 5]}]
LOCAL RunResults ==
  {[kind |-> "processed", exit |-> x[1], written |-> x[2], artifacts |-> Artifacts(issues, suggestions)] :
     x \in {<<0, TRUE>>, <<1, FALSE>>, <<3, FALSE>>, <<3, TRUE>>, <<2, TRUE>>}, issues \in IssueSets, suggestions \in SuggestionSets}
LOCAL OtherResults ==
  {[kind |-> "verified", status |-> "passed", output |-> None, exists |-> FALSE], [kind |-> "review", state |-> None], [kind |-> "review", state |-> "state"]}
  \cup {[kind |-> "verified", status |-> "failed", output |-> "verification.xlsx", exists |-> e] : e \in BOOLEAN}
  \cup {[kind |-> "path", exists |-> e] : e \in BOOLEAN}
LOCAL One(target, source, decision) == [kind |-> "suggestion", item |-> <<"suggestion", target, source>>, decision |-> decision]
LOCAL AllOf(target, item) == [kind |-> "group", target |-> target, item |-> item]
LOCAL Listed(code, title, items, decision) ==
  [kind |-> "manual", key |-> <<code, title>>, items |-> items, decision |-> decision]
LOCAL Requests ==
  {One("m1", "r1", "fit"), One("m1", "r2", "fit"), One("m1", "r2", "not_fit"), AllOf("m1", <<"suggestion", "m1", "r1">>), AllOf("m1", None), AllOf("m2", None),
   Listed("AMBIGUOUS", "x", None, "approve"), Listed("AMBIGUOUS", "x", {<<"discrepancy", "i1">>}, "reject"), Listed("UNMATCHED", "z", None, "reject"),
   Listed("RAG_MODEL_UNAVAILABLE", None, {<<"discrepancy", "RAG_MODEL_UNAVAILABLE">>}, "approve")}
LOCAL Fault(at, kind) == [at |-> at, kind |-> kind]
LOCAL Reviewing(operation, result, requests, fault) ==
  [result |-> result, jobs |-> Recording!Reviewed(Recording!ApplyExecutionResult(Recording!Running(operation), result), requests, fault), fault |-> fault]
RecordReview ==
  \/ \E result \in RunResults, first \in Requests, second \in Requests, third \in {AllOf("m1", None), Listed("UNMATCHED", "z", None, "reject")},
        fault \in {Fault(0, "none"), Fault(2, "journal")} :
       Takes(Reviewing("reconcile", result, <<first, second, third>>, fault))
  \/ \E result \in OtherResults :
       Takes(Reviewing(IF result.kind = "verified" THEN "verify" ELSE "reconcile", result, <<>>, Fault(0, "none")))
LOCAL Job(i) == Argument.jobs[i]
LOCAL Times == DOMAIN Argument.jobs
DecidedOnce == Ran("record") => \A i \in Times : Recording!DecidedOnce(Job(i))
DecidedAsShown == Ran("record") => \A i \in Times \ {1} : Recording!DecidedAsShown(Job(i - 1), Job(i))
OpenIsShown == Ran("record") => \A i \in Times : Recording!OpenIsShown(Job(i))
ServedWhenDecided == (Ran("record") /\ Argument.fault.at = 0) => \A i \in Times : Recording!ServedWhenDecided(Job(i))
NothingOpenIsServed == Ran("record") => \A i \in Times : Recording!NothingOpenIsServed(Job(i))
JournalIsComplete == Ran("record") => \A i \in Times : Recording!JournalIsComplete(Job(i))
NothingIsHidden == Ran("record") => \A i \in Times : Recording!NothingIsHidden(Job(i))
OneFitPerTarget == Ran("record") => \A i \in Times : Recording!OneFitPerTarget(Job(i))
BlockedStaysBlocked == (Ran("record") /\ Argument.result.kind = "processed") => \A i \in Times : Recording!BlockedStaysBlocked(Argument.result.exit, Job(i))
FailureIsRetried == (Ran("record") /\ Argument.result.kind = "processed") => Job(1).status = "failed" \/ \A i \in Times : Recording!FailureIsRetried(Job(i))
GroupCostAddsUp == (Ran("record") /\ Argument.result.kind = "processed") => Recording!GroupCostAddsUp(Job(1), Argument.result.artifacts)

LOCAL Manifests == INSTANCE JobManifest
LOCAL FileAt(path, digest) == [path |-> path, digest |-> digest, name |-> path]
LOCAL Output(path, digest) == [path |-> path, digest |-> digest, inode |-> 7, name |-> "optimized-report.xlsx"]
LOCAL Decision(action, group, row, mode, category) ==
  [action |-> action, group |-> group, row |-> row, mode |-> mode, category |-> category, version |-> None]
LOCAL Taken == {Decision("accept", "g1", None, "cost", "c1"), Decision("reject", None, "r1", None, None), Decision("accept", None, "r2", "both", "c2")}
LOCAL Refused == {Decision("reject", "g1", None, None, None)}
LOCAL WorldOf(rules, categories, decisions, readable) == [rules |-> rules, categories |-> categories, decisions |-> decisions, readable |-> readable]
LOCAL Planned(decisions) == WorldOf("rules", {"c1", "c2"}, decisions, TRUE)

LOCAL BareJob(status, operation, period) ==
  [status |-> status, operation |-> operation, mode |-> "write", stage |-> "stage", sources |-> <<FileAt("source-01.xlsx", "d1"), FileAt("source-02.xlsx", "d2")>>,
   target |-> FileAt("target.xlsx", "d0"), period |-> period, identity |-> None, reviewed |-> operation = "reconcile",
   output |-> None, plan |-> None, verdict |-> Manifests!NoVerdict]
LOCAL Bound(job) ==
  [job EXCEPT !.identity = IF job.status \in {"pending", "running"} THEN Manifests!CreatedIdentity(job) ELSE Manifests!PreparedIdentity(job)]
LOCAL Written(job, decisions) ==
  [job EXCEPT !.output = Output("result.xlsx", IF Manifests!Actionable(decisions) THEN "d9" ELSE "d0")]
LOCAL Planning(job, decisions) == [job EXCEPT !.plan = Manifests!Plan(job, Planned(decisions), decisions, Manifests!Evidence(job, Planned(decisions), decisions))]
LOCAL Injected(job, decisions) == [job EXCEPT !.plan = Manifests!Plan(job, Planned(decisions), decisions, Manifests!InjectedEvidence(job, Planned(decisions), decisions))]
LOCAL Verdict(status, failed) == [status |-> status, message |-> "done", checked |-> 3, failed |-> failed]
LOCAL JobsUnderWay(decisions) ==
  {Bound(BareJob(status, "reconcile", period)) : status \in {"pending", "running", "review_required", "applying"}, period \in {None, "p"}}
  \cup {Written(Bound(BareJob("ready", "reconcile", period)), decisions) : period \in {None, "p"}}
  \cup {Planning(Written(Bound(BareJob("applying", "reconcile", period)), decisions), decisions) : period \in {None, "p"}}
  \cup {Bound(BareJob(status, "verify", None)) : status \in {"pending", "running"}}
  \cup {[Bound(BareJob("ready", "verify", None)) EXCEPT !.verdict = Verdict("passed", 0)],
        [Bound(BareJob("ready", "verify", None)) EXCEPT !.verdict = Verdict("failed", 2), !.output = Output("verification.zip", "d8")]}
LOCAL OtherJobs(decisions) ==
  {Injected(Written(Bound(BareJob("applying", "reconcile", None)), decisions), decisions)}
  \cup {[Written(Bound(BareJob(status, "reconcile", None)), decisions) EXCEPT !.reviewed = FALSE] : status \in {"blocked", "review_recorded", "review_required"}}

LOCAL OnDisk(digest) == [digest |-> digest, inode |-> 7, private |-> TRUE]
LOCAL DigestOf(job, path) ==
  CHOOSE digest \in {"d0", "d1", "d2", "d8", "d9"} :
    \/ path = job.target.path /\ digest = job.target.digest
    \/ \E i \in DOMAIN job.sources : path = job.sources[i].path /\ digest = job.sources[i].digest
    \/ job.output # None /\ path = job.output.path /\ digest = job.output.digest
LOCAL Snapshots(job) == {Manifests!SnapshotNames(job)[i] : i \in DOMAIN Manifests!SnapshotNames(job)}
LOCAL IntactFiles(job) ==
  [named |-> [path \in Manifests!FilesOf(job) |-> OnDisk(DigestOf(job, path))], snapshots |-> [name \in Snapshots(job) |-> Manifests!SnapshotDigest(job, name)]]
LOCAL ChangedFile(job, path, change) ==
  [IntactFiles(job) EXCEPT !.named = [p \in Manifests!FilesOf(job) \ (IF change = "lost" THEN {path} ELSE {}) |->
     IF p # path THEN @[p] ELSE IF change = "replaced" THEN [@[p] EXCEPT !.digest = "d7"] ELSE [@[p] EXCEPT !.inode = 8]]]
LOCAL ChangedSnapshot(job, name, change) ==
  [IntactFiles(job) EXCEPT !.snapshots = [n \in Snapshots(job) \ (IF change = "lost" THEN {name} ELSE {}) |-> IF n = name THEN "d7" ELSE @[n]]]
LOCAL FilesAfter(job) ==
  {IntactFiles(job)} \cup {ChangedFile(job, path, change) : path \in Manifests!FilesOf(job), change \in {"lost", "replaced", "moved"}}
  \cup (IF job.plan = None THEN {} ELSE {ChangedSnapshot(job, name, change) : name \in Snapshots(job), change \in {"lost", "torn"}})
LOCAL WorldsAfter(decisions) ==
  {WorldOf(rules, categories, now, readable) : rules \in {"rules", "other"}, categories \in {{"c1", "c2"}, {"c1"}}, now \in {decisions, Refused}, readable \in BOOLEAN}
LOCAL Restarts(job, files, world, planned, after) ==
  [job |-> job, files |-> files, world |-> world, planned |-> planned, after |-> after, again |-> Manifests!RecoverManifest(after.manifest, files, world),
   intact |-> Manifests!RecoverManifest(Manifests!ManifestFor(job), IntactFiles(job), planned)]
LOCAL Restarting(job, files, world, planned) ==
  Restarts(job, files, world, planned, Manifests!RecoverManifest(Manifests!ManifestFor(job), files, world))
RestartService ==
  \E decisions \in {Taken, Refused, {}} :
    \/ \E job \in JobsUnderWay(decisions), world \in WorldsAfter(decisions) : \E files \in FilesAfter(job) :
         Takes(Restarting(job, files, world, Planned(decisions)))
    \/ \E job \in OtherJobs(decisions) : Takes(Restarting(job, IntactFiles(job), Planned(decisions), Planned(decisions)))
LOCAL NothingChanged == Argument.files = IntactFiles(Argument.job) /\ Argument.world = Argument.planned
LOCAL IsUsual == Argument.job.operation = "verify" \/ (Argument.job.reviewed /\ (Argument.job.plan # None => "legacy_injected" \notin DOMAIN Argument.job.plan.evidence))
RestoredAsSaved == (Ran("restart") /\ NothingChanged /\ IsUsual) => Manifests!RestoredAsSaved(Argument.job, Argument.after)
ChangedIsRefused == Ran("restart") => Manifests!ChangedIsRefused(IntactFiles(Argument.job), Argument.files, Argument.after, Argument.intact)
ReplayIsThePlan == Ran("restart") => Manifests!ReplayIsThePlan(Argument.job, Argument.after, Argument.world, Argument.planned)
RestartsAgree == Ran("restart") => Manifests!RestartsAgree(Argument.after, Argument.again)
LostIsForgotten == Ran("restart") => Manifests!LostIsForgotten(Argument.after)
InjectedIsRecovered == (Ran("restart") /\ NothingChanged) => Manifests!InjectedIsRecovered(Argument.job, Argument.after)
EndedIsFound == (Ran("restart") /\ NothingChanged) => Manifests!EndedIsFound(Argument.job, Argument.after)

LOCAL SomeDecisions ==
  {Decision("accept", x[1], x[2], mode, category) : x \in {<<"g1", None>>, <<None, "r1">>}, mode \in {"cost", "both"}, category \in {"c1", "c2", "c3"}}
  \cup {Decision("reject", x[1], x[2], None, None) : x \in {<<"g2", None>>, <<None, "r2">>}}
LOCAL Identities == {<<"d0", "stage", None>>, <<"d0", "stage", "p">>}
ReplayDecisions ==
  \E decisions \in {{}} \cup {{x, y} : x \in SomeDecisions, y \in SomeDecisions}, categories \in SUBSET {"c1", "c2", "c3"}, saved \in Identities, identity \in Identities :
    Takes([decisions |-> decisions, saved |-> saved, categories |-> categories, identity |-> identity])
DecisionsComeBack == Ran("replay") => Manifests!DecisionsComeBack(Argument.decisions, Argument.saved, Argument.categories, Argument.identity)

-----------------------------------------------------------------------------
(* Inputs of the writing and the verification of reviewed documents.         *)
LOCAL ReviewReviewing == INSTANCE ReviewApplication

LOCAL Phrase(form, id) == [form |-> form, id |-> id]
LOCAL Prose == Phrase("prose", 0)
LOCAL NameOf(stem, primary, inside) == [stem |-> stem, primary |-> primary, inside |-> inside]
LOCAL Full == NameOf(Phrase("dotted", 123), {}, {})
LOCAL Both == NameOf(Prose, {4567}, {Phrase("part", 123)})
LOCAL Other == NameOf(Prose, {4567, 2024}, {})
LOCAL Unnamed == NameOf(Phrase("bare", 2024), {}, {})

LOCAL UnitOf(text) == [text |-> text, family |-> "length"]
LOCAL Line(number, name, unit, quantity, cost, matched) ==
  [sheet |-> "sheet", number |-> number, name |-> <<name>>, unit |-> unit, quantity |-> quantity, cost |-> cost, matched |-> matched]
LOCAL Document(name, digest, rows) == [name |-> name, digest |-> digest, rows |-> rows]
LOCAL FirstRows ==
  {{Line(1, a, UnitOf("m"), 1, 3, {1}), Line(2, x[1], UnitOf(x[2]), x[3], 1, {1, 3})} : x \in {<<a, "m", 1>>, <<b, "m", None>>, <<b, "km", 2>>}}
  \cup {{Line(1, a, UnitOf("m"), 0, 0, {1}), Line(2, a, UnitOf("m"), None, 2, {1, 2})}}
LOCAL SecondRows == {{}, {Line(1, a, UnitOf("m"), 1, 1, {1})}, {Line(1, a, UnitOf("m"), 3, 1, {2}), Line(2, b, UnitOf("m"), 0, 0, {2})}}

LOCAL Cell(row, index, category, unit, cells) ==
  [row |-> row, index |-> index, category |-> category, unit |-> unit, cells |-> cells]
LOCAL Values(quantity, cost) == [quantity |-> quantity, cost |-> cost]
LOCAL Report(unit, cells, more) ==
  {Cell(1, Phrase("dotted", 123), "c", unit, cells), Cell(2, Phrase("bare", 4567), "c", UnitOf("m"), cells), Cell(3, Phrase("dotted", 123), "d", None, cells)} \cup more
LOCAL Nothing == Values(None, None)
LOCAL ReportSets ==
  {Report(UnitOf("m"), Nothing, {}), Report(UnitOf("m"), Nothing, {Cell(4, Prose, "e", None, Nothing)}),
   Report(UnitOf("m"), Nothing, {Cell(4, Phrase("bare", 4567), "c", None, Nothing)}), {Cell(1, Prose, "c", UnitOf("m"), Nothing)}}
\* The report with the period inserted, read again: as it was shown, or not.
LOCAL PreparedReports(targets) ==
  {None, targets, {t \in targets : t.row # 3}, {[t EXCEPT !.unit = UnitOf("km")] : t \in targets}}

LOCAL WorkOf(name) == [action |-> "installation", object |-> name, typed |-> {}, critical |-> {}, negative |-> {}]
LOCAL JobOf(name1, rows1, name2, rows2) ==
  [documents |-> {Document(name1, "d1", rows1), Document(name2, "d2", rows2)}, lexicon |-> [n \in {<<a>>, <<b>>} |-> WorkOf(n[1])]]
LOCAL Names == {<<Full, Other>>, <<Both, Other>>, <<Full, Both>>, <<Full, Unnamed>>, <<Unnamed, Other>>}

LOCAL Deciding(of, ids, action, mode, category) == [of |-> of, ids |-> ids, action |-> action, mode |-> mode, category |-> category]
LOCAL Verdicts(of, ids) ==
  {Deciding(of, ids, "accept", mode, category) : mode \in {"quantity_cost", "cost_only"}, category \in {"c", "d"}}
  \cup {Deciding(of, ids, "reject", None, None)}
LOCAL GroupChoices(review) == UNION {Verdicts("group", ReviewReviewing!IdsOf(g)) : g \in review.groups}
LOCAL RowChoices(review) == UNION {Verdicts("row", {r.id}) : r \in {r \in review.rows : r.id[3] = 1}}
LOCAL DecisionSets(review) ==
  IF review.status # "review" THEN {{}}
  ELSE {{}} \cup {{d} : d \in GroupChoices(review)} \cup {{d, e} : d \in GroupChoices(review), e \in RowChoices(review)}
LOCAL Applies(job, targets, prepared, review, decisions) ==
  [job |-> job, targets |-> targets, review |-> review, decisions |-> decisions,
   result |-> IF review.status # "review" THEN None ELSE ReviewReviewing!ApplyReview(job, review, decisions, targets, prepared)]
LOCAL Applying(job, targets, review) ==
  \E decisions \in DecisionSets(review) : \E prepared \in PreparedReports(targets) :
    (review.status # "review" => prepared = None) /\ Takes(Applies(job, targets, prepared, review, decisions))
ApplyDecisions ==
  \E names \in Names, rows1 \in FirstRows, rows2 \in SecondRows, targets \in ReportSets :
    Applying(JobOf(names[1], rows1, names[2], rows2), targets, ReviewReviewing!PrepareReview(JobOf(names[1], rows1, names[2], rows2), targets))
LOCAL WasApplied == Ran("apply") /\ Argument.review.status = "review"
OneDocumentEach == Ran("apply") => ReviewReviewing!OneDocumentEach(Argument.job, Argument.targets)
ProposalsStand == WasApplied => ReviewReviewing!ProposalsStand(Argument.review, Argument.targets)
DecidedCanBeApplied ==
  (WasApplied /\ Argument.result.status # "RECONCILIATION_PERIOD_APPLY_DRIFT") => ReviewReviewing!DecidedCanBeApplied(Argument.decisions, Argument.review, Argument.targets, Argument.result)
DecisionsAreWritten == WasApplied => ReviewReviewing!DecisionsAreWritten(Argument.decisions, Argument.review, Argument.targets, Argument.result)
PeriodIsAsShown ==
  WasApplied => ReviewReviewing!PeriodIsAsShown(Argument.job, Argument.review, Argument.decisions, Argument.targets, Argument.result)
AcceptedQuantityCounts ==
  WasApplied => ReviewReviewing!AcceptedQuantityCounts(Argument.decisions, Argument.review, Argument.targets, Argument.result)

LOCAL Shows == {Values(x[1], x[2]) : x \in {<<2, 4>>, <<1, 3>>, <<None, 2>>, <<None, None>>}}
LOCAL Verifying(job, targets, review, decisions) ==
  [job |-> job, targets |-> targets, review |-> review, decisions |-> decisions, result |-> ReviewReviewing!VerifyReview(job, review, targets, decisions)]
LOCAL Verifies(job, targets, review) ==
  \E decisions \in DecisionSets(review) : Takes(Verifying(job, targets, review, decisions))
VerifyDocuments ==
  \E names \in Names, rows1 \in FirstRows, rows2 \in SecondRows, cells \in Shows, more \in {{}, {Cell(4, Prose, "e", None, Nothing)}} :
    Verifies(JobOf(names[1], rows1, names[2], rows2), Report(UnitOf("m"), cells, more),
             ReviewReviewing!PrepareReview(JobOf(names[1], rows1, names[2], rows2), Report(UnitOf("m"), cells, more)))
LOCAL WasVerified == Ran("verify documents") /\ Argument.review.status = "review"
OnlyAcceptedPass == WasVerified => ReviewReviewing!OnlyAcceptedPass(Argument.review, Argument.decisions, Argument.result)
DecisionsGoFirst == WasVerified => ReviewReviewing!DecisionsGoFirst(Argument.review, Argument.decisions)
FailedRowsAreMarked == WasVerified => ReviewReviewing!FailedRowsAreMarked(Argument.job, Argument.review, Argument.result)
VerificationReplays ==
  WasVerified => ReviewReviewing!VerificationReplays(Argument.job, Argument.review, Argument.targets, Argument.decisions, Argument.result)
=============================================================================
