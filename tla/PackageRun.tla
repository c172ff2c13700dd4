------------------------------ MODULE PackageRun ------------------------------
(* An uploaded folder: the service stores it (package_reconciliation_service *)
(* .py), discovery.py finds its packages, and pipeline.py gives each row of  *)
(* their workbooks the documents of its own code.                            *)
(*                                                                           *)
(* A file is a record [folder, name, kind, size, codes]; the codes are those *)
(* of the comparable rows of a workbook, in their order.                     *)
EXTENDS Integers, FiniteSets, Sequences
LOCAL INSTANCE FiniteSetsExt

CONSTANTS None,
          Folded,      \* the names in one case and form
          MaxFiles,    \* MAX_PACKAGE_FILES
          MaxBytes     \* MAX_PACKAGE_UPLOAD_BYTES

-----------------------------------------------------------------------------
(* discovery.py.                                                             *)
Starts(folder) == {SubSeq(folder, 1, n) : n \in 0 .. Len(folder)}
Folders(files) == {<<>>} \cup UNION {Starts(f.folder) : f \in files}
Workbooks(files, folder) == {f \in files : f.folder = folder /\ f.kind = "workbook"}
Roots(files) == {folder \in Folders(files) : Workbooks(files, folder) # {}}
SubFolders(files, folder) == {g \in Folders(files) : Len(g) = Len(folder) + 1 /\ SubSeq(g, 1, Len(folder)) = folder}
\* Bug: the documents of a package inside are taken too.
EveryFolder(files, folder) == SubFolders(files, folder)
Descends(files, folder) == SubFolders(files, folder) \ Roots(files)
Documents(files, folder) ==
  LET below[g \in Folders(files)] ==
        {f \in files : f.folder = g /\ f.kind \in {"aosr", "other"}} \cup UNION {below[h] : h \in Descends(files, g)}
  IN  below[folder]
Package(files, root) == [root |-> root, workbooks |-> Workbooks(files, root), documents |-> Documents(files, root)]
Discover(files) == {Package(files, root) : root \in Roots(files)}

(* pipeline.py.                                                              *)
RowsOf(package) == UNION {{<<w, n>> : n \in DOMAIN w.codes} : w \in package.workbooks}
CodeOf(row) == row[1].codes[row[2]]
ParentName(document) == IF document.folder = <<>> THEN None ELSE document.folder[Len(document.folder)]
\* Bug: a document anywhere in the folder of the code counts.
InFolderOf(package, code) == {d \in package.documents : \E n \in DOMAIN d.folder : d.folder[n] = code}
ExactCandidates(package, code) == {d \in package.documents : code # None /\ ParentName(d) = code}
Result(package, row) == [package |-> package.root, row |-> row, candidates |-> ExactCandidates(package, CodeOf(row))]
Reconcile(packages) ==
  IF packages = {} \/ \E p \in packages : RowsOf(p) = {} THEN None
  ELSE UNION {{Result(p, row) : row \in RowsOf(p)} : p \in packages}

-----------------------------------------------------------------------------
(* package_reconciliation_service.py.                                        *)
Path(file) == Append(file.folder, file.name)
Key(file) == [n \in DOMAIN Path(file) |-> Folded[Path(file)[n]]]
\* Bug: names are compared as they are written.
AsNamed(upload) == \A m, n \in DOMAIN upload : m # n => Path(upload[m]) # Path(upload[n])
NoDuplicates(upload) == \A m, n \in DOMAIN upload : m # n => Key(upload[m]) # Key(upload[n])
IsValid(upload) ==
  /\ Len(upload) \in 1 .. MaxFiles
  /\ NoDuplicates(upload)
  /\ \A n \in DOMAIN upload : upload[n].size > 0
  /\ MapThenSumSet(LAMBDA n : upload[n].size, DOMAIN upload) <= MaxBytes
  /\ \E n \in DOMAIN upload : upload[n].kind = "workbook"
\* A file cannot be written where a folder is, nor under a file.
Under(file, other) == Len(Path(other)) < Len(Path(file)) /\ SubSeq(Path(file), 1, Len(Path(other))) = Path(other)
CanWrite(upload, n) == \A m \in 1 .. n - 1 : ~Under(upload[m], upload[n]) /\ ~Under(upload[n], upload[m])
\* What the job is left in: its directory with the files written so far.
Job(status, result) == [status |-> status, result |-> result]
Left(job, stored) == [job |-> job, stored |-> stored]
Stored(upload) == {upload[n] : n \in DOMAIN upload}
RunJob(upload, results, fault) ==
  IF results = None \/ fault = Len(upload) + 1 THEN Left(Job("failed", None), Stored(upload))
  ELSE Left(Job("ready", results), Stored(upload))
\* Bug: what was written before a failure stays.
KeepsWritten(upload, written) == Left(None, {upload[n] : n \in 1 .. written})
Undone(upload, written) == Left(None, {})
\* The fault is the number of a file that cannot be written, the result being
\* the one after the last; 0 is none.
Fails(upload, fault, n) == fault = n \/ ~CanWrite(upload, n)
CreateJob(upload, fault) ==
  IF ~IsValid(upload) THEN Left(None, {})
  ELSE IF \E n \in DOMAIN upload : Fails(upload, fault, n)
  THEN Undone(upload, Min({n \in DOMAIN upload : Fails(upload, fault, n)}) - 1)
  ELSE RunJob(upload, Reconcile(Discover(Stored(upload))), fault)

-----------------------------------------------------------------------------
\* discovery.py:63: a document belongs to the package of the nearest folder
\* above it that holds a workbook, and to no other.
DocumentsHaveOnePackage(upload) ==
  LET files == Stored(upload)
  IN  \A d \in {d \in files : d.kind \in {"aosr", "other"}} :
        LET above == {root \in Roots(files) : root \in Starts(d.folder)}
        IN  {p.root : p \in {p \in Discover(files) : d \in p.documents}} = {r \in above : \A q \in above : Len(q) <= Len(r)}
\* pipeline.py:63: every comparable row of the folder is answered once, and only
\* from documents in a folder of its own package with the name of its code.
RowsAreAnswered(upload, left) ==
  (left.job # None /\ left.job.status = "ready") =>
    /\ {r.row : r \in left.job.result} = UNION {{<<f, n>> : n \in DOMAIN f.codes} : f \in {f \in Stored(upload) : f.kind = "workbook"}}
    /\ \A r, s \in left.job.result : r.row = s.row => r = s
    /\ \A r \in left.job.result : \A d \in r.candidates :
         /\ ParentName(d) = CodeOf(r.row)
         /\ r.row[1].folder \in Starts(d.folder)
         /\ ~\E f \in Stored(upload) : f.kind = "workbook" /\ Len(f.folder) > Len(r.row[1].folder) /\ f.folder \in Starts(d.folder)
\* package_reconciliation_service.py:78: a folder that is refused or cannot be
\* stored as a whole leaves neither a job nor a file, one that is stored leaves
\* each of its files, at a place no other of them can take.
StoredAsAWhole(upload, left) ==
  /\ left.job = None => left.stored = {}
  /\ left.job # None => Cardinality({Key(f) : f \in left.stored}) = Len(upload) /\ \A f, g \in left.stored : ~Under(f, g)
\* Not so: one package without comparable rows fails the others.
PackagesAreIndependent(upload, left) ==
  (left.job # None /\ left.job.status = "failed") => Reconcile({p \in Discover(Stored(upload)) : RowsOf(p) # {}}) = None
\* Not so: a workbook in the folder of a code hides the documents beside it.
EvidenceIsSeen(upload, left) ==
  (left.job # None /\ left.job.status = "ready") => \A r \in left.job.result : \A d \in Stored(upload) :
    (d.kind = "aosr" /\ CodeOf(r.row) # None /\ ParentName(d) = CodeOf(r.row) /\ r.row[1].folder \in Starts(d.folder)) => d \in r.candidates
=============================================================================
