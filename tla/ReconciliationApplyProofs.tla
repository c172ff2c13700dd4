---------------------- MODULE ReconciliationApplyProofs ----------------------
(***************************************************************************)
(* Theorems about ReconciliationApply, for every set of jobs and choices   *)
(* and every bound.                                                        *)
(***************************************************************************)
EXTENDS ReconciliationApply, TLAPS

\* The choices a job has entered into the feedback.
Entries(k) == {c \in Choice : \E i \in DOMAIN feedback : feedback[i] = [job |-> k, choice |-> c]}

\* What a job's manifest looks like, and what stands in the feedback beside it.
Shaped(k) ==
  /\ \/ manifest[k] = NoManifest
     \/ \E s \in {"pending", "review_required", "applying", "failed"} : manifest[k] = Plain(s)
     \/ \E c \in Choice : manifest[k] \in {Planned(c), Published(c)}
  /\ \A c \in Entries(k) : manifest[k] \in {Planned(c), Published(c)}
  /\ manifest[k].status = "ready" => \E c \in Entries(k) : manifest[k] = Published(c)

\* What a job's record in memory and its operation know of its manifest.
Coupled(k) ==
  /\ mem[k].status = "ready" => Entries(k) # {}
  /\ mem[k].status = "review_required" =>
       pc[k] = "idle" /\ manifest[k] = Plain("review_required")
  /\ mem[k].status \in Terminal => pc[k] = "idle"
  /\ pc[k] = "prepare" => mem[k].status = "pending" /\ manifest[k] = Plain("pending")
  /\ pc[k] = "write" =>
       mem[k].status = "applying" /\ mem[k].choice \in Choice /\ manifest[k] = Plain("applying")
  /\ pc[k] = "plan" =>
       mem[k].status = "applying" /\ mem[k].plan \in Choice /\ manifest[k] = Plain("applying")
  /\ pc[k] \in {"commit", "publish"} =>
       /\ mem[k].status = "applying" /\ mem[k].plan \in Choice
       /\ manifest[k] = Planned(mem[k].plan)
  /\ pc[k] = "settle" => mem[k].status = "absent" /\ manifest[k].status = "applying"
  /\ pc[k] \in {"publish", "settle"} => Entries(k) # {}

\* The table of applies and the feedback name the same choices.
Ledger ==
  /\ \A a \in applies : a.digest = a.choice /\ a.choice \in Entries(a.job)
  /\ \A k \in Job : \A c \in Entries(k) : Known(k, c)

ApplyInv == Ledger /\ \A k \in Job : Shaped(k) /\ Coupled(k)

-----------------------------------------------------------------------------
\* The records the actions build are typed.
LEMMA RecordsTyped ==
  /\ Absent \in Record /\ NoManifest \in Manifest
  /\ \A s \in Status : Plain(s) \in Manifest
  /\ \A c \in Choice : Planned(c) \in Manifest /\ Published(c) \in Manifest
  BY DEF Absent, NoManifest, Plain, Planned, Published, Record, Manifest, Status, MaybeChoice

\* A fault is paid for within its bound.
LEMMA FaultTyped ==
  ASSUME TypeOK, Fault \/ NoFault
  PROVE  spent' \in [crashes : 0..MaxCrashes, faults : 0..MaxFaults, tampers : 0..MaxTampers]
  BY ConstantsOK DEF TypeOK, Fault, NoFault

\* The review a job is rebuilt with.
LEMMA RebuiltTyped ==
  ASSUME TypeOK, NEW j \in Job
  PROVE  Rebuilt(j) \in MaybeChoice
<1>1. CASE feedback = <<>>
  BY <1>1 DEF Latest, Rebuilt, TypeOK, MaybeChoice
<1>2. CASE feedback # <<>>
  <2>1. feedback \in Seq(Entry) /\ Len(feedback) \in DOMAIN feedback
    BY <1>2 DEF TypeOK
  <2>2. feedback[Len(feedback)] \in Entry
    BY <2>1
  <2> QED BY <1>2, <2>2 DEF Latest, Rebuilt, TypeOK, Entry, MaybeChoice
<1> QED BY <1>1, <1>2

\* The transaction appends an entry, or has nothing to add.
LEMMA CommitEffect ==
  ASSUME TypeOK, Ledger, NEW j \in Job, NEW c \in Choice, CommitApply(j, c, c)
  PROVE  /\ feedback' \in Seq(Entry) /\ applies' \subseteq Apply /\ Ledger'
         /\ Entries(j)' = Entries(j) \cup {c}
         /\ \A k \in Job \ {j} : Entries(k)' = Entries(k)
         /\ \/ UNCHANGED feedback
            \/ c \notin Entries(j) /\ feedback' = Append(feedback, [job |-> j, choice |-> c])
<1> DEFINE e == [job |-> j, choice |-> c]
           a == [job |-> j, choice |-> c, digest |-> c]
<1>1. e \in Entry /\ a \in Apply
  BY DEF Entry, Apply
<1>2. applies' = applies \cup {a} /\ applies' \subseteq Apply
  BY <1>1 DEF CommitApply, TypeOK
<1>3. CASE Known(j, c)
  <2>1. feedback' = feedback /\ c \in Entries(j)
    BY <1>3 DEF CommitApply, Ledger, Known
  <2>2. \A k \in Job : Entries(k)' = Entries(k)
    BY <2>1 DEF Entries
  <2>3. Ledger'
    BY <1>2, <2>1, <2>2 DEF Ledger, Known, TypeOK, Apply
  <2> QED BY <1>2, <2>1, <2>2, <2>3 DEF TypeOK
<1>4. CASE ~Known(j, c)
  <2>1. feedback' = Append(feedback, e)
    BY <1>4 DEF CommitApply
  <2>2. feedback' \in Seq(Entry)
    BY <1>1, <2>1 DEF TypeOK
  <2>3. /\ DOMAIN feedback' = DOMAIN feedback \cup {Len(feedback) + 1}
        /\ \A i \in DOMAIN feedback : feedback'[i] = feedback[i]
        /\ feedback'[Len(feedback) + 1] = e
    BY <1>1, <2>1 DEF TypeOK
  <2>4. Entries(j)' = Entries(j) \cup {c}
    BY <2>3 DEF Entries
  <2>5. \A k \in Job \ {j} : Entries(k)' = Entries(k)
    BY <2>3 DEF Entries
  <2>6. Ledger'
    <3>1. \A b \in applies' : b.digest = b.choice /\ b.choice \in Entries(b.job)'
      <4>1. \A b \in applies : b.job \in Job /\ b.digest = b.choice /\ b.choice \in Entries(b.job)'
        BY <2>4, <2>5 DEF Ledger, TypeOK, Apply
      <4> QED BY <1>2, <2>4, <4>1
    <3>2. ASSUME NEW k \in Job, NEW d \in Entries(k)' PROVE Known(k, d)'
      <4>1. CASE d \in Entries(k)
        BY <1>2, <4>1 DEF Ledger, Known
      <4>2. CASE d \notin Entries(k)
        <5>1. k = j /\ d = c
          BY <2>4, <2>5, <4>2
        <5>2. a \in applies' /\ a.job = k /\ a.choice = d
          BY <1>2, <5>1
        <5> QED BY <5>2 DEF Known
      <4> QED BY <4>1, <4>2
    <3> QED BY <3>1, <3>2 DEF Ledger
  <2>7. c \notin Entries(j)
    BY <1>4 DEF Ledger
  <2> QED BY <1>2, <2>1, <2>2, <2>4, <2>5, <2>6, <2>7
<1> QED BY <1>3, <1>4
-----------------------------------------------------------------------------
\* A record stays, or it was finished and is forgotten.
Spared(k) == mem'[k] = mem[k] \/ (mem[k].status \in Terminal /\ mem'[k] = Absent)

\* What a step that touches only the job j must show.
Frame(j) ==
  \A k \in Job \ {j} :
    /\ pc'[k] = pc[k] /\ manifest'[k] = manifest[k] /\ Entries(k)' = Entries(k)
    /\ Spared(k)

\* It is enough to look at the job that takes the step.
LEMMA FrameKeeps ==
  ASSUME NEW j \in Job, Frame(j), \A k \in Job : Shaped(k) /\ Coupled(k),
         Shaped(j)', Coupled(j)'
  PROVE  \A k \in Job : Shaped(k)' /\ Coupled(k)'
<1> SUFFICES ASSUME NEW k \in Job \ {j} PROVE Shaped(k)' /\ Coupled(k)'
  OBVIOUS
<1>1. Shaped(k)'
  BY DEF Frame, Shaped
<1>2. CASE mem'[k] = mem[k]
  BY <1>1, <1>2 DEF Frame, Coupled, Plain, Planned, Terminal
<1>3. CASE mem[k].status \in Terminal /\ mem'[k] = Absent
  <2>1. pc'[k] = "idle"
    BY <1>3 DEF Frame, Coupled
  <2> QED BY <1>1, <1>3, <2>1 DEF Coupled, Absent, Plain, Planned, Terminal
<1> QED BY <1>1, <1>2, <1>3 DEF Frame, Spared

\* While the feedback stands, so do the ledger and everybody's entries.
LEMMA SameFeedback ==
  ASSUME UNCHANGED db
  PROVE  /\ \A k : Entries(k)' = Entries(k)
         /\ Ledger => Ledger'
  BY DEF db, Entries, Ledger, Known

\* A job whose manifest has neither a plan nor a result has entered nothing.
LEMMA NotEntered ==
  ASSUME NEW j \in Job, Shaped(j),
         \/ manifest[j] = NoManifest
         \/ \E s \in {"pending", "review_required", "applying", "failed"} : manifest[j] = Plain(s)
  PROVE  Entries(j) = {} /\ manifest[j].status # "ready"
  BY ConstantsOK DEF Shaped, Entries, NoManifest, Plain, Planned, Published

\* A job with a durable plan has entered that plan or nothing.
LEMMA EnteredPlan ==
  ASSUME NEW j \in Job, NEW c \in Choice, Shaped(j), manifest[j] = Planned(c)
  PROVE  Entries(j) \subseteq {c} /\ manifest[j].status = "applying"
<1>1. \A d \in Entries(j) : Planned(c) \in {Planned(d), Published(d)}
  BY DEF Shaped
<1>2. \A d : Planned(c) = Planned(d) => c = d
  BY DEF Planned
<1>3. \A d : Planned(c) # Published(d)
  BY DEF Planned, Published
<1>4. Planned(c).status = "applying"
  BY DEF Planned
<1> QED BY <1>1, <1>2, <1>3, <1>4
-----------------------------------------------------------------------------
Sound == TypeOK /\ ApplyInv

\* A step of the job j keeps all of it.
Kept(j) == TypeOK' /\ Ledger' /\ Frame(j) /\ Shaped(j)' /\ Coupled(j)'

\* The parts of the invariant that concern one job.
LEMMA SoundOf ==
  ASSUME Sound, NEW j \in Job
  PROVE  TypeOK /\ Ledger /\ Shaped(j) /\ Coupled(j)
  BY DEF Sound, ApplyInv

\* What TypeOK says of the variables that belong to no operation.
WorldTyped ==
  /\ up \in {"down", "starting", "serving"}
  /\ todo \subseteq Job
  /\ autosave \in [Job -> MaybeChoice \cup {NoFile}]
  /\ output \in [Job -> Choice \cup {NoFile, Changed}]
  /\ tampered \subseteq Job
  /\ spent \in [crashes : 0..MaxCrashes, faults : 0..MaxFaults, tampers : 0..MaxTampers]

\* A step that leaves the database alone and of other jobs forgets at most
\* finished ones.
LEMMA LocalStep ==
  ASSUME Sound, NEW j \in Job, UNCHANGED db,
         NEW m \in Manifest, manifest' = [manifest EXCEPT ![j] = m],
         NEW l \in Control, pc' = [pc EXCEPT ![j] = l],
         mem' \in [Job -> Record],
         \A k \in Job \ {j} : Spared(k)
  PROVE  /\ Ledger' /\ Frame(j) /\ Entries(j)' = Entries(j)
         /\ manifest'[j] = m /\ pc'[j] = l
         /\ manifest' \in [Job -> Manifest] /\ pc' \in [Job -> Control]
         /\ feedback' \in Seq(Entry) /\ applies' \subseteq Apply
<1>1. Ledger' /\ \A k : Entries(k)' = Entries(k)
  BY SoundOf, SameFeedback
<1>2. manifest'[j] = m /\ pc'[j] = l
  BY SoundOf DEF TypeOK
<1>3. Frame(j)
  BY <1>1, SoundOf DEF Frame, TypeOK
<1>4. /\ manifest' \in [Job -> Manifest] /\ pc' \in [Job -> Control]
      /\ feedback' \in Seq(Entry) /\ applies' \subseteq Apply
  BY SoundOf DEF TypeOK, db
<1> QED BY <1>1, <1>2, <1>3, <1>4

\* The same when the job's own record is replaced.
LEMMA RecordStep ==
  ASSUME Sound, NEW j \in Job, NEW r \in Record, NEW dropped,
         \/ mem' = [mem EXCEPT ![j] = r]
         \/ /\ Prunable([mem EXCEPT ![j] = r], dropped)
            /\ mem' = Without([mem EXCEPT ![j] = r], dropped)
  PROVE  /\ mem' \in [Job -> Record]
         /\ mem'[j] = r \/ (r.status \in Terminal /\ mem'[j] = Absent)
         /\ \A k \in Job \ {j} : Spared(k)
<1> DEFINE m == [mem EXCEPT ![j] = r]
<1>1. m \in [Job -> Record] /\ m[j] = r /\ \A k \in Job \ {j} : m[k] = mem[k]
  BY SoundOf DEF TypeOK
<1>2. mem' = m \/ (Prunable(m, dropped) /\ mem' = Without(m, dropped))
  OBVIOUS
<1> HIDE DEF m
<1>3. CASE mem' = m
  BY <1>1, <1>3 DEF Spared
<1>4. CASE Prunable(m, dropped) /\ mem' = Without(m, dropped)
  <2>1. \A k \in dropped : k \in Job /\ m[k].status \in Terminal
    BY <1>4 DEF Prunable
  <2>2. /\ mem' \in [Job -> Record]
        /\ \A k \in Job : mem'[k] = m[k] \/ (k \in dropped /\ mem'[k] = Absent)
    BY <1>1, <1>4, RecordsTyped DEF Without
  <2>3. mem'[j] = r \/ (r.status \in Terminal /\ mem'[j] = Absent)
    BY <1>1, <2>1, <2>2
  <2>4. \A k \in Job \ {j} : Spared(k)
    BY <1>1, <2>1, <2>2 DEF Spared
  <2> QED BY <2>2, <2>3, <2>4
<1> QED BY <1>2, <1>3, <1>4

\* Both together: what one operation does to its own job.
LEMMA OwnStep ==
  ASSUME Sound, NEW j \in Job, UNCHANGED db, NEW dropped,
         NEW r \in Record,
         \/ mem' = [mem EXCEPT ![j] = r]
         \/ /\ Prunable([mem EXCEPT ![j] = r], dropped)
            /\ mem' = Without([mem EXCEPT ![j] = r], dropped),
         NEW m \in Manifest, manifest' = [manifest EXCEPT ![j] = m],
         NEW l \in Control, pc' = [pc EXCEPT ![j] = l],
         WorldTyped'
  PROVE  /\ TypeOK' /\ Ledger' /\ Frame(j) /\ Entries(j)' = Entries(j)
         /\ manifest'[j] = m /\ pc'[j] = l
         /\ mem'[j] = r \/ (r.status \in Terminal /\ mem'[j] = Absent)
<1>1. /\ mem' \in [Job -> Record] /\ \A k \in Job \ {j} : Spared(k)
      /\ mem'[j] = r \/ (r.status \in Terminal /\ mem'[j] = Absent)
  BY RecordStep
<1>2. /\ Ledger' /\ Frame(j) /\ Entries(j)' = Entries(j)
      /\ manifest'[j] = m /\ pc'[j] = l
      /\ manifest' \in [Job -> Manifest] /\ pc' \in [Job -> Control]
      /\ feedback' \in Seq(Entry) /\ applies' \subseteq Apply
  BY <1>1, LocalStep
<1>3. TypeOK'
  BY <1>1, <1>2 DEF TypeOK, WorldTyped
<1> QED BY <1>1, <1>2, <1>3

\* The job's record, manifest and control point are replaced.
Puts(j, r, m, l) ==
  /\ mem' = [mem EXCEPT ![j] = r] /\ manifest' = [manifest EXCEPT ![j] = m]
  /\ pc' = [pc EXCEPT ![j] = l] /\ UNCHANGED db

\* The same for an operation that forgets nobody.
LEMMA PutStep ==
  ASSUME Sound, WorldTyped', NEW j \in Job, NEW r \in Record, NEW m \in Manifest,
         NEW l \in Control, Puts(j, r, m, l)
  PROVE  /\ TypeOK' /\ Ledger' /\ Frame(j) /\ Entries(j)' = Entries(j)
         /\ manifest'[j] = m /\ pc'[j] = l /\ mem'[j] = r
<1>1. /\ mem' = [mem EXCEPT ![j] = r] /\ manifest' = [manifest EXCEPT ![j] = m]
      /\ pc' = [pc EXCEPT ![j] = l] /\ UNCHANGED db
  BY DEF Puts
<1>2. mem'[j] = r
  BY <1>1, SoundOf DEF TypeOK
<1>3. mem' \in [Job -> Record] /\ \A k \in Job \ {j} : Spared(k)
  BY <1>1, RecordStep
<1>4. /\ Ledger' /\ Frame(j) /\ Entries(j)' = Entries(j)
      /\ manifest'[j] = m /\ pc'[j] = l
      /\ manifest' \in [Job -> Manifest] /\ pc' \in [Job -> Control]
      /\ feedback' \in Seq(Entry) /\ applies' \subseteq Apply
  BY <1>1, <1>3, LocalStep
<1>5. TypeOK'
  BY <1>3, <1>4 DEF TypeOK, WorldTyped
<1> QED BY <1>2, <1>4, <1>5

\* An upload starts from nothing, so nothing of it stands in the feedback.
LEMMA CreateJobKeeps ==
  ASSUME Sound, NEW j \in Job, CreateJob(j)
  PROVE  Kept(j)
<1> DEFINE r == [mem[j] EXCEPT !.status = "pending"]
<1>1. /\ mem' = [mem EXCEPT ![j] = r]
      /\ manifest' = [manifest EXCEPT ![j] = Plain("pending")]
      /\ pc' = [pc EXCEPT ![j] = "prepare"] /\ UNCHANGED db
      /\ mem[j] = Absent /\ manifest[j] = NoManifest
  BY DEF CreateJob, Goto
<1>2. WorldTyped'
  BY SoundOf DEF CreateJob, TypeOK, WorldTyped
<1>3. r \in Record /\ r.status = "pending" /\ Plain("pending") \in Manifest
  BY <1>1, RecordsTyped DEF Record, Status, Absent
<1> HIDE DEF r
<1>4. /\ TypeOK' /\ Ledger' /\ Frame(j) /\ Entries(j)' = Entries(j)
      /\ manifest'[j] = Plain("pending") /\ pc'[j] = "prepare" /\ mem'[j] = r
  <2>1. Puts(j, r, Plain("pending"), "prepare") /\ "prepare" \in Control
    BY <1>1, <1>2, <1>3 DEF Puts, Control
  <2> QED BY <1>1, <1>2, <1>3, <2>1, PutStep
<1>5. Entries(j) = {}
  BY <1>1, SoundOf, NotEntered
<1>6. Shaped(j)' /\ Coupled(j)'
  BY <1>3, <1>4, <1>5 DEF Shaped, Coupled, Plain, Terminal
<1> QED BY <1>4, <1>6 DEF Kept

\* A prepared review belongs to a manifest that says so and to no feedback.
LEMMA PreparedKeeps ==
  ASSUME Sound, NEW j \in Job, Prepared(j)
  PROVE  Kept(j)
<1> DEFINE r == [mem[j] EXCEPT !.status = "review_required", !.choice = Rebuilt(j)]
<1>1. PICK dropped \in SUBSET Job :
        /\ Prunable([mem EXCEPT ![j] = r], dropped)
        /\ mem' = Without([mem EXCEPT ![j] = r], dropped)
  <2>1. [mem EXCEPT ![j].status = "review_required", ![j].choice = Rebuilt(j)]
          = [mem EXCEPT ![j] = r]
    BY SoundOf DEF TypeOK
  <2> QED BY <2>1 DEF Prepared
<1>2. /\ manifest' = [manifest EXCEPT ![j] = Plain("review_required")]
      /\ pc' = [pc EXCEPT ![j] = "idle"] /\ UNCHANGED db /\ pc[j] = "prepare"
  BY DEF Prepared, Goto
<1>3. WorldTyped'
  BY SoundOf DEF Prepared, TypeOK, WorldTyped
<1>4. r \in Record /\ r.status = "review_required" /\ Plain("review_required") \in Manifest
  BY SoundOf, RebuiltTyped, RecordsTyped DEF TypeOK, Record, Status
<1> HIDE DEF r
<1>5. /\ TypeOK' /\ Ledger' /\ Frame(j) /\ Entries(j)' = Entries(j)
      /\ manifest'[j] = Plain("review_required") /\ pc'[j] = "idle" /\ mem'[j] = r
  <2>1. "idle" \in Control
    BY DEF Control
  <2>2. mem'[j] = r
    BY <1>1, <1>4, RecordStep DEF Terminal
  <2>3. /\ TypeOK' /\ Ledger' /\ Frame(j) /\ Entries(j)' = Entries(j)
        /\ manifest'[j] = Plain("review_required") /\ pc'[j] = "idle"
    BY <1>1, <1>2, <1>3, <1>4, <2>1, OwnStep
  <2> QED BY <2>2, <2>3
<1>6. Entries(j) = {}
  BY <1>2, SoundOf, NotEntered DEF Coupled
<1>7. Shaped(j)' /\ Coupled(j)'
  BY <1>4, <1>5, <1>6 DEF Shaped, Coupled, Plain, Terminal
<1> QED BY <1>5, <1>7 DEF Kept

\* Both ways of giving a job up before its review exists.
LEMMA PrepareEndsKeeps ==
  ASSUME Sound, NEW j \in Job, PrepareFailed(j) \/ CreateFails(j)
  PROVE  Kept(j)
<1> DEFINE r == IF PrepareFailed(j) THEN [mem[j] EXCEPT !.status = "failed"] ELSE Absent
<1>1. PICK dropped \in SUBSET Job :
        \/ mem' = [mem EXCEPT ![j] = r]
        \/ /\ Prunable([mem EXCEPT ![j] = r], dropped)
           /\ mem' = Without([mem EXCEPT ![j] = r], dropped)
  BY DEF PrepareFailed, CreateFails
<1>2. /\ manifest' = [manifest EXCEPT ![j] = NoManifest]
      /\ pc' = [pc EXCEPT ![j] = "idle"] /\ UNCHANGED db /\ pc[j] = "prepare"
  BY DEF PrepareFailed, CreateFails, Goto
<1>3. WorldTyped'
  BY SoundOf, FaultTyped DEF PrepareFailed, CreateFails, TypeOK, WorldTyped
<1>4. r \in Record /\ r.status \in {"failed", "absent"} /\ NoManifest \in Manifest
  BY SoundOf, RecordsTyped DEF TypeOK, Record, Status, Absent
<1> HIDE DEF r
<1>5. /\ TypeOK' /\ Ledger' /\ Frame(j) /\ Entries(j)' = Entries(j)
      /\ manifest'[j] = NoManifest /\ pc'[j] = "idle" /\ mem'[j] \in {r, Absent}
  <2>1. CASE mem' = [mem EXCEPT ![j] = r]
    BY <1>2, <1>3, <1>4, <2>1, OwnStep DEF Control
  <2>2. CASE /\ Prunable([mem EXCEPT ![j] = r], dropped)
             /\ mem' = Without([mem EXCEPT ![j] = r], dropped)
    <3>1. "idle" \in Control
      BY DEF Control
    <3>2. mem'[j] = r \/ (r.status \in Terminal /\ mem'[j] = Absent)
      BY <1>4, <2>2, RecordStep
    <3>3. /\ TypeOK' /\ Ledger' /\ Frame(j) /\ Entries(j)' = Entries(j)
          /\ manifest'[j] = NoManifest /\ pc'[j] = "idle"
      BY <1>2, <1>3, <1>4, <2>2, <3>1, OwnStep
    <3> QED BY <3>2, <3>3
  <2> QED BY <1>1, <2>1, <2>2
<1>6. Entries(j) = {}
  BY <1>2, SoundOf, NotEntered DEF Coupled
<1>7. Shaped(j)' /\ Coupled(j)'
  BY <1>4, <1>5, <1>6 DEF Shaped, Coupled, NoManifest, Absent, Terminal
<1> QED BY <1>5, <1>7 DEF Kept

\* A decision changes nothing but the record, and perhaps the autosave.
LEMMA DecideKeeps ==
  ASSUME Sound, NEW j \in Job, NEW c \in MaybeChoice, Decide(j, c)
  PROVE  Kept(j)
<1> DEFINE r == [mem[j] EXCEPT !.choice = c]
<1>1. /\ mem' = [mem EXCEPT ![j] = r] /\ UNCHANGED db
      /\ manifest' = [manifest EXCEPT ![j] = manifest[j]]
      /\ pc' = [pc EXCEPT ![j] = "idle"]
      /\ mem[j].status = "review_required"
  BY SoundOf DEF Decide, TypeOK
<1>2. WorldTyped'
  BY SoundOf, FaultTyped DEF Decide, TypeOK, WorldTyped
<1>3. r \in Record /\ r.status = "review_required" /\ manifest[j] \in Manifest
  BY <1>1, SoundOf DEF TypeOK, Record
<1> HIDE DEF r
<1>4. /\ TypeOK' /\ Ledger' /\ Frame(j) /\ Entries(j)' = Entries(j)
      /\ manifest'[j] = manifest[j] /\ pc'[j] = "idle" /\ mem'[j] = r
  <2>1. Puts(j, r, manifest[j], "idle") /\ "idle" \in Control
    BY <1>1, <1>2, <1>3 DEF Puts, Control
  <2> QED BY <1>1, <1>2, <1>3, <2>1, PutStep
<1>5. manifest[j] = Plain("review_required") /\ Entries(j) = {}
  BY <1>1, SoundOf, NotEntered DEF Coupled
<1>6. Shaped(j)' /\ Coupled(j)'
  BY <1>3, <1>4, <1>5 DEF Shaped, Coupled, Plain, Terminal
<1> QED BY <1>4, <1>6 DEF Kept

\* An apply begins beside the manifest of its review; the first persist may raise.
LEMMA ApplyBeginKeeps ==
  ASSUME Sound, NEW j \in Job, ApplyBegin(j)
  PROVE  Kept(j)
<1> DEFINE r == [mem[j] EXCEPT !.status = "applying"]
<1>1. PICK m \in Manifest, l \in Control :
        /\ manifest' = [manifest EXCEPT ![j] = m] /\ pc' = [pc EXCEPT ![j] = l]
        /\ \/ m = Plain("applying") /\ l = "write"
           \/ m = Plain("review_required") /\ l = "idle"
  <2>1. manifest[j] = Plain("review_required") /\ pc[j] = "idle"
    BY SoundOf DEF ApplyBegin, Coupled
  <2>2. /\ Plain("applying") \in Manifest /\ Plain("review_required") \in Manifest
        /\ "write" \in Control /\ "idle" \in Control
    BY RecordsTyped DEF Status, Control
  <2>3. /\ manifest = [manifest EXCEPT ![j] = manifest[j]]
        /\ pc = [pc EXCEPT ![j] = pc[j]]
    BY SoundOf DEF TypeOK
  <2>4. \/ manifest' = [manifest EXCEPT ![j] = Plain("applying")] /\ pc' = [pc EXCEPT ![j] = "write"]
        \/ manifest' = manifest /\ pc' = pc
    BY DEF ApplyBegin, Goto
  <2> QED BY <2>1, <2>2, <2>3, <2>4
<1>2. /\ mem' = [mem EXCEPT ![j] = r] /\ UNCHANGED db
      /\ mem[j].status = "review_required" /\ mem[j].choice # NoChoice
  BY SoundOf DEF ApplyBegin, TypeOK
<1>3. WorldTyped'
  BY SoundOf, FaultTyped DEF ApplyBegin, TypeOK, WorldTyped
<1>4. r \in Record /\ r.status = "applying" /\ r.choice \in Choice
  BY <1>2, SoundOf DEF TypeOK, Record, Status, MaybeChoice
<1> HIDE DEF r
<1>5. /\ TypeOK' /\ Ledger' /\ Frame(j) /\ Entries(j)' = Entries(j)
      /\ manifest'[j] = m /\ pc'[j] = l /\ mem'[j] = r
  <2>1. Puts(j, r, m, l) /\ l \in Control
    BY <1>1, <1>2, <1>3, <1>4 DEF Puts, Control
  <2> QED BY <1>1, <1>2, <1>3, <1>4, <2>1, PutStep
<1>6. Entries(j) = {}
  BY <1>2, SoundOf, NotEntered DEF Coupled
<1>7. Shaped(j)' /\ Coupled(j)'
  BY <1>1, <1>4, <1>5, <1>6 DEF Shaped, Coupled, Plain, Terminal
<1> QED BY <1>5, <1>7 DEF Kept

\* The workbook is written under a manifest that has no plan yet.
LEMMA ApplyWriteKeeps ==
  ASSUME Sound, NEW j \in Job, ApplyWrite(j)
  PROVE  Kept(j)
<1> DEFINE r == [mem[j] EXCEPT !.plan = mem[j].choice]
<1>1. /\ mem' = [mem EXCEPT ![j] = r] /\ UNCHANGED db
      /\ manifest' = [manifest EXCEPT ![j] = manifest[j]]
      /\ pc' = [pc EXCEPT ![j] = "plan"] /\ pc[j] = "write"
  BY SoundOf DEF ApplyWrite, Goto, TypeOK
<1>2. /\ mem[j].status = "applying" /\ mem[j].choice \in Choice
      /\ manifest[j] = Plain("applying") /\ Entries(j) = {}
  BY <1>1, SoundOf, NotEntered DEF Coupled
<1>3. WorldTyped'
  BY <1>2, SoundOf DEF ApplyWrite, TypeOK, WorldTyped
<1>4. /\ r \in Record /\ r.status = "applying" /\ r.plan \in Choice
      /\ manifest[j] \in Manifest
  BY <1>2, SoundOf DEF TypeOK, Record, MaybeChoice
<1> HIDE DEF r
<1>5. /\ TypeOK' /\ Ledger' /\ Frame(j) /\ Entries(j)' = Entries(j)
      /\ manifest'[j] = manifest[j] /\ pc'[j] = "plan" /\ mem'[j] = r
  <2>1. Puts(j, r, manifest[j], "plan") /\ "plan" \in Control
    BY <1>1, <1>3, <1>4 DEF Puts, Control
  <2> QED BY <1>1, <1>3, <1>4, <2>1, PutStep
<1>6. Shaped(j)' /\ Coupled(j)'
  BY <1>2, <1>4, <1>5 DEF Shaped, Coupled, Plain, Terminal
<1> QED BY <1>5, <1>6 DEF Kept

\* A failure before the plan leaves no feedback behind.
LEMMA ApplyAbortsKeeps ==
  ASSUME Sound, NEW j \in Job, ApplyAborts(j)
  PROVE  Kept(j)
<1> DEFINE r == [mem[j] EXCEPT !.status = "failed"]
<1>1. /\ mem' = [mem EXCEPT ![j] = r] /\ UNCHANGED db
      /\ pc' = [pc EXCEPT ![j] = "idle"] /\ pc[j] = "write"
  BY SoundOf DEF ApplyAborts, Goto, TypeOK
<1>2. /\ mem[j].status = "applying" /\ mem[j].choice \in Choice
      /\ manifest[j] = Plain("applying") /\ Entries(j) = {}
  BY <1>1, SoundOf, NotEntered DEF Coupled
<1>3. PICK m \in Manifest :
        /\ manifest' = [manifest EXCEPT ![j] = m]
        /\ m \in {NoManifest, Plain("applying")}
  <2>1. NoManifest \in Manifest /\ Plain("applying") \in Manifest
    BY RecordsTyped DEF Status
  <2>2. manifest = [manifest EXCEPT ![j] = Plain("applying")]
    BY <1>2, SoundOf DEF TypeOK
  <2>3. manifest' \in {[manifest EXCEPT ![j] = NoManifest], manifest}
    BY DEF ApplyAborts
  <2> QED BY <2>1, <2>2, <2>3
<1>4. WorldTyped'
  BY <1>2, SoundOf, FaultTyped DEF ApplyAborts, TypeOK, WorldTyped
<1>5. r \in Record /\ r.status = "failed"
  BY SoundOf DEF TypeOK, Record, Status
<1> HIDE DEF r
<1>6. /\ TypeOK' /\ Ledger' /\ Frame(j) /\ Entries(j)' = Entries(j)
      /\ manifest'[j] = m /\ pc'[j] = "idle" /\ mem'[j] \in {r, Absent}
  <2>1. Puts(j, r, m, "idle") /\ "idle" \in Control
    BY <1>1, <1>3, <1>4, <1>5 DEF Puts, Control
  <2> QED BY <1>1, <1>3, <1>4, <1>5, <2>1, PutStep
<1>7. Shaped(j)' /\ Coupled(j)'
  BY <1>2, <1>3, <1>5, <1>6 DEF Shaped, Coupled, Plain, NoManifest, Absent, Terminal
<1> QED BY <1>6, <1>7 DEF Kept

\* The plan becomes durable, or the operation ends without one.
LEMMA ApplyPlanKeeps ==
  ASSUME Sound, NEW j \in Job, ApplyPlan(j)
  PROVE  Kept(j)
<1>1. /\ pc[j] = "plan" /\ mem[j].status = "applying" /\ mem[j].plan \in Choice
      /\ manifest[j] = Plain("applying") /\ Entries(j) = {} /\ mem[j] \in Record
  BY SoundOf, NotEntered DEF ApplyPlan, Coupled, TypeOK
<1>2. PICK m \in Manifest, l \in Control :
        /\ manifest' = [manifest EXCEPT ![j] = m] /\ pc' = [pc EXCEPT ![j] = l]
        /\ \/ m = Planned(mem[j].plan) /\ l = "commit"
           \/ m = Plain("applying") /\ l = "idle"
  <2>1. Planned(mem[j].plan) \in Manifest /\ Plain("applying") \in Manifest
    BY <1>1, RecordsTyped DEF Status
  <2>2. manifest = [manifest EXCEPT ![j] = Plain("applying")]
    BY <1>1, SoundOf DEF TypeOK
  <2>3. "commit" \in Control /\ "idle" \in Control
    BY DEF Control
  <2> QED BY <2>1, <2>2, <2>3 DEF ApplyPlan, Goto
<1>3. mem' = [mem EXCEPT ![j] = mem[j]] /\ UNCHANGED db
  BY SoundOf DEF ApplyPlan, TypeOK
<1>4. WorldTyped'
  BY SoundOf, FaultTyped DEF ApplyPlan, TypeOK, WorldTyped
<1>5. /\ TypeOK' /\ Ledger' /\ Frame(j) /\ Entries(j)' = Entries(j)
      /\ manifest'[j] = m /\ pc'[j] = l /\ mem'[j] = mem[j]
  <2>1. Puts(j, mem[j], m, l) /\ l \in Control
    BY <1>1, <1>2, <1>3, <1>4 DEF Puts, Control
  <2> QED BY <1>1, <1>2, <1>3, <1>4, <2>1, PutStep
<1>6. Shaped(j)' /\ Coupled(j)'
  BY <1>1, <1>2, <1>5 DEF Shaped, Coupled, Plain, Planned, Terminal
<1> QED BY <1>5, <1>6 DEF Kept

\* The transaction of the plan of the manifest, in an apply or in a replay.
LEMMA CommitKeeps ==
  ASSUME Sound, NEW j \in Job, NEW c \in Choice, manifest[j] = Planned(c),
         CommitApply(j, c, c), UNCHANGED <<mem, manifest>>, WorldTyped',
         NEW l, pc' = [pc EXCEPT ![j] = l],
         \/ l = "publish" /\ pc[j] = "commit"
         \/ l = "settle" /\ mem[j] = Absent
  PROVE  Kept(j)
<1>1. /\ feedback' \in Seq(Entry) /\ applies' \subseteq Apply /\ Ledger'
      /\ Entries(j)' = Entries(j) \cup {c}
      /\ \A k \in Job \ {j} : Entries(k)' = Entries(k)
  BY SoundOf, CommitEffect
<1>2. l \in Control /\ pc'[j] = l /\ pc' \in [Job -> Control]
  BY SoundOf DEF TypeOK, Control
<1>3. TypeOK'
  BY <1>1, <1>2, SoundOf DEF TypeOK, WorldTyped
<1>4. Frame(j)
  BY <1>1, SoundOf DEF Frame, Spared, TypeOK
<1>5. Entries(j)' = {c} /\ manifest[j].status = "applying"
  BY <1>1, SoundOf, EnteredPlan
<1>6. Shaped(j)'
  BY <1>5 DEF Shaped
<1>7. CASE l = "publish" /\ pc[j] = "commit"
  <2>1. mem[j].status = "applying" /\ mem[j].plan \in Choice /\ manifest[j] = Planned(mem[j].plan)
    BY <1>7, SoundOf DEF Coupled
  <2>2. Coupled(j)'
    BY <1>2, <1>5, <1>7, <2>1 DEF Coupled, Planned, Terminal
  <2> QED BY <1>1, <1>3, <1>4, <1>6, <2>2 DEF Kept
<1>8. CASE l = "settle" /\ mem[j] = Absent
  <2>1. Coupled(j)'
    BY <1>2, <1>5, <1>8 DEF Coupled, Absent, Terminal
  <2> QED BY <1>1, <1>3, <1>4, <1>6, <2>1 DEF Kept
<1> QED BY <1>7, <1>8

\* The transaction of an apply runs under its durable plan.
LEMMA ApplyCommitKeeps ==
  ASSUME Sound, NEW j \in Job, ApplyCommit(j)
  PROVE  Kept(j)
<1>1. /\ pc[j] = "commit" /\ mem[j].plan \in Choice /\ manifest[j] = Planned(mem[j].plan)
  BY SoundOf DEF ApplyCommit, Coupled
<1>2. WorldTyped'
  BY SoundOf DEF ApplyCommit, TypeOK, WorldTyped, disk
<1> QED BY <1>1, <1>2, CommitKeeps DEF ApplyCommit, Goto, disk

\* A step that changes neither records nor manifests nor the database, and at
\* most ends the operation of its job.
LEMMA QuietKeeps ==
  ASSUME Sound, NEW j \in Job, UNCHANGED <<mem, manifest, db>>, WorldTyped',
         pc' \in {pc, [pc EXCEPT ![j] = "idle"]}
  PROVE  Kept(j)
<1>1. Ledger' /\ \A k : Entries(k)' = Entries(k)
  BY SoundOf, SameFeedback
<1>2. /\ pc' \in [Job -> Control] /\ pc'[j] \in {pc[j], "idle"}
      /\ \A k \in Job \ {j} : pc'[k] = pc[k]
  BY SoundOf DEF TypeOK, Control
<1>3. TypeOK'
  BY <1>2, SoundOf DEF TypeOK, WorldTyped, db
<1>4. Frame(j)
  BY <1>1, <1>2 DEF Frame, Spared
<1>5. Shaped(j)'
  BY <1>1, SoundOf DEF Shaped
<1>6. Coupled(j)
  BY SoundOf
<1>7. Coupled(j)'
  BY <1>1, <1>2, <1>6 DEF Coupled, Plain, Planned, Terminal
<1> QED BY <1>1, <1>3, <1>4, <1>5, <1>7 DEF Kept

\* A transaction that raises changes neither table.
LEMMA CommitFailsKeeps ==
  ASSUME Sound, NEW j \in Job, CommitFails(j)
  PROVE  Kept(j)
<1>1. WorldTyped'
  BY SoundOf, FaultTyped DEF CommitFails, TypeOK, WorldTyped, disk
<1> QED BY <1>1, QuietKeeps DEF CommitFails, Goto, disk

\* A manifest that is skipped stays as it is.
LEMMA SkipKeeps ==
  ASSUME Sound, NEW j \in Job, Skip(j)
  PROVE  Kept(j)
<1>1. WorldTyped'
  BY SoundOf, FaultTyped DEF Skip, TypeOK, WorldTyped, disk
<1> QED BY <1>1, QuietKeeps DEF Skip, disk

\* Touching the files of a job reaches neither manifests nor feedback.
LEMMA TamperKeeps ==
  ASSUME Sound, NEW j \in Job, Tamper(j)
  PROVE  Kept(j)
<1>1. spent' \in [crashes : 0..MaxCrashes, faults : 0..MaxFaults, tampers : 0..MaxTampers]
  BY SoundOf, ConstantsOK DEF Tamper, TypeOK
<1>2. WorldTyped'
  BY <1>1, SoundOf DEF Tamper, TypeOK, WorldTyped
<1> QED BY <1>2, QuietKeeps DEF Tamper

\* The result is published from the plan that was entered.
LEMMA ApplyPublishKeeps ==
  ASSUME Sound, NEW j \in Job, ApplyPublish(j)
  PROVE  Kept(j)
<1>1. /\ pc[j] = "publish" /\ mem[j].status = "applying" /\ mem[j].plan \in Choice
      /\ manifest[j] = Planned(mem[j].plan) /\ Entries(j) = {mem[j].plan}
      /\ mem[j] \in Record
  BY SoundOf, EnteredPlan DEF ApplyPublish, Coupled, TypeOK
<1>2. PICK r \in Record, m \in Manifest :
        /\ mem' = [mem EXCEPT ![j] = r] /\ manifest' = [manifest EXCEPT ![j] = m]
        /\ \/ r.status = "ready" /\ m = Published(mem[j].plan)
           \/ r.status = "applying" /\ m = Planned(mem[j].plan)
  <2> DEFINE r == [mem[j] EXCEPT !.status = "ready", !.plan = NoChoice]
  <2>1. r \in Record /\ r.status = "ready"
    BY <1>1 DEF Record, Status, MaybeChoice
  <2>2. Published(mem[j].plan) \in Manifest /\ Planned(mem[j].plan) \in Manifest
    BY <1>1, RecordsTyped
  <2>3. CASE UNCHANGED <<manifest, mem>>
    <3>1. mem' = [mem EXCEPT ![j] = mem[j]] /\ manifest' = [manifest EXCEPT ![j] = Planned(mem[j].plan)]
      BY <1>1, <2>3, SoundOf DEF TypeOK
    <3> QED BY <1>1, <2>2, <3>1
  <2>4. CASE /\ manifest' = [manifest EXCEPT ![j] = Published(mem[j].plan)]
             /\ mem' = [mem EXCEPT ![j].status = "ready", ![j].plan = NoChoice]
    <3>1. mem' = [mem EXCEPT ![j] = r]
      BY <2>4, SoundOf DEF TypeOK
    <3> HIDE DEF r
    <3> QED BY <2>1, <2>2, <2>4, <3>1
  <2> QED BY <2>3, <2>4 DEF ApplyPublish
<1>3. pc' = [pc EXCEPT ![j] = "idle"] /\ UNCHANGED db
  BY DEF ApplyPublish, Goto
<1>4. WorldTyped'
  BY SoundOf, FaultTyped DEF ApplyPublish, TypeOK, WorldTyped
<1>5. /\ TypeOK' /\ Ledger' /\ Frame(j) /\ Entries(j)' = Entries(j)
      /\ manifest'[j] = m /\ pc'[j] = "idle" /\ mem'[j] \in {r, Absent}
  <2>1. Puts(j, r, m, "idle") /\ "idle" \in Control
    BY <1>2, <1>3, <1>4 DEF Puts, Control
  <2> QED BY <1>2, <1>3, <1>4, <2>1, PutStep
<1>6. Shaped(j)'
  BY <1>1, <1>2, <1>5 DEF Shaped, Planned, Published
<1>7. Coupled(j)'
  BY <1>1, <1>2, <1>5 DEF Coupled, Absent, Terminal
<1> QED BY <1>5, <1>6, <1>7 DEF Kept

\* Recovery registers a job that was in nobody's hands.
LEMMA RecoverKeeps ==
  ASSUME Sound, NEW j \in Job,
         RecoverReview(j) \/ RecoverReady(j) \/ RecoverInterrupted(j)
  PROVE  Kept(j)
<1>1. /\ mem[j] = Absent /\ pc[j] = "idle" /\ UNCHANGED db
      /\ pc' = [pc EXCEPT ![j] = "idle"]
  BY SoundOf DEF RecoverReview, RecoverReady, RecoverInterrupted, MayRecover, TypeOK
<1>2. WorldTyped'
  <2>1. CASE UNCHANGED <<up, disk, spent>> /\ todo' = todo \ {j}
    BY <2>1, SoundOf DEF TypeOK, WorldTyped, disk
  <2>2. CASE RecoverInterrupted(j)
    BY <2>2, SoundOf, FaultTyped DEF RecoverInterrupted, TypeOK, WorldTyped
  <2> QED BY <2>1, <2>2 DEF RecoverReview, RecoverReady
<1>3. CASE RecoverReview(j)
  <2> DEFINE r == [mem[j] EXCEPT !.status = "review_required", !.choice = Rebuilt(j)]
  <2>1. /\ mem' = [mem EXCEPT ![j] = r]
        /\ manifest' = [manifest EXCEPT ![j] = manifest[j]]
        /\ manifest[j].status = "review_required"
    <3>1. [mem EXCEPT ![j].status = "review_required", ![j].choice = Rebuilt(j)]
            = [mem EXCEPT ![j] = r]
      BY SoundOf DEF TypeOK
    <3>2. manifest = [manifest EXCEPT ![j] = manifest[j]]
      BY SoundOf DEF TypeOK
    <3> QED BY <1>3, <3>1, <3>2 DEF RecoverReview, disk
  <2>2. r \in Record /\ r.status = "review_required" /\ manifest[j] \in Manifest
    BY SoundOf, RebuiltTyped DEF TypeOK, Record, Status
  <2> HIDE DEF r
  <2>3. manifest[j] = Plain("review_required")
    BY <2>1, SoundOf DEF Shaped, Plain, NoManifest, Planned, Published
  <2>4. /\ TypeOK' /\ Ledger' /\ Frame(j) /\ Entries(j)' = Entries(j)
        /\ manifest'[j] = manifest[j] /\ pc'[j] = "idle" /\ mem'[j] = r
    <3>1. Puts(j, r, manifest[j], "idle") /\ "idle" \in Control
      BY <1>1, <1>2, <2>1, <2>2 DEF Puts, Control
    <3> QED BY <1>1, <1>2, <2>1, <2>2, <3>1, PutStep
  <2>5. Entries(j) = {}
    BY <2>3, SoundOf, NotEntered
  <2>6. Shaped(j)' /\ Coupled(j)'
    BY <2>2, <2>3, <2>4, <2>5 DEF Shaped, Coupled, Plain, Terminal
  <2> QED BY <2>4, <2>6 DEF Kept
<1>4. CASE RecoverReady(j)
  <2> DEFINE r == [mem[j] EXCEPT !.status = "ready"]
  <2>1. /\ mem' = [mem EXCEPT ![j] = r]
        /\ manifest' = [manifest EXCEPT ![j] = manifest[j]]
        /\ manifest[j].status = "ready"
    <3>1. manifest = [manifest EXCEPT ![j] = manifest[j]]
      BY SoundOf DEF TypeOK
    <3> QED BY <1>4, <3>1 DEF RecoverReady, disk
  <2>2. r \in Record /\ r.status = "ready" /\ manifest[j] \in Manifest
    BY SoundOf DEF TypeOK, Record, Status
  <2> HIDE DEF r
  <2>3. /\ TypeOK' /\ Ledger' /\ Frame(j) /\ Entries(j)' = Entries(j)
        /\ manifest'[j] = manifest[j] /\ pc'[j] = "idle" /\ mem'[j] \in {r, Absent}
    <3>1. Puts(j, r, manifest[j], "idle") /\ "idle" \in Control
      BY <1>1, <1>2, <2>1, <2>2 DEF Puts, Control
    <3> QED BY <1>1, <1>2, <2>1, <2>2, <3>1, PutStep
  <2>4. Shaped(j) /\ Entries(j) # {}
    BY <2>1, SoundOf DEF Shaped
  <2>5. Shaped(j)'
    BY <2>3, <2>4 DEF Shaped
  <2>6. Coupled(j)'
    BY <2>2, <2>3, <2>4 DEF Coupled, Absent, Terminal
  <2> QED BY <2>3, <2>5, <2>6 DEF Kept
<1>5. CASE RecoverInterrupted(j)
  <2> DEFINE r == [mem[j] EXCEPT !.status = "failed"]
  <2>1. manifest[j] \in {Plain("pending"), Plain("applying")}
    BY <1>5, SoundOf, ConstantsOK DEF RecoverInterrupted, Interrupted, Shaped, Plain, NoManifest,
       Planned, Published
  <2>2. /\ Entries(j) = {} /\ manifest[j] \in Manifest /\ Plain("failed") \in Manifest
    BY <2>1, SoundOf, NotEntered, RecordsTyped DEF TypeOK, Status
  <2>3. PICK m \in Manifest :
          /\ manifest' = [manifest EXCEPT ![j] = m]
          /\ m \in {Plain("failed"), Plain("pending"), Plain("applying")}
    <3>1. manifest = [manifest EXCEPT ![j] = manifest[j]]
      BY SoundOf DEF TypeOK
    <3> QED BY <1>5, <2>1, <2>2, <3>1 DEF RecoverInterrupted
  <2>4. mem' = [mem EXCEPT ![j] = r]
    BY <1>5 DEF RecoverInterrupted
  <2>5. r \in Record /\ r.status = "failed"
    BY SoundOf DEF TypeOK, Record, Status
  <2> HIDE DEF r
  <2>6. /\ TypeOK' /\ Ledger' /\ Frame(j) /\ Entries(j)' = Entries(j)
        /\ manifest'[j] = m /\ pc'[j] = "idle" /\ mem'[j] \in {r, Absent}
    <3>1. Puts(j, r, m, "idle") /\ "idle" \in Control
      BY <1>1, <1>2, <2>3, <2>4, <2>5 DEF Puts, Control
    <3> QED BY <1>1, <1>2, <2>3, <2>4, <2>5, <3>1, PutStep
  <2>7. Shaped(j)' /\ Coupled(j)'
    BY <2>2, <2>3, <2>5, <2>6 DEF Shaped, Coupled, Plain, Absent, Terminal
  <2> QED BY <2>6, <2>7 DEF Kept
<1> QED BY <1>3, <1>4, <1>5

\* A replay is the transaction of the plan the manifest carries.
LEMMA ReplayKeeps ==
  ASSUME Sound, NEW j \in Job, Replay(j)
  PROVE  Kept(j)
<1>1. PICK c \in Choice : manifest[j] = Planned(c)
  BY SoundOf DEF Replay, Replayable, Shaped, Plain, NoManifest, Planned, Published
<1>2. manifest[j].plan = c /\ manifest[j].digest = c
  BY <1>1 DEF Planned
<1>3. WorldTyped'
  BY SoundOf DEF Replay, TypeOK, WorldTyped, disk
<1>4. CommitApply(j, c, c) /\ mem[j] = Absent
  BY <1>2 DEF Replay, MayRecover
<1> QED BY <1>1, <1>3, <1>4, CommitKeeps DEF Replay, Goto, disk

\* A replayed job publishes the plan it has entered.
LEMMA SettleKeeps ==
  ASSUME Sound, NEW j \in Job, Settle(j)
  PROVE  Kept(j)
<1> DEFINE r == [mem[j] EXCEPT !.status = "ready"]
<1>1. /\ mem' = [mem EXCEPT ![j] = r] /\ UNCHANGED db
      /\ pc' = [pc EXCEPT ![j] = "idle"] /\ pc[j] = "settle"
  BY DEF Settle, Goto
<1>2. /\ Entries(j) # {} /\ manifest[j].status = "applying" /\ Shaped(j)
  BY <1>1, SoundOf DEF Coupled
<1>3. PICK c \in Choice : manifest[j] = Planned(c)
  BY <1>2 DEF Shaped, Entries, Planned, Published
<1>4. Entries(j) = {c} /\ manifest[j].digest = c
  BY <1>2, <1>3, EnteredPlan DEF Planned
<1>5. PICK m \in Manifest :
        manifest' = [manifest EXCEPT ![j] = m] /\ m \in {Planned(c), Published(c)}
  <2>1. Planned(c) \in Manifest /\ Published(c) \in Manifest
    BY RecordsTyped
  <2>2. manifest = [manifest EXCEPT ![j] = Planned(c)]
    BY <1>3, SoundOf DEF TypeOK
  <2>3. manifest' \in {[manifest EXCEPT ![j] = Published(c)], manifest}
    BY <1>4 DEF Settle
  <2> QED BY <2>1, <2>2, <2>3
<1>6. WorldTyped'
  BY SoundOf, FaultTyped DEF Settle, TypeOK, WorldTyped
<1>7. r \in Record /\ r.status = "ready"
  BY SoundOf DEF TypeOK, Record, Status
<1> HIDE DEF r
<1>8. /\ TypeOK' /\ Ledger' /\ Frame(j) /\ Entries(j)' = Entries(j)
      /\ manifest'[j] = m /\ pc'[j] = "idle" /\ mem'[j] \in {r, Absent}
  <2>1. Puts(j, r, m, "idle") /\ "idle" \in Control
    BY <1>1, <1>5, <1>6, <1>7 DEF Puts, Control
  <2> QED BY <1>1, <1>5, <1>6, <1>7, <2>1, PutStep
<1>9. Shaped(j)'
  BY <1>4, <1>5, <1>8 DEF Shaped, Planned, Published
<1>10. Coupled(j)'
  BY <1>4, <1>7, <1>8 DEF Coupled, Absent, Terminal
<1> QED BY <1>8, <1>9, <1>10 DEF Kept

-----------------------------------------------------------------------------
\* What the one job that takes a step can do.
Moves(j) ==
  \/ CreateJob(j) \/ Prepared(j) \/ PrepareFailed(j) \/ CreateFails(j)
  \/ \E c \in MaybeChoice : Decide(j, c)
  \/ ApplyBegin(j) \/ ApplyStep(j) \/ RecoverStep(j) \/ Settle(j) \/ Tamper(j)

\* Whatever the job does, it keeps its part of the invariant.
LEMMA MovesKeep ==
  ASSUME Sound, NEW j \in Job, Moves(j)
  PROVE  Kept(j)
<1>1. CASE CreateJob(j) \/ Prepared(j) \/ PrepareFailed(j) \/ CreateFails(j)
  BY <1>1, CreateJobKeeps, PreparedKeeps, PrepareEndsKeeps
<1>2. CASE \E c \in MaybeChoice : Decide(j, c)
  BY <1>2, DecideKeeps
<1>3. CASE ApplyBegin(j) \/ ApplyStep(j)
  BY <1>3, ApplyBeginKeeps, ApplyWriteKeeps, ApplyAbortsKeeps, ApplyPlanKeeps,
     ApplyCommitKeeps, CommitFailsKeeps, ApplyPublishKeeps DEF ApplyStep
<1>4. CASE RecoverStep(j) \/ Settle(j) \/ Tamper(j)
  BY <1>4, RecoverKeeps, ReplayKeeps, SkipKeeps, SettleKeeps, TamperKeeps DEF RecoverStep
<1> QED BY <1>1, <1>2, <1>3, <1>4 DEF Moves

\* What the service does as a whole: it starts, serves, dies or stands still.
Service == Start \/ Serve \/ Crash \/ UNCHANGED vars

\* A step of the service keeps records or forgets them, and nothing else.
LEMMA ServiceKeeps ==
  ASSUME Sound, Service
  PROVE  Sound' /\ UNCHANGED <<manifest, db>>
<1>1. UNCHANGED <<manifest, db>> /\ TypeOK
  BY DEF Sound, Service, Start, Serve, Crash, disk, db, vars
<1>2. Ledger' /\ \A k : Entries(k)' = Entries(k)
  BY <1>1, SameFeedback DEF Sound, ApplyInv
<1>3. /\ pc' \in [Job -> Control] /\ mem' \in [Job -> Record]
      /\ \A k \in Job : \/ pc'[k] = pc[k] /\ Spared(k)
                        \/ pc'[k] = "idle" /\ mem'[k] = Absent
  <2>1. CASE Start \/ UNCHANGED vars
    BY <1>1, <2>1 DEF Start, vars, TypeOK, Spared
  <2>2. CASE Serve
    <3>1. PICK dropped \in SUBSET Job : Prunable(mem, dropped) /\ mem' = Without(mem, dropped)
      BY <2>2 DEF Serve
    <3>2. \A k \in dropped : mem[k].status \in Terminal
      BY <3>1 DEF Prunable
    <3> QED BY <1>1, <2>2, <3>1, <3>2, RecordsTyped DEF Serve, Without, TypeOK, Spared
  <2>3. CASE Crash
    BY <2>3, RecordsTyped DEF Crash, Control
  <2> QED BY <2>1, <2>2, <2>3 DEF Service
<1>4. spent' \in [crashes : 0..MaxCrashes, faults : 0..MaxFaults, tampers : 0..MaxTampers]
  BY <1>1, ConstantsOK DEF Service, Start, Serve, Crash, vars, TypeOK
<1>5. TypeOK'
  <2>1. up' \in {"down", "starting", "serving"} /\ todo' \subseteq Job
    BY <1>1 DEF Service, Start, Serve, Crash, vars, TypeOK
  <2>2. UNCHANGED <<autosave, output, tampered>>
    BY DEF Service, Start, Serve, Crash, vars, disk
  <2> QED BY <1>1, <1>3, <1>4, <2>1, <2>2 DEF TypeOK, db
<1>6. ASSUME NEW k \in Job PROVE Shaped(k)' /\ Coupled(k)'
  <2>1. Shaped(k) /\ Coupled(k)
    BY DEF Sound, ApplyInv
  <2>2. Shaped(k)'
    BY <1>1, <1>2, <2>1 DEF Shaped
  <2>3. CASE pc'[k] = pc[k] /\ mem'[k] = mem[k]
    BY <1>1, <1>2, <2>1, <2>2, <2>3 DEF Coupled, Plain, Planned, Terminal
  <2>4. CASE pc'[k] = "idle" /\ mem'[k] = Absent
    BY <2>2, <2>4 DEF Coupled, Absent, Plain, Planned, Terminal
  <2>5. CASE pc'[k] = pc[k] /\ mem[k].status \in Terminal /\ mem'[k] = Absent
    <3>1. pc'[k] = "idle"
      BY <2>1, <2>5 DEF Coupled
    <3> QED BY <2>4, <2>5, <3>1
  <2> QED BY <1>3, <2>2, <2>3, <2>4, <2>5 DEF Spared
<1> QED BY <1>1, <1>2, <1>5, <1>6 DEF Sound, ApplyInv

\* A step is one of the service or one of a job.
LEMMA SomebodyMoves ==
  ASSUME [Next]_vars
  PROVE  Service \/ \E j \in Job : Moves(j)
  BY DEF Next, Service, Moves

\* The invariant is inductive.
LEMMA SoundSteps ==
  ASSUME Sound, [Next]_vars
  PROVE  Sound'
<1>1. CASE Service
  BY <1>1, ServiceKeeps
<1>2. ASSUME NEW j \in Job, Moves(j) PROVE Sound'
  <2>1. Kept(j)
    BY <1>2, MovesKeep
  <2>2. \A k \in Job : Shaped(k)' /\ Coupled(k)'
    BY <2>1, FrameKeeps DEF Kept, Sound, ApplyInv
  <2> QED BY <2>1, <2>2 DEF Kept, Sound, ApplyInv
<1> QED BY <1>1, <1>2, SomebodyMoves

\* Nobody has entered anything when the history starts.
LEMMA InitEntries ==
  ASSUME Init
  PROVE  \A i \in DOMAIN feedback : feedback[i].job = Earlier
<1>1. CASE feedback = <<>>
  BY <1>1
<1>2. CASE feedback \in {<<[job |-> Earlier, choice |-> c]>> : c \in Choice}
  <2>1. PICK c \in Choice : feedback = <<[job |-> Earlier, choice |-> c]>>
    BY <1>2
  <2> QED BY <2>1
<1> QED BY <1>1, <1>2 DEF Init

\* The invariant holds to begin with.
LEMMA SoundInit ==
  ASSUME Init
  PROVE  Sound
<1>1. feedback \in Seq(Entry)
  <2>1. CASE feedback = <<>>
    BY <2>1
  <2>2. CASE feedback \in {<<[job |-> Earlier, choice |-> c]>> : c \in Choice}
    <3>1. PICK c \in Choice : feedback = <<[job |-> Earlier, choice |-> c]>>
      BY <2>2
    <3>2. [job |-> Earlier, choice |-> c] \in Entry
      BY DEF Entry
    <3> QED BY <3>1, <3>2
  <2> QED BY <2>1, <2>2 DEF Init
<1>2. TypeOK
  BY <1>1, ConstantsOK, RecordsTyped DEF Init, TypeOK, Control, MaybeChoice
<1>3. \A k \in Job : Entries(k) = {}
  BY InitEntries, ConstantsOK DEF Entries
<1>4. Ledger
  BY <1>3 DEF Init, Ledger
<1>5. \A k \in Job : Shaped(k) /\ Coupled(k)
  BY <1>3 DEF Init, Shaped, Coupled, NoManifest, Absent, Terminal
<1> QED BY <1>2, <1>4, <1>5 DEF Sound, ApplyInv

\* The variables keep their types and the invariant holds in every behaviour:
\* whatever fails, crashes or is touched, the feedback, the manifests and the
\* records agree on what each job has entered.
THEOREM ApplySound == Spec => []Sound
<1>1. Init => Sound
  BY SoundInit
<1>2. Sound /\ [Next]_vars => Sound'
  BY SoundSteps
<1> QED BY <1>1, <1>2, PTL DEF Spec

\* Every variable of AdminPanelService keeps its type.
THEOREM TypeCorrect == Spec => []TypeOK
<1>1. Sound => TypeOK
  BY DEF Sound
<1> QED BY <1>1, ApplySound, PTL

\* The indices of a job's feedback and the choices it entered are the same fact.
LEMMA EnteredEntries ==
  ASSUME Sound, NEW j \in Job
  PROVE  /\ \A i \in Entered(j) : feedback[i].choice \in Entries(j)
         /\ \A c \in Entries(j) : \E i \in Entered(j) : feedback[i].choice = c
<1>1. ASSUME NEW i \in Entered(j) PROVE feedback[i].choice \in Entries(j)
  <2>1. i \in DOMAIN feedback /\ feedback[i] \in Entry /\ feedback[i].job = j
    BY DEF Entered, Sound, TypeOK
  <2>2. feedback[i] = [job |-> j, choice |-> feedback[i].choice] /\ feedback[i].choice \in Choice
    BY <2>1 DEF Entry
  <2> QED BY <2>1, <2>2 DEF Entries
<1>2. ASSUME NEW c \in Entries(j) PROVE \E i \in Entered(j) : feedback[i].choice = c
  <2>1. PICK i \in DOMAIN feedback : feedback[i] = [job |-> j, choice |-> c]
    BY DEF Entries
  <2> QED BY <2>1 DEF Entered
<1> QED BY <1>1, <1>2

\* Every entry of the feedback stands beside the manifest it came from.
THEOREM WriteAhead == Spec => []CommittedIsPlanned
<1>1. Sound => CommittedIsPlanned
  BY EnteredEntries, SoundOf DEF CommittedIsPlanned, Shaped
<1> QED BY <1>1, ApplySound, PTL

\* What is offered as a result has been entered, and as it was entered.
THEOREM ReadyCommitted == Spec => []ReadyIsCommitted
<1>1. ASSUME Sound, NEW j \in Job
      PROVE  /\ mem[j].status = "ready" => Entered(j) # {}
             /\ manifest[j].status = "ready" =>
                  \E i \in Entered(j) : feedback[i].choice = manifest[j].digest
  <2>1. mem[j].status = "ready" => Entered(j) # {}
    BY <1>1, SoundOf, EnteredEntries DEF Coupled
  <2>2. ASSUME manifest[j].status = "ready"
        PROVE  \E i \in Entered(j) : feedback[i].choice = manifest[j].digest
    <3>1. PICK c \in Entries(j) : manifest[j] = Published(c)
      BY <1>1, <2>2, SoundOf DEF Shaped
    <3> QED BY <1>1, <3>1, EnteredEntries DEF Published
  <2> QED BY <2>1, <2>2
<1>2. Sound => ReadyIsCommitted
  BY <1>1 DEF ReadyIsCommitted
<1> QED BY <1>2, ApplySound, PTL

\* A review that can be edited has entered nothing.
THEOREM ReviewsAreOpen == Spec => []NeverReopened
<1>1. ASSUME Sound, NEW j \in Job, mem[j].status = "review_required"
      PROVE  Entered(j) = {} /\ manifest[j] = Plain("review_required")
  <2>1. manifest[j] = Plain("review_required")
    BY <1>1, SoundOf DEF Coupled
  <2>2. Entries(j) = {}
    BY <1>1, <2>1, SoundOf, NotEntered
  <2> QED BY <1>1, <2>1, <2>2, EnteredEntries
<1>2. Sound => NeverReopened
  BY <1>1 DEF NeverReopened
<1> QED BY <1>2, ApplySound, PTL
-----------------------------------------------------------------------------
\* What each job has published, as the promise sees it.
Result == [j \in Job |-> IF manifest[j].status = "ready" THEN manifest[j].digest ELSE NoChoice]

\* A manifest that changes was not ready, and the feedback stands; or the
\* manifests stand, and the feedback grows by the first entry of one job.
Advances(j) ==
  \/ /\ UNCHANGED feedback
     /\ \A k \in Job \ {j} : manifest'[k] = manifest[k]
     /\ manifest[j].status = "ready" => manifest'[j] = manifest[j]
  \/ /\ UNCHANGED manifest
     /\ \E c \in Choice : /\ Entries(j) = {}
                          /\ feedback' = Append(feedback, [job |-> j, choice |-> c])

\* The transaction of a plan enters it once.
LEMMA CommitAdvances ==
  ASSUME Sound, NEW j \in Job, NEW c \in Choice, manifest[j] = Planned(c),
         CommitApply(j, c, c), UNCHANGED manifest
  PROVE  Advances(j)
<1>1. \/ UNCHANGED feedback
      \/ c \notin Entries(j) /\ feedback' = Append(feedback, [job |-> j, choice |-> c])
  BY SoundOf, CommitEffect
<1>2. Entries(j) \subseteq {c}
  BY SoundOf, EnteredPlan
<1> QED BY <1>1, <1>2 DEF Advances

\* Only the two publishing actions make a manifest ready, and no action of a
\* job touches one that is.
LEMMA MovesAdvance ==
  ASSUME Sound, NEW j \in Job, Moves(j)
  PROVE  Advances(j)
<1>1. manifest \in [Job -> Manifest] /\ Coupled(j) /\ Shaped(j)
  BY SoundOf DEF TypeOK
<1>2. CASE CreateJob(j) \/ Prepared(j) \/ PrepareFailed(j) \/ CreateFails(j)
  <2>1. manifest[j].status # "ready"
    BY <1>1, <1>2 DEF CreateJob, Prepared, PrepareFailed, CreateFails, Coupled, NoManifest, Plain
  <2> QED BY <1>1, <1>2, <2>1 DEF CreateJob, Prepared, PrepareFailed, CreateFails, db, Advances
<1>3. CASE \/ \E c \in MaybeChoice : Decide(j, c)
           \/ CommitFails(j) \/ RecoverReview(j) \/ RecoverReady(j) \/ Skip(j) \/ Tamper(j)
  BY <1>1, <1>3 DEF Decide, CommitFails, RecoverReview, RecoverReady, Skip, Tamper, disk, db, Advances
<1>4. CASE ApplyBegin(j) \/ ApplyWrite(j) \/ ApplyAborts(j) \/ ApplyPlan(j) \/ ApplyPublish(j)
  <2>1. manifest[j].status # "ready"
    BY <1>1, <1>4 DEF ApplyBegin, ApplyWrite, ApplyAborts, ApplyPlan, ApplyPublish, Coupled,
       Plain, Planned
  <2> QED BY <1>1, <1>4, <2>1 DEF ApplyBegin, ApplyWrite, ApplyAborts, ApplyPlan, ApplyPublish,
             db, Advances
<1>5. CASE RecoverInterrupted(j) \/ Settle(j)
  <2>1. manifest[j].status # "ready"
    BY <1>1, <1>5 DEF RecoverInterrupted, Interrupted, Settle, Coupled
  <2> QED BY <1>1, <1>5, <2>1 DEF RecoverInterrupted, Settle, db, Advances
<1>6. CASE ApplyCommit(j)
  BY <1>1, <1>6, CommitAdvances DEF ApplyCommit, Coupled, disk
<1>7. CASE Replay(j)
  <2>1. PICK c \in Choice : manifest[j] = Planned(c)
    BY <1>1, <1>7 DEF Replay, Replayable, Shaped, Plain, NoManifest, Planned, Published
  <2>2. manifest[j].plan = c /\ manifest[j].digest = c
    BY <2>1 DEF Planned
  <2> QED BY <1>7, <2>1, <2>2, CommitAdvances DEF Replay, disk
<1> QED BY <1>2, <1>3, <1>4, <1>5, <1>6, <1>7 DEF Moves, ApplyStep, RecoverStep

\* A job that advances enters, publishes, or does nothing the promise sees.
LEMMA AdvancesImplements ==
  ASSUME Sound, Sound', NEW j \in Job, Advances(j)
  PROVE  [Promise!Next]_<<feedback, Result>>
<1>1. CASE UNCHANGED feedback /\ manifest'[j].status = "ready" /\ manifest[j].status # "ready"
           /\ \A k \in Job \ {j} : manifest'[k] = manifest[k]
  <2>1. PICK c \in Entries(j)' : manifest'[j] = Published(c)
    BY <1>1, SoundOf DEF Sound, ApplyInv, Shaped
  <2>2. c \in Entries(j)
    BY <1>1, <2>1 DEF Entries
  <2>3. PICK i \in Entered(j) : feedback[i].choice = c
    BY <2>2, EnteredEntries
  <2>4. Result[j] = NoChoice /\ Result' = [Result EXCEPT ![j] = c]
    <3>1. manifest'[j].status = "ready" /\ manifest'[j].digest = c
      BY <2>1 DEF Published
    <3>2. Result' = [k \in Job |-> IF k = j THEN c ELSE Result[k]]
      BY <1>1, <3>1 DEF Result
    <3>3. Result = [k \in Job |-> Result[k]]
      BY DEF Result
    <3> QED BY <1>1, <3>2, <3>3 DEF Result
  <2>5. i \in Promise!Entered(j)
    BY <2>3 DEF Entered, Promise!Entered
  <2>6. Promise!Publish(j)
    BY <1>1, <2>3, <2>4, <2>5 DEF Promise!Publish, Result
  <2> QED BY <2>6 DEF Promise!Next
<1>2. CASE UNCHANGED feedback /\ \A k \in Job : \/ manifest'[k] = manifest[k]
                                                \/ manifest[k].status # "ready" /\ manifest'[k].status # "ready"
  <2>1. Result' = Result
    BY <1>2 DEF Result
  <2> QED BY <1>2, <2>1
<1>3. ASSUME UNCHANGED manifest, NEW c \in Choice, Entries(j) = {},
             feedback' = Append(feedback, [job |-> j, choice |-> c])
      PROVE  [Promise!Next]_<<feedback, Result>>
  <2>1. Result' = Result
    BY <1>3 DEF Result
  <2>2. Promise!Entered(j) = {}
    BY <1>3, EnteredEntries DEF Entered, Promise!Entered
  <2>3. Promise!Enter(j, c)
    BY <1>3, <2>1, <2>2 DEF Promise!Enter, Result
  <2> QED BY <2>3 DEF Promise!Next
<1> QED BY <1>1, <1>2, <1>3 DEF Advances

\* Applying reconciliation reviews implements the promise: a job's decisions
\* enter the feedback at most once, and only what was entered is published.
THEOREM AppliesExactlyOnce == Spec => ExactlyOnce
<1>1. Init => Promise!Init
  <2> SUFFICES ASSUME Init PROVE Promise!Init
    OBVIOUS
  <2>1. \A j \in Job : Promise!Entered(j) = {}
    BY InitEntries, ConstantsOK DEF Promise!Entered
  <2>2. Result = [j \in Job |-> NoChoice]
    BY DEF Init, Result, NoManifest
  <2> QED BY <2>1, <2>2 DEF Promise!Init, Result
<1>2. Sound /\ Sound' /\ [Next]_vars => [Promise!Next]_<<feedback, Result>>
  <2> SUFFICES ASSUME Sound, Sound', [Next]_vars PROVE [Promise!Next]_<<feedback, Result>>
    OBVIOUS
  <2>1. CASE Service
    <3>1. UNCHANGED <<manifest, feedback>>
      BY <2>1, ServiceKeeps DEF db
    <3>2. Result' = Result
      BY <3>1 DEF Result
    <3> QED BY <3>1, <3>2
  <2>2. ASSUME NEW j \in Job, Moves(j) PROVE [Promise!Next]_<<feedback, Result>>
    BY <2>2, MovesAdvance, AdvancesImplements
  <2> QED BY <2>1, <2>2, SomebodyMoves
<1> QED BY <1>1, <1>2, ApplySound, PTL DEF Spec, ExactlyOnce, Promise!Spec, Result
=============================================================================
