------------------------ MODULE DrawingCardJobProofs ------------------------
(***************************************************************************)
(* Theorems about DrawingCardJob, for every number of threads and slots    *)
(* and every bound.                                                        *)
(***************************************************************************)
EXTENDS DrawingCardJob, TLAPS

\* The record a thread has saved, and the document built from it, are typed.
LEMMA SaveTyped ==
  ASSUME loc \in [Threads -> Locals], pc \in [Threads -> PC],
         NEW t \in Threads, NEW l \in Locals, NEW j \in Job,
         NEW r \in SUBSET Nat, NEW next \in Labels,
         Save(t, l, j, r, next)
  PROVE  /\ job' \in Job /\ raised' \subseteq Nat
         /\ pc' \in [Threads -> PC] /\ loc' \in [Threads -> Locals]
<1>1. ManifestFor(j, r) \in Manifest
  BY DEF ManifestFor, Manifest, Job
<1>2. [l EXCEPT !.doc = ManifestFor(j, r), !.next = next] \in Locals
  BY <1>1 DEF Locals
<1>3. "commit" \in PC
  BY DEF PC
<1> QED BY <1>2, <1>3 DEF Save

\* A thread that ends leaves typed locals.
LEMMA EndsTyped ==
  ASSUME loc \in [Threads -> Locals], pc \in [Threads -> PC], freeSlots \in Nat,
         NEW t \in Threads, Ends(t)
  PROVE  /\ pc' \in [Threads -> PC] /\ loc' \in [Threads -> Locals]
         /\ freeSlots' \in Nat
<1>1. NoLocals \in Locals
  BY DEF NoLocals, Locals, Kinds, Outcomes, Labels, NewJob, Job, Status, Active, Terminal
<1>2. "idle" \in PC
  BY DEF PC, Labels
<1> QED BY <1>1, <1>2 DEF Ends

\* The constant records, and the records the actions compute, are typed.
LEMMA RecordsTyped ==
  /\ NewJob \in Job
  /\ NoLocals \in Locals
  /\ \A j \in Job : Failed(j) \in Job /\ Cancelled(j) \in Job
  /\ \A m \in Manifest : JobFrom(m) \in Job
  /\ \A n \in Nat : ResultOf(n) \in Path /\ ReviewOf(n) \in Path /\ CompletedOf(n) \in Path
<1>1. NewJob \in Job
  BY DEF NewJob, Job, Status, Active, Terminal
<1>2. NoLocals \in Locals
  BY <1>1 DEF NoLocals, Locals, Kinds, Outcomes, Labels
<1>3. \A j \in Job : Failed(j) \in Job /\ Cancelled(j) \in Job
  BY DEF Failed, Cancelled, Job, Status, Active, Terminal
<1>4. \A m \in Manifest : JobFrom(m) \in Job
  BY DEF JobFrom, Manifest, Job
<1>5. \A n \in Nat : ResultOf(n) \in Path /\ ReviewOf(n) \in Path /\ CompletedOf(n) \in Path
  BY DEF ResultOf, ReviewOf, CompletedOf, Path
<1> QED BY <1>1, <1>2, <1>3, <1>4, <1>5

\* What TypeOK says of the variables that Save and Ends leave alone.
RestTyped ==
  /\ service \in {"empty", "up", "down", "lost"}
  /\ deferred \in BOOLEAN /\ tampered \in BOOLEAN
  /\ disk \in Manifest \cup {Nil} /\ files \subseteq Path
  /\ freeSlots \in Nat
  /\ promise \in [cancel : BOOLEAN, choice : BOOLEAN]
  /\ spent \in [{"cancels", "retries", "applies", "faults", "crashes", "tampers"} -> Nat]

\* A step that saves a typed record and keeps the rest typed keeps TypeOK.
LEMMA SaveStep ==
  ASSUME TypeOK, RestTyped', NEW t \in Threads, NEW l \in Locals, NEW j \in Job,
         NEW r \in SUBSET Nat, NEW next \in Labels,
         Save(t, l, j, r, next)
  PROVE  TypeOK'
BY SaveTyped DEF TypeOK, RestTyped

\* The same for a step that ends its thread.
LEMMA EndStep ==
  ASSUME TypeOK, NEW t \in Threads, Ends(t), job' \in Job, raised' \in SUBSET Nat,
         freeSlots' \in Nat => RestTyped'
  PROVE  TypeOK'
BY EndsTyped DEF TypeOK, RestTyped

\* What a saved step leaves behind: the record, its document, the other threads.
LEMMA SaveSays ==
  ASSUME TypeOK, NEW t \in Threads, NEW l \in Locals, NEW j, NEW r, NEW next,
         Save(t, l, j, r, next)
  PROVE  /\ job' = j /\ raised' = r /\ pc'[t] = "commit"
         /\ loc'[t].doc = ManifestFor(j, r) /\ loc'[t].next = next
         /\ loc'[t].before = l.before /\ loc'[t].attempt = l.attempt
         /\ loc'[t].kind = l.kind /\ loc'[t].saved = l.saved
         /\ \A u \in Threads : u # t => pc'[u] = pc[u] /\ loc'[u] = loc[u]
<1> DEFINE d == ManifestFor(j, r)
           k == [l EXCEPT !.doc = d, !.next = next]
<1>1. /\ k.doc = d /\ k.next = next /\ k.before = l.before /\ k.attempt = l.attempt
      /\ k.kind = l.kind /\ k.saved = l.saved
  BY DEF Locals
<1>2. loc'[t] = k /\ \A u \in Threads : u # t => loc'[u] = loc[u]
  BY DEF Save, TypeOK
<1>3. /\ job' = j /\ raised' = r /\ pc'[t] = "commit"
      /\ \A u \in Threads : u # t => pc'[u] = pc[u]
  BY DEF Save, TypeOK
<1> QED BY <1>1, <1>2, <1>3

\* Every step of a thread, of the clients and of the environment keeps the types
\* of all variables.
LEMMA TypeStep ==
  ASSUME TypeOK, [Next]_vars
  PROVE  TypeOK'
<1>0. Api \in Threads /\ Workers \subseteq Threads
  BY DEF Threads
<1>1. CASE CreateJob
  <2> DEFINE l == [NoLocals EXCEPT !.kind = "create"]
             j == NewJob
             r == {}
  <2>1. l \in Locals
    BY RecordsTyped DEF Locals, Kinds, TypeOK
  <2>2. j \in Job
    BY RecordsTyped DEF TypeOK
  <2>3. r \in SUBSET Nat
    BY DEF TypeOK
  <2>4. Save(Api, l, j, r, "schedule")
    BY <1>1 DEF CreateJob
  <2>5. RestTyped'
    BY <1>1 DEF CreateJob, RestTyped, TypeOK
  <2> HIDE DEF l, j, r
  <2> QED BY <1>0, <2>1, <2>2, <2>3, <2>4, <2>5, SaveStep DEF Labels
<1>2. CASE CancelJob
  <2> DEFINE l == [NoLocals EXCEPT !.kind = "cancel"]
             j == job
             r == raised \cup {job.ev}
  <2>1. l \in Locals
    BY RecordsTyped DEF Locals, Kinds, TypeOK
  <2>2. j \in Job
    BY RecordsTyped DEF TypeOK
  <2>3. r \in SUBSET Nat
    BY DEF TypeOK, Job
  <2>4. Save(Api, l, j, r, "settle")
    BY <1>2 DEF CancelJob
  <2>5. RestTyped'
    BY <1>2 DEF CancelJob, RestTyped, TypeOK, Spend
  <2> HIDE DEF l, j, r
  <2> QED BY <1>0, <2>1, <2>2, <2>3, <2>4, <2>5, SaveStep DEF Labels
<1>3. CASE RetryJob
  <2> DEFINE l == [NoLocals EXCEPT !.kind = "retry", !.before = job]
             j == [job EXCEPT !.status = "queued", !.result = Nil, !.review = Nil, !.ev = @ + 1]
             r == raised
  <2>1. l \in Locals
    BY RecordsTyped DEF Locals, Kinds, TypeOK
  <2>2. j \in Job
    <3>1. job \in Job /\ job.ev + 1 \in Nat /\ "queued" \in Status
      BY DEF TypeOK, Job, Status, Active
    <3> QED BY <3>1 DEF Job
  <2>3. r \in SUBSET Nat
    BY DEF TypeOK
  <2>4. Save(Api, l, j, r, "schedule")
    BY <1>3 DEF RetryJob
  <2>5. RestTyped'
    BY <1>3 DEF RetryJob, RestTyped, TypeOK, Spend
  <2> HIDE DEF l, j, r
  <2> QED BY <1>0, <2>1, <2>2, <2>3, <2>4, <2>5, SaveStep DEF Labels
<1>4. CASE PutReview
  <2> DEFINE l == [NoLocals EXCEPT !.kind = "put", !.before = job]
             j == [job EXCEPT !.choices = TRUE]
             r == raised
  <2>1. l \in Locals
    BY RecordsTyped DEF Locals, Kinds, TypeOK
  <2>2. j \in Job
    BY DEF TypeOK, Job
  <2>3. r \in SUBSET Nat
    BY DEF TypeOK
  <2>4. Save(Api, l, j, r, "leave")
    BY <1>4 DEF PutReview
  <2>5. RestTyped'
    BY <1>4 DEF PutReview, RestTyped, TypeOK
  <2> HIDE DEF l, j, r
  <2> QED BY <1>0, <2>1, <2>2, <2>3, <2>4, <2>5, SaveStep DEF Labels
<1>5. CASE ApplyInlineReview
  <2> DEFINE l == [NoLocals EXCEPT !.kind = "apply"]
             j == job
             r == raised
  <2>1. l \in Locals
    BY RecordsTyped DEF Locals, Kinds, TypeOK
  <2>2. j \in Job
    BY RecordsTyped DEF TypeOK
  <2>3. r \in SUBSET Nat
    BY DEF TypeOK
  <2>4. Save(Api, l, j, r, "entered")
    BY <1>5 DEF ApplyInlineReview
  <2>5. RestTyped'
    <3>1. promise' \in [cancel : BOOLEAN, choice : BOOLEAN]
      BY <1>5 DEF ApplyInlineReview, TypeOK
    <3>2. spent' \in [{"cancels", "retries", "applies", "faults", "crashes", "tampers"} -> Nat]
      BY <1>5 DEF ApplyInlineReview, TypeOK, Spend
    <3> QED BY <1>5, <3>1, <3>2 DEF ApplyInlineReview, RestTyped, TypeOK
  <2> HIDE DEF l, j, r
  <2> QED BY <1>0, <2>1, <2>2, <2>3, <2>4, <2>5, SaveStep DEF Labels
<1>6. ASSUME NEW t \in Threads, CheckInputs(t) PROVE TypeOK'
  <2> DEFINE l == loc[t]
             j == Failed(job)
             r == raised
  <2>1. l \in Locals
    BY DEF TypeOK
  <2>2. j \in Job
    BY RecordsTyped DEF TypeOK
  <2>3. r \in SUBSET Nat
    BY DEF TypeOK
  <2>4. Save(t, l, j, r, "leave")
    BY <1>6 DEF CheckInputs
  <2>5. RestTyped'
    BY <1>6 DEF CheckInputs, RestTyped, TypeOK
  <2> HIDE DEF l, j, r
  <2> QED BY <1>0, <2>1, <2>2, <2>3, <2>4, <2>5, SaveStep DEF Labels
<1>7. ASSUME NEW t \in Threads, CheckCancel(t) PROVE TypeOK'
  <2> DEFINE l == loc[t]
             j == Cancelled(job)
             r == raised
  <2>1. l \in Locals
    BY DEF TypeOK
  <2>2. j \in Job
    BY RecordsTyped DEF TypeOK
  <2>3. r \in SUBSET Nat
    BY DEF TypeOK
  <2>4. Save(t, l, j, r, "leave")
    BY <1>7 DEF CheckCancel, FinishCancelled
  <2>5. RestTyped'
    BY <1>7 DEF CheckCancel, RestTyped, TypeOK, FinishCancelled
  <2> HIDE DEF l, j, r
  <2> QED BY <1>0, <2>1, <2>2, <2>3, <2>4, <2>5, SaveStep DEF Labels
<1>8. ASSUME NEW t \in Threads, Begin(t) PROVE TypeOK'
  <2> DEFINE l == [loc[t] EXCEPT !.attempt = job.attempt + 1, !.before = job]
             j == [job EXCEPT !.status = "processing", !.result = Nil, !.review = Nil, !.attempt = @ + 1]
             r == raised
  <2>1. l \in Locals
    <3>1. loc[t] \in Locals /\ job \in Job /\ job.attempt + 1 \in Nat
      BY DEF TypeOK, Job
    <3> QED BY <3>1 DEF Locals
  <2>2. j \in Job
    <3>1. job \in Job /\ job.attempt + 1 \in Nat /\ "processing" \in Status
      BY DEF TypeOK, Job, Status, Active
    <3> QED BY <3>1 DEF Job
  <2>3. r \in SUBSET Nat
    BY DEF TypeOK
  <2>4. Save(t, l, j, r, "launch")
    BY <1>8 DEF Begin
  <2>5. RestTyped'
    BY <1>8 DEF Begin, RestTyped, TypeOK
  <2> HIDE DEF l, j, r
  <2> QED BY <1>0, <2>1, <2>2, <2>3, <2>4, <2>5, SaveStep DEF Labels
<1>9. ASSUME NEW t \in Threads, Progress(t) PROVE TypeOK'
  <2> DEFINE l == [loc[t] EXCEPT !.told = TRUE]
             j == job
             r == raised
  <2>1. l \in Locals
    <3>1. loc[t] \in Locals
      BY DEF TypeOK
    <3> QED BY <3>1 DEF Locals
  <2>2. j \in Job
    BY RecordsTyped DEF TypeOK
  <2>3. r \in SUBSET Nat
    BY DEF TypeOK
  <2>4. Save(t, l, j, r, "running")
    BY <1>9 DEF Progress
  <2>5. RestTyped'
    BY <1>9 DEF Progress, RestTyped, TypeOK
  <2> HIDE DEF l, j, r
  <2> QED BY <1>0, <2>1, <2>2, <2>3, <2>4, <2>5, SaveStep DEF Labels
<1>10. ASSUME NEW t \in Threads, RunnerCancelled(t) PROVE TypeOK'
  <2> DEFINE l == loc[t]
             j == Cancelled(job)
             r == raised
  <2>1. l \in Locals
    BY DEF TypeOK
  <2>2. j \in Job
    BY RecordsTyped DEF TypeOK
  <2>3. r \in SUBSET Nat
    BY DEF TypeOK
  <2>4. Save(t, l, j, r, "leave")
    BY <1>10 DEF RunnerCancelled, FinishCancelled
  <2>5. RestTyped'
    BY <1>10 DEF RunnerCancelled, RestTyped, TypeOK, FinishCancelled
  <2> HIDE DEF l, j, r
  <2> QED BY <1>0, <2>1, <2>2, <2>3, <2>4, <2>5, SaveStep DEF Labels
<1>11. ASSUME NEW t \in Threads, RunnerRaises(t) PROVE TypeOK'
  <2> DEFINE l == loc[t]
             j == Failed(job)
             r == raised
  <2>1. l \in Locals
    BY DEF TypeOK
  <2>2. j \in Job
    BY RecordsTyped DEF TypeOK
  <2>3. r \in SUBSET Nat
    BY DEF TypeOK
  <2>4. Save(t, l, j, r, "leave")
    BY <1>11 DEF RunnerRaises, Excepted
  <2>5. RestTyped'
    BY <1>11 DEF RunnerRaises, RestTyped, TypeOK, Excepted
  <2> HIDE DEF l, j, r
  <2> QED BY <1>0, <2>1, <2>2, <2>3, <2>4, <2>5, SaveStep DEF Labels
<1>12. ASSUME NEW t \in Threads, AfterRunCancelled(t) PROVE TypeOK'
  <2> DEFINE l == loc[t]
             j == Cancelled(job)
             r == raised
  <2>1. l \in Locals
    BY DEF TypeOK
  <2>2. j \in Job
    BY RecordsTyped DEF TypeOK
  <2>3. r \in SUBSET Nat
    BY DEF TypeOK
  <2>4. Save(t, l, j, r, "leave")
    BY <1>12 DEF AfterRunCancelled, FinishCancelled
  <2>5. RestTyped'
    BY <1>12 DEF AfterRunCancelled, RestTyped, TypeOK, FinishCancelled
  <2> HIDE DEF l, j, r
  <2> QED BY <1>0, <2>1, <2>2, <2>3, <2>4, <2>5, SaveStep DEF Labels
<1>13. ASSUME NEW t \in Threads, PublishTampered(t) PROVE TypeOK'
  <2> DEFINE l == loc[t]
             j == Failed(job)
             r == raised
  <2>1. l \in Locals
    BY DEF TypeOK
  <2>2. j \in Job
    BY RecordsTyped DEF TypeOK
  <2>3. r \in SUBSET Nat
    BY DEF TypeOK
  <2>4. Save(t, l, j, r, "leave")
    BY <1>13 DEF PublishTampered, Excepted
  <2>5. RestTyped'
    BY <1>13 DEF PublishTampered, RestTyped, TypeOK, Excepted
  <2> HIDE DEF l, j, r
  <2> QED BY <1>0, <2>1, <2>2, <2>3, <2>4, <2>5, SaveStep DEF Labels
<1>14. ASSUME NEW t \in Threads, PublishReview(t) PROVE TypeOK'
  <2> DEFINE l == loc[t]
             j == [job EXCEPT !.review = ReviewOf(job.attempt), !.choices = FALSE,
                              !.status = IF deferred THEN "processing" ELSE "review_required"]
             r == raised
  <2>1. l \in Locals
    BY DEF TypeOK
  <2>2. j \in Job
    <3>1. (IF deferred THEN "processing" ELSE "review_required") \in Status
      BY DEF Status, Active
    <3>2. ReviewOf(job.attempt) \in Path
      BY RecordsTyped DEF TypeOK, Job
    <3> QED BY <3>1, <3>2 DEF TypeOK, Job
  <2>3. r \in SUBSET Nat
    BY DEF TypeOK
  <2>4. Save(t, l, j, r, "leave")
    BY <1>14 DEF PublishReview
  <2>5. RestTyped'
    BY <1>14 DEF PublishReview, RestTyped, TypeOK
  <2> HIDE DEF l, j, r
  <2> QED BY <1>0, <2>1, <2>2, <2>3, <2>4, <2>5, SaveStep DEF Labels
<1>15. ASSUME NEW t \in Threads, PublishResult(t) PROVE TypeOK'
  <2> DEFINE l == loc[t]
             j == [job EXCEPT !.result = ResultOf(job.attempt), !.review = Nil, !.status = "ready"]
             r == raised
  <2>1. l \in Locals
    BY DEF TypeOK
  <2>2. j \in Job
    BY RecordsTyped DEF TypeOK, Job, Status, Active, Terminal
  <2>3. r \in SUBSET Nat
    BY DEF TypeOK
  <2>4. Save(t, l, j, r, "leave")
    BY <1>15 DEF PublishResult
  <2>5. RestTyped'
    BY <1>15 DEF PublishResult, RestTyped, TypeOK
  <2> HIDE DEF l, j, r
  <2> QED BY <1>0, <2>1, <2>2, <2>3, <2>4, <2>5, SaveStep DEF Labels
<1>16. ASSUME NEW t \in Threads, PublishFailure(t) PROVE TypeOK'
  <2> DEFINE l == loc[t]
             j == [job EXCEPT !.status = IF loc[t].outcome = "blocked" \/ (loc[t].outcome = "review" /\ ~HasReview(t))
                                        THEN "blocked" ELSE "failed"]
             r == raised
  <2>1. l \in Locals
    BY DEF TypeOK
  <2>2. j \in Job
    BY DEF TypeOK, Job, Status, Active, Terminal
  <2>3. r \in SUBSET Nat
    BY DEF TypeOK
  <2>4. Save(t, l, j, r, "leave")
    BY <1>16 DEF PublishFailure
  <2>5. RestTyped'
    BY <1>16 DEF PublishFailure, RestTyped, TypeOK
  <2> HIDE DEF l, j, r
  <2> QED BY <1>0, <2>1, <2>2, <2>3, <2>4, <2>5, SaveStep DEF Labels
<1>17. ASSUME NEW t \in Threads, LeaveApply(t) PROVE TypeOK'
  <2> DEFINE l == [loc[t] EXCEPT !.kind = "applied"]
             j == job
             r == raised
  <2>1. l \in Locals
    BY DEF TypeOK, Locals, Kinds
  <2>2. j \in Job
    BY RecordsTyped DEF TypeOK
  <2>3. r \in SUBSET Nat
    BY DEF TypeOK
  <2>4. Save(t, l, j, r, "leave")
    BY <1>17 DEF LeaveApply
  <2>5. RestTyped'
    BY <1>17 DEF LeaveApply, RestTyped, TypeOK
  <2> HIDE DEF l, j, r
  <2> QED BY <1>0, <2>1, <2>2, <2>3, <2>4, <2>5, SaveStep DEF Labels
<1>18. CASE RestoreCancelled
  <2> DEFINE l == [NoLocals EXCEPT !.kind = "restore"]
             j == Cancelled(JobFrom(disk))
             r == {0}
  <2>1. l \in Locals
    BY RecordsTyped DEF Locals, Kinds, TypeOK
  <2>2. j \in Job
    BY <1>18, RecordsTyped DEF TypeOK, RestoreCancelled, Restarting
  <2>3. r \in SUBSET Nat
    BY DEF TypeOK
  <2>4. Save(Api, l, j, r, "leave")
    BY <1>18 DEF RestoreCancelled, FinishCancelled
  <2>5. RestTyped'
    BY <1>18 DEF RestoreCancelled, RestTyped, TypeOK, FinishCancelled
  <2> HIDE DEF l, j, r
  <2> QED BY <1>0, <2>1, <2>2, <2>3, <2>4, <2>5, SaveStep DEF Labels
<1>19. CASE RestoreReview
  <2> DEFINE l == [NoLocals EXCEPT !.kind = "recovery", !.saved = disk.choices]
             j == [JobFrom(disk) EXCEPT !.status = "queued"]
             r == {}
  <2>1. l \in Locals
    BY <1>19, RecordsTyped DEF Locals, Kinds, TypeOK, RestoreReview, Restarting, Manifest
  <2>2. j \in Job
    BY <1>19, RecordsTyped DEF TypeOK, RestoreReview, Restarting, Job, Status, Active
  <2>3. r \in SUBSET Nat
    BY DEF TypeOK
  <2>4. Save(Api, l, j, r, "schedule")
    BY <1>19 DEF RestoreReview
  <2>5. RestTyped'
    BY <1>19 DEF RestoreReview, RestTyped, TypeOK
  <2> HIDE DEF l, j, r
  <2> QED BY <1>0, <2>1, <2>2, <2>3, <2>4, <2>5, SaveStep DEF Labels
<1>20. ASSUME NEW t \in Workers, Acquire(t) PROVE TypeOK'
  BY <1>0, <1>20 DEF Acquire, TypeOK, PC, Labels
<1>21. ASSUME NEW t \in Threads, CheckPassed(t) PROVE TypeOK'
  BY <1>0, <1>21 DEF CheckPassed, TypeOK, PC
<1>22. ASSUME NEW t \in Threads, Launch(t) PROVE TypeOK'
  <2>1. job.ev \in Nat /\ "running" \in PC
    BY DEF TypeOK, Job, PC, Labels
  <2>2. [loc[t] EXCEPT !.ev = job.ev] \in Locals
    BY <2>1 DEF TypeOK, Locals
  <2>3. loc' \in [Threads -> Locals]
    BY <1>22, <2>2 DEF TypeOK, Launch
  <2> QED BY <1>22, <2>1, <2>3 DEF Launch, TypeOK
<1>23. ASSUME NEW t \in Threads, RunnerWrites(t) PROVE TypeOK'
  <2>1. loc[t].attempt \in Nat
    BY DEF TypeOK, Locals
  <2> QED BY <1>23, <2>1, RecordsTyped DEF RunnerWrites, TypeOK
<1>24. ASSUME NEW t \in Threads, RunnerReturns(t) PROVE TypeOK'
  BY <1>0, <1>24 DEF RunnerReturns, TypeOK, Locals, PC
<1>25. ASSUME NEW t \in Threads, AfterRunProceeds(t) PROVE TypeOK'
  BY <1>0, <1>25 DEF AfterRunProceeds, TypeOK, PC
<1>26. ASSUME NEW t \in Workers, Schedule(t) PROVE TypeOK'
  <2>1. [NoLocals EXCEPT !.kind = IF loc[Api].kind = "recovery" THEN "recovery" ELSE "run",
                         !.saved = loc[Api].saved] \in Locals
    BY <1>0, RecordsTyped DEF TypeOK, Locals, Kinds
  <2>2. loc' \in [Threads -> Locals]
    BY <1>0, <1>26, <2>1, RecordsTyped DEF Schedule, TypeOK
  <2>3. pc' \in [Threads -> PC]
    BY <1>0, <1>26 DEF Schedule, TypeOK, PC, Labels
  <2> QED BY <1>26, <2>2, <2>3 DEF Schedule, TypeOK
<1>27. ASSUME NEW t \in Threads, Leave(t) PROVE TypeOK'
  <2>1. freeSlots' \in Nat => RestTyped'
    BY <1>27 DEF Leave, RestTyped, TypeOK
  <2>2. job' \in Job /\ raised' \in SUBSET Nat
    BY <1>27, RecordsTyped DEF Leave, TypeOK
  <2> QED BY <1>0, <1>27, <2>1, <2>2, EndStep DEF Leave
<1>28. CASE CreateFails
  <2>1. freeSlots' \in Nat => RestTyped'
    BY <1>28 DEF CreateFails, RestTyped, TypeOK, CommitFails, Spend
  <2>2. job' \in Job /\ raised' \in SUBSET Nat
    BY <1>28, RecordsTyped DEF CreateFails, TypeOK
  <2> QED BY <1>0, <1>28, <2>1, <2>2, EndStep DEF CreateFails
<1>29. CASE RetryFails
  <2>1. freeSlots' \in Nat => RestTyped'
    BY <1>29 DEF RetryFails, RestTyped, TypeOK, CommitFails, Spend
  <2>2. job' \in Job /\ raised' \in SUBSET Nat
    <3>1. loc[Api].before \in Job /\ job \in Job
      BY <1>0 DEF TypeOK, Locals
    <3> QED BY <1>29, <3>1 DEF RetryFails, TypeOK, Job
  <2> QED BY <1>0, <1>29, <2>1, <2>2, EndStep DEF RetryFails
<1>30. ASSUME NEW t \in Threads, TransitionFails(t) PROVE TypeOK'
  <2>1. freeSlots' \in Nat => RestTyped'
    BY <1>30 DEF TransitionFails, RestTyped, TypeOK, CommitFails, Spend
  <2>2. job' \in Job /\ raised' \in SUBSET Nat
    BY <1>30, RecordsTyped DEF TransitionFails, TypeOK, Job, Locals
  <2> QED BY <1>0, <1>30, <2>1, <2>2, EndStep DEF TransitionFails
<1>31. CASE PutFails
  <2>1. freeSlots' \in Nat => RestTyped'
    BY <1>31 DEF PutFails, RestTyped, TypeOK, CommitFails, Spend
  <2>2. job' \in Job /\ raised' \in SUBSET Nat
    <3>1. loc[Api].before \in Job /\ job \in Job
      BY <1>0 DEF TypeOK, Locals
    <3> QED BY <1>31, <3>1 DEF PutFails, TypeOK, Job
  <2> QED BY <1>0, <1>31, <2>1, <2>2, EndStep DEF PutFails
<1>32. CASE RestoreFails
  <2>1. freeSlots' \in Nat => RestTyped'
    BY <1>32 DEF RestoreFails, RestTyped, TypeOK, Spend
  <2>2. job' \in Job /\ raised' \in SUBSET Nat
    BY <1>32, RecordsTyped DEF RestoreFails, TypeOK
  <2> QED BY <1>0, <1>32, <2>1, <2>2, EndStep DEF RestoreFails, Spend
<1>33. ASSUME NEW t \in Threads, WriteRaises(t) PROVE TypeOK'
  <2>1. freeSlots' \in Nat => RestTyped'
    BY <1>33 DEF WriteRaises, RestTyped, TypeOK, CommitFails, Spend
  <2>2. job' \in Job /\ raised' \in SUBSET Nat
    BY <1>33, RecordsTyped DEF WriteRaises, TypeOK
  <2> QED BY <1>0, <1>33, <2>1, <2>2, EndStep DEF WriteRaises
<1>34. CASE Crash
  <2>1. spent' \in [{"cancels", "retries", "applies", "faults", "crashes", "tampers"} -> Nat]
    BY <1>34 DEF Crash, TypeOK, Spend
  <2>2. Slots \in Nat /\ "idle" \in PC
    BY ConstantsOK DEF PC, Labels
  <2> QED BY <1>34, <2>1, <2>2, RecordsTyped DEF Crash, TypeOK
<1>35. CASE RestoreNothing
  BY <1>0, <1>35 DEF RestoreNothing, TypeOK
<1>36. CASE RestoreTerminal
  BY <1>0, <1>36, RecordsTyped DEF RestoreTerminal, TypeOK, Restarting
<1>37. CASE Tamper
  BY <1>0, <1>37 DEF Tamper, TypeOK, Spend
<1>38. ASSUME NEW t \in Threads, LeaveRecovery(t) PROVE TypeOK'
  <2> DEFINE j == [job EXCEPT !.choices = loc[t].saved, !.status = "review_required"]
             l == [loc[t] EXCEPT !.kind = "recovered"]
  <2>1. loc[t] \in Locals /\ "recovered" \in Kinds /\ job \in Job /\ "review_required" \in Status
    BY DEF TypeOK, Kinds, Status
  <2>2. l \in Locals
    BY <2>1 DEF Locals
  <2>3. j \in Job
    BY <2>1 DEF Job, Locals
  <2>4. CASE Save(t, l, j, raised, "leave") /\ UNCHANGED freeSlots
    <3>1. RestTyped'
      BY <1>38, <2>4 DEF LeaveRecovery, RestTyped, TypeOK
    <3> HIDE DEF j, l
    <3> QED BY <2>2, <2>3, <2>4, <3>1, SaveStep DEF Labels, TypeOK
  <2>5. CASE Ends(t) /\ UNCHANGED <<job, raised>>
    <3>1. freeSlots' \in Nat => RestTyped'
      BY <1>38, <2>5 DEF LeaveRecovery, RestTyped, TypeOK
    <3> QED BY <2>5, <3>1, EndStep DEF TypeOK
  <2> QED BY <1>38, <2>4, <2>5 DEF LeaveRecovery
<1>39. CASE Settle
  <2>1. CASE FinishCancelled(Api, loc[Api], job, raised) /\ UNCHANGED <<freeSlots, promise>>
    <3>1. RestTyped'
      BY <1>39, <2>1 DEF Settle, RestTyped, TypeOK, FinishCancelled
    <3>2. loc[Api] \in Locals /\ Cancelled(job) \in Job
      BY <1>0, RecordsTyped DEF TypeOK
    <3> QED BY <1>0, <2>1, <3>1, <3>2, SaveStep DEF FinishCancelled, TypeOK, Labels
  <2>2. CASE Ends(Api) /\ promise' = [promise EXCEPT !.cancel = TRUE] /\ UNCHANGED <<job, raised, files>>
    <3>1. freeSlots' \in Nat => RestTyped'
      BY <1>39, <2>2 DEF Settle, RestTyped, TypeOK
    <3> QED BY <1>0, <2>2, <3>1, EndStep DEF TypeOK
  <2> QED BY <1>39, <2>1, <2>2 DEF Settle
<1>40. ASSUME NEW t \in Threads, ProgressFails(t) PROVE TypeOK'
  <2>1. RestTyped'
    BY <1>40 DEF ProgressFails, CommitFails, Spend, Excepted, RestTyped, TypeOK
  <2>2. loc[t] \in Locals /\ Failed(job) \in Job
    BY RecordsTyped DEF TypeOK
  <2> QED BY <1>40, <2>1, <2>2, SaveStep DEF ProgressFails, Excepted, TypeOK, Labels
<1>41. CASE RestoreActive
  <2>1. JobFrom(disk) \in Job /\ "queued" \in Status
    BY <1>41, RecordsTyped DEF RestoreActive, Restarting, TypeOK, Status, Active
  <2>2. job' \in Job
    BY <1>41, <2>1 DEF RestoreActive, Job
  <2>3. loc' \in [Threads -> Locals]
    BY <1>0, <1>41 DEF RestoreActive, TypeOK, Locals, Kinds
  <2>4. pc' \in [Threads -> PC]
    BY <1>0, <1>41 DEF RestoreActive, TypeOK, PC, Labels
  <2> QED BY <1>41, <2>2, <2>3, <2>4 DEF RestoreActive, TypeOK
<1>42. CASE ApplyWorkbookReview
  <2> DEFINE f == CompletedOf(job.attempt + 1)
             l == [NoLocals EXCEPT !.kind = "workbook"]
  <2>1. f \in Path
    BY RecordsTyped DEF TypeOK, Job
  <2>2. l \in Locals
    BY RecordsTyped DEF Locals, Kinds
  <2> HIDE DEF f, l
  <2>3. job' \in Job /\ files' \subseteq Path
    BY <1>42, <2>1 DEF ApplyWorkbookReview, TypeOK, Job, f
  <2>4. loc' \in [Threads -> Locals] /\ pc' \in [Threads -> PC]
    BY <1>0, <1>42, <2>2 DEF ApplyWorkbookReview, TypeOK, PC, Labels, l
  <2>5. promise' \in [cancel : BOOLEAN, choice : BOOLEAN]
    BY <1>42 DEF ApplyWorkbookReview, TypeOK
  <2>6. spent' \in [{"cancels", "retries", "applies", "faults", "crashes", "tampers"} -> Nat]
    BY <1>42 DEF ApplyWorkbookReview, TypeOK, Spend
  <2> QED BY <1>42, <2>3, <2>4, <2>5, <2>6 DEF ApplyWorkbookReview, TypeOK
<1>43. ASSUME NEW t \in Threads, Commit(t) PROVE TypeOK'
  <2> DEFINE l == [loc[t] EXCEPT !.doc = Nil, !.next = "idle", !.before = NewJob]
  <2>1. loc[t] \in Locals /\ "idle" \in Labels /\ NewJob \in Job
    BY RecordsTyped DEF TypeOK, Labels
  <2>2. l \in Locals
    BY <2>1 DEF Locals
  <2>3. loc' = [loc EXCEPT ![t] = l]
    BY <1>43 DEF Commit
  <2>4. loc[t].doc \in Manifest \cup {Nil} /\ loc[t].next \in PC
    BY <2>1 DEF Locals, PC
  <2> HIDE DEF l
  <2> QED BY <1>43, <2>2, <2>3, <2>4 DEF Commit, TypeOK
<1>44. CASE UNCHANGED vars
  BY <1>44 DEF TypeOK, vars
<1>45. ASSUME NEW t \in Threads, RunStep(t) PROVE TypeOK'
  BY <1>45, <1>6, <1>7, <1>21, <1>8, <1>22, <1>23, <1>9, <1>24, <1>10, <1>11, <1>12,
     <1>25, <1>13, <1>14, <1>15, <1>16, <1>38, <1>17, <1>27, <1>43
  DEF RunStep
<1>46. CASE \E w \in Workers : WorkerStep(w)
  BY <1>0, <1>46, <1>20, <1>45 DEF WorkerStep
<1>47. CASE ApiStep
  BY <1>0, <1>47, <1>45, <1>39, <1>26,
     <1>35, <1>18, <1>41, <1>19, <1>36 DEF ApiStep, Restore
<1>48. CASE Client
  BY <1>48, <1>1, <1>2, <1>3, <1>4, <1>5, <1>42 DEF Client
<1>49. CASE Fault
  BY <1>49, <1>28, <1>29, <1>31, <1>32, <1>30, <1>40, <1>33 DEF Fault
<1> QED BY <1>34, <1>37, <1>44, <1>46, <1>47, <1>48, <1>49 DEF Next

\* TypeOK holds in every state the service, its clients and its crashes reach.
THEOREM TypeCorrect == Spec => []TypeOK
<1>1. Init => TypeOK
  <2>1. Slots \in Nat /\ "idle" \in PC /\ NewJob \in Job /\ NoLocals \in Locals
    BY RecordsTyped, ConstantsOK DEF PC, Labels
  <2>2. [cancels |-> 0, retries |-> 0, applies |-> 0, faults |-> 0, crashes |-> 0, tampers |-> 0]
          \in [{"cancels", "retries", "applies", "faults", "crashes", "tampers"} -> Nat]
    OBVIOUS
  <2>3. [cancel |-> FALSE, choice |-> FALSE] \in [cancel : BOOLEAN, choice : BOOLEAN]
    OBVIOUS
  <2> QED BY <2>1, <2>2, <2>3 DEF Init, TypeOK
<1>2. TypeOK /\ [Next]_vars => TypeOK'
  BY TypeStep
<1> QED BY <1>1, <1>2, PTL DEF Spec

\* Where no manifest write may fail, no step is a failed write.
LEMMA NoFault ==
  ASSUME TypeOK, MaxFaults = 0
  PROVE  ~Fault
<1>1. ~Spend("faults", MaxFaults)
  BY DEF TypeOK, Spend
<1>2. \A t, next : ~CommitFails(t, next)
  BY <1>1 DEF CommitFails
<1> QED BY <1>1, <1>2 DEF Fault, CreateFails, RetryFails, PutFails, RestoreFails, TransitionFails,
                          ProgressFails, WriteRaises

-----------------------------------------------------------------------------
(* CalmInv, the strengthening of the safety invariants of DrawingCardJob,  *)
(* is inductive while clients are patient (Patient) and nobody cancels     *)
(* (MaxCancels = 0); OneRun, FreshAttempt and AttemptMonotonic follow from *)
(* it for every number of threads, slots, retries, faults and crashes.     *)


\* The thread that has just saved, alone, owns the job.
LEMMA SaveOwns ==
  ASSUME TypeOK, TypeOK', NEW t \in Threads, NEW l \in Locals, NEW j \in Job,
         NEW r \in SUBSET Nat, NEW next \in Labels, Save(t, l, j, r, next),
         \A u \in Threads : u # t => pc[u] = "idle",
         service' = "up", UNCHANGED disk,
         t # Api => next \in {"launch", "running", "leave"},
         next = "schedule" => j.status = "queued",
         next \in {"launch", "running"} => j.status = "processing" /\ l.attempt = j.attempt,
         disk = Nil <=> next = "schedule" /\ l.kind = "create",
         next = "launch" => j.attempt = disk.attempt + 1 /\ l.before.attempt = disk.attempt,
         disk # Nil /\ next # "launch" => j.attempt = disk.attempt
  PROVE  Owned(t)'
<1> DEFINE d == ManifestFor(j, r)
           k == [l EXCEPT !.doc = d, !.next = next]
<1>1. d # Nil /\ d.attempt = j.attempt
  <2>1. d \in Manifest
    BY DEF ManifestFor, Manifest, Job
  <2>2. d.attempt = j.attempt
    BY DEF ManifestFor
  <2> QED BY <2>1, <2>2, NilOK
<1>2. k.doc = d /\ k.next = next /\ k.attempt = l.attempt /\ k.kind = l.kind /\ k.before = l.before
  BY DEF Locals
<1>3. loc'[t] = k /\ job' = j /\ pc'[t] = "commit"
  BY DEF Save, TypeOK
<1>4. \A u \in Threads : pc'[u] # "idle" <=> u = t
  BY DEF Save, TypeOK
<1> HIDE DEF d, k
<1> QED BY <1>1, <1>2, <1>3, <1>4 DEF Owned, InsideRun, Writing

\* A thread that has moved on, alone, without saving owns the job.
LEMMA MoveOwns ==
  ASSUME NEW t \in Threads, NEW p, p \notin {"idle", "commit"},
         \A u \in Threads : u # t => pc'[u] = "idle",
         pc'[t] = p, service' = "up", disk' # Nil, job'.attempt = disk'.attempt,
         t # Api => p \notin {"schedule", "settle"},
         (t # Api /\ p \in {"waiting", "entered", "checked"}) \/ p = "schedule"
           => job'.status = "queued",
         p \in {"launch", "running", "returned", "publish"}
           => job'.status = "processing" /\ loc'[t].attempt = job'.attempt
  PROVE  Owned(t)'
BY DEF Owned, InsideRun, Writing

\* A busy thread owns the job.
LEMMA BusyOwns ==
  ASSUME CalmInv, NEW t \in Threads, pc[t] # "idle"
  PROVE  Owned(t)
BY DEF CalmInv, AtRest, Owned
\* A thread that ends leaves the job at rest.
LEMMA EndsRests ==
  ASSUME TypeOK, NEW t \in Threads, Ends(t),
         \A u \in Threads : u # t => pc[u] = "idle",
         service' = "empty" => disk' = Nil,
         service' = "up" => disk' # Nil /\ job'.attempt = disk'.attempt
  PROVE  AtRest'
BY DEF Ends, AtRest, TypeOK

\* Fewer files, the same manifest.
LEMMA FilesShrink ==
  ASSUME FilesBelowDisk, files' \subseteq files, UNCHANGED disk
  PROVE  FilesBelowDisk'
BY DEF FilesBelowDisk


\* A thread that saves a record of the same attempt and goes on to leave (or,
\* after a progress report, back to its runner) still owns the job.
LEMMA SaveStays ==
  ASSUME TypeOK, TypeOK', CalmInv, NEW t \in Threads, Owned(t),
         ~Writing(t, "schedule"), ~Writing(t, "launch"),
         NEW l \in Locals, NEW j \in Job, NEW r \in SUBSET Nat, NEW next \in {"leave", "running"},
         Save(t, l, j, r, next), j.attempt = job.attempt,
         next = "running" => j.status = "processing" /\ l.attempt = j.attempt,
         UNCHANGED <<service, disk>>, files' \subseteq files
  PROVE  CalmInv'
<1>1. /\ disk # Nil /\ job.attempt = disk.attempt /\ service = "up"
      /\ \A u \in Threads : u # t => pc[u] = "idle"
  BY DEF Owned
<1>2. Owned(t)'
  BY <1>1, SaveOwns DEF Labels
<1> QED BY <1>2, FilesShrink DEF CalmInv

\* A thread that moves on with the record and the manifest as they are.
LEMMA MoveStays ==
  ASSUME TypeOK, TypeOK', CalmInv, NEW t \in Threads, Owned(t),
         ~Writing(t, "schedule"), ~Writing(t, "launch"),
         NEW p, pc' = [pc EXCEPT ![t] = p], p \notin {"idle", "commit", "schedule", "settle"},
         UNCHANGED <<service, disk, job>>,
         t # Api /\ p \in {"waiting", "entered", "checked"} => job.status = "queued",
         p \in {"launch", "running", "returned", "publish"}
           => job.status = "processing" /\ loc'[t].attempt = job.attempt,
         FilesBelowDisk'
  PROVE  CalmInv'
<1>1. /\ disk # Nil /\ job.attempt = disk.attempt /\ service = "up"
      /\ \A u \in Threads : u # t => pc[u] = "idle"
  BY DEF Owned
<1>2. pc'[t] = p /\ \A u \in Threads : u # t => pc'[u] = "idle"
  BY <1>1 DEF TypeOK
<1>3. Owned(t)'
  BY <1>1, <1>2, MoveOwns
<1> QED BY <1>3 DEF CalmInv

\* Whatever a thread of the run does, one thread at most owns the job.
LEMMA CalmRun ==
  ASSUME TypeOK, TypeOK', CalmInv, NEW t \in Threads, RunStep(t)
  PROVE  CalmInv'
<1>1. pc[t] # "idle"
  BY DEF RunStep, CheckInputs, CheckCancel, CheckPassed, Begin, Launch, RunnerWrites,
         Progress, RunnerReturns, RunnerCancelled, RunnerRaises, AfterRunCancelled,
         AfterRunProceeds, PublishTampered, PublishReview, PublishResult, PublishFailure,
         LeaveRecovery, LeaveApply, Leave, Commit
<1>2. Owned(t)
  BY <1>1, BusyOwns
<1>3. /\ \A u \in Threads : u # t => pc[u] = "idle"
      /\ service = "up" /\ FilesBelowDisk
      /\ loc[t] \in Locals /\ job \in Job /\ raised \in SUBSET Nat /\ job.attempt \in Nat
  BY <1>2 DEF CalmInv, Owned, TypeOK, Job
<1>4. pc[t] # "commit" => /\ ~Writing(t, "schedule") /\ ~Writing(t, "launch")
                          /\ disk # Nil /\ job.attempt = disk.attempt
  BY <1>2 DEF Owned, Writing
<1>5. /\ Failed(job) \in Job /\ Failed(job).attempt = job.attempt
      /\ Cancelled(job) \in Job /\ Cancelled(job).attempt = job.attempt
  BY <1>3, RecordsTyped DEF Failed, Cancelled, Job
<1>6. CASE CheckInputs(t)
  BY <1>2, <1>3, <1>4, <1>5, <1>6, SaveStays DEF CheckInputs
<1>7. CASE CheckCancel(t)
  BY <1>2, <1>3, <1>4, <1>5, <1>7, SaveStays DEF CheckCancel, FinishCancelled
<1>8. CASE RunnerCancelled(t)
  BY <1>2, <1>3, <1>4, <1>5, <1>8, SaveStays DEF RunnerCancelled, FinishCancelled
<1>9. CASE AfterRunCancelled(t)
  BY <1>2, <1>3, <1>4, <1>5, <1>9, SaveStays DEF AfterRunCancelled, FinishCancelled
<1>10. CASE RunnerRaises(t)
  BY <1>2, <1>3, <1>4, <1>5, <1>10, SaveStays DEF RunnerRaises, Excepted
<1>11. CASE PublishTampered(t)
  BY <1>2, <1>3, <1>4, <1>5, <1>11, SaveStays DEF PublishTampered, Excepted
<1>12. CASE PublishReview(t)
  <2> DEFINE j == [job EXCEPT !.review = ReviewOf(job.attempt), !.choices = FALSE,
                              !.status = IF deferred THEN "processing" ELSE "review_required"]
  <2>1. ReviewOf(job.attempt) \in Path
    BY <1>3, RecordsTyped
  <2>2. (IF deferred THEN "processing" ELSE "review_required") \in Status
    BY DEF Status, Active
  <2>3. j \in Job /\ j.attempt = job.attempt
    BY <1>3, <2>1, <2>2 DEF Job
  <2>4. Save(t, loc[t], j, raised, "leave")
    BY <1>12 DEF PublishReview
  <2> HIDE DEF j
  <2> QED BY <1>2, <1>3, <1>4, <1>12, <2>3, <2>4, SaveStays DEF PublishReview
<1>13. CASE PublishResult(t)
  <2> DEFINE j == [job EXCEPT !.result = ResultOf(job.attempt), !.review = Nil, !.status = "ready"]
  <2>1. ResultOf(job.attempt) \in Path /\ "ready" \in Status
    BY <1>3, RecordsTyped DEF Status, Terminal
  <2>2. j \in Job /\ j.attempt = job.attempt
    BY <1>3, <2>1 DEF Job
  <2>3. Save(t, loc[t], j, raised, "leave")
    BY <1>13 DEF PublishResult
  <2> HIDE DEF j
  <2> QED BY <1>2, <1>3, <1>4, <1>13, <2>2, <2>3, SaveStays DEF PublishResult
<1>14. CASE PublishFailure(t)
  <2> DEFINE s == IF loc[t].outcome = "blocked" \/ (loc[t].outcome = "review" /\ ~HasReview(t))
                  THEN "blocked" ELSE "failed"
             j == [job EXCEPT !.status = s]
  <2>1. s \in Status
    BY DEF Status, Terminal
  <2>2. Save(t, loc[t], j, raised, "leave")
    BY <1>14 DEF PublishFailure
  <2> HIDE DEF s
  <2>3. j \in Job /\ j.attempt = job.attempt
    BY <1>3, <2>1 DEF Job
  <2> HIDE DEF j
  <2> QED BY <1>2, <1>3, <1>4, <1>14, <2>2, <2>3, SaveStays DEF PublishFailure
<1>15. CASE Progress(t)
  <2> DEFINE l == [loc[t] EXCEPT !.told = TRUE]
  <2>1. l \in Locals /\ l.attempt = loc[t].attempt
    BY <1>3 DEF Locals
  <2>2. job.status = "processing" /\ loc[t].attempt = job.attempt
    BY <1>2, <1>15 DEF Progress, Owned, InsideRun
  <2>3. Save(t, l, job, raised, "running")
    BY <1>15 DEF Progress
  <2> HIDE DEF l
  <2> QED BY <1>2, <1>3, <1>4, <1>15, <2>1, <2>2, <2>3, SaveStays DEF Progress
<1>16. CASE LeaveApply(t)
  <2> DEFINE l == [loc[t] EXCEPT !.kind = "applied"]
  <2>1. l \in Locals
    BY <1>3 DEF Locals, Kinds
  <2>2. Save(t, l, job, raised, "leave")
    BY <1>16 DEF LeaveApply
  <2> HIDE DEF l
  <2> QED BY <1>2, <1>3, <1>4, <1>16, <2>1, <2>2, SaveStays DEF LeaveApply
<1>17. CASE LeaveRecovery(t)
  <2> DEFINE l == [loc[t] EXCEPT !.kind = "recovered"]
             j == [job EXCEPT !.choices = loc[t].saved, !.status = "review_required"]
  <2>1. l \in Locals
    BY <1>3 DEF Locals, Kinds
  <2>2. "review_required" \in Status /\ loc[t].saved \in BOOLEAN
    BY <1>3 DEF Status, Locals
  <2>3. j \in Job /\ j.attempt = job.attempt
    BY <1>3, <2>2 DEF Job
  <2>4. CASE Save(t, l, j, raised, "leave")
    <3> HIDE DEF l, j
    <3> QED BY <1>2, <1>3, <1>4, <1>17, <2>1, <2>3, <2>4, SaveStays DEF LeaveRecovery
  <2>5. CASE Ends(t) /\ UNCHANGED <<job, raised>>
    <3>1. AtRest'
      BY <1>3, <1>4, <1>17, <2>5, EndsRests DEF LeaveRecovery
    <3> QED BY <1>3, <1>17, <3>1, FilesShrink DEF LeaveRecovery, CalmInv
  <2> QED BY <1>17, <2>4, <2>5 DEF LeaveRecovery
<1>18. CASE Leave(t)
  <2>1. AtRest'
    BY <1>3, <1>4, <1>18, EndsRests DEF Leave
  <2> QED BY <1>3, <1>18, <2>1, FilesShrink DEF Leave, CalmInv
<1>19. CASE CheckPassed(t)
  <2>1. t # Api => job.status = "queued"
    BY <1>2, <1>19 DEF Owned, CheckPassed
  <2> QED BY <1>2, <1>3, <1>4, <1>19, <2>1, MoveStays, FilesShrink DEF CheckPassed
<1>20. CASE Launch(t)
  <2>1. job.status = "processing" /\ loc'[t].attempt = job.attempt
    BY <1>2, <1>3, <1>20 DEF Owned, InsideRun, Launch, TypeOK, Locals
  <2> QED BY <1>2, <1>3, <1>4, <1>20, <2>1, MoveStays, FilesShrink DEF Launch
<1>21. CASE RunnerReturns(t)
  <2>1. job.status = "processing" /\ loc'[t].attempt = job.attempt
    BY <1>2, <1>3, <1>21 DEF Owned, InsideRun, RunnerReturns, TypeOK, Locals
  <2> QED BY <1>2, <1>3, <1>4, <1>21, <2>1, MoveStays, FilesShrink DEF RunnerReturns
<1>22. CASE AfterRunProceeds(t)
  <2>1. job.status = "processing" /\ loc'[t].attempt = job.attempt
    BY <1>2, <1>3, <1>22 DEF Owned, InsideRun, AfterRunProceeds
  <2> QED BY <1>2, <1>3, <1>4, <1>22, <2>1, MoveStays, FilesShrink DEF AfterRunProceeds
<1>23. CASE RunnerWrites(t)
  <2>1. job.status = "processing" /\ loc[t].attempt = job.attempt
    BY <1>2, <1>23 DEF Owned, InsideRun, RunnerWrites
  <2>2. FilesBelowDisk'
    BY <1>3, <1>4, <1>23, <2>1 DEF RunnerWrites, FilesBelowDisk, ResultOf, ReviewOf
  <2>3. pc' = [pc EXCEPT ![t] = "running"]
    BY <1>23 DEF RunnerWrites, TypeOK
  <2> QED BY <1>2, <1>3, <1>4, <1>23, <2>1, <2>2, <2>3, MoveStays DEF RunnerWrites
<1>24. CASE Begin(t)
  <2> DEFINE l == [loc[t] EXCEPT !.attempt = job.attempt + 1, !.before = job]
             j == [job EXCEPT !.status = "processing", !.result = Nil, !.review = Nil,
                              !.attempt = @ + 1]
  <2>1. disk # Nil /\ job.attempt = disk.attempt /\ job.attempt + 1 \in Nat /\ "processing" \in Status
    BY <1>3, <1>4, <1>24 DEF Begin, Status, Active
  <2>2. l \in Locals
    BY <1>3, <2>1 DEF Locals
  <2>3. l.attempt = job.attempt + 1 /\ l.before = job
    BY <1>3 DEF Locals
  <2>4. j \in Job
    BY <1>3, <2>1 DEF Job
  <2>5. j.attempt = job.attempt + 1 /\ j.status = "processing"
    BY <1>3 DEF Job
  <2>6. Save(t, l, j, raised, "launch")
    BY <1>24 DEF Begin
  <2> HIDE DEF l, j
  <2>7. Owned(t)'
    BY <1>3, <1>24, <2>1, <2>2, <2>3, <2>4, <2>5, <2>6, SaveOwns DEF Begin, Labels
  <2> QED BY <1>3, <1>24, <2>7, FilesShrink DEF CalmInv, Begin
<1>25. CASE Commit(t)
  <2> DEFINE next == loc[t].next
  <2>1. disk' # Nil /\ job'.attempt = disk'.attempt /\ job' = job /\ service' = "up"
    BY <1>2, <1>3, <1>25 DEF Commit, Owned
  <2>2. next \in Labels /\ loc'[t].attempt = loc[t].attempt
    BY <1>3, <1>25 DEF Commit, TypeOK, Locals
  <2>3. pc'[t] = next /\ \A u \in Threads : u # t => pc'[u] = "idle"
    BY <1>3, <1>25 DEF Commit, TypeOK
  <2>4. FilesBelowDisk'
    <3>1. disk # Nil => job.attempt >= disk.attempt /\ disk.attempt \in Nat
      BY <1>2, <1>3 DEF Owned, TypeOK, Manifest
    <3>2. \A f \in files : f[2] \in Nat
      BY DEF TypeOK, Path
    <3> QED BY <1>3, <1>25, <2>1, <3>1, <3>2 DEF FilesBelowDisk, Commit
  <2>5. CASE next = "idle"
    BY <2>1, <2>3, <2>4, <2>5 DEF CalmInv, AtRest
  <2>6. CASE next # "idle"
    <3>1. t # Api => next \notin {"schedule", "settle", "entered", "waiting", "checked"}
      BY <1>2, <1>25 DEF Owned, Commit
    <3>2. next = "schedule" => job.status = "queued"
      BY <1>2, <1>25 DEF Owned, Commit, Writing
    <3>3. next \in {"launch", "running"} => job.status = "processing" /\ loc[t].attempt = job.attempt
      BY <1>2, <1>25 DEF Owned, Commit, InsideRun
    <3> HIDE DEF next
    <3>4. next \notin {"commit", "waiting", "checked", "returned", "publish"}
      BY <2>2 DEF Labels
    <3>5. Owned(t)'
      BY <2>1, <2>2, <2>3, <2>6, <3>1, <3>2, <3>3, <3>4, MoveOwns
    <3> QED BY <2>4, <3>5 DEF CalmInv
  <2> QED BY <2>5, <2>6
<1> QED
  BY <1>6, <1>7, <1>8, <1>9, <1>10, <1>11, <1>12, <1>13, <1>14, <1>15, <1>16, <1>17, <1>18,
     <1>19, <1>20, <1>21, <1>22, <1>23, <1>24, <1>25 DEF RunStep

\* A client that acts on the published status of the job finds it at rest.
LEMMA PatientRests ==
  ASSUME TypeOK, CalmInv, Patient, Idle, Polled, job.status \notin Active
  PROVE  AtRest
<1>1. Api \in Threads
  BY DEF Threads
<1>2. SUFFICES ASSUME NEW t \in Threads, Owned(t) PROVE FALSE
  BY DEF CalmInv
<1>3. pc[t] # "idle" /\ t \in Workers
  BY <1>1, <1>2 DEF Owned, Idle, Threads
<1>4. pc[t] \notin {"commit", "leave", "waiting", "entered", "checked", "schedule", "settle"}
  BY <1>2, <1>3, ConstantsOK DEF Owned, Polled, Active
<1>5. ~InsideRun(t)
  BY <1>2 DEF Owned, Active
<1>6. pc[t] \in PC
  BY DEF TypeOK
<1> QED BY <1>3, <1>4, <1>5, <1>6 DEF PC, Labels, InsideRun

\* The API answers a client with a saved record of the same attempt.
LEMMA CalmClient ==
  ASSUME TypeOK, TypeOK', CalmInv, Patient, MaxCancels = 0, Client
  PROVE  CalmInv'
<1>0. Api \in Threads /\ job \in Job /\ raised \in SUBSET Nat
  BY DEF Threads, TypeOK
<1>1. CASE CreateJob
  <2>1. AtRest /\ disk = Nil
    BY <1>0, <1>1 DEF CalmInv, AtRest, Owned, CreateJob
  <2> DEFINE l == [NoLocals EXCEPT !.kind = "create"]
  <2>2. l \in Locals /\ l.kind = "create"
    BY RecordsTyped DEF Locals, Kinds
  <2>3. Save(Api, l, NewJob, {}, "schedule")
    BY <1>1 DEF CreateJob
  <2>4. NewJob.status = "queued"
    BY DEF NewJob
  <2> HIDE DEF l
  <2>5. Owned(Api)'
    BY <1>0, <1>1, <2>1, <2>2, <2>3, <2>4, RecordsTyped, SaveOwns DEF AtRest, Labels, CreateJob
  <2> QED BY <1>0, <1>1, <2>5, FilesShrink DEF CalmInv, CreateJob
<1>2. CASE CancelJob
  BY <1>2 DEF CancelJob, Spend, TypeOK
<1>3. CASE RetryJob
  <2>1. AtRest /\ service = "up"
    BY <1>3, PatientRests DEF RetryJob, Active, Terminal, Idle
  <2> DEFINE l == [NoLocals EXCEPT !.kind = "retry", !.before = job]
             j == [job EXCEPT !.status = "queued", !.result = Nil, !.review = Nil, !.ev = @ + 1]
  <2>2. l \in Locals /\ l.kind = "retry"
    BY <1>0, RecordsTyped DEF Locals, Kinds
  <2>3. job.ev + 1 \in Nat /\ "queued" \in Status
    BY <1>0 DEF Job, Status, Active
  <2>4. j \in Job
    BY <1>0, <2>3 DEF Job
  <2>5. j.status = "queued" /\ j.attempt = job.attempt
    BY <1>0 DEF Job
  <2>6. Save(Api, l, j, raised, "schedule")
    BY <1>3 DEF RetryJob
  <2> HIDE DEF l, j
  <2>7. Owned(Api)'
    BY <1>0, <1>3, <2>1, <2>2, <2>4, <2>5, <2>6, SaveOwns DEF AtRest, Labels, RetryJob
  <2> QED BY <1>0, <1>3, <2>7, FilesShrink DEF CalmInv, RetryJob
<1>4. CASE PutReview
  <2>1. AtRest /\ service = "up"
    BY <1>4, PatientRests DEF PutReview, Active, Idle
  <2> DEFINE l == [NoLocals EXCEPT !.kind = "put", !.before = job]
             j == [job EXCEPT !.choices = TRUE]
  <2>2. l \in Locals /\ l.kind = "put"
    BY <1>0, RecordsTyped DEF Locals, Kinds
  <2>3. j \in Job /\ j.attempt = job.attempt
    BY <1>0 DEF Job
  <2>4. Save(Api, l, j, raised, "leave")
    BY <1>4 DEF PutReview
  <2> HIDE DEF l, j
  <2>5. Owned(Api)'
    BY <1>0, <1>4, <2>1, <2>2, <2>3, <2>4, SaveOwns DEF AtRest, Labels, PutReview
  <2> QED BY <1>0, <1>4, <2>5, FilesShrink DEF CalmInv, PutReview
<1>5. CASE ApplyInlineReview
  <2>1. AtRest /\ service = "up"
    BY <1>5, PatientRests DEF ApplyInlineReview, Active, Idle
  <2> DEFINE l == [NoLocals EXCEPT !.kind = "apply"]
  <2>2. l \in Locals /\ l.kind = "apply"
    BY <1>0, RecordsTyped DEF Locals, Kinds
  <2>3. Save(Api, l, job, raised, "entered")
    BY <1>5 DEF ApplyInlineReview
  <2> HIDE DEF l
  <2>4. Owned(Api)'
    BY <1>0, <1>5, <2>1, <2>2, <2>3, SaveOwns DEF AtRest, Labels, ApplyInlineReview
  <2> QED BY <1>0, <1>5, <2>4, FilesShrink DEF CalmInv, ApplyInlineReview
<1>6. CASE ApplyWorkbookReview
  <2>1. AtRest /\ service = "up"
    BY <1>6, PatientRests DEF ApplyWorkbookReview, Active, Idle
  <2>2. pc'[Api] = "entered" /\ \A u \in Threads : u # Api => pc'[u] = "idle"
    BY <1>0, <1>6, <2>1 DEF ApplyWorkbookReview, AtRest, TypeOK
  <2>3. disk' # Nil /\ job'.attempt = disk'.attempt /\ service' = "up"
    BY <1>0, <1>6, <2>1 DEF ApplyWorkbookReview, AtRest, Job
  <2>4. Owned(Api)'
    BY <1>0, <2>2, <2>3, MoveOwns
  <2>5. FilesBelowDisk'
    BY <1>6 DEF ApplyWorkbookReview, FilesBelowDisk, CompletedOf, CalmInv
  <2> QED BY <1>0, <2>4, <2>5 DEF CalmInv
<1> QED BY <1>1, <1>2, <1>3, <1>4, <1>5, <1>6 DEF Client

\* The other steps of the API thread: settling, scheduling, restarting.
LEMMA CalmApi ==
  ASSUME TypeOK, TypeOK', CalmInv, ApiStep
  PROVE  CalmInv'
<1>0. Api \in Threads /\ job \in Job /\ raised \in SUBSET Nat
  BY DEF Threads, TypeOK
<1>1. CASE RunStep(Api)
  BY <1>0, <1>1, CalmRun
<1>2. CASE Settle
  <2>1. Owned(Api) /\ ~Writing(Api, "schedule") /\ ~Writing(Api, "launch")
    BY <1>0, <1>2, BusyOwns DEF Settle, Writing
  <2>2. /\ disk # Nil /\ job.attempt = disk.attempt /\ service = "up"
        /\ \A u \in Threads : u # Api => pc[u] = "idle"
    BY <2>1 DEF Owned
  <2>3. /\ loc[Api] \in Locals /\ Cancelled(job) \in Job
        /\ Cancelled(job).attempt = job.attempt
    BY <1>0, RecordsTyped DEF Cancelled, Job, TypeOK
  <2>4. CASE FinishCancelled(Api, loc[Api], job, raised)
    BY <1>0, <1>2, <2>1, <2>3, <2>4, SaveStays DEF Settle, FinishCancelled
  <2>5. CASE Ends(Api) /\ UNCHANGED <<job, raised, files>>
    <3>1. AtRest'
      BY <1>0, <1>2, <2>2, <2>5, EndsRests DEF Settle
    <3> QED BY <1>2, <2>5, <3>1, FilesShrink DEF Settle, CalmInv
  <2> QED BY <1>2, <2>4, <2>5 DEF Settle
<1>3. ASSUME NEW w \in Workers, Schedule(w) PROVE CalmInv'
  <2>1. Owned(Api) /\ ~Writing(Api, "schedule") /\ ~Writing(Api, "launch")
    BY <1>0, <1>3, BusyOwns DEF Schedule, Writing
  <2>2. w \in Threads /\ w # Api
    BY ConstantsOK DEF Threads
  <2>3. pc'[w] = "waiting" /\ \A u \in Threads : u # w => pc'[u] = "idle"
    BY <1>0, <1>3, <2>1, <2>2 DEF Schedule, Owned, TypeOK
  <2>4. disk' # Nil /\ job'.attempt = disk'.attempt /\ service' = "up" /\ job'.status = "queued"
    BY <1>3, <2>1 DEF Schedule, Owned
  <2>5. Owned(w)'
    BY <2>2, <2>3, <2>4, MoveOwns
  <2> QED BY <1>3, <2>2, <2>5, FilesShrink DEF Schedule, CalmInv
<1>4. CASE Restore
  <2>1. service = "down" /\ \A t \in Threads : pc[t] = "idle"
    BY <1>4 DEF Restore, RestoreNothing, RestoreCancelled, RestoreActive, RestoreReview,
       RestoreTerminal, Restarting, CalmInv, AtRest, Owned
  <2>2. CASE RestoreNothing
    <3>1. AtRest'
      BY <2>1, <2>2 DEF RestoreNothing, AtRest
    <3> QED BY <2>2, <3>1, FilesShrink DEF RestoreNothing, CalmInv
  <2>3. CASE RestoreCancelled
    <3> DEFINE l == [NoLocals EXCEPT !.kind = "restore"]
               j == Cancelled(JobFrom(disk))
    <3>1. disk # Nil /\ disk \in Manifest
      BY <2>3 DEF RestoreCancelled, Restarting, TypeOK
    <3>2. l \in Locals
      BY RecordsTyped DEF Locals, Kinds
    <3>3. j \in Job
      BY <3>1, RecordsTyped
    <3>4. j.attempt = disk.attempt
      BY <3>1, RecordsTyped DEF Cancelled, JobFrom, Job
    <3>5. Save(Api, l, j, {0}, "leave") /\ files' \subseteq files
      BY <2>3 DEF RestoreCancelled, FinishCancelled
    <3> HIDE DEF l, j
    <3>6. Owned(Api)'
      BY <1>0, <2>1, <2>3, <3>1, <3>2, <3>3, <3>4, <3>5, SaveOwns DEF RestoreCancelled, Labels
    <3> QED BY <1>0, <2>3, <3>5, <3>6, FilesShrink DEF RestoreCancelled, CalmInv
  <2>4. CASE RestoreActive
    <3>1. disk # Nil /\ disk \in Manifest /\ JobFrom(disk) \in Job
      BY <2>4, RecordsTyped DEF RestoreActive, Restarting, TypeOK
    <3>2. job'.status = "queued" /\ job'.attempt = disk.attempt /\ service' = "up" /\ disk' = disk
      BY <2>4, <3>1 DEF RestoreActive, JobFrom
    <3>3. pc'[Api] = "schedule" /\ \A u \in Threads : u # Api => pc'[u] = "idle"
      BY <1>0, <2>1, <2>4 DEF RestoreActive, TypeOK
    <3>4. Owned(Api)'
      BY <1>0, <3>1, <3>2, <3>3, MoveOwns
    <3> QED BY <1>0, <2>4, <3>4, FilesShrink DEF RestoreActive, CalmInv
  <2>5. CASE RestoreReview
    <3> DEFINE l == [NoLocals EXCEPT !.kind = "recovery", !.saved = disk.choices]
               j == [JobFrom(disk) EXCEPT !.status = "queued"]
    <3>1. disk # Nil /\ disk \in Manifest /\ JobFrom(disk) \in Job /\ disk.choices \in BOOLEAN
      BY <2>5, RecordsTyped DEF RestoreReview, Restarting, TypeOK, Manifest
    <3>2. l \in Locals
      BY <3>1, RecordsTyped DEF Locals, Kinds
    <3>3. l.kind = "recovery"
      BY RecordsTyped DEF Locals
    <3>4. j \in Job
      BY <3>1 DEF Job, Status, Active
    <3>5. j.attempt = disk.attempt /\ j.status = "queued"
      BY <3>1 DEF JobFrom
    <3>6. Save(Api, l, j, {}, "schedule")
      BY <2>5 DEF RestoreReview
    <3> HIDE DEF l, j
    <3>7. Owned(Api)'
      BY <1>0, <2>1, <2>5, <3>1, <3>2, <3>3, <3>4, <3>5, <3>6, SaveOwns DEF RestoreReview, Labels
    <3> QED BY <1>0, <2>5, <3>7, FilesShrink DEF RestoreReview, CalmInv
  <2>6. CASE RestoreTerminal
    <3>1. AtRest'
      BY <2>1, <2>6 DEF RestoreTerminal, Restarting, AtRest, JobFrom
    <3> QED BY <2>6, <3>1, FilesShrink DEF RestoreTerminal, CalmInv
  <2> QED BY <1>4, <2>2, <2>3, <2>4, <2>5, <2>6 DEF Restore
<1> QED BY <1>1, <1>2, <1>3, <1>4 DEF ApiStep

\* A failed manifest write leaves the durable attempt the attempt in memory.
LEMMA CalmFault ==
  ASSUME TypeOK, TypeOK', CalmInv, Fault
  PROVE  CalmInv'
<1>0. Api \in Threads
  BY DEF Threads
<1>1. ASSUME NEW t \in Threads, pc[t] = "commit"
      PROVE  /\ Owned(t) /\ service = "up" /\ \A u \in Threads : u # t => pc[u] = "idle"
             /\ loc[t] \in Locals /\ job \in Job
  BY <1>1, BusyOwns DEF Owned, TypeOK
<1>2. CASE CreateFails
  <2>1. AtRest'
    BY <1>0, <1>1, <1>2, EndsRests DEF CreateFails, CommitFails, Owned, Writing
  <2> QED BY <1>2, <2>1, FilesShrink DEF CreateFails, CalmInv
<1>3. CASE RetryFails
  <2>1. disk # Nil /\ job.attempt = disk.attempt
    BY <1>0, <1>1, <1>3 DEF RetryFails, CommitFails, Owned, Writing
  <2>2. job'.attempt = job.attempt
    BY <1>0, <1>1, <1>3 DEF RetryFails, CommitFails, Job
  <2>3. AtRest'
    BY <1>0, <1>1, <1>3, <2>1, <2>2, EndsRests DEF RetryFails, CommitFails
  <2> QED BY <1>3, <2>3, FilesShrink DEF RetryFails, CalmInv
<1>4. CASE PutFails
  <2>1. disk # Nil /\ job.attempt = disk.attempt
    BY <1>0, <1>1, <1>4 DEF PutFails, CommitFails, Owned, Writing
  <2>2. job'.attempt = job.attempt
    BY <1>0, <1>1, <1>4 DEF PutFails, CommitFails, Job
  <2>3. AtRest'
    BY <1>0, <1>1, <1>4, <2>1, <2>2, EndsRests DEF PutFails, CommitFails
  <2> QED BY <1>4, <2>3, FilesShrink DEF PutFails, CalmInv
<1>5. CASE RestoreFails
  <2>1. AtRest'
    BY <1>0, <1>1, <1>5, EndsRests DEF RestoreFails
  <2> QED BY <1>5, <2>1, FilesShrink DEF RestoreFails, CalmInv
<1>6. ASSUME NEW t \in Threads, TransitionFails(t) PROVE CalmInv'
  <2>1. disk # Nil /\ loc[t].before.attempt = disk.attempt
    BY <1>1, <1>6 DEF TransitionFails, CommitFails, Owned, Writing
  <2>2. job'.attempt = loc[t].before.attempt
    BY <1>1, <1>6 DEF TransitionFails, CommitFails, Job
  <2>3. AtRest'
    BY <1>1, <1>6, <2>1, <2>2, EndsRests DEF TransitionFails, CommitFails
  <2> QED BY <1>6, <2>3, FilesShrink DEF TransitionFails, CalmInv
<1>7. ASSUME NEW t \in Threads, ProgressFails(t) PROVE CalmInv'
  <2>1. ~Writing(t, "schedule") /\ ~Writing(t, "launch")
    BY <1>7 DEF ProgressFails, CommitFails, Writing
  <2>2. Failed(job) \in Job /\ Failed(job).attempt = job.attempt /\ raised \in SUBSET Nat
    BY RecordsTyped DEF Failed, Job, TypeOK
  <2> QED BY <1>1, <1>7, <2>1, <2>2, SaveStays DEF ProgressFails, CommitFails, Excepted
<1>8. ASSUME NEW t \in Threads, WriteRaises(t) PROVE CalmInv'
  <2>1. pc[t] = "commit" /\ ~Writing(t, "schedule") /\ ~Writing(t, "launch")
    BY <1>8 DEF WriteRaises, CommitFails, Writing
  <2>2. disk # Nil /\ job.attempt = disk.attempt
    BY <1>1, <2>1 DEF Owned
  <2>3. AtRest'
    BY <1>1, <1>8, <2>1, <2>2, EndsRests DEF WriteRaises
  <2> QED BY <1>8, <2>3, FilesShrink DEF WriteRaises, CalmInv
<1> QED BY <1>2, <1>3, <1>4, <1>5, <1>6, <1>7, <1>8 DEF Fault

\* CalmInv is inductive while clients are patient and nobody cancels.
LEMMA CalmStep ==
  ASSUME TypeOK, TypeOK', CalmInv, Patient, MaxCancels = 0, [Next]_vars
  PROVE  CalmInv'
<1>1. ASSUME NEW w \in Workers, Acquire(w) PROVE CalmInv'
  <2>1. w \in Threads /\ w # Api /\ pc[w] = "waiting"
    BY <1>1, ConstantsOK DEF Threads, Acquire
  <2>2. Owned(w) /\ ~Writing(w, "schedule") /\ ~Writing(w, "launch")
    BY <2>1, BusyOwns DEF Writing
  <2>3. job.status = "queued" /\ FilesBelowDisk
    BY <2>1, <2>2 DEF Owned, CalmInv
  <2> QED BY <1>1, <2>1, <2>2, <2>3, MoveStays, FilesShrink DEF Acquire
<1>2. ASSUME NEW w \in Workers, RunStep(w) PROVE CalmInv'
  BY <1>2, CalmRun DEF Threads
<1>3. CASE Crash
  BY <1>3 DEF Crash, CalmInv, AtRest, FilesBelowDisk
<1>4. CASE Tamper \/ UNCHANGED vars
  BY <1>4 DEF Tamper, vars, CalmInv, AtRest, Owned, InsideRun, Writing, FilesBelowDisk
<1> QED BY <1>1, <1>2, <1>3, <1>4, CalmApi, CalmClient, CalmFault DEF Next, WorkerStep

\* The same invariant as a theorem of the specification.
THEOREM CalmCorrect ==
  ASSUME Patient, MaxCancels = 0
  PROVE  Spec => []CalmInv
<1>1. Init => CalmInv
  BY DEF Init, CalmInv, FilesBelowDisk, AtRest
<1>2. TypeOK /\ TypeOK' /\ CalmInv /\ [Next]_vars => CalmInv'
  BY CalmStep
<1> QED BY <1>1, <1>2, TypeCorrect, PTL DEF Spec

\* One thread at a time runs the workflow of the job.
THEOREM OneRunCorrect ==
  ASSUME Patient, MaxCancels = 0
  PROVE  Spec => []OneRun
<1>1. CalmInv => OneRun
  BY DEF CalmInv, AtRest, Owned, OneRun, InsideRun
<1> QED BY <1>1, CalmCorrect, PTL

\* Every attempt is opened in a directory without workbooks.
THEOREM FreshAttemptCorrect ==
  ASSUME Patient, MaxCancels = 0
  PROVE  Spec => []FreshAttempt
<1>1. TypeOK /\ CalmInv => FreshAttempt
  <2> SUFFICES ASSUME TypeOK, CalmInv, NEW t \in Threads, Writing(t, "launch"),
                      NEW f \in files, f \in {ResultOf(loc[t].attempt), ReviewOf(loc[t].attempt)}
               PROVE  FALSE
    BY DEF FreshAttempt, Writing
  <2>1. Owned(t)
    BY BusyOwns DEF Writing
  <2>2. loc[t].attempt = disk.attempt + 1 /\ disk # Nil
    BY <2>1 DEF Owned, InsideRun, Writing
  <2>3. disk.attempt \in Nat
    BY <2>2 DEF TypeOK, Manifest
  <2> QED BY <2>2, <2>3 DEF CalmInv, FilesBelowDisk, ResultOf, ReviewOf
<1> QED BY <1>1, TypeCorrect, CalmCorrect, PTL

\* The durable attempt number never goes back.
THEOREM AttemptMonotonicCorrect ==
  ASSUME Patient, MaxCancels = 0
  PROVE  Spec => AttemptMonotonic
<1>1. ASSUME TypeOK, CalmInv, [Next]_vars, disk # Nil, disk' # Nil
      PROVE  disk'.attempt >= disk.attempt
  <2>1. CASE disk' = disk
    BY <1>1, <2>1 DEF TypeOK, Manifest
  <2>2. ASSUME NEW t \in Threads, Commit(t) PROVE disk'.attempt >= disk.attempt
    <3>1. Owned(t)
      BY <1>1, <2>2, BusyOwns DEF Commit
    <3>2. disk'.attempt = job.attempt /\ job.attempt \in {disk.attempt, disk.attempt + 1}
      BY <1>1, <2>2, <3>1 DEF Commit, Owned
    <3>3. disk.attempt \in Nat
      BY <1>1 DEF TypeOK, Manifest
    <3> QED BY <3>2, <3>3
  <2>3. disk' = disk \/ \E t \in Threads : Commit(t)
    <3>1. ASSUME NEW t \in Threads, RunStep(t) PROVE disk' = disk \/ Commit(t)
      BY <3>1 DEF RunStep, CheckInputs, CheckCancel, CheckPassed, Begin, Launch, RunnerWrites,
         Progress, RunnerReturns, RunnerCancelled, RunnerRaises, AfterRunCancelled,
         AfterRunProceeds, PublishTampered, PublishReview, PublishResult, PublishFailure,
         LeaveRecovery, LeaveApply, Leave
    <3>2. ASSUME NEW w \in Workers, Acquire(w) \/ Schedule(w) PROVE disk' = disk
      BY <3>2 DEF Acquire, Schedule
    <3>3. CASE Settle \/ Restore \/ Crash \/ Tamper \/ UNCHANGED vars
      BY <3>3 DEF vars, Settle, Restore, RestoreNothing, RestoreCancelled, RestoreActive,
         RestoreReview, RestoreTerminal, Crash, Tamper
    <3>4. CASE Client \/ Fault
      BY <3>4 DEF Client, CreateJob, CancelJob, RetryJob, PutReview, ApplyInlineReview,
         ApplyWorkbookReview, Fault, CreateFails, RetryFails, TransitionFails, ProgressFails,
         PutFails, RestoreFails, WriteRaises
    <3> QED BY <1>1, <3>1, <3>2, <3>3, <3>4 DEF Next, WorkerStep, ApiStep, Threads
  <2> QED BY <2>1, <2>2, <2>3
<1> QED BY <1>1, TypeCorrect, CalmCorrect, PTL DEF Spec, AttemptMonotonic

-----------------------------------------------------------------------------
(***************************************************************************)
(* What the manifest on disk promises a restart: ReadyIsDurable, DiskAgrees, *)
(* JobRecovered and ChoiceKept of DrawingCardJob, while clients are patient *)
(* (Patient) and nobody cancels (MaxCancels = 0).  Each invariant below is *)
(* inductive relative to the ones before it, the first relative to CalmInv *)
(* and TypeOK.  Then CancelledIsClean: whatever the order in which a       *)
(* cancellation, the worker it stops, and crashes run, a cancelled job     *)
(* leaves no workbook of its attempt.  CancelInv is inductive while        *)
(* clients are patient, nobody retries (MaxRetries = 0: a retry adds a     *)
(* second worker) and no manifest write fails (MaxFaults = 0).             *)
(***************************************************************************)

\* A record or manifest that says it is ready names the workbook of its attempt,
\* and the workbook is there.
Backed(m) == m.status = "ready" => m.result = ResultOf(m.attempt) /\ m.result \in files

\* A run that is past its transition shows no workbook yet.
Open(m) == m.status = "processing" /\ m.result = Nil /\ m.review = Nil

\* The document a thread writes is that of the record in memory, the record its
\* failure puts back is one of the same job, and a run leaves the record open.
ThreadReady(t) ==
  /\ pc[t] # "settle"
  /\ pc[t] = "commit" => /\ loc[t].doc = ManifestFor(job, raised)
                         /\ loc[t].next \notin {"idle", "settle"}
                         /\ Backed(loc[t].before)
  /\ pc[t] # "commit" \/ loc[t].next = "running" => loc[t].before = NewJob
  /\ Writing(t, "schedule") /\ loc[t].kind = "retry" => loc[t].before.attempt = job.attempt
  /\ InsideRun(t) => Open(job)
  /\ InsideRun(t) /\ ~Writing(t, "launch") => disk # Nil /\ Open(disk)

\* Nothing is cancelled, and what is ready, in memory or on disk, is backed.
ReadyInv ==
  /\ raised = {}
  /\ disk # Nil => ~disk.cancel /\ Backed(disk)
  /\ Backed(job)
  /\ \A t \in Threads : ThreadReady(t)

\* A thread that is done, or at rest, has left memory and manifest equal.
AgreesInv ==
  /\ \A t \in Threads : pc[t] = "leave" => disk = ManifestFor(job, raised)
  /\ AtRest /\ service = "up" => disk = ManifestFor(job, raised)

\* The part of Restorable that is not about the inputs, for a set of workbooks.
Fits(m, books) ==
  /\ {m.result, m.review} \ {Nil} \subseteq books
  /\ m.status = "ready" => m.result = ResultOf(m.attempt)
  /\ m.status = "review_required" => m.review \in {Nil, ReviewOf(m.attempt)}
  /\ m.status # "review_required" => m.review = Nil

\* The service has not crashed yet.
FirstLife == spent.crashes = 0

Leaving(t) == pc[t] = "leave" \/ Writing(t, "leave")

\* What a busy thread is doing, and what that says of the job: a recovery defers
\* the review it publishes and carries the saved choices to its end.
ThreadLives(t) ==
  pc[t] # "idle" =>
    /\ FirstLife => loc[t].kind \notin {"recovery", "recovered"}
    /\ FirstLife /\ ~tampered /\ pc[t] = "commit" => Fits(loc[t].doc, files)
    /\ loc[t].kind \in {"put", "recovered"} => Leaving(t)
    /\ loc[t].kind = "put" => job.choices
    /\ loc[t].kind = "recovery"
         => /\ deferred \/ pc[t] \in {"waiting", "schedule"} \/ Writing(t, "schedule")
            /\ job.status # "review_required"
    /\ deferred => loc[t].kind = "recovery"
    /\ Leaving(t) => /\ job.status # "queued"
                     /\ job.status = "processing" => loc[t].kind = "recovery"
    /\ promise.choice => \/ loc[t].kind = "recovery" /\ loc[t].saved
                         \/ loc[t].kind = "recovered" /\ job.choices

\* A job at rest is finished or open for review, with the choices it confirmed.
RestLives ==
  AtRest =>
    /\ ~deferred
    /\ service = "up" => /\ job.status \notin Active
                         /\ promise.choice /\ job.status = "review_required" => job.choices

\* What a crash leaves behind.
CrashLives ==
  /\ spent.crashes \in {0, 1}
  /\ FirstLife => service \in {"empty", "up"} /\ ~deferred
  /\ (FirstLife \/ service = "down") /\ ~tampered /\ disk # Nil => Fits(disk, files)
  /\ service = "lost" => tampered
  /\ promise.choice => service # "empty"
  /\ promise.choice /\ service = "down"
       => /\ disk # Nil /\ disk.status \notin Active
          /\ disk.status = "review_required" => disk.choices

LivesInv == (\A t \in Threads : ThreadLives(t)) /\ RestLives /\ CrashLives
-----------------------------------------------------------------------------
\* An idle thread with a fresh record to put back asks nothing of ReadyInv.
LEMMA IdleReady ==
  ASSUME NEW t, pc[t] = "idle", loc[t].before = NewJob
  PROVE  ThreadReady(t)
BY DEF ThreadReady, InsideRun, Writing

\* The only busy thread saves a record.
LEMMA ReadySave ==
  ASSUME TypeOK, ReadyInv, NEW t \in Threads, NEW l \in Locals, NEW j \in Job, NEW r,
         NEW next \in Labels \ {"idle", "settle"}, Save(t, l, j, r, next), r = {},
         \A u \in Threads : u # t => pc[u] = "idle", UNCHANGED disk,
         j.status = "ready" => j.result = ResultOf(j.attempt) /\ j.result \in files',
         disk # Nil /\ disk.status = "ready" => disk.result \in files',
         \/ l.before = NewJob
         \/ /\ next # "running"
            /\ l.before.status = "ready"
                 => l.before.result = ResultOf(l.before.attempt) /\ l.before.result \in files',
         next = "schedule" /\ l.kind = "retry" => l.before.attempt = j.attempt,
         next \in {"launch", "running"} => Open(j),
         next = "running" => disk # Nil /\ Open(disk)
  PROVE  ReadyInv'
<1>1. /\ job' = j /\ raised' = {} /\ pc'[t] = "commit"
      /\ loc'[t].doc = ManifestFor(j, r) /\ loc'[t].next = next
      /\ loc'[t].before = l.before /\ loc'[t].kind = l.kind
      /\ \A u \in Threads : u # t => pc'[u] = "idle" /\ loc'[u] = loc[u]
  BY SaveSays
<1>2. NewJob.status # "ready"
  BY DEF NewJob
<1>3. Backed(loc[t].before)' /\ Backed(job)' /\ (disk # Nil => ~disk.cancel /\ Backed(disk))'
  <2>1. Backed(loc[t].before)'
    BY <1>1, <1>2 DEF Backed
  <2>2. Backed(job)'
    BY <1>1 DEF Backed
  <2>3. (disk # Nil => ~disk.cancel /\ Backed(disk))'
    BY DEF Backed, ReadyInv
  <2> QED BY <2>1, <2>2, <2>3
<1>4. ThreadReady(t)'
  BY <1>1, <1>3 DEF ThreadReady, InsideRun, Writing, Backed, Open
<1>5. ASSUME NEW u \in Threads, u # t PROVE ThreadReady(u)'
  <2>1. pc[u] = "idle" /\ loc[u].before = NewJob
    BY <1>5 DEF ReadyInv, ThreadReady
  <2>2. pc'[u] = "idle" /\ loc'[u].before = NewJob
    BY <1>1, <1>5, <2>1
  <2> QED BY <2>2 DEF ThreadReady, InsideRun, Writing
<1> QED BY <1>1, <1>3, <1>4, <1>5 DEF ReadyInv

\* The only busy thread moves on, or ends, with record and manifest as they are.
LEMMA ReadyMove ==
  ASSUME TypeOK, ReadyInv, NEW t \in Threads, pc'[t] \notin {"commit", "settle"},
         \A u \in Threads : u # t => pc'[u] = "idle" /\ loc'[u].before = NewJob,
         loc'[t].before = NewJob,
         raised' = {}, files \subseteq files', Backed(job)',
         (disk # Nil => ~disk.cancel /\ Backed(disk))',
         pc'[t] \in {"launch", "running", "returned", "publish"}
           => Open(job') /\ disk' # Nil /\ Open(disk')
  PROVE  ReadyInv'
<1>1. ThreadReady(t)'
  BY DEF ThreadReady, InsideRun, Writing, Open
<1>2. ASSUME NEW u \in Threads, u # t PROVE ThreadReady(u)'
  BY <1>2 DEF ThreadReady, InsideRun, Writing
<1> QED BY <1>1, <1>2 DEF ReadyInv

\* ReadyInv is kept by every step of a run.
LEMMA ReadyRun ==
  ASSUME TypeOK, CalmInv, ReadyInv, NEW t \in Threads, RunStep(t)
  PROVE  ReadyInv'
<1>1. pc[t] # "idle"
  BY DEF RunStep, CheckInputs, CheckCancel, CheckPassed, Begin, Launch, RunnerWrites,
         Progress, RunnerReturns, RunnerCancelled, RunnerRaises, AfterRunCancelled,
         AfterRunProceeds, PublishTampered, PublishReview, PublishResult, PublishFailure,
         LeaveRecovery, LeaveApply, Leave, Commit
<1>2. Owned(t)
  BY <1>1, BusyOwns
<1>3. /\ \A u \in Threads : u # t => pc[u] = "idle"
      /\ loc[t] \in Locals /\ job \in Job /\ raised = {} /\ job.attempt \in Nat
      /\ \A u \in Threads : ThreadReady(u)
      /\ Backed(job) /\ (disk # Nil => ~disk.cancel /\ Backed(disk))
  BY <1>2 DEF Owned, TypeOK, Job, ReadyInv
<1>4. pc[t] # "commit" => loc[t].before = NewJob
  BY <1>3 DEF ThreadReady
<1>5. pc[t] # "commit" => disk # Nil /\ job.attempt = disk.attempt
  BY <1>2 DEF Owned, Writing
<1>6. pc[t] \in {"launch", "running", "returned", "publish"}
        => Open(job) /\ disk # Nil /\ Open(disk) /\ loc[t].attempt = job.attempt
  BY <1>2, <1>3 DEF ThreadReady, InsideRun, Writing, Owned
<1>7. \A u \in Threads : u # t => loc[u].before = NewJob
  BY <1>3 DEF ThreadReady
<1>8. ~CheckCancel(t) /\ ~RunnerCancelled(t) /\ ~AfterRunCancelled(t)
  BY <1>3 DEF CheckCancel, RunnerCancelled, AfterRunCancelled, CancelSeen
<1>9. "leave" \in Labels \ {"idle", "settle"} /\ "launch" \in Labels \ {"idle", "settle"}
      /\ "running" \in Labels \ {"idle", "settle"}
  BY DEF Labels
<1>10. Failed(job) \in Job /\ Failed(job).status = "failed"
  BY <1>3, RecordsTyped DEF Failed, Job
<1>11. CASE CheckInputs(t)
  <2>1. Save(t, loc[t], Failed(job), raised, "leave") /\ UNCHANGED <<disk, files>> /\ pc[t] = "entered"
    BY <1>11 DEF CheckInputs
  <2> QED BY <1>3, <1>4, <1>9, <1>10, <2>1, ReadySave DEF Backed
<1>12. CASE RunnerRaises(t) \/ PublishTampered(t)
  <2>1. /\ Save(t, loc[t], Failed(job), raised, "leave") /\ UNCHANGED disk
        /\ pc[t] \in {"running", "publish"}
    BY <1>12 DEF RunnerRaises, PublishTampered, Excepted
  <2>2. disk.status # "ready"
    BY <1>6, <2>1 DEF Open
  <2> QED BY <1>3, <1>4, <1>9, <1>10, <2>1, <2>2, ReadySave
<1>13. CASE PublishReview(t)
  <2> DEFINE j == [job EXCEPT !.review = ReviewOf(job.attempt), !.choices = FALSE,
                              !.status = IF deferred THEN "processing" ELSE "review_required"]
  <2>1. ReviewOf(job.attempt) \in Path
    BY <1>3, RecordsTyped
  <2>2. (IF deferred THEN "processing" ELSE "review_required") \in Status \ {"ready"}
    BY DEF Status, Active
  <2>3. j \in Job /\ j.status # "ready"
    BY <1>3, <2>1, <2>2 DEF Job
  <2>4. Save(t, loc[t], j, raised, "leave") /\ UNCHANGED <<disk, files>> /\ pc[t] = "publish"
    BY <1>13 DEF PublishReview
  <2> HIDE DEF j
  <2> QED BY <1>3, <1>4, <1>9, <2>3, <2>4, ReadySave DEF Backed
<1>14. CASE PublishResult(t)
  <2> DEFINE j == [job EXCEPT !.result = ResultOf(job.attempt), !.review = Nil, !.status = "ready"]
  <2>1. ResultOf(job.attempt) \in Path /\ "ready" \in Status
    BY <1>3, RecordsTyped DEF Status, Terminal
  <2>2. j \in Job /\ j.result = ResultOf(j.attempt) /\ j.attempt = job.attempt
    BY <1>3, <2>1 DEF Job
  <2>3. Save(t, loc[t], j, raised, "leave") /\ UNCHANGED <<disk, files>> /\ pc[t] = "publish"
    BY <1>14 DEF PublishResult
  <2>4. j.result \in files
    BY <1>14, <2>2 DEF PublishResult, HasResult, Canonical
  <2> HIDE DEF j
  <2> QED BY <1>3, <1>4, <1>9, <2>2, <2>3, <2>4, ReadySave DEF Backed
<1>15. CASE PublishFailure(t)
  <2> DEFINE s == IF loc[t].outcome = "blocked" \/ (loc[t].outcome = "review" /\ ~HasReview(t))
                  THEN "blocked" ELSE "failed"
             j == [job EXCEPT !.status = s]
  <2>1. s \in Status \ {"ready"}
    BY DEF Status, Terminal
  <2>2. Save(t, loc[t], j, raised, "leave") /\ UNCHANGED <<disk, files>> /\ pc[t] = "publish"
    BY <1>15 DEF PublishFailure
  <2> HIDE DEF s
  <2>3. j \in Job /\ j.status # "ready"
    BY <1>3, <2>1 DEF Job
  <2> HIDE DEF j
  <2> QED BY <1>3, <1>4, <1>9, <2>2, <2>3, ReadySave DEF Backed
<1>16. CASE Progress(t)
  <2> DEFINE l == [loc[t] EXCEPT !.told = TRUE]
  <2>1. l \in Locals /\ l.before = loc[t].before /\ l.kind = loc[t].kind
    BY <1>3 DEF Locals
  <2>2. Save(t, l, job, raised, "running") /\ UNCHANGED <<disk, files>> /\ pc[t] = "running"
    BY <1>16 DEF Progress
  <2> HIDE DEF l
  <2> QED BY <1>3, <1>4, <1>6, <1>9, <2>1, <2>2, ReadySave DEF Backed
<1>17. CASE LeaveApply(t)
  <2> DEFINE l == [loc[t] EXCEPT !.kind = "applied"]
  <2>1. l \in Locals /\ l.before = loc[t].before
    BY <1>3 DEF Locals, Kinds
  <2>2. Save(t, l, job, raised, "leave") /\ UNCHANGED <<disk, files>> /\ pc[t] = "leave"
    BY <1>17 DEF LeaveApply
  <2> HIDE DEF l
  <2> QED BY <1>3, <1>4, <1>9, <2>1, <2>2, ReadySave DEF Backed
<1>18. CASE LeaveRecovery(t)
  <2> DEFINE l == [loc[t] EXCEPT !.kind = "recovered"]
             j == [job EXCEPT !.choices = loc[t].saved, !.status = "review_required"]
  <2>1. l \in Locals /\ l.before = loc[t].before
    BY <1>3 DEF Locals, Kinds
  <2>2. "review_required" \in Status /\ loc[t].saved \in BOOLEAN
    BY <1>3 DEF Status, Locals
  <2>3. j \in Job /\ j.status # "ready"
    BY <1>3, <2>2 DEF Job
  <2>4. CASE Save(t, l, j, raised, "leave")
    <3> HIDE DEF l, j
    <3> QED BY <1>3, <1>4, <1>9, <1>18, <2>1, <2>3, <2>4, ReadySave DEF LeaveRecovery, Backed
  <2>5. CASE Ends(t) /\ UNCHANGED <<job, raised>>
    <3>1. /\ pc'[t] = "idle" /\ loc'[t].before = NewJob
          /\ \A u \in Threads : u # t => pc'[u] = "idle" /\ loc'[u].before = NewJob
      BY <1>3, <1>7, <2>5 DEF Ends, TypeOK, NoLocals
    <3> QED BY <1>3, <1>18, <2>5, <3>1, ReadyMove DEF LeaveRecovery, Backed
  <2> QED BY <1>18, <2>4, <2>5 DEF LeaveRecovery
<1>19. CASE Leave(t)
  <2>1. /\ pc'[t] = "idle" /\ loc'[t].before = NewJob
        /\ \A u \in Threads : u # t => pc'[u] = "idle" /\ loc'[u].before = NewJob
    BY <1>3, <1>7, <1>19 DEF Leave, Ends, TypeOK, NoLocals
  <2> QED BY <1>3, <1>19, <2>1, ReadyMove DEF Leave, Backed
<1>20. CASE CheckPassed(t)
  <2>1. /\ pc'[t] = "checked" /\ loc'[t].before = NewJob
        /\ \A u \in Threads : u # t => pc'[u] = "idle" /\ loc'[u].before = NewJob
    BY <1>3, <1>4, <1>7, <1>20 DEF CheckPassed, TypeOK
  <2> QED BY <1>3, <1>20, <2>1, ReadyMove DEF CheckPassed, Backed
<1>21. CASE Launch(t) \/ RunnerReturns(t) \/ AfterRunProceeds(t) \/ RunnerWrites(t)
  <2>1. /\ pc[t] \in {"launch", "running", "returned", "publish"}
        /\ UNCHANGED <<job, raised, disk>> /\ files \subseteq files'
    BY <1>21 DEF Launch, RunnerReturns, AfterRunProceeds, RunnerWrites
  <2>2. loc[t].before = NewJob
    BY <1>4, <2>1
  <2>3. pc'[t] \in {"running", "returned", "publish"} /\ loc'[t].before = NewJob
    BY <1>3, <1>21, <2>2 DEF Launch, RunnerReturns, AfterRunProceeds, RunnerWrites, TypeOK, Locals
  <2>4. \A u \in Threads : u # t => pc'[u] = "idle" /\ loc'[u].before = NewJob
    BY <1>3, <1>7, <1>21 DEF Launch, RunnerReturns, AfterRunProceeds, RunnerWrites, TypeOK
  <2> QED BY <1>3, <1>6, <2>1, <2>3, <2>4, ReadyMove DEF Backed
<1>22. CASE Begin(t)
  <2> DEFINE l == [loc[t] EXCEPT !.attempt = job.attempt + 1, !.before = job]
             j == [job EXCEPT !.status = "processing", !.result = Nil, !.review = Nil,
                              !.attempt = @ + 1]
  <2>1. job.attempt + 1 \in Nat /\ "processing" \in Status
    BY <1>3 DEF Status, Active
  <2>2. l \in Locals /\ l.before = job
    BY <1>3, <2>1 DEF Locals
  <2>3. j \in Job /\ Open(j)
    BY <1>3, <2>1 DEF Job, Open
  <2>4. Save(t, l, j, raised, "launch") /\ UNCHANGED <<disk, files>>
    BY <1>22 DEF Begin
  <2> HIDE DEF l, j
  <2> QED BY <1>3, <1>9, <2>2, <2>3, <2>4, ReadySave DEF Backed, Open
<1>23. CASE Commit(t)
  <2>1. /\ loc[t].doc = ManifestFor(job, raised) /\ loc[t].next \notin {"idle", "settle"}
        /\ InsideRun(t) => Open(job)
    BY <1>3, <1>23 DEF ThreadReady, Commit
  <2>2. /\ disk' = ManifestFor(job, raised) /\ pc'[t] = loc[t].next /\ loc'[t].before = NewJob
        /\ UNCHANGED <<job, raised, files>>
    BY <1>3, <1>23, <2>1 DEF Commit, TypeOK, Locals
  <2>3. \A u \in Threads : u # t => pc'[u] = "idle" /\ loc'[u].before = NewJob
    BY <1>3, <1>7, <1>23 DEF Commit, TypeOK
  <2>4. disk' # Nil /\ ~disk'.cancel /\ (Open(job) => Open(disk')) /\ Backed(disk)'
    <3>1. ManifestFor(job, raised) \in Manifest /\ ~ManifestFor(job, raised).cancel
      <4>1. job.ev \notin raised
        BY <1>3
      <4>2. ~ManifestFor(job, raised).cancel
        BY <4>1 DEF ManifestFor
      <4>3. ManifestFor(job, raised) \in Manifest
        BY <1>3 DEF ManifestFor, Manifest, Job
      <4> QED BY <4>2, <4>3
    <3>2. /\ disk'.status = job.status /\ disk'.result = job.result
          /\ disk'.review = job.review /\ disk'.attempt = job.attempt
      BY <2>2 DEF ManifestFor
    <3>3. disk' # Nil /\ ~disk'.cancel
      BY <2>2, <3>1, NilOK
    <3> QED BY <1>3, <2>2, <3>1, <3>2, <3>3 DEF Backed, Open
  <2>5. pc'[t] \in {"launch", "running", "returned", "publish"} => Open(job)
    <3>1. loc[t].next \in Labels
      BY <1>3 DEF Locals
    <3> QED BY <1>23, <2>1, <2>2, <3>1 DEF InsideRun, Commit, Labels
  <2>6. pc'[t] \notin {"commit", "settle"}
    <3>1. loc[t].next \in Labels
      BY <1>3 DEF Locals
    <3> QED BY <2>1, <2>2, <3>1 DEF Labels
  <2> QED BY <1>3, <2>2, <2>3, <2>4, <2>5, <2>6, ReadyMove DEF Backed
<1> QED
  BY <1>8, <1>11, <1>12, <1>13, <1>14, <1>15, <1>16, <1>17, <1>18, <1>19, <1>20, <1>21, <1>22,
     <1>23 DEF RunStep

\* At rest, every thread is idle with nothing to put back.
LEMMA RestIsFresh ==
  ASSUME ReadyInv, AtRest
  PROVE  \A u \in Threads : pc[u] = "idle" /\ loc[u].before = NewJob
BY DEF AtRest, ReadyInv, ThreadReady

\* ReadyInv is kept by what clients ask for.
LEMMA ReadyClient ==
  ASSUME TypeOK, CalmInv, ReadyInv, Patient, MaxCancels = 0, Client
  PROVE  ReadyInv'
<1>0. Api \in Threads /\ job \in Job /\ raised = {} /\ Backed(job) /\ NoLocals.before = NewJob
      /\ (disk # Nil => ~disk.cancel /\ Backed(disk))
  BY DEF Threads, TypeOK, ReadyInv, NoLocals
<1>1. CASE CreateJob
  <2>1. AtRest
    BY <1>0, <1>1 DEF CalmInv, AtRest, Owned, CreateJob
  <2> DEFINE l == [NoLocals EXCEPT !.kind = "create"]
  <2>2. l \in Locals /\ l.kind = "create" /\ l.before = NewJob
    BY <1>0, RecordsTyped DEF Locals, Kinds
  <2>3. Save(Api, l, NewJob, {}, "schedule") /\ UNCHANGED <<disk, files>>
    BY <1>1 DEF CreateJob
  <2>4. NewJob \in Job /\ NewJob.status # "ready" /\ "schedule" \in Labels \ {"idle", "settle"}
    BY RecordsTyped DEF NewJob, Labels
  <2> HIDE DEF l
  <2> QED BY <1>0, <2>1, <2>2, <2>3, <2>4, ReadySave DEF AtRest, Backed
<1>2. CASE CancelJob
  BY <1>2 DEF CancelJob, Spend, TypeOK
<1>3. CASE RetryJob
  <2>1. AtRest
    BY <1>3, PatientRests DEF RetryJob, Active, Terminal
  <2> DEFINE l == [NoLocals EXCEPT !.kind = "retry", !.before = job]
             j == [job EXCEPT !.status = "queued", !.result = Nil, !.review = Nil, !.ev = @ + 1]
  <2>2. l \in Locals /\ l.kind = "retry" /\ l.before = job
    BY <1>0, RecordsTyped DEF Locals, Kinds
  <2>3. job.ev + 1 \in Nat /\ "queued" \in Status
    BY <1>0 DEF Job, Status, Active
  <2>4. j \in Job /\ j.attempt = job.attempt /\ j.status = "queued"
    BY <1>0, <2>3 DEF Job
  <2>5. Save(Api, l, j, raised, "schedule") /\ UNCHANGED <<disk, files>>
    BY <1>3 DEF RetryJob
  <2>6. "schedule" \in Labels \ {"idle", "settle"}
    BY DEF Labels
  <2> HIDE DEF l, j
  <2> QED BY <1>0, <2>1, <2>2, <2>4, <2>5, <2>6, ReadySave DEF AtRest, Backed
<1>4. CASE PutReview
  <2>1. AtRest
    BY <1>4, PatientRests DEF PutReview, Active
  <2> DEFINE l == [NoLocals EXCEPT !.kind = "put", !.before = job]
             j == [job EXCEPT !.choices = TRUE]
  <2>2. l \in Locals /\ l.kind = "put" /\ l.before = job
    BY <1>0, RecordsTyped DEF Locals, Kinds
  <2>3. j \in Job /\ j.status = "review_required"
    BY <1>0, <1>4 DEF Job, PutReview
  <2>4. Save(Api, l, j, raised, "leave") /\ UNCHANGED <<disk, files>>
    BY <1>4 DEF PutReview
  <2>5. "leave" \in Labels \ {"idle", "settle"}
    BY DEF Labels
  <2> HIDE DEF l, j
  <2> QED BY <1>0, <2>1, <2>2, <2>3, <2>4, <2>5, ReadySave DEF AtRest, Backed
<1>5. CASE ApplyInlineReview
  <2>1. AtRest
    BY <1>5, PatientRests DEF ApplyInlineReview, Active
  <2> DEFINE l == [NoLocals EXCEPT !.kind = "apply"]
  <2>2. l \in Locals /\ l.before = NewJob
    BY <1>0, RecordsTyped DEF Locals, Kinds
  <2>3. Save(Api, l, job, raised, "entered") /\ UNCHANGED <<disk, files>>
    BY <1>5 DEF ApplyInlineReview
  <2>4. "entered" \in Labels \ {"idle", "settle"}
    BY DEF Labels
  <2> HIDE DEF l
  <2> QED BY <1>0, <2>1, <2>2, <2>3, <2>4, ReadySave DEF AtRest, Backed
<1>6. CASE ApplyWorkbookReview
  <2>1. AtRest
    BY <1>6, PatientRests DEF ApplyWorkbookReview, Active
  <2>2. \A u \in Threads : pc[u] = "idle" /\ loc[u].before = NewJob
    BY <2>1, RestIsFresh
  <2>3. /\ pc'[Api] = "entered" /\ loc'[Api].before = NewJob
        /\ \A u \in Threads : u # Api => pc'[u] = "idle" /\ loc'[u].before = NewJob
    BY <1>0, <1>6, <2>2, RecordsTyped DEF ApplyWorkbookReview, TypeOK, Locals
  <2>4. job'.status # "ready" /\ files \subseteq files' /\ UNCHANGED <<raised, disk>>
    BY <1>0, <1>6 DEF ApplyWorkbookReview, Job
  <2> QED BY <1>0, <2>3, <2>4, ReadyMove DEF Backed
<1> QED BY <1>1, <1>2, <1>3, <1>4, <1>5, <1>6 DEF Client

\* ReadyInv is kept by the other steps of the API thread.
LEMMA ReadyApi ==
  ASSUME TypeOK, CalmInv, ReadyInv, ApiStep
  PROVE  ReadyInv'
<1>0. Api \in Threads /\ job \in Job /\ raised = {} /\ Backed(job) /\ NoLocals.before = NewJob
      /\ (disk # Nil => ~disk.cancel /\ Backed(disk))
  BY DEF Threads, TypeOK, ReadyInv, NoLocals
<1>1. CASE RunStep(Api)
  BY <1>0, <1>1, ReadyRun
<1>2. CASE Settle
  BY <1>0, <1>2 DEF Settle, ReadyInv, ThreadReady
<1>3. ASSUME NEW w \in Workers, Schedule(w) PROVE ReadyInv'
  <2>1. Owned(Api)
    BY <1>0, <1>3, BusyOwns DEF Schedule
  <2>2. w \in Threads /\ w # Api
    BY ConstantsOK DEF Threads
  <2>3. pc'[w] = "waiting" /\ \A u \in Threads : u # w => pc'[u] = "idle"
    BY <1>0, <1>3, <2>1, <2>2 DEF Schedule, Owned, TypeOK
  <2>4. \A u \in Threads : u # Api /\ u # w => loc'[u] = loc[u] /\ pc[u] # "commit"
    BY <1>0, <1>3, <2>1, <2>2 DEF Schedule, Owned, TypeOK
  <2>5. loc'[Api].before = NewJob /\ loc'[w].before = NewJob
    BY <1>0, <1>3, <2>2, RecordsTyped DEF Schedule, TypeOK, Locals
  <2>6. \A u \in Threads : u # w => loc'[u].before = NewJob
    BY <2>4, <2>5 DEF ReadyInv, ThreadReady
  <2>7. UNCHANGED <<job, raised, disk, files>>
    BY <1>3 DEF Schedule
  <2> QED BY <1>0, <2>2, <2>3, <2>5, <2>6, <2>7, ReadyMove DEF Backed
<1>4. CASE Restore
  <2>1. service = "down" /\ AtRest
    BY <1>4 DEF Restore, RestoreNothing, RestoreCancelled, RestoreActive, RestoreReview,
       RestoreTerminal, Restarting, CalmInv, Owned
  <2>2. \A u \in Threads : pc[u] = "idle" /\ loc[u].before = NewJob
    BY <2>1, RestIsFresh
  <2>3. CASE RestoreNothing
    BY <1>0, <2>2, <2>3, ReadyMove DEF RestoreNothing, Backed
  <2>4. CASE RestoreCancelled
    BY <1>0, <2>4 DEF RestoreCancelled, Restarting
  <2>5. CASE RestoreActive
    <3>1. /\ pc'[Api] = "schedule" /\ loc'[Api].before = NewJob
          /\ \A u \in Threads : u # Api => pc'[u] = "idle" /\ loc'[u].before = NewJob
      BY <1>0, <2>2, <2>5 DEF RestoreActive, TypeOK, Locals
    <3>2. job'.status # "ready" /\ UNCHANGED <<raised, disk, files>>
      BY <2>5 DEF RestoreActive, JobFrom
    <3> QED BY <1>0, <3>1, <3>2, ReadyMove DEF Backed
  <2>6. CASE RestoreReview
    <3> DEFINE l == [NoLocals EXCEPT !.kind = "recovery", !.saved = disk.choices]
               j == [JobFrom(disk) EXCEPT !.status = "queued"]
    <3>1. disk # Nil /\ disk \in Manifest /\ JobFrom(disk) \in Job /\ disk.choices \in BOOLEAN
      BY <2>6, RecordsTyped DEF RestoreReview, Restarting, TypeOK, Manifest
    <3>2. l \in Locals /\ l.kind = "recovery" /\ l.before = NewJob
      BY <1>0, <3>1, RecordsTyped DEF Locals, Kinds
    <3>3. j \in Job /\ j.status = "queued"
      BY <3>1 DEF Job, Status, Active
    <3>4. Save(Api, l, j, {}, "schedule") /\ UNCHANGED <<disk, files>>
      BY <2>6 DEF RestoreReview
    <3>5. "schedule" \in Labels \ {"idle", "settle"}
      BY DEF Labels
    <3> HIDE DEF l, j
    <3> QED BY <1>0, <2>2, <3>2, <3>3, <3>4, <3>5, ReadySave DEF Backed
  <2>7. CASE RestoreTerminal
    <3>1. /\ job' = JobFrom(disk) /\ disk # Nil /\ UNCHANGED <<raised, disk, files, pc, loc>>
      BY <2>7 DEF RestoreTerminal, Restarting
    <3>2. Backed(job)'
      BY <1>0, <3>1 DEF Backed, JobFrom
    <3> QED BY <1>0, <2>2, <3>1, <3>2, ReadyMove DEF Backed
  <2> QED BY <1>4, <2>3, <2>4, <2>5, <2>6, <2>7 DEF Restore
<1> QED BY <1>1, <1>2, <1>3, <1>4 DEF ApiStep

\* A thread that ends leaves nothing to put back.
LEMMA EndsFresh ==
  ASSUME TypeOK, ReadyInv, NEW t \in Threads, Ends(t), \A u \in Threads : u # t => pc[u] = "idle"
  PROVE  \A u \in Threads : pc'[u] = "idle" /\ loc'[u].before = NewJob
BY DEF Ends, TypeOK, NoLocals, ReadyInv, ThreadReady

\* ReadyInv is kept by a failing manifest write: what the code puts back is backed.
LEMMA ReadyFault ==
  ASSUME TypeOK, CalmInv, ReadyInv, Fault
  PROVE  ReadyInv'
<1>0. Api \in Threads /\ job \in Job /\ raised = {} /\ Backed(job)
      /\ (disk # Nil => ~disk.cancel /\ Backed(disk))
  BY DEF Threads, TypeOK, ReadyInv
<1>1. ASSUME NEW t \in Threads, pc[t] = "commit"
      PROVE  /\ Owned(t) /\ \A u \in Threads : u # t => pc[u] = "idle"
             /\ loc[t] \in Locals /\ loc[t].before \in Job /\ ThreadReady(t)
  BY <1>1, BusyOwns DEF Owned, TypeOK, ReadyInv, Locals
<1>2. NewJob.status # "ready"
  BY DEF NewJob
<1>3. CASE CreateFails
  <2>1. disk = Nil /\ \A u \in Threads : pc'[u] = "idle" /\ loc'[u].before = NewJob
    BY <1>0, <1>1, <1>3, EndsFresh DEF CreateFails, CommitFails, Owned, Writing
  <2>2. Backed(job)' /\ disk' = Nil /\ raised' = {}
    BY <1>0, <1>2, <1>3, <2>1 DEF CreateFails, Backed
  <2>3. ReadyInv'
    BY <2>1, <2>2, <1>0 DEF ReadyInv, ThreadReady, InsideRun, Writing
  <2> QED BY <2>3
<1>4. CASE RetryFails
  <2>1. \A u \in Threads : pc'[u] = "idle" /\ loc'[u].before = NewJob
    BY <1>0, <1>1, <1>4, EndsFresh DEF RetryFails, CommitFails
  <2>2. Backed(loc[Api].before) /\ loc[Api].before.attempt = job.attempt
    BY <1>0, <1>1, <1>4 DEF RetryFails, CommitFails, ThreadReady, Writing
  <2>3. job'.status = loc[Api].before.status /\ job'.result = loc[Api].before.result
        /\ job'.attempt = job.attempt
    BY <1>0, <1>4 DEF RetryFails, Job
  <2>4. UNCHANGED <<raised, disk, files>>
    BY <1>4 DEF RetryFails
  <2> QED BY <1>0, <2>1, <2>2, <2>3, <2>4, ReadyMove DEF Backed
<1>5. CASE PutFails
  <2>1. \A u \in Threads : pc'[u] = "idle" /\ loc'[u].before = NewJob
    BY <1>0, <1>1, <1>5, EndsFresh DEF PutFails, CommitFails
  <2>2. job'.status = job.status /\ job'.result = job.result /\ job'.attempt = job.attempt
    BY <1>0, <1>5 DEF PutFails, Job
  <2>3. UNCHANGED <<raised, disk, files>>
    BY <1>5 DEF PutFails
  <2> QED BY <1>0, <2>1, <2>2, <2>3, ReadyMove DEF Backed
<1>6. CASE RestoreFails
  <2>1. \A u \in Threads : pc'[u] = "idle" /\ loc'[u].before = NewJob
    BY <1>0, <1>1, <1>6, EndsFresh DEF RestoreFails
  <2>2. job' = NewJob /\ raised' = {} /\ UNCHANGED <<disk, files>>
    BY <1>6 DEF RestoreFails
  <2> QED BY <1>0, <1>2, <2>1, <2>2, ReadyMove DEF Backed
<1>7. ASSUME NEW t \in Threads, TransitionFails(t) PROVE ReadyInv'
  <2>1. \A u \in Threads : pc'[u] = "idle" /\ loc'[u].before = NewJob
    BY <1>1, <1>7, EndsFresh DEF TransitionFails, CommitFails
  <2>2. Backed(loc[t].before)
    BY <1>1, <1>7 DEF TransitionFails, CommitFails, ThreadReady
  <2>3. job'.status = loc[t].before.status /\ job'.result = loc[t].before.result
        /\ job'.attempt = loc[t].before.attempt
    BY <1>0, <1>7 DEF TransitionFails, Job
  <2>4. UNCHANGED <<raised, disk, files>>
    BY <1>7 DEF TransitionFails
  <2> QED BY <1>0, <2>1, <2>2, <2>3, <2>4, ReadyMove DEF Backed
<1>8. ASSUME NEW t \in Threads, ProgressFails(t) PROVE ReadyInv'
  <2>1. pc[t] = "commit" /\ loc[t].next = "running"
    BY <1>8 DEF ProgressFails, CommitFails
  <2>2. disk # Nil /\ disk.status # "ready" /\ loc[t].before = NewJob
    BY <1>1, <2>1 DEF ThreadReady, InsideRun, Writing, Open
  <2>3. Save(t, loc[t], Failed(job), raised, "leave") /\ UNCHANGED disk
    BY <1>8 DEF ProgressFails, Excepted
  <2>4. Failed(job) \in Job /\ Failed(job).status = "failed" /\ "leave" \in Labels \ {"idle", "settle"}
    BY <1>0, RecordsTyped DEF Failed, Job, Labels
  <2> QED BY <1>0, <1>1, <2>1, <2>2, <2>3, <2>4, ReadySave
<1>9. ASSUME NEW t \in Threads, WriteRaises(t) PROVE ReadyInv'
  <2>1. pc[t] = "commit" /\ UNCHANGED <<job, raised, disk, files>> /\ Ends(t)
    BY <1>9 DEF WriteRaises, CommitFails
  <2>2. \A u \in Threads : pc'[u] = "idle" /\ loc'[u].before = NewJob
    BY <1>1, <2>1, EndsFresh
  <2> QED BY <1>0, <2>1, <2>2, ReadyMove DEF Backed
<1> QED BY <1>3, <1>4, <1>5, <1>6, <1>7, <1>8, <1>9 DEF Fault

\* ReadyInv is inductive while clients are patient and nobody cancels.
LEMMA ReadyStep ==
  ASSUME TypeOK, CalmInv, ReadyInv, Patient, MaxCancels = 0, [Next]_vars
  PROVE  ReadyInv'
<1>0. raised = {} /\ Backed(job) /\ (disk # Nil => ~disk.cancel /\ Backed(disk))
  BY DEF ReadyInv
<1>1. ASSUME NEW w \in Workers, Acquire(w) PROVE ReadyInv'
  <2>1. w \in Threads /\ pc[w] = "waiting"
    BY <1>1 DEF Threads, Acquire
  <2>2. \A u \in Threads : u # w => pc[u] = "idle"
    BY <2>1, BusyOwns DEF Owned
  <2>3. \A u \in Threads : loc[u].before = NewJob
    BY <2>1, <2>2 DEF ReadyInv, ThreadReady
  <2>4. /\ pc'[w] = "entered" /\ UNCHANGED <<job, raised, disk, files, loc>>
        /\ \A u \in Threads : u # w => pc'[u] = "idle"
    BY <1>1, <2>1, <2>2 DEF Acquire, TypeOK
  <2> QED BY <1>0, <2>1, <2>3, <2>4, ReadyMove DEF Backed
<1>2. ASSUME NEW w \in Workers, RunStep(w) PROVE ReadyInv'
  BY <1>2, ReadyRun DEF Threads
<1>3. CASE Crash
  <2>1. \A u \in Threads : pc'[u] = "idle" /\ loc'[u].before = NewJob
    BY <1>3 DEF Crash, NoLocals
  <2>2. job' = NewJob /\ raised' = {} /\ UNCHANGED <<disk, files>> /\ NewJob.status # "ready"
    BY <1>3 DEF Crash, NewJob
  <2> QED BY <1>0, <2>1, <2>2 DEF ReadyInv, Backed, ThreadReady, InsideRun, Writing
<1>4. CASE Tamper \/ UNCHANGED vars
  <2>1. UNCHANGED <<job, raised, disk, files, pc, loc>>
    BY <1>4 DEF Tamper, vars
  <2> QED BY <2>1 DEF ReadyInv, ThreadReady, Backed, Open, InsideRun, Writing
<1> QED BY <1>1, <1>2, <1>3, <1>4, ReadyApi, ReadyClient, ReadyFault DEF Next, WorkerStep

\* What is ready in memory or on disk names a workbook that is there.
THEOREM ReadyCorrect ==
  ASSUME Patient, MaxCancels = 0
  PROVE  Spec => []ReadyInv
<1>1. Init => ReadyInv
  <2> SUFFICES ASSUME Init PROVE ReadyInv
    OBVIOUS
  <2>1. raised = {} /\ disk = Nil /\ job = NewJob /\ NewJob.status = "queued"
    BY DEF Init, NewJob
  <2>2. \A t \in Threads : pc[t] = "idle" /\ loc[t].before = NewJob
    BY DEF Init, NoLocals
  <2>3. \A t \in Threads : ThreadReady(t)
    BY <2>2, IdleReady
  <2> QED BY <2>1, <2>3 DEF ReadyInv, Backed
<1>2. TypeOK /\ CalmInv /\ ReadyInv /\ [Next]_vars => ReadyInv'
  BY ReadyStep
<1> QED BY <1>1, <1>2, TypeCorrect, CalmCorrect, PTL DEF Spec

\* A durable ready manifest is one that a restart would publish.
THEOREM ReadyIsDurableCorrect ==
  ASSUME Patient, MaxCancels = 0
  PROVE  Spec => []ReadyIsDurable
<1>1. ReadyInv => ReadyIsDurable
  BY DEF ReadyInv, Backed, ReadyIsDurable
<1> QED BY <1>1, ReadyCorrect, PTL
-----------------------------------------------------------------------------
\* A busy thread that is not done yet leaves nothing to compare.
LEMMA AgreesBusy ==
  ASSUME NEW t \in Threads, pc'[t] \notin {"idle", "leave"},
         \A u \in Threads : u # t => pc'[u] = "idle"
  PROVE  AgreesInv'
BY DEF AgreesInv, AtRest

\* Memory and manifest agree after every step of a run that ends it.
LEMMA AgreesRun ==
  ASSUME TypeOK, CalmInv, ReadyInv, AgreesInv, NEW t \in Threads, RunStep(t)
  PROVE  AgreesInv'
<1>1. pc[t] # "idle"
  BY DEF RunStep, CheckInputs, CheckCancel, CheckPassed, Begin, Launch, RunnerWrites,
         Progress, RunnerReturns, RunnerCancelled, RunnerRaises, AfterRunCancelled,
         AfterRunProceeds, PublishTampered, PublishReview, PublishResult, PublishFailure,
         LeaveRecovery, LeaveApply, Leave, Commit
<1>2. \A u \in Threads : u # t => pc[u] = "idle"
  BY <1>1, BusyOwns DEF Owned
<1>3. CASE Commit(t)
  <2>1. loc[t].doc = ManifestFor(job, raised) /\ loc[t].next \notin {"idle", "settle"}
    BY <1>3 DEF Commit, ReadyInv, ThreadReady
  <2>2. disk' = ManifestFor(job, raised)' /\ pc'[t] # "idle" /\ \A u \in Threads : u # t => pc'[u] = "idle"
    BY <1>2, <1>3, <2>1 DEF Commit, TypeOK
  <2> QED BY <2>2 DEF AgreesInv, AtRest
<1>4. CASE \/ Leave(t)
           \/ LeaveRecovery(t) /\ Ends(t) /\ UNCHANGED <<job, raised>>
  <2>1. disk = ManifestFor(job, raised)
    BY <1>4 DEF AgreesInv, Leave, LeaveRecovery
  <2>2. UNCHANGED <<disk, job, raised>>
    BY <1>4 DEF Leave, LeaveRecovery
  <2> QED BY <2>1, <2>2 DEF AgreesInv
<1>5. ASSUME NEW l, NEW j, NEW next, Save(t, l, j, raised, next) PROVE AgreesInv'
  <2>1. pc'[t] = "commit" /\ \A u \in Threads : u # t => pc'[u] = "idle"
    BY <1>2, <1>5 DEF Save, TypeOK
  <2> QED BY <2>1, AgreesBusy
<1>6. CASE CheckPassed(t) \/ Launch(t) \/ RunnerWrites(t) \/ RunnerReturns(t) \/ AfterRunProceeds(t)
  <2>1. /\ pc'[t] \in {"checked", "running", "returned", "publish"}
        /\ \A u \in Threads : u # t => pc'[u] = "idle"
    BY <1>2, <1>6 DEF CheckPassed, Launch, RunnerWrites, RunnerReturns, AfterRunProceeds, TypeOK
  <2> QED BY <2>1, AgreesBusy
<1>7. CASE CheckInputs(t) \/ CheckCancel(t) \/ RunnerCancelled(t) \/ AfterRunCancelled(t)
           \/ RunnerRaises(t) \/ PublishTampered(t)
  BY <1>5, <1>7 DEF CheckInputs, CheckCancel, RunnerCancelled, AfterRunCancelled, FinishCancelled,
     RunnerRaises, PublishTampered, Excepted
<1>8. CASE Begin(t) \/ Progress(t) \/ PublishReview(t) \/ PublishResult(t) \/ LeaveApply(t)
  BY <1>5, <1>8 DEF Begin, Progress, PublishReview, PublishResult, LeaveApply
<1>9. CASE PublishFailure(t)
  BY <1>5, <1>9 DEF PublishFailure
<1>10. CASE LeaveRecovery(t)
  BY <1>4, <1>5, <1>10 DEF LeaveRecovery
<1> QED BY <1>3, <1>4, <1>6, <1>7, <1>8, <1>9, <1>10 DEF RunStep

\* AgreesInv is inductive while, moreover, no write fails.
LEMMA AgreesStep ==
  ASSUME TypeOK, CalmInv, ReadyInv, AgreesInv, Patient, MaxCancels = 0, MaxFaults = 0, [Next]_vars
  PROVE  AgreesInv'
<1>0. Api \in Threads /\ ~Fault
  BY NoFault DEF Threads
<1>1. ASSUME NEW t \in Threads, RunStep(t) PROVE AgreesInv'
  BY <1>1, AgreesRun
<1>2. ASSUME NEW w \in Workers, Acquire(w) \/ Schedule(w) PROVE AgreesInv'
  <2>1. w \in Threads /\ w # Api
    BY ConstantsOK DEF Threads
  <2>2. \E t \in Threads : pc[t] # "idle" /\ (t = w \/ t = Api) /\ (t = w => Acquire(w)) /\ (t = Api => Schedule(w))
    BY <1>0, <1>2, <2>1 DEF Acquire, Schedule
  <2>3. pc'[w] \in {"entered", "waiting"} /\ \A u \in Threads : u # w => pc'[u] = "idle"
    BY <1>0, <1>2, <2>1, <2>2, BusyOwns DEF Acquire, Schedule, Owned, TypeOK
  <2> QED BY <2>1, <2>3, AgreesBusy
<1>3. CASE Settle
  BY <1>0, <1>3 DEF Settle, ReadyInv, ThreadReady
<1>4. CASE Client
  <2>1. CASE CancelJob
    BY <2>1 DEF CancelJob, Spend, TypeOK
  <2>2. AtRest \/ CancelJob
    BY <1>0, <1>4, PatientRests DEF Client, CreateJob, RetryJob, PutReview, ApplyInlineReview,
       ApplyWorkbookReview, Active, Terminal, CalmInv, AtRest, Owned
  <2>3. CASE AtRest /\ ~CancelJob
    <3>1. pc'[Api] \in {"commit", "entered"} /\ \A u \in Threads : u # Api => pc'[u] = "idle"
      BY <1>0, <1>4, <2>3 DEF Client, CreateJob, RetryJob, PutReview, ApplyInlineReview,
         ApplyWorkbookReview, Save, AtRest, TypeOK
    <3> QED BY <1>0, <3>1, AgreesBusy
  <2> QED BY <2>1, <2>2, <2>3
<1>5. CASE Restore
  <2>1. service = "down" /\ AtRest /\ raised = {}
    BY <1>5 DEF Restore, RestoreNothing, RestoreCancelled, RestoreActive, RestoreReview,
       RestoreTerminal, Restarting, CalmInv, Owned, ReadyInv
  <2>2. CASE RestoreNothing
    BY <2>1, <2>2 DEF RestoreNothing, AgreesInv, AtRest
  <2>3. CASE RestoreCancelled
    BY <2>3 DEF RestoreCancelled, Restarting, ReadyInv
  <2>4. CASE RestoreActive \/ RestoreReview
    <3>1. pc'[Api] \in {"commit", "schedule"} /\ \A u \in Threads : u # Api => pc'[u] = "idle"
      BY <1>0, <2>1, <2>4 DEF RestoreActive, RestoreReview, Save, AtRest, TypeOK
    <3> QED BY <1>0, <3>1, AgreesBusy
  <2>5. CASE RestoreTerminal
    <3>1. /\ disk \in Manifest /\ ~disk.cancel /\ job' = JobFrom(disk) /\ UNCHANGED <<disk, raised, pc>>
      BY <2>5 DEF RestoreTerminal, Restarting, TypeOK
    <3>2. ManifestFor(JobFrom(disk), {}) = disk
      BY <3>1 DEF ManifestFor, JobFrom, Manifest
    <3>3. disk' = ManifestFor(job, raised)'
      BY <2>1, <3>1, <3>2
    <3> QED BY <3>3 DEF AgreesInv
  <2> QED BY <1>5, <2>2, <2>3, <2>4, <2>5 DEF Restore
<1>6. CASE Crash
  BY <1>6 DEF Crash, AgreesInv, AtRest
<1>7. CASE Tamper \/ UNCHANGED vars
  BY <1>7 DEF Tamper, vars, AgreesInv, AtRest
<1> QED BY <1>0, <1>1, <1>2, <1>3, <1>4, <1>5, <1>6, <1>7 DEF Next, WorkerStep, ApiStep, Threads

\* A thread at its end, and a job at rest, find in the manifest what memory says.
THEOREM AgreesCorrect ==
  ASSUME Patient, MaxCancels = 0, MaxFaults = 0
  PROVE  Spec => []AgreesInv
<1>1. Init => AgreesInv
  BY DEF Init, AgreesInv
<1>2. TypeOK /\ CalmInv /\ ReadyInv /\ AgreesInv /\ [Next]_vars => AgreesInv'
  BY AgreesStep
<1> QED BY <1>1, <1>2, TypeCorrect, CalmCorrect, ReadyCorrect, PTL DEF Spec

\* When all threads are done, the manifest says what memory says, through any
\* number of retries, reviews, crashes and restarts.
THEOREM DiskAgreesCorrect ==
  ASSUME Patient, MaxCancels = 0, MaxFaults = 0
  PROVE  Spec => []DiskAgrees
<1>1. CalmInv /\ AgreesInv => DiskAgrees
  BY DEF CalmInv, AgreesInv, DiskAgrees, Quiet, AtRest, Owned
<1> QED BY <1>1, CalmCorrect, AgreesCorrect, PTL
-----------------------------------------------------------------------------
\* The only busy thread, in a service that is up.
LEMMA LivesBusy ==
  ASSUME NEW t \in Threads, pc'[t] # "idle", \A u \in Threads : u # t => pc'[u] = "idle",
         ThreadLives(t)', service' = "up", spent'.crashes \in {0, 1},
         FirstLife' => ~deferred',
         FirstLife' /\ ~tampered' /\ disk' # Nil => Fits(disk', files')
  PROVE  LivesInv'
<1>1. \A u \in Threads : ThreadLives(u)'
  BY DEF ThreadLives
<1> QED BY <1>1 DEF LivesInv, RestLives, CrashLives, AtRest

\* The only busy thread saves a record that a restart would accept.
LEMMA LivesSave ==
  ASSUME TypeOK, LivesInv, NEW t \in Threads, NEW l \in Locals, NEW j \in Job, NEW r,
         NEW next \in Labels, Save(t, l, j, r, next),
         \A u \in Threads : u # t => pc[u] = "idle",
         service' = "up", UNCHANGED <<disk, tampered>>, spent'.crashes = spent.crashes,
         FirstLife => ~deferred',
         FirstLife /\ ~tampered => Fits(j, files') /\ (disk # Nil => Fits(disk, files')),
         FirstLife => l.kind \notin {"recovery", "recovered"},
         l.kind \in {"put", "recovered"} => next = "leave",
         l.kind = "put" => j.choices,
         l.kind = "recovery" => (deferred' \/ next = "schedule") /\ j.status # "review_required",
         deferred' => l.kind = "recovery",
         next = "leave" => j.status # "queued" /\ (j.status = "processing" => l.kind = "recovery"),
         promise'.choice => (l.kind = "recovery" /\ l.saved) \/ (l.kind = "recovered" /\ j.choices)
  PROVE  LivesInv'
<1>1. /\ job' = j /\ pc'[t] = "commit" /\ loc'[t].doc = ManifestFor(j, r) /\ loc'[t].next = next
      /\ loc'[t].kind = l.kind /\ loc'[t].saved = l.saved
      /\ \A u \in Threads : u # t => pc'[u] = "idle"
  BY SaveSays
<1>2. FirstLife' <=> FirstLife
  BY DEF FirstLife
<1>3. FirstLife /\ ~tampered => Fits(loc'[t].doc, files')
  BY <1>1 DEF Fits, ManifestFor
<1>4. ThreadLives(t)'
  BY <1>1, <1>2, <1>3 DEF ThreadLives, Leaving, Writing
<1>5. spent'.crashes \in {0, 1}
  BY DEF LivesInv, CrashLives
<1> QED BY <1>1, <1>2, <1>4, <1>5, LivesBusy

\* LivesInv is kept by every step of a run.
LEMMA LivesRun ==
  ASSUME TypeOK, CalmInv, ReadyInv, AgreesInv, LivesInv, NEW t \in Threads, RunStep(t)
  PROVE  LivesInv'
<1>1. pc[t] # "idle"
  BY DEF RunStep, CheckInputs, CheckCancel, CheckPassed, Begin, Launch, RunnerWrites,
         Progress, RunnerReturns, RunnerCancelled, RunnerRaises, AfterRunCancelled,
         AfterRunProceeds, PublishTampered, PublishReview, PublishResult, PublishFailure,
         LeaveRecovery, LeaveApply, Leave, Commit
<1>2. Owned(t)
  BY <1>1, BusyOwns
<1>3. /\ \A u \in Threads : u # t => pc[u] = "idle"
      /\ service = "up" /\ spent.crashes \in {0, 1} /\ (FirstLife => ~deferred)
      /\ (FirstLife /\ ~tampered /\ disk # Nil => Fits(disk, files))
      /\ loc[t] \in Locals /\ job \in Job /\ raised = {} /\ job.attempt \in Nat
  BY <1>2 DEF Owned, TypeOK, Job, ReadyInv, LivesInv, CrashLives
<1>4. ThreadLives(t) /\ ThreadReady(t)
  BY DEF LivesInv, ReadyInv
<1>5. pc[t] \in {"launch", "running", "returned", "publish"}
        => Open(job) /\ disk # Nil /\ Open(disk) /\ loc[t].attempt = job.attempt
  BY <1>2, <1>4 DEF ThreadReady, InsideRun, Writing, Owned
<1>6. pc[t] \in {"entered", "checked", "launch", "running", "returned", "publish"}
        => /\ ~Leaving(t)
           /\ loc[t].kind \notin {"put", "recovered"}
           /\ loc[t].kind = "recovery" => deferred /\ job.status # "review_required"
           /\ deferred => loc[t].kind = "recovery"
           /\ FirstLife => loc[t].kind # "recovery"
           /\ promise.choice => loc[t].kind = "recovery" /\ loc[t].saved
  BY <1>1, <1>4 DEF ThreadLives, Leaving, Writing
<1>7. ~CheckCancel(t) /\ ~RunnerCancelled(t) /\ ~AfterRunCancelled(t)
  BY <1>3 DEF CheckCancel, RunnerCancelled, AfterRunCancelled, CancelSeen
<1>8. "leave" \in Labels /\ "launch" \in Labels /\ "running" \in Labels
  BY DEF Labels
<1>9. Failed(job) \in Job /\ Failed(job).status = "failed" /\ Failed(job).result = job.result
      /\ Failed(job).review = job.review
  BY <1>3, RecordsTyped DEF Failed, Job
<1>11. CASE CheckInputs(t)
  <2>1. /\ Save(t, loc[t], Failed(job), raised, "leave") /\ pc[t] = "entered" /\ tampered
        /\ UNCHANGED <<service, disk, files, tampered, deferred, promise, spent>>
    BY <1>11 DEF CheckInputs
  <2> QED BY <1>3, <1>6, <1>8, <1>9, <2>1, LivesSave
<1>12. CASE RunnerRaises(t) \/ PublishTampered(t)
  <2>1. /\ Save(t, loc[t], Failed(job), raised, "leave") /\ pc[t] \in {"running", "publish"}
        /\ UNCHANGED <<service, disk, tampered, deferred, promise, spent>>
    BY <1>12 DEF RunnerRaises, PublishTampered, Excepted
  <2>2. Fits(Failed(job), files') /\ Fits(disk, files')
    BY <1>5, <1>9, <2>1 DEF Fits, Open
  <2> QED BY <1>3, <1>6, <1>8, <1>9, <2>1, <2>2, LivesSave
<1>13. CASE PublishReview(t)
  <2> DEFINE j == [job EXCEPT !.review = ReviewOf(job.attempt), !.choices = FALSE,
                              !.status = IF deferred THEN "processing" ELSE "review_required"]
  <2>1. ReviewOf(job.attempt) \in Path
    BY <1>3, RecordsTyped
  <2>2. (IF deferred THEN "processing" ELSE "review_required") \in Status
    BY DEF Status, Active
  <2>3. j \in Job
    BY <1>3, <2>1, <2>2 DEF Job
  <2>4. j.status = IF deferred THEN "processing" ELSE "review_required"
    BY <1>3 DEF Job
  <2>5. /\ Save(t, loc[t], j, raised, "leave") /\ pc[t] = "publish"
        /\ UNCHANGED <<service, disk, files, tampered, deferred, promise, spent>>
    BY <1>13 DEF PublishReview
  <2>6. ReviewOf(job.attempt) \in files
    BY <1>13 DEF PublishReview, HasReview, Canonical
  <2>7. j.review = ReviewOf(j.attempt) /\ j.result = job.result /\ j.review = ReviewOf(job.attempt)
    BY <1>3 DEF Job
  <2> HIDE DEF j
  <2>8. ~deferred => Fits(j, files)
    BY <1>5, <2>4, <2>5, <2>6, <2>7 DEF Fits, Open
  <2> QED BY <1>3, <1>6, <1>8, <2>3, <2>4, <2>5, <2>8, LivesSave
<1>14. CASE PublishResult(t)
  <2> DEFINE j == [job EXCEPT !.result = ResultOf(job.attempt), !.review = Nil, !.status = "ready"]
  <2>1. ResultOf(job.attempt) \in Path /\ "ready" \in Status
    BY <1>3, RecordsTyped DEF Status, Terminal
  <2>2. j \in Job /\ j.result = ResultOf(j.attempt) /\ j.review = Nil /\ j.status = "ready"
        /\ j.attempt = job.attempt
    BY <1>3, <2>1 DEF Job
  <2>3. /\ Save(t, loc[t], j, raised, "leave") /\ pc[t] = "publish"
        /\ UNCHANGED <<service, disk, files, tampered, deferred, promise, spent>>
    BY <1>14 DEF PublishResult
  <2>4. j.result \in files
    BY <1>14, <2>2 DEF PublishResult, HasResult, Canonical
  <2> HIDE DEF j
  <2>5. Fits(j, files)
    BY <2>2, <2>4 DEF Fits
  <2> QED BY <1>3, <1>6, <1>8, <2>2, <2>3, <2>5, LivesSave
<1>15. CASE PublishFailure(t)
  <2> DEFINE s == IF loc[t].outcome = "blocked" \/ (loc[t].outcome = "review" /\ ~HasReview(t))
                  THEN "blocked" ELSE "failed"
             j == [job EXCEPT !.status = s]
  <2>1. s \in {"blocked", "failed"} /\ s \in Status
    BY DEF Status, Terminal
  <2>2. /\ Save(t, loc[t], j, raised, "leave") /\ pc[t] = "publish"
        /\ UNCHANGED <<service, disk, files, tampered, deferred, promise, spent>>
    BY <1>15 DEF PublishFailure
  <2> HIDE DEF s
  <2>3. j \in Job /\ j.status \in {"blocked", "failed"}
        /\ j.result = job.result /\ j.review = job.review
    BY <1>3, <2>1 DEF Job
  <2> HIDE DEF j
  <2>4. Fits(j, files)
    BY <1>5, <2>2, <2>3 DEF Fits, Open
  <2> QED BY <1>3, <1>6, <1>8, <2>2, <2>3, <2>4, LivesSave
<1>16. CASE Progress(t)
  <2> DEFINE l == [loc[t] EXCEPT !.told = TRUE]
  <2>1. l \in Locals /\ l.kind = loc[t].kind /\ l.saved = loc[t].saved
    BY <1>3 DEF Locals
  <2>2. /\ Save(t, l, job, raised, "running") /\ pc[t] = "running"
        /\ UNCHANGED <<service, disk, files, tampered, deferred, promise, spent>>
    BY <1>16 DEF Progress
  <2>3. Fits(job, files)
    BY <1>5, <2>2 DEF Fits, Open
  <2> HIDE DEF l
  <2> QED BY <1>3, <1>6, <1>8, <2>1, <2>2, <2>3, LivesSave
<1>17. CASE Begin(t)
  <2> DEFINE l == [loc[t] EXCEPT !.attempt = job.attempt + 1, !.before = job]
             j == [job EXCEPT !.status = "processing", !.result = Nil, !.review = Nil,
                              !.attempt = @ + 1]
  <2>1. job.attempt + 1 \in Nat /\ "processing" \in Status
    BY <1>3 DEF Status, Active
  <2>2. l \in Locals /\ l.kind = loc[t].kind /\ l.saved = loc[t].saved
    BY <1>3, <2>1 DEF Locals
  <2>3. j \in Job /\ Open(j) /\ j.status = "processing"
    BY <1>3, <2>1 DEF Job, Open
  <2>4. /\ Save(t, l, j, raised, "launch") /\ pc[t] = "checked"
        /\ UNCHANGED <<service, disk, files, tampered, deferred, promise, spent>>
    BY <1>17 DEF Begin
  <2> HIDE DEF l, j
  <2>5. Fits(j, files)
    BY <2>3 DEF Fits, Open
  <2> QED BY <1>3, <1>6, <1>8, <2>2, <2>3, <2>4, <2>5, LivesSave
<1>18. pc[t] = "leave" =>
         /\ job.status # "queued" /\ (job.status = "processing" => loc[t].kind = "recovery")
         /\ disk = ManifestFor(job, raised) /\ disk # Nil
         /\ FirstLife /\ ~tampered => Fits(job, files)
  <2> SUFFICES ASSUME pc[t] = "leave"
               PROVE  /\ job.status # "queued" /\ (job.status = "processing" => loc[t].kind = "recovery")
                      /\ disk = ManifestFor(job, raised) /\ disk # Nil
                      /\ FirstLife /\ ~tampered => Fits(job, files)
    OBVIOUS
  <2>1. disk = ManifestFor(job, raised)
    BY DEF AgreesInv
  <2>2. disk # Nil
    BY <1>2 DEF Owned, Writing
  <2>3. job.status # "queued" /\ (job.status = "processing" => loc[t].kind = "recovery")
    BY <1>4 DEF ThreadLives, Leaving
  <2>4. Fits(disk, files) => Fits(job, files)
    BY <2>1 DEF Fits, ManifestFor
  <2> QED BY <1>3, <2>1, <2>2, <2>3, <2>4
<1>19. CASE LeaveApply(t)
  <2> DEFINE l == [loc[t] EXCEPT !.kind = "applied"]
  <2>1. l \in Locals /\ l.kind = "applied"
    BY <1>3 DEF Locals, Kinds
  <2>2. /\ Save(t, l, job, raised, "leave") /\ pc[t] = "leave" /\ loc[t].kind = "apply"
        /\ UNCHANGED <<service, disk, files, tampered, deferred, promise, spent>>
    BY <1>19 DEF LeaveApply
  <2>3. ~deferred /\ ~promise.choice
    BY <1>4, <2>2 DEF ThreadLives
  <2> HIDE DEF l
  <2> QED BY <1>3, <1>8, <1>18, <2>1, <2>2, <2>3, LivesSave
<1>20. CASE LeaveRecovery(t)
  <2> DEFINE l == [loc[t] EXCEPT !.kind = "recovered"]
             j == [job EXCEPT !.choices = loc[t].saved, !.status = "review_required"]
  <2>0. /\ pc[t] = "leave" /\ loc[t].kind = "recovery" /\ deferred' = FALSE
        /\ UNCHANGED <<service, disk, files, tampered, promise, spent>>
    BY <1>20 DEF LeaveRecovery
  <2>1. l \in Locals /\ l.kind = "recovered"
    BY <1>3 DEF Locals, Kinds
  <2>2. "review_required" \in Status /\ loc[t].saved \in BOOLEAN
    BY <1>3 DEF Status, Locals
  <2>3. j \in Job /\ j.status = "review_required" /\ j.choices = loc[t].saved
    BY <1>3, <2>2 DEF Job
  <2>4. ~FirstLife /\ (promise.choice => loc[t].saved)
    BY <1>4, <2>0 DEF ThreadLives
  <2>5. CASE Save(t, l, j, raised, "leave")
    <3> HIDE DEF l, j
    <3> QED BY <1>3, <1>8, <2>0, <2>1, <2>3, <2>4, <2>5, LivesSave
  <2>6. CASE job.status \notin {"processing", "review_required"} /\ Ends(t) /\ UNCHANGED <<job, raised>>
    <3>1. \A u \in Threads : pc'[u] = "idle"
      BY <1>3, <2>6 DEF Ends, TypeOK
    <3>2. ~FirstLife' /\ job'.status \notin Active \cup {"review_required"}
      BY <1>18, <2>0, <2>4, <2>6 DEF FirstLife, Active
    <3> QED BY <1>3, <2>0, <3>1, <3>2 DEF LivesInv, ThreadLives, RestLives, CrashLives
  <2> QED BY <1>20, <2>5, <2>6 DEF LeaveRecovery
<1>21. CASE Leave(t)
  <2>1. /\ pc[t] = "leave" /\ loc[t].kind # "recovery"
        /\ UNCHANGED <<service, job, raised, deferred, disk, files, tampered, spent>>
        /\ promise'.choice = (promise.choice \/ loc[t].kind = "put")
    BY <1>21 DEF Leave, TypeOK
  <2>2. \A u \in Threads : pc'[u] = "idle"
    BY <1>3, <1>21 DEF Leave, Ends, TypeOK
  <2>3. ~deferred /\ (promise'.choice => job.choices)
    BY <1>1, <1>4, <2>1 DEF ThreadLives
  <2>4. job.status \notin Active
    BY <1>18, <2>1 DEF Active
  <2>5. FirstLife' <=> FirstLife
    BY <2>1 DEF FirstLife
  <2> QED BY <1>3, <2>1, <2>2, <2>3, <2>4, <2>5 DEF LivesInv, ThreadLives, RestLives, CrashLives
<1>22. CASE CheckPassed(t) \/ Launch(t) \/ RunnerWrites(t) \/ RunnerReturns(t) \/ AfterRunProceeds(t)
  <2>1. /\ pc[t] \in {"entered", "launch", "running", "returned"}
        /\ UNCHANGED <<service, job, deferred, disk, tampered, promise, spent>>
        /\ files \subseteq files'
    BY <1>22 DEF CheckPassed, Launch, RunnerWrites, RunnerReturns, AfterRunProceeds
  <2>2. /\ pc'[t] \in {"checked", "running", "returned", "publish"}
        /\ \A u \in Threads : u # t => pc'[u] = "idle"
        /\ loc'[t].kind = loc[t].kind /\ loc'[t].saved = loc[t].saved
    <3>1. /\ pc'[t] \in {"checked", "running", "returned", "publish"}
          /\ \A u \in Threads : u # t => pc'[u] = "idle"
      BY <1>3, <1>22 DEF CheckPassed, Launch, RunnerWrites, RunnerReturns, AfterRunProceeds, TypeOK
    <3>2. loc'[t].kind = loc[t].kind /\ loc'[t].saved = loc[t].saved
      BY <1>3, <1>22 DEF CheckPassed, Launch, RunnerWrites, RunnerReturns, AfterRunProceeds, TypeOK, Locals
    <3> QED BY <3>1, <3>2
  <2>3. FirstLife' <=> FirstLife
    BY <2>1 DEF FirstLife
  <2>4. ThreadLives(t)'
    BY <1>6, <2>1, <2>2, <2>3 DEF ThreadLives, Leaving, Writing
  <2>5. FirstLife' /\ ~tampered' /\ disk' # Nil => Fits(disk', files')
    BY <1>3, <2>1, <2>3 DEF Fits
  <2> QED BY <1>3, <2>1, <2>2, <2>3, <2>4, <2>5, LivesBusy
<1>23. CASE Commit(t)
  <2>1. /\ pc[t] = "commit" /\ loc[t].next \notin {"idle", "settle"} /\ loc[t].next \in Labels
    BY <1>3, <1>4, <1>23 DEF ThreadReady, Commit, Locals
  <2>2. /\ disk' = loc[t].doc /\ pc'[t] = loc[t].next
        /\ UNCHANGED <<service, job, deferred, files, tampered, promise, spent>>
        /\ \A u \in Threads : u # t => pc'[u] = "idle"
    BY <1>3, <1>23 DEF Commit, TypeOK
  <2>3. loc'[t].kind = loc[t].kind /\ loc'[t].saved = loc[t].saved
    BY <1>3, <1>23 DEF Commit, TypeOK, Locals
  <2>4. FirstLife' <=> FirstLife
    BY <2>2 DEF FirstLife
  <2>5. FirstLife /\ ~tampered => Fits(disk', files')
    BY <1>4, <2>1, <2>2 DEF ThreadLives
  <2>6. ThreadLives(t)'
    BY <1>4, <2>1, <2>2, <2>3, <2>4 DEF ThreadLives, Leaving, Writing, Labels
  <2> QED BY <1>3, <2>1, <2>2, <2>4, <2>5, <2>6, LivesBusy
<1> QED
  BY <1>7, <1>11, <1>12, <1>13, <1>14, <1>15, <1>16, <1>17, <1>19, <1>20, <1>21, <1>22, <1>23
     DEF RunStep

\* A job at rest, in a service that is up, is one that a restart would accept.
LEMMA RestFits ==
  ASSUME AgreesInv, LivesInv, AtRest, service = "up"
  PROVE  /\ FirstLife /\ ~tampered => Fits(job, files)
         /\ ~deferred /\ disk # Nil /\ spent.crashes \in {0, 1}
         /\ FirstLife /\ ~tampered => Fits(disk, files)
         /\ promise.choice /\ job.status = "review_required" => job.choices
<1>1. disk = ManifestFor(job, raised) /\ disk # Nil
  BY DEF AgreesInv, AtRest
<1>2. FirstLife /\ ~tampered => Fits(disk, files)
  BY <1>1 DEF LivesInv, CrashLives
<1>3. FirstLife /\ ~tampered => Fits(job, files)
  BY <1>1, <1>2 DEF Fits, ManifestFor
<1>4. /\ ~deferred /\ spent.crashes \in {0, 1}
      /\ promise.choice /\ job.status = "review_required" => job.choices
  BY DEF LivesInv, RestLives, CrashLives
<1> QED BY <1>1, <1>2, <1>3, <1>4

\* LivesInv is kept by what clients ask for: a confirmed decision is not lost
\* because only a retry or an apply, which withdraw it, start a run.
LEMMA LivesClient ==
  ASSUME TypeOK, CalmInv, ReadyInv, AgreesInv, LivesInv, Patient, MaxCancels = 0, Client
  PROVE  LivesInv'
<1>0. /\ Api \in Threads /\ job \in Job /\ raised = {} /\ NoLocals.kind = "none"
      /\ NoLocals \in Locals /\ spent \in [{"cancels", "retries", "applies", "faults", "crashes", "tampers"} -> Nat]
  BY RecordsTyped DEF Threads, TypeOK, ReadyInv, NoLocals
<1>1. CASE CreateJob
  <2>1. AtRest /\ disk = Nil /\ service = "empty"
    BY <1>0, <1>1 DEF CalmInv, AtRest, Owned, CreateJob
  <2>2. ~deferred /\ ~promise.choice
    BY <2>1 DEF LivesInv, RestLives, CrashLives
  <2> DEFINE l == [NoLocals EXCEPT !.kind = "create"]
  <2>3. l \in Locals /\ l.kind = "create"
    BY <1>0 DEF Locals, Kinds
  <2>4. /\ Save(Api, l, NewJob, {}, "schedule") /\ service' = "up"
        /\ UNCHANGED <<deferred, disk, files, tampered, promise, spent>>
    BY <1>1 DEF CreateJob
  <2>5. NewJob \in Job /\ Fits(NewJob, files) /\ "schedule" \in Labels
    BY RecordsTyped DEF NewJob, Fits, Labels
  <2> HIDE DEF l
  <2> QED BY <1>0, <2>1, <2>2, <2>3, <2>4, <2>5, LivesSave DEF AtRest
<1>2. CASE CancelJob
  BY <1>2 DEF CancelJob, Spend, TypeOK
<1>3. CASE RetryJob
  <2>1. AtRest /\ service = "up"
    BY <1>3, PatientRests DEF RetryJob, Active, Terminal, Idle
  <2> DEFINE l == [NoLocals EXCEPT !.kind = "retry", !.before = job]
             j == [job EXCEPT !.status = "queued", !.result = Nil, !.review = Nil, !.ev = @ + 1]
  <2>2. l \in Locals /\ l.kind = "retry"
    BY <1>0 DEF Locals, Kinds
  <2>3. job.ev + 1 \in Nat /\ "queued" \in Status
    BY <1>0 DEF Job, Status, Active
  <2>4. j \in Job /\ Fits(j, files)
    BY <1>0, <2>3 DEF Job, Fits
  <2>5. /\ Save(Api, l, j, raised, "schedule") /\ ~promise'.choice
        /\ UNCHANGED <<service, deferred, disk, files, tampered>>
    BY <1>3 DEF RetryJob
  <2>6. spent'.crashes = spent.crashes /\ "schedule" \in Labels
    BY <1>0, <1>3 DEF RetryJob, Spend, Labels
  <2> HIDE DEF l, j
  <2> QED BY <1>0, <2>1, <2>2, <2>4, <2>5, <2>6, RestFits, LivesSave DEF AtRest
<1>4. CASE PutReview
  <2>1. AtRest /\ service = "up"
    BY <1>4, PatientRests DEF PutReview, Active, Idle
  <2> DEFINE l == [NoLocals EXCEPT !.kind = "put", !.before = job]
             j == [job EXCEPT !.choices = TRUE]
  <2>2. l \in Locals /\ l.kind = "put"
    BY <1>0 DEF Locals, Kinds
  <2>3. j \in Job /\ j.status = "review_required" /\ j.choices /\ (Fits(job, files) => Fits(j, files))
    BY <1>0, <1>4 DEF Job, PutReview, Fits
  <2>4. /\ Save(Api, l, j, raised, "leave")
        /\ UNCHANGED <<service, deferred, disk, files, tampered, promise, spent>>
    BY <1>4 DEF PutReview
  <2>5. ~promise.choice /\ "leave" \in Labels
    BY <1>4, <2>1, RestFits DEF PutReview, Labels
  <2> HIDE DEF l, j
  <2> QED BY <1>0, <2>1, <2>2, <2>3, <2>4, <2>5, RestFits, LivesSave DEF AtRest
<1>5. CASE ApplyInlineReview
  <2>1. AtRest /\ service = "up"
    BY <1>5, PatientRests DEF ApplyInlineReview, Active, Idle
  <2> DEFINE l == [NoLocals EXCEPT !.kind = "apply"]
  <2>2. l \in Locals /\ l.kind = "apply"
    BY <1>0 DEF Locals, Kinds
  <2>3. /\ Save(Api, l, job, raised, "entered") /\ ~promise'.choice
        /\ UNCHANGED <<service, deferred, disk, files, tampered>>
    BY <1>5 DEF ApplyInlineReview, TypeOK
  <2>4. spent'.crashes = spent.crashes /\ "entered" \in Labels
    BY <1>0, <1>5 DEF ApplyInlineReview, Spend, Labels
  <2> HIDE DEF l
  <2> QED BY <1>0, <2>1, <2>2, <2>3, <2>4, RestFits, LivesSave DEF AtRest
<1>6. CASE ApplyWorkbookReview
  <2>1. AtRest /\ service = "up"
    BY <1>6, PatientRests DEF ApplyWorkbookReview, Active, Idle
  <2>2. /\ pc'[Api] = "entered" /\ loc'[Api].kind = "workbook"
        /\ \A u \in Threads : u # Api => pc'[u] = "idle"
    BY <1>0, <1>6, <2>1 DEF ApplyWorkbookReview, TypeOK, AtRest, Locals
  <2>3. /\ files \subseteq files' /\ UNCHANGED <<service, deferred, disk, tampered>>
        /\ ~promise'.choice
    BY <1>6 DEF ApplyWorkbookReview, TypeOK
  <2>4. spent'.crashes = spent.crashes
    BY <1>0, <1>6 DEF ApplyWorkbookReview, Spend
  <2>5. ThreadLives(Api)'
    BY <2>1, <2>2, <2>3, RestFits DEF ThreadLives, Leaving, Writing
  <2>6. FirstLife' /\ ~tampered' /\ disk' # Nil => Fits(disk', files')
    BY <2>1, <2>3, <2>4, RestFits DEF Fits, FirstLife
  <2> QED BY <1>0, <2>1, <2>2, <2>3, <2>4, <2>5, <2>6, RestFits, LivesBusy
<1> QED BY <1>1, <1>2, <1>3, <1>4, <1>5, <1>6 DEF Client

\* LivesInv is kept by a restart, which only follows the one crash.
LEMMA LivesRestore ==
  ASSUME TypeOK, CalmInv, ReadyInv, LivesInv, Restore
  PROVE  LivesInv'
<1>0. Api \in Threads /\ raised = {} /\ NoLocals \in Locals
  BY RecordsTyped DEF Threads, ReadyInv
<1>1. service = "down" /\ AtRest
  BY DEF Restore, RestoreNothing, RestoreCancelled, RestoreActive, RestoreReview,
     RestoreTerminal, Restarting, CalmInv, Owned
<1>2. /\ ~FirstLife /\ ~deferred /\ spent.crashes \in {0, 1}
      /\ ~tampered /\ disk # Nil => Fits(disk, files)
      /\ promise.choice => /\ disk # Nil /\ disk.status \notin Active
                           /\ disk.status = "review_required" => disk.choices
  BY <1>1 DEF LivesInv, RestLives, CrashLives
<1>3. CASE RestoreNothing
  <2>1. /\ UNCHANGED <<job, deferred, disk, files, tampered, pc, loc, promise, spent>>
        /\ \/ disk = Nil /\ service' = "empty"
           \/ disk # Nil /\ ~Restorable(disk) /\ service' = "lost"
    BY <1>3 DEF RestoreNothing
  <2>2. service' = "lost" => tampered
    BY <1>2, <2>1 DEF Restorable, Fits
  <2>3. ~FirstLife' /\ \A u \in Threads : pc'[u] = "idle"
    BY <1>1, <1>2, <2>1 DEF FirstLife, AtRest
  <2> QED BY <1>2, <2>1, <2>2, <2>3 DEF LivesInv, ThreadLives, RestLives, CrashLives
<1>4. CASE RestoreCancelled
  BY <1>4 DEF RestoreCancelled, Restarting, ReadyInv
<1>5. CASE RestoreActive
  <2>1. /\ pc'[Api] = "schedule" /\ loc'[Api].kind = "restore" /\ service' = "up"
        /\ \A u \in Threads : u # Api => pc'[u] = "idle"
    BY <1>0, <1>1, <1>5 DEF RestoreActive, TypeOK, AtRest, Locals
  <2>2. ~promise.choice /\ UNCHANGED <<deferred, disk, files, tampered, promise, spent>>
    BY <1>2, <1>5 DEF RestoreActive
  <2>3. ~FirstLife'
    BY <1>2, <2>2 DEF FirstLife
  <2>4. ThreadLives(Api)'
    BY <1>2, <2>1, <2>2, <2>3 DEF ThreadLives, Leaving, Writing
  <2> QED BY <1>0, <1>2, <2>1, <2>2, <2>3, <2>4, LivesBusy
<1>6. CASE RestoreReview
  <2> DEFINE l == [NoLocals EXCEPT !.kind = "recovery", !.saved = disk.choices]
             j == [JobFrom(disk) EXCEPT !.status = "queued"]
  <2>1. /\ disk # Nil /\ disk \in Manifest /\ JobFrom(disk) \in Job /\ disk.choices \in BOOLEAN
        /\ disk.status = "review_required"
    BY <1>6, RecordsTyped DEF RestoreReview, Restarting, TypeOK, Manifest
  <2>2. l \in Locals /\ l.kind = "recovery" /\ l.saved = disk.choices
    BY <1>0, <2>1 DEF Locals, Kinds
  <2>3. j \in Job /\ j.status = "queued"
    BY <2>1 DEF Job, Status, Active
  <2>4. /\ Save(Api, l, j, {}, "schedule") /\ service' = "up"
        /\ UNCHANGED <<deferred, disk, files, tampered, promise, spent>>
    BY <1>6 DEF RestoreReview
  <2>5. "schedule" \in Labels
    BY DEF Labels
  <2> HIDE DEF l, j
  <2> QED BY <1>0, <1>1, <1>2, <2>1, <2>2, <2>3, <2>4, <2>5, LivesSave DEF AtRest
<1>7. CASE RestoreTerminal
  <2>1. /\ job' = JobFrom(disk) /\ disk.status \in Terminal /\ service' = "up"
        /\ UNCHANGED <<deferred, disk, files, tampered, pc, promise, spent>>
    BY <1>7 DEF RestoreTerminal
  <2>2. job'.status \notin Active \cup {"review_required"}
    BY <2>1 DEF JobFrom, Terminal, Active
  <2>3. ~FirstLife' /\ \A u \in Threads : pc'[u] = "idle"
    BY <1>1, <1>2, <2>1 DEF FirstLife, AtRest
  <2> QED BY <1>2, <2>1, <2>2, <2>3 DEF LivesInv, ThreadLives, RestLives, CrashLives
<1> QED BY <1>3, <1>4, <1>5, <1>6, <1>7 DEF Restore

\* LivesInv is inductive while the service crashes once at most.
LEMMA LivesStep ==
  ASSUME TypeOK, CalmInv, ReadyInv, AgreesInv, LivesInv, Patient, MaxCancels = 0, MaxFaults = 0,
         MaxCrashes \in {0, 1}, [Next]_vars
  PROVE  LivesInv'
<1>0. Api \in Threads /\ ~Fault
  BY NoFault DEF Threads
<1>1. ASSUME NEW t \in Threads, RunStep(t) PROVE LivesInv'
  BY <1>1, LivesRun
<1>2. ASSUME NEW w \in Workers, Acquire(w) PROVE LivesInv'
  <2>1. w \in Threads /\ pc[w] = "waiting"
    BY <1>2 DEF Threads, Acquire
  <2>2. Owned(w) /\ ThreadLives(w)
    BY <2>1, BusyOwns DEF LivesInv
  <2>3. /\ pc'[w] = "entered" /\ \A u \in Threads : u # w => pc'[u] = "idle"
        /\ deferred' = (deferred \/ loc[w].kind = "recovery")
        /\ UNCHANGED <<service, job, disk, files, tampered, loc, promise, spent>>
    BY <1>2, <2>1, <2>2 DEF Acquire, Owned, TypeOK
  <2>4. FirstLife' <=> FirstLife
    BY <2>3 DEF FirstLife
  <2>5. ThreadLives(w)'
    BY <2>1, <2>2, <2>3, <2>4 DEF ThreadLives, Leaving, Writing
  <2>6. (FirstLife' => ~deferred') /\ spent.crashes \in {0, 1}
    BY <2>1, <2>2, <2>3, <2>4 DEF ThreadLives, LivesInv, CrashLives
  <2>7. FirstLife' /\ ~tampered' /\ disk' # Nil => Fits(disk', files')
    BY <2>3, <2>4 DEF LivesInv, CrashLives
  <2> QED BY <2>1, <2>2, <2>3, <2>5, <2>6, <2>7, LivesBusy DEF Owned
<1>3. ASSUME NEW w \in Workers, Schedule(w) PROVE LivesInv'
  <2>1. w \in Threads /\ w # Api /\ Owned(Api) /\ pc[Api] = "schedule" /\ ThreadLives(Api)
    BY <1>0, <1>3, BusyOwns, ConstantsOK DEF Threads, Schedule, LivesInv
  <2>2. /\ pc'[w] = "waiting" /\ \A u \in Threads : u # w => pc'[u] = "idle"
        /\ UNCHANGED <<service, job, deferred, disk, files, tampered, promise, spent>>
    BY <1>0, <1>3, <2>1 DEF Schedule, Owned, TypeOK
  <2>3. loc'[w].kind = (IF loc[Api].kind = "recovery" THEN "recovery" ELSE "run")
        /\ loc'[w].saved = loc[Api].saved
    BY <1>0, <1>3, <2>1, RecordsTyped DEF Schedule, TypeOK, Locals
  <2>4. FirstLife' <=> FirstLife
    BY <2>2 DEF FirstLife
  <2>5. loc[Api].kind # "recovered"
    BY <2>1 DEF ThreadLives, Leaving, Writing
  <2>6. ThreadLives(w)'
    BY <2>1, <2>2, <2>3, <2>4, <2>5 DEF ThreadLives, Leaving, Writing
  <2>7. /\ (FirstLife' => ~deferred') /\ spent.crashes \in {0, 1}
        /\ FirstLife' /\ ~tampered' /\ disk' # Nil => Fits(disk', files')
    BY <2>2, <2>4 DEF LivesInv, CrashLives
  <2> QED BY <2>1, <2>2, <2>6, <2>7, LivesBusy DEF Owned
<1>4. CASE Settle
  BY <1>0, <1>4 DEF Settle, ReadyInv, ThreadReady
<1>5. CASE Crash
  <2>1. FirstLife /\ spent'.crashes = 1 /\ service = "up"
    BY <1>5 DEF Crash, Spend, LivesInv, CrashLives, FirstLife, TypeOK
  <2>2. /\ service' = "down" /\ ~deferred' /\ UNCHANGED <<disk, files, tampered, promise>>
        /\ \A u \in Threads : pc'[u] = "idle"
    BY <1>5 DEF Crash
  <2>3. promise.choice => AtRest
    BY <2>1 DEF LivesInv, ThreadLives, CalmInv, Owned
  <2>4. promise.choice => /\ disk # Nil /\ disk.status \notin Active
                          /\ disk.status = "review_required" => disk.choices
    <3> SUFFICES ASSUME promise.choice
                 PROVE  /\ disk # Nil /\ disk.status \notin Active
                        /\ disk.status = "review_required" => disk.choices
      OBVIOUS
    <3>1. disk = ManifestFor(job, raised) /\ disk # Nil
      BY <2>1, <2>3 DEF AgreesInv, AtRest
    <3>2. job.status \notin Active /\ (job.status = "review_required" => job.choices)
      BY <2>1, <2>3 DEF LivesInv, RestLives
    <3> QED BY <3>1, <3>2 DEF ManifestFor
  <2>5. ~tampered /\ disk # Nil => Fits(disk, files)
    BY <2>1 DEF LivesInv, CrashLives
  <2>6. ~FirstLife'
    BY <2>1 DEF FirstLife
  <2> QED BY <2>1, <2>2, <2>4, <2>5, <2>6 DEF LivesInv, ThreadLives, RestLives, CrashLives
<1>6. CASE Tamper \/ UNCHANGED vars
  <2>1. /\ UNCHANGED <<service, job, deferred, disk, files, pc, loc, promise>>
        /\ tampered => tampered'
    BY <1>6 DEF Tamper, vars
  <2>2. spent'.crashes = spent.crashes
    BY <1>6 DEF Tamper, vars, Spend, TypeOK
  <2>3. FirstLife' <=> FirstLife
    BY <2>2 DEF FirstLife
  <2> QED BY <2>1, <2>2, <2>3 DEF LivesInv, ThreadLives, RestLives, CrashLives, AtRest, Leaving, Writing
<1> QED BY <1>0, <1>1, <1>2, <1>3, <1>4, <1>5, <1>6, LivesClient, LivesRestore
        DEF Next, WorkerStep, ApiStep, Threads

\* The lives of the job on both sides of a crash.
THEOREM LivesCorrect ==
  ASSUME Patient, MaxCancels = 0, MaxFaults = 0, MaxCrashes \in {0, 1}
  PROVE  Spec => []LivesInv
<1>1. Init => LivesInv
  BY DEF Init, LivesInv, ThreadLives, RestLives, CrashLives, Fits
<1>2. TypeOK /\ CalmInv /\ ReadyInv /\ AgreesInv /\ LivesInv /\ [Next]_vars => LivesInv'
  BY LivesStep
<1> QED BY <1>1, <1>2, TypeCorrect, CalmCorrect, ReadyCorrect, AgreesCorrect, PTL DEF Spec

\* No restart loses the job while its inputs are intact.
THEOREM JobRecoveredCorrect ==
  ASSUME Patient, MaxCancels = 0, MaxFaults = 0, MaxCrashes \in {0, 1}
  PROVE  Spec => []JobRecovered
<1>1. LivesInv => JobRecovered
  BY DEF LivesInv, CrashLives, JobRecovered
<1> QED BY <1>1, LivesCorrect, PTL

\* A confirmed review decision is there whenever the page is open again.
THEOREM ChoiceKeptCorrect ==
  ASSUME Patient, MaxCancels = 0, MaxFaults = 0, MaxCrashes \in {0, 1}
  PROVE  Spec => []ChoiceKept
<1>1. TypeOK /\ CalmInv /\ LivesInv => ChoiceKept
  <2> SUFFICES ASSUME TypeOK, CalmInv, LivesInv, service = "up", promise.choice,
                      job.status = "review_required"
               PROVE  job.choices
    BY DEF ChoiceKept
  <2>1. CASE AtRest
    BY <2>1 DEF LivesInv, RestLives
  <2>2. ASSUME NEW t \in Threads, Owned(t) PROVE job.choices
    BY <2>2 DEF Owned, LivesInv, ThreadLives
  <2> QED BY <2>1, <2>2 DEF CalmInv
<1> QED BY <1>1, TypeCorrect, CalmCorrect, LivesCorrect, PTL

-----------------------------------------------------------------------------
(* Cancellation.                                                            *)

Busy(t) == pc[t] # "idle"

\* The attempts whose run could still write a workbook.
Running == {loc[t].attempt : t \in {u \in Threads : InsideRun(u)}}

\* A record or manifest of a cancelled job names no workbook, and its attempt has
\* none: none is there, and no run is left that could write one.
Clean(m, books, attempts) ==
  m.status = "cancelled" =>
    /\ m.result = Nil /\ m.review = Nil
    /\ {ResultOf(m.attempt), ReviewOf(m.attempt)} \cap books = {}
    /\ m.attempt \notin attempts

\* The only thing the API does beside a worker is a cancellation.
Beside == /\ loc[Api].kind = "cancel"
          /\ \/ pc[Api] \in {"settle", "leave"}
             \/ Writing(Api, "settle") \/ Writing(Api, "leave")

\* A worker is alone, and was given a job that was queued, or that has been
\* cancelled in the meantime.
WorkerStands(w) ==
  Busy(w) =>
    /\ \A u \in Workers : Busy(u) => u = w
    /\ Busy(Api) => Beside
    /\ pc[w] \notin {"schedule", "settle"}
    /\ pc[w] = "commit" => loc[w].next \in {"launch", "running", "leave"}
    /\ pc[w] \in {"waiting", "entered", "checked"} => job.status \in {"queued", "cancelled"}

\* A run shows in the status, and a document is no younger than the record.
ThreadStands(t) ==
  /\ InsideRun(t) => job.status = "processing" /\ loc[t].attempt = job.attempt
  /\ pc[t] = "commit" => /\ loc[t].doc # Nil /\ loc[t].doc.attempt <= job.attempt
                         /\ Clean(loc[t].doc, files, Running)

CancelInv ==
  /\ \A w \in Workers : WorkerStands(w)
  /\ \A t \in Threads : ThreadStands(t)
  /\ service # "up" => \A t \in Threads : ~Busy(t)
  /\ pc[Api] = "schedule" \/ Writing(Api, "schedule") => job.status = "queued"
  /\ service = "up" /\ disk # Nil => disk.attempt <= job.attempt
  /\ service = "empty" => disk = Nil
  /\ disk # Nil => Clean(disk, files, Running)
  /\ Clean(job, files, {})
-----------------------------------------------------------------------------
\* A thread saves a record; a run other than its own sees the record it knows.
LEMMA CancelSave ==
  ASSUME TypeOK, TypeOK', CancelInv, NEW t \in Threads, NEW l \in Locals, NEW j \in Job,
         NEW r \in SUBSET Nat, NEW next \in Labels, Save(t, l, j, r, next),
         service' = "up", UNCHANGED disk, files' \subseteq files,
         (\A u \in Threads : ~Busy(u)) \/ job.attempt <= j.attempt,
         disk # Nil => disk.attempt <= j.attempt,
         (\A u \in Threads : u # t => ~InsideRun(u)) \/ j = job,
         t # Api => Busy(t) /\ next \in {"launch", "running", "leave"},
         t = Api => \A w \in Workers : Busy(w) => /\ l.kind = "cancel" /\ next \in {"settle", "leave"}
                                                  /\ j.status \in {job.status, "cancelled"},
         next \in {"launch", "running"} => j.status = "processing" /\ l.attempt = j.attempt,
         next = "launch" => service = "up" /\ j.attempt = job.attempt + 1,
         next = "running" => InsideRun(t) /\ l.attempt = loc[t].attempt,
         next = "schedule" => j.status = "queued",
         Clean(j, files', {})
  PROVE  CancelInv'
<1>1. /\ job' = j /\ pc'[t] = "commit" /\ loc'[t].doc = ManifestFor(j, r) /\ loc'[t].next = next
      /\ loc'[t].attempt = l.attempt /\ loc'[t].kind = l.kind
      /\ \A u \in Threads : u # t => pc'[u] = pc[u] /\ loc'[u] = loc[u]
  BY SaveSays
<1>2. /\ \A u \in Threads : u # t => (InsideRun(u)' <=> InsideRun(u))
      /\ InsideRun(t)' <=> next \in {"launch", "running"}
  BY <1>1 DEF InsideRun
<1>3. \A n \in Running' : n \in Running \/ (next = "launch" /\ n = job.attempt + 1)
  <2> SUFFICES ASSUME NEW u \in Threads, InsideRun(u)'
               PROVE  loc'[u].attempt \in Running \/ (next = "launch" /\ loc'[u].attempt = job.attempt + 1)
    BY DEF Running
  <2>1. CASE u # t
    BY <1>1, <1>2, <2>1 DEF Running
  <2>2. CASE u = t
    BY <1>1, <1>2, <2>2 DEF Running
  <2> QED BY <2>1, <2>2
<1>4. j.status = "cancelled" => Running' = {}
  <2> SUFFICES ASSUME j.status = "cancelled", NEW u \in Threads, InsideRun(u)'
               PROVE  FALSE
    BY DEF Running
  <2>1. u # t /\ InsideRun(u)
    BY <1>2
  <2> QED BY <2>1 DEF CancelInv, ThreadStands
<1>5. /\ job.attempt \in Nat /\ j.attempt \in Nat
      /\ disk # Nil => disk.attempt \in Nat
      /\ \A u \in Threads : loc[u].doc # Nil => loc[u].doc.attempt \in Nat
  BY DEF TypeOK, Job, Manifest, Locals
<1>6. ThreadStands(t)'
  <2>1. /\ ManifestFor(j, r).attempt = j.attempt /\ ManifestFor(j, r).status = j.status
        /\ ManifestFor(j, r).result = j.result /\ ManifestFor(j, r).review = j.review
    BY DEF ManifestFor
  <2>2. ManifestFor(j, r) # Nil
    <3>1. ManifestFor(j, r) \in Manifest
      BY DEF ManifestFor, Manifest, Job
    <3> QED BY <3>1, NilOK
  <2>3. Clean(ManifestFor(j, r), files', Running')
    BY <1>4, <2>1 DEF Clean
  <2> QED BY <1>1, <1>2, <1>5, <2>1, <2>2, <2>3 DEF ThreadStands
<1>7. ASSUME NEW u \in Threads, u # t PROVE ThreadStands(u)'
  <2>1. ThreadStands(u)
    BY DEF CancelInv
  <2>2. InsideRun(u)' => job'.status = "processing" /\ loc'[u].attempt = job'.attempt
    BY <1>1, <1>2, <1>7, <2>1 DEF ThreadStands
  <2>3. ASSUME pc'[u] = "commit"
        PROVE  /\ loc'[u].doc # Nil /\ loc'[u].doc.attempt <= job'.attempt
               /\ Clean(loc'[u].doc, files', Running')
    <3>1. /\ loc[u].doc # Nil /\ loc[u].doc.attempt <= job.attempt
          /\ Clean(loc[u].doc, files, Running) /\ Busy(u) /\ loc'[u] = loc[u]
      BY <1>1, <1>7, <2>1, <2>3 DEF ThreadStands, Busy
    <3>2. loc[u].doc.attempt # job.attempt + 1 /\ loc[u].doc.attempt <= j.attempt
      BY <1>5, <3>1
    <3>3. Clean(loc[u].doc, files', Running')
      BY <1>3, <3>1, <3>2 DEF Clean
    <3> QED BY <1>1, <3>1, <3>2, <3>3
  <2> QED BY <2>2, <2>3 DEF ThreadStands
<1>8. ASSUME NEW w \in Workers, Busy(w)' PROVE WorkerStands(w)'
  <2>1. w \in Threads /\ w # Api /\ Api \in Threads /\ Workers \subseteq Threads
    BY ConstantsOK DEF Threads
  <2>2. CASE t # Api
    <3>1. t \in Workers /\ WorkerStands(t) /\ Busy(t)
      BY <2>2 DEF Threads, CancelInv
    <3>2. w = t
      BY <1>1, <1>8, <2>1, <3>1 DEF WorkerStands, Busy
    <3>3. Busy(Api)' => Beside'
      BY <1>1, <2>1, <2>2, <3>1 DEF WorkerStands, Busy, Beside, Writing
    <3> QED BY <1>1, <2>1, <2>2, <3>1, <3>2, <3>3 DEF WorkerStands, Busy
  <2>3. CASE t = Api
    <3>1. WorkerStands(w) /\ Busy(w) /\ pc'[w] = pc[w] /\ loc'[w] = loc[w]
      BY <1>1, <1>8, <2>1, <2>3 DEF CancelInv, Busy
    <3>2. Beside' /\ j.status \in {job.status, "cancelled"}
      BY <1>1, <2>3, <3>1 DEF Beside, Writing
    <3>3. \A u \in Workers : Busy(u)' => u = w
      BY <1>1, <2>1, <2>3, <3>1, ConstantsOK DEF WorkerStands, Busy
    <3> QED BY <1>1, <3>1, <3>2, <3>3 DEF WorkerStands, Busy
  <2> QED BY <2>2, <2>3
<1>9. (pc[Api] = "schedule" \/ Writing(Api, "schedule"))' => job'.status = "queued"
  <2>1. CASE t = Api
    BY <1>1, <2>1 DEF Writing
  <2>2. CASE t # Api
    <3>1. WorkerStands(t) /\ Busy(t) /\ Api \in Threads
      BY <2>2 DEF Threads, CancelInv
    <3> QED BY <1>1, <2>2, <3>1 DEF WorkerStands, Beside, Writing, Busy
  <2> QED BY <2>1, <2>2
<1>10. disk' # Nil => disk'.attempt <= job'.attempt /\ Clean(disk', files', Running')
  <2> SUFFICES ASSUME disk # Nil
               PROVE  disk.attempt <= j.attempt /\ Clean(disk, files', Running')
    BY <1>1
  <2>1. Clean(disk, files, Running)
    BY DEF CancelInv
  <2>2. next = "launch" => disk.attempt # job.attempt + 1
    BY <1>5 DEF CancelInv
  <2> QED BY <1>3, <2>1, <2>2 DEF Clean
<1>11. \A w \in Workers : WorkerStands(w)'
  BY <1>8 DEF WorkerStands
<1>12. Clean(job', files', {})
  BY <1>1
<1> QED BY <1>1, <1>6, <1>7, <1>9, <1>10, <1>11, <1>12 DEF CancelInv

\* A thread moves on with the record and the manifest as they are.
LEMMA CancelMove ==
  ASSUME TypeOK, CancelInv, NEW t \in Threads, Busy(t), service = "up", pc[t] # "commit",
         UNCHANGED <<service, job, disk>>, NEW p, pc' = [pc EXCEPT ![t] = p],
         p \notin {"idle", "commit", "schedule", "settle"},
         \A u \in Threads : u # t => loc'[u] = loc[u],
         loc'[t].attempt = loc[t].attempt,
         t = Api => ~Beside,
         t # Api /\ p \in {"entered", "checked"} => job.status \in {"queued", "cancelled"},
         p # "waiting",
         InsideRun(t) <=> p \in {"launch", "running", "returned", "publish"},
         \A f \in files' \ files : InsideRun(t) /\ f \in {ResultOf(loc[t].attempt), ReviewOf(loc[t].attempt)}
  PROVE  CancelInv'
<1>1. pc'[t] = p /\ \A u \in Threads : u # t => pc'[u] = pc[u]
  BY DEF TypeOK
<1>2. \A u \in Threads : InsideRun(u)' <=> InsideRun(u)
  BY <1>1 DEF InsideRun
<1>3. Running' = Running
  BY <1>2 DEF Running
<1>4. InsideRun(t) => loc[t].attempt \in Running
  BY DEF Running
<1>5. \A m : Clean(m, files, Running) => Clean(m, files', Running)
  BY <1>4 DEF Clean, ResultOf, ReviewOf
<1>6. Clean(job', files', {})
  <2>1. job.status = "cancelled" => files' \subseteq files
    BY DEF CancelInv, ThreadStands
  <2> QED BY <2>1 DEF Clean, CancelInv
<1>7. ASSUME NEW u \in Threads PROVE ThreadStands(u)'
  <2>1. ThreadStands(u) /\ loc'[u].attempt = loc[u].attempt /\ (u # t => loc'[u] = loc[u])
    BY DEF CancelInv
  <2> QED BY <1>1, <1>2, <1>3, <1>5, <2>1 DEF ThreadStands
<1>8. ASSUME NEW w \in Workers PROVE WorkerStands(w)'
  <2>1. w \in Threads /\ w # Api /\ Api \in Threads /\ Workers \subseteq Threads
    BY ConstantsOK DEF Threads
  <2>2. WorkerStands(w) /\ \A u \in Threads : Busy(u)' <=> Busy(u)
    BY <1>1 DEF CancelInv, Busy
  <2>3. Busy(w) /\ Busy(Api) => Beside'
    BY <1>1, <2>1, <2>2 DEF WorkerStands, Beside, Writing
  <2> QED BY <1>1, <2>1, <2>2, <2>3 DEF WorkerStands
<1>9. (pc[Api] = "schedule" \/ Writing(Api, "schedule"))' => job'.status = "queued"
  BY <1>1 DEF CancelInv, Writing, Threads
<1>10. disk' # Nil => disk'.attempt <= job'.attempt /\ Clean(disk', files', Running')
  BY <1>3, <1>5 DEF CancelInv
<1> QED BY <1>6, <1>7, <1>8, <1>9, <1>10 DEF CancelInv

\* A thread is done, and everything else stays.
LEMMA CancelEnds ==
  ASSUME TypeOK, CancelInv, NEW t \in Threads, service = "up", Ends(t),
         UNCHANGED <<service, job, disk, files>>
  PROVE  CancelInv'
<1>1. pc'[t] = "idle" /\ \A u \in Threads : u # t => pc'[u] = pc[u] /\ loc'[u] = loc[u]
  BY DEF Ends, TypeOK
<1>2. ~InsideRun(t)' /\ \A u \in Threads : u # t => (InsideRun(u)' <=> InsideRun(u))
  BY <1>1 DEF InsideRun
<1>3. Running' \subseteq Running
  BY <1>1, <1>2 DEF Running
<1>4. \A m : Clean(m, files, Running) => Clean(m, files', Running')
  BY <1>3 DEF Clean
<1>5. ASSUME NEW u \in Threads PROVE ThreadStands(u)'
  <2>1. ThreadStands(u)
    BY DEF CancelInv
  <2> QED BY <1>1, <1>2, <1>4, <2>1 DEF ThreadStands
<1>6. ASSUME NEW w \in Workers PROVE WorkerStands(w)'
  <2>1. w \in Threads /\ w # Api /\ Api \in Threads /\ Workers \subseteq Threads
    BY ConstantsOK DEF Threads
  <2>2. WorkerStands(w) /\ \A u \in Threads : Busy(u)' => Busy(u) /\ u # t
    BY <1>1 DEF CancelInv, Busy
  <2>3. Busy(w)' /\ Busy(Api)' => Beside'
    BY <1>1, <2>1, <2>2 DEF WorkerStands, Beside, Writing
  <2> QED BY <1>1, <2>1, <2>2, <2>3 DEF WorkerStands
<1>7. (pc[Api] = "schedule" \/ Writing(Api, "schedule"))' => job'.status = "queued"
  BY <1>1 DEF CancelInv, Writing, Threads
<1> QED BY <1>4, <1>5, <1>6, <1>7 DEF CancelInv

\* A manifest is replaced by a document that is clean.
LEMMA CancelCommit ==
  ASSUME TypeOK, CancelInv, NEW t \in Threads, Commit(t)
  PROVE  CancelInv'
<1>1. /\ pc[t] = "commit" /\ disk' = loc[t].doc /\ UNCHANGED <<service, job, files>>
      /\ pc'[t] = loc[t].next /\ \A u \in Threads : u # t => pc'[u] = pc[u] /\ loc'[u] = loc[u]
  BY DEF Commit, TypeOK
<1>2. loc'[t].attempt = loc[t].attempt /\ loc'[t].kind = loc[t].kind /\ loc[t].next \in Labels
  BY DEF Commit, TypeOK, Locals
<1>3. service = "up" /\ ThreadStands(t) /\ Busy(t)
  BY <1>1 DEF CancelInv, Busy
<1>4. pc'[t] # "commit" /\ pc'[t] \notin {"returned", "publish", "waiting", "checked"}
  BY <1>1, <1>2 DEF Labels
<1>5. \A u \in Threads : InsideRun(u)' <=> InsideRun(u)
  BY <1>1, <1>4 DEF InsideRun
<1>6. Running' = Running
  BY <1>1, <1>2, <1>5 DEF Running
<1>7. ASSUME NEW u \in Threads PROVE ThreadStands(u)'
  <2>1. ThreadStands(u)
    BY DEF CancelInv
  <2> QED BY <1>1, <1>2, <1>4, <1>5, <1>6, <2>1 DEF ThreadStands
<1>8. ASSUME NEW w \in Workers, Busy(w)' PROVE WorkerStands(w)'
  <2>1. w \in Threads /\ w # Api /\ Api \in Threads /\ Workers \subseteq Threads
    BY ConstantsOK DEF Threads
  <2>2. Busy(w) /\ WorkerStands(w)
    BY <1>1, <1>3, <1>8, <2>1 DEF CancelInv, Busy
  <2>3. \A u \in Threads : Busy(u)' => Busy(u)
    BY <1>1, <1>3 DEF Busy
  <2>4. Busy(Api) => Beside'
    BY <1>1, <1>2, <1>4, <2>1, <2>2 DEF WorkerStands, Beside, Writing
  <2>5. pc'[w] \notin {"schedule", "settle", "entered", "waiting", "checked", "commit"} \/ w # t
    BY <1>1, <1>4, <2>2 DEF WorkerStands
  <2>6. CASE w = t
    BY <1>1, <2>1, <2>2, <2>3, <2>4, <2>5, <2>6 DEF WorkerStands
  <2>7. CASE w # t
    BY <1>1, <2>1, <2>2, <2>3, <2>4, <2>7 DEF WorkerStands
  <2> QED BY <2>6, <2>7
<1>9. \A w \in Workers : WorkerStands(w)'
  BY <1>8 DEF WorkerStands
<1>10. (pc[Api] = "schedule" \/ Writing(Api, "schedule"))' => job'.status = "queued"
  BY <1>1, <1>4 DEF CancelInv, Writing, Threads
<1>11. disk' # Nil => disk'.attempt <= job'.attempt /\ Clean(disk', files', Running')
  BY <1>1, <1>3, <1>6 DEF ThreadStands
<1>12. Clean(job', files', {})
  BY <1>1 DEF CancelInv
<1> QED BY <1>1, <1>3, <1>7, <1>9, <1>10, <1>11, <1>12 DEF CancelInv

\* CancelInv is kept by every step of a run.
LEMMA CancelRun ==
  ASSUME TypeOK, TypeOK', CancelInv, NEW t \in Threads, RunStep(t)
  PROVE  CancelInv'
<1>1. Busy(t)
  BY DEF RunStep, CheckInputs, CheckCancel, CheckPassed, Begin, Launch, RunnerWrites,
         Progress, RunnerReturns, RunnerCancelled, RunnerRaises, AfterRunCancelled,
         AfterRunProceeds, PublishTampered, PublishReview, PublishResult, PublishFailure,
         LeaveRecovery, LeaveApply, Leave, Commit, Busy
<1>2. /\ service = "up" /\ loc[t] \in Locals /\ job \in Job /\ raised \in SUBSET Nat
      /\ job.attempt \in Nat /\ ThreadStands(t)
      /\ disk # Nil => disk.attempt <= job.attempt
  BY <1>1 DEF CancelInv, TypeOK, Job
<1>3. CASE Commit(t)
  BY <1>3, CancelCommit
<1>4. CASE Leave(t)
  BY <1>2, <1>4, CancelEnds DEF Leave
<1>5. ASSUME ~Commit(t), ~Leave(t) PROVE t = Api => ~Beside
  BY <1>5 DEF RunStep, CheckInputs, CheckCancel, CheckPassed, Begin, Launch, RunnerWrites,
         Progress, RunnerReturns, RunnerCancelled, RunnerRaises, AfterRunCancelled,
         AfterRunProceeds, PublishTampered, PublishReview, PublishResult, PublishFailure,
         LeaveRecovery, LeaveApply, Beside, Writing
<1>6. SUFFICES ASSUME ~Commit(t), ~Leave(t), t = Api => ~Beside
               PROVE  CancelInv'
  BY <1>3, <1>4, <1>5
<1>7. t = Api => \A w \in Workers : ~Busy(w)
  BY <1>1, <1>6 DEF CancelInv, WorkerStands
<1>8. \A u \in Threads : u # t => ~InsideRun(u)
  <2> SUFFICES ASSUME NEW u \in Threads, u # t, InsideRun(u)
               PROVE  FALSE
    OBVIOUS
  <2>1. Busy(u)
    BY DEF Busy, InsideRun
  <2>2. CASE t = Api
    BY <1>7, <2>1, <2>2 DEF Threads
  <2>3. CASE t # Api
    <3>1. WorkerStands(t) /\ t \in Workers
      BY <2>3 DEF CancelInv, Threads
    <3>2. u = Api
      BY <1>1, <2>1, <3>1 DEF WorkerStands, Threads
    <3>3. Beside
      BY <1>1, <2>1, <3>1, <3>2 DEF WorkerStands
    <3> QED BY <3>2, <3>3 DEF Beside, InsideRun, Writing
  <2> QED BY <2>2, <2>3
<1>9. "leave" \in Labels /\ "launch" \in Labels /\ "running" \in Labels
  BY DEF Labels
<1>10. ASSUME NEW j \in Job, NEW l \in Locals, Save(t, l, j, raised, "leave"),
              UNCHANGED <<service, disk>>, files' \subseteq files, j.attempt = job.attempt,
              Clean(j, files', {})
       PROVE  CancelInv'
  BY <1>1, <1>2, <1>7, <1>8, <1>9, <1>10, CancelSave
<1>11. Failed(job) \in Job /\ Failed(job).attempt = job.attempt /\ Failed(job).status = "failed"
  BY <1>2, RecordsTyped DEF Failed, Job
<1>12. /\ Cancelled(job) \in Job /\ Cancelled(job).attempt = job.attempt
       /\ Cancelled(job).result = Nil /\ Cancelled(job).review = Nil
  BY <1>2, RecordsTyped DEF Cancelled, Job
<1>13. CASE CheckInputs(t)
  BY <1>2, <1>10, <1>11, <1>13 DEF CheckInputs, Clean
<1>14. CASE RunnerRaises(t) \/ PublishTampered(t)
  BY <1>2, <1>10, <1>11, <1>14 DEF RunnerRaises, PublishTampered, Excepted, Clean
<1>15. CASE CheckCancel(t) \/ RunnerCancelled(t) \/ AfterRunCancelled(t)
  <2>1. /\ Save(t, loc[t], Cancelled(job), raised, "leave") /\ UNCHANGED <<service, disk>>
        /\ files' = files \ {ResultOf(job.attempt), ReviewOf(job.attempt)}
    BY <1>15 DEF CheckCancel, RunnerCancelled, AfterRunCancelled, FinishCancelled
  <2>2. Clean(Cancelled(job), files', {})
    BY <1>12, <2>1 DEF Clean
  <2> QED BY <1>2, <1>10, <1>12, <2>1, <2>2
<1>16. CASE PublishReview(t)
  <2> DEFINE j == [job EXCEPT !.review = ReviewOf(job.attempt), !.choices = FALSE,
                              !.status = IF deferred THEN "processing" ELSE "review_required"]
  <2>1. ReviewOf(job.attempt) \in Path
    BY <1>2, RecordsTyped
  <2>2. (IF deferred THEN "processing" ELSE "review_required") \in Status \ {"cancelled"}
    BY DEF Status, Active
  <2>3. j \in Job /\ j.attempt = job.attempt /\ j.status # "cancelled"
    BY <1>2, <2>1, <2>2 DEF Job
  <2>4. Save(t, loc[t], j, raised, "leave") /\ UNCHANGED <<service, disk, files>>
    BY <1>16 DEF PublishReview
  <2> HIDE DEF j
  <2> QED BY <1>2, <1>10, <2>3, <2>4 DEF Clean
<1>17. CASE PublishResult(t)
  <2> DEFINE j == [job EXCEPT !.result = ResultOf(job.attempt), !.review = Nil, !.status = "ready"]
  <2>1. ResultOf(job.attempt) \in Path /\ "ready" \in Status
    BY <1>2, RecordsTyped DEF Status, Terminal
  <2>2. j \in Job /\ j.attempt = job.attempt /\ j.status # "cancelled"
    BY <1>2, <2>1 DEF Job
  <2>3. Save(t, loc[t], j, raised, "leave") /\ UNCHANGED <<service, disk, files>>
    BY <1>17 DEF PublishResult
  <2> HIDE DEF j
  <2> QED BY <1>2, <1>10, <2>2, <2>3 DEF Clean
<1>18. CASE PublishFailure(t)
  <2> DEFINE s == IF loc[t].outcome = "blocked" \/ (loc[t].outcome = "review" /\ ~HasReview(t))
                  THEN "blocked" ELSE "failed"
             j == [job EXCEPT !.status = s]
  <2>1. s \in Status \ {"cancelled"}
    BY DEF Status, Terminal
  <2>2. Save(t, loc[t], j, raised, "leave") /\ UNCHANGED <<service, disk, files>>
    BY <1>18 DEF PublishFailure
  <2> HIDE DEF s
  <2>3. j \in Job /\ j.attempt = job.attempt /\ j.status # "cancelled"
    BY <1>2, <2>1 DEF Job
  <2> HIDE DEF j
  <2> QED BY <1>2, <1>10, <2>2, <2>3 DEF Clean
<1>19. CASE LeaveApply(t)
  <2> DEFINE l == [loc[t] EXCEPT !.kind = "applied"]
  <2>1. l \in Locals
    BY <1>2 DEF Locals, Kinds
  <2>2. Save(t, l, job, raised, "leave") /\ UNCHANGED <<service, disk, files>>
    BY <1>19 DEF LeaveApply
  <2>3. Clean(job, files', {})
    BY <2>2 DEF CancelInv
  <2> HIDE DEF l
  <2> QED BY <1>2, <1>10, <2>1, <2>2, <2>3
<1>20. CASE LeaveRecovery(t)
  <2> DEFINE l == [loc[t] EXCEPT !.kind = "recovered"]
             j == [job EXCEPT !.choices = loc[t].saved, !.status = "review_required"]
  <2>1. l \in Locals
    BY <1>2 DEF Locals, Kinds
  <2>2. "review_required" \in Status /\ loc[t].saved \in BOOLEAN
    BY <1>2 DEF Status, Locals
  <2>3. j \in Job /\ j.attempt = job.attempt /\ j.status # "cancelled"
    BY <1>2, <2>2 DEF Job
  <2>4. UNCHANGED <<service, disk, files>>
    BY <1>20 DEF LeaveRecovery
  <2>5. CASE Save(t, l, j, raised, "leave")
    <3> HIDE DEF l, j
    <3> QED BY <1>2, <1>10, <2>1, <2>3, <2>4, <2>5 DEF Clean
  <2>6. CASE Ends(t) /\ UNCHANGED job
    BY <1>2, <2>4, <2>6, CancelEnds
  <2> QED BY <1>20, <2>5, <2>6 DEF LeaveRecovery
<1>21. CASE Progress(t)
  <2> DEFINE l == [loc[t] EXCEPT !.told = TRUE]
  <2>1. l \in Locals /\ l.attempt = loc[t].attempt
    BY <1>2 DEF Locals
  <2>2. Save(t, l, job, raised, "running") /\ UNCHANGED <<service, disk, files>> /\ InsideRun(t)
    BY <1>21 DEF Progress, InsideRun
  <2>3. Clean(job, files', {}) /\ job.status = "processing" /\ loc[t].attempt = job.attempt
    BY <1>2, <2>2 DEF CancelInv, ThreadStands
  <2> HIDE DEF l
  <2> QED BY <1>1, <1>2, <1>7, <1>8, <1>9, <2>1, <2>2, <2>3, CancelSave
<1>22. CASE Begin(t)
  <2> DEFINE l == [loc[t] EXCEPT !.attempt = job.attempt + 1, !.before = job]
             j == [job EXCEPT !.status = "processing", !.result = Nil, !.review = Nil,
                              !.attempt = @ + 1]
  <2>1. job.attempt + 1 \in Nat /\ "processing" \in Status
    BY <1>2 DEF Status, Active
  <2>2. l \in Locals /\ l.attempt = job.attempt + 1
    BY <1>2, <2>1 DEF Locals
  <2>3. j \in Job /\ j.status = "processing" /\ j.attempt = job.attempt + 1
    BY <1>2, <2>1 DEF Job
  <2>4. Save(t, l, j, raised, "launch") /\ UNCHANGED <<service, disk, files>>
    BY <1>22 DEF Begin
  <2>5. job.attempt <= job.attempt + 1 /\ (disk # Nil => disk.attempt <= job.attempt + 1)
    <3>1. disk # Nil => disk.attempt \in Nat
      BY DEF TypeOK, Manifest
    <3> QED BY <1>2, <3>1
  <2> HIDE DEF l, j
  <2> QED BY <1>1, <1>2, <1>7, <1>8, <1>9, <2>2, <2>3, <2>4, <2>5, CancelSave DEF Clean
<1>23. CASE CheckPassed(t)
  <2>1. /\ pc[t] = "entered" /\ pc' = [pc EXCEPT ![t] = "checked"]
        /\ UNCHANGED <<service, job, disk, files, loc>>
    BY <1>23 DEF CheckPassed
  <2>2. t # Api => job.status \in {"queued", "cancelled"}
    BY <1>1, <2>1 DEF CancelInv, WorkerStands, Threads
  <2>3. ~InsideRun(t)
    BY <2>1 DEF InsideRun
  <2> QED BY <1>1, <1>2, <1>6, <2>1, <2>2, <2>3, CancelMove
<1>24. CASE Launch(t) \/ RunnerReturns(t) \/ AfterRunProceeds(t)
  <2>1. /\ pc[t] \in {"launch", "running", "returned"} /\ UNCHANGED <<service, job, disk, files>>
        /\ \E p \in {"running", "returned", "publish"} : pc' = [pc EXCEPT ![t] = p]
    BY <1>24 DEF Launch, RunnerReturns, AfterRunProceeds
  <2>2. loc'[t].attempt = loc[t].attempt /\ \A u \in Threads : u # t => loc'[u] = loc[u]
    BY <1>24 DEF Launch, RunnerReturns, AfterRunProceeds, TypeOK, Locals
  <2>3. InsideRun(t)
    BY <2>1 DEF InsideRun
  <2> QED BY <1>1, <1>2, <1>6, <2>1, <2>2, <2>3, CancelMove
<1>25. CASE RunnerWrites(t)
  <2>1. /\ pc[t] = "running" /\ pc' = [pc EXCEPT ![t] = "running"]
        /\ UNCHANGED <<service, job, disk, loc>>
        /\ \A f \in files' \ files : f \in {ResultOf(loc[t].attempt), ReviewOf(loc[t].attempt)}
    BY <1>25 DEF RunnerWrites, TypeOK
  <2>2. InsideRun(t)
    BY <2>1 DEF InsideRun
  <2> QED BY <1>1, <1>2, <1>6, <2>1, <2>2, CancelMove
<1> QED
  BY <1>6, <1>13, <1>14, <1>15, <1>16, <1>17, <1>18, <1>19, <1>20, <1>21, <1>22, <1>23, <1>24,
     <1>25 DEF RunStep

\* A client that waits for the writer of an open review finds nobody at work.
LEMMA PatientAlone ==
  ASSUME TypeOK, CancelInv, Patient, Idle, Polled, job.status = "review_required"
  PROVE  \A t \in Threads : ~Busy(t)
<1> SUFFICES ASSUME NEW w \in Workers, Busy(w)
             PROVE  FALSE
  BY DEF Idle, Busy, Threads
<1>1. w \in Threads /\ WorkerStands(w) /\ ThreadStands(w) /\ pc[w] \in PC
  BY DEF CancelInv, Threads, TypeOK
<1>2. pc[w] \notin {"idle", "commit", "leave", "schedule", "settle", "waiting", "entered", "checked"}
  BY <1>1 DEF Polled, WorkerStands, Busy
<1>3. ~InsideRun(w)
  BY <1>1 DEF ThreadStands
<1> QED BY <1>1, <1>2, <1>3 DEF InsideRun, PC, Labels

\* A step that leaves at most the API at work, and no workbook that was not there.
LEMMA CancelQuiet ==
  ASSUME TypeOK, CancelInv, UNCHANGED disk,
         \A w \in Workers : pc'[w] = "idle",
         pc'[Api] \in {"idle", "entered", "schedule"},
         pc'[Api] = "schedule" => job'.status = "queued",
         service' # "up" => pc'[Api] = "idle",
         service' = "empty" => disk = Nil,
         service' = "up" /\ disk # Nil => disk.attempt <= job'.attempt,
         \A n : /\ ResultOf(n) \in files' => ResultOf(n) \in files
                /\ ReviewOf(n) \in files' => ReviewOf(n) \in files,
         Clean(job', files', {})
  PROVE  CancelInv'
<1>1. \A t \in Threads : ~InsideRun(t)' /\ pc'[t] # "commit"
  BY DEF Threads, InsideRun
<1>2. Running' = {}
  BY <1>1 DEF Running
<1>3. \A t \in Threads : ThreadStands(t)'
  BY <1>1 DEF ThreadStands
<1>4. \A w \in Workers : WorkerStands(w)'
  BY DEF WorkerStands, Busy
<1>5. disk' # Nil => Clean(disk', files', Running')
  BY <1>2 DEF CancelInv, Clean
<1>6. service' # "up" => \A t \in Threads : ~Busy(t)'
  BY DEF Threads, Busy
<1>7. (pc[Api] = "schedule" \/ Writing(Api, "schedule"))' => job'.status = "queued"
  BY DEF Writing
<1> QED BY <1>3, <1>4, <1>5, <1>6, <1>7 DEF CancelInv

\* CancelInv is kept by every request of a client.
LEMMA CancelClient ==
  ASSUME TypeOK, TypeOK', CancelInv, Patient, MaxRetries = 0, Client
  PROVE  CancelInv'
<1>0. Api \in Threads /\ Workers \subseteq Threads /\ Api \notin Workers
  BY ConstantsOK DEF Threads
<1>1. /\ NoLocals \in Locals /\ job \in Job /\ raised \in SUBSET Nat /\ job.attempt \in Nat
      /\ \A k \in Kinds, b \in Job :
           /\ [NoLocals EXCEPT !.kind = k] \in Locals /\ [NoLocals EXCEPT !.kind = k].kind = k
           /\ [NoLocals EXCEPT !.kind = k, !.before = b] \in Locals
  BY RecordsTyped DEF TypeOK, Job, Locals
<1>2. {"create", "cancel", "put", "apply", "workbook"} \subseteq Kinds
  BY DEF Kinds
<1>3. {"schedule", "settle", "leave", "entered"} \subseteq Labels
  BY DEF Labels
<1>4. CASE CreateJob
  <2> DEFINE l == [NoLocals EXCEPT !.kind = "create"]
             j == NewJob
             r == {}
  <2>1. /\ Save(Api, l, j, r, "schedule") /\ service = "empty" /\ service' = "up"
        /\ UNCHANGED <<disk, files>>
    BY <1>4 DEF CreateJob
  <2>2. (\A u \in Threads : ~Busy(u)) /\ disk = Nil
    BY <2>1 DEF CancelInv
  <2>3. l \in Locals /\ j \in Job /\ r \in SUBSET Nat /\ j.status = "queued"
    BY <1>1, <1>2, RecordsTyped DEF NewJob
  <2>4. \A u \in Threads : ~InsideRun(u)
    BY <2>2 DEF Busy, InsideRun
  <2> HIDE DEF l, j, r
  <2> QED BY <1>0, <1>3, <2>1, <2>2, <2>3, <2>4, CancelSave DEF Clean
<1>5. CASE CancelJob
  <2> DEFINE l == [NoLocals EXCEPT !.kind = "cancel"]
             r == raised \cup {job.ev}
  <2>1. /\ Save(Api, l, job, r, "settle") /\ service = "up" /\ job.status \in Active
        /\ UNCHANGED <<service, disk, files>>
    BY <1>5 DEF CancelJob, Idle
  <2>2. l \in Locals /\ l.kind = "cancel" /\ r \in SUBSET Nat
    BY <1>1, <1>2 DEF Job
  <2>3. Clean(job, files', {}) /\ (disk # Nil => disk.attempt <= job.attempt)
    BY <2>1 DEF CancelInv
  <2>4. job.attempt <= job.attempt /\ "settle" \in Labels
    <3>1. job.attempt \in Nat
      BY <1>1
    <3> QED BY <3>1 DEF Labels
  <2> HIDE DEF l, r
  <2> QED BY <1>0, <1>1, <2>1, <2>2, <2>3, <2>4, CancelSave
<1>6. CASE RetryJob
  BY <1>6 DEF RetryJob, Spend, TypeOK
<1>7. ASSUME Idle, Polled, job.status = "review_required"
      PROVE  /\ \A u \in Threads : ~Busy(u) /\ ~InsideRun(u)
             /\ service = "up" /\ (disk # Nil => disk.attempt <= job.attempt)
  BY <1>7, PatientAlone DEF Idle, CancelInv, Busy, InsideRun
<1>8. CASE PutReview
  <2> DEFINE l == [NoLocals EXCEPT !.kind = "put", !.before = job]
             j == [job EXCEPT !.choices = TRUE]
  <2>1. /\ Save(Api, l, j, raised, "leave") /\ UNCHANGED <<service, disk, files>>
        /\ Idle /\ Polled /\ job.status = "review_required"
    BY <1>8 DEF PutReview
  <2>2. l \in Locals /\ j \in Job /\ j.status = "review_required" /\ j.attempt = job.attempt
    BY <1>1, <1>2, <2>1 DEF Job
  <2> HIDE DEF l, j
  <2> QED BY <1>0, <1>1, <1>3, <1>7, <2>1, <2>2, CancelSave DEF Clean
<1>9. CASE ApplyInlineReview
  <2> DEFINE l == [NoLocals EXCEPT !.kind = "apply"]
  <2>1. /\ Save(Api, l, job, raised, "entered") /\ UNCHANGED <<service, disk, files>>
        /\ Idle /\ Polled /\ job.status = "review_required"
    BY <1>9 DEF ApplyInlineReview
  <2>2. l \in Locals
    BY <1>1, <1>2
  <2> HIDE DEF l
  <2> QED BY <1>0, <1>1, <1>3, <1>7, <2>1, <2>2, CancelSave DEF Clean
<1>10. CASE ApplyWorkbookReview
  <2>1. /\ Idle /\ Polled /\ job.status = "review_required" /\ UNCHANGED <<service, disk>>
        /\ files' = files \cup {CompletedOf(job.attempt + 1)}
        /\ job'.status = job.status /\ job'.attempt = job.attempt
        /\ pc' = [pc EXCEPT ![Api] = "entered"]
    BY <1>1, <1>10 DEF ApplyWorkbookReview, Job
  <2>2. pc'[Api] = "entered" /\ \A w \in Workers : pc'[w] = "idle"
    BY <1>0, <1>7, <2>1 DEF TypeOK, Busy
  <2>3. \A n : /\ ResultOf(n) \in files' => ResultOf(n) \in files
               /\ ReviewOf(n) \in files' => ReviewOf(n) \in files
    BY <2>1 DEF ResultOf, ReviewOf, CompletedOf
  <2> QED BY <1>7, <2>1, <2>2, <2>3, CancelQuiet DEF Clean
<1> QED BY <1>4, <1>5, <1>6, <1>8, <1>9, <1>10 DEF Client

\* CancelInv is kept by a restart, whatever the manifest says.
LEMMA CancelRestore ==
  ASSUME TypeOK, TypeOK', CancelInv, Restore
  PROVE  CancelInv'
<1>0. Api \in Threads /\ Workers \subseteq Threads /\ Api \notin Workers
  BY ConstantsOK DEF Threads
<1>1. service = "down" /\ UNCHANGED disk
  BY DEF Restore, RestoreNothing, RestoreCancelled, RestoreActive, RestoreReview,
         RestoreTerminal, Restarting
<1>2. \A u \in Threads : ~Busy(u) /\ ~InsideRun(u) /\ pc[u] = "idle"
  BY <1>1 DEF CancelInv, Busy, InsideRun
<1>3. CASE RestoreNothing
  <2>1. /\ UNCHANGED <<job, pc, files>> /\ service' \in {"empty", "lost"}
        /\ service' = "empty" => disk = Nil
    BY <1>3 DEF RestoreNothing
  <2>2. Clean(job', files', {})
    BY <2>1 DEF CancelInv
  <2> QED BY <1>0, <1>1, <1>2, <2>1, <2>2, CancelQuiet
<1>4. SUFFICES ASSUME ~RestoreNothing
               PROVE  CancelInv'
  BY <1>3
<1>5. disk # Nil /\ disk \in Manifest /\ service' = "up" /\ JobFrom(disk) \in Job
  BY <1>4, RecordsTyped DEF Restore, RestoreCancelled, RestoreActive, RestoreReview,
         RestoreTerminal, Restarting, TypeOK
<1>6. /\ JobFrom(disk).attempt = disk.attempt /\ JobFrom(disk).status = disk.status
      /\ JobFrom(disk).result = disk.result /\ JobFrom(disk).review = disk.review
      /\ disk.attempt \in Nat
  BY <1>5 DEF JobFrom, Manifest
<1>7. NoLocals \in Locals /\ "schedule" \in Labels /\ "leave" \in Labels
  BY RecordsTyped DEF Labels
<1>8. CASE RestoreCancelled
  <2> DEFINE l == [NoLocals EXCEPT !.kind = "restore"]
             j == Cancelled(JobFrom(disk))
             r == {0}
  <2>1. /\ Save(Api, l, j, r, "leave")
        /\ files' = files \ {ResultOf(disk.attempt), ReviewOf(disk.attempt)}
    BY <1>6, <1>8 DEF RestoreCancelled, FinishCancelled
  <2>2. /\ l \in Locals /\ j \in Job /\ r \in SUBSET Nat
        /\ j.attempt = disk.attempt /\ j.result = Nil /\ j.review = Nil
    <3>1. l \in Locals
      BY <1>7 DEF Locals, Kinds
    <3>2. j \in Job
      BY <1>5, RecordsTyped
    <3>3. j.attempt = disk.attempt /\ j.result = Nil /\ j.review = Nil
      <4>1. JobFrom(disk) \in Job
        BY <1>5
      <4> HIDE DEF Job
      <4>2. /\ j.attempt = JobFrom(disk).attempt /\ j.result = Nil /\ j.review = Nil
        BY <4>1 DEF Cancelled, Job
      <4> QED BY <4>2, <1>6
    <3> QED BY <3>1, <3>2, <3>3
  <2>3. Clean(j, files', {})
    BY <2>1, <2>2 DEF Clean
  <2> HIDE DEF l, j, r
  <2> QED BY <1>0, <1>1, <1>2, <1>5, <1>6, <1>7, <2>1, <2>2, <2>3, CancelSave
<1>9. CASE RestoreActive
  <2>1. /\ job' = [JobFrom(disk) EXCEPT !.status = "queued"] /\ UNCHANGED files
        /\ pc' = [pc EXCEPT ![Api] = "schedule"]
    BY <1>9 DEF RestoreActive
  <2>2. job'.status = "queued" /\ job'.attempt = disk.attempt
    BY <1>5, <1>6, <2>1 DEF Job
  <2>3. pc'[Api] = "schedule" /\ \A w \in Workers : pc'[w] = "idle"
    BY <1>0, <1>2, <2>1 DEF TypeOK
  <2> QED BY <1>1, <1>5, <1>6, <2>1, <2>2, <2>3, CancelQuiet DEF Clean
<1>10. CASE RestoreReview
  <2> DEFINE l == [NoLocals EXCEPT !.kind = "recovery", !.saved = disk.choices]
             j == [JobFrom(disk) EXCEPT !.status = "queued"]
             r == {}
  <2>1. Save(Api, l, j, r, "schedule") /\ UNCHANGED files
    BY <1>10 DEF RestoreReview
  <2>2. "queued" \in Status /\ disk.choices \in BOOLEAN
    BY <1>5 DEF Status, Active, Manifest
  <2>3. l \in Locals /\ j \in Job /\ r \in SUBSET Nat /\ j.status = "queued" /\ j.attempt = disk.attempt
    BY <1>5, <1>6, <1>7, <2>2 DEF Locals, Kinds, Job
  <2> HIDE DEF l, j, r
  <2> QED BY <1>0, <1>1, <1>2, <1>5, <1>6, <1>7, <2>1, <2>3, CancelSave DEF Clean
<1>11. CASE RestoreTerminal
  <2>1. job' = JobFrom(disk) /\ UNCHANGED <<pc, files>>
    BY <1>11 DEF RestoreTerminal
  <2>2. Clean(job', files', {})
    BY <1>5, <1>6, <2>1 DEF CancelInv, Clean
  <2> QED BY <1>0, <1>1, <1>2, <1>5, <1>6, <2>1, <2>2, CancelQuiet
<1> QED BY <1>4, <1>8, <1>9, <1>10, <1>11 DEF Restore

\* CancelInv is inductive.
LEMMA CancelStep ==
  ASSUME TypeOK, TypeOK', CancelInv, Patient, MaxRetries = 0, MaxFaults = 0, [Next]_vars
  PROVE  CancelInv'
<1>0. Api \in Threads /\ Workers \subseteq Threads /\ Api \notin Workers /\ ~Fault
  BY ConstantsOK, NoFault DEF Threads
<1>1. ASSUME NEW t \in Threads, RunStep(t) PROVE CancelInv'
  BY <1>1, CancelRun
<1>2. ASSUME NEW w \in Workers, Acquire(w) PROVE CancelInv'
  <2>1. /\ pc[w] = "waiting" /\ pc' = [pc EXCEPT ![w] = "entered"]
        /\ UNCHANGED <<service, job, disk, files, loc>>
    BY <1>2 DEF Acquire
  <2>2. Busy(w) /\ ~InsideRun(w)
    BY <2>1 DEF Busy, InsideRun
  <2>3. service = "up" /\ job.status \in {"queued", "cancelled"}
    BY <1>0, <2>1, <2>2 DEF CancelInv, WorkerStands
  <2> QED BY <1>0, <2>1, <2>2, <2>3, CancelMove
<1>3. ASSUME NEW w \in Workers, Schedule(w) PROVE CancelInv'
  <2>1. /\ pc[Api] = "schedule" /\ pc' = [pc EXCEPT ![Api] = "idle", ![w] = "waiting"]
        /\ UNCHANGED <<service, job, disk, files>>
    BY <1>3 DEF Schedule
  <2>2. \A u \in Workers : ~Busy(u)
    BY <2>1 DEF CancelInv, WorkerStands, Busy, Beside, Writing
  <2>3. pc'[w] = "waiting" /\ \A u \in Threads : u # w => pc'[u] = "idle"
    BY <1>0, <2>1, <2>2 DEF TypeOK, Busy, Threads
  <2>4. \A u \in Threads : ~InsideRun(u)' /\ pc'[u] # "commit"
    BY <2>3 DEF InsideRun
  <2>5. Running' = {}
    BY <2>4 DEF Running
  <2>6. service = "up" /\ job.status = "queued"
    BY <1>0, <2>1 DEF CancelInv, Busy
  <2>7. \A u \in Workers : WorkerStands(u)'
    BY <1>0, <2>1, <2>3, <2>6 DEF WorkerStands, Busy
  <2>8. \A u \in Threads : ThreadStands(u)'
    BY <2>4 DEF ThreadStands
  <2>9. disk' # Nil => Clean(disk', files', Running')
    BY <2>1, <2>5 DEF CancelInv, Clean
  <2>10. (pc[Api] = "schedule" \/ Writing(Api, "schedule"))' => job'.status = "queued"
    BY <2>1, <2>6
  <2> QED BY <2>1, <2>6, <2>7, <2>8, <2>9, <2>10 DEF CancelInv
<1>4. CASE Settle
  <2>1. pc[Api] = "settle" /\ UNCHANGED <<service, disk>>
    BY <1>4 DEF Settle
  <2>2. service = "up" /\ loc[Api] \in Locals /\ job \in Job /\ raised \in SUBSET Nat /\ job.attempt \in Nat
    BY <1>0, <2>1 DEF CancelInv, Busy, TypeOK, Job
  <2>3. CASE job.status = "queued"
    <3>1. /\ Save(Api, loc[Api], Cancelled(job), raised, "leave")
          /\ files' = files \ {ResultOf(job.attempt), ReviewOf(job.attempt)}
      BY <1>4, <2>3 DEF Settle, FinishCancelled
    <3>2. /\ Cancelled(job) \in Job /\ Cancelled(job).attempt = job.attempt
          /\ Cancelled(job).status = "cancelled"
          /\ Cancelled(job).result = Nil /\ Cancelled(job).review = Nil
      BY <2>2, RecordsTyped DEF Cancelled, Job
    <3>3. Clean(Cancelled(job), files', {})
      BY <3>1, <3>2 DEF Clean
    <3>4. \A u \in Threads : ~InsideRun(u)
      BY <2>3 DEF CancelInv, ThreadStands
    <3>5. \A w \in Workers : Busy(w) => loc[Api].kind = "cancel"
      BY <2>1 DEF CancelInv, WorkerStands, Busy, Beside
    <3>6. disk # Nil => disk.attempt <= job.attempt
      BY <2>2 DEF CancelInv
    <3>7. job.attempt <= job.attempt /\ "leave" \in Labels
      BY <2>2 DEF Labels
    <3> QED BY <1>0, <2>1, <2>2, <3>1, <3>2, <3>3, <3>4, <3>5, <3>6, <3>7, CancelSave
  <2>4. CASE job.status # "queued"
    <3>1. Ends(Api) /\ UNCHANGED <<job, files>>
      BY <1>4, <2>4 DEF Settle
    <3> QED BY <1>0, <2>1, <2>2, <3>1, CancelEnds
  <2> QED BY <2>3, <2>4
<1>5. CASE Restore
  BY <1>5, CancelRestore
<1>6. CASE Client
  BY <1>6, CancelClient
<1>7. CASE Crash
  <2>1. /\ service' = "down" /\ job' = NewJob /\ pc' = [t \in Threads |-> "idle"]
        /\ UNCHANGED <<disk, files>>
    BY <1>7 DEF Crash
  <2>2. job'.status = "queued" /\ \A t \in Threads : pc'[t] = "idle"
    BY <2>1 DEF NewJob
  <2> QED BY <1>0, <2>1, <2>2, CancelQuiet DEF Clean
<1>8. CASE Tamper \/ UNCHANGED vars
  <2>1. UNCHANGED <<service, job, disk, files, pc, loc>>
    BY <1>8 DEF Tamper, vars
  <2>2. \A t \in Threads : (InsideRun(t)' <=> InsideRun(t)) /\ (Busy(t)' <=> Busy(t))
    BY <2>1 DEF InsideRun, Busy
  <2>3. Running' = Running /\ (Beside' <=> Beside)
    BY <2>1, <2>2 DEF Running, Beside, Writing
  <2>4. \A t \in Threads : ThreadStands(t)'
    BY <2>1, <2>2, <2>3 DEF CancelInv, ThreadStands
  <2>5. \A w \in Workers : WorkerStands(w)'
    BY <1>0, <2>1, <2>2, <2>3 DEF CancelInv, WorkerStands
  <2> QED BY <2>1, <2>2, <2>3, <2>4, <2>5 DEF CancelInv, Writing
<1> QED BY <1>0, <1>1, <1>2, <1>3, <1>4, <1>5, <1>6, <1>7, <1>8 DEF Next, WorkerStep, ApiStep

\* Whatever runs beside a cancellation, the record and the manifest of a cancelled
\* job name no workbook, none is in its attempt, and no run is left to write one.
THEOREM CancelCorrect ==
  ASSUME Patient, MaxRetries = 0, MaxFaults = 0
  PROVE  Spec => []CancelInv
<1>1. Init => CancelInv
  <2> SUFFICES ASSUME Init PROVE CancelInv
    OBVIOUS
  <2>1. disk = Nil /\ job = NewJob /\ NewJob.status = "queued" /\ service = "empty"
    BY DEF Init, NewJob
  <2>2. \A t \in Threads : pc[t] = "idle" /\ ~InsideRun(t)
    BY DEF Init, InsideRun
  <2>3. (\A w \in Workers : WorkerStands(w)) /\ \A t \in Threads : ThreadStands(t) /\ ~Busy(t)
    BY <2>2 DEF WorkerStands, ThreadStands, Busy, Threads
  <2> QED BY <2>1, <2>2, <2>3 DEF CancelInv, Clean
<1>2. TypeOK /\ TypeOK' /\ CancelInv /\ [Next]_vars => CancelInv'
  BY CancelStep
<1> QED BY <1>1, <1>2, TypeCorrect, PTL DEF Spec

\* A cancelled job at rest has neither a reference to a workbook nor one on disk.
THEOREM CancelledIsCleanCorrect ==
  ASSUME Patient, MaxRetries = 0, MaxFaults = 0
  PROVE  Spec => []CancelledIsClean
<1>1. CancelInv => CancelledIsClean
  BY DEF CancelInv, CancelledIsClean, Clean
<1> QED BY <1>1, CancelCorrect, PTL
=============================================================================
