------------------------- MODULE ProcessingRunProofs -------------------------
(***************************************************************************)
(* Theorems about ProcessingRun, for every number of processes, outputs    *)
(* and requests, every verdict of the stages and every bound.              *)
(***************************************************************************)
EXTENDS ProcessingRun, SequenceTheorems, TLAPS

USE ProcessingAssumption, NothingAssumption

\* What a step of attempt p may do to what others rely on: it moves only its own
\* attempt, changes only the run it works on, adds a run that has no state yet,
\* links where there is nothing and withdraws only what it has linked.
Moves(p) ==
  /\ UNCHANGED inputs /\ spent'.rollbacks = spent.rollbacks
  /\ \A q \in Proc \ {p} : attempt'[q] = attempt[q]
  /\ Len(journal) <= Len(journal')
  /\ \A r \in RunIds :
       \/ journal'[r] = journal[r]
       \/ /\ attempt[p].pc \in Working /\ r = attempt[p].run
          /\ journal'[r].mode = journal[r].mode /\ journal'[r].strict = journal[r].strict
          /\ Last(journal'[r].chain) = "EXPORT_VERIFIED" => attempt[p].pc \in {"verify", "record"}
  /\ \A r \in RunIds' \ RunIds : journal'[r].chain = <<>>
  /\ \A o \in Output :
       \/ published'[o] = published[o]
       \/ attempt[p].pc = "link" /\ published[o] = None /\ published'[o] = FileOf(p)
       \/ attempt[p].pc = "check" /\ published[o] = FileOf(p) /\ published'[o] = None
  /\ \A i \in Identity : cache'[i] = cache[i] \/ cache'[i] = attempt[p].answer
  /\ attempt'[p].pc \in Working =>
       \/ attempt[p].pc \in Working /\ attempt'[p].run = attempt[p].run
       \/ attempt'[p].run = Len(journal) + 1
  /\ attempt'[p].pc = "unchanged" =>
       attempt'[p].run = None \/ (attempt[p].pc \in Working /\ attempt'[p].run = attempt[p].run)

\* Nothing is None: files, answers and numbers are told apart from it.
LEMMA NotNone ==
  /\ \A n \in Nat : n # None
  /\ \A f \in File : f # None
  /\ \A a \in Answer : a # None
OBVIOUS

\* The numbers of runs are those of the journal, and only grow.
LEMMA RunIdsGrow ==
  ASSUME TypeOK, TypeOK', Len(journal) <= Len(journal')
  PROVE  RunIds \subseteq RunIds' /\ RunIds \subseteq Nat /\ Len(journal) \in Nat /\ Len(journal') \in Nat
BY LenProperties DEF TypeOK, RunIds

\* The answers that name runs stay settled: a step of p works on the run it
\* had or on a new one.
LEMMA SettledKept ==
  ASSUME TypeOK, TypeOK', NEW p \in Proc, Moves(p), NEW a \in Answer \cup {None}, Settled(a)
  PROVE  Settled(a)'
<1> SUFFICES ASSUME a # None, a.run # None
             PROVE  /\ a.run \in RunIds'
                    /\ \A q \in Proc : attempt'[q].pc \in Working => attempt'[q].run # a.run
  BY DEF Settled
<1>1. a.run \in RunIds /\ \A q \in Proc : attempt[q].pc \in Working => attempt[q].run # a.run
  BY DEF Settled
<1>2. a.run # Len(journal) + 1
  BY <1>1, RunIdsGrow DEF Moves, RunIds
<1>3. a.run \in RunIds'
  BY <1>1, RunIdsGrow DEF Moves
<1> QED BY <1>1, <1>2, <1>3 DEF Moves

\* Another attempt's run is not touched by a step of p.
LEMMA OtherRun ==
  ASSUME TypeOK, RunsApart, NEW p \in Proc, Moves(p), NEW q \in Proc \ {p},
         attempt[q].pc \in Working \cup {"unchanged"}, attempt[q].run \in RunIds
  PROVE  journal'[attempt[q].run] = journal[attempt[q].run]
BY DEF RunsApart, Moves

\* Whatever a step of p does, the other attempts stand as before.
LEMMA OthersStand ==
  ASSUME ProcessingInv, TypeOK', NEW p \in Proc, Moves(p), NEW q \in Proc \ {p}
  PROVE  AttemptStands(q)'
<1> USE DEF ModeOf, Strict, OutputOf, FileOf, BoundaryOf, VerdictOf, DecisionOf, MayWrite
<1>1. /\ attempt'[q] = attempt[q] /\ inputs' = inputs /\ spent'.rollbacks = spent.rollbacks
      /\ RunIds \subseteq RunIds'
  BY RunIdsGrow DEF Moves, ProcessingInv
<1>2. AttemptStands(q) /\ Settled(attempt[q].answer)
  BY DEF ProcessingInv
<1>3. HasRequest(q)'
  BY <1>1, <1>2 DEF AttemptStands, HasRequest
<1>4. RunIsAtPc(q)'
  <2> SUFFICES ASSUME attempt[q].pc \in Working
               PROVE  RunIsAtPc(q)'
    BY <1>1 DEF RunIsAtPc
  <2>1. RunIsAtPc(q) /\ attempt[q].run \in RunIds
    BY <1>2 DEF AttemptStands, RunIsAtPc
  <2>2. journal'[attempt[q].run] = journal[attempt[q].run]
    BY <2>1, OtherRun DEF ProcessingInv
  <2>3. ASSUME ModeOf(q) = "write", attempt[q].pc \in {"check", "verify", "record"}
        PROVE  published'[OutputOf(q)] = FileOf(q)
    <3>1. published[OutputOf(q)] = FileOf(q) /\ OutputOf(q) \in Output
      BY <1>2, <2>1, <2>3 DEF RunIsAtPc, AttemptStands, HasRequest, Requests, Working
    <3>2. FileOf(q) # None /\ (attempt[p].pc = "check" => FileOf(p) # FileOf(q))
      <4>1. attempt[q] \in Attempt /\ attempt[q].run \in Nat
        BY <2>1, RunIdsGrow DEF ProcessingInv, TypeOK, Moves
      <4>2. FileOf(q) \in File
        BY <4>1 DEF File, Attempt
      <4>3. attempt[p].pc = "check" => attempt[p].run # attempt[q].run
        BY DEF ProcessingInv, RunsApart, Working
      <4> QED BY <4>2, <4>3, NotNone
    <3> QED BY <3>1, <3>2 DEF Moves
  <2> QED BY <1>1, <2>1, <2>2, <2>3 DEF RunIsAtPc, Stands
<1>5. RunIsDone(q)'
  <2> SUFFICES ASSUME attempt[q].pc = "unchanged"
               PROVE  RunIsDone(q)'
    BY <1>1 DEF RunIsDone
  <2>1. RunIsDone(q)
    BY <1>2 DEF AttemptStands
  <2>2. attempt[q].run \in RunIds => journal'[attempt[q].run] = journal[attempt[q].run]
    BY OtherRun DEF ProcessingInv
  <2> QED BY <1>1, <2>1, <2>2 DEF RunIsDone
<1>6. InputsGrow(q)'
  BY <1>1, <1>2 DEF AttemptStands, InputsGrow, Grown
<1>7. AnswerStands(q)'
  <2>1. AnswerStands(q)
    BY <1>2 DEF AttemptStands
  <2>2. attempt[q].answer # None /\ attempt[q].answer.run \in RunIds /\ attempt[q].answer.run # None
          => journal'[attempt[q].answer.run] = journal[attempt[q].answer.run]
    BY <1>2 DEF Settled, Moves
  <2>3. \A r \in RunIds : r # None
    BY RunIdsGrow, NotNone DEF ProcessingInv, Moves
  <2> QED BY <1>1, <1>2, <2>1, <2>2, <2>3 DEF AnswerStands, Settled
<1> QED BY <1>3, <1>4, <1>5, <1>6, <1>7 DEF AttemptStands

\* Two attempts stay apart.
LEMMA ApartKept ==
  ASSUME ProcessingInv, TypeOK', NEW p \in Proc, Moves(p)
  PROVE  RunsApart'
<1> SUFFICES ASSUME NEW x \in Proc, NEW y \in Proc, x # y,
                    attempt'[x].pc \in Working, attempt'[y].pc \in Working \cup {"unchanged"}
             PROVE  attempt'[x].run # attempt'[y].run
  BY DEF RunsApart
<1>1. \A q \in Proc : attempt[q].pc \in Working => attempt[q].run \in RunIds
  BY DEF ProcessingInv, AttemptStands, RunIsAtPc
<1>2. \A q \in Proc : attempt[q].pc = "unchanged" => attempt[q].run \in RunIds \cup {None}
  BY DEF ProcessingInv, AttemptStands, RunIsDone
<1>3. Len(journal) + 1 \notin RunIds \cup {None}
  BY RunIdsGrow, NotNone DEF ProcessingInv, Moves, RunIds
<1>4. \A r \in RunIds : r # None
  BY RunIdsGrow, NotNone DEF ProcessingInv, Moves
<1>5. \A q \in Proc : q # p => attempt'[q] = attempt[q]
  BY DEF Moves
<1>6. CASE x = p
  <2>1. attempt[y].pc \in Working \cup {"unchanged"} /\ attempt'[y].run = attempt[y].run
    BY <1>5, <1>6
  <2> QED BY <1>1, <1>2, <1>3, <1>6, <2>1 DEF Moves, ProcessingInv, RunsApart
<1>7. CASE y = p
  <2>1. attempt[x].pc \in Working /\ attempt'[x].run = attempt[x].run
    BY <1>5, <1>7
  <2> QED BY <1>1, <1>3, <1>4, <1>7, <2>1 DEF Moves, ProcessingInv, RunsApart
<1>8. CASE x # p /\ y # p
  BY <1>5, <1>8 DEF ProcessingInv, RunsApart
<1> QED BY <1>6, <1>7, <1>8

\* What is published stays allowed, of known runs and with every verified run.
LEMMA PublicationKept ==
  ASSUME ProcessingInv, TypeOK', NEW p \in Proc, Moves(p)
  PROVE  FilesHaveRuns' /\ VerifiedIsPublished' /\ PublishedWasAllowed'
<1> USE DEF ModeOf, Strict, OutputOf, FileOf, BoundaryOf, VerdictOf, DecisionOf, MayWrite
<1>1. RunIds \subseteq RunIds' /\ RunIds \subseteq Nat
  BY RunIdsGrow DEF Moves, ProcessingInv
<1>2. \A r \in RunIds : journal'[r].mode = journal[r].mode /\ journal'[r].strict = journal[r].strict
  BY DEF Moves
<1>3. attempt[p].pc \in Working =>
        /\ attempt[p].run \in RunIds /\ journal[attempt[p].run].mode = ModeOf(p)
        /\ journal[attempt[p].run].strict = Strict(p)
        /\ HasRequest(p) /\ RunIsAtPc(p)
  BY DEF ProcessingInv, AttemptStands, RunIsAtPc
<1>4. attempt[p].pc = "link" => ModeOf(p) = "write" /\ MayWrite(p)
  BY <1>3 DEF RunIsAtPc, Working
<1>5. FilesHaveRuns'
  <2> SUFFICES ASSUME NEW o \in Output, published'[o] # None
               PROVE  published'[o].run \in RunIds' /\ journal'[published'[o].run].mode = "write"
    BY DEF FilesHaveRuns
  <2>1. CASE published'[o] = published[o]
    BY <1>1, <1>2, <2>1 DEF ProcessingInv, FilesHaveRuns
  <2>2. CASE attempt[p].pc = "link" /\ published'[o] = FileOf(p)
    <3>1. published'[o].run = attempt[p].run
      BY <2>2
    <3>2. attempt[p].run \in RunIds /\ journal'[attempt[p].run].mode = "write"
      BY <1>2, <1>3, <1>4, <2>2 DEF Working
    <3> QED BY <1>1, <3>1, <3>2
  <2> QED BY <2>1, <2>2 DEF Moves
<1>6. PublishedWasAllowed'
  <2> SUFFICES ASSUME NEW o \in Output, published'[o] # None
               PROVE  LET v == Verdict[published'[o].of.source]
                      IN  /\ ~v.hierarchy
                          /\ \/ v.decision = "allow_write"
                             \/ /\ v.decision = "allow_write_with_warnings"
                                /\ ~journal'[published'[o].run].strict
    BY DEF PublishedWasAllowed
  <2>1. CASE published'[o] = published[o]
    <3>1. published[o].run \in RunIds
      BY <2>1 DEF ProcessingInv, FilesHaveRuns
    <3> QED BY <1>2, <2>1, <3>1 DEF ProcessingInv, PublishedWasAllowed
  <2>2. CASE attempt[p].pc = "link" /\ published'[o] = FileOf(p)
    <3>1. published'[o].run = attempt[p].run /\ published'[o].of = attempt[p].seen
      BY <2>2
    <3>2. journal'[attempt[p].run].strict = attempt[p].request.strict
      BY <1>2, <1>3, <2>2 DEF Working
    <3> QED BY <1>4, <2>2, <3>1, <3>2
  <2> QED BY <2>1, <2>2 DEF Moves
<1>7. VerifiedIsPublished'
  <2> SUFFICES ASSUME NEW r \in RunIds', Last(journal'[r].chain) = "EXPORT_VERIFIED",
                      journal'[r].mode = "write"
               PROVE  \E o \in Output : published'[o] # None /\ published'[o].run = r
    BY DEF VerifiedIsPublished
  <2>1. r \in RunIds
    BY DEF Moves, Last, Boundary
  <2>2. CASE attempt[p].pc \in {"verify", "record"} /\ r = attempt[p].run
    <3>0. ModeOf(p) = "write" /\ RunIsAtPc(p) /\ HasRequest(p)
      BY <1>2, <1>3, <2>1, <2>2 DEF Working
    <3>1. published[OutputOf(p)] = FileOf(p) /\ OutputOf(p) \in Output
      BY <2>2, <3>0 DEF RunIsAtPc, HasRequest, Requests, Working
    <3>2. published'[OutputOf(p)] = FileOf(p)
      BY <2>2, <3>1 DEF Moves
    <3>3. FileOf(p) # None /\ FileOf(p).run = r
      <4>1. attempt[p] \in Attempt /\ attempt[p].run \in Nat
        BY <1>1, <2>1, <2>2 DEF ProcessingInv, TypeOK
      <4> QED BY <2>2, <4>1, NotNone DEF File, Attempt
    <3> QED BY <3>1, <3>2, <3>3
  <2>3. CASE ~(attempt[p].pc \in {"verify", "record"} /\ r = attempt[p].run)
    <3>1. journal'[r] = journal[r]
      BY <2>1, <2>3 DEF Moves
    <3>2. PICK o \in Output : published[o] # None /\ published[o].run = r
      BY <2>1, <3>1 DEF ProcessingInv, VerifiedIsPublished
    <3>3. ~(attempt[p].pc = "check" /\ published[o] = FileOf(p))
      <4> SUFFICES ASSUME attempt[p].pc = "check", published[o] = FileOf(p)
                   PROVE  FALSE
        OBVIOUS
      <4>1. r = attempt[p].run /\ Last(journal[r].chain) = "EXPORT_PREPARED"
        BY <1>3, <3>2 DEF RunIsAtPc, Stands, Working
      <4> QED BY <3>1, <4>1
    <3>4. published'[o] = published[o]
      BY <3>2, <3>3 DEF Moves
    <3> QED BY <3>2, <3>4
  <2> QED BY <2>2, <2>3
<1> QED BY <1>5, <1>6, <1>7

\* The part of the invariant that a step of p has to establish for itself.
OwnStands(p) ==
  ChainsAreValid /\ AttemptStands(p) /\ Settled(attempt[p].answer)

\* A step that moves only p, and leaves p standing, keeps the invariant.
LEMMA MovesKeep ==
  ASSUME ProcessingInv, NEW p \in Proc, Moves(p), TypeOK', OwnStands(p)'
  PROVE  ProcessingInv'
<1>1. \A q \in Proc \ {p} : AttemptStands(q)'
  BY OthersStand
<1>2. \A q \in Proc \ {p} : Settled(attempt[q].answer)'
  <2> SUFFICES ASSUME NEW q \in Proc \ {p}
               PROVE  Settled(attempt[q].answer)'
    OBVIOUS
  <2>1. PICK a \in Answer \cup {None} : a = attempt[q].answer /\ a = attempt'[q].answer /\ Settled(a)
    BY DEF ProcessingInv, TypeOK, Attempt, Moves
  <2>2. Settled(a)'
    BY <2>1, SettledKept DEF ProcessingInv
  <2> QED BY <2>1, <2>2 DEF Settled
<1>3. \A i \in Identity : Settled(cache[i])'
  <2> SUFFICES ASSUME NEW i \in Identity
               PROVE  Settled(cache[i])'
    OBVIOUS
  <2>1. PICK a \in Answer \cup {None} : a = cache'[i] /\ Settled(a)
    BY DEF ProcessingInv, TypeOK, Attempt, Moves
  <2>2. Settled(a)'
    BY <2>1, SettledKept DEF ProcessingInv
  <2> QED BY <2>1, <2>2 DEF Settled
<1>4. RunsApart'
  BY ApartKept
<1>5. FilesHaveRuns' /\ VerifiedIsPublished' /\ PublishedWasAllowed'
  BY PublicationKept
<1> QED BY <1>1, <1>2, <1>3, <1>4, <1>5 DEF ProcessingInv, OwnStands

\* An event appended to a run adds one state at the end of its chain.
LEMMA AppendEffect ==
  ASSUME TypeOK, ChainsAreValid, NEW r \in RunIds, NEW s \in Boundary, AppendEvent(r, s)
  PROVE  /\ journal' \in Seq(Run) /\ Len(journal') = Len(journal) /\ ChainsAreValid'
         /\ \A x \in RunIds : x # r => journal'[x] = journal[x]
         /\ \E c \in Seq(Boundary) : journal'[r] = [journal[r] EXCEPT !.chain = c] /\ Last(c) = s
<1> DEFINE c == Append(journal[r].chain, s)
           e == [journal[r] EXCEPT !.chain = c]
<1>1. journal[r] \in Run /\ journal[r].chain \in Seq(Boundary) /\ r \in 1..Len(journal)
  <2>1. r \in 1..Len(journal) /\ journal \in Seq(Run)
    BY DEF TypeOK, RunIds
  <2>2. journal[r] \in Run
    BY <2>1, ElementOfSeq
  <2> QED BY <2>1, <2>2 DEF Run
<1>2. /\ c \in Seq(Boundary) /\ Len(c) = Len(journal[r].chain) + 1
      /\ \A i \in 1..Len(journal[r].chain) : c[i] = journal[r].chain[i]
      /\ c[Len(journal[r].chain) + 1] = s /\ c # <<>>
  BY <1>1, AppendProperties
<1>3. e \in Run
  BY <1>1, <1>2 DEF Run
<1>4. journal' = [journal EXCEPT ![r] = e]
  BY <1>1 DEF AppendEvent
<1>5. /\ journal' \in Seq(Run) /\ Len(journal') = Len(journal)
      /\ \A x \in RunIds : journal'[x] = IF x = r THEN e ELSE journal[x]
  <2> HIDE DEF e
  <2> QED BY <1>1, <1>3, <1>4, ExceptSeq DEF TypeOK, RunIds
<1>6. Last(c) = s
  BY <1>2 DEF Last
<1>7. ChainsAreValid'
  <2> SUFFICES ASSUME NEW x \in RunIds, NEW i \in 1..Len(journal'[x].chain)
               PROVE  ValidTransition(IF i = 1 THEN None ELSE journal'[x].chain[i - 1], journal'[x].chain[i])
    BY <1>5 DEF ChainsAreValid, RunIds
  <2>1. CASE x # r
    BY <1>5, <2>1 DEF ChainsAreValid
  <2>2. CASE x = r
    <3>1. journal'[x].chain = c
      BY <1>1, <1>5, <2>2 DEF Run
    <3>2. Len(journal[r].chain) \in Nat
      BY <1>1, LenProperties
    <3>3. CASE i \in 1..Len(journal[r].chain)
      <4>1. c[i] = journal[r].chain[i] /\ (i # 1 => c[i - 1] = journal[r].chain[i - 1])
        BY <1>2, <3>2, <3>3
      <4>2. ValidTransition(IF i = 1 THEN None ELSE journal[r].chain[i - 1], journal[r].chain[i])
        BY <3>3 DEF ChainsAreValid
      <4>3. i = 1 \/ i # 1
        OBVIOUS
      <4> QED BY <3>1, <4>1, <4>2, <4>3
    <3>4. CASE i = Len(journal[r].chain) + 1
      <4>1. ValidTransition(Last(journal[r].chain), s)
        BY DEF AppendEvent, BoundaryOf
      <4>2. Last(journal[r].chain) = IF i = 1 THEN None ELSE c[i - 1]
        BY <1>1, <1>2, <3>2, <3>4, EmptySeq DEF Last
      <4> QED BY <1>2, <3>1, <3>4, <4>1, <4>2
    <3>5. i \in 1..(Len(journal[r].chain) + 1)
      BY <1>2, <3>1
    <3>6. i \in 1..Len(journal[r].chain) \/ i = Len(journal[r].chain) + 1
      BY <3>2, <3>5
    <3> QED BY <3>3, <3>4, <3>6
  <2> QED BY <2>1, <2>2
<1> QED BY <1>2, <1>5, <1>6, <1>7

\* A step that only sends p from one control point to another.
LEMMA GotoEffect ==
  ASSUME TypeOK, NEW p \in Proc, NEW l \in Control, Goto(p, l)
  PROVE  /\ attempt' \in [Proc -> Attempt] /\ attempt'[p] = [attempt[p] EXCEPT !.pc = l]
         /\ \A q \in Proc \ {p} : attempt'[q] = attempt[q]
BY DEF TypeOK, Goto, Attempt

\* A step that concludes an attempt.
LEMMA ConcludeEffect ==
  ASSUME TypeOK, NEW p \in Proc, NEW a \in Answer, Conclude(p, a)
  PROVE  /\ attempt' \in [Proc -> Attempt]
         /\ attempt'[p] = [attempt[p] EXCEPT !.pc = "save", !.answer = a]
         /\ \A q \in Proc \ {p} : attempt'[q] = attempt[q]
<1> DEFINE e == [attempt[p] EXCEPT !.pc = "save", !.answer = a]
<1>1. attempt[p] \in Attempt /\ "save" \in Control
  BY DEF TypeOK, Control
<1>2. e \in Attempt
  BY <1>1 DEF Attempt
<1>3. attempt' = [attempt EXCEPT ![p] = e]
  BY DEF TypeOK, Conclude
<1> HIDE DEF e
<1>4. attempt' \in [Proc -> Attempt] /\ attempt'[p] = e /\ \A q \in Proc \ {p} : attempt'[q] = attempt[q]
  BY <1>2, <1>3 DEF TypeOK
<1> QED BY <1>4 DEF e

\* A failed answer is typed and names no run.
LEMMA FailedTyped ==
  ASSUME TypeOK, NEW p \in Proc
  PROVE  /\ Failed(p) \in Answer /\ Failed(p).run = None /\ ~Failed(p).resumed
         /\ Failed(p).state \notin Succeeded
BY DEF TypeOK, Attempt, Failed, Answer, State, Boundary, Succeeded

\* Raising an exception concludes the attempt without a run.
LEMMA RaiseStands ==
  ASSUME ProcessingInv, NEW p \in Proc, Raise(p), UNCHANGED <<inputs, journal>>,
         attempt[p].pc # "idle"
  PROVE  /\ attempt' \in [Proc -> Attempt] /\ OwnStands(p)'
         /\ \A q \in Proc \ {p} : attempt'[q] = attempt[q]
         /\ attempt'[p].pc = "save"
<1>1. /\ attempt' \in [Proc -> Attempt]
      /\ attempt'[p] = [attempt[p] EXCEPT !.pc = "save", !.answer = Failed(p)]
      /\ \A q \in Proc \ {p} : attempt'[q] = attempt[q]
  BY FailedTyped, ConcludeEffect DEF ProcessingInv, Raise
<1>2. attempt[p] \in Attempt
  BY DEF ProcessingInv, TypeOK
<1>3. AttemptStands(p)
  BY DEF ProcessingInv
<1>4. /\ attempt'[p].pc = "save" /\ attempt'[p].answer = Failed(p)
      /\ attempt'[p].request = attempt[p].request /\ attempt'[p].snapshot = attempt[p].snapshot
      /\ attempt'[p].seen = attempt[p].seen
  BY <1>1, <1>2 DEF Attempt
<1>5. HasRequest(p)' /\ RunIsAtPc(p)' /\ RunIsDone(p)'
  BY <1>3, <1>4 DEF AttemptStands, HasRequest, RunIsAtPc, RunIsDone, Working
<1>6. InputsGrow(p)'
  BY <1>3, <1>4 DEF AttemptStands, InputsGrow, Grown
<1>7. AnswerStands(p)' /\ Settled(attempt[p].answer)'
  BY <1>4, FailedTyped DEF AnswerStands, Settled, ProcessingInv
<1>8. ChainsAreValid'
  BY DEF ProcessingInv, ChainsAreValid, RunIds
<1> QED BY <1>1, <1>4, <1>5, <1>6, <1>7, <1>8 DEF OwnStands, AttemptStands

\* Going on keeps the attempt standing, when its run stands where the new control
\* point wants it.
LEMMA GotoStands ==
  ASSUME ProcessingInv, NEW p \in Proc, NEW l \in Control \ {"idle", "cache", "inspect", "begin"},
         Goto(p, l), UNCHANGED <<inputs, spent>>,
         attempt[p].pc \notin {"idle", "save"},
         ChainsAreValid', RunIsAtPc(p)', RunIsDone(p)'
  PROVE  OwnStands(p)'
<1>1. attempt'[p] = [attempt[p] EXCEPT !.pc = l] /\ attempt[p] \in Attempt
  BY GotoEffect DEF ProcessingInv, TypeOK
<1>2. /\ attempt'[p].pc = l /\ attempt'[p].request = attempt[p].request
      /\ attempt'[p].snapshot = attempt[p].snapshot /\ attempt'[p].seen = attempt[p].seen
      /\ attempt'[p].answer = attempt[p].answer /\ attempt'[p].run = attempt[p].run
  BY <1>1 DEF Attempt
<1>3. AttemptStands(p)
  BY DEF ProcessingInv
<1>4. attempt[p].answer = None
  BY <1>3 DEF AttemptStands, AnswerStands
<1>5. HasRequest(p)'
  BY <1>2, <1>3 DEF AttemptStands, HasRequest
<1>6. InputsGrow(p)'
  BY <1>2, <1>3 DEF AttemptStands, InputsGrow, Grown
<1>7. AnswerStands(p)' /\ Settled(attempt[p].answer)'
  BY <1>2, <1>4 DEF AnswerStands, Settled
<1> QED BY <1>5, <1>6, <1>7 DEF OwnStands, AttemptStands

\* What a working attempt may do to the journal: it changes only its own run, not
\* what the run was begun with, and verifies it only at the end.
KeepsRuns(p) ==
  /\ journal' \in Seq(Run) /\ Len(journal') = Len(journal) /\ ChainsAreValid'
  /\ \A r \in RunIds : r # attempt[p].run => journal'[r] = journal[r]
  /\ journal'[attempt[p].run].mode = journal[attempt[p].run].mode
  /\ journal'[attempt[p].run].strict = journal[attempt[p].run].strict
  /\ Last(journal'[attempt[p].run].chain) = "EXPORT_VERIFIED" => attempt[p].pc \in {"verify", "record"}

\* One step of a working attempt.
LEMMA WorkingStep ==
  ASSUME ProcessingInv, NEW p \in Proc, NEW l \in Working \cup {"unchanged"}, Goto(p, l),
         attempt[p].pc \in Working, UNCHANGED <<inputs, cache, spent>>, KeepsRuns(p),
         \/ UNCHANGED published
         \/ /\ attempt[p].pc = "link" /\ published[OutputOf(p)] = None
            /\ published' = [published EXCEPT ![OutputOf(p)] = FileOf(p)],
         RunIsAtPc(p)', RunIsDone(p)'
  PROVE  ProcessingInv'
<1>0. l \in Control \ {"idle", "cache", "inspect", "begin"} /\ TypeOK
  BY DEF Working, Control, ProcessingInv
<1>1. /\ attempt' \in [Proc -> Attempt] /\ attempt'[p] = [attempt[p] EXCEPT !.pc = l]
      /\ \A q \in Proc \ {p} : attempt'[q] = attempt[q]
  BY <1>0, GotoEffect
<1>2. attempt[p] \in Attempt /\ attempt[p].run \in RunIds /\ RunIds \subseteq Nat
  BY <1>0, LenProperties DEF ProcessingInv, AttemptStands, RunIsAtPc, TypeOK, RunIds
<1>3. attempt'[p].pc = l /\ attempt'[p].run = attempt[p].run
  BY <1>1, <1>2 DEF Attempt
<1>4. FileOf(p) \in File
  BY <1>2 DEF FileOf, File, Attempt
<1>5. TypeOK'
  BY <1>0, <1>1, <1>4 DEF TypeOK, KeepsRuns
<1>6. OwnStands(p)'
  BY <1>0, GotoStands DEF KeepsRuns, Working
<1>7. Moves(p)
  <2>1. RunIds' = RunIds /\ Len(journal) \in Nat
    BY <1>0, LenProperties DEF KeepsRuns, RunIds, TypeOK
  <2>2. \A r \in RunIds :
          \/ journal'[r] = journal[r]
          \/ /\ attempt[p].pc \in Working /\ r = attempt[p].run
             /\ journal'[r].mode = journal[r].mode /\ journal'[r].strict = journal[r].strict
             /\ Last(journal'[r].chain) = "EXPORT_VERIFIED" => attempt[p].pc \in {"verify", "record"}
    BY DEF KeepsRuns
  <2>3. \A o \in Output :
          \/ published'[o] = published[o]
          \/ attempt[p].pc = "link" /\ published[o] = None /\ published'[o] = FileOf(p)
    BY <1>0 DEF TypeOK
  <2> QED BY <1>1, <1>3, <2>1, <2>2, <2>3 DEF Moves, KeepsRuns
<1> QED BY <1>5, <1>6, <1>7, MovesKeep

\* An event of a working attempt changes its own run and no other.
LEMMA AppendKeepsRuns ==
  ASSUME ProcessingInv, NEW p \in Proc, attempt[p].pc \in Working, NEW s \in Boundary,
         AppendEvent(attempt[p].run, s), s = "EXPORT_VERIFIED" => attempt[p].pc = "verify"
  PROVE  /\ KeepsRuns(p)
         /\ Last(journal'[attempt[p].run].chain) = s
         /\ journal'[attempt[p].run].crossStore = journal[attempt[p].run].crossStore
<1> DEFINE r == attempt[p].run
<1>1. r \in RunIds
  BY DEF ProcessingInv, AttemptStands, RunIsAtPc
<1>2. PICK c \in Seq(Boundary) : journal'[r] = [journal[r] EXCEPT !.chain = c] /\ Last(c) = s
  BY <1>1, AppendEffect DEF ProcessingInv
<1>3. journal[r] \in Run
  BY <1>1, ElementOfSeq DEF ProcessingInv, TypeOK, RunIds
<1>4. /\ journal'[r].mode = journal[r].mode /\ journal'[r].strict = journal[r].strict
      /\ journal'[r].crossStore = journal[r].crossStore /\ Last(journal'[r].chain) = s
  BY <1>2, <1>3 DEF Run
<1>5. /\ journal' \in Seq(Run) /\ Len(journal') = Len(journal) /\ ChainsAreValid'
      /\ \A x \in RunIds : x # r => journal'[x] = journal[x]
  BY <1>1, AppendEffect DEF ProcessingInv
<1> QED BY <1>4, <1>5 DEF KeepsRuns

\* What a step to another control point leaves of the attempt.
LEMMA GotoFields ==
  ASSUME TypeOK, NEW p \in Proc, NEW l \in Control, Goto(p, l)
  PROVE  /\ attempt'[p].pc = l /\ attempt'[p].request = attempt[p].request
         /\ attempt'[p].seen = attempt[p].seen /\ attempt'[p].run = attempt[p].run
<1>1. attempt'[p] = [attempt[p] EXCEPT !.pc = l] /\ attempt[p] \in Attempt
  BY GotoEffect DEF TypeOK
<1> QED BY <1>1 DEF Attempt

\* A journal that nobody touches keeps its runs.
LEMMA SameRuns ==
  ASSUME ProcessingInv, NEW p \in Proc, UNCHANGED journal, attempt[p].pc \in Working
  PROVE  KeepsRuns(p)
<1>1. RunIsAtPc(p)
  BY DEF ProcessingInv, AttemptStands
<1>2. Last(journal[attempt[p].run].chain) = "EXPORT_VERIFIED" => attempt[p].pc = "record"
  BY <1>1 DEF RunIsAtPc, Stands, BoundaryOf, Boundary
<1> QED BY <1>2 DEF KeepsRuns, ProcessingInv, TypeOK, ChainsAreValid, RunIds

LEMMA AppendPendingKeeps ==
  ASSUME ProcessingInv, NEW p \in Proc, AppendPending(p)
  PROVE  ProcessingInv'
<1>1. attempt[p].pc \in Working /\ RunIsAtPc(p) /\ TypeOK
  BY DEF AppendPending, At, Working, ProcessingInv, AttemptStands
<1>2. /\ KeepsRuns(p) /\ Last(journal'[attempt[p].run].chain) = "PENDING"
      /\ journal'[attempt[p].run].crossStore = journal[attempt[p].run].crossStore
  BY <1>1, AppendKeepsRuns DEF AppendPending, Boundary
<1>3. /\ attempt'[p].pc = "data" /\ attempt'[p].request = attempt[p].request
      /\ attempt'[p].seen = attempt[p].seen /\ attempt'[p].run = attempt[p].run
  BY <1>1, GotoFields DEF AppendPending, Control
<1>4. RunIsAtPc(p)' /\ RunIsDone(p)'
  BY <1>1, <1>2, <1>3 DEF RunIsAtPc, RunIsDone, Stands, ModeOf, Strict, BoundaryOf, KeepsRuns, RunIds
<1> QED BY <1>1, <1>2, <1>4, WorkingStep DEF AppendPending, Working

LEMMA AppendDataKeeps ==
  ASSUME ProcessingInv, NEW p \in Proc, AppendData(p)
  PROVE  ProcessingInv'
<1> DEFINE l == IF ModeOf(p) = "dry-run" THEN "prepare" ELSE "decide"
<1>1. attempt[p].pc \in Working /\ RunIsAtPc(p) /\ HasRequest(p) /\ TypeOK
  BY DEF AppendData, At, Working, ProcessingInv, AttemptStands
<1>2. /\ KeepsRuns(p) /\ Last(journal'[attempt[p].run].chain) = "DATA_COMMITTED"
      /\ journal'[attempt[p].run].crossStore = journal[attempt[p].run].crossStore
  BY <1>1, AppendKeepsRuns DEF AppendData, Boundary
<1>3. /\ attempt'[p].pc = l /\ attempt'[p].request = attempt[p].request
      /\ attempt'[p].seen = attempt[p].seen /\ attempt'[p].run = attempt[p].run
  BY <1>1, GotoFields DEF AppendData, Control
<1>4. ModeOf(p) \in Mode
  BY <1>1 DEF HasRequest, ModeOf, Requests, Working
<1>5. RunIsAtPc(p)' /\ RunIsDone(p)'
  BY <1>1, <1>2, <1>3, <1>4 DEF RunIsAtPc, RunIsDone, Stands, ModeOf, Strict, BoundaryOf, KeepsRuns, RunIds, Mode
<1> QED BY <1>1, <1>2, <1>5, WorkingStep DEF AppendData, Working

LEMMA DecideKeeps ==
  ASSUME ProcessingInv, NEW p \in Proc, Decide(p)
  PROVE  ProcessingInv'
<1> DEFINE l == IF MayWrite(p) THEN "prepare" ELSE "unchanged"
<1>1. attempt[p].pc = "decide" /\ attempt[p].pc \in Working /\ RunIsAtPc(p) /\ TypeOK
  BY DEF Decide, At, Working, ProcessingInv, AttemptStands
<1>2. KeepsRuns(p)
  BY <1>1, SameRuns DEF Decide
<1>3. /\ attempt'[p].pc = l /\ attempt'[p].request = attempt[p].request
      /\ attempt'[p].seen = attempt[p].seen /\ attempt'[p].run = attempt[p].run
  BY <1>1, GotoFields DEF Decide, Control
<1>4. journal' = journal /\ MayWrite(p)' = MayWrite(p)
  BY <1>3 DEF Decide, MayWrite, DecisionOf, VerdictOf, Strict
<1>5. RunIsAtPc(p)' /\ RunIsDone(p)'
  <2>1. CASE MayWrite(p)
    BY <1>1, <1>3, <1>4, <2>1 DEF RunIsAtPc, RunIsDone, Stands, ModeOf, Strict, BoundaryOf, RunIds
  <2>2. CASE ~MayWrite(p)
    <3>1. ModeOf(p) = "write" /\ attempt[p].run \in RunIds /\ Last(journal[attempt[p].run].chain) = "DATA_COMMITTED"
      BY <1>1 DEF RunIsAtPc, Stands, BoundaryOf
    <3> QED BY <1>3, <1>4, <2>2, <3>1 DEF RunIsAtPc, RunIsDone, ModeOf, BoundaryOf, RunIds, Working
  <2> QED BY <2>1, <2>2
<1> QED BY <1>1, <1>2, <1>5, WorkingStep DEF Decide, Working

LEMMA AppendPreparedKeeps ==
  ASSUME ProcessingInv, NEW p \in Proc, AppendPrepared(p)
  PROVE  ProcessingInv'
<1>1. attempt[p].pc = "prepare" /\ attempt[p].pc \in Working /\ RunIsAtPc(p) /\ TypeOK
  BY DEF AppendPrepared, At, Working, ProcessingInv, AttemptStands
<1>2. /\ KeepsRuns(p) /\ Last(journal'[attempt[p].run].chain) = "EXPORT_PREPARED"
      /\ journal'[attempt[p].run].crossStore = journal[attempt[p].run].crossStore
  BY <1>1, AppendKeepsRuns DEF AppendPrepared, Boundary
<1>3. /\ attempt'[p].pc = "export" /\ attempt'[p].request = attempt[p].request
      /\ attempt'[p].seen = attempt[p].seen /\ attempt'[p].run = attempt[p].run
  BY <1>1, GotoFields DEF AppendPrepared, Control
<1>4. MayWrite(p)' = MayWrite(p)
  BY <1>3 DEF MayWrite, DecisionOf, VerdictOf, Strict
<1>5. RunIsAtPc(p)' /\ RunIsDone(p)'
  BY <1>1, <1>2, <1>3, <1>4 DEF RunIsAtPc, RunIsDone, Stands, ModeOf, Strict, BoundaryOf, KeepsRuns, RunIds
<1> QED BY <1>1, <1>2, <1>5, WorkingStep DEF AppendPrepared, Working

LEMMA ExportSnapshotKeeps ==
  ASSUME ProcessingInv, NEW p \in Proc, ExportSnapshot(p)
  PROVE  ProcessingInv'
<1> DEFINE l == IF ModeOf(p) = "write" THEN "snapshot" ELSE "verify"
           r == attempt[p].run
           e == [journal[r] EXCEPT !.exported = TRUE]
<1>1. attempt[p].pc = "export" /\ attempt[p].pc \in Working /\ RunIsAtPc(p) /\ TypeOK
  BY DEF ExportSnapshot, At, Working, ProcessingInv, AttemptStands
<1>2. r \in 1..Len(journal) /\ journal \in Seq(Run) /\ r \in RunIds
  BY <1>1 DEF RunIsAtPc, TypeOK, RunIds
<1>3. journal[r] \in Run
  BY <1>2, ElementOfSeq
<1>4. /\ e \in Run /\ e.mode = journal[r].mode /\ e.strict = journal[r].strict
      /\ e.chain = journal[r].chain /\ e.crossStore = journal[r].crossStore
  BY <1>3 DEF Run
<1>5. journal' = [journal EXCEPT ![r] = e]
  BY DEF ExportSnapshot
<1> HIDE DEF e
<1>6. /\ journal' \in Seq(Run) /\ Len(journal') = Len(journal)
      /\ \A x \in 1..Len(journal) : journal'[x] = IF x = r THEN e ELSE journal[x]
  BY <1>2, <1>4, <1>5, ExceptSeq
<1>7. \A x \in RunIds : journal'[x].chain = journal[x].chain
  BY <1>4, <1>6 DEF RunIds
<1>8. KeepsRuns(p)
  <2>1. ChainsAreValid'
    BY <1>6, <1>7 DEF ChainsAreValid, ProcessingInv, RunIds
  <2>2. Last(journal[r].chain) # "EXPORT_VERIFIED"
    BY <1>1 DEF RunIsAtPc, Stands, BoundaryOf
  <2> QED BY <1>2, <1>4, <1>6, <2>1, <2>2 DEF KeepsRuns, RunIds
<1>9. /\ attempt'[p].pc = l /\ attempt'[p].request = attempt[p].request
      /\ attempt'[p].seen = attempt[p].seen /\ attempt'[p].run = r
  BY <1>1, GotoFields DEF ExportSnapshot, Control
<1>10. MayWrite(p)' = MayWrite(p)
  BY <1>9 DEF MayWrite, DecisionOf, VerdictOf, Strict
<1>11. RunIsAtPc(p)' /\ RunIsDone(p)'
  BY <1>1, <1>2, <1>4, <1>6, <1>9, <1>10
     DEF RunIsAtPc, RunIsDone, Stands, ModeOf, Strict, BoundaryOf, RunIds
<1> QED BY <1>1, <1>8, <1>11, WorkingStep DEF ExportSnapshot, Working

\* An exception at any point, with the withdrawal of a workbook not yet verified.
LEMMA RaiseKeeps ==
  ASSUME ProcessingInv, NEW p \in Proc, Raise(p), attempt[p].pc # "idle",
         UNCHANGED <<inputs, journal, cache>>, spent' \in Spent, spent'.rollbacks = spent.rollbacks,
         UNCHANGED published \/ (attempt[p].pc = "check" /\ RemoveOwned(p))
  PROVE  ProcessingInv'
<1>1. /\ attempt' \in [Proc -> Attempt] /\ OwnStands(p)' /\ attempt'[p].pc = "save"
      /\ \A q \in Proc \ {p} : attempt'[q] = attempt[q]
  BY RaiseStands
<1>2. /\ published' \in [Output -> File \cup {None}]
      /\ \A o \in Output :
           \/ published'[o] = published[o]
           \/ attempt[p].pc = "check" /\ published[o] = FileOf(p) /\ published'[o] = None
  BY DEF ProcessingInv, TypeOK, RemoveOwned
<1>3. TypeOK'
  BY <1>1, <1>2 DEF ProcessingInv, TypeOK
<1>4. Moves(p)
  BY <1>1, <1>2, LenProperties DEF Moves, Working, ProcessingInv, TypeOK, RunIds
<1> QED BY <1>1, <1>3, <1>4, MovesKeep

LEMMA SnapshotTargetKeeps ==
  ASSUME ProcessingInv, NEW p \in Proc, SnapshotTarget(p)
  PROVE  ProcessingInv'
<1>1. attempt[p].pc = "snapshot" /\ attempt[p].pc \in Working /\ RunIsAtPc(p) /\ TypeOK
  BY DEF SnapshotTarget, At, Working, ProcessingInv, AttemptStands
<1>2. CASE Goto(p, "link")
  <2>1. KeepsRuns(p)
    BY <1>1, SameRuns DEF SnapshotTarget
  <2>2. /\ attempt'[p].pc = "link" /\ attempt'[p].request = attempt[p].request
        /\ attempt'[p].seen = attempt[p].seen /\ attempt'[p].run = attempt[p].run
    BY <1>1, <1>2, GotoFields DEF Control
  <2>3. journal' = journal /\ MayWrite(p)' = MayWrite(p)
    BY <2>2 DEF SnapshotTarget, MayWrite, DecisionOf, VerdictOf, Strict
  <2>4. RunIsAtPc(p)' /\ RunIsDone(p)'
    BY <1>1, <2>2, <2>3 DEF RunIsAtPc, RunIsDone, Stands, ModeOf, Strict, BoundaryOf, RunIds
  <2> QED BY <1>1, <1>2, <2>1, <2>4, WorkingStep DEF SnapshotTarget, Working
<1>3. CASE Raise(p)
  BY <1>1, <1>3, RaiseKeeps DEF SnapshotTarget, ProcessingInv, TypeOK
<1> QED BY <1>2, <1>3 DEF SnapshotTarget

LEMMA LinkKeeps ==
  ASSUME ProcessingInv, NEW p \in Proc, Link(p)
  PROVE  ProcessingInv'
<1>1. /\ attempt[p].pc = "link" /\ attempt[p].pc \in Working /\ RunIsAtPc(p) /\ HasRequest(p) /\ TypeOK
      /\ ModeOf(p) = "write"
  BY DEF Link, At, Working, ProcessingInv, AttemptStands, RunIsAtPc
<1>2. CASE /\ published[OutputOf(p)] = None /\ Goto(p, "check")
           /\ published' = [published EXCEPT ![OutputOf(p)] = FileOf(p)]
  <2>1. KeepsRuns(p)
    BY <1>1, SameRuns DEF Link
  <2>2. /\ attempt'[p].pc = "check" /\ attempt'[p].request = attempt[p].request
        /\ attempt'[p].seen = attempt[p].seen /\ attempt'[p].run = attempt[p].run
    BY <1>1, <1>2, GotoFields DEF Control
  <2>3. journal' = journal /\ MayWrite(p)' = MayWrite(p) /\ FileOf(p)' = FileOf(p) /\ OutputOf(p)' = OutputOf(p)
    BY <2>2 DEF Link, MayWrite, DecisionOf, VerdictOf, Strict, FileOf, OutputOf
  <2>4. OutputOf(p) \in Output
    BY <1>1 DEF HasRequest, Requests, ModeOf, OutputOf
  <2>5. published'[OutputOf(p)'] = FileOf(p)'
    BY <1>1, <1>2, <2>3, <2>4 DEF TypeOK
  <2>6. RunIsAtPc(p)' /\ RunIsDone(p)'
    BY <1>1, <2>2, <2>3, <2>5 DEF RunIsAtPc, RunIsDone, Stands, ModeOf, Strict, BoundaryOf, RunIds
  <2> QED BY <1>1, <1>2, <2>1, <2>6, WorkingStep DEF Link, Working
<1>3. CASE Raise(p) /\ UNCHANGED published
  BY <1>1, <1>3, RaiseKeeps DEF Link, ProcessingInv, TypeOK
<1> QED BY <1>2, <1>3 DEF Link

LEMMA CheckPublishedKeeps ==
  ASSUME ProcessingInv, NEW p \in Proc, CheckPublished(p)
  PROVE  ProcessingInv'
<1>1. attempt[p].pc = "check" /\ attempt[p].pc \in Working /\ RunIsAtPc(p) /\ TypeOK
  BY DEF CheckPublished, At, Working, ProcessingInv, AttemptStands
<1>2. CASE Goto(p, "verify")
  <2>1. KeepsRuns(p)
    BY <1>1, SameRuns DEF CheckPublished
  <2>2. /\ attempt'[p].pc = "verify" /\ attempt'[p].request = attempt[p].request
        /\ attempt'[p].seen = attempt[p].seen /\ attempt'[p].run = attempt[p].run
    BY <1>1, <1>2, GotoFields DEF Control
  <2>3. /\ journal' = journal /\ published' = published /\ MayWrite(p)' = MayWrite(p)
        /\ FileOf(p)' = FileOf(p) /\ OutputOf(p)' = OutputOf(p)
    BY <2>2 DEF CheckPublished, MayWrite, DecisionOf, VerdictOf, Strict, FileOf, OutputOf
  <2>4. RunIsAtPc(p)' /\ RunIsDone(p)'
    BY <1>1, <2>2, <2>3 DEF RunIsAtPc, RunIsDone, Stands, ModeOf, Strict, BoundaryOf, RunIds
  <2> QED BY <1>1, <1>2, <2>1, <2>4, WorkingStep DEF CheckPublished, Working
<1>3. CASE Raise(p)
  BY <1>1, <1>3, RaiseKeeps DEF CheckPublished, ProcessingInv, TypeOK
<1> QED BY <1>2, <1>3 DEF CheckPublished

LEMMA AppendVerifiedKeeps ==
  ASSUME ProcessingInv, NEW p \in Proc, AppendVerified(p)
  PROVE  ProcessingInv'
<1>1. attempt[p].pc = "verify" /\ attempt[p].pc \in Working /\ RunIsAtPc(p) /\ TypeOK
  BY DEF AppendVerified, At, Working, ProcessingInv, AttemptStands
<1>2. /\ KeepsRuns(p) /\ Last(journal'[attempt[p].run].chain) = "EXPORT_VERIFIED"
      /\ journal'[attempt[p].run].crossStore = journal[attempt[p].run].crossStore
  BY <1>1, AppendKeepsRuns DEF AppendVerified, Boundary
<1>3. /\ attempt'[p].pc = "record" /\ attempt'[p].request = attempt[p].request
      /\ attempt'[p].seen = attempt[p].seen /\ attempt'[p].run = attempt[p].run
  BY <1>1, GotoFields DEF AppendVerified, Control
<1>4. /\ published' = published /\ MayWrite(p)' = MayWrite(p)
      /\ FileOf(p)' = FileOf(p) /\ OutputOf(p)' = OutputOf(p)
  BY <1>3 DEF AppendVerified, MayWrite, DecisionOf, VerdictOf, Strict, FileOf, OutputOf
<1>5. RunIsAtPc(p)' /\ RunIsDone(p)'
  BY <1>1, <1>2, <1>3, <1>4 DEF RunIsAtPc, RunIsDone, Stands, ModeOf, Strict, BoundaryOf, KeepsRuns, RunIds
<1> QED BY <1>1, <1>2, <1>5, WorkingStep DEF AppendVerified, Working

LEMMA RecordCrossStoreKeeps ==
  ASSUME ProcessingInv, NEW p \in Proc, RecordCrossStore(p)
  PROVE  ProcessingInv'
<1> DEFINE r == attempt[p].run
           e == [journal[r] EXCEPT !.crossStore = FileOf(p)]
<1>1. attempt[p].pc = "record" /\ attempt[p].pc \in Working /\ RunIsAtPc(p) /\ TypeOK
  BY DEF RecordCrossStore, At, Working, ProcessingInv, AttemptStands
<1>2. r \in 1..Len(journal) /\ journal \in Seq(Run) /\ r \in RunIds /\ r \in Nat
  BY <1>1 DEF RunIsAtPc, TypeOK, RunIds
<1>3. journal[r] \in Run /\ attempt[p] \in Attempt
  BY <1>1, <1>2, ElementOfSeq DEF TypeOK
<1>4. FileOf(p) \in File
  BY <1>2, <1>3 DEF FileOf, File, Attempt
<1>5. /\ e \in Run /\ e.mode = journal[r].mode /\ e.strict = journal[r].strict
      /\ e.chain = journal[r].chain /\ e.crossStore = FileOf(p)
  BY <1>3, <1>4 DEF Run
<1>6. journal' = [journal EXCEPT ![r] = e]
  BY DEF RecordCrossStore, RecordHashes
<1> HIDE DEF e
<1>7. /\ journal' \in Seq(Run) /\ Len(journal') = Len(journal)
      /\ \A x \in 1..Len(journal) : journal'[x] = IF x = r THEN e ELSE journal[x]
  BY <1>2, <1>5, <1>6, ExceptSeq
<1>8. KeepsRuns(p)
  <2>1. \A x \in RunIds : journal'[x].chain = journal[x].chain
    BY <1>5, <1>7 DEF RunIds
  <2>2. ChainsAreValid'
    BY <1>7, <2>1 DEF ChainsAreValid, ProcessingInv, RunIds
  <2> QED BY <1>1, <1>2, <1>5, <1>7, <2>2 DEF KeepsRuns, RunIds
<1>9. /\ attempt'[p].pc = "unchanged" /\ attempt'[p].request = attempt[p].request
      /\ attempt'[p].seen = attempt[p].seen /\ attempt'[p].run = r
  BY <1>1, GotoFields DEF RecordCrossStore, Control
<1>10. MayWrite(p)' = MayWrite(p) /\ FileOf(p)' = FileOf(p) /\ ModeOf(p)' = ModeOf(p)
  BY <1>9 DEF MayWrite, DecisionOf, VerdictOf, Strict, FileOf, ModeOf
<1>11. RunIsAtPc(p)'
  BY <1>9 DEF RunIsAtPc, Working
<1>12. RunIsDone(p)'
  <2>1. r \in RunIds' /\ journal'[r].crossStore = FileOf(p) /\ Last(journal'[r].chain) = "EXPORT_VERIFIED"
    BY <1>1, <1>2, <1>5, <1>7 DEF RunIsAtPc, Stands, BoundaryOf, RunIds
  <2>2. ModeOf(p) = "write" => MayWrite(p)
    BY <1>1 DEF RunIsAtPc
  <2> QED BY <1>9, <1>10, <2>1, <2>2 DEF RunIsDone, BoundaryOf
<1> QED BY <1>1, <1>8, <1>11, <1>12, WorkingStep DEF RecordCrossStore, Working

\* The last comparison: equal versions were never other ones in between, so the
\* recorded workbook was made from the inputs that the answer names.
LEMMA VerifyUnchangedKeeps ==
  ASSUME ProcessingInv, NEW p \in Proc, VerifyUnchanged(p)
  PROVE  ProcessingInv'
<1> DEFINE r == attempt[p].run
           good == [state |-> StateOf(p), inputs |-> attempt[p].snapshot, run |-> r,
                    boundary |-> IF r = None THEN "PENDING" ELSE BoundaryOf(r), resumed |-> FALSE]
<1>1. /\ attempt[p].pc = "unchanged" /\ RunIsDone(p) /\ HasRequest(p) /\ InputsGrow(p) /\ TypeOK
      /\ attempt[p] \in Attempt /\ RunIds \subseteq Nat
  BY LenProperties DEF VerifyUnchanged, At, ProcessingInv, AttemptStands, TypeOK, RunIds
<1>2. CASE ~Unchanged(p)
  <2>1. Raise(p)
    BY <1>2 DEF VerifyUnchanged, Raise
  <2> QED BY <1>1, <2>1, RaiseKeeps DEF VerifyUnchanged, ProcessingInv, TypeOK
<1>3. CASE Unchanged(p)
  <2>1. Conclude(p, good)
    BY <1>3 DEF VerifyUnchanged
  <2>2. good \in Answer
    <3>1. StateOf(p) \in State
      BY DEF StateOf, QualityState, State
    <3>2. r \in Nat \cup {None} /\ attempt[p].snapshot \in Inputs
      BY <1>1 DEF Attempt
    <3>3. r # None => BoundaryOf(r) \in Boundary
      BY <1>1 DEF RunIsDone, Boundary
    <3>4. "PENDING" \in Boundary
      BY DEF Boundary
    <3> QED BY <3>1, <3>2, <3>3, <3>4 DEF Answer
  <2>3. /\ good.run = r /\ good.inputs = attempt[p].snapshot /\ good.state = StateOf(p) /\ ~good.resumed
    OBVIOUS
  <2>4. attempt[p].seen = attempt[p].snapshot
    <3>1. attempt[p].seen \in Inputs /\ attempt[p].snapshot \in Inputs
      BY <1>1 DEF Attempt
    <3>2. /\ attempt[p].seen.source = attempt[p].snapshot.source
          /\ attempt[p].seen.target = attempt[p].snapshot.target
      BY <1>1, <1>3, <3>1 DEF Unchanged, InputsGrow, Grown, Inputs, Version
    <3> QED BY <3>1, <3>2 DEF Inputs
  <2>5. ASSUME ModeOf(p) = "write", StateOf(p) \in Succeeded
        PROVE  /\ r \in RunIds /\ BoundaryOf(r) = "EXPORT_VERIFIED"
               /\ journal[r].crossStore = [run |-> r, of |-> attempt[p].snapshot]
    <3>1. MayWrite(p)
      BY <2>5 DEF StateOf, QualityState, Succeeded
    <3>2. FileOf(p) = [run |-> r, of |-> attempt[p].snapshot]
      BY <2>4 DEF FileOf
    <3> QED BY <1>1, <2>5, <3>1, <3>2 DEF RunIsDone
  <2> HIDE DEF good
  <2>6. /\ attempt' \in [Proc -> Attempt]
        /\ attempt'[p] = [attempt[p] EXCEPT !.pc = "save", !.answer = good]
        /\ \A q \in Proc \ {p} : attempt'[q] = attempt[q]
    BY <1>1, <2>1, <2>2, ConcludeEffect
  <2>7. /\ attempt'[p].pc = "save" /\ attempt'[p].answer = good
        /\ attempt'[p].request = attempt[p].request /\ attempt'[p].snapshot = attempt[p].snapshot
        /\ attempt'[p].seen = attempt[p].seen
    BY <1>1, <2>6 DEF Attempt
  <2>8. UNCHANGED <<inputs, journal, published, cache, spent>>
    BY DEF VerifyUnchanged
  <2>9. TypeOK'
    BY <1>1, <2>6, <2>8 DEF TypeOK
  <2>10. OwnStands(p)'
    <3>1. ChainsAreValid'
      BY <2>8 DEF ProcessingInv, ChainsAreValid, RunIds
    <3>2. HasRequest(p)' /\ RunIsAtPc(p)' /\ RunIsDone(p)' /\ InputsGrow(p)'
      BY <1>1, <2>7, <2>8 DEF HasRequest, RunIsAtPc, RunIsDone, InputsGrow, Grown, Working
    <3>3. AnswerStands(p)'
      BY <2>3, <2>5, <2>7, <2>8 DEF AnswerStands, ModeOf, BoundaryOf, RunIds
    <3>4. Settled(attempt[p].answer)'
      <4> SUFFICES ASSUME r # None
                   PROVE  /\ r \in RunIds
                          /\ \A q \in Proc \ {p} : attempt[q].pc \in Working => attempt[q].run # r
        BY <2>3, <2>6, <2>7, <2>8 DEF Settled, RunIds, Working
      <4>1. r \in RunIds
        BY <1>1 DEF RunIsDone
      <4> QED BY <1>1, <4>1 DEF ProcessingInv, RunsApart
    <3> QED BY <3>1, <3>2, <3>3, <3>4 DEF OwnStands, AttemptStands
  <2>11. Moves(p)
    BY <1>1, <2>6, <2>7, <2>8, LenProperties DEF Moves, Working, RunIds, TypeOK
  <2> QED BY <2>9, <2>10, <2>11, MovesKeep
<1> QED BY <1>2, <1>3

\* The answer goes to the cache as it was concluded.
LEMMA SaveCacheKeeps ==
  ASSUME ProcessingInv, NEW p \in Proc, SaveCache(p)
  PROVE  ProcessingInv'
<1>1. /\ attempt[p].pc = "save" /\ AttemptStands(p) /\ HasRequest(p) /\ TypeOK /\ attempt[p] \in Attempt
      /\ Settled(attempt[p].answer)
  BY DEF SaveCache, At, ProcessingInv, AttemptStands, TypeOK
<1>2. /\ attempt' \in [Proc -> Attempt] /\ attempt'[p] = [attempt[p] EXCEPT !.pc = "idle"]
      /\ \A q \in Proc \ {p} : attempt'[q] = attempt[q]
  BY <1>1, GotoEffect DEF SaveCache, Control
<1>3. /\ attempt'[p].pc = "idle" /\ attempt'[p].answer = attempt[p].answer
      /\ attempt'[p].request = attempt[p].request /\ attempt'[p].snapshot = attempt[p].snapshot
      /\ attempt'[p].seen = attempt[p].seen
  BY <1>1, <1>2 DEF Attempt
<1>4. UNCHANGED <<inputs, journal, published, spent>>
  BY DEF SaveCache
<1>5. Identified(p) \in Identity /\ attempt[p].answer \in Answer \cup {None}
  BY <1>1 DEF HasRequest, Identified, Identity, Requests, ModeOf, Strict, Attempt
<1>6. /\ cache' \in [Identity -> Answer \cup {None}]
      /\ \A i \in Identity : cache'[i] = cache[i] \/ cache'[i] = attempt[p].answer
  BY <1>1, <1>5 DEF SaveCache, TypeOK
<1>7. TypeOK'
  BY <1>1, <1>2, <1>4, <1>6 DEF TypeOK
<1>8. OwnStands(p)'
  <2>1. ChainsAreValid'
    BY <1>4 DEF ProcessingInv, ChainsAreValid, RunIds
  <2>2. HasRequest(p)' /\ RunIsAtPc(p)' /\ RunIsDone(p)'
    BY <1>3 DEF HasRequest, RunIsAtPc, RunIsDone, Working
  <2>3. InputsGrow(p)'
    BY <1>1, <1>3, <1>4 DEF AttemptStands, InputsGrow, Grown
  <2>4. AnswerStands(p)'
    BY <1>1, <1>3, <1>4 DEF AttemptStands, AnswerStands, ModeOf, BoundaryOf, RunIds
  <2>5. Settled(attempt[p].answer)'
    <3>1. \A q \in Proc : attempt'[q].pc \in Working =>
            attempt[q].pc \in Working /\ attempt'[q].run = attempt[q].run
      BY <1>2, <1>3 DEF Working
    <3> QED BY <1>1, <1>3, <1>4, <3>1 DEF Settled, RunIds
  <2> QED BY <2>1, <2>2, <2>3, <2>4, <2>5 DEF OwnStands, AttemptStands
<1>9. Moves(p)
  BY <1>2, <1>3, <1>4, <1>6, LenProperties DEF Moves, Working, RunIds, TypeOK, ProcessingInv
<1> QED BY <1>7, <1>8, <1>9, MovesKeep

\* What is read of the inputs is no older than the snapshot.
LEMMA InspectKeeps ==
  ASSUME ProcessingInv, NEW p \in Proc, Inspect(p)
  PROVE  ProcessingInv'
<1> DEFINE l == IF ModeOf(p) = "inspect" THEN "unchanged" ELSE "begin"
           e == [attempt[p] EXCEPT !.seen = inputs, !.pc = l]
<1>1. attempt[p].pc = "inspect" /\ AttemptStands(p) /\ TypeOK /\ attempt[p] \in Attempt /\ inputs \in Inputs
  BY DEF Inspect, At, ProcessingInv, TypeOK
<1>2. /\ e \in Attempt /\ e.pc = l /\ e.seen = inputs /\ e.snapshot = attempt[p].snapshot
      /\ e.request = attempt[p].request /\ e.run = attempt[p].run /\ e.answer = attempt[p].answer
  BY <1>1 DEF Attempt, Control
<1>3. attempt' = [attempt EXCEPT ![p] = e]
  BY <1>1 DEF Inspect, TypeOK
<1> HIDE DEF e
<1>4. attempt' \in [Proc -> Attempt] /\ attempt'[p] = e /\ \A q \in Proc \ {p} : attempt'[q] = attempt[q]
  BY <1>1, <1>2, <1>3 DEF TypeOK
<1>5. UNCHANGED <<inputs, journal, published, cache, spent>>
  BY DEF Inspect
<1>6. TypeOK'
  BY <1>1, <1>4, <1>5 DEF TypeOK
<1>7. attempt[p].run = None /\ attempt[p].answer = None
  BY <1>1 DEF AttemptStands, HasRequest, AnswerStands
<1>8. OwnStands(p)'
  <2>1. ChainsAreValid'
    BY <1>5 DEF ProcessingInv, ChainsAreValid, RunIds
  <2>2. HasRequest(p)'
    BY <1>1, <1>2, <1>4 DEF AttemptStands, HasRequest, ModeOf
  <2>3. RunIsAtPc(p)' /\ RunIsDone(p)'
    BY <1>2, <1>4, <1>7 DEF RunIsAtPc, RunIsDone, ModeOf, Working
  <2>4. InputsGrow(p)'
    <3>1. attempt[p].snapshot \in Inputs /\ attempt[p].seen \in Inputs
      BY <1>1 DEF Attempt
    <3>2. /\ {attempt[p].snapshot.source, attempt[p].seen.source, inputs.source} \subseteq Nat
          /\ {attempt[p].snapshot.target, attempt[p].seen.target, inputs.target} \subseteq Nat
      BY <1>1, <3>1 DEF Inputs, Version
    <3>3. Grown(attempt[p].snapshot, attempt[p].seen) /\ Grown(attempt[p].seen, inputs)
      BY <1>1 DEF AttemptStands, InputsGrow
    <3>4. Grown(attempt[p].snapshot, inputs) /\ Grown(inputs, inputs)
      BY <3>2, <3>3 DEF Grown
    <3> QED BY <1>2, <1>4, <1>5, <3>4 DEF InputsGrow
  <2>5. AnswerStands(p)' /\ Settled(attempt[p].answer)'
    BY <1>2, <1>4, <1>7 DEF AnswerStands, Settled
  <2> QED BY <2>1, <2>2, <2>3, <2>4, <2>5 DEF OwnStands, AttemptStands
<1>9. Moves(p)
  BY <1>2, <1>4, <1>5, <1>7, LenProperties DEF Moves, Working, RunIds, TypeOK, ProcessingInv
<1> QED BY <1>6, <1>8, <1>9, MovesKeep

\* A step that only changes the attempt p, which does not work on a run after it.
LEMMA QuietStep ==
  ASSUME ProcessingInv, NEW p \in Proc, NEW e \in Attempt, attempt' = [attempt EXCEPT ![p] = e],
         e.pc \notin Working \cup {"unchanged"},
         UNCHANGED <<inputs, journal, published, cache>>,
         spent' \in Spent, spent'.rollbacks = spent.rollbacks,
         AttemptStands(p)', Settled(attempt[p].answer)'
  PROVE  ProcessingInv'
<1>1. /\ attempt' \in [Proc -> Attempt] /\ attempt'[p] = e
      /\ \A q \in Proc \ {p} : attempt'[q] = attempt[q]
  BY DEF ProcessingInv, TypeOK
<1>2. TypeOK'
  BY <1>1 DEF ProcessingInv, TypeOK
<1>3. ChainsAreValid'
  BY DEF ProcessingInv, ChainsAreValid, RunIds
<1>4. Moves(p)
  BY <1>1, LenProperties DEF Moves, RunIds, TypeOK, ProcessingInv
<1> QED BY <1>2, <1>3, <1>4, MovesKeep DEF OwnStands

\* Whatever is counted stays within its bound.
LEMMA SpentTyped ==
  ASSUME NEW s \in Spent
  PROVE  /\ s.edits < MaxEdits => [s EXCEPT !.edits = @ + 1] \in Spent
         /\ s.starts < MaxStarts => [s EXCEPT !.starts = @ + 1] \in Spent
         /\ s.faults < MaxFaults => [s EXCEPT !.faults = @ + 1] \in Spent
         /\ s.crashes < MaxCrashes => [s EXCEPT !.crashes = @ + 1] \in Spent
         /\ s.rollbacks < MaxRollbacks => [s EXCEPT !.rollbacks = @ + 1] \in Spent
<1>1. /\ MaxEdits \in Nat /\ MaxStarts \in Nat /\ MaxFaults \in Nat
      /\ MaxCrashes \in Nat /\ MaxRollbacks \in Nat
  OBVIOUS
<1>2. ASSUME NEW max \in Nat, NEW n \in 0..max, n < max
      PROVE  n + 1 \in 0..max
  BY <1>2
<1> QED BY <1>1, <1>2 DEF Spent

\* A crash forgets the answer and leaves what was written.
LEMMA CrashKeeps ==
  ASSUME ProcessingInv, NEW p \in Proc, Crash(p)
  PROVE  ProcessingInv'
<1> DEFINE e == [attempt[p] EXCEPT !.pc = "idle", !.answer = None]
<1>1. attempt[p] \in Attempt /\ AttemptStands(p) /\ TypeOK
  BY DEF ProcessingInv, TypeOK
<1>2. /\ e \in Attempt /\ e.pc = "idle" /\ e.answer = None /\ e.snapshot = attempt[p].snapshot
      /\ e.seen = attempt[p].seen
  BY <1>1 DEF Attempt, Control
<1>3. attempt' = [attempt EXCEPT ![p] = e]
  BY <1>1 DEF Crash, TypeOK
<1> HIDE DEF e
<1>4. attempt'[p] = e
  BY <1>1, <1>3 DEF TypeOK
<1>5. /\ UNCHANGED <<inputs, journal, published, cache>>
      /\ spent' \in Spent /\ spent'.rollbacks = spent.rollbacks
  <2>1. spent \in Spent
    BY <1>1 DEF TypeOK
  <2>2. spent' = [spent EXCEPT !.crashes = @ + 1] /\ spent' \in Spent
    BY <2>1, SpentTyped DEF Crash
  <2> QED BY <2>1, <2>2 DEF Crash, Spent
<1>6. AttemptStands(p)' /\ Settled(attempt[p].answer)'
  <2>1. HasRequest(p)' /\ RunIsAtPc(p)' /\ RunIsDone(p)'
    BY <1>2, <1>4 DEF HasRequest, RunIsAtPc, RunIsDone, Working
  <2>2. InputsGrow(p)'
    BY <1>1, <1>2, <1>4, <1>5 DEF AttemptStands, InputsGrow, Grown
  <2>3. AnswerStands(p)' /\ Settled(attempt[p].answer)'
    BY <1>2, <1>4 DEF AnswerStands, Settled
  <2> QED BY <2>1, <2>2, <2>3 DEF AttemptStands
<1> QED BY <1>2, <1>3, <1>5, <1>6, QuietStep DEF Working

\* A new attempt reads the inputs as they are.
LEMMA StartKeeps ==
  ASSUME ProcessingInv, NEW p \in Proc, NEW request \in Request, Start(p, request)
  PROVE  ProcessingInv'
<1> DEFINE e == [pc |-> "cache", request |-> request, snapshot |-> inputs, seen |-> inputs,
                 run |-> None, answer |-> None]
<1>1. TypeOK /\ inputs \in Inputs
  BY DEF ProcessingInv, TypeOK
<1>2. /\ e \in Attempt /\ e.pc = "cache" /\ e.request = request /\ e.snapshot = inputs
      /\ e.seen = inputs /\ e.run = None /\ e.answer = None
  BY <1>1 DEF Attempt, Control
<1>3. attempt' = [attempt EXCEPT ![p] = e]
  BY DEF Start
<1> HIDE DEF e
<1>4. attempt'[p] = e
  BY <1>1, <1>3 DEF TypeOK
<1>5. /\ UNCHANGED <<inputs, journal, published, cache>>
      /\ spent' \in Spent /\ spent'.rollbacks = spent.rollbacks
  <2>1. spent \in Spent
    BY <1>1 DEF TypeOK
  <2>2. spent' = [spent EXCEPT !.starts = @ + 1] /\ spent' \in Spent
    BY <2>1, SpentTyped DEF Start
  <2> QED BY <2>1, <2>2 DEF Start, Spent
<1>6. AttemptStands(p)' /\ Settled(attempt[p].answer)'
  <2>1. HasRequest(p)' /\ RunIsAtPc(p)' /\ RunIsDone(p)'
    BY <1>2, <1>4 DEF HasRequest, RunIsAtPc, RunIsDone, Working
  <2>2. InputsGrow(p)'
    BY <1>1, <1>2, <1>4, <1>5 DEF InputsGrow, Grown, Inputs, Version
  <2>3. AnswerStands(p)' /\ Settled(attempt[p].answer)'
    BY <1>2, <1>4 DEF AnswerStands, Settled
  <2> QED BY <2>1, <2>2, <2>3 DEF AttemptStands
<1> QED BY <1>2, <1>3, <1>5, <1>6, QuietStep DEF Working

LEMMA FaultKeeps ==
  ASSUME ProcessingInv, NEW p \in Proc, Fault(p)
  PROVE  ProcessingInv'
<1>1. spent' \in Spent /\ spent'.rollbacks = spent.rollbacks
  <2>1. spent \in Spent
    BY DEF ProcessingInv, TypeOK
  <2>2. spent' = [spent EXCEPT !.faults = @ + 1] /\ spent' \in Spent
    BY <2>1, SpentTyped DEF Fault
  <2> QED BY <2>1, <2>2 DEF Spent
<1>2. /\ Raise(p) /\ attempt[p].pc # "idle" /\ UNCHANGED <<inputs, journal, cache>>
      /\ UNCHANGED published \/ (attempt[p].pc = "check" /\ RemoveOwned(p))
  BY DEF Fault, At
<1> QED BY <1>1, <1>2, RaiseKeeps

\* What the cache answers is an answer about these inputs, at the place where the
\* journal still is.
LEMMA ReadCacheKeeps ==
  ASSUME ProcessingInv, NEW p \in Proc, ReadCache(p)
  PROVE  ProcessingInv'
<1> DEFINE entry == cache[Identified(p)]
<1>1. /\ attempt[p].pc = "cache" /\ attempt[p] \in Attempt /\ AttemptStands(p) /\ TypeOK
      /\ attempt[p].request \in Request /\ attempt[p].run = None /\ attempt[p].answer = None
  BY DEF ReadCache, At, ProcessingInv, TypeOK, AttemptStands, HasRequest, AnswerStands
<1>2. UNCHANGED <<inputs, journal, published, cache, spent>> /\ spent \in Spent
  BY <1>1 DEF ReadCache, TypeOK
<1>3. CASE Goto(p, "inspect")
  <2> DEFINE e == [attempt[p] EXCEPT !.pc = "inspect"]
  <2>1. /\ e \in Attempt /\ e.pc = "inspect" /\ e.request = attempt[p].request
        /\ e.snapshot = attempt[p].snapshot /\ e.seen = attempt[p].seen
        /\ e.run = None /\ e.answer = None
    BY <1>1 DEF Attempt, Control
  <2>2. attempt' = [attempt EXCEPT ![p] = e]
    BY <1>1, <1>3 DEF Goto, TypeOK
  <2> HIDE DEF e
  <2>3. attempt'[p] = e
    BY <1>1, <2>2 DEF TypeOK
  <2>4. AttemptStands(p)' /\ Settled(attempt[p].answer)'
    BY <1>1, <1>2, <2>1, <2>3
       DEF AttemptStands, HasRequest, RunIsAtPc, RunIsDone, InputsGrow, Grown, AnswerStands, Settled, Working
  <2> QED BY <1>2, <2>1, <2>2, <2>4, QuietStep DEF Working
<1>4. ASSUME NEW a \in Answer, attempt' = [attempt EXCEPT ![p].pc = "idle", ![p].answer = a],
             Settled(a), a.resumed \/ a.state \notin Succeeded,
             a.resumed => /\ a.inputs = attempt[p].snapshot
                          /\ a.run # None => BoundaryOf(a.run) = a.boundary
      PROVE  ProcessingInv'
  <2> DEFINE e == [attempt[p] EXCEPT !.pc = "idle", !.answer = a]
  <2>1. /\ e \in Attempt /\ e.pc = "idle" /\ e.request = attempt[p].request
        /\ e.snapshot = attempt[p].snapshot /\ e.seen = attempt[p].seen
        /\ e.run = None /\ e.answer = a
    BY <1>1 DEF Attempt, Control
  <2>2. attempt' = [attempt EXCEPT ![p] = e]
    BY <1>1, <1>4 DEF TypeOK
  <2> HIDE DEF e
  <2>3. attempt'[p] = e /\ \A q \in Proc \ {p} : attempt'[q] = attempt[q]
    BY <1>1, <2>2 DEF TypeOK
  <2>4. HasRequest(p)' /\ RunIsAtPc(p)' /\ RunIsDone(p)' /\ InputsGrow(p)'
    BY <1>1, <1>2, <2>1, <2>3
       DEF AttemptStands, HasRequest, RunIsAtPc, RunIsDone, InputsGrow, Grown, Working
  <2>5. AnswerStands(p)'
    BY <1>2, <1>4, <2>1, <2>3 DEF AnswerStands, ModeOf, BoundaryOf, RunIds
  <2>6. Settled(attempt[p].answer)'
    <3>1. \A q \in Proc : attempt'[q].pc \in Working =>
            attempt[q].pc \in Working /\ attempt'[q].run = attempt[q].run
      BY <2>1, <2>3 DEF Working
    <3> QED BY <1>2, <1>4, <2>1, <2>3, <3>1 DEF Settled, RunIds
  <2> QED BY <1>2, <2>1, <2>2, <2>4, <2>5, <2>6, QuietStep DEF Working, AttemptStands
<1>5. CASE attempt' = [attempt EXCEPT ![p].pc = "idle", ![p].answer = Failed(p)]
  BY <1>4, <1>5, FailedTyped DEF ProcessingInv, Settled
<1>6. CASE /\ Resumable(p, entry)
           /\ attempt' = [attempt EXCEPT ![p].pc = "idle", ![p].answer = [entry EXCEPT !.resumed = TRUE]]
  <2> DEFINE a == [entry EXCEPT !.resumed = TRUE]
  <2>1. Identified(p) \in Identity
    BY <1>1 DEF Identified, Identity, Requests, ModeOf, Strict
  <2>2. entry \in Answer /\ Settled(entry)
    BY <1>1, <1>6, <2>1 DEF Resumable, TypeOK, ProcessingInv
  <2>3. /\ a \in Answer /\ a.run = entry.run /\ a.inputs = entry.inputs /\ a.boundary = entry.boundary
        /\ a.resumed
    BY <2>2 DEF Answer
  <2>4. attempt' = [attempt EXCEPT ![p].pc = "idle", ![p].answer = a]
    BY <1>6
  <2> HIDE DEF a
  <2>5. Settled(a)
    BY <2>2, <2>3, NotNone DEF Settled
  <2> QED BY <1>4, <1>6, <2>3, <2>4, <2>5 DEF Resumable
<1> QED BY <1>3, <1>5, <1>6 DEF ReadCache

\* A new run is one more in the journal, and nobody else's.
LEMMA BeginRunKeeps ==
  ASSUME ProcessingInv, NEW p \in Proc, BeginRun(p)
  PROVE  ProcessingInv'
<1> DEFINE n == Len(journal) + 1
           new == [inputs |-> attempt[p].snapshot, mode |-> ModeOf(p), strict |-> Strict(p),
                   chain |-> <<>>, exported |-> FALSE, crossStore |-> None]
           e == [attempt[p] EXCEPT !.run = n, !.pc = "pending"]
<1>1. /\ attempt[p].pc = "begin" /\ attempt[p] \in Attempt /\ AttemptStands(p) /\ TypeOK
      /\ attempt[p].request \in Request /\ attempt[p].answer = None /\ ModeOf(p) # "inspect"
  BY DEF BeginRun, At, ProcessingInv, TypeOK, AttemptStands, HasRequest, AnswerStands
<1>2. new \in Run
  BY <1>1, EmptySeq DEF Run, Attempt, Requests, ModeOf, Strict
<1>3. /\ new.mode = ModeOf(p) /\ new.strict = Strict(p) /\ new.chain = <<>> /\ new.crossStore = None
  OBVIOUS
<1>4. journal' = Append(journal, new)
  BY DEF BeginRun
<1>5. journal \in Seq(Run) /\ Len(journal) \in Nat /\ n \in Nat
  BY <1>1, LenProperties DEF TypeOK
<1> HIDE DEF new
<1>6. /\ journal' \in Seq(Run) /\ Len(journal') = n
      /\ \A x \in 1..Len(journal) : journal'[x] = journal[x]
      /\ journal'[n] = new
  BY <1>2, <1>4, <1>5, AppendProperties
<1>7. RunIds' = RunIds \cup {n} /\ n \notin RunIds
  BY <1>5, <1>6 DEF RunIds
<1>8. /\ e \in Attempt /\ e.pc = "pending" /\ e.run = n /\ e.request = attempt[p].request
      /\ e.snapshot = attempt[p].snapshot /\ e.seen = attempt[p].seen /\ e.answer = None
  BY <1>1, <1>5 DEF Attempt, Control
<1>9. attempt' = [attempt EXCEPT ![p] = e]
  BY <1>1 DEF BeginRun, TypeOK
<1> HIDE DEF e
<1>10. attempt' \in [Proc -> Attempt] /\ attempt'[p] = e /\ \A q \in Proc \ {p} : attempt'[q] = attempt[q]
  BY <1>1, <1>8, <1>9 DEF TypeOK
<1>11. UNCHANGED <<inputs, published, cache, spent>>
  BY DEF BeginRun
<1>12. TypeOK'
  BY <1>1, <1>6, <1>10, <1>11 DEF TypeOK
<1>13. Moves(p)
  <2>1. \A r \in RunIds' \ RunIds : journal'[r].chain = <<>>
    BY <1>3, <1>6, <1>7
  <2>2. \A r \in RunIds : journal'[r] = journal[r]
    BY <1>6 DEF RunIds
  <2>3. Len(journal) <= Len(journal')
    BY <1>5, <1>6
  <2> QED BY <1>8, <1>10, <1>11, <2>1, <2>2, <2>3 DEF Moves, Working
<1>14. OwnStands(p)'
  <2>1. ChainsAreValid'
    <3> SUFFICES ASSUME NEW r \in RunIds'
                 PROVE  \A i \in 1..Len(journal'[r].chain) :
                          ValidTransition(IF i = 1 THEN None ELSE journal'[r].chain[i - 1], journal'[r].chain[i])
      BY DEF ChainsAreValid
    <3>1. CASE r = n
      BY <1>3, <1>6, <3>1, EmptySeq
    <3>2. CASE r \in RunIds
      BY <1>6, <3>2 DEF ProcessingInv, ChainsAreValid, RunIds
    <3> QED BY <1>7, <3>1, <3>2
  <2>2. HasRequest(p)' /\ RunIsDone(p)'
    BY <1>1, <1>8, <1>10 DEF HasRequest, RunIsDone
  <2>3. RunIsAtPc(p)'
    <3>1. Last(journal'[n].chain) = None
      BY <1>3, <1>6 DEF Last
    <3> QED BY <1>1, <1>3, <1>6, <1>7, <1>8, <1>10, <3>1 DEF RunIsAtPc, Stands, ModeOf, Strict, BoundaryOf
  <2>4. InputsGrow(p)'
    BY <1>1, <1>8, <1>10, <1>11 DEF AttemptStands, InputsGrow, Grown
  <2>5. AnswerStands(p)' /\ Settled(attempt[p].answer)'
    BY <1>8, <1>10 DEF AnswerStands, Settled
  <2> QED BY <2>1, <2>2, <2>3, <2>4, <2>5 DEF OwnStands, AttemptStands
<1> QED BY <1>12, <1>13, <1>14, MovesKeep

\* An edited input only gets a higher version.
LEMMA EditInputKeeps ==
  ASSUME ProcessingInv, NEW file \in {"source", "target"}, EditInput(file)
  PROVE  ProcessingInv'
<1>1. PICK v \in Version : v > inputs[file] /\ inputs' = [inputs EXCEPT ![file] = v]
  BY DEF EditInput
<1>2. TypeOK /\ inputs \in Inputs /\ inputs.source \in Nat /\ inputs.target \in Nat /\ v \in Nat
  BY DEF ProcessingInv, TypeOK, Inputs, Version
<1>3. inputs' \in Inputs /\ inputs'.source \in Nat /\ inputs'.target \in Nat /\ Grown(inputs, inputs')
  <2>1. CASE file = "source"
    BY <1>1, <1>2, <2>1 DEF Inputs, Grown
  <2>2. CASE file = "target"
    BY <1>1, <1>2, <2>2 DEF Inputs, Grown
  <2> QED BY <2>1, <2>2
<1>4. UNCHANGED <<journal, published, cache, attempt>> /\ spent' \in Spent /\ spent'.rollbacks = spent.rollbacks
  <2>1. spent \in Spent
    BY <1>2 DEF TypeOK
  <2>2. spent' = [spent EXCEPT !.edits = @ + 1] /\ spent' \in Spent
    BY <2>1, SpentTyped DEF EditInput
  <2> QED BY <2>1, <2>2 DEF EditInput, Spent
<1>5. TypeOK'
  BY <1>2, <1>3, <1>4 DEF TypeOK
<1>6. ASSUME NEW p \in Proc
      PROVE  AttemptStands(p)'
  <2> USE DEF ModeOf, Strict, OutputOf, FileOf, BoundaryOf, VerdictOf, DecisionOf, MayWrite, RunIds
  <2>1. AttemptStands(p) /\ attempt[p] \in Attempt
    BY DEF ProcessingInv, TypeOK
  <2>2. HasRequest(p)' /\ RunIsDone(p)' /\ AnswerStands(p)'
    BY <1>4, <2>1 DEF AttemptStands, HasRequest, RunIsDone, AnswerStands
  <2>3. RunIsAtPc(p)'
    BY <1>4, <2>1 DEF AttemptStands, RunIsAtPc, Stands
  <2>4. InputsGrow(p)'
    <3>1. attempt[p].seen.source \in Nat /\ attempt[p].seen.target \in Nat
      BY <2>1 DEF Attempt, Inputs, Version
    <3>2. Grown(attempt[p].seen, inputs')
      BY <1>2, <1>3, <2>1, <3>1 DEF AttemptStands, InputsGrow, Grown
    <3> QED BY <1>4, <2>1, <3>2 DEF AttemptStands, InputsGrow
  <2> QED BY <2>2, <2>3, <2>4 DEF AttemptStands
<1>7. /\ \A p \in Proc : Settled(attempt[p].answer)'
      /\ \A i \in Identity : Settled(cache[i])'
  BY <1>4 DEF ProcessingInv, Settled, RunIds
<1>8. ChainsAreValid' /\ RunsApart' /\ FilesHaveRuns'
  BY <1>4 DEF ProcessingInv, ChainsAreValid, RunsApart, FilesHaveRuns, RunIds
<1>9. VerifiedIsPublished' /\ PublishedWasAllowed'
  BY <1>4 DEF ProcessingInv, VerifiedIsPublished, PublishedWasAllowed, BoundaryOf, RunIds
<1> QED BY <1>5, <1>6, <1>7, <1>8, <1>9 DEF ProcessingInv

\* An older copy of the journal has the start of a run's chain.
LEMMA RollBackKeeps ==
  ASSUME ProcessingInv, NEW r \in RunIds, RollBack(r)
  PROVE  ProcessingInv'
<1>1. PICK n \in 0..(Len(journal[r].chain) - 1) :
        journal' = [journal EXCEPT ![r].chain = SubSeq(@, 1, n), ![r].crossStore = None]
  BY DEF RollBack
<1> DEFINE c == SubSeq(journal[r].chain, 1, n)
           e == [journal[r] EXCEPT !.chain = c, !.crossStore = None]
<1>2. journal \in Seq(Run) /\ r \in 1..Len(journal) /\ TypeOK
  BY DEF ProcessingInv, TypeOK, RunIds
<1>3. journal[r] \in Run /\ journal[r].chain \in Seq(Boundary) /\ Len(journal[r].chain) \in Nat
  <2>1. journal[r] \in Run
    BY <1>2, ElementOfSeq
  <2>2. journal[r].chain \in Seq(Boundary)
    BY <2>1 DEF Run
  <2> QED BY <2>1, <2>2, LenProperties
<1>4. n \in Nat /\ n < Len(journal[r].chain)
  BY <1>3
<1>5. /\ c \in Seq(Boundary) /\ Len(c) = n
      /\ \A i \in 1..n : c[i] = journal[r].chain[i]
  <2>1. 1 \in 1..(Len(journal[r].chain) + 1) /\ n \in 0..Len(journal[r].chain)
    BY <1>3, <1>4
  <2> QED BY <1>3, <1>4, <2>1, SubSeqProperties
<1> HIDE DEF c
<1>6. /\ e \in Run /\ e.mode = journal[r].mode /\ e.strict = journal[r].strict
      /\ e.chain = c /\ e.crossStore = None
  BY <1>3, <1>5 DEF Run
<1>7. journal' = [journal EXCEPT ![r] = e]
  BY <1>1, <1>2 DEF c
<1> HIDE DEF e
<1>8. /\ journal' \in Seq(Run) /\ Len(journal') = Len(journal)
      /\ \A x \in 1..Len(journal) : journal'[x] = IF x = r THEN e ELSE journal[x]
  BY <1>2, <1>6, <1>7, ExceptSeq
<1>9. /\ UNCHANGED <<inputs, published, cache, attempt>> /\ spent' \in Spent /\ spent'.rollbacks # 0
      /\ \A p \in Proc : attempt[p].pc = "idle"
  <2>1. spent \in Spent
    BY <1>2 DEF TypeOK
  <2>2. spent' = [spent EXCEPT !.rollbacks = @ + 1] /\ spent' \in Spent
    BY <2>1, SpentTyped DEF RollBack
  <2>3. spent'.rollbacks = spent.rollbacks + 1 /\ spent.rollbacks \in Nat
    BY <2>1, <2>2 DEF Spent
  <2> QED BY <2>2, <2>3 DEF RollBack, At
<1>10. TypeOK'
  BY <1>2, <1>8, <1>9 DEF TypeOK
<1>11. RunIds' = RunIds /\ \A x \in RunIds : journal'[x].mode = journal[x].mode /\ journal'[x].strict = journal[x].strict
  BY <1>6, <1>8 DEF RunIds
<1>12. ChainsAreValid'
  <2> SUFFICES ASSUME NEW x \in RunIds, NEW i \in 1..Len(journal'[x].chain)
               PROVE  ValidTransition(IF i = 1 THEN None ELSE journal'[x].chain[i - 1], journal'[x].chain[i])
    BY <1>11 DEF ChainsAreValid
  <2>1. CASE x # r
    BY <1>8, <2>1 DEF ProcessingInv, ChainsAreValid, RunIds
  <2>2. CASE x = r
    <3>1. journal'[x].chain = c /\ i \in 1..n /\ i \in 1..Len(journal[r].chain)
      BY <1>2, <1>3, <1>4, <1>5, <1>6, <1>8, <2>2
    <3>2. c[i] = journal[r].chain[i] /\ (i # 1 => c[i - 1] = journal[r].chain[i - 1])
      BY <1>4, <1>5, <3>1
    <3>3. ValidTransition(IF i = 1 THEN None ELSE journal[r].chain[i - 1], journal[r].chain[i])
      BY <3>1 DEF ProcessingInv, ChainsAreValid
    <3>4. i = 1 \/ i # 1
      OBVIOUS
    <3> QED BY <3>1, <3>2, <3>3, <3>4
  <2> QED BY <2>1, <2>2
<1>13. ASSUME NEW p \in Proc
       PROVE  AttemptStands(p)' /\ Settled(attempt[p].answer)'
  <2>1. AttemptStands(p) /\ Settled(attempt[p].answer)
    BY DEF ProcessingInv
  <2>2. HasRequest(p)' /\ RunIsAtPc(p)' /\ RunIsDone(p)'
    BY <1>9 DEF HasRequest, RunIsAtPc, RunIsDone, Working
  <2>3. InputsGrow(p)'
    BY <1>9, <2>1 DEF AttemptStands, InputsGrow, Grown
  <2>4. AnswerStands(p)' /\ Settled(attempt[p].answer)'
    BY <1>9, <1>11, <2>1 DEF AttemptStands, AnswerStands, Settled
  <2> QED BY <2>2, <2>3, <2>4 DEF AttemptStands
<1>14. \A i \in Identity : Settled(cache[i])'
  BY <1>9, <1>11 DEF ProcessingInv, Settled
<1>15. RunsApart' /\ FilesHaveRuns' /\ PublishedWasAllowed'
  <2>1. RunsApart'
    BY <1>9 DEF RunsApart, Working
  <2>2. FilesHaveRuns'
    BY <1>9, <1>11 DEF ProcessingInv, FilesHaveRuns
  <2>3. PublishedWasAllowed'
    BY <1>9, <1>11 DEF ProcessingInv, PublishedWasAllowed, FilesHaveRuns
  <2> QED BY <2>1, <2>2, <2>3
<1>16. VerifiedIsPublished'
  <2> SUFFICES ASSUME NEW x \in RunIds, Last(journal'[x].chain) = "EXPORT_VERIFIED", journal'[x].mode = "write"
               PROVE  \E o \in Output : published[o] # None /\ published[o].run = x
    BY <1>9, <1>11 DEF VerifiedIsPublished, BoundaryOf
  <2>1. x # r
    <3> SUFFICES ASSUME x = r
                 PROVE  FALSE
      OBVIOUS
    <3>1. Last(c) = "EXPORT_VERIFIED"
      BY <1>2, <1>6, <1>8
    <3>2. n \in 1..n /\ n # 0 /\ c[n] = "EXPORT_VERIFIED"
      BY <1>4, <1>5, <3>1, EmptySeq DEF Last, Boundary
    <3>3. journal[r].chain[n] = "EXPORT_VERIFIED" /\ n + 1 \in 1..Len(journal[r].chain)
      BY <1>3, <1>4, <1>5, <3>2
    <3>4. ValidTransition(IF n + 1 = 1 THEN None ELSE journal[r].chain[(n + 1) - 1], journal[r].chain[n + 1])
      BY <3>3 DEF ProcessingInv, ChainsAreValid
    <3>5. n \in Nat /\ n + 1 # 1 /\ (n + 1) - 1 = n
      BY <1>4, <3>2
    <3>6. ValidTransition(journal[r].chain[n], journal[r].chain[n + 1])
      BY <3>4, <3>5, Zenon
    <3>7. ValidTransition("EXPORT_VERIFIED", journal[r].chain[n + 1])
      BY <3>3, <3>6, Zenon
    <3> QED BY <3>7 DEF ValidTransition, Boundary
  <2> QED BY <1>8, <2>1 DEF ProcessingInv, VerifiedIsPublished, BoundaryOf, RunIds
<1> QED BY <1>10, <1>12, <1>13, <1>14, <1>15, <1>16 DEF ProcessingInv

LEMMA InitStands == Init => ProcessingInv
<1> SUFFICES ASSUME Init
             PROVE  ProcessingInv
  OBVIOUS
<1>1. journal = <<>> /\ Len(journal) = 0 /\ RunIds = {} /\ journal \in Seq(Run)
  BY EmptySeq DEF Init, RunIds
<1>2. inputs \in Inputs /\ inputs.source = 0 /\ inputs.target = 0
  BY DEF Init, Inputs, Version
<1>3. \A p \in Proc : /\ attempt[p] \in Attempt /\ attempt[p].pc = "idle" /\ attempt[p].answer = None
                      /\ attempt[p].snapshot = inputs /\ attempt[p].seen = inputs
  BY <1>2 DEF Init, Attempt, Control
<1>4. TypeOK
  BY <1>1, <1>2, <1>3 DEF Init, TypeOK, Spent
<1>5. \A p \in Proc : AttemptStands(p) /\ Settled(attempt[p].answer)
  BY <1>2, <1>3 DEF AttemptStands, HasRequest, RunIsAtPc, RunIsDone, InputsGrow, Grown, AnswerStands, Settled, Working
<1>6. \A i \in Identity : Settled(cache[i])
  BY DEF Init, Settled
<1>7. ChainsAreValid /\ RunsApart /\ FilesHaveRuns /\ VerifiedIsPublished /\ PublishedWasAllowed
  BY <1>1, <1>3 DEF Init, ChainsAreValid, RunsApart, FilesHaveRuns, VerifiedIsPublished, PublishedWasAllowed, Working
<1> QED BY <1>4, <1>5, <1>6, <1>7 DEF ProcessingInv

LEMMA NextStands == ProcessingInv /\ [Next]_vars => ProcessingInv'
<1> SUFFICES ASSUME ProcessingInv, [Next]_vars
             PROVE  ProcessingInv'
  OBVIOUS
<1>1. ASSUME NEW p \in Proc, Step(p)
      PROVE  ProcessingInv'
  BY <1>1, ReadCacheKeeps, InspectKeeps, BeginRunKeeps, AppendPendingKeeps, AppendDataKeeps, DecideKeeps,
     AppendPreparedKeeps, ExportSnapshotKeeps, SnapshotTargetKeeps, LinkKeeps, CheckPublishedKeeps,
     AppendVerifiedKeeps, RecordCrossStoreKeeps, VerifyUnchangedKeeps, SaveCacheKeeps DEF Step
<1>2. ASSUME NEW p \in Proc, Fault(p) \/ Crash(p)
      PROVE  ProcessingInv'
  BY <1>2, FaultKeeps, CrashKeeps
<1>3. ASSUME NEW p \in Proc, NEW request \in Request, Start(p, request)
      PROVE  ProcessingInv'
  BY <1>3, StartKeeps
<1>4. ASSUME NEW file \in {"source", "target"}, EditInput(file)
      PROVE  ProcessingInv'
  BY <1>4, EditInputKeeps
<1>5. ASSUME NEW r \in RunIds, RollBack(r)
      PROVE  ProcessingInv'
  BY <1>5, RollBackKeeps
<1>6. CASE UNCHANGED vars
  <2> USE <1>6 DEF vars, RunIds
  <2>1. TypeOK' /\ ChainsAreValid' /\ RunsApart' /\ FilesHaveRuns'
    BY DEF ProcessingInv, TypeOK, ChainsAreValid, RunsApart, FilesHaveRuns
  <2>2. VerifiedIsPublished' /\ PublishedWasAllowed'
    BY DEF ProcessingInv, VerifiedIsPublished, PublishedWasAllowed, BoundaryOf
  <2>3. \A i \in Identity : Settled(cache[i])'
    BY DEF ProcessingInv, Settled
  <2>4. ASSUME NEW p \in Proc
        PROVE  AttemptStands(p)' /\ Settled(attempt[p].answer)'
    <3> USE DEF ModeOf, Strict, OutputOf, FileOf, BoundaryOf, VerdictOf, DecisionOf, MayWrite
    <3>1. AttemptStands(p) /\ Settled(attempt[p].answer)
      BY DEF ProcessingInv
    <3>2. HasRequest(p)' /\ RunIsDone(p)' /\ InputsGrow(p)'
      BY <3>1 DEF AttemptStands, HasRequest, RunIsDone, InputsGrow
    <3>3. RunIsAtPc(p)'
      BY <3>1 DEF AttemptStands, RunIsAtPc, Stands
    <3>4. AnswerStands(p)' /\ Settled(attempt[p].answer)'
      BY <3>1 DEF AttemptStands, AnswerStands, Settled
    <3> QED BY <3>2, <3>3, <3>4 DEF AttemptStands
  <2> QED BY <2>1, <2>2, <2>3, <2>4 DEF ProcessingInv
<1> QED BY <1>1, <1>2, <1>3, <1>4, <1>5, <1>6 DEF Next

\* The inductive invariant of the processing engine: whatever the interleaving of
\* attempts, faults, crashes, edits and restored journals, every working attempt
\* has a run of its own that stands where the attempt is.
THEOREM ProcessingSound == Spec => []ProcessingInv
BY InitStands, NextStands, PTL DEF Spec

\* The types of the engine's state, for every number of processes and requests.
THEOREM ProcessingTyped == Spec => []TypeOK
<1>1. ProcessingInv => TypeOK
  BY DEF ProcessingInv
<1> QED BY <1>1, ProcessingSound, PTL

\* A success, fresh or resumed, stands on verified work over the same inputs.
THEOREM SuccessesStand == Spec => []ConclusionsStand
<1>1. ProcessingInv => ConclusionsStand
  <2> SUFFICES ASSUME ProcessingInv
               PROVE  ConclusionsStand
    OBVIOUS
  <2>1. \A p \in Proc : AnswerStands(p) /\ attempt[p] \in Attempt /\ spent \in Spent
    BY DEF ProcessingInv, AttemptStands, TypeOK
  <2>2. SuccessIsVerified
    BY <2>1 DEF SuccessIsVerified, AnswerStands, Answered, At, Spent
  <2>3. ResumedStands
    BY <2>1 DEF ResumedStands, AnswerStands, Answered, At
  <2> QED BY <2>2, <2>3 DEF ConclusionsStand
<1> QED BY <1>1, ProcessingSound, PTL

\* Every workbook on disk was allowed, and every verified run has its own.
THEOREM PublishedStands == Spec => []PublicationStands
<1>1. ProcessingInv => PublicationStands
  BY DEF ProcessingInv, PublicationStands
<1> QED BY <1>1, ProcessingSound, PTL

\* No step of the engine puts another workbook in the place of one.
LEMMA NothingIsReplaced ==
  ASSUME ProcessingInv, [Next]_vars
  PROVE  OutputNeverReplaced
<1>1. published \in [Output -> File \cup {None}]
  BY DEF ProcessingInv, TypeOK
<1>2. ASSUME NEW p \in Proc, Link(p)
      PROVE  OutputNeverReplaced
  BY <1>1, <1>2 DEF Link, OutputNeverReplaced
<1>3. ASSUME NEW p \in Proc, Fault(p)
      PROVE  OutputNeverReplaced
  BY <1>1, <1>3 DEF Fault, RemoveOwned, OutputNeverReplaced
<1>4. ASSUME UNCHANGED published
      PROVE  OutputNeverReplaced
  BY <1>4 DEF OutputNeverReplaced
<1>5. ASSUME NEW p \in Proc, Step(p), ~Link(p)
      PROVE  UNCHANGED published
  BY <1>5 DEF Step, ReadCache, Inspect, BeginRun, AppendPending, AppendData, Decide, AppendPrepared,
     ExportSnapshot, SnapshotTarget, CheckPublished, AppendVerified, RecordCrossStore, VerifyUnchanged, SaveCache
<1>6. CASE UNCHANGED vars
  BY <1>4, <1>6 DEF vars
<1>7. CASE Next
  BY <1>2, <1>3, <1>4, <1>5, <1>7 DEF Next, Crash, Start, EditInput, RollBack
<1> QED BY <1>6, <1>7

\* An answer is resumed only where the journal still is.
LEMMA ResumingAgrees ==
  ASSUME ProcessingInv
  PROVE  ResumeAgreesWithJournal
<1> SUFFICES ASSUME NEW p \in Proc, ReadCache(p), attempt'[p].answer # None, attempt'[p].answer.resumed,
                    attempt'[p].answer.run # None
             PROVE  /\ attempt'[p].answer.run \in RunIds
                    /\ BoundaryOf(attempt'[p].answer.run) = attempt'[p].answer.boundary
  BY DEF ResumeAgreesWithJournal
<1> DEFINE entry == cache[Identified(p)]
<1>1. /\ attempt[p].pc = "cache" /\ attempt[p] \in Attempt /\ TypeOK /\ attempt[p].answer = None
      /\ attempt[p].request \in Request
  BY DEF ReadCache, At, ProcessingInv, TypeOK, AttemptStands, HasRequest, AnswerStands
<1>2. CASE Goto(p, "inspect")
  <2>1. attempt'[p] = [attempt[p] EXCEPT !.pc = "inspect"]
    BY <1>1, <1>2, GotoEffect DEF Control
  <2>2. attempt'[p].answer = None
    BY <1>1, <2>1 DEF Attempt
  <2> QED BY <2>2
<1>3. ASSUME NEW a \in Answer, attempt' = [attempt EXCEPT ![p].pc = "idle", ![p].answer = a]
      PROVE  attempt'[p].answer = a
  BY <1>1, <1>3 DEF TypeOK, Attempt
<1>4. CASE attempt' = [attempt EXCEPT ![p].pc = "idle", ![p].answer = Failed(p)]
  BY <1>1, <1>3, <1>4, FailedTyped
<1>5. CASE /\ Resumable(p, entry)
           /\ attempt' = [attempt EXCEPT ![p].pc = "idle", ![p].answer = [entry EXCEPT !.resumed = TRUE]]
  <2> DEFINE a == [entry EXCEPT !.resumed = TRUE]
  <2>1. Identified(p) \in Identity
    BY <1>1 DEF Identified, Identity, Requests, ModeOf, Strict
  <2>2. entry \in Answer
    BY <1>1, <1>5, <2>1 DEF Resumable, TypeOK
  <2>3. a \in Answer /\ a.run = entry.run /\ a.boundary = entry.boundary
    BY <2>2 DEF Answer
  <2>4. attempt' = [attempt EXCEPT ![p].pc = "idle", ![p].answer = a]
    BY <1>5
  <2> HIDE DEF a
  <2>5. attempt'[p].answer = a
    BY <1>3, <2>3, <2>4
  <2> QED BY <1>5, <2>3, <2>5 DEF Resumable
<1> QED BY <1>2, <1>4, <1>5 DEF ReadCache

\* No step replaces a workbook or resumes what the journal has left behind.
THEOREM HistoryIsKept == Spec => HistoryStands
<1>1. ProcessingInv /\ [Next]_vars => [OutputNeverReplaced /\ ResumeAgreesWithJournal]_vars
  BY NothingIsReplaced, ResumingAgrees
<1> QED BY <1>1, ProcessingSound, PTL DEF Spec, HistoryStands
=============================================================================
