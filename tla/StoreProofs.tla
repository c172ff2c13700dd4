---------------------------- MODULE StoreProofs -----------------------------
(*****************************************************************************)
(* Proofs about the stores of the service that are not its jobs.  First the  *)
(* two that the learning of reconciliation patterns writes to: the shadow    *)
(* answers of active learning, and the registry of pattern histories.  For   *)
(* the registry: whatever operators race, retry and contradict one another,  *)
(* what is stored can be loaded, shows what the edges say, is paired with    *)
(* what it replaces, and never shrinks.  Then the workbooks that are written.*)
(*****************************************************************************)
EXTENDS ActiveLearning, PatternRegistry, TargetWriting, SequenceTheorems, TLAPS

-----------------------------------------------------------------------------
(* The shadow answers.                                                     *)

\* The trail ends with what the file holds now.
TrailStands ==
  /\ trail # <<>>
  /\ trail[Len(trail)].save = Current(queue)

AnswersSound == LearningTypeOK /\ TrailStands /\ AnswersStand

\* A file that can be loaded holds answers to this revision of the queue.
LEMMA CurrentFits ==
  ASSUME LearningConstants, LearningTypeOK, Loadable(queue)
  PROVE  /\ Current(queue) \in Save /\ Current(queue).queue = queue
         /\ Rebinds(queue, Current(queue))
         /\ Previous # NoSave => /\ Previous \in Save /\ Previous.queue = queue
                                 /\ Rebinds(queue, Previous)
<1>1. CASE shadow = NoSave
  BY <1>1 DEF LearningTypeOK, Current, Previous, Empty, Rebinds, Save
<1>2. CASE shadow # NoSave
  BY <1>2 DEF LearningConstants, LearningTypeOK, Loadable, Current, Previous, Envelope
<1> QED BY <1>1, <1>2

\* What a post writes: the file, the trail and, unless its answer is lost, what
\* the annotator holds.
LEMMA WriteSound ==
  ASSUME LearningConstants, AnswersSound, NEW a \in Annotator,
         NEW act \in {"answer", "undo"}, NEW current \in Save, NEW previous \in Save \cup {NoSave},
         annotator[a].queue = queue, current.queue = queue, Rebinds(queue, current),
         previous # NoSave => act = "answer" /\ previous = Current(queue),
         used.posts < MaxPosts, Write(a, act, current, previous)
  PROVE  AnswersSound'
<1> USE DEF AnswersSound, AnswersStand
<1>1. /\ shadow' = [current |-> current, previous |-> previous] /\ shadow' \in Envelope
      /\ shadow' # NoSave /\ queue' = queue
      /\ trail' = Append(trail, [act |-> act, save |-> current])
  BY DEF Write, LearningConstants, Envelope
<1>2. /\ annotator' \in [Annotator -> [queue : Revisions, save : Save \cup {NoSave}]]
      /\ \A b \in Annotator : \/ annotator'[b] = annotator[b]
                              \/ annotator'[b].queue = queue /\ annotator'[b].save = current
  <2> DEFINE x == [annotator[a] EXCEPT !.save = current]
  <2>1. annotator \in [Annotator -> [queue : Revisions, save : Save \cup {NoSave}]]
    BY DEF LearningTypeOK
  <2>2. /\ x \in [queue : Revisions, save : Save \cup {NoSave}]
        /\ x.queue = queue /\ x.save = current
    BY <2>1
  <2>3. annotator' = annotator \/ annotator' = [annotator EXCEPT ![a] = x]
    BY <2>1 DEF Write
  <2> HIDE DEF x
  <2> QED BY <2>1, <2>2, <2>3
<1>3. used' \in [posts : 0..MaxPosts, rebuilds : 0..MaxRebuilds, lost : 0..MaxLost]
  <2>1. /\ used.posts + 1 \in 0..MaxPosts
        /\ used.lost < MaxLost => used.lost + 1 \in 0..MaxLost
    BY DEF LearningTypeOK, LearningConstants
  <2>2. \/ used' = [used EXCEPT !.posts = @ + 1]
        \/ used.lost < MaxLost /\ used' = [used EXCEPT !.posts = @ + 1, !.lost = @ + 1]
    BY DEF Write
  <2> QED BY <2>1, <2>2 DEF LearningTypeOK
<1>4. LearningTypeOK'
  BY <1>1, <1>2, <1>3 DEF LearningTypeOK
<1>5. Len(trail) \in Nat \ {0} /\ Len(trail') = Len(trail) + 1
      /\ trail'[Len(trail')] = [act |-> act, save |-> current]
      /\ trail'[Len(trail') - 1] = trail[Len(trail)]
  BY <1>1 DEF LearningTypeOK, TrailStands
<1>6. TrailStands'
  BY <1>1, <1>5 DEF TrailStands, Current
<1>7. UndoIsOneStep'
  BY <1>1, <1>5 DEF UndoIsOneStep, Previous, TrailStands
<1>8. AnswersFitQueue'
  BY <1>1, <1>2 DEF AnswersFitQueue
<1> QED BY <1>4, <1>6, <1>7, <1>8

LEMMA ApplySound ==
  ASSUME LearningConstants, AnswersSound, NEW a \in Annotator, NEW i \in Item, NEW n \in Intent,
         Apply(a, i, n)
  PROVE  AnswersSound'
<1> DEFINE next == [Current(queue) EXCEPT !.answers[i] = n]
<1>1. /\ Current(queue) \in Save /\ Current(queue).queue = queue
      /\ Rebinds(queue, Current(queue))
  BY CurrentFits DEF Apply, AnswersSound
<1>2. /\ next \in Save /\ next.queue = queue
      /\ next.answers = [Current(queue).answers EXCEPT ![i] = n]
  BY <1>1 DEF Save
<1>3. Rebinds(queue, next)
  BY <1>1, <1>2 DEF Rebinds, Apply, Save
<1> QED BY <1>1, <1>2, <1>3, WriteSound DEF Apply, Named

LEMMA UndoSound ==
  ASSUME LearningConstants, AnswersSound, NEW a \in Annotator, Undo(a)
  PROVE  AnswersSound'
<1>1. /\ Current(queue) \in Save /\ Current(queue).queue = queue
      /\ Previous \in Save /\ Previous.queue = queue /\ Rebinds(queue, Previous)
  BY CurrentFits DEF Undo, AnswersSound
<1>2. annotator[a].save = Current(queue) /\ Current(queue) # NoSave
  BY <1>1 DEF Undo, LearningConstants
<1>3. annotator[a].queue = queue
  BY <1>1, <1>2 DEF AnswersSound, AnswersStand, AnswersFitQueue
<1> QED BY <1>1, <1>3, WriteSound DEF Undo

\* Building the queue again and showing it change no answer.
LEMMA QueueSound ==
  ASSUME LearningConstants, AnswersSound,
         \/ \E q \in Revisions : Rebuild(q)
         \/ \E a \in Annotator : Load(a)
         \/ UNCHANGED learningVars
  PROVE  AnswersSound'
<1> USE DEF AnswersSound, AnswersStand
<1>1. ASSUME NEW q \in Revisions, Rebuild(q)
      PROVE  AnswersSound'
  <2>1. queue' = q /\ UNCHANGED <<shadow, annotator>>
        /\ trail' = IF shadow = NoSave THEN <<[act |-> "none", save |-> Empty(q)]>> ELSE trail
    BY <1>1 DEF Rebuild
  <2>2. Empty(q) \in Save
    BY DEF Empty, Save
  <2>3. used' \in [posts : 0..MaxPosts, rebuilds : 0..MaxRebuilds, lost : 0..MaxLost]
    BY <1>1 DEF Rebuild, LearningTypeOK, LearningConstants
  <2>4. LearningTypeOK'
    <3>1. trail' \in Seq([act : {"none", "answer", "undo"}, save : Save])
      <4>1. [act |-> "none", save |-> Empty(q)] \in [act : {"none", "answer", "undo"}, save : Save]
        BY <2>2
      <4>2. CASE shadow = NoSave
        BY <2>1, <4>1, <4>2
      <4>3. CASE shadow # NoSave
        BY <2>1, <4>3 DEF LearningTypeOK
      <4> QED BY <4>2, <4>3
    <3> QED BY <2>1, <2>3, <3>1 DEF LearningTypeOK
  <2>5. TrailStands'
    BY <2>1 DEF TrailStands, Current
  <2>6. UndoIsOneStep' /\ AnswersFitQueue'
    BY <2>1 DEF UndoIsOneStep, AnswersFitQueue, Previous
  <2> QED BY <2>4, <2>5, <2>6
<1>2. ASSUME NEW a \in Annotator, Load(a)
      PROVE  AnswersSound'
  <2>1. UNCHANGED <<queue, shadow, trail, used>>
        /\ annotator' = [annotator EXCEPT ![a] = [queue |-> queue, save |-> Current(queue)]]
    BY <1>2 DEF Load
  <2>2. /\ Current(queue) \in Save /\ Current(queue).queue = queue
        /\ Rebinds(queue, Current(queue))
    BY <1>2, CurrentFits DEF Load
  <2>3. LearningTypeOK'
    BY <2>1, <2>2 DEF LearningTypeOK
  <2>4. TrailStands' /\ UndoIsOneStep'
    BY <2>1 DEF TrailStands, UndoIsOneStep, Current, Previous
  <2>5. AnswersFitQueue'
    BY <2>1, <2>2 DEF LearningTypeOK, AnswersFitQueue
  <2> QED BY <2>3, <2>4, <2>5
<1>3. CASE UNCHANGED learningVars
  BY <1>3 DEF learningVars, LearningTypeOK, TrailStands, UndoIsOneStep, AnswersFitQueue, Current, Previous
<1> QED BY <1>1, <1>2, <1>3

\* The invariant of the store, for any number of annotators, items and revisions.
THEOREM LearningSound ==
  LearningSpec => []AnswersSound
<1> USE LearningAssumption
<1>1. LearningInit => AnswersSound
  <2> SUFFICES ASSUME LearningInit PROVE AnswersSound
    OBVIOUS
  <2>1. Empty(FirstRevision) \in Save
    BY DEF Empty, Save, LearningConstants
  <2>2. LearningTypeOK
    BY <2>1 DEF LearningInit, LearningTypeOK, LearningConstants
  <2>3. TrailStands /\ UndoIsOneStep /\ AnswersFitQueue
    BY DEF LearningInit, TrailStands, UndoIsOneStep, AnswersFitQueue, Current, Previous
  <2> QED BY <2>2, <2>3 DEF AnswersSound, AnswersStand
<1>2. AnswersSound /\ [LearningNext]_learningVars => AnswersSound'
  BY ApplySound, UndoSound, QueueSound DEF LearningNext
<1> QED BY <1>1, <1>2, PTL DEF LearningSpec

\* Undo takes back one answer, the newest, and never an undo; nothing answered
\* for one revision of the queue is shown under another.
THEOREM AnswersStandCorrect ==
  LearningSpec => []AnswersStand
<1> USE LearningAssumption
<1>1. AnswersSound => AnswersStand
  BY DEF AnswersSound
<1> QED BY <1>1, LearningSound, PTL

\* An answer is replaced, or taken back, only by an annotator whose last view of
\* the autosave showed it.
THEOREM NoAnswerLostCorrect ==
  LearningSpec => NoAnswerLostUnseen
<1> USE LearningAssumption
<1> DEFINE LostUnseen ==
      \A i \in Item :
        LET old == Current(queue).answers[i] IN
        shadow' # shadow /\ old # NoIntent /\ shadow'.current.answers[i] # old
          => \E a \in Annotator : /\ annotator[a].save # NoSave
                                  /\ annotator[a].save.answers[i] = old
                                  /\ annotator'[a].save = shadow'.current
                                     \/ used'.lost > used.lost
<1>1. ASSUME LearningConstants, AnswersSound, NEW a \in Annotator, NEW act, NEW current, NEW previous,
             Loadable(queue), annotator[a].save = Current(queue), Write(a, act, current, previous)
      PROVE  LostUnseen
  <2>1. annotator[a].save # NoSave
    BY <1>1, CurrentFits DEF LearningConstants, AnswersSound
  <2>2. annotator'[a].save = shadow'.current \/ used'.lost > used.lost
    <3>1. CASE annotator' = [annotator EXCEPT ![a].save = current]
      BY <1>1, <3>1 DEF Write, AnswersSound, LearningTypeOK
    <3>2. CASE used' = [used EXCEPT !.posts = @ + 1, !.lost = @ + 1]
      BY <1>1, <3>2 DEF AnswersSound, LearningTypeOK
    <3> QED BY <1>1, <3>1, <3>2 DEF Write
  <2> QED BY <1>1, <2>1, <2>2
<1>2. AnswersSound /\ [LearningNext]_learningVars => [LostUnseen]_learningVars
  <2> SUFFICES ASSUME AnswersSound, [LearningNext]_learningVars, shadow' # shadow
               PROVE  LostUnseen
    OBVIOUS
  <2>1. PICK a \in Annotator : Undo(a) \/ \E i \in Item, n \in Intent : Apply(a, i, n)
    BY DEF LearningNext, Rebuild, Load, learningVars
  <2> QED BY <1>1, <2>1 DEF Undo, Apply, Named
<1> QED BY <1>2, LearningSound, PTL DEF LearningSpec, NoAnswerLostUnseen

-----------------------------------------------------------------------------
(* The registry of patterns: the invariant.                                *)

\* A chain the registry may hold: it can be loaded unless it was rolled back, and
\* a superseded revision is retired and the last one.
ChainStands(c) ==
  /\ c \in Seq(Entry) /\ c # <<>>
  /\ Last(c).rollback = 0 => Loads(c)
  /\ \A i \in 1..Len(c) : c[i].superseded # 0 => i = Len(c) /\ c[i].state = "retired"

\* The chain c that op drafted for p: what the registry does not hold of it yet is
\* op's own, and as long as it can be stored it shows what the edges say.
DraftStands(op, p, c) ==
  /\ ChainStands(c)
  /\ Last(c).superseded = 0
  /\ registry[p] = <<>> => c[1].supersedes = 0
  /\ \A i \in Len(registry[p]) + 1..Len(c) : c[i].actor = op
  /\ IsPrefix(registry[p], c) => Last(c).conflicts = ConflictsOf(edges, p)
HistoryStands(op, w) ==
  \E p \in Pattern : DOMAIN w.chains = {p} /\ DraftStands(op, p, w.chains[p])

\* A plan revises one pattern, or replaces it by a new one.
Revises(c) == ChainStands(c) /\ Len(c) > 1 /\ Last(c).conflicts = Last(Front(c)).conflicts
EdgePlanned(w) ==
  \E p \in Pattern :
    /\ p \in DOMAIN w.chains /\ Revises(w.chains[p])
    /\ \/ DOMAIN w.chains = {p} /\ Last(w.chains[p]).superseded = 0
       \/ \E q \in Pattern \ {p} :
            /\ DOMAIN w.chains = {p, q} /\ Last(w.chains[p]).superseded = q
            /\ ChainStands(w.chains[q]) /\ Len(w.chains[q]) = 1
            /\ w.chains[q][1].supersedes = p /\ w.chains[q][1].superseded = 0
            /\ w.chains[q][1].conflicts = {}

\* An edge comes with revisions of stored histories that are op's own.
JudgementStands(op, w) ==
  /\ w.edge \in FeedbackEdge
  /\ \A p \in w.edge.ends : registry[p] # <<>>
  /\ DOMAIN w.chains \subseteq Pattern
  /\ \A p \in DOMAIN w.chains :
       ChainStands(w.chains[p]) /\ Len(w.chains[p]) > 1 /\ Last(w.chains[p]).actor = op

WorkStands(op) ==
  \/ work[op] = NoWork
  \/ work[op].kind = "history" /\ HistoryStands(op, work[op])
  \/ work[op].kind = "plan" /\ EdgePlanned(work[op])
  \/ work[op].kind = "edge" /\ JudgementStands(op, work[op])

\* An edge is about patterns that have a history.
EdgesAreBound == \A e \in edges : \A p \in e.ends : registry[p] # <<>>

RegistrySound ==
  /\ RegistryTypeOK
  /\ \A p \in Pattern : registry[p] # <<>> => ChainStands(registry[p])
  /\ EdgesAreBound
  /\ \A op \in Operator : WorkStands(op)
  /\ ContradictionsShown /\ SupersessionPaired

-----------------------------------------------------------------------------
(* Sequences, and the chains the operations build.                         *)

\* A prefix, index by index.
LEMMA PrefixFacts ==
  ASSUME NEW S, NEW s \in Seq(S), NEW t \in Seq(S)
  PROVE  IsPrefix(s, t) <=> Len(s) <= Len(t) /\ \A i \in 1..Len(s) : s[i] = t[i]
<1>1. CASE Len(s) <= Len(t)
  <2>1. SubSeq(s, 1, Len(s)) = s
    OBVIOUS
  <2>2. SubSeq(t, 1, Len(s)) = [i \in 1..Len(s) |-> t[i]]
    BY <1>1
  <2>3. s = [i \in 1..Len(s) |-> s[i]]
    OBVIOUS
  <2> QED BY <1>1, <2>1, <2>2, <2>3 DEF IsPrefix
<1> QED BY <1>1 DEF IsPrefix

\* All of a sequence but its last element.
LEMMA FrontFacts ==
  ASSUME NEW S, NEW s \in Seq(S), s # <<>>
  PROVE  /\ Len(s) \in Nat \ {0} /\ Front(s) \in Seq(S) /\ Len(Front(s)) = Len(s) - 1
         /\ \A i \in 1..Len(s) - 1 : Front(s)[i] = s[i]
<1>1. Len(s) \in Nat \ {0}
  BY EmptySeq
<1>2. Front(s) = [i \in 1..Len(s) - 1 |-> s[i]]
  BY <1>1 DEF Front
<1>3. [i \in 1..Len(s) - 1 |-> s[i]] \in Seq(S)
  BY <1>1, IsASeq, ElementOfSeq
<1> QED BY <1>1, <1>2, <1>3

\* A sequence with one element more.
LEMMA AppendFacts ==
  ASSUME NEW S, NEW s \in Seq(S), NEW e \in S
  PROVE  /\ Append(s, e) \in Seq(S) /\ Append(s, e) # <<>> /\ Len(Append(s, e)) = Len(s) + 1
         /\ \A i \in 1..Len(s) : Append(s, e)[i] = s[i]
         /\ Append(s, e)[Len(s) + 1] = e /\ Last(Append(s, e)) = e
         /\ Front(Append(s, e)) = s
<1>1. Front(Append(s, e)) = s
  <2>1. Front(Append(s, e)) = [i \in 1..Len(s) |-> Append(s, e)[i]]
    BY DEF Front
  <2> QED BY <2>1
<1> QED BY <1>1 DEF Last

\* The newest revision of a chain.
LEMMA LastIsEntry == ASSUME NEW c \in Seq(Entry), c # <<>> PROVE Last(c) \in Entry /\ Len(c) \in Nat \ {0}
BY EmptySeq DEF Last

\* The events the operations file.
LEMMA EventsAre ==
  /\ "state_transition" \in Events /\ "conflict_suspended" \in Events /\ "superseded" \in Events
  /\ "rolled_back" \in Events /\ "wave5_verified_import" \in Events
BY DEF Events

\* A chain that stands and is open may take a revision load_history expects.
LEMMA AppendStands ==
  ASSUME NEW c, ChainStands(c), NEW e \in Entry, Last(c).superseded = 0,
         e.superseded # 0 => e.state = "retired",
         e.rollback = 0 =>
           /\ Last(c).rollback = 0
           /\ e.event = ExpectedEvent(Last(c), e)
           /\ Last(c).state = e.state => e.state \in {"proposed", "shadow"} /\ e.conflicts # {}
  PROVE  ChainStands(Append(c, e))
<1> DEFINE d == Append(c, e)
<1>1. c \in Seq(Entry) /\ c # <<>> /\ Len(c) \in Nat \ {0}
  BY LastIsEntry DEF ChainStands
<1>2. /\ d \in Seq(Entry) /\ d # <<>> /\ Len(d) = Len(c) + 1 /\ Last(d) = e /\ d[Len(c) + 1] = e
      /\ \A i \in 1..Len(c) : d[i] = c[i]
  BY <1>1, AppendFacts
<1> HIDE DEF d
<1>3. ASSUME Last(d).rollback = 0 PROVE Loads(d)
  <2>1. Loads(c) /\ Last(c).rollback = 0
    BY <1>2, <1>3 DEF ChainStands
  <2>2. d[1].event = "candidate_registered"
    BY <1>1, <1>2, <2>1 DEF Loads
  <2>3. ASSUME NEW i \in 2..Len(c)
        PROVE  /\ d[i].event = ExpectedEvent(d[i - 1], d[i])
               /\ d[i - 1].state = d[i].state => d[i].state \in {"proposed", "shadow"} /\ d[i].conflicts # {}
    <3>1. d[i] = c[i] /\ d[i - 1] = c[i - 1]
      BY <1>1, <1>2
    <3> QED BY <2>1, <3>1 DEF Loads
  <2>4. /\ d[Len(d)].event = ExpectedEvent(d[Len(d) - 1], d[Len(d)])
        /\ d[Len(d) - 1].state = d[Len(d)].state =>
             d[Len(d)].state \in {"proposed", "shadow"} /\ d[Len(d)].conflicts # {}
    <3>1. d[Len(d)] = e /\ d[Len(d) - 1] = Last(c)
      BY <1>1, <1>2 DEF Last
    <3> QED BY <1>2, <1>3, <3>1
  <2> QED BY <1>1, <1>2, <2>2, <2>3, <2>4 DEF Loads
<1>4. ASSUME NEW i \in 1..Len(d), d[i].superseded # 0 PROVE i = Len(d) /\ d[i].state = "retired"
  BY <1>1, <1>2, <1>4 DEF ChainStands, Last
<1> QED BY <1>2, <1>3, <1>4 DEF ChainStands, d

\* A chain whose newest revision is not retired has no replacement.
LEMMA OpenChains ==
  ASSUME NEW c, ChainStands(c), Last(c).state # "retired"
  PROVE  Last(c).superseded = 0
BY LastIsEntry DEF ChainStands, Last

\* register_candidate
LEMMA RegisteredStands ==
  ASSUME NEW op \in Operator, NEW p \in Pattern \cup {0}
  PROVE  LET c == Registered(op, p) IN
         /\ ChainStands(c) /\ Len(c) = 1 /\ c[1] = Last(c) /\ c[1].supersedes = p /\ c[1].superseded = 0
         /\ c[1].conflicts = {} /\ c[1].actor = op /\ c[1] \in Entry /\ c = Append(<<>>, c[1])
<1> DEFINE e == [state |-> "proposed", conflicts |-> {}, rollback |-> 0, supersedes |-> p,
                 superseded |-> 0, event |-> "candidate_registered", actor |-> op]
<1>1. e \in Entry
  BY DEF Entry, States, Events
<1>2. Registered(op, p) = <<e>>
  BY DEF Registered
<1>3. <<e>> \in Seq(Entry) /\ Len(<<e>>) = 1 /\ <<e>>[1] = e /\ <<e>> # <<>> /\ Last(<<e>>) = e /\ <<e>> = Append(<<>>, e)
  BY <1>1 DEF Last
<1>4. ChainStands(<<e>>)
  BY <1>3 DEF ChainStands, Loads
<1> QED BY <1>1, <1>2, <1>3, <1>4

\* add_pre_activation_conflicts, suspend_active_for_conflict
LEMMA ConflictsStand ==
  ASSUME NEW c, ChainStands(c), NEW conflicts \in SUBSET Contradiction, NEW op \in Operator,
         NEW d \in WithConflicts(c, conflicts, op)
  PROVE  \E e \in Entry : /\ d = Append(c, e) /\ ChainStands(d)
                          /\ e.conflicts = conflicts /\ e.actor = op /\ e.superseded = 0
<1>1. Last(c) \in Entry
  BY LastIsEntry DEF ChainStands
<1>2. conflicts # {}
  <2> SUFFICES ASSUME conflicts = {} PROVE WithConflicts(c, conflicts, op) = {}
    OBVIOUS
  <2> QED BY DEF WithConflicts
<1>3. CASE Last(c).state \in {"proposed", "shadow"}
  <2> DEFINE r == [Last(c) EXCEPT !.conflicts = conflicts]
  <2>1. r \in Entry /\ r.state = Last(c).state /\ r.conflicts = conflicts /\ r.rollback = Last(c).rollback
        /\ r.superseded = Last(c).superseded
    BY <1>1 DEF Entry
  <2> HIDE DEF r
  <2> DEFINE e == [r EXCEPT !.event = "state_transition", !.actor = op]
  <2>0. e = [r EXCEPT !.event = "state_transition", !.actor = op]
    OBVIOUS
  <2> HIDE DEF e
  <2>2. /\ e \in Entry /\ e.event = "state_transition" /\ e.actor = op /\ e.state = Last(c).state
        /\ e.conflicts = conflicts /\ e.rollback = Last(c).rollback /\ e.superseded = Last(c).superseded
    BY <2>0, <2>1, EventsAre DEF Entry
  <2>3. d = Append(c, e)
    BY <1>2, <1>3 DEF WithConflicts, Revised, r, e
  <2>4. Last(c).superseded = 0
    BY <1>3, OpenChains
  <2>5. e.event = ExpectedEvent(Last(c), e)
    BY <2>2 DEF ExpectedEvent
  <2>6. ChainStands(d)
    BY <1>2, <1>3, <2>2, <2>3, <2>4, <2>5, AppendStands
  <2> QED BY <2>2, <2>3, <2>4, <2>6
<1>4. CASE Last(c).state = "active"
  <2> DEFINE r == [Last(c) EXCEPT !.state = "suspended", !.conflicts = conflicts]
  <2>1. r \in Entry /\ r.state = "suspended" /\ r.conflicts = conflicts /\ r.rollback = Last(c).rollback
        /\ r.superseded = Last(c).superseded
    BY <1>1 DEF Entry, States
  <2> HIDE DEF r
  <2> DEFINE e == [r EXCEPT !.event = "conflict_suspended", !.actor = op]
  <2>0. e = [r EXCEPT !.event = "conflict_suspended", !.actor = op]
    OBVIOUS
  <2> HIDE DEF e
  <2>2. /\ e \in Entry /\ e.event = "conflict_suspended" /\ e.actor = op /\ e.state = "suspended"
        /\ e.conflicts = conflicts /\ e.rollback = Last(c).rollback /\ e.superseded = Last(c).superseded
    BY <2>0, <2>1, EventsAre DEF Entry
  <2>3. d = Append(c, e)
    BY <1>2, <1>4 DEF WithConflicts, Revised, r, e
  <2>4. Last(c).superseded = 0
    BY <1>4, OpenChains
  <2>5. e.event = ExpectedEvent(Last(c), e)
    BY <1>2, <1>4, <2>2 DEF ExpectedEvent
  <2>6. ChainStands(d)
    BY <1>4, <2>2, <2>3, <2>4, <2>5, AppendStands
  <2> QED BY <2>2, <2>3, <2>4, <2>6
<1> QED BY <1>2, <1>3, <1>4 DEF WithConflicts

\* move_to_shadow, approve_head, retire_head
LEMMA MovesStand ==
  ASSUME NEW c, ChainStands(c), NEW s \in {"shadow", "owner_approved", "retired"}, NEW op \in Operator,
         NEW d \in MoveTo(c, s, op)
  PROVE  \E e \in Entry : /\ d = Append(c, e) /\ ChainStands(d)
                          /\ e.conflicts = Last(c).conflicts /\ e.actor = op /\ e.superseded = 0
<1>1. Last(c) \in Entry
  BY LastIsEntry DEF ChainStands
<1> DEFINE r == [Last(c) EXCEPT !.state = s]
<1>2. r \in Entry /\ r.state = s /\ r.conflicts = Last(c).conflicts /\ r.rollback = Last(c).rollback
      /\ r.superseded = Last(c).superseded
  BY <1>1 DEF Entry, States
<1> HIDE DEF r
<1> DEFINE e == [r EXCEPT !.event = "state_transition", !.actor = op]
<1>0. e = [r EXCEPT !.event = "state_transition", !.actor = op]
  OBVIOUS
<1> HIDE DEF e
<1>3. /\ e \in Entry /\ e.event = "state_transition" /\ e.actor = op /\ e.state = s
      /\ e.conflicts = Last(c).conflicts /\ e.rollback = Last(c).rollback /\ e.superseded = Last(c).superseded
  BY <1>0, <1>2, EventsAre DEF Entry
<1>4. d = Append(c, e) /\ <<Last(c).state, s>> \in Allowed
  BY DEF MoveTo, Revised, r, e
<1>5. Last(c).state # s /\ Last(c).state # "retired"
  BY <1>4 DEF Allowed, States
<1>6. Last(c).superseded = 0
  BY <1>5, OpenChains
<1>7. e.rollback = 0 => e.event = ExpectedEvent(Last(c), e)
  BY <1>3, <1>5, <1>6 DEF ExpectedEvent
<1>8. ChainStands(d)
  BY <1>3, <1>4, <1>5, <1>6, <1>7, AppendStands
<1> QED BY <1>3, <1>4, <1>6, <1>8

\* import_verified_wave5_active
LEMMA ImportsStand ==
  ASSUME NEW c, ChainStands(c), NEW op \in Operator, NEW d \in ImportActive(c, op)
  PROVE  \E e \in Entry : /\ d = Append(c, e) /\ ChainStands(d)
                          /\ e.conflicts = Last(c).conflicts /\ e.actor = op /\ e.superseded = 0
<1>1. Last(c) \in Entry
  BY LastIsEntry DEF ChainStands
<1> DEFINE r == [Last(c) EXCEPT !.state = "active"]
<1>2. r \in Entry /\ r.state = "active" /\ r.conflicts = Last(c).conflicts /\ r.rollback = Last(c).rollback
      /\ r.superseded = Last(c).superseded
  BY <1>1 DEF Entry, States
<1> HIDE DEF r
<1> DEFINE e == [r EXCEPT !.event = "wave5_verified_import", !.actor = op]
<1>0. e = [r EXCEPT !.event = "wave5_verified_import", !.actor = op]
  OBVIOUS
<1> HIDE DEF e
<1>3. /\ e \in Entry /\ e.event = "wave5_verified_import" /\ e.actor = op /\ e.state = "active"
      /\ e.conflicts = Last(c).conflicts /\ e.rollback = Last(c).rollback /\ e.superseded = Last(c).superseded
  BY <1>0, <1>2, EventsAre DEF Entry
<1>4. d = Append(c, e) /\ Last(c).state = "owner_approved"
  BY DEF ImportActive, Revised, r, e
<1> HIDE DEF e
<1>6. Last(c).superseded = 0
  BY <1>4, OpenChains
<1>7. e.event = ExpectedEvent(Last(c), e)
  BY <1>3, <1>4 DEF ExpectedEvent
<1>8. ChainStands(d)
  BY <1>3, <1>4, <1>6, <1>7, AppendStands
<1> QED BY <1>3, <1>4, <1>6, <1>8

\* plan_rollback: what it appends carries the rollback, so nothing is claimed of its events.
LEMMA RollBacksStand ==
  ASSUME NEW c, ChainStands(c), NEW op \in Operator, NEW d \in RollBackPlan(c, op)
  PROVE  \E e \in Entry : /\ d = Append(c, e) /\ ChainStands(d)
                          /\ e.conflicts = Last(c).conflicts /\ e.superseded = 0
<1>1. Last(c) \in Entry /\ Len(c) \in Nat \ {0}
  BY LastIsEntry DEF ChainStands
<1> DEFINE r == [Last(c) EXCEPT !.state = "suspended", !.rollback = Len(c)]
           e == [r EXCEPT !.event = "rolled_back", !.actor = op]
<1>2. r \in Entry /\ r.conflicts = Last(c).conflicts /\ r.rollback = Len(c) /\ r.superseded = Last(c).superseded
  BY <1>1 DEF Entry, States
<1> HIDE DEF r
<1>3. e \in Entry /\ e.conflicts = Last(c).conflicts /\ e.rollback = Len(c) /\ e.superseded = Last(c).superseded
  BY <1>2, EventsAre DEF Entry
<1>4. d = Append(c, e) /\ Last(c).state = "active"
  BY DEF RollBackPlan, Revised, r
<1> HIDE DEF e
<1>5. Last(c).superseded = 0
  BY <1>4, OpenChains
<1>6. ChainStands(d)
  BY <1>1, <1>3, <1>4, <1>5, AppendStands
<1> QED BY <1>3, <1>4, <1>5, <1>6

\* plan_supersession
LEMMA SupersessionsStand ==
  ASSUME RegistryConstants, NEW p \in Pattern, NEW q \in Pattern,
         NEW c, ChainStands(c), NEW op \in Operator, NEW w, w.chains \in SupersessionPlan(p, c, q, op)
  PROVE  EdgePlanned(w)
<1>1. Last(c) \in Entry /\ c \in Seq(Entry) /\ c # <<>> /\ Len(c) \in Nat \ {0}
  BY LastIsEntry DEF ChainStands
<1> DEFINE chains == w.chains
           r == [Last(c) EXCEPT !.state = "retired", !.superseded = q]
           e == [r EXCEPT !.event = "superseded", !.actor = op]
<1>2. /\ r \in Entry /\ r.state = "retired" /\ r.conflicts = Last(c).conflicts
      /\ r.rollback = Last(c).rollback /\ r.superseded = q
  BY <1>1 DEF Entry, States
<1> HIDE DEF r
<1>3. /\ e \in Entry /\ e.event = "superseded" /\ e.state = "retired" /\ e.conflicts = Last(c).conflicts
      /\ e.rollback = Last(c).rollback /\ e.superseded = q
  BY <1>2, EventsAre DEF Entry
<1>4. p # q /\ <<Last(c).state, "retired">> \in Allowed
  BY DEF SupersessionPlan
<1>5. /\ DOMAIN chains = {p, q} /\ chains[q] = Registered(op, p)
      /\ chains[p] = Append(c, e)
  BY <1>4 DEF SupersessionPlan, Revised, r
<1> HIDE DEF e
<1>6. Last(c).state # "retired"
  BY <1>4 DEF Allowed, States
<1>7. Last(c).superseded = 0
  BY <1>6, OpenChains
<1>8. q # 0
  BY DEF RegistryConstants
<1>9. e.rollback = 0 => e.event = ExpectedEvent(Last(c), e)
  BY <1>3, <1>6, <1>8 DEF ExpectedEvent
<1>10. ChainStands(chains[p])
  BY <1>3, <1>5, <1>6, <1>7, <1>9, AppendStands
<1>11. Last(chains[p]) = e /\ Len(chains[p]) = Len(c) + 1 /\ Front(chains[p]) = c
  BY <1>1, <1>3, <1>5, AppendFacts
<1>12. Revises(chains[p])
  BY <1>1, <1>3, <1>10, <1>11 DEF Revises
<1>13. /\ ChainStands(chains[q]) /\ Len(chains[q]) = 1 /\ chains[q][1].supersedes = p
       /\ chains[q][1].superseded = 0 /\ chains[q][1].conflicts = {}
  BY <1>5, RegisteredStands
<1> QED BY <1>3, <1>4, <1>5, <1>11, <1>12, <1>13 DEF EdgePlanned

\* The contradictions of known edges are well formed.
LEMMA ConflictsAre ==
  ASSUME RegistryConstants, NEW es \in SUBSET FeedbackEdge, NEW p
  PROVE  ConflictsOf(es, p) \in SUBSET Contradiction
BY DEF RegistryConstants, ConflictsOf, Derived, Contradiction

\* Whatever one call makes of a loaded history appends one revision that stands.
LEMMA HistoriesStand ==
  ASSUME RegistryConstants, edges \subseteq FeedbackEdge, NEW p \in Pattern, NEW op \in Operator,
         NEW c \in Seq(Entry), c = <<>> \/ ChainStands(c), NEW d \in NextHistories(p, c, op)
  PROVE  \E e \in Entry :
           /\ d = Append(c, e) /\ ChainStands(d) /\ e.actor = op /\ e.superseded = 0
           /\ c = <<>> => e.supersedes = 0 /\ e.conflicts = {}
           /\ c # <<>> => e.conflicts \in {Last(c).conflicts, ConflictsOf(edges, p)}
<1>1. CASE c = <<>>
  <2>1. d = Registered(op, 0)
    BY <1>1 DEF NextHistories
  <2> QED BY <1>1, <2>1, RegisteredStands
<1>2. CASE c # <<>>
  <2> USE <1>2
  <2>1. \/ d \in MoveTo(c, "shadow", op) \/ d \in ApproveHead(c, op) \/ d \in ImportActive(c, op)
        \/ d \in WithConflicts(c, ConflictsOf(edges, p), op) \/ d \in RetireHead(c, op)
    BY DEF NextHistories
  <2>2. CASE \E s \in {"shadow", "owner_approved", "retired"} : d \in MoveTo(c, s, op)
    BY <2>2, MovesStand
  <2>3. CASE d \in ImportActive(c, op)
    BY <2>3, ImportsStand
  <2>4. CASE d \in WithConflicts(c, ConflictsOf(edges, p), op)
    <3>1. ConflictsOf(edges, p) \in SUBSET Contradiction
      BY ConflictsAre
    <3> QED BY <2>4, <3>1, ConflictsStand
  <2>5. d \in ApproveHead(c, op) => d \in MoveTo(c, "owner_approved", op)
    BY DEF ApproveHead
  <2> QED BY <2>1, <2>2, <2>3, <2>4, <2>5 DEF RetireHead
<1> QED BY <1>1, <1>2
-----------------------------------------------------------------------------
(* A transaction of the store.                                             *)

\* A history that does not change has itself as a beginning.
LEMMA SameIsPrefix == ASSUME NEW S, NEW s \in Seq(S) PROVE IsPrefix(s, s)
BY PrefixFacts

\* What is appended to the stored chain keeps it.
LEMMA FrontIsPrefix ==
  ASSUME NEW c \in Seq(Entry), c # <<>>
  PROVE  IsPrefix(Front(c), c)
BY FrontFacts, PrefixFacts

\* What was drafted stays a draft when the registry grows: its own entries are
\* none of another operator, so it no longer fits when an edge has revised p.
LEMMA DraftKept ==
  ASSUME RegistryTypeOK, RegistryTypeOK', NEW o \in Operator, NEW p \in Pattern, NEW c,
         DraftStands(o, p, c), IsPrefix(registry[p], registry'[p]),
         \/ ConflictsOf(edges', p) = ConflictsOf(edges, p)
         \/ Len(registry'[p]) > Len(registry[p]) /\ registry'[p][Len(registry[p]) + 1].actor # o
  PROVE  DraftStands(o, p, c)'
<1> DEFINE s == registry[p]
           t == registry'[p]
<1>1. s \in Seq(Entry) /\ t \in Seq(Entry) /\ c \in Seq(Entry) /\ c # <<>>
  BY DEF RegistryTypeOK, DraftStands, ChainStands
<1>2. Len(s) <= Len(t) /\ \A i \in 1..Len(s) : s[i] = t[i]
  BY <1>1, PrefixFacts
<1>3. Len(s) \in Nat /\ Len(t) \in Nat /\ Len(c) \in Nat
  BY <1>1
<1> USE DEF DraftStands
<1>4. t = <<>> => c[1].supersedes = 0
  <2>1. t = <<>> => s = <<>>
    BY <1>1, <1>2, <1>3, EmptySeq
  <2> QED BY <2>1
<1>5. \A i \in Len(t) + 1..Len(c) : c[i].actor = o
  BY <1>2, <1>3
<1>6. ASSUME IsPrefix(t, c) PROVE Last(c).conflicts = ConflictsOf(edges', p)
  <2>1. Len(t) <= Len(c) /\ \A i \in 1..Len(t) : t[i] = c[i]
    BY <1>1, <1>6, PrefixFacts
  <2>2. IsPrefix(s, c)
    BY <1>1, <1>2, <1>3, <2>1, PrefixFacts
  <2>3. Last(c).conflicts = ConflictsOf(edges, p)
    BY <2>2
  <2>4. ~(Len(t) > Len(s) /\ t[Len(s) + 1].actor # o)
    BY <1>3, <2>1
  <2> QED BY <2>3, <2>4
<1> QED BY <1>4, <1>5, <1>6 DEF ChainStands

\* A transaction keeps every history, and all that others have drafted meanwhile.
LEMMA StoreStands ==
  ASSUME RegistryConstants, RegistrySound, NEW op \in Operator, NEW stored,
         NEW recorded \in SUBSET FeedbackEdge, Commit(op, stored, recorded),
         \A p \in Pattern \cap DOMAIN stored : ChainStands(stored[p]) /\ IsPrefix(registry[p], stored[p]),
         \A e \in recorded : \A p \in e.ends : registry[p] # <<>>,
         \A o \in Operator, p \in Pattern :
           \/ ConflictsOf(edges', p) = ConflictsOf(edges, p)
           \/ work[o] = NoWork \/ work[o].kind # "history"
           \/ Len(registry'[p]) > Len(registry[p]) /\ registry'[p][Len(registry[p]) + 1].actor # o
  PROVE  /\ RegistryTypeOK'
         /\ \A p \in Pattern : registry'[p] # <<>> => ChainStands(registry'[p])
         /\ EdgesAreBound'
         /\ \A o \in Operator : WorkStands(o)'
         /\ \A p \in Pattern : IsPrefix(registry[p], registry'[p])
<1>1. registry \in [Pattern -> Seq(Entry)] /\ edges \subseteq FeedbackEdge /\ DOMAIN work = Operator
  BY DEF RegistrySound, RegistryTypeOK
<1>2. \A p \in Pattern : registry'[p] = IF p \in DOMAIN stored THEN stored[p] ELSE registry[p]
  BY DEF Commit
<1>3. edges' = edges \cup recorded
  BY DEF Commit
<1>4. \A p \in Pattern : registry'[p] \in Seq(Entry) /\ IsPrefix(registry[p], registry'[p])
  BY <1>1, <1>2, SameIsPrefix DEF ChainStands
<1>5. \A p \in Pattern : registry'[p] # <<>> => ChainStands(registry'[p])
  BY <1>2 DEF RegistrySound
<1>6. DOMAIN work' = Operator /\ \A o \in Operator : work'[o] = work[o] \/ work'[o] = NoWork
  BY <1>1 DEF Commit
<1>7. RegistryTypeOK'
  <2>1. registry' \in [Pattern -> Seq(Entry)]
    BY <1>4 DEF Commit
  <2> QED BY <1>1, <1>3, <1>6, <2>1 DEF RegistryTypeOK
<1>8. \A p \in Pattern : registry[p] # <<>> => registry'[p] # <<>>
  <2> SUFFICES ASSUME NEW p \in Pattern, registry'[p] = <<>> PROVE registry[p] = <<>>
    OBVIOUS
  <2>1. Len(registry[p]) <= Len(registry'[p])
    BY <1>1, <1>4, PrefixFacts
  <2> QED BY <1>1, <2>1, EmptySeq
<1>9. EdgesAreBound'
  BY <1>1, <1>3, <1>8 DEF EdgesAreBound, RegistrySound, RegistryConstants
<1>10. ASSUME NEW o \in Operator PROVE WorkStands(o)'
  <2>1. CASE work'[o] = NoWork
    BY <2>1 DEF WorkStands
  <2>2. CASE work[o] # NoWork /\ work'[o] = work[o]
    <3> DEFINE w == work[o]
    <3>1. WorkStands(o)
      BY DEF RegistrySound
    <3>2. CASE w.kind = "history" /\ HistoryStands(o, w)
      <4>1. PICK p \in Pattern : DOMAIN w.chains = {p} /\ DraftStands(o, p, w.chains[p])
        BY <3>2 DEF HistoryStands
      <4>2. \/ ConflictsOf(edges', p) = ConflictsOf(edges, p)
            \/ Len(registry'[p]) > Len(registry[p]) /\ registry'[p][Len(registry[p]) + 1].actor # o
        BY <2>2, <3>2
      <4>3. RegistryTypeOK
        BY DEF RegistrySound
      <4>4. DraftStands(o, p, w.chains[p])'
        BY <1>4, <1>7, <2>2, <4>1, <4>2, <4>3, DraftKept
      <4> QED BY <2>2, <3>2, <4>1, <4>4 DEF WorkStands, HistoryStands
    <3>3. CASE w.kind = "plan" /\ EdgePlanned(w)
      <4>1. EdgePlanned(w)'
        <5>1. w' = w
          BY <2>2
        <5> HIDE DEF w
        <5> QED BY <3>3, <5>1 DEF EdgePlanned, Revises, ChainStands
      <4> QED BY <2>2, <3>3, <4>1 DEF WorkStands
    <3>4. CASE w.kind = "edge" /\ JudgementStands(o, w)
      BY <1>8, <2>2, <3>4 DEF WorkStands, JudgementStands, ChainStands, RegistryConstants
    <3> QED BY <2>2, <3>1, <3>2, <3>3, <3>4 DEF WorkStands
  <2> QED BY <1>6, <2>1, <2>2
<1> QED BY <1>4, <1>5, <1>7, <1>9, <1>10

\* A step that only adds revisions which supersede nothing keeps the pairs.
LEMMA PairingKept ==
  ASSUME RegistryConstants, RegistryTypeOK, RegistryTypeOK', SupersessionPaired,
         \A p \in Pattern : registry'[p] # <<>> => ChainStands(registry'[p]),
         \A p \in Pattern : IsPrefix(registry[p], registry'[p]),
         \A p \in Pattern : \/ registry'[p] = registry[p]
                            \/ /\ Len(registry'[p]) > Len(registry[p])
                               /\ Last(registry'[p]).superseded = 0
                               /\ registry[p] = <<>> => registry'[p][1].supersedes = 0
  PROVE  SupersessionPaired'
<1>1. \A p \in Pattern : /\ registry[p] \in Seq(Entry) /\ registry'[p] \in Seq(Entry)
                         /\ Len(registry[p]) <= Len(registry'[p])
                         /\ \A i \in 1..Len(registry[p]) : registry[p][i] = registry'[p][i]
                         /\ registry[p] # <<>> => Len(registry[p]) \in Nat \ {0}
  BY PrefixFacts, EmptySeq DEF RegistryTypeOK
<1>2. \A p \in Pattern : registry[p] # <<>> => registry'[p] # <<>> /\ registry'[p][1] = registry[p][1]
  <2> SUFFICES ASSUME NEW p \in Pattern, registry[p] # <<>>
               PROVE  registry'[p] # <<>> /\ registry'[p][1] = registry[p][1]
    OBVIOUS
  <2>1. Len(registry'[p]) # 0 /\ 1 \in 1..Len(registry[p])
    BY <1>1
  <2> QED BY <1>1, <2>1
<1> SUFFICES ASSUME NEW p \in Pattern, NEW q \in Pattern
             PROVE  /\ registry'[p] # <<>> /\ Last(registry'[p]).superseded = q =>
                         registry'[q] # <<>> /\ registry'[q][1].supersedes = p
                    /\ registry'[q] # <<>> /\ registry'[q][1].supersedes = p =>
                         registry'[p] # <<>> /\ Last(registry'[p]).superseded = q
  BY DEF SupersessionPaired
<1>3. p # 0 /\ q # 0
  BY DEF RegistryConstants
<1>4. ASSUME registry'[p] # <<>>, Last(registry'[p]).superseded = q
      PROVE  registry'[q] # <<>> /\ registry'[q][1].supersedes = p
  <2>1. registry'[p] = registry[p]
    BY <1>3, <1>4
  <2> QED BY <1>2, <1>4, <2>1 DEF SupersessionPaired
<1>5. ASSUME registry'[q] # <<>>, registry'[q][1].supersedes = p
      PROVE  registry'[p] # <<>> /\ Last(registry'[p]).superseded = q
  <2>1. registry[q] # <<>> /\ registry[q][1].supersedes = p
    BY <1>2, <1>3, <1>5
  <2>2. registry[p] # <<>> /\ Last(registry[p]).superseded = q
    BY <2>1 DEF SupersessionPaired
  <2>3. registry'[p][Len(registry[p])].superseded = q /\ Len(registry[p]) \in 1..Len(registry'[p])
    BY <1>1, <2>2 DEF Last
  <2>4. Len(registry[p]) = Len(registry'[p])
    BY <1>2, <1>3, <2>2, <2>3 DEF ChainStands
  <2>5. registry'[p] = registry[p]
    BY <1>1, <2>4
  <2> QED BY <2>2, <2>5
<1> QED BY <1>4, <1>5


-----------------------------------------------------------------------------
(* What the edges say of a pattern.                                        *)

\* A pattern no history has is named by no edge.
LEMMA Unregistered ==
  ASSUME EdgesAreBound, NEW p, registry[p] = <<>>
  PROVE  ConflictsOf(edges, p) = {}
BY DEF EdgesAreBound, ConflictsOf, Derived

\* A new edge changes only the contradictions of its own ends.
LEMMA AffectedAreEnds == ASSUME NEW e PROVE Affected(e) \subseteq e.ends
<1> SUFFICES ASSUME NEW c \in Derived(edges \cup {e}), c \notin Derived(edges) PROVE c.pair = e.ends
  BY DEF Affected
<1>1. PICK g \in edges \cup {e} :
        /\ g.relation = "must_link"
        /\ \E f \in edges \cup {e} : f.ends = g.ends /\ f.relation # "must_link"
        /\ c = [pair |-> g.ends, evidence |-> {f \in edges \cup {e} : f.ends = g.ends}]
  BY DEF Derived
<1>2. ASSUME g.ends # e.ends PROVE FALSE
  <2>1. g \in edges /\ \E f \in edges : f.ends = g.ends /\ f.relation # "must_link"
    BY <1>1, <1>2
  <2>2. {f \in edges \cup {e} : f.ends = g.ends} = {f \in edges : f.ends = g.ends}
    BY <1>2
  <2>3. c \in Derived(edges)
    BY <1>1, <2>1, <2>2 DEF Derived
  <2> QED BY <2>3
<1> QED BY <1>1, <1>2

\* Whoever is not affected by a new edge keeps the contradictions it had.
LEMMA UnaffectedKeep ==
  ASSUME NEW e, NEW p, p \notin Affected(e)
  PROVE  ConflictsOf(edges \cup {e}, p) = ConflictsOf(edges, p)
<1>1. ASSUME NEW c \in ConflictsOf(edges \cup {e}, p) PROVE c \in ConflictsOf(edges, p)
  BY <1>1 DEF ConflictsOf, Affected
<1>2. ASSUME NEW c \in ConflictsOf(edges, p) PROVE c \in ConflictsOf(edges \cup {e}, p)
  <2>1. PICK g \in edges :
          /\ g.relation = "must_link"
          /\ \E f \in edges : f.ends = g.ends /\ f.relation # "must_link"
          /\ c = [pair |-> g.ends, evidence |-> {f \in edges : f.ends = g.ends}]
    BY DEF ConflictsOf, Derived
  <2>2. p \in c.pair
    BY DEF ConflictsOf
  <2> DEFINE d == [pair |-> g.ends, evidence |-> {f \in edges \cup {e} : f.ends = g.ends}]
  <2>3. d \in Derived(edges \cup {e})
    BY <2>1 DEF Derived
  <2>4. CASE d = c
    BY <2>2, <2>3, <2>4 DEF ConflictsOf
  <2>5. CASE d # c
    <3>1. e \in d.evidence /\ e \notin edges
      BY <2>1, <2>5
    <3>2. d \notin Derived(edges)
      <4> SUFFICES ASSUME d \in Derived(edges) PROVE FALSE
        OBVIOUS
      <4>1. d.evidence \subseteq edges
        BY DEF Derived
      <4> QED BY <3>1, <4>1
    <3>3. p \in Affected(e)
      BY <2>1, <2>2, <2>3, <3>2 DEF Affected
    <3> QED BY <3>3
  <2> QED BY <2>4, <2>5
<1> QED BY <1>1, <1>2

-----------------------------------------------------------------------------
(* The steps.                                                              *)

\* No stored revision is changed by the step.
Grows == \A p \in Pattern : IsPrefix(registry[p], registry'[p])

\* A replay stores what is there.
LEMMA ReplayStands ==
  ASSUME RegistryConstants, RegistrySound, NEW op \in Operator, NEW stored,
         NEW recorded \in SUBSET edges, Commit(op, stored, recorded),
         \A p \in Pattern \cap DOMAIN stored : registry[p] # <<>> /\ registry[p] = stored[p]
  PROVE  RegistrySound' /\ Grows
<1>1. registry \in [Pattern -> Seq(Entry)] /\ edges \subseteq FeedbackEdge
  BY DEF RegistrySound, RegistryTypeOK
<1>2. edges' = edges
  BY DEF Commit
<1>3. \A p \in Pattern : registry'[p] = registry[p]
  BY DEF Commit
<1>4. \A p \in Pattern \cap DOMAIN stored : ChainStands(stored[p]) /\ IsPrefix(registry[p], stored[p])
  BY <1>1, SameIsPrefix DEF RegistrySound
<1>5. \A e \in recorded : \A p \in e.ends : registry[p] # <<>>
  BY DEF RegistrySound, EdgesAreBound
<1>6. \A p \in Pattern : ConflictsOf(edges', p) = ConflictsOf(edges, p)
  BY <1>2
<1>7. /\ RegistryTypeOK'
      /\ \A p \in Pattern : registry'[p] # <<>> => ChainStands(registry'[p])
      /\ EdgesAreBound'
      /\ \A o \in Operator : WorkStands(o)'
      /\ Grows
  BY <1>1, <1>4, <1>5, <1>6, StoreStands DEF Grows
<1>8. ContradictionsShown'
  BY <1>3, <1>6 DEF ContradictionsShown, RegistrySound
<1>9. SupersessionPaired'
  BY <1>3 DEF SupersessionPaired, RegistrySound
<1>10. \A p \in Pattern : (registry[p] # <<>> => ChainStands(registry[p]))'
  BY <1>7 DEF ChainStands, Loads, ExpectedEvent
<1> QED BY <1>7, <1>8, <1>9, <1>10 DEF RegistrySound

\* append_history
LEMMA HistoryStored ==
  ASSUME RegistryConstants, RegistrySound, NEW op \in Operator, AppendHistory(op)
  PROVE  RegistrySound' /\ Grows
<1> DEFINE w == work[op]
<1>1. registry \in [Pattern -> Seq(Entry)] /\ edges \subseteq FeedbackEdge
  BY DEF RegistrySound, RegistryTypeOK
<1>2. w.kind = "history" /\ HistoryAccepted(w) /\ Commit(op, w.chains, {}) /\ w # NoWork
  BY DEF AppendHistory
<1>3. HistoryStands(op, w)
  BY <1>2 DEF RegistrySound, WorkStands
<1>4. PICK p \in Pattern : DOMAIN w.chains = {p} /\ DraftStands(op, p, w.chains[p])
  BY <1>3 DEF HistoryStands
<1> DEFINE c == w.chains[p]
           s == registry[p]
<1>5. IsPrefix(s, c) /\ \A i \in Len(s) + 1..Len(c) : RepresentsConflicts(c[i], edges)
  BY <1>2, <1>4 DEF HistoryAccepted, HistoryFits
<1>6. ChainStands(c) /\ Last(c).superseded = 0 /\ Last(c).conflicts = ConflictsOf(edges, p)
      /\ (s = <<>> => c[1].supersedes = 0)
  BY <1>4, <1>5 DEF DraftStands
<1>7. c \in Seq(Entry) /\ c # <<>> /\ Len(c) \in Nat \ {0} /\ s \in Seq(Entry) /\ Len(s) \in Nat
  BY <1>1, <1>6, LastIsEntry DEF ChainStands
<1>8. edges' = edges /\ \A r \in Pattern : registry'[r] = IF r = p THEN c ELSE registry[r]
  BY <1>2, <1>4 DEF Commit
<1>9. \A r \in Pattern : ConflictsOf(edges', r) = ConflictsOf(edges, r)
  BY <1>8
<1>10. \A r \in Pattern \cap DOMAIN w.chains : ChainStands(w.chains[r]) /\ IsPrefix(registry[r], w.chains[r])
  BY <1>4, <1>5, <1>6
<1>11. /\ RegistryTypeOK'
       /\ \A r \in Pattern : registry'[r] # <<>> => ChainStands(registry'[r])
       /\ EdgesAreBound'
       /\ \A o \in Operator : WorkStands(o)'
       /\ Grows
  BY <1>2, <1>9, <1>10, StoreStands DEF Grows
<1>12. s = c \/ Len(c) > Len(s)
  BY <1>5, <1>7, PrefixFacts, SeqEqual
<1>13. ContradictionsShown'
  <2>1. Last(c).state \in {"owner_approved", "active"} => ConflictsOf(edges, p) = {}
    <3>1. CASE s = c
      BY <1>7, <3>1 DEF RegistrySound, ContradictionsShown
    <3>2. CASE Len(c) > Len(s)
      <4>1. RepresentsConflicts(Last(c), edges)
        <5>1. Len(c) \in Len(s) + 1..Len(c)
          BY <1>7, <3>2
        <5>2. Last(c) = c[Len(c)]
          BY DEF Last
        <5> QED BY <1>5, <5>1, <5>2
      <4> QED BY <1>6, <4>1 DEF RepresentsConflicts
    <3> QED BY <1>12, <3>1, <3>2
  <2>2. \A r \in Pattern : registry'[r] # <<>> =>
          /\ Last(registry'[r]).conflicts = ConflictsOf(edges, r)
          /\ Last(registry'[r]).state \in {"owner_approved", "active"} => ConflictsOf(edges, r) = {}
    BY <1>6, <1>8, <2>1 DEF RegistrySound, ContradictionsShown
  <2> QED BY <1>9, <2>2 DEF ContradictionsShown
<1>14. SupersessionPaired'
  <2>1. \A r \in Pattern : \/ registry'[r] = registry[r]
                           \/ /\ Len(registry'[r]) > Len(registry[r])
                              /\ Last(registry'[r]).superseded = 0
                              /\ registry[r] = <<>> => registry'[r][1].supersedes = 0
    BY <1>6, <1>8, <1>12
  <2> QED BY <1>11, <2>1, PairingKept DEF RegistrySound, Grows
<1>15. \A r \in Pattern : (registry[r] # <<>> => ChainStands(registry[r]))'
  BY <1>11 DEF ChainStands, Loads, ExpectedEvent
<1> QED BY <1>11, <1>13, <1>14, <1>15 DEF RegistrySound


\* apply_plan: a rollback, or a supersession with its replacement.
LEMMA PlanStored ==
  ASSUME RegistryConstants, RegistrySound, NEW op \in Operator, ApplyPlan(op)
  PROVE  RegistrySound' /\ Grows
<1> DEFINE w == work[op]
<1>1. registry \in [Pattern -> Seq(Entry)] /\ edges \subseteq FeedbackEdge
  BY DEF RegistrySound, RegistryTypeOK
<1>2. w.kind = "plan" /\ PlanAccepted(w) /\ Commit(op, w.chains, {}) /\ w # NoWork
  BY DEF ApplyPlan
<1>3. EdgePlanned(w)
  BY <1>2 DEF RegistrySound, WorkStands
<1>4. PICK p \in Pattern :
        /\ p \in DOMAIN w.chains /\ Revises(w.chains[p])
        /\ \/ DOMAIN w.chains = {p} /\ Last(w.chains[p]).superseded = 0
           \/ \E q \in Pattern \ {p} :
                /\ DOMAIN w.chains = {p, q} /\ Last(w.chains[p]).superseded = q
                /\ ChainStands(w.chains[q]) /\ Len(w.chains[q]) = 1
                /\ w.chains[q][1].supersedes = p /\ w.chains[q][1].superseded = 0
                /\ w.chains[q][1].conflicts = {}
  BY <1>3 DEF EdgePlanned
<1>5. \A r \in DOMAIN w.chains : r \in Pattern /\ ChainStands(w.chains[r])
  BY <1>4 DEF Revises
<1> DEFINE c == w.chains[p]
           s == registry[p]
<1>6. CASE PlanReplayed(w.chains)
  <2>1. \A r \in Pattern \cap DOMAIN w.chains : registry[r] # <<>> /\ registry[r] = w.chains[r]
    BY <1>5, <1>6 DEF PlanReplayed, ChainStands
  <2> QED BY <1>2, <2>1, ReplayStands
<1>7. CASE PlanFits(w.chains)
  <2>1. \A r \in DOMAIN w.chains :
          /\ RepresentsConflicts(Last(w.chains[r]), edges) /\ registry[r] = Front(w.chains[r])
          /\ w.chains[r] \in Seq(Entry) /\ w.chains[r] # <<>>
    BY <1>5, <1>7 DEF PlanFits, Appendable, ChainStands
  <2>2. \A r \in Pattern \cap DOMAIN w.chains : ChainStands(w.chains[r]) /\ IsPrefix(registry[r], w.chains[r])
    BY <1>5, <2>1, FrontIsPrefix
  <2>3. edges' = edges /\ \A r \in Pattern : registry'[r] = IF r \in DOMAIN w.chains THEN w.chains[r] ELSE registry[r]
    BY <1>2 DEF Commit
  <2>4. \A r \in Pattern : ConflictsOf(edges', r) = ConflictsOf(edges, r)
    BY <2>3
  <2>5. /\ RegistryTypeOK'
        /\ \A r \in Pattern : registry'[r] # <<>> => ChainStands(registry'[r])
        /\ EdgesAreBound'
        /\ \A o \in Operator : WorkStands(o)'
        /\ Grows
    BY <1>2, <2>2, <2>4, StoreStands DEF Grows
  <2>6. /\ Len(c) \in Nat /\ Len(c) > 1 /\ Last(c).conflicts = Last(s).conflicts /\ s = Front(c) /\ Len(s) = Len(c) - 1
        /\ s # <<>> /\ s \in Seq(Entry) /\ ChainStands(c) /\ c \in Seq(Entry)
        /\ \A i \in 1..Len(s) : c[i] = s[i]
    <3>1. /\ ChainStands(c) /\ c \in Seq(Entry) /\ c # <<>> /\ Len(c) > 1 /\ s = Front(c)
          /\ Last(c).conflicts = Last(Front(c)).conflicts
      BY <1>4, <2>1 DEF Revises
    <3>2. Len(c) \in Nat /\ Len(s) = Len(c) - 1 /\ s \in Seq(Entry) /\ \A i \in 1..Len(s) : c[i] = s[i]
      BY <3>1, FrontFacts
    <3>3. s # <<>>
      BY <3>1, <3>2
    <3> QED BY <3>1, <3>2, <3>3
  <2>7. ASSUME NEW r \in DOMAIN w.chains PROVE Last(w.chains[r]).conflicts = ConflictsOf(edges, r)
    <3>1. CASE r = p
      BY <2>6, <3>1 DEF RegistrySound, ContradictionsShown
    <3>2. CASE r # p
      <4>1. Len(w.chains[r]) = 1 /\ w.chains[r][1].conflicts = {} /\ w.chains[r] \in Seq(Entry) /\ w.chains[r] # <<>>
        BY <1>4, <2>1, <3>2
      <4>2. Last(w.chains[r]).conflicts = {}
        BY <4>1 DEF Last
      <4>3. registry[r] = <<>>
        BY <2>1, <4>1, FrontFacts, EmptySeq
      <4> QED BY <4>2, <4>3, Unregistered DEF RegistrySound
    <3> QED BY <3>1, <3>2
  <2>8. ContradictionsShown'
    <3>1. \A r \in DOMAIN w.chains :
            Last(w.chains[r]).state \in {"owner_approved", "active"} => ConflictsOf(edges, r) = {}
      BY <2>1, <2>7 DEF RepresentsConflicts
    <3>2. \A r \in Pattern : registry'[r] # <<>> =>
            /\ Last(registry'[r]).conflicts = ConflictsOf(edges, r)
            /\ Last(registry'[r]).state \in {"owner_approved", "active"} => ConflictsOf(edges, r) = {}
      BY <2>3, <2>7, <3>1 DEF RegistrySound, ContradictionsShown
    <3> QED BY <2>4, <3>2 DEF ContradictionsShown
  <2>9. SupersessionPaired'
    <3>1. CASE DOMAIN w.chains = {p} /\ Last(c).superseded = 0
      <4>1. \A r \in Pattern : \/ registry'[r] = registry[r]
                               \/ /\ Len(registry'[r]) > Len(registry[r])
                                  /\ Last(registry'[r]).superseded = 0
                                  /\ registry[r] = <<>> => registry'[r][1].supersedes = 0
        BY <2>3, <2>6, <3>1
      <4> QED BY <2>5, <4>1, PairingKept DEF RegistrySound, Grows
    <3>2. ASSUME NEW q \in Pattern \ {p}, DOMAIN w.chains = {p, q}, Last(c).superseded = q,
                 Len(w.chains[q]) = 1, w.chains[q][1].supersedes = p, w.chains[q][1].superseded = 0
          PROVE  SupersessionPaired'
      <4>1. registry'[p] = c /\ registry'[q] = w.chains[q] /\ registry[q] = <<>> /\ registry'[q] # <<>>
            /\ Last(registry'[q]).superseded = 0
            /\ \A r \in Pattern \ {p, q} : registry'[r] = registry[r]
        <5>1. w.chains[q] \in Seq(Entry) /\ w.chains[q] # <<>> /\ registry[q] = Front(w.chains[q])
          BY <2>1, <3>2
        <5>2. registry[q] = <<>>
          BY <3>2, <5>1, FrontFacts, EmptySeq
        <5>3. Last(w.chains[q]).superseded = 0
          BY <3>2, <5>1 DEF Last
        <5> QED BY <2>3, <3>2, <5>1, <5>2, <5>3
      <4>2. registry'[p][1] = registry[p][1] /\ registry'[p] # <<>> /\ registry[p] # <<>>
        BY <2>6, <4>1
      <4>3. Last(registry[p]).superseded = 0
        <5>1. c[Len(s)] = Last(s) /\ Len(s) \in 1..Len(c) /\ Len(s) # Len(c)
          <6>1. Len(s) \in Nat \ {0}
            BY <2>6, EmptySeq
          <6>2. Len(s) \in 1..Len(s) /\ Last(s) = s[Len(s)]
            BY <6>1 DEF Last
          <6> HIDE DEF s, c
          <6> QED BY <2>6, <6>1, <6>2
        <5> QED BY <2>6, <5>1 DEF ChainStands
      <4>4. 0 \notin Pattern
        BY DEF RegistryConstants
      <4>5. \A a, b \in Pattern :
              /\ registry'[a] # <<>> /\ Last(registry'[a]).superseded = b =>
                   registry'[b] # <<>> /\ registry'[b][1].supersedes = a
              /\ registry'[b] # <<>> /\ registry'[b][1].supersedes = a =>
                   registry'[a] # <<>> /\ Last(registry'[a]).superseded = b
        <5> TAKE a, b \in Pattern
        <5>0. /\ registry[a] # <<>> /\ Last(registry[a]).superseded = b =>
                   registry[b] # <<>> /\ registry[b][1].supersedes = a
              /\ registry[b] # <<>> /\ registry[b][1].supersedes = a =>
                   registry[a] # <<>> /\ Last(registry[a]).superseded = b
          BY DEF RegistrySound, SupersessionPaired
        <5>1. ASSUME registry'[a] # <<>>, Last(registry'[a]).superseded = b
              PROVE  registry'[b] # <<>> /\ registry'[b][1].supersedes = a
          <6>1. CASE a = p
            BY <3>2, <4>1, <5>1, <6>1
          <6>2. CASE a = q
            BY <4>1, <4>4, <5>1, <6>2
          <6>3. CASE a \notin {p, q}
            BY <4>1, <4>2, <5>0, <5>1, <6>3
          <6> QED BY <6>1, <6>2, <6>3
        <5>2. ASSUME registry'[b] # <<>>, registry'[b][1].supersedes = a
              PROVE  registry'[a] # <<>> /\ Last(registry'[a]).superseded = b
          <6>1. CASE b = q
            BY <3>2, <4>1, <4>2, <5>2, <6>1
          <6>2. CASE b # q
            <7>1. registry[b] # <<>> /\ registry[b][1].supersedes = a
              BY <4>1, <4>2, <5>2, <6>2
            <7>2. a # q /\ a # p
              BY <4>1, <4>3, <4>4, <5>0, <7>1
            <7> QED BY <4>1, <5>0, <7>1, <7>2
          <6> QED BY <6>1, <6>2
        <5> QED BY <5>1, <5>2
      <4> QED BY <4>5 DEF SupersessionPaired
    <3> QED BY <1>4, <3>1, <3>2
  <2>10. \A r \in Pattern : (registry[r] # <<>> => ChainStands(registry[r]))'
    BY <2>5 DEF ChainStands, Loads, ExpectedEvent
  <2> QED BY <2>5, <2>8, <2>9, <2>10 DEF RegistrySound
<1> QED BY <1>2, <1>6, <1>7 DEF PlanAccepted


\* append_edge and append_edge_and_revisions
LEMMA EdgeStored ==
  ASSUME RegistryConstants, RegistrySound, NEW op \in Operator, AppendEdge(op)
  PROVE  RegistrySound' /\ Grows
<1> DEFINE w == work[op]
           e == w.edge
<1>1. registry \in [Pattern -> Seq(Entry)] /\ edges \subseteq FeedbackEdge
  BY DEF RegistrySound, RegistryTypeOK
<1>2. w.kind = "edge" /\ EdgeAccepted(w) /\ Commit(op, w.chains, {e}) /\ w # NoWork
  BY DEF AppendEdge
<1>3. JudgementStands(op, w)
  BY <1>2 DEF RegistrySound, WorkStands
<1>4. /\ e \in FeedbackEdge /\ \A p \in e.ends : registry[p] # <<>>
      /\ DOMAIN w.chains \subseteq Pattern
      /\ \A p \in DOMAIN w.chains :
           ChainStands(w.chains[p]) /\ Len(w.chains[p]) > 1 /\ Last(w.chains[p]).actor = op
  BY <1>3 DEF JudgementStands
<1>5. edges' = edges \cup {e}
      /\ \A p \in Pattern : registry'[p] = IF p \in DOMAIN w.chains THEN w.chains[p] ELSE registry[p]
  BY <1>2 DEF Commit
<1>6. CASE w.chains = <<>> /\ EdgeFits(e, w.heads)
  <2>1. \A p \in Pattern : ConflictsOf(edges', p) = ConflictsOf(edges, p)
    BY <1>5, <1>6 DEF EdgeFits, ConflictsOf
  <2>2. DOMAIN w.chains = {}
    BY <1>6
  <2>3. \A p \in Pattern : registry'[p] = registry[p]
    BY <1>5, <2>2
  <2>4. /\ RegistryTypeOK'
        /\ \A p \in Pattern : registry'[p] # <<>> => ChainStands(registry'[p])
        /\ EdgesAreBound'
        /\ \A o \in Operator : WorkStands(o)'
        /\ Grows
    BY <1>2, <1>4, <2>1, <2>2, StoreStands DEF Grows
  <2>5. ContradictionsShown'
    BY <2>1, <2>3 DEF ContradictionsShown, RegistrySound
  <2>6. SupersessionPaired'
    BY <2>3 DEF SupersessionPaired, RegistrySound
  <2>7. \A p \in Pattern : (registry[p] # <<>> => ChainStands(registry[p]))'
    BY <2>4 DEF ChainStands, Loads, ExpectedEvent
  <2> QED BY <2>4, <2>5, <2>6, <2>7 DEF RegistrySound
<1>7. CASE ConflictReplayed(e, w.chains)
  <2>1. \A p \in Pattern \cap DOMAIN w.chains : registry[p] # <<>> /\ registry[p] = w.chains[p]
    BY <1>4, <1>7 DEF ConflictReplayed, ChainStands
  <2>2. {e} \subseteq edges
    BY <1>7 DEF ConflictReplayed
  <2> QED BY <1>2, <2>1, <2>2, ReplayStands
<1>8. CASE ConflictFits(e, w.heads, w.chains)
  <2>1. DOMAIN w.chains = Affected(e)
    BY <1>8 DEF ConflictFits
  <2>2. ASSUME NEW p \in DOMAIN w.chains
        PROVE  LET c == w.chains[p] IN
               /\ p \in Pattern /\ c \in Seq(Entry) /\ c # <<>> /\ registry[p] = Front(c)
               /\ registry[p] # <<>> /\ Len(c) = Len(registry[p]) + 1 /\ c[Len(registry[p]) + 1].actor = op
               /\ Last(c).conflicts = ConflictsOf(edges', p) /\ Last(c).superseded = 0
               /\ Last(c).state \in {"owner_approved", "active"} => ConflictsOf(edges', p) = {}
    <3> DEFINE c == w.chains[p]
    <3>1. p \in Pattern /\ ChainStands(c) /\ Len(c) > 1 /\ Last(c).actor = op /\ c \in Seq(Entry) /\ c # <<>>
      BY <1>4 DEF ChainStands
    <3>2. RevisesConflict(p, c, edges') /\ Appendable(p, c, edges')
      BY <1>5, <1>8 DEF ConflictFits
    <3> HIDE DEF c
    <3>3. registry[p] = Front(c) /\ RepresentsConflicts(Last(c), edges')
      BY <3>2 DEF Appendable
    <3>4. Last(c).conflicts = ConflictsOf(edges', p) /\ Last(c).state # "retired"
      BY <3>2 DEF RevisesConflict
    <3>5. Last(c).superseded = 0
      BY <3>1, <3>4, OpenChains
    <3>6. Len(c) \in Nat \ {0} /\ Len(registry[p]) = Len(c) - 1
      BY <3>1, <3>3, FrontFacts
    <3>7. registry[p] # <<>> /\ Len(c) = Len(registry[p]) + 1
      BY <3>1, <3>6
    <3>8. c[Len(registry[p]) + 1].actor = op
      BY <3>1, <3>7 DEF Last
    <3>9. Last(c).state \in {"owner_approved", "active"} => ConflictsOf(edges', p) = {}
      BY <3>3, <3>4 DEF RepresentsConflicts
    <3> QED BY <3>1, <3>3, <3>4, <3>5, <3>7, <3>8, <3>9 DEF c
  <2>3. \A p \in Pattern \ DOMAIN w.chains : registry'[p] = registry[p] /\ ConflictsOf(edges', p) = ConflictsOf(edges, p)
    BY <1>5, <2>1, UnaffectedKeep
  <2>4. \A p \in DOMAIN w.chains : registry'[p] = w.chains[p] /\ Len(registry[p]) \in Nat
    BY <1>1, <1>5, <2>2
  <2>5. \A p \in Pattern \cap DOMAIN w.chains : ChainStands(w.chains[p]) /\ IsPrefix(registry[p], w.chains[p])
    BY <1>4, <2>2, FrontIsPrefix
  <2>6. \A o \in Operator, p \in Pattern :
          \/ ConflictsOf(edges', p) = ConflictsOf(edges, p)
          \/ work[o] = NoWork \/ work[o].kind # "history"
          \/ Len(registry'[p]) > Len(registry[p]) /\ registry'[p][Len(registry[p]) + 1].actor # o
    <3> TAKE o \in Operator, p \in Pattern
    <3>1. CASE p \notin DOMAIN w.chains
      BY <2>3, <3>1
    <3>2. CASE p \in DOMAIN w.chains /\ o = op
      BY <1>2, <3>2
    <3>3. CASE p \in DOMAIN w.chains /\ o # op
      <4>1. registry'[p] = w.chains[p] /\ Len(w.chains[p]) = Len(registry[p]) + 1 /\ Len(registry[p]) \in Nat
            /\ w.chains[p][Len(registry[p]) + 1].actor = op
        BY <2>2, <2>4, <3>3
      <4> QED BY <3>3, <4>1
    <3> QED BY <3>1, <3>2, <3>3
  <2>7. /\ RegistryTypeOK'
        /\ \A p \in Pattern : registry'[p] # <<>> => ChainStands(registry'[p])
        /\ EdgesAreBound'
        /\ \A o \in Operator : WorkStands(o)'
        /\ Grows
    BY <1>2, <1>4, <2>5, <2>6, StoreStands DEF Grows
  <2>8. ContradictionsShown'
    <3>1. ASSUME NEW p \in Pattern, registry'[p] # <<>>
          PROVE  /\ Last(registry'[p]).conflicts = ConflictsOf(edges', p)
                 /\ Last(registry'[p]).state \in {"owner_approved", "active"} => ConflictsOf(edges', p) = {}
      <4>1. CASE p \in DOMAIN w.chains
        BY <2>2, <2>4, <4>1
      <4>2. CASE p \notin DOMAIN w.chains
        BY <2>3, <3>1, <4>2 DEF RegistrySound, ContradictionsShown
      <4> QED BY <4>1, <4>2
    <3> QED BY <3>1 DEF ContradictionsShown
  <2>9. SupersessionPaired'
    <3>1. ASSUME NEW p \in Pattern
          PROVE  \/ registry'[p] = registry[p]
                 \/ /\ Len(registry'[p]) > Len(registry[p])
                    /\ Last(registry'[p]).superseded = 0
                    /\ registry[p] = <<>> => registry'[p][1].supersedes = 0
      <4>1. CASE p \in DOMAIN w.chains
        <5>1. registry'[p] = w.chains[p] /\ Len(w.chains[p]) = Len(registry[p]) + 1 /\ Len(registry[p]) \in Nat
              /\ registry[p] # <<>> /\ Last(w.chains[p]).superseded = 0
          BY <2>2, <2>4, <4>1
        <5> QED BY <5>1
      <4>2. CASE p \notin DOMAIN w.chains
        BY <2>3, <4>2
      <4> QED BY <4>1, <4>2
    <3> QED BY <2>7, <3>1, PairingKept DEF RegistrySound, Grows
  <2>10. \A p \in Pattern : (registry[p] # <<>> => ChainStands(registry[p]))'
    BY <2>7 DEF ChainStands, Loads, ExpectedEvent
  <2> QED BY <2>7, <2>8, <2>9, <2>10 DEF RegistrySound
<1> QED BY <1>2, <1>6, <1>7, <1>8 DEF EdgeAccepted

\* A step that only gives operators other work, or none.
LEMMA WorkKept ==
  ASSUME RegistrySound, UNCHANGED <<registry, edges>>, DOMAIN work' = Operator,
         \A o \in Operator : LET w == work'[o] IN
           \/ w = work[o] \/ w = NoWork
           \/ w.kind = "history" /\ HistoryStands(o, w)
           \/ w.kind = "plan" /\ EdgePlanned(w)
           \/ w.kind = "edge" /\ JudgementStands(o, w)
  PROVE  RegistrySound' /\ Grows
<1>1. registry \in [Pattern -> Seq(Entry)] /\ edges \subseteq FeedbackEdge
  BY DEF RegistrySound, RegistryTypeOK
<1>2. registry' = registry /\ edges' = edges
  OBVIOUS
<1>3. RegistryTypeOK'
  BY <1>1, <1>2 DEF RegistryTypeOK
<1>4. ASSUME NEW o \in Operator PROVE WorkStands(o)'
  <2>1. ASSUME NEW u, u = work'[o] PROVE WorkStands(o)'
    <3>1. \/ u = NoWork
          \/ u.kind = "history" /\ HistoryStands(o, u)
          \/ u.kind = "plan" /\ EdgePlanned(u)
          \/ u.kind = "edge" /\ JudgementStands(o, u)
      BY <2>1 DEF RegistrySound, WorkStands
    <3>2. CASE u = NoWork
      BY <2>1, <3>2 DEF WorkStands
    <3>3. CASE u.kind = "history" /\ HistoryStands(o, u)
      <4>1. HistoryStands(o, u)'
        BY <1>2, <3>3 DEF HistoryStands, DraftStands, ChainStands
      <4> QED BY <2>1, <3>3, <4>1 DEF WorkStands
    <3>4. CASE u.kind = "plan" /\ EdgePlanned(u)
      <4>1. EdgePlanned(u)'
        BY <3>4 DEF EdgePlanned, Revises, ChainStands
      <4> QED BY <2>1, <3>4, <4>1 DEF WorkStands
    <3>5. CASE u.kind = "edge" /\ JudgementStands(o, u)
      <4>1. JudgementStands(o, u)'
        BY <1>2, <3>5 DEF JudgementStands, ChainStands
      <4> QED BY <2>1, <3>5, <4>1 DEF WorkStands
    <3> QED BY <3>1, <3>2, <3>3, <3>4, <3>5
  <2> QED BY <2>1
<1>5. \A p \in Pattern : (registry[p] # <<>> => ChainStands(registry[p]))'
  BY <1>2 DEF RegistrySound, ChainStands
<1>6. EdgesAreBound' /\ ContradictionsShown' /\ SupersessionPaired'
  BY <1>2 DEF RegistrySound, EdgesAreBound, ContradictionsShown, SupersessionPaired
<1>7. Grows
  BY <1>1, <1>2, SameIsPrefix DEF Grows
<1> QED BY <1>3, <1>4, <1>5, <1>6, <1>7 DEF RegistrySound

\* One operator's work is replaced.
LEMMA WorkStored ==
  ASSUME RegistrySound, UNCHANGED <<registry, edges>>, NEW op \in Operator, NEW w,
         work' = [work EXCEPT ![op] = w],
         \/ w = NoWork
         \/ w.kind = "history" /\ HistoryStands(op, w)
         \/ w.kind = "plan" /\ EdgePlanned(w)
         \/ w.kind = "edge" /\ JudgementStands(op, w)
  PROVE  RegistrySound' /\ Grows
<1>1. DOMAIN work = Operator
  BY DEF RegistrySound, RegistryTypeOK
<1>2. DOMAIN work' = Operator /\ \A o \in Operator : work'[o] = IF o = op THEN w ELSE work[o]
  BY <1>1
<1>3. ASSUME NEW o \in Operator
      PROVE  LET u == work'[o] IN
             \/ u = work[o] \/ u = NoWork
             \/ u.kind = "history" /\ HistoryStands(o, u)
             \/ u.kind = "plan" /\ EdgePlanned(u)
             \/ u.kind = "edge" /\ JudgementStands(o, u)
  BY <1>2
<1> QED BY <1>2, <1>3, WorkKept

\* A first revision of what was loaded.
LEMMA DraftDrafts ==
  ASSUME RegistryConstants, RegistrySound, NEW op \in Operator, Draft(op)
  PROVE  RegistrySound' /\ Grows
<1>1. PICK p \in Pattern : \E chain \in NextHistories(p, registry[p], op) :
             Take(op, [kind |-> "history", chains |-> [r \in {p} |-> chain]])
  BY DEF Draft
<1>2. PICK d \in NextHistories(p, registry[p], op) :
             Take(op, [kind |-> "history", chains |-> [r \in {p} |-> d]])
  BY <1>1
<1> DEFINE w == [kind |-> "history", chains |-> [r \in {p} |-> d]]
           s == registry[p]
<1>3. edges \subseteq FeedbackEdge /\ s \in Seq(Entry) /\ Len(s) \in Nat
      /\ (s = <<>> \/ ChainStands(s))
  BY DEF RegistrySound, RegistryTypeOK
<1>4. PICK e \in Entry : /\ d = Append(s, e) /\ ChainStands(d) /\ e.actor = op /\ e.superseded = 0
                         /\ s = <<>> => e.supersedes = 0 /\ e.conflicts = {}
                         /\ s # <<>> => e.conflicts \in {Last(s).conflicts, ConflictsOf(edges, p)}
  BY <1>3, HistoriesStand
<1>5. e.conflicts = ConflictsOf(edges, p)
  BY <1>4, Unregistered DEF RegistrySound, ContradictionsShown
<1>6. Last(d) = e /\ Len(d) = Len(s) + 1 /\ d[Len(s) + 1] = e
  BY <1>3, <1>4, AppendFacts
<1>7. DraftStands(op, p, d)
  <2>1. s = <<>> => d[1] = e
    BY <1>6
  <2>2. \A i \in Len(s) + 1..Len(d) : d[i].actor = op
    BY <1>3, <1>4, <1>6
  <2> QED BY <1>4, <1>5, <1>6, <2>1, <2>2 DEF DraftStands
<1>8. w.kind = "history" /\ HistoryStands(op, w)
  BY <1>7 DEF HistoryStands
<1>9. work' = [work EXCEPT ![op] = w] /\ UNCHANGED <<registry, edges>>
  BY <1>2 DEF Take
<1> QED BY <1>8, <1>9, WorkStored

\* One more revision of it: others may have stored the same, or more, since.
LEMMA ExtendDrafts ==
  ASSUME RegistryConstants, RegistrySound, NEW op \in Operator, Extend(op)
  PROVE  RegistrySound' /\ Grows
<1>1. work[op] # NoWork /\ work[op].kind = "history"
  BY DEF Extend
<1>2. HistoryStands(op, work[op])
  BY <1>1 DEF RegistrySound, WorkStands
<1>3. PICK p \in Pattern : DOMAIN work[op].chains = {p} /\ DraftStands(op, p, work[op].chains[p])
  BY <1>2 DEF HistoryStands
<1> DEFINE c == work[op].chains[p]
           s == registry[p]
<1>4. PICK d \in NextHistories(p, c, op) :
        work' = [work EXCEPT ![op] = [kind |-> "history", chains |-> [r \in {p} |-> d]]]
  BY <1>3 DEF Extend
<1> DEFINE w == [kind |-> "history", chains |-> [r \in {p} |-> d]]
<1>5. edges \subseteq FeedbackEdge /\ s \in Seq(Entry) /\ Len(s) \in Nat
  BY DEF RegistrySound, RegistryTypeOK
<1>6. /\ ChainStands(c) /\ c \in Seq(Entry) /\ c # <<>> /\ Len(c) \in Nat \ {0}
      /\ s = <<>> => c[1].supersedes = 0
      /\ \A i \in Len(s) + 1..Len(c) : c[i].actor = op
      /\ IsPrefix(s, c) => Last(c).conflicts = ConflictsOf(edges, p)
  BY <1>3, EmptySeq DEF DraftStands, ChainStands
<1> HIDE DEF c, s
<1>7. PICK e \in Entry : /\ d = Append(c, e) /\ ChainStands(d) /\ e.actor = op /\ e.superseded = 0
                         /\ e.conflicts \in {Last(c).conflicts, ConflictsOf(edges, p)}
  BY <1>4, <1>5, <1>6, HistoriesStand
<1>8. /\ Last(d) = e /\ Len(d) = Len(c) + 1 /\ d[Len(c) + 1] = e /\ d \in Seq(Entry) /\ d # <<>>
      /\ \A i \in 1..Len(c) : d[i] = c[i]
  BY <1>6, <1>7, AppendFacts
<1>9. ASSUME IsPrefix(s, d) PROVE e.conflicts = ConflictsOf(edges, p)
  <2>1. Len(s) <= Len(d) /\ \A i \in 1..Len(s) : s[i] = d[i]
    BY <1>5, <1>8, <1>9, PrefixFacts
  <2>2. CASE Len(s) <= Len(c)
    <3>1. IsPrefix(s, c)
      BY <1>5, <1>6, <1>8, <2>1, <2>2, PrefixFacts
    <3> QED BY <1>6, <1>7, <3>1
  <2>3. CASE Len(s) = Len(c) + 1
    <3>1. s = d
      BY <1>5, <1>8, <2>1, <2>3, SeqEqual
    <3> QED BY <1>8, <3>1 DEF s, RegistrySound, ContradictionsShown
  <2> QED BY <1>5, <1>6, <1>8, <2>1, <2>2, <2>3
<1>10. DraftStands(op, p, d)
  <2>1. s = <<>> => d[1].supersedes = 0
    BY <1>6, <1>8
  <2>2. \A i \in Len(s) + 1..Len(d) : d[i].actor = op
    BY <1>5, <1>6, <1>7, <1>8
  <2> QED BY <1>7, <1>8, <1>9, <2>1, <2>2 DEF DraftStands, s
<1>11. w.kind = "history" /\ HistoryStands(op, w)
  BY <1>10 DEF HistoryStands
<1>12. UNCHANGED <<registry, edges>>
  BY DEF Extend
<1> QED BY <1>4, <1>11, <1>12, WorkStored

\* plan_rollback
LEMMA RollbackPlans ==
  ASSUME RegistryConstants, RegistrySound, NEW op \in Operator, PlanRollback(op)
  PROVE  RegistrySound' /\ Grows
<1>1. PICK p \in {p \in Pattern : registry[p] # <<>>} : \E chain \in RollBackPlan(registry[p], op) :
        Take(op, [kind |-> "plan", chains |-> [r \in {p} |-> chain]])
  BY DEF PlanRollback
<1>2. PICK d \in RollBackPlan(registry[p], op) :
        Take(op, [kind |-> "plan", chains |-> [r \in {p} |-> d]])
  BY <1>1
<1> DEFINE w == [kind |-> "plan", chains |-> [r \in {p} |-> d]]
           s == registry[p]
<1>3. ChainStands(s) /\ s \in Seq(Entry) /\ Len(s) \in Nat \ {0}
  BY LastIsEntry DEF RegistrySound, ChainStands
<1>4. PICK e \in Entry : /\ d = Append(s, e) /\ ChainStands(d)
                         /\ e.conflicts = Last(s).conflicts /\ e.superseded = 0
  BY <1>3, RollBacksStand
<1>5. Last(d) = e /\ Len(d) = Len(s) + 1 /\ Front(d) = s
  BY <1>3, <1>4, AppendFacts
<1>6. Revises(d)
  BY <1>3, <1>4, <1>5 DEF Revises
<1>7. w.kind = "plan" /\ EdgePlanned(w)
  BY <1>4, <1>5, <1>6 DEF EdgePlanned
<1>8. work' = [work EXCEPT ![op] = w] /\ UNCHANGED <<registry, edges>>
  BY <1>2 DEF Take
<1> QED BY <1>7, <1>8, WorkStored

\* plan_supersession
LEMMA SupersessionPlans ==
  ASSUME RegistryConstants, RegistrySound, NEW op \in Operator, PlanSupersession(op)
  PROVE  RegistrySound' /\ Grows
<1>1. PICK p \in {x \in Pattern : registry[x] # <<>>}, q \in Pattern :
        \E chains \in SupersessionPlan(p, registry[p], q, op) :
          Take(op, [kind |-> "plan", chains |-> chains])
  BY DEF PlanSupersession
<1>2. PICK chains \in SupersessionPlan(p, registry[p], q, op) :
        Take(op, [kind |-> "plan", chains |-> chains])
  BY <1>1
<1> DEFINE w == [kind |-> "plan", chains |-> chains]
<1>3. ChainStands(registry[p])
  BY DEF RegistrySound
<1>4. w.kind = "plan" /\ EdgePlanned(w)
  <2>1. w.chains \in SupersessionPlan(p, registry[p], q, op)
    OBVIOUS
  <2> HIDE DEF w
  <2>2. EdgePlanned(w)
    BY <1>3, <2>1, SupersessionsStand
  <2> QED BY <2>2 DEF w
<1>5. work' = [work EXCEPT ![op] = w] /\ UNCHANGED <<registry, edges>>
  BY <1>2 DEF Take
<1> QED BY <1>4, <1>5, WorkStored

\* An edge, with the revisions its contradiction calls for.
LEMMA JudgeDrafts ==
  ASSUME RegistryConstants, RegistrySound, NEW op \in Operator, Judge(op)
  PROVE  RegistrySound' /\ Grows
<1> DEFINE Rev(e, p) == WithConflicts(registry[p], ConflictsOf(edges \cup {e}, p), op)
           W(e) == [kind |-> "edge", edge |-> e, heads |-> [p \in e.ends |-> registry[p]],
                    chains |-> [p \in Affected(e) |-> CHOOSE chain \in Rev(e, p) : TRUE]]
<1>1. PICK e \in FeedbackEdge : /\ \A p \in e.ends : registry[p] # <<>>
                                /\ \A p \in Affected(e) : Rev(e, p) # {}
                                /\ Take(op, W(e))
  BY DEF Judge
<1> DEFINE w == W(e)
<1>2. e.ends \subseteq Pattern /\ Affected(e) \subseteq e.ends /\ edges \cup {e} \subseteq FeedbackEdge
  BY AffectedAreEnds DEF RegistryConstants, RegistrySound, RegistryTypeOK
<1>3. w.kind = "edge" /\ w.edge = e /\ DOMAIN w.chains = Affected(e)
      /\ \A p \in Affected(e) : w.chains[p] \in Rev(e, p)
  BY <1>1
<1> HIDE DEF w, W
<1>4. ASSUME NEW p \in Affected(e)
      PROVE  ChainStands(w.chains[p]) /\ Len(w.chains[p]) > 1 /\ Last(w.chains[p]).actor = op
  <2>1. p \in Pattern /\ registry[p] # <<>>
    BY <1>1, <1>2
  <2>2. ChainStands(registry[p]) /\ registry[p] \in Seq(Entry) /\ Len(registry[p]) \in Nat \ {0}
    BY <2>1, LastIsEntry DEF RegistrySound, ChainStands
  <2>3. ConflictsOf(edges \cup {e}, p) \in SUBSET Contradiction
    BY <1>2, ConflictsAre
  <2> DEFINE conflicts == ConflictsOf(edges \cup {e}, p)
  <2>4. w.chains[p] \in WithConflicts(registry[p], conflicts, op) /\ conflicts \in SUBSET Contradiction
    BY <1>3, <2>3
  <2> HIDE DEF conflicts
  <2>5. PICK f \in Entry : w.chains[p] = Append(registry[p], f) /\ ChainStands(w.chains[p]) /\ f.actor = op
    <3>1. ASSUME NEW c, c = registry[p], NEW d, d = w.chains[p]
          PROVE  \E f \in Entry : d = Append(c, f) /\ ChainStands(d) /\ f.actor = op
      <4>1. ChainStands(c) /\ d \in WithConflicts(c, conflicts, op) /\ conflicts \in SUBSET Contradiction
        BY <2>2, <2>4, <3>1
      <4> QED BY <4>1, ConflictsStand
    <3> QED BY <3>1
  <2>6. Last(w.chains[p]) = f /\ Len(w.chains[p]) = Len(registry[p]) + 1
    BY <2>2, <2>5, AppendFacts
  <2> QED BY <2>2, <2>5, <2>6
<1>5. JudgementStands(op, w)
  BY <1>1, <1>2, <1>3, <1>4 DEF JudgementStands
<1>6. work' = [work EXCEPT ![op] = w] /\ UNCHANGED <<registry, edges>>
  BY <1>1 DEF Take, w
<1> QED BY <1>3, <1>5, <1>6, WorkStored

\* A refused transaction leaves the store as it was.
LEMMA RefuseGivesUp ==
  ASSUME RegistrySound, NEW op \in Operator, Refuse(op)
  PROVE  RegistrySound' /\ Grows
BY WorkStored DEF Refuse

\* The empty store.
LEMMA RegistryStarts == ASSUME RegistryInit PROVE RegistrySound
<1>1. RegistryTypeOK
  BY DEF RegistryInit, RegistryTypeOK
<1>2. \A p \in Pattern : registry[p] = <<>>
  BY DEF RegistryInit
<1>3. EdgesAreBound /\ ContradictionsShown /\ SupersessionPaired
  BY <1>2 DEF RegistryInit, EdgesAreBound, ContradictionsShown, SupersessionPaired
<1>4. \A op \in Operator : WorkStands(op)
  BY DEF RegistryInit, WorkStands
<1> QED BY <1>1, <1>2, <1>3, <1>4 DEF RegistrySound

\* Every step.
LEMMA RegistryMoves ==
  ASSUME RegistryConstants, RegistrySound, RegistryNext
  PROVE  RegistrySound' /\ Grows /\ edges \subseteq edges'
<1>1. PICK op \in Operator :
        \/ Draft(op) \/ Extend(op) \/ PlanRollback(op) \/ PlanSupersession(op) \/ Judge(op)
        \/ AppendHistory(op) \/ ApplyPlan(op) \/ AppendEdge(op) \/ Refuse(op)
  BY DEF RegistryNext
<1>2. RegistrySound' /\ Grows
  BY <1>1, DraftDrafts, ExtendDrafts, RollbackPlans, SupersessionPlans, JudgeDrafts,
     HistoryStored, PlanStored, EdgeStored, RefuseGivesUp
<1>3. edges \subseteq edges'
  BY <1>1 DEF Draft, Extend, PlanRollback, PlanSupersession, Judge, Take, AppendHistory, ApplyPlan,
              AppendEdge, Refuse, Commit
<1> QED BY <1>2, <1>3

\* A stuttering step.
LEMMA RegistryRests ==
  ASSUME RegistrySound, UNCHANGED registryVars
  PROVE  RegistrySound' /\ Grows /\ edges \subseteq edges'
<1>1. registry' = registry /\ edges' = edges /\ work' = work
  BY DEF registryVars
<1>2. DOMAIN work' = Operator
  BY <1>1 DEF RegistrySound, RegistryTypeOK
<1> QED BY <1>1, <1>2, WorkKept

\* The inductive invariant of the registry: every stored history stands, every
\* edge is bound to stored patterns, and whatever an operator has drafted still
\* shows what the edges say or can no longer be stored.
THEOREM RegistrySoundness == RegistrySpec => []RegistrySound
<1> USE RegistryAssumption
<1>1. RegistryInit => RegistrySound
  BY RegistryStarts
<1>2. RegistrySound /\ [RegistryNext]_registryVars => RegistrySound'
  BY RegistryMoves, RegistryRests
<1> QED BY <1>1, <1>2, PTL DEF RegistrySpec

\* Whatever operators race and retry, every stored history that was not rolled
\* back can be loaded, shows exactly the contradictions of the stored edges, and
\* is paired with the one it replaces (append_history, apply_plan, append_edge).
THEOREM RegistryStandsCorrect == RegistrySpec => []RegistryStands
<1>1. RegistrySound => RegistryStands
  BY DEF RegistrySound, RegistryStands, UnrolledHistoriesLoad, ChainStands
<1> QED BY <1>1, RegistrySoundness, PTL

\* No transaction changes or takes away a stored revision or edge.
THEOREM RegistryGrowsCorrect == RegistrySpec => RegistryGrows
<1> USE RegistryAssumption
<1>1. RegistrySound /\ [RegistryNext]_registryVars
        => [(\A p \in Pattern : IsPrefix(registry[p], registry'[p])) /\ edges \subseteq edges']_registryVars
  BY RegistryMoves, RegistryRests DEF Grows
<1> QED BY <1>1, RegistrySoundness, PTL DEF RegistrySpec, RegistryGrows


-----------------------------------------------------------------------------
(***************************************************************************)
(* WritesStand and OutputsAreSpared of TargetWriting, for any workbooks,   *)
(* orders and writers, and any number of edits, faults, crashes and        *)
(* meddlings.  WriterSound is the inductive invariant: what each writer    *)
(* holds at each step, and whose file may be under an output name.         *)
(***************************************************************************)

\* What is written before the formulas are computed.
Copies(file, order) ==
  LET old == order.schema.read
  IN  /\ file.parts = old.parts /\ ~file.chain
      /\ \A part \in Part, place \in Place :
           LET was == old.cells[part][place]  is == file.cells[part][place]
               asked == Written(order, old, part, place)
           IN  /\ asked = {} => is = was
               /\ \A x \in asked :
                    /\ was # None /\ was.style /\ was.numeric /\ ~was.formula
                    /\ place \notin order.schema.merged[TargetOf(order, x).sheet]
                    /\ is = Filled(was, Amount(order, x))

\* Those who may have a file under an output name.
Published == {"linked", "verify", "look", "remove", "stranded", "written", "dead"}

WriterStands(w) ==
  LET s == writer[w]
  IN  /\ s.pc # "idle" => s.order \in Order
      /\ s.pc \in {"write", "recalculate", "compare", "link", "linked"} => s.order.allowed
      /\ s.pc = "write" => /\ s.copy.package = s.order.schema.read
                           /\ PlanStands(s.order, s.copy.package)
      /\ s.pc = "recalculate" => s.temp \in Package /\ Copies(s.temp, s.order)
      /\ s.pc \in {"compare", "link"} => s.temp \in Package /\ Carries(s.temp, s.order)
      /\ s.pc \in Ended \ {"dead"} => ~s.private
      /\ s.raced => used_up.meddles # 0
      /\ s.pc = "remove" => Mine(w) \/ s.raced
      /\ s.pc \in {"linked", "verify", "written"} => Mine(w) \/ used_up.meddles # 0
WritersStand == \A w \in Writer : WriterStands(w)

FileStands(o) ==
  output[o] # None /\ output[o].by # Somebody =>
    LET s == writer[output[o].by]
    IN  /\ s.pc \in Published /\ s.order \in Order
        /\ s.order.output = o /\ s.order.allowed /\ Carries(output[o].package, s.order)
FilesStand == \A o \in Output : FileStands(o)

WriterSound == WritingTypeOK /\ WritersStand /\ FilesStand

-----------------------------------------------------------------------------
(* What the operators of the plan make.                                     *)

LEMMA OrderTyped ==
  ASSUME NEW order \in Order
  PROVE  /\ order.allowed \in BOOLEAN /\ order.schema \in Schema /\ order.output \in Output
         /\ order.calculations \in Seq(Calculation)
  BY WritingAssumption DEF WritingConstants

\* A value of the plan is a number for a column, its target a row of a sheet.
LEMMA AskedTyped ==
  ASSUME NEW order \in Order, NEW x \in Asked(order)
  PROVE  /\ x[1] \in Calculations(order) /\ x[2] \in Column
         /\ order.calculations[x[1]] \in Calculation /\ TargetOf(order, x) \in TargetRow
         /\ Amount(order, x) \in Value \cup {Infinite} /\ Amount(order, x) # None
<1>1. x[1] \in Calculations(order) /\ x[2] \in Column /\ Amount(order, x) # None
  BY DEF Asked
<1>2. order.calculations[x[1]] \in Calculation
  BY <1>1, OrderTyped DEF Calculations
<1> QED BY <1>1, <1>2 DEF Calculation, TargetOf, Amount

\* A value that goes to a place finds there the cell the plan has looked at.
LEMMA WrittenStands ==
  ASSUME NEW order \in Order, NEW package \in Package, PlanStands(order, package),
         NEW part \in Part, NEW place \in Place, NEW x \in Written(order, package, part, place)
  PROVE  LET was == package.cells[part][place]
         IN  /\ was \in Cell /\ was.style /\ was.numeric /\ ~was.formula
             /\ place \notin order.schema.merged[TargetOf(order, x).sheet]
             /\ x \in Asked(order) /\ Amount(order, x) \in Value
<1>1. /\ x \in Asked(order) /\ SeenAt(order, x).place = place
      /\ package.parts[TargetOf(order, x).sheet] = part
  BY DEF Written
<1>2. CellStands(order, package, x)
  BY <1>1 DEF PlanStands
<1>3. CellIn(order, package, x) = package.cells[part][place]
  BY <1>1 DEF CellIn
<1>4. package.cells[part][place] \in Cell \cup {None}
  BY DEF Package
<1>5. Amount(order, x) # Infinite
  <2>1. x[1] \in Calculations(order) /\ x[2] \in Column
    BY <1>1, AskedTyped
  <2> QED BY <2>1 DEF PlanStands, RowsStand, Amount
<1> QED BY <1>1, <1>2, <1>3, <1>4, <1>5, AskedTyped DEF CellStands

\* One value goes to a place, and nothing else of the package changes.
LEMMA ReplacedCells ==
  ASSUME NEW order \in Order, NEW package \in Package, PlanStands(order, package),
         ReplaceStands(order, package)
  PROVE  LET temp == Replaced(order, package)
         IN  /\ temp \in Package /\ temp.parts = package.parts /\ ~temp.chain
             /\ \A part \in Part, place \in Place :
                  /\ Written(order, package, part, place) = {} =>
                       temp.cells[part][place] = package.cells[part][place]
                  /\ \A x \in Written(order, package, part, place) :
                       temp.cells[part][place] = Filled(package.cells[part][place], Amount(order, x))
<1> DEFINE temp == Replaced(order, package)
           new(part, place) ==
             LET asked == Written(order, package, part, place)
             IN  IF asked = {} THEN package.cells[part][place]
                 ELSE Filled(package.cells[part][place], Amount(order, CHOOSE x \in asked : TRUE))
<1>1. temp = [package EXCEPT !.chain = FALSE, !.cells = [part \in Part |-> [place \in Place |-> new(part, place)]]]
  BY DEF Replaced
<1>2. \A part \in Part, place \in Place : new(part, place) \in Cell \cup {None}
  <2> SUFFICES ASSUME NEW part \in Part, NEW place \in Place PROVE new(part, place) \in Cell \cup {None}
    OBVIOUS
  <2>1. CASE Written(order, package, part, place) = {}
    BY <2>1 DEF Package
  <2>2. CASE Written(order, package, part, place) # {}
    <3> DEFINE y == CHOOSE x \in Written(order, package, part, place) : TRUE
    <3>1. y \in Written(order, package, part, place)
      BY <2>2
    <3>2. package.cells[part][place] \in Cell /\ Amount(order, y) \in Value
      BY <3>1, WrittenStands
    <3> HIDE DEF y
    <3>3. Filled(package.cells[part][place], Amount(order, y)) \in Cell
      BY <3>2 DEF Filled, Cell
    <3> QED BY <2>2, <3>3 DEF y
  <2> QED BY <2>1, <2>2
<1> HIDE DEF new
<1> DEFINE cells == [part \in Part |-> [place \in Place |-> new(part, place)]]
<1>6. cells \in [Part -> [Place -> Cell \cup {None}]]
  BY <1>2
<1>7. \A part \in Part, place \in Place : cells[part][place] = new(part, place)
  OBVIOUS
<1> HIDE DEF cells
<1>8. temp = [package EXCEPT !.chain = FALSE, !.cells = cells]
  BY <1>1 DEF cells
<1> HIDE DEF temp
<1>3. temp \in Package /\ temp.parts = package.parts /\ ~temp.chain /\ temp.cells = cells
  BY <1>6, <1>8 DEF Package
<1>4. \A part \in Part, place \in Place : temp.cells[part][place] = new(part, place)
  BY <1>3, <1>7
<1>5. ASSUME NEW part \in Part, NEW place \in Place, NEW x \in Written(order, package, part, place)
      PROVE  temp.cells[part][place] = Filled(package.cells[part][place], Amount(order, x))
  <2>1. x = CHOOSE y \in Written(order, package, part, place) : TRUE
    BY <1>5 DEF ReplaceStands
  <2> QED BY <2>1, <1>4, <1>5 DEF new
<1> QED BY <1>3, <1>4, <1>5 DEF new, temp

\* What is written is the package read, with the values of the order in their cells.
LEMMA ReplacedCopies ==
  ASSUME NEW order \in Order, order.schema.read \in Package, PlanStands(order, order.schema.read),
         ReplaceStands(order, order.schema.read)
  PROVE  LET temp == Replaced(order, order.schema.read) IN temp \in Package /\ Copies(temp, order)
<1>1. None \notin Cell
  BY WritingAssumption DEF WritingConstants
<1> QED BY <1>1, ReplacedCells, WrittenStands DEF Copies

\* With no formula left it is what the order asked for.
LEMMA CopiesCarry ==
  ASSUME NEW order \in Order, NEW file \in Package, Copies(file, order), ~HasFormulas(file)
  PROVE  Carries(file, order)
<1>1. SheetParts(file) = SheetParts(order.schema.read)
  BY DEF Copies, SheetParts
<1>2. \A part \in SheetParts(file), place \in Place :
        file.cells[part][place] = None \/ ~file.cells[part][place].formula
  <2> SUFFICES ASSUME NEW part \in SheetParts(file), NEW place \in Place
               PROVE  file.cells[part][place] = None \/ ~file.cells[part][place].formula
    OBVIOUS
  <2>1. <<part, place>> \in SheetParts(file) \X Place /\ <<part, place>> \notin Formulas(file)
    BY DEF HasFormulas
  <2> QED BY <2>1 DEF Formulas
<1> QED BY <1>1, <1>2 DEF Copies, Carries

\* Replacing the formulas by what was computed makes it so.
LEMMA MaterializedCarries ==
  ASSUME NEW order \in Order, NEW temp \in Package, Copies(temp, order),
         NEW computed \in [Formulas(temp) -> Value]
  PROVE  LET file == Materialized(temp, computed) IN file \in Package /\ Carries(file, order)
<1> DEFINE new(part, place) ==
             IF <<part, place>> \in Formulas(temp)
             THEN [Filled(temp.cells[part][place], computed[<<part, place>>]) EXCEPT !.formula = FALSE, !.numeric = TRUE]
             ELSE temp.cells[part][place]
           cells == [part \in Part |-> [place \in Place |-> new(part, place)]]
           file == Materialized(temp, computed)
           old == order.schema.read
<1>1. file = [temp EXCEPT !.chain = FALSE, !.cells = cells]
  BY DEF Materialized
<1>2. ASSUME NEW part \in Part, NEW place \in Place, <<part, place>> \in Formulas(temp)
      PROVE  /\ temp.cells[part][place] \in Cell /\ temp.cells[part][place].formula
             /\ new(part, place) \in Cell /\ ~new(part, place).formula
             /\ new(part, place).style = temp.cells[part][place].style
             /\ part \in SheetParts(temp)
  <2>1. temp.cells[part][place] \in Cell /\ temp.cells[part][place].formula /\ part \in SheetParts(temp)
    BY <1>2 DEF Formulas, Package
  <2>2. computed[<<part, place>>] \in Value
    BY <1>2
  <2> QED BY <1>2, <2>1, <2>2 DEF Filled, Cell
<1>3. ASSUME NEW part \in Part, NEW place \in Place, <<part, place>> \notin Formulas(temp)
      PROVE  /\ new(part, place) = temp.cells[part][place]
             /\ new(part, place) \in Cell \cup {None}
             /\ part \in SheetParts(temp) => new(part, place) = None \/ ~new(part, place).formula
  <2>1. new(part, place) = temp.cells[part][place]
    BY <1>3
  <2>2. part \in SheetParts(temp) => <<part, place>> \in SheetParts(temp) \X Place
    OBVIOUS
  <2> HIDE DEF new
  <2> QED BY <1>3, <2>1, <2>2 DEF Formulas, Package
<1>4. \A part \in Part, place \in Place : cells[part][place] = new(part, place)
  OBVIOUS
<1>5. cells \in [Part -> [Place -> Cell \cup {None}]]
  <2> HIDE DEF new
  <2> QED BY <1>2, <1>3
<1> HIDE DEF new, cells, file
<1>6. /\ file \in Package /\ file.parts = temp.parts /\ ~file.chain
      /\ \A part \in Part, place \in Place : file.cells[part][place] = new(part, place)
  BY <1>1, <1>4, <1>5 DEF Package
<1>7. SheetParts(temp) = SheetParts(old) /\ file.parts = old.parts
  BY <1>6 DEF Copies, SheetParts
<1>8. ASSUME NEW part \in Part, NEW place \in Place, NEW x \in Written(order, old, part, place)
      PROVE  <<part, place>> \notin Formulas(temp)
  <2>1. /\ old.cells[part][place] # None /\ ~old.cells[part][place].formula
        /\ temp.cells[part][place] = Filled(old.cells[part][place], Amount(order, x))
    BY <1>8 DEF Copies
  <2>2. old.cells[part][place] \in Cell
    BY <2>1, OrderTyped DEF Schema, Package
  <2>3. ~temp.cells[part][place].formula
    BY <2>1, <2>2 DEF Filled, Cell
  <2> QED BY <1>2, <2>3
<1>9. Carries(file, order)
  <2> SUFFICES ASSUME NEW part \in Part, NEW place \in Place
               PROVE  LET was == old.cells[part][place]  is == file.cells[part][place]
                          asked == Written(order, old, part, place)
                      IN  /\ asked = {} => \/ is = was
                                           \/ part \in SheetParts(old) /\ was # None /\ was.formula /\ is.style = was.style
                          /\ part \in SheetParts(old) => is = None \/ ~is.formula
                          /\ \A x \in asked :
                               /\ was # None /\ was.style /\ was.numeric /\ ~was.formula
                               /\ place \notin order.schema.merged[TargetOf(order, x).sheet]
                               /\ is = Filled(was, Amount(order, x))
    BY <1>6, <1>7 DEF Carries
  <2>0. None \notin Cell
    BY WritingAssumption DEF WritingConstants
  <2>1. CASE <<part, place>> \in Formulas(temp)
    <3>1. /\ temp.cells[part][place] \in Cell /\ temp.cells[part][place].formula
          /\ file.cells[part][place] \in Cell /\ ~file.cells[part][place].formula
          /\ file.cells[part][place].style = temp.cells[part][place].style
          /\ part \in SheetParts(old)
      BY <2>1, <1>2, <1>6, <1>7
    <3>2. Written(order, old, part, place) = {}
      BY <2>1, <1>8
    <3>3. temp.cells[part][place] = old.cells[part][place]
      BY <3>2 DEF Copies
    <3> QED BY <2>0, <3>1, <3>2, <3>3
  <2>2. CASE <<part, place>> \notin Formulas(temp)
    <3>1. /\ file.cells[part][place] = temp.cells[part][place]
          /\ part \in SheetParts(old) => file.cells[part][place] = None \/ ~file.cells[part][place].formula
      BY <2>2, <1>3, <1>6, <1>7
    <3> QED BY <3>1 DEF Copies
  <2> QED BY <2>1, <2>2
<1> QED BY <1>6, <1>9 DEF file

-----------------------------------------------------------------------------
(* The steps of the writers.                                                *)

\* A step of a writer that leaves outputs alone disturbs nobody else.
LEMMA MovesAlone ==
  ASSUME WriterSound, NEW w \in Writer, NEW s \in WriterState, writer' = [writer EXCEPT ![w] = s],
         source' = source, output' = output, used_up' \in [faults : Nat, crashes : Nat, meddles : Nat],
         used_up'.meddles = used_up.meddles,
         s.order = writer[w].order \/ writer[w].pc = "idle",
         writer[w].pc \in Published => s.pc \in Published \/ ~Mine(w),
         WriterStands(w)'
  PROVE  WriterSound'
<1>1. WritingTypeOK'
  BY DEF WriterSound, WritingTypeOK
<1>2. \A x \in Writer : x # w => writer'[x] = writer[x]
  BY DEF WriterSound, WritingTypeOK
<1>3. WritersStand'
  <2> SUFFICES ASSUME NEW x \in Writer, x # w PROVE WriterStands(x)'
    BY DEF WritersStand
  <2>1. WriterStands(x)
    BY DEF WriterSound, WritersStand
  <2> QED BY <1>2, <2>1 DEF WriterStands, Mine, Name
<1>4. FilesStand'
  <2> SUFFICES ASSUME NEW o \in Output, output[o] # None, output[o].by # Somebody
               PROVE  FileStands(o)'
    BY DEF FilesStand, FileStands
  <2>1. FileStands(o) /\ output[o].by \in Writer
    BY DEF WriterSound, WritingTypeOK, FilesStand
  <2>2. CASE output[o].by # w
    BY <1>2, <2>1, <2>2 DEF FileStands
  <2>3. CASE output[o].by = w
    <3>1. writer[w].pc \in Published /\ writer[w].order.output = o
      BY <2>1, <2>3 DEF FileStands
    <3>2. Mine(w) /\ writer[w].pc # "idle"
      BY <2>3, <3>1 DEF Mine, Name, Published
    <3>3. writer'[w] = s /\ s.pc \in Published /\ s.order = writer[w].order
      BY <3>1, <3>2 DEF WriterSound, WritingTypeOK
    <3> QED BY <2>1, <2>3, <3>3 DEF FileStands
  <2> QED BY <2>2, <2>3
<1> QED BY <1>1, <1>3, <1>4 DEF WriterSound

\* A writer may end when no file of its is left, or when its end says so.
LEMMA EndsAlone ==
  ASSUME WriterSound, NEW w \in Writer, NEW pc \in Ended \ {"dead"}, writer[w].pc \in Steps, Ends(w, pc),
         source' = source, output' = output, used_up' \in [faults : Nat, crashes : Nat, meddles : Nat],
         used_up'.meddles = used_up.meddles,
         writer[w].pc \in Published => pc \in Published \/ ~Mine(w),
         pc = "written" => Mine(w) \/ used_up.meddles # 0
  PROVE  WriterSound'
<1> DEFINE s == Closed(w, pc)
<1>1. writer[w] \in WriterState /\ WriterStands(w)
  BY DEF WriterSound, WritingTypeOK, WritersStand
<1>2. /\ s \in WriterState /\ s.pc = pc /\ s.order = writer[w].order
      /\ ~s.private /\ ~s.raced
  BY <1>1 DEF Closed, WriterState, Steps, Ended
<1>3. writer' = [writer EXCEPT ![w] = s]
  BY DEF Ends
<1>4. writer'[w] = s
  BY <1>3 DEF WriterSound, WritingTypeOK
<1>5. WriterStands(w)'
  BY <1>1, <1>2, <1>4 DEF WriterStands, Mine, Name, Steps, Ended
<1> HIDE DEF s
<1> QED BY <1>2, <1>3, <1>5, MovesAlone

\* A step that only moves on.
LEMMA GoesAlone ==
  ASSUME WriterSound, NEW w \in Writer, NEW pc \in Steps \cup Ended, writer[w].pc \in Steps, Goes(w, pc),
         source' = source, output' = output, used_up' \in [faults : Nat, crashes : Nat, meddles : Nat],
         used_up'.meddles = used_up.meddles,
         writer[w].pc \in Published => pc \in Published,
         WriterStands(w)'
  PROVE  WriterSound'
<1> DEFINE s == [writer[w] EXCEPT !.pc = pc]
<1>1. writer[w] \in WriterState
  BY DEF WriterSound, WritingTypeOK
<1>2. s \in WriterState /\ s.pc = pc /\ s.order = writer[w].order
  BY <1>1 DEF WriterState, Steps, Ended
<1>3. writer' = [writer EXCEPT ![w] = s]
  BY DEF Goes
<1> HIDE DEF s
<1> QED BY <1>2, <1>3, MovesAlone

\* What a writer is after it moved on.
LEMMA GoesTo ==
  ASSUME WriterSound, NEW w \in Writer, NEW pc, Goes(w, pc)
  PROVE  /\ writer'[w].pc = pc /\ writer'[w].order = writer[w].order /\ writer'[w].copy = writer[w].copy
         /\ writer'[w].temp = writer[w].temp /\ writer'[w].private = writer[w].private
         /\ writer'[w].raced = writer[w].raced
<1>1. writer[w] \in WriterState /\ writer'[w] = [writer[w] EXCEPT !.pc = pc]
  BY DEF WriterSound, WritingTypeOK, Goes
<1> QED BY <1>1 DEF WriterState

LEMMA BeginSound ==
  ASSUME WriterSound, NEW w \in Writer, NEW order \in Order, BeginWriting(w, order)
  PROVE  WriterSound'
<1> DEFINE s == [pc |-> "plan", order |-> order, copy |-> source, temp |-> None, private |-> TRUE, raced |-> FALSE]
<1>2. s \in WriterState
  BY DEF WriterState, Steps, WriterSound, WritingTypeOK
<1>3. writer' = [writer EXCEPT ![w] = s] /\ writer[w].pc = "idle"
  BY DEF BeginWriting
<1>4. writer'[w] = s
  BY <1>3 DEF WriterSound, WritingTypeOK
<1>6. WriterStands(w)'
  BY <1>4 DEF WriterStands, Ended
<1>7. source' = source /\ output' = output /\ used_up' = used_up
  BY DEF BeginWriting
<1>8. used_up' \in [faults : Nat, crashes : Nat, meddles : Nat]
  BY <1>7 DEF WriterSound, WritingTypeOK
<1> QED BY <1>2, <1>3, <1>6, <1>7, <1>8, MovesAlone DEF Published

LEMMA PlanSound ==
  ASSUME WriterSound, NEW w \in Writer, SkipWriting(w) \/ PlanWriting(w)
  PROVE  WriterSound'
<1>0. /\ writer[w].pc = "plan" /\ source' = source /\ output' = output /\ used_up' = used_up
      /\ used_up' \in [faults : Nat, crashes : Nat, meddles : Nat] /\ WriterStands(w)
  BY DEF SkipWriting, PlanWriting, WriterSound, WritingTypeOK, WritersStand
<1>1. CASE Ends(w, "skipped") \/ Ends(w, "failed")
  BY <1>0, <1>1, EndsAlone DEF Steps, Ended, Published
<1>2. CASE Goes(w, "write") /\ Plannable(writer[w].order, writer[w].copy)
  <2>1. WriterStands(w)'
    BY <1>0, <1>2, GoesTo DEF WriterStands, Plannable, SchemaFits, Ended
  <2> QED BY <1>0, <1>2, <2>1, GoesAlone DEF Steps, Published
<1> QED BY <1>1, <1>2 DEF SkipWriting, PlanWriting

\* What a writer builds, and what it has when it goes on.
LEMMA BuildsAlone ==
  ASSUME WriterSound, NEW w \in Writer, NEW pc \in {"recalculate", "compare"}, NEW package \in Package,
         writer[w].pc \in {"write", "recalculate"}, Builds(w, pc, package),
         source' = source, output' = output, used_up' = used_up,
         IF pc = "compare" THEN Carries(package, writer[w].order) ELSE Copies(package, writer[w].order)
  PROVE  WriterSound'
<1> DEFINE s == [writer[w] EXCEPT !.pc = pc, !.temp = package]
<1>1. writer[w] \in WriterState /\ WriterStands(w) /\ used_up \in [faults : Nat, crashes : Nat, meddles : Nat]
  BY DEF WriterSound, WritingTypeOK, WritersStand
<1>2. /\ s \in WriterState /\ s.pc = pc /\ s.temp = package /\ s.order = writer[w].order
      /\ s.private = writer[w].private /\ s.raced = writer[w].raced
  BY <1>1 DEF WriterState, Steps
<1>3. writer' = [writer EXCEPT ![w] = s]
  BY DEF Builds
<1>4. writer'[w] = s
  BY <1>3 DEF WriterSound, WritingTypeOK
<1>5. WriterStands(w)'
  <2> HIDE DEF s
  <2> QED BY <1>1, <1>2, <1>4 DEF WriterStands, Ended
<1> HIDE DEF s
<1> QED BY <1>1, <1>2, <1>3, <1>5, MovesAlone DEF Published

LEMMA WriteTempSound ==
  ASSUME WriterSound, NEW w \in Writer, WriteTemp(w)
  PROVE  WriterSound'
<1> DEFINE order == writer[w].order
           temp == Replaced(order, order.schema.read)
<1>1. /\ writer[w].pc = "write" /\ source' = source /\ output' = output /\ used_up' = used_up
      /\ used_up' \in [faults : Nat, crashes : Nat, meddles : Nat] /\ WriterStands(w)
  BY DEF WriteTemp, WriterSound, WritingTypeOK, WritersStand
<1>2. CASE Ends(w, "failed")
  BY <1>1, <1>2, EndsAlone DEF Steps, Ended, Published
<1>3. CASE ~Ends(w, "failed")
  <2>1. order \in Order /\ writer[w].copy.package = order.schema.read /\ PlanStands(order, order.schema.read)
    BY <1>1 DEF WriterStands
  <2>2. /\ ReplaceStands(order, order.schema.read)
        /\ Builds(w, IF HasFormulas(temp) THEN "recalculate" ELSE "compare", temp)
    BY <1>3, <2>1 DEF WriteTemp
  <2>3. temp \in Package /\ Copies(temp, order)
    BY <2>1, <2>2, OrderTyped, ReplacedCopies DEF Schema
  <2> HIDE DEF temp, order
  <2>4. CASE HasFormulas(temp)
    BY <1>1, <2>2, <2>3, <2>4, BuildsAlone DEF order
  <2>5. CASE ~HasFormulas(temp)
    <3>1. Carries(temp, order)
      BY <2>1, <2>3, <2>5, CopiesCarry
    <3> QED BY <1>1, <2>2, <2>3, <2>5, <3>1, BuildsAlone DEF order
  <2> QED BY <2>4, <2>5
<1> QED BY <1>2, <1>3

LEMMA RecalculateSound ==
  ASSUME WriterSound, NEW w \in Writer, Recalculate(w)
  PROVE  WriterSound'
<1>1. /\ writer[w].pc = "recalculate" /\ source' = source /\ output' = output /\ used_up' = used_up
      /\ used_up' \in [faults : Nat, crashes : Nat, meddles : Nat] /\ WriterStands(w)
  BY DEF Recalculate, WriterSound, WritingTypeOK, WritersStand
<1>2. CASE Ends(w, "failed")
  BY <1>1, <1>2, EndsAlone DEF Steps, Ended, Published
<1>3. CASE ~Ends(w, "failed")
  <2>1. PICK computed \in [Formulas(writer[w].temp) -> Value] :
          Builds(w, "compare", Materialized(writer[w].temp, computed))
    BY <1>3 DEF Recalculate
  <2>2. /\ writer[w].order \in Order /\ writer[w].temp \in Package
        /\ Copies(writer[w].temp, writer[w].order)
    BY <1>1 DEF WriterStands
  <2>3. /\ Materialized(writer[w].temp, computed) \in Package
        /\ Carries(Materialized(writer[w].temp, computed), writer[w].order)
    BY <2>2, MaterializedCarries
  <2> QED BY <1>1, <2>1, <2>3, BuildsAlone
<1> QED BY <1>2, <1>3

LEMMA CompareSound ==
  ASSUME WriterSound, NEW w \in Writer, CompareSource(w)
  PROVE  WriterSound'
<1>1. /\ writer[w].pc = "compare" /\ source' = source /\ output' = output /\ used_up' = used_up
      /\ used_up' \in [faults : Nat, crashes : Nat, meddles : Nat] /\ WriterStands(w)
  BY DEF CompareSource, WriterSound, WritingTypeOK, WritersStand
<1>2. CASE Ends(w, "failed")
  BY <1>1, <1>2, EndsAlone DEF Steps, Ended, Published
<1>3. CASE Goes(w, "link")
  <2>1. WriterStands(w)'
    BY <1>1, <1>3, GoesTo DEF WriterStands, Ended
  <2> QED BY <1>1, <1>3, <2>1, GoesAlone DEF Steps, Published
<1> QED BY <1>2, <1>3 DEF CompareSource

\* What the link publishes is the whole report; the name was nobody's.
LEMMA LinkSound ==
  ASSUME WriterSound, NEW w \in Writer, LinkOutput(w)
  PROVE  WriterSound'
<1> DEFINE n == Name(w)
           file == [by |-> w, package |-> writer[w].temp]
<1>1. /\ writer[w].pc = "link" /\ source' = source /\ used_up' = used_up
      /\ used_up' \in [faults : Nat, crashes : Nat, meddles : Nat] /\ WriterStands(w)
      /\ WritingTypeOK /\ writer[w] \in WriterState
  BY DEF LinkOutput, WriterSound, WritingTypeOK, WritersStand
<1>2. CASE output[n] # None
  <2>1. Ends(w, "failed") /\ output' = output
    BY <1>2 DEF LinkOutput
  <2> QED BY <1>1, <2>1, EndsAlone DEF Steps, Ended, Published
<1>3. CASE output[n] = None
  <2>1. output' = [output EXCEPT ![n] = file] /\ Goes(w, "linked")
    BY <1>3 DEF LinkOutput
  <2>2. /\ writer[w].order \in Order /\ writer[w].order.allowed
        /\ writer[w].temp \in Package /\ Carries(writer[w].temp, writer[w].order)
    BY <1>1 DEF WriterStands
  <2>3. n \in Output
    BY <2>2, OrderTyped DEF Name
  <2>4. file \in [by : Writer \cup {Somebody}, package : Package \cup {None}] /\ file # None /\ file.by = w
        /\ file.package = writer[w].temp
    <3>1. file \in [by : Writer \cup {Somebody}, package : Package \cup {None}]
      BY <2>2
    <3>2. file # None
      BY <3>1, WritingAssumption DEF WritingConstants
    <3> QED BY <3>1, <3>2
  <2>5. file.by # Somebody /\ file # None
    BY <2>4, WritingAssumption DEF WritingConstants
  <2> HIDE DEF file
  <2>6. output'[n] = file /\ \A o \in Output : o # n => output'[o] = output[o]
    BY <1>1, <2>1, <2>3 DEF WritingTypeOK
  <2>7. \A x \in Writer : x # w => writer'[x] = writer[x]
    BY <1>1, <2>1 DEF WritingTypeOK, Goes
  <2>8. writer'[w].pc = "linked" /\ writer'[w].order = writer[w].order /\ writer'[w].raced = writer[w].raced
    BY <2>1, GoesTo
  <2>9. WritingTypeOK'
    <3>1. writer' \in [Writer -> WriterState]
      BY <1>1, <2>1 DEF WritingTypeOK, Goes, WriterState, Steps
    <3> QED BY <1>1, <2>1, <2>4, <3>1 DEF WritingTypeOK
  <2>10. ASSUME NEW x \in Writer PROVE WriterStands(x)'
    <3>1. CASE x = w
      <4>1. Name(w)' = n
        BY <2>8 DEF Name
      <4>2. Mine(w)'
        BY <2>4, <2>5, <2>6, <4>1 DEF Mine
      <4> QED BY <1>1, <2>2, <2>8, <3>1, <4>2 DEF WriterStands, Ended
    <3>2. CASE x # w
      <4>1. WriterStands(x) /\ writer'[x] = writer[x] /\ Name(x)' = Name(x)
        BY <2>7, <3>2 DEF WriterSound, WritersStand, Name
      <4>2. writer[x].pc # "idle" /\ Mine(x) => Mine(x)'
        <5>1. writer[x].pc # "idle" => Name(x) \in Output
          BY <4>1, OrderTyped DEF WriterStands, Name
        <5> QED BY <1>3, <2>6, <4>1, <5>1 DEF Mine
      <4> QED BY <1>1, <4>1, <4>2 DEF WriterStands
    <3> QED BY <3>1, <3>2
  <2>11. ASSUME NEW o \in Output PROVE FileStands(o)'
    <3>1. CASE o = n
      BY <2>2, <2>4, <2>6, <2>8, <3>1 DEF FileStands, Published, Name
    <3>2. CASE o # n
      <4>1. FileStands(o) /\ output'[o] = output[o]
        BY <2>6, <3>2 DEF WriterSound, FilesStand
      <4>2. CASE output[o] # None /\ output[o].by # Somebody
        <5>1. output[o].by \in Writer /\ output[o].by # w
          BY <1>1, <4>1, <4>2 DEF WritingTypeOK, FileStands, Published
        <5> QED BY <2>7, <4>1, <4>2, <5>1 DEF FileStands
      <4> QED BY <4>1, <4>2 DEF FileStands
    <3> QED BY <3>1, <3>2
  <2> QED BY <2>9, <2>10, <2>11 DEF WriterSound, WritersStand, FilesStand
<1> QED BY <1>2, <1>3

LEMMA ConfirmSound ==
  ASSUME WriterSound, NEW w \in Writer, ConfirmLink(w) \/ VerifyOutput(w) \/ LookAtOutput(w)
  PROVE  WriterSound'
<1>1. /\ source' = source /\ output' = output /\ used_up' = used_up
      /\ used_up' \in [faults : Nat, crashes : Nat, meddles : Nat] /\ WriterStands(w)
      /\ writer[w].pc \in {"linked", "verify", "look"}
  BY DEF ConfirmLink, VerifyOutput, LookAtOutput, WriterSound, WritingTypeOK, WritersStand
<1>2. CASE Ends(w, "failed") /\ ~Mine(w)
  BY <1>1, <1>2, EndsAlone DEF Steps, Ended
<1>3. CASE Ends(w, "written") /\ Mine(w)
  BY <1>1, <1>3, EndsAlone DEF Steps, Ended, Published
<1>4. ASSUME NEW pc \in {"verify", "look", "remove"}, Goes(w, pc), pc # "look" => Mine(w)
      PROVE  WriterSound'
  <2>1. Name(w)' = Name(w) /\ (Mine(w) => Mine(w)')
    BY <1>1, <1>4, GoesTo DEF Name, Mine
  <2>2. WriterStands(w)'
    BY <1>1, <1>4, <2>1, GoesTo DEF WriterStands, Ended
  <2> QED BY <1>1, <1>4, <2>2, GoesAlone DEF Steps, Published
<1> QED BY <1>2, <1>3, <1>4 DEF ConfirmLink, VerifyOutput, LookAtOutput

LEMMA FailsSound ==
  ASSUME WriterSound, NEW w \in Writer, WritingFails(w)
  PROVE  WriterSound'
<1>1. /\ source' = source /\ output' = output /\ WriterStands(w)
      /\ used_up' \in [faults : Nat, crashes : Nat, meddles : Nat] /\ used_up'.meddles = used_up.meddles
  BY DEF WritingFails, WriterSound, WritingTypeOK, WritersStand
<1>2. CASE writer[w].pc \in {"plan", "write", "recalculate", "compare", "link"} /\ Ends(w, "failed")
  BY <1>1, <1>2, EndsAlone DEF Steps, Ended, Published
<1>3. CASE writer[w].pc \in {"linked", "verify"} /\ Goes(w, "look")
  <2>1. WriterStands(w)'
    BY <1>1, <1>3, GoesTo DEF WriterStands, Ended
  <2> QED BY <1>1, <1>3, <2>1, GoesAlone DEF Steps, Published
<1>4. CASE writer[w].pc \in {"look", "remove"} /\ Ends(w, "stranded")
  BY <1>1, <1>4, EndsAlone DEF Steps, Ended, Published
<1> QED BY <1>2, <1>3, <1>4 DEF WritingFails

LEMMA DiesSound ==
  ASSUME WriterSound, NEW w \in Writer, WriterDies(w)
  PROVE  WriterSound'
<1>1. /\ source' = source /\ output' = output /\ WriterStands(w) /\ writer[w].pc \in Steps /\ Goes(w, "dead")
      /\ used_up' \in [faults : Nat, crashes : Nat, meddles : Nat] /\ used_up'.meddles = used_up.meddles
  BY DEF WriterDies, WriterSound, WritingTypeOK, WritersStand
<1>2. WriterStands(w)'
  BY <1>1, GoesTo DEF WriterStands, Ended, Steps
<1> QED BY <1>1, <1>2, GoesAlone DEF Steps, Ended, Published

\* What happens at a name while somebody has looked at it is remembered.
LEMMA RacedTyped ==
  ASSUME WritingTypeOK, NEW o, NEW x \in Writer
  PROVE  LET s == RacedAt(o)[x]
         IN  /\ s \in WriterState /\ s.pc = writer[x].pc /\ s.order = writer[x].order /\ s.copy = writer[x].copy
             /\ s.temp = writer[x].temp /\ s.private = writer[x].private
             /\ writer[x].raced \/ (writer[x].pc = "remove" /\ Name(x) = o) => s.raced
             /\ s.raced => writer[x].raced \/ (writer[x].pc = "remove" /\ Name(x) = o)
<1>1. writer[x] \in WriterState
  BY DEF WritingTypeOK
<1>2. RacedAt(o)[x] = [writer[x] EXCEPT !.raced = @ \/ (writer[x].pc = "remove" /\ Name(x) = o)]
  BY DEF RacedAt
<1> QED BY <1>1, <1>2 DEF WriterState

LEMMA EditSound ==
  ASSUME WriterSound, EditSource
  PROVE  WriterSound'
<1>1. output' = output /\ writer' = writer /\ used_up' = used_up
  BY DEF EditSource
<1>2. WritingTypeOK'
  BY <1>1 DEF WriterSound, WritingTypeOK, EditSource
<1>3. WritersStand'
  BY <1>1 DEF WriterSound, WritersStand, WriterStands, Mine, Name
<1>4. FilesStand'
  BY <1>1 DEF WriterSound, FilesStand, FileStands
<1> QED BY <1>2, <1>3, <1>4 DEF WriterSound

LEMMA MeddleSound ==
  ASSUME WriterSound, NEW o \in Output, Meddle(o)
  PROVE  WriterSound'
<1>1. PICK file \in {None, [by |-> Somebody, package |-> None]} : output' = [output EXCEPT ![o] = file]
  BY DEF Meddle
<1>2. /\ source' = source /\ writer' = RacedAt(o) /\ WritingTypeOK
      /\ used_up' \in [faults : Nat, crashes : Nat, meddles : Nat] /\ used_up'.meddles # 0
  BY DEF Meddle, WriterSound, WritingTypeOK
<1>3. /\ output'[o] = file /\ (file # None => file.by = Somebody)
      /\ \A p \in Output : p # o => output'[p] = output[p]
  BY <1>1, <1>2 DEF WritingTypeOK
<1>4. WritingTypeOK'
  <2>1. writer' \in [Writer -> WriterState]
    <3>1. writer' = [x \in Writer |-> RacedAt(o)[x]]
      BY <1>2 DEF RacedAt
    <3> QED BY <1>2, <3>1, RacedTyped
  <2>2. output' \in [Output -> [by : Writer \cup {Somebody}, package : Package \cup {None}] \cup {None}]
    BY <1>1, <1>2 DEF WritingTypeOK
  <2> QED BY <1>2, <2>1, <2>2 DEF WritingTypeOK
<1>5. ASSUME NEW x \in Writer PROVE WriterStands(x)'
  <2>1. WriterStands(x) /\ Name(x)' = Name(x)
    BY <1>2, RacedTyped DEF WriterSound, WritersStand, Name
  <2>2. writer[x].pc = "remove" => Mine(x)' \/ writer'[x].raced
    <3>1. CASE writer[x].pc = "remove" /\ Name(x) = o
      BY <1>2, <3>1, RacedTyped
    <3>2. CASE writer[x].pc = "remove" /\ Name(x) # o /\ Mine(x)
      <4>1. Name(x) \in Output
        BY <2>1, <3>2, OrderTyped DEF WriterStands, Name
      <4> QED BY <1>3, <2>1, <3>2, <4>1 DEF Mine
    <3>3. CASE writer[x].raced
      BY <1>2, <3>3, RacedTyped
    <3> QED BY <2>1, <3>1, <3>2, <3>3 DEF WriterStands
  <2> QED BY <1>2, <2>1, <2>2, RacedTyped DEF WriterStands, Ended
<1>6. ASSUME NEW p \in Output PROVE FileStands(p)'
  <2>1. CASE p = o
    BY <1>3, <2>1 DEF FileStands
  <2>2. CASE p # o
    <3>1. FileStands(p) /\ output'[p] = output[p]
      BY <1>3, <2>2 DEF WriterSound, FilesStand
    <3>2. output[p] # None /\ output[p].by # Somebody => output[p].by \in Writer
      BY <1>2 DEF WritingTypeOK
    <3> QED BY <1>2, <3>1, <3>2, RacedTyped DEF FileStands
  <2> QED BY <2>1, <2>2
<1> QED BY <1>4, <1>5, <1>6 DEF WriterSound, WritersStand, FilesStand

\* A removal takes the writer's own file, or somebody was at the name meanwhile.
LEMMA RemoveSound ==
  ASSUME WriterSound, NEW w \in Writer, RemoveOutput(w)
  PROVE  WriterSound'
<1> DEFINE n == Name(w)
           s == Closed(w, "failed")
<1>1. /\ writer[w].pc = "remove" /\ source' = source /\ used_up' = used_up
      /\ output' = [output EXCEPT ![n] = None] /\ writer' = [RacedAt(n) EXCEPT ![w] = s]
      /\ WritingTypeOK /\ WriterStands(w) /\ writer[w] \in WriterState
  BY DEF RemoveOutput, WriterSound, WritingTypeOK, WritersStand
<1>2. n \in Output
  BY <1>1, OrderTyped DEF WriterStands, Name
<1>3. s \in WriterState /\ s.pc = "failed" /\ s.order = writer[w].order /\ ~s.private /\ ~s.raced
  BY <1>1 DEF Closed, WriterState, Ended
<1> HIDE DEF s
<1>4. writer'[w] = s /\ \A x \in Writer : x # w => writer'[x] = RacedAt(n)[x]
  BY <1>1 DEF RacedAt
<1>5. output'[n] = None /\ \A o \in Output : o # n => output'[o] = output[o]
  BY <1>1, <1>2 DEF WritingTypeOK
<1>6. WritingTypeOK'
  <2>1. writer' \in [Writer -> WriterState]
    <3>1. RacedAt(n) \in [Writer -> WriterState]
      <4>1. RacedAt(n) = [x \in Writer |-> RacedAt(n)[x]]
        BY DEF RacedAt
      <4>2. \A x \in Writer : RacedAt(n)[x] \in WriterState
        BY <1>1, RacedTyped
      <4> QED BY <4>1, <4>2
    <3> QED BY <1>1, <1>3, <3>1
  <2>2. output' \in [Output -> [by : Writer \cup {Somebody}, package : Package \cup {None}] \cup {None}]
    BY <1>1 DEF WritingTypeOK
  <2> QED BY <1>1, <2>1, <2>2 DEF WritingTypeOK
<1>7. WriterStands(w)'
  BY <1>1, <1>3, <1>4 DEF WriterStands, Ended
\* Unless somebody meddled it is the writer's own, so nobody else has a file there.
<1>8. used_up.meddles = 0 => output[n] # None /\ output[n].by = w
  BY <1>1 DEF WriterStands, Mine
<1>9. ASSUME NEW x \in Writer, x # w PROVE WriterStands(x)'
  <2>1. WriterStands(x) /\ Name(x)' = Name(x)
    BY <1>1, <1>4, <1>9, RacedTyped DEF WriterSound, WritersStand, Name
  <2>2. writer[x].pc # "idle" /\ Mine(x) => Mine(x)' \/ Name(x) = n
    <3>1. writer[x].pc # "idle" => Name(x) \in Output
      BY <2>1, OrderTyped DEF WriterStands, Name
    <3> QED BY <1>5, <2>1, <3>1 DEF Mine
  <2>3. Mine(x) /\ Name(x) = n => used_up.meddles # 0
    BY <1>8, <1>9 DEF Mine
  <2>4. writer[x].pc = "remove" => Mine(x)' \/ writer'[x].raced
    <3>1. Name(x) = n /\ writer[x].pc = "remove" => writer'[x].raced
      BY <1>1, <1>4, <1>9, RacedTyped
    <3>2. writer[x].raced => writer'[x].raced
      BY <1>1, <1>4, <1>9, RacedTyped
    <3> QED BY <2>1, <2>2, <3>1, <3>2 DEF WriterStands
  <2>5. writer[x].pc = "remove" => writer[x].raced \/ Mine(x)
    BY <2>1 DEF WriterStands
  <2>6. writer'[x].raced => used_up.meddles # 0
    <3>1. writer'[x].raced => writer[x].raced \/ (writer[x].pc = "remove" /\ Name(x) = n)
      BY <1>1, <1>4, <1>9, RacedTyped
    <3> QED BY <2>1, <2>3, <2>5, <3>1 DEF WriterStands
  <2>7. writer[x].pc \in {"linked", "verify", "written"} => Mine(x)' \/ used_up.meddles # 0
    BY <2>1, <2>2, <2>3 DEF WriterStands
  <2>8. writer'[x] = RacedAt(n)[x]
    BY <1>4, <1>9
  <2> QED BY <1>1, <2>1, <2>4, <2>6, <2>7, <2>8, RacedTyped DEF WriterStands, Ended
<1>10. WritersStand'
  <2> SUFFICES ASSUME NEW x \in Writer PROVE WriterStands(x)'
    BY DEF WritersStand
  <2>1. CASE x = w
    BY <1>7, <2>1
  <2>2. CASE x # w
    BY <1>9, <2>2
  <2> QED BY <2>1, <2>2
<1>11. ASSUME NEW o \in Output PROVE FileStands(o)'
  <2>1. CASE o = n
    BY <1>5, <2>1 DEF FileStands
  <2>2. CASE o # n
    <3>1. FileStands(o) /\ output'[o] = output[o]
      BY <1>5, <2>2 DEF WriterSound, FilesStand
    <3>2. output[o] # None /\ output[o].by # Somebody => output[o].by \in Writer /\ output[o].by # w
      BY <1>1, <2>2, <3>1 DEF WritingTypeOK, FileStands, Name
    <3> QED BY <1>1, <1>4, <3>1, <3>2, RacedTyped DEF FileStands
  <2> QED BY <2>1, <2>2
<1> QED BY <1>6, <1>10, <1>11 DEF WriterSound, FilesStand

-----------------------------------------------------------------------------
(* The theorems.                                                            *)

LEMMA InitSound ==
  ASSUME WritingInit
  PROVE  WriterSound
<1>1. writer \in [Writer -> WriterState]
  BY DEF WritingInit, Idle, WriterState
<1>2. \A w \in Writer : writer[w] = Idle
  BY DEF WritingInit
<1>3. WritingTypeOK
  BY <1>1 DEF WritingInit, WritingTypeOK
<1>4. WritersStand
  <2> SUFFICES ASSUME NEW w \in Writer PROVE WriterStands(w)
    BY DEF WritersStand
  <2>1. writer[w].pc = "idle" /\ ~writer[w].private /\ ~writer[w].raced
    BY <1>2 DEF Idle
  <2> QED BY <2>1 DEF WriterStands, Ended
<1>5. FilesStand
  BY DEF WritingInit, FilesStand, FileStands
<1> QED BY <1>3, <1>4, <1>5 DEF WriterSound

LEMMA NextSound ==
  ASSUME WriterSound, [WritingNext]_writingVars
  PROVE  WriterSound'
<1>1. ASSUME NEW w \in Writer, WriterMoves(w) PROVE WriterSound'
  BY <1>1, BeginSound, PlanSound, WriteTempSound, RecalculateSound, CompareSound, LinkSound, ConfirmSound,
     RemoveSound, FailsSound, DiesSound DEF WriterMoves
<1>2. CASE UNCHANGED writingVars
  BY <1>2 DEF writingVars, WriterSound, WritingTypeOK, WritersStand, WriterStands, FilesStand, FileStands, Mine, Name
<1> QED BY <1>1, <1>2, EditSound, MeddleSound DEF WritingNext

\* Whatever a writer holds at a step is what the step relies on (write_target_report).
THEOREM WritingSound == WritingSpec => []WriterSound
<1>1. WritingInit => WriterSound
  BY InitSound
<1>2. WriterSound /\ [WritingNext]_writingVars => WriterSound'
  BY NextSound
<1> QED BY <1>1, <1>2, PTL DEF WritingSpec

\* A report under an output name is complete and what its order asked for, a writer
\* that failed has left nothing, and what was written stays.
THEOREM WritesStandCorrect == WritingSpec => []WritesStand
<1>1. WriterSound => WritesStand
  <2> SUFFICES ASSUME WriterSound PROVE WritesStand
    OBVIOUS
  <2>1. PublishedIsCalculated
    BY DEF WriterSound, FilesStand, FileStands, PublishedIsCalculated
  <2>2. NothingIsLeft
    <3> SUFFICES ASSUME NEW w \in Writer
                 PROVE  /\ writer[w].pc \in {"skipped", "failed", "stranded", "written"} => ~writer[w].private
                        /\ writer[w].pc \in {"skipped", "failed"} =>
                             \A o \in Output : output[o] = None \/ output[o].by # w
      BY DEF NothingIsLeft
    <3>1. WriterStands(w) /\ w # Somebody
      BY WritingAssumption DEF WriterSound, WritersStand, WritingConstants
    <3>2. \A o \in Output : output[o] # None /\ output[o].by = w => writer[w].pc \in Published
      BY <3>1 DEF WriterSound, FilesStand, FileStands
    <3> QED BY <3>1, <3>2 DEF WriterStands, Ended, Published
  <2>3. WrittenStays
    BY DEF WriterSound, WritersStand, WriterStands, WrittenStays
  <2> QED BY <2>1, <2>2, <2>3 DEF WritesStand
<1> QED BY <1>1, WritingSound, PTL

\* No step of a writer takes a file away from a name that it has not looked at.
THEOREM OutputsSparedCorrect == WritingSpec => OutputsAreSpared
<1> DEFINE Spared == \A o \in Output : output[o] # None /\ output'[o] # output[o] =>
             \/ used_up'.meddles # used_up.meddles
             \/ \E w \in Writer : /\ writer[w].pc = "remove" /\ Name(w) = o /\ output'[o] = None
                                  /\ Mine(w) \/ writer[w].raced
<1>1. WriterSound /\ [WritingNext]_writingVars => [Spared]_writingVars
  <2> SUFFICES ASSUME WriterSound, WritingNext PROVE Spared
    BY DEF writingVars
  <2>1. ASSUME NEW w \in Writer, WriterMoves(w) PROVE Spared
    <3>1. output' = output => Spared
      OBVIOUS
    <3>2. ASSUME LinkOutput(w), output' # output PROVE Spared
      <4>1. output[Name(w)] = None /\ output' = [output EXCEPT ![Name(w)] = [by |-> w, package |-> writer[w].temp]]
        BY <3>2 DEF LinkOutput
      <4> QED BY <4>1 DEF WriterSound, WritingTypeOK
    <3>3. ASSUME RemoveOutput(w) PROVE Spared
      <4>1. output' = [output EXCEPT ![Name(w)] = None] /\ writer[w].pc = "remove" /\ (Mine(w) \/ writer[w].raced)
        BY <3>3 DEF RemoveOutput, WriterSound, WritersStand, WriterStands
      <4> QED BY <4>1 DEF WriterSound, WritingTypeOK
    <3> QED BY <2>1, <3>1, <3>2, <3>3 DEF WriterMoves, BeginWriting, SkipWriting, PlanWriting, WriteTemp, Recalculate,
               CompareSource, ConfirmLink, VerifyOutput, LookAtOutput, WritingFails, WriterDies
  <2>2. ASSUME NEW o \in Output, Meddle(o) PROVE Spared
    BY <2>2 DEF Meddle, WriterSound, WritingTypeOK
  <2>3. ASSUME EditSource PROVE Spared
    BY <2>3 DEF EditSource
  <2> QED BY <2>1, <2>2, <2>3 DEF WritingNext
<1> QED BY <1>1, WritingSound, PTL DEF WritingSpec, OutputsAreSpared
=============================================================================
