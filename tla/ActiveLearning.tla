----------------------------- MODULE ActiveLearning -----------------------------
(***************************************************************************)
(* The shadow review of active-learning items.  Annotators read a queue    *)
(* and their job's autosave, and post answers that name the exact queue,   *)
(* item and autosave they were made on; the store keeps the current        *)
(* autosave and one step of undo in a single file, replaced under a lock.  *)
(*                                                                         *)
(* Fingerprints cover contents, so a fingerprint is modelled by what it    *)
(* covers: an autosave is the queue revision and the answer of each item.  *)
(***************************************************************************)
EXTENDS Naturals, Sequences

CONSTANTS
  Annotator,
  Item,          \* item_id: what the item is about, not its revision
  Revisions,     \* revisions the queue may have: each item, or NoItem, is
                 \* [allowed : actions, overridden : row overrides, whole : its members]
  FirstRevision,
  Intent,        \* [action, parts]: parts is what a split keeps, {} for another action
  MaxPosts,      \* posts that reach the store
  MaxRebuilds,   \* times the queue is built again
  MaxLost,       \* writes whose answer is lost
  NoItem, NoIntent, NoSave

VARIABLES
  queue,        \* the queue revision served now
  shadow,       \* the file: [current, previous], or NoSave before the first write
  annotator,    \* what each annotator holds: the queue and autosave last shown
  trail,        \* the contents the file has had and what gave them, newest last
  used          \* how much of each bound is used

learningVars == <<queue, shadow, annotator, trail, used>>

Save     == [queue : Revisions, answers : [Item -> Intent \cup {NoIntent}]]
Envelope == [current : Save, previous : Save \cup {NoSave}]

LearningTypeOK ==
  /\ queue \in Revisions
  /\ shadow \in Envelope \cup {NoSave}
  /\ annotator \in [Annotator -> [queue : Revisions, save : Save \cup {NoSave}]]
  /\ trail \in Seq([act : {"none", "answer", "undo"}, save : Save])
  /\ used \in [posts : 0..MaxPosts, rebuilds : 0..MaxRebuilds, lost : 0..MaxLost]

\* The first revision is one of them, an absent file is no file.
LearningConstants ==
  /\ FirstRevision \in Revisions
  /\ {MaxPosts, MaxRebuilds, MaxLost} \subseteq Nat
  /\ NoSave \notin Save /\ NoSave \notin Envelope
ASSUME LearningAssumption == LearningConstants

Items(q)  == {i \in Item : q[i] # NoItem}
Empty(q)  == [queue |-> q, answers |-> [i \in Item |-> NoIntent]]

\* transition_shadow_intent: may intent n be put on item i of revision q?
Transition(q, i, n) ==
  /\ i \in Items(q)
  /\ ~ q[i].overridden
  /\ n.action \in q[i].allowed
  /\ n.action = "split" => n.parts = q[i].whole

\* _rebind_autosave: every stored intent still binds the exact queue.
Rebinds(q, save) == \A i \in Item :
  save.answers[i] # NoIntent => Transition(q, i, save.answers[i])

\* Bug: a file of another revision of the queue is taken.
LoadableAny(q) == TRUE

\* _load_envelope: the file may be absent, and must be of this very revision.
Loadable(q) ==
  shadow # NoSave =>
    \A save \in {shadow.current, shadow.previous} \ {NoSave} :
      save.queue = q /\ Rebinds(q, save)
Current(q)  == IF shadow = NoSave THEN Empty(q) ELSE shadow.current
Previous    == IF shadow = NoSave THEN NoSave ELSE shadow.previous

LearningInit ==
  /\ queue = FirstRevision
  /\ shadow = NoSave
  /\ annotator = [a \in Annotator |-> [queue |-> FirstRevision, save |-> NoSave]]
  /\ trail = <<[act |-> "none", save |-> Empty(FirstRevision)]>>
  /\ used = [posts |-> 0, rebuilds |-> 0, lost |-> 0]

\* The queue is derived again from other source heads.
Rebuild(q) ==
  /\ used.rebuilds < MaxRebuilds
  /\ q # queue
  /\ queue' = q
  /\ trail' = IF shadow = NoSave THEN <<[act |-> "none", save |-> Empty(q)]>> ELSE trail
  /\ used' = [used EXCEPT !.rebuilds = @ + 1]
  /\ UNCHANGED <<shadow, annotator>>

\* load
Load(a) ==
  /\ Loadable(queue)
  /\ annotator' = [annotator EXCEPT ![a] = [queue |-> queue, save |-> Current(queue)]]
  /\ UNCHANGED <<queue, shadow, trail, used>>

\* _write_envelope: one os.replace.  The fsync of the directory that follows may
\* fail, or the process may stop: the file is written and nobody is told.
Write(a, act, current, previous) ==
  /\ shadow' = [current |-> current, previous |-> previous]
  /\ trail' = Append(trail, [act |-> act, save |-> current])
  /\ \/ /\ annotator' = [annotator EXCEPT ![a].save = current]
        /\ used' = [used EXCEPT !.posts = @ + 1]
     \/ /\ used.lost < MaxLost
        /\ used' = [used EXCEPT !.posts = @ + 1, !.lost = @ + 1]
        /\ UNCHANGED annotator
  /\ UNCHANGED queue

\* Bug: the autosave the answer was made on is not compared.
NamedQueueOnly(a, i) ==
  /\ annotator[a].queue = queue
  /\ i \in Items(queue)
  /\ annotator[a].save # NoSave

\* What the client names must be what the store has: the queue and item revision
\* of the intent, and the autosave.
Named(a, i) ==
  /\ annotator[a].queue = queue
  /\ i \in Items(queue)
  /\ annotator[a].save = Current(queue)

Apply(a, i, n) ==
  /\ used.posts < MaxPosts
  /\ Loadable(queue)
  /\ Named(a, i)
  /\ Transition(queue, i, n)
  /\ Write(a, "answer", [Current(queue) EXCEPT !.answers[i] = n], Current(queue))

\* Bug: undo keeps what it undid, to be undone in turn.
UndoSwaps(a) ==
  /\ used.posts < MaxPosts
  /\ Loadable(queue)
  /\ annotator[a].save = Current(queue)
  /\ Previous # NoSave
  /\ Write(a, "undo", Previous, Current(queue))

Undo(a) ==
  /\ used.posts < MaxPosts
  /\ Loadable(queue)
  /\ annotator[a].save = Current(queue)
  /\ Previous # NoSave
  /\ Write(a, "undo", Previous, NoSave)

LearningNext ==
  \/ \E q \in Revisions : Rebuild(q)
  \/ \E a \in Annotator : \/ Load(a)
                          \/ \E i \in Item, n \in Intent : Apply(a, i, n)
                          \/ Undo(a)

LearningSpec == LearningInit /\ [][LearningNext]_learningVars

--------------------------------------------------------------------------------
\* Nobody's answer is overwritten unseen: an answer is replaced, or taken back,
\* only by an annotator whose last view of the autosave showed it.
NoAnswerLostUnseen ==
  [][\A i \in Item :
       LET old == Current(queue).answers[i] IN
       shadow' # shadow /\ old # NoIntent /\ shadow'.current.answers[i] # old
         => \E a \in Annotator : /\ annotator[a].save # NoSave
                                 /\ annotator[a].save.answers[i] = old
                                 /\ annotator'[a].save = shadow'.current
                                    \/ used'.lost > used.lost]_learningVars

\* Undo takes back one answer, the newest, whoever gave it, and never an undo:
\* what it would restore is what the file held right before that answer.
UndoIsOneStep ==
  Previous # NoSave => /\ trail[Len(trail)].act = "answer"
                       /\ Previous = trail[Len(trail) - 1].save

\* Nothing answered for one revision of the queue is shown under another, or
\* under an item that no longer admits it.
AnswersFitQueue ==
  \A a \in Annotator : annotator[a].save # NoSave =>
    /\ annotator[a].save.queue = annotator[a].queue
    /\ Rebinds(annotator[a].queue, annotator[a].save)

\* The file always holds answers to the queue it names and one step to undo.
AnswersStand == UndoIsOneStep /\ AnswersFitQueue

\* Once the queue is rebuilt the stored answers are stale, and no operation of
\* the store takes them away: the shadow review of the job is over.
ReviewGoesOn == Loadable(queue)
================================================================================
