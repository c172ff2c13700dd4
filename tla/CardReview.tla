------------------------------ MODULE CardReview ------------------------------
(***************************************************************************)
(* The inline review of drawing cards: pages of rows grouped into packets, *)
(* decisions on rows and on packets with their undo, the apply of a full   *)
(* page, and the ledger of feedback that the applies of all jobs share,    *)
(* which answers for a row when it is met again.                           *)
(*                                                                         *)
(* A packet is the set of its members and its context: the two make up     *)
(* cluster_id, which clients must echo.  An event of the ledger is what    *)
(* its event_id digests: what was decided, how, and in which generation.   *)
(* The handlers of one job run under its review_lock; jobs of two services *)
(* meet only in the ledger.                                                *)
(***************************************************************************)
EXTENDS Naturals, FiniteSets, SequencesExt

CONSTANTS
  Reviewer,     \* clients of the review pages
  CardOf,       \* of each reviewer: the job it reviews
  Pages,        \* the pages a run may publish: sets of packets [members, context]
  FirstPage,    \* of each job: the page it starts with
  Choice,       \* actions with their category
  Hazardous,    \* rows that read an Excel error or a formula without a value
  Incomplete,   \* contexts of packets that lack one of their parts
  NoChoice,
  MaxGenerations, MaxApplies, MaxWriteFailures, MaxDecisions

VARIABLES
  page,         \* of each job: status, packets, generation, review_apply_epoch
  approvals,    \* inline_approvals of each job
  fanouts,      \* cluster_actions of each job: the choice of each packet
  ledger,       \* the feedback events in their order
  lock,         \* who holds the ledger's file lock
  reviewer,     \* local state of each client: what it saw, what it does
  review        \* how much of each bound is used, and rows edited one by one

reviewVars == <<page, approvals, fanouts, ledger, lock, reviewer, review>>

Card      == {CardOf[c] : c \in Reviewer}
Packet    == UNION Pages
RowsOf(P) == UNION {p.members : p \in P}
Row       == RowsOf(Packet)
Subject   == Row \cup Packet
Event     == [subject : Subject, choice : Choice, card : Card, generation : 1..MaxGenerations,
              valid : BOOLEAN]

Status    == {"review_required", "processing", "ready"}
Sheet     == [status : Status, packets : Pages, generation : 1..MaxGenerations, epoch : Nat]
Places    == {"idle", "claim", "append", "replace", "persist", "run"}
Session   == [pc : Places, seen : Pages, epoch : Nat, copy : Seq(Event)]
Spending  == [generation : 1..MaxGenerations, applies : 0..MaxApplies,
              failures : 0..MaxWriteFailures, decisions : 0..MaxDecisions,
              edited : [Card -> SUBSET Row]]

ReviewTypeOK ==
  /\ page \in [Card -> Sheet]
  /\ approvals \in [Card -> [Row -> Choice \cup {NoChoice}]]
  /\ fanouts \in [Card -> [Packet -> Choice \cup {NoChoice}]]
  /\ ledger \in Seq(Event)
  /\ lock \in Reviewer \cup {NoChoice}
  /\ reviewer \in [Reviewer -> Session]
  /\ review \in Spending

\* A page shares its rows out among finitely many packets; rows, packets,
\* choices, reviewers and NoChoice are told apart.
ReviewConstants ==
  /\ IsFiniteSet(Row) /\ IsFiniteSet(Packet) /\ Row \cap Packet = {}
  /\ \A P \in Pages : \A p, q \in P : p # q => p.members \cap q.members = {}
  /\ \A j \in Card : FirstPage[j] \in Pages
  /\ NoChoice \notin Choice /\ NoChoice \notin Reviewer
  /\ MaxGenerations \in Nat \ {0} /\ {MaxApplies, MaxWriteFailures, MaxDecisions} \subseteq Nat
ASSUME ReviewAssumption == ReviewConstants

Decided(j) == {r \in Row : approvals[j][r] # NoChoice}
Shown(j)   == RowsOf(page[j].packets)
Fanned(j)  == {p \in Packet : fanouts[j][p] # NoChoice}

-----------------------------------------------------------------------------
(* The ledger.                                                             *)

EventOf(j, s, choice) == [subject |-> s, choice |-> choice, card |-> j,
                          generation |-> page[j].generation, valid |-> TRUE]

\* packet_eligible: a packet that may answer for others, beyond its own rows.
PacketEligible(p) == p.context \notin Incomplete /\ p.members \cap Hazardous = {}

\* _feedback_page: an event for each row, and for each fanout of an eligible packet
\* that still stands.  One choice is fanned out to all members.
RowEvents(j)    == {EventOf(j, r, approvals[j][r]) : r \in Shown(j)}
FanoutEvents(j) ==
  LET stands(p) == PacketEligible(p) /\ \A r \in p.members : approvals[j][r] = fanouts[j][p]
  IN  {EventOf(j, p, fanouts[j][p]) : p \in {q \in Fanned(j) \cap page[j].packets : stands(q)}}

\* Bug: the page is appended as it is.
AppendedTwice(log, j) == log \o SetToSeq(RowEvents(j)) \o SetToSeq(FanoutEvents(j))

\* append_page: events whose event_id is known are skipped.
Appended(log, j) ==
  log \o SetToSeq(RowEvents(j) \ Range(log)) \o SetToSeq(FanoutEvents(j) \ Range(log))

Superseded(log, e) == \E f \in Range(log) : f = [e EXCEPT !.valid = FALSE]

\* Bug: the first active event answers.
LookupFirst(log, r) ==
  LET active == {i \in DOMAIN log : /\ log[i].subject = r /\ r \notin Hazardous
                                    /\ log[i].valid /\ ~Superseded(log, log[i])}
  IN  IF active = {} THEN NoChoice
      ELSE log[CHOOSE i \in active : \A h \in active : i <= h].choice

\* lookup_exact: the latest event of the subject that is active.  Rows with an
\* Excel hazard are never answered.
Lookup(log, r) ==
  LET active == {i \in DOMAIN log : /\ log[i].subject = r /\ r \notin Hazardous
                                    /\ log[i].valid /\ ~Superseded(log, log[i])}
  IN  IF active = {} THEN NoChoice
      ELSE log[CHOOSE i \in active : \A h \in active : h <= i].choice

-----------------------------------------------------------------------------
ReviewInit ==
  /\ page = [j \in Card |-> [status |-> "review_required", packets |-> FirstPage[j],
                             generation |-> 1, epoch |-> 0]]
  /\ approvals = [j \in Card |-> [r \in Row |-> NoChoice]]
  /\ fanouts = [j \in Card |-> [p \in Packet |-> NoChoice]]
  /\ ledger = <<>> /\ lock = NoChoice
  /\ reviewer = [c \in Reviewer |-> [pc |-> "idle", seen |-> page[CardOf[c]].packets,
                                     epoch |-> 0, copy |-> <<>>]]
  /\ review = [generation |-> 1, applies |-> 0, failures |-> 0, decisions |-> 0, edited |-> [j \in Card |-> {}]]

Does(c, l) == reviewer[c].pc = l
Locked(j)  == \E c \in Reviewer : CardOf[c] = j /\ reviewer[c].pc \notin {"idle", "claim"}
\* A handler that takes the review_lock of the reviewer's job.  Not each of them
\* tests the status, but only a page under review has rows and packets.
Handles(c) == /\ Does(c, "idle") /\ ~Locked(CardOf[c])
              /\ page[CardOf[c]].status = "review_required"
\* MaxDecisions bounds what is decided, not what is taken back.
Decides(c, edited) ==
  /\ review.decisions < MaxDecisions
  /\ review' = [review EXCEPT !.decisions = @ + 1, !.edited[CardOf[c]] = edited]

\* list_review_clusters: the client learns the packets there are now.  The manifest
\* that it saves differs in the counters of what was opened alone.
ListClusters(c) ==
  /\ Does(c, "idle") /\ reviewer[c].seen # page[CardOf[c]].packets
  /\ reviewer' = [reviewer EXCEPT ![c].seen = page[CardOf[c]].packets]
  /\ UNCHANGED <<page, approvals, fanouts, ledger, lock, review>>

\* put_review_cluster: one choice for exactly the members of a current packet.
PutCluster(c, p, choice) ==
  LET j == CardOf[c]
  IN  /\ Handles(c) /\ p \in reviewer[c].seen \cap page[j].packets
      /\ approvals' = [approvals EXCEPT ![j] =
           [r \in Row |-> IF r \in p.members THEN choice ELSE @[r]]]
      /\ fanouts' = [fanouts EXCEPT ![j][p] = choice]
      /\ Decides(c, review.edited[j] \ p.members)
      /\ UNCHANGED <<page, ledger, lock, reviewer>>

\* undo_review_cluster: refused once a member's choice is not the packet's.
UndoCluster(c, p) ==
  LET j == CardOf[c]
  IN  /\ Handles(c) /\ p \in reviewer[c].seen \cap page[j].packets \cap Fanned(j)
      /\ \A r \in p.members : approvals[j][r] = fanouts[j][p]
      /\ approvals' = [approvals EXCEPT ![j] =
           [r \in Row |-> IF r \in p.members THEN NoChoice ELSE @[r]]]
      /\ fanouts' = [fanouts EXCEPT ![j][p] = NoChoice]
      /\ UNCHANGED <<page, ledger, lock, reviewer, review>>

\* Bug: the fanouts a row belongs to survive its edit.
DiscardNone(j, r) == fanouts[j]

\* _discard_cluster_actions_for.
DiscardFor(j, r) == [p \in Packet |-> IF r \in p.members THEN NoChoice ELSE fanouts[j][p]]

\* put_review_item; delete_review_item when the choice is none.  The client may
\* leave the membership version out.
PutItem(c, r, choice) ==
  LET j == CardOf[c]
  IN  /\ Handles(c) /\ r \in Shown(j) /\ approvals[j][r] # choice
      /\ approvals' = [approvals EXCEPT ![j][r] = choice]
      /\ fanouts' = [fanouts EXCEPT ![j] = DiscardFor(j, r)]
      /\ Decides(c, IF choice = NoChoice THEN review.edited[j] \ {r}
                    ELSE review.edited[j] \cup {r})
      /\ UNCHANGED <<page, ledger, lock, reviewer>>

\* The same where the choice is what the row has already.
ConfirmItem(c, r) ==
  LET j == CardOf[c]
  IN  /\ Handles(c) /\ r \in Decided(j) \cap Shown(j)
      /\ fanouts' = [fanouts EXCEPT ![j] = DiscardFor(j, r)]
      /\ Decides(c, review.edited[j] \cup {r})
      /\ UNCHANGED <<page, approvals, ledger, lock, reviewer>>

-----------------------------------------------------------------------------
(* apply_inline_review.                                                    *)

\* The epoch is read before the lock is waited for.
ApplyAsk(c) ==
  /\ Does(c, "idle") /\ review.applies < MaxApplies
  /\ reviewer' = [reviewer EXCEPT ![c].pc = "claim", ![c].epoch = page[CardOf[c]].epoch]
  /\ review' = [review EXCEPT !.applies = @ + 1]
  /\ UNCHANGED <<page, approvals, fanouts, ledger, lock>>

Complete(j) == page[j].status = "review_required" /\ Shown(j) = Decided(j)

\* Bug: whatever was decided by now is applied.
ClaimableAny(c) == Complete(CardOf[c])

\* The page must be complete and the generation not applied yet.
Claimable(c) == Complete(CardOf[c]) /\ reviewer[c].epoch = page[CardOf[c]].epoch

ApplyClaim(c) ==
  /\ Does(c, "claim") /\ ~Locked(CardOf[c])
  /\ reviewer' = [reviewer EXCEPT ![c].pc = IF Claimable(c) THEN "append" ELSE "idle"]
  /\ UNCHANGED <<page, approvals, fanouts, ledger, lock, review>>

\* Bug: the ledger is read before its lock is taken.
LockLedgerLate(c) ==
  /\ Does(c, "append")
  /\ reviewer' = [reviewer EXCEPT ![c].pc = "replace", ![c].copy = ledger]
  /\ UNCHANGED <<page, approvals, fanouts, ledger, lock, review>>

\* _exclusive_lock and _read.
LockLedger(c) ==
  /\ Does(c, "append") /\ lock = NoChoice
  /\ lock' = c
  /\ reviewer' = [reviewer EXCEPT ![c].pc = "replace", ![c].copy = ledger]
  /\ UNCHANGED <<page, approvals, fanouts, ledger, review>>

\* _atomic_write of the whole ledger; nothing is written when nothing is new.
ReplaceLedger(c) ==
  /\ Does(c, "replace")
  /\ ledger' = Appended(reviewer[c].copy, CardOf[c])
  /\ lock' = NoChoice
  /\ reviewer' = [reviewer EXCEPT ![c].pc = "persist", ![c].copy = <<>>]
  /\ UNCHANGED <<page, approvals, fanouts, review>>

Finishes(c, j) == page' = [page EXCEPT ![j].epoch = @ + 1]

\* The ledger's write or, after it, that of the manifest fails: no run follows.
ApplyFails(c) ==
  /\ reviewer[c].pc \in {"replace", "persist"} /\ review.failures < MaxWriteFailures
  /\ review' = [review EXCEPT !.failures = @ + 1]
  /\ lock' = IF lock = c THEN NoChoice ELSE lock
  /\ reviewer' = [reviewer EXCEPT ![c].pc = "idle", ![c].copy = <<>>]
  /\ Finishes(c, CardOf[c])
  /\ UNCHANGED <<approvals, fanouts, ledger>>

ApplyRuns(c) ==
  /\ Does(c, "persist")
  /\ page' = [page EXCEPT ![CardOf[c]].status = "processing"]
  /\ reviewer' = [reviewer EXCEPT ![c].pc = "run"]
  /\ UNCHANGED <<approvals, fanouts, ledger, lock, review>>

\* The run publishes a result, or another page: its decisions start anew.
RunReady(c) ==
  /\ Does(c, "run")
  /\ page' = [page EXCEPT ![CardOf[c]].status = "ready", ![CardOf[c]].epoch = @ + 1]
  /\ reviewer' = [reviewer EXCEPT ![c].pc = "idle"]
  /\ UNCHANGED <<approvals, fanouts, ledger, lock, review>>

Publishes(j, P) ==
  /\ review.generation < MaxGenerations
  /\ page' = [page EXCEPT ![j] = [status |-> "review_required", packets |-> P,
                                  generation |-> review.generation + 1, epoch |-> @.epoch + 1]]

\* Generations are times: no two publications have the same.
Opens(j, edited) == review' = [review EXCEPT !.generation = @ + 1, !.edited[j] = edited]

RunReviews(c, P) ==
  LET j == CardOf[c]
  IN  /\ Does(c, "run") /\ Publishes(j, P)
      /\ approvals' = [approvals EXCEPT ![j] = [r \in Row |-> NoChoice]]
      /\ fanouts' = [fanouts EXCEPT ![j] = [p \in Packet |-> NoChoice]]
      /\ reviewer' = [reviewer EXCEPT ![c].pc = "idle"]
      /\ Opens(j, {})
      /\ UNCHANGED <<ledger, lock>>

\* Bug: restored fanouts are not compared with the page.
RestoredAny(j, P, kept) == fanouts[j]

\* Of the saved fanouts those whose packet is there with the same members and
\* whose members kept that choice.
Restored(j, P, kept) ==
  [p \in Packet |-> IF p \in P /\ \A r \in p.members : kept[r] = fanouts[j][p]
                    THEN fanouts[j][p] ELSE NoChoice]

\* _schedule_review_recovery after a restart of the job's service: a page is
\* built anew and the choices of rows that are still on it come back.
Recover(j, P) ==
  LET kept == [r \in Row |-> IF r \in RowsOf(P) THEN approvals[j][r] ELSE NoChoice]
  IN  /\ page[j].status = "review_required" /\ Publishes(j, P)
      /\ approvals' = [approvals EXCEPT ![j] = kept]
      /\ fanouts' = [fanouts EXCEPT ![j] = Restored(j, P, kept)]
      /\ lock' = IF lock # NoChoice /\ CardOf[lock] = j THEN NoChoice ELSE lock
      /\ reviewer' = [c \in Reviewer |-> IF CardOf[c] = j
                        THEN [reviewer[c] EXCEPT !.pc = "idle", !.copy = <<>>] ELSE reviewer[c]]
      /\ Opens(j, review.edited[j] \cap RowsOf(P))
      /\ UNCHANGED ledger

\* FeedbackStore.invalidate of an event, one append of its own.
Invalidate(e) ==
  /\ lock = NoChoice /\ e.valid /\ ~Superseded(ledger, e)
  /\ review.decisions < MaxDecisions
  /\ ledger' = Append(ledger, [e EXCEPT !.valid = FALSE])
  /\ review' = [review EXCEPT !.decisions = @ + 1]
  /\ UNCHANGED <<page, approvals, fanouts, lock, reviewer>>

ReviewNext ==
  \/ \E c \in Reviewer :
       \/ ListClusters(c) \/ ApplyAsk(c) \/ ApplyClaim(c) \/ LockLedger(c) \/ ReplaceLedger(c)
       \/ ApplyFails(c) \/ ApplyRuns(c) \/ RunReady(c)
       \/ \E P \in Pages : RunReviews(c, P)
       \/ \E p \in Packet : UndoCluster(c, p) \/ \E choice \in Choice : PutCluster(c, p, choice)
       \/ \E r \in Row : ConfirmItem(c, r) \/ \E choice \in Choice \cup {NoChoice} : PutItem(c, r, choice)
  \/ \E j \in Card, P \in Pages : Recover(j, P)
  \/ \E e \in Range(ledger) : Invalidate(e)

ReviewSpec == ReviewInit /\ [][ReviewNext]_reviewVars

-----------------------------------------------------------------------------
(* Properties.                                                             *)

\* A remembered fanout is of a packet of the current page, and every member has
\* its choice: edits, undo, new pages and restarts leave none that an undo
\* could take for its own.
FanoutsStand ==
  \A j \in Card : \A p \in Fanned(j) :
    p \in page[j].packets /\ \A r \in p.members : approvals[j][r] = fanouts[j][p]

\* A choice made for one row is never removed by the undo of a packet.
UndoSparesEdits ==
  \A c \in Reviewer, p \in Packet : UndoCluster(c, p)
       => p.members \cap review.edited[CardOf[c]] = {}

\* The ledger only grows, whoever else appends to it.
LedgerGrows == IsPrefix(ledger, ledger')

\* When a page has been appended, the ledger answers for each of its rows what
\* the page says, whatever other jobs and generations said before; only what an
\* earlier apply of this generation had appended already may have been overtaken.
ReplayIsThePage ==
  \A c \in Reviewer : ReplaceLedger(c) =>
       LET j == CardOf[c]
       IN  \A r \in Shown(j) \ Hazardous :
             EventOf(j, r, approvals[j][r]) \in Range(ledger) \/ Lookup(ledger', r) = approvals[j][r]

\* No page is in the ledger twice: of every event there is one.
EventsAreUnique == \A h, i \in DOMAIN ledger : ledger[h] = ledger[i] => h = i

\* Of two applies that were asked for one page at most one starts: a run never
\* follows a page on which an earlier apply gave up after the asking.
RunsArePending ==
  \A c \in Reviewer : reviewer[c].pc \in {"append", "replace", "persist", "run"} =>
    /\ reviewer[c].epoch = page[CardOf[c]].epoch
    /\ Shown(CardOf[c]) = Decided(CardOf[c])
\* However reviewers race, fail and retry, the page, its packets and the ledger
\* agree, and a page is applied once.
ReviewStands == FanoutsStand /\ EventsAreUnique /\ RunsArePending

\* No step takes away what a reviewer decided or what the ledger remembers.
DecisionsLast == [][UndoSparesEdits /\ LedgerGrows /\ ReplayIsThePage]_reviewVars
===============================================================================
