-------------------------- MODULE CardServiceProofs ---------------------------
(*****************************************************************************)
(* Proofs about the drawing cards of the service.  create_job is idempotent  *)
(* and retention keeps what is in use, however callers of one key interleave *)
(* and fail while threads prune without a lock, finished jobs are retried    *)
(* and the process restarts; where an entry or a job may be lost to that,    *)
(* the statements say so.  The inline review keeps what was decided.         *)
(*****************************************************************************)
EXTENDS CardIntake, CardReview, FiniteSetTheorems, SequenceTheorems, FunctionTheorems, WellFoundedInduction, TLAPS

-----------------------------------------------------------------------------
(* Induction with sets in the place of predicates, and the functions that    *)
(* recursive definitions over the naturals define.                           *)

\* A nonempty set of natural numbers has a least element.
LEMMA LeastNat ==
  ASSUME NEW S \in SUBSET Nat, S # {}
  PROVE  \E n \in S : \A m \in S : n <= m
<1> DEFINE R == OpToRel(<, Nat)
<1>1. IsWellFoundedOn(R, Nat)
  BY NatLessThanWellFounded
<1>2. \A x, y \in Nat : <<x, y>> \in R <=> x < y
  BY DEF OpToRel
<1> HIDE DEF R
<1>3. PICK n \in S : \A m \in S : <<m, n>> \notin R
  BY <1>1, WFMin
<1>4. \A m \in S : ~(m < n)
  BY <1>2, <1>3
<1> QED BY <1>3, <1>4

\* Induction over the natural numbers.
LEMMA NatSetInduction ==
  ASSUME NEW S, 0 \in S, \A n \in Nat : n \in S => n + 1 \in S
  PROVE  Nat \subseteq S
<1> SUFFICES ASSUME \E n \in Nat : n \notin S PROVE FALSE
  OBVIOUS
<1>1. PICK n \in Nat \ S : \A m \in Nat \ S : n <= m
  BY LeastNat
<1>2. n # 0 /\ n - 1 \in Nat /\ n - 1 \in S
  BY <1>1
<1> QED BY <1>1, <1>2

\* Induction over a finite set, one element at a time.
LEMMA FiniteSetInduction ==
  ASSUME NEW S, IsFiniteSet(S), NEW F, {} \in F,
         \A T \in SUBSET S : \A x \in S \ T : T \in F => T \cup {x} \in F
  PROVE  S \in F
<1> DEFINE N == {n \in Nat : \A T \in SUBSET S : Cardinality(T) = n => T \in F}
<1>1. \A T \in SUBSET S : IsFiniteSet(T) /\ Cardinality(T) \in Nat
  BY FS_Subset, FS_CardinalityType
<1>2. 0 \in N
  BY <1>1, FS_EmptySet
<1>3. ASSUME NEW n \in Nat, n \in N PROVE n + 1 \in N
  <2> SUFFICES ASSUME NEW T \in SUBSET S, Cardinality(T) = n + 1 PROVE T \in F
    OBVIOUS
  <2>1. T # {}
    <3>1. Cardinality({}) = 0
      BY FS_EmptySet
    <3> QED BY <3>1
  <2>2. PICK x \in T : TRUE
    BY <2>1
  <2>3. Cardinality(T \ {x}) = n
    <3>1. IsFiniteSet(T)
      BY <1>1
    <3>2. Cardinality(T \ {x}) = Cardinality(T) - 1
      BY <3>1, FS_RemoveElement
    <3> QED BY <3>2
  <2>4. T \ {x} \in F
    BY <1>3, <2>3
  <2>5. (T \ {x}) \cup {x} = T
    BY <2>2
  <2> QED BY <2>4, <2>5
<1>4. Cardinality(S) \in N
  <2> HIDE DEF N
  <2> QED BY <1>1, <1>2, <1>3, NatSetInduction
<1> QED BY <1>4

\* What is computed in steps, each from the value before it.
Steps(A, base, step, n) ==
  {f \in [0..n -> A] : f[0] = base /\ \A i \in 1..n : f[i] = step[i][f[i - 1]]}

\* Such a computation exists.
LEMMA StepsExist ==
  ASSUME NEW n \in Nat, NEW A, NEW base \in A, NEW step \in [1..n -> [A -> A]]
  PROVE  Steps(A, base, step, n) # {}
<1> DEFINE K == {k \in Nat : k <= n => Steps(A, base, step, k) # {}}
<1>1. 0 \in K
  <2>1. [i \in 0..0 |-> base] \in Steps(A, base, step, 0)
    BY DEF Steps
  <2> QED BY <2>1
<1>2. ASSUME NEW k \in Nat, k \in K PROVE k + 1 \in K
  <2> SUFFICES ASSUME k + 1 <= n PROVE Steps(A, base, step, k + 1) # {}
    OBVIOUS
  <2>1. PICK f \in Steps(A, base, step, k) : TRUE
    BY <1>2
  <2>2. f \in [0..k -> A] /\ f[0] = base /\ \A i \in 1..k : f[i] = step[i][f[i - 1]]
    BY <2>1 DEF Steps
  <2> DEFINE g == [i \in 0..(k + 1) |-> IF i = k + 1 THEN step[k + 1][f[k]] ELSE f[i]]
  <2>3. step[k + 1][f[k]] \in A
    BY <2>2
  <2>4. g \in [0..(k + 1) -> A]
    BY <2>2, <2>3
  <2>5. \A i \in 1..(k + 1) : g[i] = step[i][g[i - 1]]
    BY <2>2
  <2>6. g \in Steps(A, base, step, k + 1)
    BY <2>2, <2>4, <2>5 DEF Steps
  <2> QED BY <2>6
<1>3. n \in K
  <2> HIDE DEF K
  <2> QED BY <1>1, <1>2, NatSetInduction
<1> QED BY <1>3

-----------------------------------------------------------------------------
(* The creation of cards and the threads beside it: the invariant.         *)

\* c holds the reservation of its key, and no job is published under it.
Holds(c) == \/ caller[c].pc = "prepare"
            \/ caller[c].pc = "rollback" /\ caller[c].job = NoJob

\* c has published a job that nobody has launched yet.
Makes(c) == caller[c].job # NoJob

\* What a caller has in hand at each point of create_job.
CallersStand ==
  \A c \in Client :
    /\ caller[c].pc # "idle" => /\ caller[c].request \in Request
                                /\ caller[c].reservation \in Reserved
    /\ caller[c].pc \in {"idle", "wait", "prepare"} => ~Makes(c)
    /\ caller[c].pc = "launch" => Makes(c)

\* Unless its entry was popped for another job, a reserved key has no job, and a
\* holder's key is reserved and is its own.
ReservationsStand ==
  /\ \A k \in Key \ robbed : pending[k] # NoJob => idempotency[k] = NoJob
  /\ \A c \in Client : Holds(c) /\ KeyOf(c) \notin robbed => pending[KeyOf(c)] # NoJob
  /\ \A c, o \in Client :
       Holds(c) /\ Holds(o) /\ KeyOf(c) = KeyOf(o) /\ KeyOf(c) \notin robbed => c = o

\* A job being made can be found as it was asked for, untouched, with one maker.
MakersStand ==
  /\ \A c \in Client : Makes(c) =>
       /\ caller[c].job \in table
       /\ jobs[caller[c].job].status = "queued"
       /\ jobs[caller[c].job].key = KeyOf(c)
       /\ jobs[caller[c].job].content = ContentOf(c)
  /\ \A c, o \in Client : Makes(c) /\ caller[c].job = caller[o].job => c = o

\* A thread that prunes has j on its list or in hand.
Listed(j) == \E p \in Pruner : j \in pruner[p].todo \cup {pruner[p].job}

\* What a thread has in hand is in nobody's making.
HandsStand == \A j \in Job : Listed(j) \/ retry.job = j \/ unsaved[j] # NoJob => Launched(j)

\* The job in hand has left the table; what is listed had finished, and if it has
\* not by now then retry_job took it up meanwhile.
PrunersStand ==
  /\ \A p \in Pruner : pruner[p].next # "record" => pruner[p].job \in Job \ table
  /\ \A j \in Job : Listed(j) => jobs[j].status \in Terminal \/ j \in overtaken

\* A retry has found a finished job, and keeps the record of it that it replaced.
RetryStands ==
  /\ retry.before # NoJob => /\ retry.job # NoJob /\ retry.before.status \in Terminal
                             /\ retry.before.key = jobs[retry.job].key
                             /\ retry.before.content = jobs[retry.job].content
  /\ retry.job # NoJob /\ retry.before = NoJob => jobs[retry.job].status \in Terminal

\* An identifier that was not drawn is nowhere.
DrawnStands ==
  /\ table \subseteq Known(jobs) /\ Known(jobs) \cup Known(manifests) \subseteq intake.drawn
  /\ \A c \in Client : caller[c].answer # NoJob => caller[c].answer \in intake.drawn

ClientsStand == CallersStand /\ ReservationsStand /\ MakersStand
ThreadsStand == HandsStand /\ PrunersStand /\ RetryStands

IntakeSound == /\ IntakeTypeOK /\ ClientsStand /\ ThreadsStand /\ DrawnStands
               /\ OneJobPerKey /\ KeyLeads /\ AnswerMatches

-----------------------------------------------------------------------------
(* create_job, one lemma for each of its steps.                            *)

\* A caller at work has asked for a request of some key.
LEMMA RequestsHaveKeys ==
  ASSUME IntakeConstants, IntakeTypeOK, CallersStand, NEW c \in Client,
         caller[c].pc # "idle"
  PROVE  KeyOf(c) \in Key /\ ContentOf(c) \in {r.content : r \in Request}
BY DEF IntakeConstants, IntakeTypeOK, CallersStand, KeyOf, ContentOf

\* A caller that is given its next state keeps the others as they are.
LEMMA CallerMoves ==
  ASSUME IntakeTypeOK, NEW c \in Client, NEW x \in Caller,
         caller' = [caller EXCEPT ![c] = x]
  PROVE  /\ caller' \in [Client -> Caller]
         /\ caller'[c] = x /\ \A o \in Client : o # c => caller'[o] = caller[o]
BY DEF IntakeTypeOK

\* What a caller takes away with it.
Answered(c, j, own) == [pc |-> "idle", request |-> IF j = NoJob THEN NoJob ELSE caller[c].request,
                        reservation |-> NoJob, job |-> NoJob, answer |-> j, owner |-> own]

LEMMA CallerReturns ==
  ASSUME IntakeTypeOK, NEW c \in Client, NEW j \in Job \cup {NoJob}, NEW own \in BOOLEAN,
         Returns(c, j, own)
  PROVE  /\ caller' \in [Client -> Caller]
         /\ caller'[c] = Answered(c, j, own)
         /\ \A o \in Client : o # c => caller'[o] = caller[o]
<1>1. caller[c] \in Caller
  BY DEF IntakeTypeOK
<1>2. Answered(c, j, own) \in Caller
  BY <1>1 DEF Caller, Answered
<1>3. caller' = [caller EXCEPT ![c] = Answered(c, j, own)]
  BY DEF Returns, Answered
<1> QED BY <1>2, <1>3, CallerMoves

\* What a failure spends.
LEMMA FailsTyped ==
  ASSUME IntakeConstants, IntakeTypeOK, Fails
  PROVE  intake' \in Usage /\ intake'.drawn = intake.drawn
BY DEF IntakeConstants, IntakeTypeOK, Usage, Fails

\* Callers that give up what they make, or keep it, disturb no other thread, no
\* record and no key.
LEMMA CallersAlone ==
  ASSUME IntakeConstants, IntakeSound, UNCHANGED <<recordVars, idempotency, pruningVars, retryVars>>,
         \A c \in Client : caller'[c].job \in {caller[c].job, NoJob}
  PROVE  ThreadsStand' /\ OneJobPerKey' /\ KeyLeads'
<1>1. UNCHANGED <<jobs, table, manifests, unsaved, idempotency, pruner, robbed, retry, overtaken>>
  BY DEF recordVars, pruningVars, retryVars
<1>2. HandsStand'
  BY <1>1 DEF IntakeConstants, IntakeSound, ThreadsStand, HandsStand, Listed, Launched, Known
<1>3. PrunersStand' /\ RetryStands'
  BY <1>1 DEF IntakeSound, ThreadsStand, PrunersStand, RetryStands, Listed
<1>4. OneJobPerKey' /\ KeyLeads'
  BY <1>1 DEF IntakeSound, OneJobPerKey, KeyLeads, Known
<1> QED BY <1>2, <1>3, <1>4 DEF ThreadsStand

\* The first block under the lock.
LEMMA AskStep ==
  ASSUME IntakeConstants, IntakeSound, NEW c \in Client, NEW request \in Request,
         Ask(c, request)
  PROVE  IntakeSound'
<1> USE DEF IntakeSound, ClientsStand
<1> DEFINE found == idempotency[request.key]
           held  == pending[request.key]
           me    == caller'[c]
<1>1. /\ request.key \in Key /\ caller[c] \in Caller /\ caller[c].pc = "idle"
      /\ found \in Job \cup {NoJob} /\ held \in Reserved \cup {NoJob}
      /\ intake.asks + 1 \in Reserved
      /\ jobs \in [Job -> Document \cup {NoJob}]
  BY DEF Ask, CallerAt, IntakeConstants, IntakeTypeOK, Reserved, Usage
<1>2. /\ \A o \in Client : o # c => caller'[o] = caller[o]
      /\ me.job = NoJob /\ me.owner = FALSE
      /\ me.pc # "idle" \/ me.answer # NoJob => me.request = request
      /\ \/ /\ me.pc = "idle" /\ me.reservation = NoJob /\ found # NoJob
            /\ me.answer = IF found \in table /\ jobs[found].content = request.content
                           THEN found ELSE NoJob
            /\ pending' = pending
         \/ /\ me.pc = "prepare" /\ me.reservation = intake.asks + 1 /\ me.answer = NoJob
            /\ found = NoJob /\ held = NoJob
            /\ pending' = [pending EXCEPT ![request.key] = intake.asks + 1]
         \/ /\ me.pc = "wait" /\ me.reservation = held /\ me.answer = NoJob
            /\ held # NoJob /\ pending' = pending
  BY <1>1 DEF Ask, IntakeTypeOK, Caller, CallersStand, Makes
<1>3. caller' \in [Client -> Caller]
  <2> DEFINE next(l, r, j) == [pc |-> l, request |-> IF l = "idle" /\ j = NoJob THEN NoJob ELSE request,
                               reservation |-> r, job |-> NoJob, answer |-> j, owner |-> FALSE]
  <2>1. \A l \in {"idle", "wait", "prepare"}, r \in Reserved \cup {NoJob}, j \in Job \cup {NoJob} :
          next(l, r, j) \in Caller
    BY DEF Caller
  <2>2. \E l \in {"idle", "wait", "prepare"}, r \in Reserved \cup {NoJob}, j \in Job \cup {NoJob} :
          caller' = [caller EXCEPT ![c] = next(l, r, j)]
    BY <1>1 DEF Ask
  <2> QED BY <2>1, <2>2, CallerMoves
<1>4. /\ UNCHANGED <<recordVars, idempotency, pruningVars, retryVars>>
      /\ UNCHANGED <<jobs, table, manifests, unsaved, idempotency, signalled, pruner, robbed, retry, overtaken>>
      /\ intake'.drawn = intake.drawn
  BY DEF Ask, IntakeTypeOK, Usage, recordVars, pruningVars, retryVars
<1>5. IntakeTypeOK'
  <2>1. pending' \in [Key -> Reserved \cup {NoJob}]
    BY <1>1, <1>2 DEF IntakeTypeOK
  <2>2. intake' \in Usage
    BY <1>1 DEF Ask, IntakeTypeOK, IntakeConstants, Usage
  <2> QED BY <1>3, <1>4, <2>1, <2>2 DEF IntakeTypeOK
<1>6. CallersStand'
  BY <1>1, <1>2, <1>3 DEF CallersStand, Makes
<1>7. ReservationsStand'
  BY <1>1, <1>2, <1>4, <1>5 DEF ReservationsStand, IntakeTypeOK, CallersStand, Holds, Makes, KeyOf, Reserved, IntakeConstants
<1>8. MakersStand'
  BY <1>1, <1>2, <1>4 DEF MakersStand, Makes, KeyOf, ContentOf
<1>9. ThreadsStand' /\ OneJobPerKey' /\ KeyLeads'
  <2>1. \A o \in Client : caller'[o].job \in {caller[o].job, NoJob}
    BY <1>2
  <2> QED BY <1>4, <2>1, CallersAlone
<1>10. DrawnStands'
  BY <1>1, <1>2, <1>4 DEF DrawnStands, Known
<1>11. AnswerMatches'
  BY <1>1, <1>2, <1>4 DEF AnswerMatches, KeyLeads, KeyOf, ContentOf, Known
<1> QED BY <1>5, <1>6, <1>7, <1>8, <1>9, <1>10, <1>11

\* A waiter is answered with the job of its key, or not at all.
LEMMA WakeStep ==
  ASSUME IntakeConstants, IntakeSound, NEW c \in Client, Wake(c)
  PROVE  IntakeSound'
<1> USE DEF IntakeSound, ClientsStand
<1> DEFINE found == idempotency[KeyOf(c)]
           me    == caller'[c]
<1>1. /\ KeyOf(c) \in Key /\ caller[c] \in Caller /\ caller[c].pc = "wait"
      /\ found \in Job \cup {NoJob}
      /\ jobs \in [Job -> Document \cup {NoJob}]
  BY RequestsHaveKeys DEF Wake, CallerAt, IntakeTypeOK
<1>2. /\ UNCHANGED <<recordVars, idempotency, pruningVars, retryVars>>
      /\ UNCHANGED <<jobs, table, manifests, unsaved, idempotency, pending, signalled,
                     pruner, robbed, retry, overtaken, intake>>
  BY DEF Wake, recordVars, keyVars, pruningVars, retryVars
<1>3. PICK j \in Job \cup {NoJob} :
        /\ Returns(c, j, FALSE)
        /\ j # NoJob => j = found /\ j \in table /\ jobs[found].content = ContentOf(c)
  BY <1>1 DEF Wake, ReturnsExisting
<1>4. /\ caller' \in [Client -> Caller]
      /\ \A o \in Client : o # c => caller'[o] = caller[o]
      /\ me.pc = "idle" /\ me.job = NoJob /\ me.answer = j
      /\ j # NoJob => me.request = caller[c].request
  <2>1. /\ caller' \in [Client -> Caller]
        /\ me = Answered(c, j, FALSE)
        /\ \A o \in Client : o # c => caller'[o] = caller[o]
    BY <1>3, CallerReturns, Zenon
  <2> QED BY <2>1 DEF Answered
<1>5. IntakeTypeOK'
  BY <1>2, <1>4 DEF IntakeTypeOK
<1>6. CallersStand' /\ ReservationsStand' /\ MakersStand'
  BY <1>2, <1>4 DEF CallersStand, ReservationsStand, MakersStand, Holds, Makes, KeyOf, ContentOf
<1>7. ThreadsStand' /\ OneJobPerKey' /\ KeyLeads'
  <2>1. \A o \in Client : caller'[o].job \in {caller[o].job, NoJob}
    BY <1>4
  <2> QED BY <1>2, <2>1, CallersAlone
<1>8. DrawnStands' /\ AnswerMatches'
  BY <1>1, <1>2, <1>3, <1>4 DEF DrawnStands, AnswerMatches, KeyLeads, KeyOf, ContentOf, Known
<1> QED BY <1>5, <1>6, <1>7, <1>8

\* Whatever fails before the job is published leaves the reservation behind.
LEMMA MakeDirectoryFailsStep ==
  ASSUME IntakeConstants, IntakeSound, NEW c \in Client, MakeDirectoryFails(c)
  PROVE  IntakeSound'
<1> USE DEF IntakeSound, ClientsStand
<1>1. /\ UNCHANGED <<recordVars, idempotency, pruningVars, retryVars>>
      /\ UNCHANGED <<jobs, table, manifests, unsaved, idempotency, pending, signalled,
                     pruner, robbed, retry, overtaken>>
  BY DEF MakeDirectoryFails, recordVars, keyVars, pruningVars, retryVars
<1>2. /\ caller' \in [Client -> Caller]
      /\ caller'[c].pc = "idle" /\ caller'[c].job = NoJob /\ caller'[c].answer = NoJob
      /\ \A o \in Client : o # c => caller'[o] = caller[o]
  <2>1. /\ caller' \in [Client -> Caller]
        /\ caller'[c] = Answered(c, NoJob, FALSE)
        /\ \A o \in Client : o # c => caller'[o] = caller[o]
    BY CallerReturns, Zenon DEF MakeDirectoryFails
  <2> QED BY <2>1 DEF Answered
<1>3. intake' \in Usage /\ intake'.drawn = intake.drawn
  BY FailsTyped DEF MakeDirectoryFails
<1>4. IntakeTypeOK'
  BY <1>1, <1>2, <1>3 DEF IntakeTypeOK
<1>5. CallersStand' /\ ReservationsStand' /\ MakersStand'
  BY <1>1, <1>2 DEF CallersStand, ReservationsStand, MakersStand, Holds, Makes, KeyOf, ContentOf
<1>6. ThreadsStand' /\ OneJobPerKey' /\ KeyLeads'
  <2>1. \A o \in Client : caller'[o].job \in {caller[o].job, NoJob}
    BY <1>2
  <2> QED BY <1>1, <2>1, CallersAlone
<1>7. DrawnStands' /\ AnswerMatches'
  BY <1>1, <1>2, <1>3 DEF DrawnStands, AnswerMatches, KeyOf, ContentOf, Known
<1> QED BY <1>4, <1>5, <1>6, <1>7

\* What fails inside the try goes to the rollback, with its reservation or its
\* job still in hand.
LEMMA FailureStep ==
  ASSUME IntakeConstants, IntakeSound, NEW c \in Client,
         WriteSourcesFails(c) \/ LaunchFails(c)
  PROVE  IntakeSound'
<1> USE DEF IntakeSound, ClientsStand
<1>1. /\ UNCHANGED <<recordVars, idempotency, pruningVars, retryVars>>
      /\ UNCHANGED <<jobs, table, manifests, unsaved, idempotency, pending, signalled,
                     pruner, robbed, retry, overtaken>>
  BY DEF WriteSourcesFails, LaunchFails, recordVars, keyVars, pruningVars, retryVars
<1>2. /\ caller' \in [Client -> Caller]
      /\ caller[c].pc \in {"prepare", "launch"} /\ caller'[c].pc = "rollback"
      /\ caller'[c].request = caller[c].request
      /\ caller'[c].reservation = caller[c].reservation
      /\ caller'[c].job = caller[c].job /\ caller'[c].answer = caller[c].answer
      /\ \A o \in Client : o # c => caller'[o] = caller[o]
  BY DEF WriteSourcesFails, LaunchFails, CallerAt, IntakeTypeOK, Caller
<1>3. intake' \in Usage /\ intake'.drawn = intake.drawn
  BY FailsTyped DEF WriteSourcesFails, LaunchFails
<1>4. IntakeTypeOK'
  BY <1>1, <1>2, <1>3 DEF IntakeTypeOK
<1>5. CallersStand' /\ ReservationsStand' /\ MakersStand'
  BY <1>1, <1>2 DEF CallersStand, ReservationsStand, MakersStand, Holds, Makes, KeyOf, ContentOf
<1>6. ThreadsStand' /\ OneJobPerKey' /\ KeyLeads'
  <2>1. \A o \in Client : caller'[o].job \in {caller[o].job, NoJob}
    BY <1>2
  <2> QED BY <1>1, <2>1, CallersAlone
<1>7. DrawnStands' /\ AnswerMatches'
  BY <1>1, <1>2, <1>3 DEF DrawnStands, AnswerMatches, KeyOf, ContentOf, Known
<1> QED BY <1>4, <1>5, <1>6, <1>7

\* The job is published, whatever becomes of its manifest and of its creation.
LEMMA PublishStep ==
  ASSUME IntakeConstants, IntakeSound, NEW c \in Client, NEW j \in Job,
         PublishSaved(c, j) \/ PublishFails(c, j)
  PROVE  IntakeSound'
<1> USE DEF IntakeSound, ClientsStand, ThreadsStand
<1> DEFINE k == KeyOf(c)
           document == [key |-> k, content |-> ContentOf(c),
                        status |-> "queued", updated |-> intake.now]
<1>1. /\ k \in Key /\ ContentOf(c) \in {r.content : r \in Request}
      /\ caller[c].pc = "prepare" /\ j \notin intake.drawn /\ caller[c].job = NoJob
      /\ jobs[j] = NoJob /\ j \notin table
  BY RequestsHaveKeys DEF PublishSaved, PublishFails, Publish, CallerAt, CallersStand, Makes, DrawnStands, Known
<1>2. /\ document \in Document /\ document # NoJob
      /\ jobs' = [jobs EXCEPT ![j] = document] /\ table' = table \cup {j}
      /\ manifests' = manifests \/ manifests' = [manifests EXCEPT ![j] = document]
      /\ idempotency' = [idempotency EXCEPT ![k] = j]
      /\ pending' = [pending EXCEPT ![k] = NoJob]
      /\ signalled' = signalled \cup ({pending[k]} \ {NoJob})
      /\ UNCHANGED <<unsaved, pruner, robbed, retry, overtaken>>
  <2>1. document \in Document /\ document # NoJob
    BY <1>1 DEF IntakeConstants, IntakeTypeOK, Document, Active, Usage
  <2> QED BY <2>1 DEF PublishSaved, PublishFails, Publish, Release, pruningVars, retryVars
<1>3. /\ caller' \in [Client -> Caller]
      /\ caller'[c].pc \in {"launch", "rollback"} /\ caller'[c].job = j
      /\ caller'[c].request = caller[c].request
      /\ caller'[c].reservation = caller[c].reservation
      /\ caller'[c].answer = caller[c].answer
      /\ \A o \in Client : o # c => caller'[o] = caller[o]
  <2>1. caller[c] \in Caller
    BY DEF IntakeTypeOK
  <2>2. PICK l \in {"launch", "rollback"} :
          caller' = [caller EXCEPT ![c].pc = l, ![c].job = j]
    BY DEF PublishSaved, PublishFails
  <2>3. [caller[c] EXCEPT !.pc = l, !.job = j] \in Caller
    BY <2>1 DEF Caller
  <2>4. caller' = [caller EXCEPT ![c] = [caller[c] EXCEPT !.pc = l, !.job = j]]
    BY <2>2 DEF IntakeTypeOK
  <2> QED BY <2>1, <2>3, <2>4, CallerMoves DEF Caller
<1>4. intake' \in Usage /\ intake'.drawn = intake.drawn \cup {j}
  <2>1. CASE PublishSaved(c, j)
    BY <2>1 DEF PublishSaved, IntakeTypeOK, Usage
  <2>2. CASE PublishFails(c, j)
    <3>1. intake \in Usage /\ intake.failures + 1 \in 0..MaxFailures
      BY <2>2 DEF PublishFails, IntakeConstants, IntakeTypeOK, Usage
    <3>2. intake' = [intake EXCEPT !.drawn = @ \cup {j}, !.failures = @ + 1]
      BY <2>2 DEF PublishFails
    <3> QED BY <3>1, <3>2 DEF Usage
  <2> QED BY <2>1, <2>2
<1>5. IntakeTypeOK'
  BY <1>1, <1>2, <1>3, <1>4 DEF IntakeTypeOK
<1> HIDE DEF k, document
<1>6. /\ document.key = k /\ document.content = ContentOf(c) /\ document.status = "queued"
      /\ KeyOf(c)' = k /\ ContentOf(c)' = ContentOf(c) /\ k = KeyOf(c)
      /\ \A o \in Client : o # c => KeyOf(o)' = KeyOf(o) /\ ContentOf(o)' = ContentOf(o)
  BY <1>3 DEF document, k, KeyOf, ContentOf
<1>7. /\ jobs'[j] = document /\ \A i \in Job : i # j => jobs'[i] = jobs[i]
      /\ Known(jobs') = Known(jobs) \cup {j}
  BY <1>2 DEF IntakeTypeOK, Known
<1>8. CallersStand'
  BY <1>1, <1>3 DEF IntakeConstants, CallersStand, Makes
<1>9. ReservationsStand'
  BY <1>1, <1>2, <1>3, <1>6 DEF IntakeConstants, IntakeTypeOK, CallersStand, ReservationsStand, Holds, Makes
<1>10. MakersStand'
  <2>1. \A o \in Client : o # c /\ Makes(o) => caller[o].job \in Job \ {j}
    BY <1>1 DEF MakersStand, IntakeTypeOK
  <2>2. \A o \in Client : o # c => (Makes(o)' <=> Makes(o))
    BY <1>3 DEF Makes
  <2> QED BY <1>1, <1>2, <1>3, <1>6, <1>7, <2>1, <2>2 DEF MakersStand, Makes
<1>11. ThreadsStand'
  <2>1. \A i \in Job : Listed(i) \/ retry.job = i \/ unsaved[i] # NoJob => Launched(i) /\ i # j
    BY <1>1 DEF HandsStand, Launched, Known
  <2>2. \A i \in Job : Launched(i) /\ i # j => Launched(i)'
    BY <1>3, <1>7 DEF Launched, Known
  <2>3. \A i \in Job : Listed(i)' <=> Listed(i)
    BY <1>2 DEF Listed
  <2>4. HandsStand'
    BY <1>2, <2>1, <2>2, <2>3 DEF HandsStand
  <2>5. PrunersStand'
    <3>1. \A p \in Pruner : pruner[p].job \in Job => Listed(pruner[p].job)
      BY DEF Listed
    <3> QED BY <1>2, <1>7, <2>1, <2>3, <3>1 DEF PrunersStand
  <2>6. RetryStands'
    <3>1. retry.job \in Job \cup {NoJob}
      BY DEF IntakeTypeOK, Retrying
    <3> QED BY <1>2, <1>7, <2>1, <3>1 DEF RetryStands
  <2> QED BY <2>4, <2>5, <2>6
<1>12. k \notin robbed => idempotency[k] = NoJob
  BY <1>1, <1>6 DEF ReservationsStand, Holds
<1>13. OneJobPerKey'
  <2> SUFFICES ASSUME NEW i \in table', jobs'[i].key \notin robbed PROVE idempotency'[jobs'[i].key] = i
    BY <1>2 DEF OneJobPerKey
  <2>1. CASE i = j
    BY <1>1, <1>2, <1>6, <1>7, <2>1 DEF IntakeTypeOK
  <2>2. CASE i # j
    <3>1. i \in table /\ i \in Job /\ jobs'[i] = jobs[i] /\ jobs[i] \in Document
      BY <1>2, <1>7, <2>2 DEF IntakeTypeOK, DrawnStands, Known
    <3>2. idempotency[jobs[i].key] = i /\ i # NoJob /\ jobs[i].key \in Key
      BY <2>2, <3>1 DEF OneJobPerKey, IntakeConstants, Document
    <3> QED BY <1>2, <1>12, <3>1, <3>2 DEF IntakeTypeOK
  <2> QED BY <2>1, <2>2
<1>14. KeyLeads'
  <2> SUFFICES ASSUME NEW h \in Key, idempotency'[h] # NoJob
               PROVE  /\ idempotency'[h] \in Known(jobs') /\ jobs'[idempotency'[h]].key = h
                      /\ \/ idempotency'[h] \in table'
                         \/ \E p \in Pruner : pruner'[p].job = idempotency'[h] /\ pruner'[p].next \in {"test", "key"}
    BY DEF KeyLeads
  <2>1. CASE h = k
    BY <1>1, <1>2, <1>6, <1>7, <2>1 DEF IntakeTypeOK
  <2>2. CASE h # k
    <3>1. idempotency'[h] = idempotency[h] /\ idempotency[h] \in Known(jobs) \ {j}
      BY <1>1, <1>2, <2>2 DEF IntakeTypeOK, KeyLeads, Known
    <3>2. jobs'[idempotency[h]] = jobs[idempotency[h]]
      BY <1>7, <3>1 DEF Known
    <3>3. /\ jobs[idempotency[h]].key = h
          /\ \/ idempotency[h] \in table
             \/ \E p \in Pruner : pruner[p].job = idempotency[h] /\ pruner[p].next \in {"test", "key"}
      BY <2>2, <3>1 DEF KeyLeads, Known, IntakeConstants
    <3>4. idempotency[h] \in Known(jobs') /\ pruner' = pruner /\ table \subseteq table'
      BY <1>2, <1>7, <3>1
    <3> QED BY <3>1, <3>2, <3>3, <3>4
  <2> QED BY <2>1, <2>2
<1>15. DrawnStands'
  BY <1>2, <1>3, <1>4, <1>7 DEF IntakeTypeOK, DrawnStands, Known
<1>16. AnswerMatches'
  <2>1. \A o \in Client : caller'[o].answer = caller[o].answer /\ KeyOf(o)' = KeyOf(o) /\ ContentOf(o)' = ContentOf(o)
    BY <1>3, <1>6
  <2>2. \A o \in Client : caller[o].answer # NoJob => caller[o].answer # j
    BY <1>1 DEF DrawnStands
  <2> QED BY <1>7, <2>1, <2>2 DEF AnswerMatches, Known
<1> QED BY <1>5, <1>8, <1>9, <1>10, <1>11, <1>13, <1>14, <1>15, <1>16

\* The creator is answered with the job it made.
LEMMA LaunchStep ==
  ASSUME IntakeConstants, IntakeSound, NEW c \in Client, Launch(c)
  PROVE  IntakeSound'
<1> USE DEF IntakeSound, ClientsStand
<1>1. /\ UNCHANGED <<recordVars, idempotency, pruningVars, retryVars>>
      /\ UNCHANGED <<jobs, table, manifests, unsaved, idempotency, pending, signalled,
                     pruner, robbed, retry, overtaken, intake>>
  BY DEF Launch, recordVars, keyVars, pruningVars, retryVars
<1>2. caller[c].pc = "launch" /\ Makes(c) /\ caller[c].job \in Job \cup {NoJob}
  BY DEF Launch, CallerAt, CallersStand, IntakeTypeOK, Caller
<1>3. /\ caller' \in [Client -> Caller]
      /\ caller'[c].pc = "idle" /\ caller'[c].request = caller[c].request
      /\ caller'[c].job = NoJob /\ caller'[c].answer = caller[c].job
      /\ \A o \in Client : o # c => caller'[o] = caller[o]
  <2>1. /\ caller' \in [Client -> Caller]
        /\ caller'[c] = Answered(c, caller[c].job, TRUE)
        /\ \A o \in Client : o # c => caller'[o] = caller[o]
    BY <1>2, CallerReturns, Zenon DEF Launch
  <2> QED BY <1>2, <2>1 DEF Answered, Makes
<1>4. IntakeTypeOK'
  BY <1>1, <1>3 DEF IntakeTypeOK
<1>5. CallersStand' /\ ReservationsStand' /\ MakersStand'
  BY <1>1, <1>2, <1>3 DEF CallersStand, ReservationsStand, MakersStand, Holds, Makes, KeyOf, ContentOf
<1>6. ThreadsStand' /\ OneJobPerKey' /\ KeyLeads'
  <2>1. \A o \in Client : caller'[o].job \in {caller[o].job, NoJob}
    BY <1>3
  <2> QED BY <1>1, <2>1, CallersAlone
<1>7. DrawnStands' /\ AnswerMatches'
  BY <1>1, <1>2, <1>3 DEF MakersStand, Makes, DrawnStands, AnswerMatches, KeyOf, ContentOf, Known
<1> QED BY <1>4, <1>5, <1>6, <1>7

\* The except branch takes back the job and the key, or the reservation alone.
LEMMA RollbackStep ==
  ASSUME IntakeConstants, IntakeSound, NEW c \in Client, Rollback(c)
  PROVE  IntakeSound'
<1> USE DEF IntakeSound, ClientsStand, ThreadsStand
<1> DEFINE j == caller[c].job
           k == KeyOf(c)
<1>1. /\ k \in Key /\ caller[c].pc = "rollback" /\ j \in Job \cup {NoJob}
      /\ jobs' = [i \in Job |-> IF i = j THEN NoJob ELSE jobs[i]] /\ table' = table \ {j}
      /\ manifests' = [i \in Job |-> IF i = j THEN NoJob ELSE manifests[i]]
      /\ idempotency' = [idempotency EXCEPT ![k] = NoJob]
      /\ pending' = [pending EXCEPT ![k] = NoJob]
      /\ signalled' = signalled \cup ({pending[k]} \ {NoJob})
      /\ UNCHANGED <<unsaved, pruner, robbed, retry, overtaken, intake>>
  BY RequestsHaveKeys DEF Rollback, CallerAt, Release, pruningVars, retryVars, IntakeTypeOK, Caller
<1>2. /\ caller' \in [Client -> Caller]
      /\ caller'[c].pc = "idle" /\ caller'[c].job = NoJob /\ caller'[c].answer = NoJob
      /\ \A o \in Client : o # c => caller'[o] = caller[o]
  <2>1. /\ caller' \in [Client -> Caller]
        /\ caller'[c] = Answered(c, NoJob, FALSE)
        /\ \A o \in Client : o # c => caller'[o] = caller[o]
    BY CallerReturns, Zenon DEF Rollback
  <2> QED BY <2>1 DEF Answered
<1>3. k \notin robbed => \A i \in table : jobs[i].key = k => i = j
  <2>1. CASE Makes(c)
    BY <1>1, <2>1 DEF MakersStand, OneJobPerKey, Makes
  <2>2. CASE ~Makes(c)
    <3>1. k \notin robbed => idempotency[k] = NoJob
      BY <1>1, <2>2 DEF ReservationsStand, Holds, Makes
    <3> QED BY <3>1 DEF IntakeConstants, OneJobPerKey, IntakeTypeOK
  <2> QED BY <2>1, <2>2
<1>4. IntakeTypeOK'
  BY <1>1, <1>2 DEF IntakeTypeOK
<1>5. \A o \in Client : o # c => KeyOf(o)' = KeyOf(o) /\ ContentOf(o)' = ContentOf(o)
  BY <1>2 DEF KeyOf, ContentOf
<1>6. CallersStand'
  BY <1>1, <1>2 DEF CallersStand, Makes
<1>7. ReservationsStand'
  <2>1. \A o \in Client : o # c /\ Holds(o) /\ KeyOf(o) = k => k \in robbed
    <3>1. CASE Makes(c)
      <4>1. k \notin robbed => idempotency[k] = j /\ idempotency[k] # NoJob
        BY <3>1 DEF MakersStand, OneJobPerKey, Makes
      <4> QED BY <1>1, <4>1 DEF ReservationsStand
    <3>2. CASE ~Makes(c)
      BY <1>1, <3>2 DEF ReservationsStand, Holds, Makes
    <3> QED BY <3>1, <3>2
  <2>2. ~Holds(c)' /\ \A o \in Client : o # c => (Holds(o)' <=> Holds(o))
    BY <1>2 DEF Holds
  <2> HIDE DEF k, j
  <2> QED BY <1>1, <1>5, <2>1, <2>2 DEF IntakeTypeOK, ReservationsStand
<1>8. MakersStand'
  <2>1. \A o \in Client : o # c /\ Makes(o) => caller[o].job # j /\ caller[o].job \in Job
    BY DEF MakersStand, Makes, IntakeTypeOK
  <2>2. ~Makes(c)' /\ \A o \in Client : o # c => (Makes(o)' <=> Makes(o))
    BY <1>2 DEF Makes
  <2>3. \A o, e \in Client : Makes(o)' /\ caller'[o].job = caller'[e].job => o = e
    BY <1>2, <2>2 DEF MakersStand, Makes
  <2> QED BY <1>1, <1>2, <1>5, <2>1, <2>2, <2>3 DEF MakersStand
<1>9. \A i \in Job : i # j => jobs'[i] = jobs[i]
  BY <1>1
<1>10. ThreadsStand'
  <2>1. \A i \in Job : Listed(i) \/ retry.job = i \/ unsaved[i] # NoJob => Launched(i) /\ i # j
    BY DEF HandsStand, Launched
  <2>2. \A i \in Job : Launched(i) /\ i # j => Launched(i)'
    BY <1>2, <1>9 DEF Launched, Known, IntakeConstants
  <2>3. \A i \in Job : Listed(i)' <=> Listed(i)
    BY <1>1 DEF Listed
  <2>4. HandsStand'
    BY <1>1, <2>1, <2>2, <2>3 DEF HandsStand
  <2>5. PrunersStand'
    <3>1. \A p \in Pruner : pruner[p].job \in Job => Listed(pruner[p].job)
      BY DEF Listed
    <3> QED BY <1>1, <1>9, <2>1, <2>3, <3>1 DEF PrunersStand
  <2>6. RetryStands'
    <3>1. retry.job \in Job \cup {NoJob}
      BY DEF IntakeTypeOK, Retrying
    <3> QED BY <1>1, <1>9, <2>1, <3>1 DEF RetryStands
  <2> QED BY <2>4, <2>5, <2>6
<1>11. OneJobPerKey'
  <2> SUFFICES ASSUME NEW i \in table \ {j}, jobs[i].key \notin robbed PROVE idempotency'[jobs[i].key] = i
    BY <1>1, <1>9 DEF OneJobPerKey, IntakeTypeOK
  <2>1. idempotency[jobs[i].key] = i /\ jobs[i].key # k
    BY <1>3 DEF OneJobPerKey
  <2> QED BY <1>1, <2>1 DEF IntakeTypeOK
<1>12. KeyLeads'
  <2> SUFFICES ASSUME NEW h \in Key \ {k}, idempotency[h] # NoJob
               PROVE  idempotency[h] # j
    BY <1>1, <1>9 DEF KeyLeads, IntakeTypeOK, Known
  <2>1. jobs[idempotency[h]].key = h
    BY DEF KeyLeads
  <2>2. Makes(c) => jobs[j].key = k
    BY DEF MakersStand
  <2> QED BY <2>1, <2>2 DEF Makes
<1>13. DrawnStands'
  BY <1>1, <1>2 DEF IntakeTypeOK, DrawnStands, Known
<1>14. AnswerMatches'
  BY <1>1, <1>2, <1>5 DEF IntakeTypeOK, AnswerMatches, Known
<1> QED BY <1>4, <1>6, <1>7, <1>8, <1>10, <1>11, <1>12, <1>13, <1>14

-----------------------------------------------------------------------------
(* The threads beside it, and the restart.                                 *)

\* Threads that change no record's key or content, publish nothing and answer
\* nobody leave the clients as they are, and the keys unless they pop one.
LEMMA ThreadsAlone ==
  ASSUME IntakeConstants, IntakeSound, UNCHANGED <<table, pending, robbed, caller, idempotency>>,
         jobs' \in [Job -> Document \cup {NoJob}], Known(jobs') = Known(jobs),
         \A j \in Known(jobs) : /\ jobs'[j].key = jobs[j].key /\ jobs'[j].content = jobs[j].content
                                /\ ~Launched(j) => jobs'[j] = jobs[j]
  PROVE  /\ ClientsStand' /\ OneJobPerKey' /\ AnswerMatches'
         /\ \A j \in Job : Launched(j)' <=> Launched(j)
<1> USE DEF IntakeSound, ClientsStand
<1>1. \A c \in Client : /\ KeyOf(c)' = KeyOf(c) /\ ContentOf(c)' = ContentOf(c)
                        /\ Makes(c)' <=> Makes(c)
                        /\ Holds(c)' <=> Holds(c)
  BY DEF KeyOf, ContentOf, Makes, Holds
<1>2. \A c \in Client : Makes(c) => caller[c].job \in Known(jobs) /\ ~Launched(caller[c].job)
  BY DEF MakersStand, DrawnStands, Launched
<1>3. CallersStand' /\ ReservationsStand'
  BY <1>1 DEF CallersStand, ReservationsStand
<1>4. MakersStand'
  BY <1>1, <1>2 DEF MakersStand
<1>5. OneJobPerKey'
  BY DEF OneJobPerKey, DrawnStands
<1>6. AnswerMatches'
  BY <1>1 DEF AnswerMatches
<1>7. \A j \in Job : Launched(j)' <=> Launched(j)
  BY DEF Launched
<1> QED BY <1>3, <1>4, <1>5, <1>6, <1>7

\* A launched job gets another record with its key and content.
LEMMA RecordMoves ==
  ASSUME IntakeConstants, IntakeSound, NEW j \in Job, Launched(j), NEW document \in Document,
         document.key = jobs[j].key, document.content = jobs[j].content,
         jobs' = [jobs EXCEPT ![j] = document],
         UNCHANGED <<table, keyVars, caller, pruningVars>>
  PROVE  /\ jobs' \in [Job -> Document \cup {NoJob}] /\ Known(jobs') = Known(jobs)
         /\ jobs'[j] = document /\ \A i \in Job : i # j => jobs'[i] = jobs[i]
         /\ ClientsStand' /\ OneJobPerKey' /\ KeyLeads' /\ AnswerMatches'
         /\ \A i \in Job : /\ Launched(i)' <=> Launched(i)
                           /\ Listed(i)' <=> Listed(i)
<1>1. UNCHANGED <<table, idempotency, pending, caller, pruner, robbed>>
  BY DEF keyVars, pruningVars
<1>2. /\ jobs' \in [Job -> Document \cup {NoJob}] /\ Known(jobs') = Known(jobs)
      /\ jobs'[j] = document /\ \A i \in Job : i # j => jobs'[i] = jobs[i]
  BY DEF IntakeSound, IntakeTypeOK, Launched, Known, IntakeConstants
<1>3. \A i \in Known(jobs) : /\ jobs'[i].key = jobs[i].key /\ jobs'[i].content = jobs[i].content
                             /\ ~Launched(i) => jobs'[i] = jobs[i]
  BY <1>2 DEF Known
<1>4. /\ ClientsStand' /\ OneJobPerKey' /\ AnswerMatches'
      /\ \A i \in Job : Launched(i)' <=> Launched(i)
  BY <1>1, <1>2, <1>3, ThreadsAlone
<1>5. KeyLeads'
  BY <1>1, <1>2, <1>3 DEF IntakeSound, KeyLeads
<1>6. \A i \in Job : Listed(i)' <=> Listed(i)
  BY <1>1 DEF Listed
<1> QED BY <1>2, <1>4, <1>5, <1>6

\* A worker touches neither the key nor the content of a launched job.
LEMMA WorkerSetsStep ==
  ASSUME IntakeConstants, IntakeSound, NEW j \in Job, WorkerSets(j)
  PROVE  IntakeSound'
<1>1. /\ UNCHANGED <<table, manifests, keyVars, caller, pruningVars, retryVars, intake>>
      /\ UNCHANGED <<table, manifests, idempotency, pending, signalled, caller, pruner, robbed,
                     retry, overtaken, intake>>
      /\ Launched(j) /\ jobs[j].status \in Active /\ retry.job # j
  BY DEF WorkerSets, keyVars, pruningVars, retryVars
<1>2. PICK status \in Active \cup Terminal :
        LET document == [jobs[j] EXCEPT !.status = status, !.updated = intake.now]
        IN  jobs' = [jobs EXCEPT ![j] = document] /\ unsaved' = [unsaved EXCEPT ![j] = document]
  BY DEF WorkerSets
<1> DEFINE document == [jobs[j] EXCEPT !.status = status, !.updated = intake.now]
<1>3. document \in Document /\ document.key = jobs[j].key /\ document.content = jobs[j].content
  <2>1. jobs[j] \in Document /\ intake.now \in 0..MaxTime
    BY <1>1 DEF IntakeSound, IntakeTypeOK, Usage, Launched, Known
  <2> QED BY <2>1 DEF Document
<1>4. jobs' = [jobs EXCEPT ![j] = document] /\ unsaved' = [unsaved EXCEPT ![j] = document]
  BY <1>2
<1> HIDE DEF document
<1>5. /\ jobs' \in [Job -> Document \cup {NoJob}] /\ Known(jobs') = Known(jobs)
      /\ \A i \in Job : i # j => jobs'[i] = jobs[i]
      /\ ClientsStand' /\ OneJobPerKey' /\ KeyLeads' /\ AnswerMatches'
      /\ \A i \in Job : (Launched(i)' <=> Launched(i)) /\ (Listed(i)' <=> Listed(i))
  BY <1>1, <1>3, <1>4, RecordMoves
<1>6. IntakeTypeOK'
  BY <1>1, <1>3, <1>4, <1>5 DEF IntakeSound, IntakeTypeOK
<1>7. HandsStand'
  <2>1. \A i \in Job : unsaved'[i] # NoJob => unsaved[i] # NoJob \/ i = j
    BY <1>4 DEF IntakeSound, IntakeTypeOK
  <2> QED BY <1>1, <1>5, <2>1 DEF IntakeSound, ThreadsStand, HandsStand
<1>8. PrunersStand'
  <2>1. \A i \in Job : Listed(i) => jobs'[i].status \in Terminal \/ i \in overtaken
    BY <1>1, <1>5 DEF IntakeSound, ThreadsStand, PrunersStand, Active, Terminal
  <2> QED BY <1>1, <1>5, <2>1 DEF IntakeSound, ThreadsStand, PrunersStand
<1>9. RetryStands'
  <2>1. retry.job \in Job \cup {NoJob}
    BY DEF IntakeSound, IntakeTypeOK, Retrying
  <2> QED BY <1>1, <1>5, <2>1 DEF IntakeSound, ThreadsStand, RetryStands
<1>10. DrawnStands'
  BY <1>1, <1>5 DEF IntakeSound, DrawnStands
<1> QED BY <1>5, <1>6, <1>7, <1>8, <1>9, <1>10 DEF IntakeSound, ThreadsStand

\* Threads that change no record in memory leave what a caller was promised.
LEMMA MemoryAlone ==
  ASSUME IntakeConstants, IntakeSound, UNCHANGED <<jobs, table, keyVars, caller, robbed>>
  PROVE  /\ ClientsStand' /\ OneJobPerKey' /\ AnswerMatches'
         /\ \A j \in Job : Launched(j)' <=> Launched(j)
<1>1. UNCHANGED <<jobs, table, idempotency, pending, caller, robbed>>
  BY DEF keyVars
<1>2. jobs' \in [Job -> Document \cup {NoJob}]
  BY <1>1 DEF IntakeSound, IntakeTypeOK
<1> QED BY <1>1, <1>2, ThreadsAlone

\* Its manifest is written.
LEMMA WorkerSavesStep ==
  ASSUME IntakeConstants, IntakeSound, NEW j \in Job, WorkerSaves(j)
  PROVE  IntakeSound'
<1>1. /\ UNCHANGED <<jobs, table, keyVars, caller, robbed>>
      /\ UNCHANGED <<jobs, table, idempotency, pending, signalled, caller, pruner, robbed,
                     retry, overtaken, intake>>
      /\ unsaved[j] # NoJob /\ unsaved' = [unsaved EXCEPT ![j] = NoJob]
  BY DEF WorkerSaves, keyVars, pruningVars, retryVars
<1>2. PICK document \in {unsaved[j], jobs[j]} : manifests' = [manifests EXCEPT ![j] = document]
  BY DEF WorkerSaves
<1>3. ClientsStand' /\ OneJobPerKey' /\ AnswerMatches' /\ \A i \in Job : Launched(i)' <=> Launched(i)
  BY <1>1, MemoryAlone
<1>4. Launched(j) /\ j \in Known(jobs)
  BY <1>1 DEF IntakeSound, ThreadsStand, HandsStand, Launched
<1>5. IntakeTypeOK'
  BY <1>1, <1>2 DEF IntakeSound, IntakeTypeOK
<1>6. ThreadsStand'
  <2>1. \A i \in Job : (Listed(i)' <=> Listed(i)) /\ (unsaved'[i] # NoJob => unsaved[i] # NoJob)
    BY <1>1 DEF Listed, IntakeSound, IntakeTypeOK
  <2>2. HandsStand'
    BY <1>1, <1>3, <2>1 DEF IntakeSound, ThreadsStand, HandsStand
  <2> QED BY <1>1, <2>1, <2>2 DEF IntakeSound, ThreadsStand, PrunersStand, RetryStands
<1>7. KeyLeads'
  BY <1>1 DEF IntakeSound, KeyLeads, Known
<1>8. DrawnStands'
  <2>1. Known(manifests') \subseteq Known(manifests) \cup {j}
    BY <1>2 DEF Known, IntakeSound, IntakeTypeOK
  <2> QED BY <1>1, <1>4, <2>1 DEF IntakeSound, DrawnStands, Known
<1> QED BY <1>3, <1>5, <1>6, <1>7, <1>8 DEF IntakeSound

\* A thread that prunes is given its next state.
LEMMA HandsTyped ==
  ASSUME IntakeTypeOK, NEW p \in Pruner, NEW x \in Pruning, pruner' = [pruner EXCEPT ![p] = x]
  PROVE  /\ pruner' \in [Pruner -> Pruning] /\ pruner'[p] = x
         /\ \A q \in Pruner : q # p => pruner'[q] = pruner[q]
BY DEF IntakeTypeOK

\* What every step of a pruning thread keeps, when it takes up nothing that is not
\* finished: nothing it has in hand then was ever in somebody's making.
LEMMA PruningAlone ==
  ASSUME IntakeConstants, IntakeSound, NEW p \in Pruner, NEW x \in Pruning,
         UNCHANGED <<jobs, unsaved, pending, signalled, caller, retryVars>>,
         intake' \in Usage, intake'.drawn = intake.drawn, table' \subseteq table,
         pruner' = [pruner EXCEPT ![p] = x],
         x.next # "record" => x.job \in Job \ table',
         \A j \in Job : j \in x.todo \cup {x.job} =>
           Listed(j) \/ (j \in table /\ jobs[j].status \in Terminal)
  PROVE  /\ pruner' \in [Pruner -> Pruning] /\ pruner'[p] = x
         /\ \A q \in Pruner : q # p => pruner'[q] = pruner[q]
         /\ ThreadsStand'
         /\ \A j \in Job : Launched(j)' <=> Launched(j)
<1> USE DEF IntakeSound, ThreadsStand
<1>1. /\ UNCHANGED <<jobs, unsaved, pending, signalled, caller, retry, overtaken>>
      /\ pruner' \in [Pruner -> Pruning] /\ pruner'[p] = x
      /\ \A q \in Pruner : q # p => pruner'[q] = pruner[q]
  BY HandsTyped DEF retryVars
<1>2. \A j \in Job : Launched(j)' <=> Launched(j)
  BY <1>1 DEF Launched, Known
<1>3. \A j \in Job : Listed(j)' => Listed(j) \/ (j \in table /\ jobs[j].status \in Terminal)
  BY <1>1 DEF Listed
<1>4. \A j \in table : jobs[j].status \in Terminal => j \in Job /\ Launched(j)
  <2>1. \A c \in Client : caller[c].job # NoJob => jobs[caller[c].job].status = "queued"
    BY DEF ClientsStand, MakersStand, Makes
  <2>2. table \subseteq Known(jobs) /\ Known(jobs) \subseteq Job /\ NoJob \notin Job
    BY DEF IntakeConstants, DrawnStands, Known
  <2> QED BY <2>1, <2>2 DEF Launched, Terminal
<1>5. HandsStand'
  BY <1>1, <1>2, <1>3, <1>4 DEF HandsStand
<1>6. PrunersStand'
  <2>1. \A q \in Pruner : pruner'[q].next # "record" => pruner'[q].job \in Job \ table'
    BY <1>1 DEF PrunersStand
  <2> QED BY <1>1, <1>3, <2>1 DEF PrunersStand
<1>7. RetryStands'
  BY <1>1 DEF RetryStands
<1> QED BY <1>1, <1>2, <1>5, <1>6, <1>7

\* The finished jobs of the moment are listed.
LEMMA ListTerminalStep ==
  ASSUME IntakeConstants, IntakeSound, NEW p \in Pruner, ListTerminal(p)
  PROVE  IntakeSound'
<1> DEFINE list == Pruned(InMemory, MaxRetained)
           x    == [pruner[p] EXCEPT !.todo = list]
<1>1. /\ UNCHANGED <<jobs, table, keyVars, caller, robbed>>
      /\ UNCHANGED <<jobs, unsaved, pending, signalled, caller, retryVars>>
      /\ UNCHANGED <<jobs, table, manifests, unsaved, idempotency, pending, signalled, caller, robbed,
                     retry, overtaken, intake>>
      /\ pruner' = [pruner EXCEPT ![p] = x] /\ pruner[p] = NoList
  BY DEF ListTerminal, recordVars, keyVars, retryVars, IntakeSound, IntakeTypeOK
<1>2. \A j \in list : j \in table /\ j \in Job /\ jobs[j].status \in Terminal
  BY DEF Pruned, Finished, InMemory, Known
<1> HIDE DEF list
<1>3. x \in Pruning /\ x.todo = list /\ x.job = NoJob /\ x.next = "record"
  BY <1>1, <1>2 DEF NoList, Pruning
<1> HIDE DEF x
<1>4. ThreadsStand' /\ pruner' \in [Pruner -> Pruning] /\ \A q \in Pruner : q # p => pruner'[q] = pruner[q]
  <2>1. \A j \in Job : j \in x.todo \cup {x.job} => Listed(j) \/ (j \in table /\ jobs[j].status \in Terminal)
    BY <1>2, <1>3 DEF IntakeConstants
  <2>2. intake' \in Usage /\ intake'.drawn = intake.drawn /\ table' \subseteq table
    BY <1>1 DEF IntakeSound, IntakeTypeOK
  <2> QED BY <1>1, <1>3, <2>1, <2>2, PruningAlone
<1>5. ClientsStand' /\ OneJobPerKey' /\ AnswerMatches'
  BY <1>1, MemoryAlone
<1>6. IntakeTypeOK'
  BY <1>1, <1>4 DEF IntakeSound, IntakeTypeOK
<1>7. KeyLeads'
  BY <1>1, <1>4 DEF IntakeSound, KeyLeads, Known, NoList
<1>8. DrawnStands'
  BY <1>1 DEF IntakeSound, DrawnStands, Known
<1> QED BY <1>4, <1>5, <1>6, <1>7, <1>8 DEF IntakeSound

\* A record leaves the table: it is nobody's making, and its key may name it
\* until the thread has looked.
LEMMA PopRecordStep ==
  ASSUME IntakeConstants, IntakeSound, NEW p \in Pruner, NEW j \in Job, PopRecord(p, j)
  PROVE  IntakeSound'
<1> DEFINE x == [todo |-> pruner[p].todo \ {j}, job |-> j, next |-> "test"]
<1>1. /\ UNCHANGED <<jobs, unsaved, pending, signalled, caller, retryVars>>
      /\ UNCHANGED <<jobs, manifests, unsaved, idempotency, pending, signalled, caller, robbed,
                     retry, overtaken, intake>>
      /\ pruner[p].next = "record" /\ j \in pruner[p].todo /\ table' = table \ {j}
      /\ pruner' = [pruner EXCEPT ![p] = x]
  BY DEF PopRecord, keyVars, retryVars
<1>2. x \in Pruning /\ x.todo = pruner[p].todo \ {j} /\ x.job = j /\ x.next = "test"
  BY DEF IntakeSound, IntakeTypeOK, Pruning
<1> HIDE DEF x
<1>3. \A i \in x.todo \cup {x.job} : Listed(i)
  BY <1>1, <1>2 DEF Listed
<1>4. /\ pruner' \in [Pruner -> Pruning] /\ pruner'[p] = x
      /\ \A q \in Pruner : q # p => pruner'[q] = pruner[q]
      /\ ThreadsStand' /\ \A i \in Job : Launched(i)' <=> Launched(i)
  <2>1. /\ intake' \in Usage /\ intake'.drawn = intake.drawn /\ table' \subseteq table
        /\ x.job \in Job \ table'
    BY <1>1, <1>2 DEF IntakeSound, IntakeTypeOK
  <2> QED BY <1>1, <1>2, <1>3, <2>1, PruningAlone
<1>5. IntakeTypeOK'
  BY <1>1, <1>4 DEF IntakeSound, IntakeTypeOK
<1>6. ClientsStand'
  <2>1. Launched(j)
    BY <1>1 DEF IntakeSound, ThreadsStand, HandsStand, Listed
  <2>2. CallersStand' /\ ReservationsStand'
    BY <1>1 DEF IntakeSound, ClientsStand, CallersStand, ReservationsStand, Holds, Makes, KeyOf
  <2>3. MakersStand'
    BY <1>1, <2>1 DEF IntakeSound, ClientsStand, MakersStand, Makes, KeyOf, ContentOf, Launched
  <2> QED BY <2>2, <2>3 DEF ClientsStand
<1>7. OneJobPerKey' /\ AnswerMatches' /\ DrawnStands'
  BY <1>1 DEF IntakeSound, OneJobPerKey, AnswerMatches, DrawnStands, KeyOf, ContentOf, Known
<1>8. KeyLeads'
  <2> SUFFICES ASSUME NEW k \in Key, idempotency[k] # NoJob
               PROVE  LET i == idempotency[k]
                      IN  /\ i \in Known(jobs) /\ jobs[i].key = k
                          /\ \/ i \in table'
                             \/ \E q \in Pruner : pruner'[q].job = i /\ pruner'[q].next \in {"test", "key"}
    BY <1>1 DEF KeyLeads, Known
  <2>1. CASE idempotency[k] = j
    BY <1>2, <1>4, <2>1 DEF IntakeSound, KeyLeads
  <2>2. CASE idempotency[k] # j
    BY <1>1, <1>4, <2>2 DEF IntakeSound, KeyLeads
  <2> QED BY <2>1, <2>2
<1> QED BY <1>4, <1>5, <1>6, <1>7, <1>8 DEF IntakeSound

\* A thread goes on with the job in hand.
LEMMA HandsMove ==
  ASSUME IntakeConstants, IntakeSound, NEW p \in Pruner, NEW job \in {pruner[p].job, NoJob},
         NEW next \in {"record", "test", "key", "manifest"},
         pruner[p].next # "record", next # "record" => job = pruner[p].job,
         UNCHANGED <<jobs, table, unsaved, pending, signalled, caller, retryVars>>,
         intake' \in Usage, intake'.drawn = intake.drawn, Hands(p, job, next)
  PROVE  /\ pruner' \in [Pruner -> Pruning] /\ pruner'[p].job = job /\ pruner'[p].next = next
         /\ \A q \in Pruner : q # p => pruner'[q] = pruner[q]
         /\ ThreadsStand' /\ pruner[p].job \in Job \ table /\ Launched(pruner[p].job)
         /\ \A j \in Job : Launched(j)' <=> Launched(j)
<1> DEFINE x == [pruner[p] EXCEPT !.job = job, !.next = next]
<1>1. pruner[p] \in Pruning /\ pruner \in [Pruner -> Pruning]
  BY DEF IntakeSound, IntakeTypeOK
<1>2. /\ x \in Pruning /\ x.todo = pruner[p].todo /\ x.job = job /\ x.next = next
      /\ pruner' = [pruner EXCEPT ![p] = x]
  BY <1>1 DEF Hands, Pruning
<1>3. pruner[p].job \in Job \ table /\ table' = table
  BY DEF IntakeSound, ThreadsStand, PrunersStand
<1>4. Launched(pruner[p].job)
  BY <1>3 DEF IntakeSound, ThreadsStand, HandsStand, Listed
<1> HIDE DEF x
<1>5. \A j \in Job : j \in x.todo \cup {x.job} => Listed(j) \/ (j \in table /\ jobs[j].status \in Terminal)
  BY <1>2 DEF Listed, IntakeConstants
<1>6. /\ pruner' \in [Pruner -> Pruning] /\ pruner'[p] = x
      /\ \A q \in Pruner : q # p => pruner'[q] = pruner[q]
      /\ ThreadsStand' /\ \A i \in Job : Launched(i)' <=> Launched(i)
  <2>1. x.next # "record" => x.job \in Job \ table'
    BY <1>2, <1>3
  <2> QED BY <1>2, <1>3, <1>5, <2>1, PruningAlone
<1> QED BY <1>2, <1>3, <1>4, <1>6

\* The thread looks at the key of the job in hand.
LEMMA TestKeyStep ==
  ASSUME IntakeConstants, IntakeSound, NEW p \in Pruner, TestKey(p)
  PROVE  IntakeSound'
<1> DEFINE j == pruner[p].job
           next == IF idempotency[jobs[j].key] = j THEN "key" ELSE "manifest"
<1>1. /\ UNCHANGED <<jobs, table, keyVars, caller, robbed>>
      /\ UNCHANGED <<jobs, table, unsaved, pending, signalled, caller, retryVars>>
      /\ UNCHANGED <<jobs, table, manifests, unsaved, idempotency, pending, signalled, caller, robbed,
                     retry, overtaken, intake>>
      /\ pruner[p].next = "test" /\ Hands(p, j, next)
  BY DEF TestKey, recordVars, keyVars, retryVars
<1>2. next \in {"key", "manifest"} /\ (next = "manifest" => idempotency[jobs[j].key] # j)
  OBVIOUS
<1> HIDE DEF next
<1>3. /\ pruner' \in [Pruner -> Pruning] /\ pruner'[p].job = j /\ pruner'[p].next = next
      /\ \A q \in Pruner : q # p => pruner'[q] = pruner[q]
      /\ ThreadsStand'
  <2>1. intake' \in Usage /\ intake'.drawn = intake.drawn
    BY <1>1 DEF IntakeSound, IntakeTypeOK
  <2> QED BY <1>1, <1>2, <2>1, HandsMove
<1>4. ClientsStand' /\ OneJobPerKey' /\ AnswerMatches'
  BY <1>1, MemoryAlone
<1>5. IntakeTypeOK'
  BY <1>1, <1>3 DEF IntakeSound, IntakeTypeOK
<1>6. KeyLeads'
  BY <1>1, <1>2, <1>3 DEF IntakeSound, KeyLeads, Known
<1>7. DrawnStands'
  BY <1>1 DEF IntakeSound, DrawnStands, Known
<1> QED BY <1>3, <1>4, <1>5, <1>6, <1>7 DEF IntakeSound

\* The entry of the key is popped.  If it names another job by now, that job is
\* robbed of it; if not, no job that can be found has the key.
LEMMA PopKeyStep ==
  ASSUME IntakeConstants, IntakeSound, NEW p \in Pruner, PopKey(p)
  PROVE  IntakeSound'
<1> DEFINE j == pruner[p].job
           k == jobs[j].key
<1>1. /\ UNCHANGED <<jobs, table, unsaved, pending, signalled, caller, retryVars>>
      /\ UNCHANGED <<jobs, table, manifests, unsaved, pending, signalled, caller,
                     retry, overtaken, intake>>
      /\ pruner[p].next = "key" /\ Hands(p, j, "manifest")
      /\ idempotency' = [idempotency EXCEPT ![k] = NoJob]
      /\ robbed' = IF idempotency[k] \in {j, NoJob} THEN robbed ELSE robbed \cup {k}
  BY DEF PopKey, recordVars, retryVars
<1>2. /\ pruner' \in [Pruner -> Pruning] /\ pruner'[p].job = j /\ pruner'[p].next = "manifest"
      /\ \A q \in Pruner : q # p => pruner'[q] = pruner[q]
      /\ ThreadsStand' /\ j \in Job \ table /\ Launched(j)
  <2>1. intake' \in Usage /\ intake'.drawn = intake.drawn
    BY <1>1 DEF IntakeSound, IntakeTypeOK
  <2> QED BY <1>1, <2>1, HandsMove
<1>3. k \in Key
  BY <1>2 DEF IntakeSound, IntakeTypeOK, Launched, Known, Document
<1> HIDE DEF j, k
<1>4. /\ \A h \in Key : idempotency'[h] = IF h = k THEN NoJob ELSE idempotency[h]
      /\ robbed \subseteq robbed' /\ robbed' \subseteq Key
      /\ k \notin robbed' => idempotency[k] \in {j, NoJob}
  BY <1>1, <1>3 DEF IntakeSound, IntakeTypeOK
<1>5. IntakeTypeOK'
  BY <1>1, <1>2, <1>3, <1>4 DEF IntakeSound, IntakeTypeOK
<1>6. ClientsStand'
  <2>1. CallersStand' /\ MakersStand'
    BY <1>1 DEF IntakeSound, ClientsStand, CallersStand, MakersStand, Makes, KeyOf, ContentOf
  <2>2. ReservationsStand'
    BY <1>1, <1>4 DEF IntakeSound, ClientsStand, ReservationsStand, Holds, Makes, KeyOf
  <2> QED BY <2>1, <2>2 DEF ClientsStand
<1>7. OneJobPerKey'
  <2> SUFFICES ASSUME NEW i \in table, jobs[i].key \notin robbed'
               PROVE  idempotency'[jobs[i].key] = i
    BY <1>1 DEF OneJobPerKey
  <2>1. idempotency[jobs[i].key] = i /\ i \in Job /\ jobs[i].key \in Key
    BY <1>4 DEF IntakeSound, OneJobPerKey, DrawnStands, IntakeTypeOK, Known, Document
  <2>2. jobs[i].key # k
    BY <1>2, <1>4, <2>1 DEF IntakeConstants
  <2> QED BY <1>4, <2>1, <2>2
<1>8. KeyLeads'
  <2> SUFFICES ASSUME NEW h \in Key \ {k}, idempotency[h] # NoJob
               PROVE  LET i == idempotency[h]
                      IN  /\ i \in Known(jobs) /\ jobs[i].key = h
                          /\ \/ i \in table
                             \/ \E q \in Pruner : pruner'[q].job = i /\ pruner'[q].next \in {"test", "key"}
    BY <1>1, <1>4 DEF KeyLeads, Known
  <2>1. jobs[j].key = k
    BY DEF k
  <2>2. idempotency[h] # j
    BY <2>1 DEF IntakeSound, KeyLeads
  <2> QED BY <1>2, <2>2 DEF IntakeSound, KeyLeads, j
<1>9. AnswerMatches' /\ DrawnStands'
  BY <1>1 DEF IntakeSound, AnswerMatches, DrawnStands, KeyOf, ContentOf, Known
<1> QED BY <1>2, <1>5, <1>6, <1>7, <1>8, <1>9 DEF IntakeSound

\* The manifest of the job in hand is deleted, or stays where it is.
LEMMA DeleteManifestStep ==
  ASSUME IntakeConstants, IntakeSound, NEW p \in Pruner, DeleteManifest(p)
  PROVE  IntakeSound'
<1>1. /\ UNCHANGED <<jobs, table, keyVars, caller, robbed>>
      /\ UNCHANGED <<jobs, table, unsaved, pending, signalled, caller, retryVars>>
      /\ UNCHANGED <<jobs, table, unsaved, idempotency, pending, signalled, caller, robbed,
                     retry, overtaken>>
      /\ pruner[p].next = "manifest" /\ Hands(p, NoJob, "record")
      /\ manifests' \in {manifests, [manifests EXCEPT ![pruner[p].job] = NoJob]}
  BY DEF DeleteManifest, recordVars, keyVars, retryVars
<1>2. intake' \in Usage /\ intake'.drawn = intake.drawn
  BY FailsTyped DEF DeleteManifest, IntakeSound, IntakeTypeOK
<1>3. /\ pruner' \in [Pruner -> Pruning]
      /\ \A q \in Pruner : q # p => pruner'[q] = pruner[q]
      /\ ThreadsStand'
  BY <1>1, <1>2, HandsMove
<1>4. ClientsStand' /\ OneJobPerKey' /\ AnswerMatches'
  BY <1>1, MemoryAlone
<1>5. manifests' \in [Job -> Document \cup {NoJob}] /\ Known(manifests') \subseteq Known(manifests)
  BY <1>1 DEF IntakeSound, IntakeTypeOK, Known
<1>6. IntakeTypeOK'
  BY <1>1, <1>2, <1>3, <1>5 DEF IntakeSound, IntakeTypeOK
<1>7. KeyLeads'
  BY <1>1, <1>3 DEF IntakeSound, KeyLeads, Known
<1>8. DrawnStands'
  BY <1>1, <1>2, <1>5 DEF IntakeSound, DrawnStands, Known
<1> QED BY <1>3, <1>4, <1>6, <1>7, <1>8 DEF IntakeSound

\* retry_job has found a finished job, which nobody is making.
LEMMA RetryFindsStep ==
  ASSUME IntakeConstants, IntakeSound, NEW j \in Job, RetryFinds(j)
  PROVE  IntakeSound'
<1>1. /\ UNCHANGED <<jobs, table, keyVars, caller, robbed>>
      /\ UNCHANGED <<jobs, table, manifests, unsaved, idempotency, pending, signalled, caller, pruner,
                     robbed, overtaken>>
      /\ j \in table /\ jobs[j].status \in Terminal /\ retry.job = NoJob
      /\ retry' = [retry EXCEPT !.job = j]
      /\ intake.retries < MaxRetries /\ intake' = [intake EXCEPT !.retries = @ + 1]
  BY DEF RetryFinds, recordVars, keyVars, pruningVars
<1>2. retry' \in Retrying /\ retry'.job = j /\ retry'.before = retry.before
  BY <1>1 DEF IntakeSound, IntakeTypeOK, Retrying
<1>3. intake' \in Usage /\ intake'.drawn = intake.drawn
  BY <1>1 DEF IntakeConstants, IntakeSound, IntakeTypeOK, Usage
<1>4. ClientsStand' /\ OneJobPerKey' /\ AnswerMatches' /\ \A i \in Job : Launched(i)' <=> Launched(i)
  BY <1>1, MemoryAlone
<1>5. IntakeTypeOK'
  BY <1>1, <1>2, <1>3 DEF IntakeSound, IntakeTypeOK
<1>6. ThreadsStand'
  <2>1. Launched(j)
    <3>1. \A c \in Client : caller[c].job # NoJob => jobs[caller[c].job].status = "queued"
      BY DEF IntakeSound, ClientsStand, MakersStand, Makes
    <3> QED BY <1>1, <3>1 DEF IntakeSound, DrawnStands, IntakeConstants, Launched, Terminal
  <2>2. \A i \in Job : Listed(i)' <=> Listed(i)
    BY <1>1 DEF Listed
  <2>3. HandsStand' /\ PrunersStand'
    BY <1>1, <1>2, <1>4, <2>1, <2>2 DEF IntakeSound, ThreadsStand, HandsStand, PrunersStand
  <2>4. RetryStands'
    BY <1>1, <1>2 DEF IntakeSound, ThreadsStand, RetryStands
  <2> QED BY <2>3, <2>4 DEF ThreadsStand
<1>7. KeyLeads' /\ DrawnStands'
  BY <1>1, <1>3 DEF IntakeSound, KeyLeads, DrawnStands, Known
<1> QED BY <1>4, <1>5, <1>6, <1>7 DEF IntakeSound

\* It queues the record it found, and keeps what the record was.
LEMMA RetryQueuesStep ==
  ASSUME IntakeConstants, IntakeSound, RetryQueues
  PROVE  IntakeSound'
<1> DEFINE j == retry.job
           document == [jobs[j] EXCEPT !.status = "queued", !.updated = intake.now]
<1>1. /\ UNCHANGED <<table, keyVars, caller, pruningVars>>
      /\ UNCHANGED <<table, manifests, unsaved, idempotency, pending, signalled, caller, pruner,
                     robbed, intake>>
      /\ retry.job # NoJob /\ retry.before = NoJob
      /\ retry' = [retry EXCEPT !.before = jobs[j]]
      /\ overtaken' = IF Listed(j) THEN overtaken \cup {j} ELSE overtaken
  BY DEF RetryQueues, keyVars, pruningVars, Listed
<1>2. j \in Job /\ Launched(j) /\ retry \in Retrying /\ jobs[j].status \in Terminal
  BY <1>1 DEF IntakeSound, IntakeTypeOK, ThreadsStand, HandsStand, RetryStands, Retrying
<1>3. jobs[j] \in Document /\ intake.now \in 0..MaxTime
  BY <1>2 DEF IntakeSound, IntakeTypeOK, Launched, Known, Usage
<1>4. /\ document \in Document /\ document.key = jobs[j].key /\ document.content = jobs[j].content
      /\ document.status = "queued"
  BY <1>3 DEF Document, Active
<1>5. jobs' = [jobs EXCEPT ![j] = document]
  <2>1. jobs \in [Job -> Document \cup {NoJob}]
    BY DEF IntakeSound, IntakeTypeOK
  <2> QED BY <1>2, <2>1 DEF RetryQueues
<1>6. retry' \in Retrying /\ retry'.job = j /\ retry'.before = jobs[j]
  BY <1>1, <1>2, <1>3 DEF Retrying
<1> HIDE DEF document
<1>7. /\ jobs' \in [Job -> Document \cup {NoJob}] /\ Known(jobs') = Known(jobs)
      /\ jobs'[j] = document /\ \A i \in Job : i # j => jobs'[i] = jobs[i]
      /\ ClientsStand' /\ OneJobPerKey' /\ KeyLeads' /\ AnswerMatches'
      /\ \A i \in Job : (Launched(i)' <=> Launched(i)) /\ (Listed(i)' <=> Listed(i))
  <2> HIDE DEF j
  <2> QED BY <1>1, <1>2, <1>4, <1>5, RecordMoves
<1>8. IntakeTypeOK'
  BY <1>1, <1>2, <1>6, <1>7 DEF IntakeSound, IntakeTypeOK
<1>9. HandsStand'
  BY <1>1, <1>6, <1>7 DEF IntakeSound, ThreadsStand, HandsStand
<1>10. PrunersStand'
  BY <1>1, <1>7 DEF IntakeSound, ThreadsStand, PrunersStand
<1>11. RetryStands'
  BY <1>2, <1>3, <1>4, <1>6, <1>7 DEF RetryStands, IntakeConstants
<1>12. DrawnStands'
  BY <1>1, <1>7 DEF IntakeSound, DrawnStands
<1> QED BY <1>7, <1>8, <1>9, <1>10, <1>11, <1>12 DEF IntakeSound, ThreadsStand

\* Its manifest is written.
LEMMA RetrySavedStep ==
  ASSUME IntakeConstants, IntakeSound, RetrySaved
  PROVE  IntakeSound'
<1>1. /\ UNCHANGED <<jobs, table, keyVars, caller, robbed>>
      /\ UNCHANGED <<jobs, table, unsaved, idempotency, pending, signalled, caller, pruner,
                     robbed, overtaken, intake>>
      /\ retry.before # NoJob /\ retry' = [job |-> NoJob, before |-> NoJob]
      /\ manifests' = [manifests EXCEPT ![retry.job] = jobs[retry.job]]
  BY DEF RetrySaved, keyVars, pruningVars
<1>2. ClientsStand' /\ OneJobPerKey' /\ AnswerMatches' /\ \A i \in Job : Launched(i)' <=> Launched(i)
  BY <1>1, MemoryAlone
<1>3. retry.job \in Known(jobs)
  BY <1>1 DEF IntakeSound, ThreadsStand, RetryStands, HandsStand, Launched, IntakeTypeOK, Retrying
<1>4. IntakeTypeOK'
  <2>1. retry' \in Retrying
    BY <1>1 DEF Retrying
  <2>2. manifests' \in [Job -> Document \cup {NoJob}]
    BY <1>1 DEF IntakeSound, IntakeTypeOK
  <2> QED BY <1>1, <2>1, <2>2 DEF IntakeSound, IntakeTypeOK
<1>5. ThreadsStand'
  <2>1. \A i \in Job : Listed(i)' <=> Listed(i)
    BY <1>1 DEF Listed
  <2>2. retry'.job = NoJob /\ retry'.before = NoJob /\ NoJob \notin Job
    BY <1>1 DEF IntakeConstants
  <2> QED BY <1>1, <1>2, <2>1, <2>2 DEF IntakeSound, ThreadsStand, HandsStand, PrunersStand, RetryStands
<1>6. KeyLeads'
  BY <1>1 DEF IntakeSound, KeyLeads, Known
<1>7. DrawnStands'
  <2>1. Known(manifests') \subseteq Known(manifests) \cup {retry.job}
    BY <1>1 DEF IntakeSound, IntakeTypeOK, Known
  <2> QED BY <1>1, <1>3, <2>1 DEF IntakeSound, DrawnStands, Known
<1> QED BY <1>2, <1>4, <1>5, <1>6, <1>7 DEF IntakeSound

\* Or it cannot be written, and the record is what it was.
LEMMA RetryFailsStep ==
  ASSUME IntakeConstants, IntakeSound, RetryFails
  PROVE  IntakeSound'
<1> DEFINE j == retry.job
           document == retry.before
<1>1. /\ UNCHANGED <<table, keyVars, caller, pruningVars>>
      /\ UNCHANGED <<table, unsaved, idempotency, pending, signalled, caller, pruner,
                     robbed, overtaken>>
      /\ retry.before # NoJob /\ retry' = [job |-> NoJob, before |-> NoJob]
      /\ manifests' \in {manifests, [manifests EXCEPT ![j] = jobs[j]]}
      /\ jobs' = [jobs EXCEPT ![j] = document]
  BY DEF RetryFails, keyVars, pruningVars
<1>2. /\ j \in Job /\ Launched(j) /\ document \in Document
      /\ document.key = jobs[j].key /\ document.content = jobs[j].content
      /\ document.status \in Terminal
  BY <1>1 DEF IntakeSound, IntakeTypeOK, ThreadsStand, HandsStand, RetryStands, Retrying
<1> HIDE DEF j, document
<1>3. /\ jobs' \in [Job -> Document \cup {NoJob}] /\ Known(jobs') = Known(jobs)
      /\ jobs'[j] = document /\ \A i \in Job : i # j => jobs'[i] = jobs[i]
      /\ ClientsStand' /\ OneJobPerKey' /\ KeyLeads' /\ AnswerMatches'
      /\ \A i \in Job : (Launched(i)' <=> Launched(i)) /\ (Listed(i)' <=> Listed(i))
  BY <1>1, <1>2, RecordMoves
<1>4. intake' \in Usage /\ intake'.drawn = intake.drawn
  BY FailsTyped DEF RetryFails, IntakeSound
<1>5. /\ manifests' \in [Job -> Document \cup {NoJob}]
      /\ Known(manifests') \subseteq Known(manifests) \cup Known(jobs)
  BY <1>1, <1>2 DEF IntakeSound, IntakeTypeOK, Known, Launched
<1>6. retry'.job = NoJob /\ retry'.before = NoJob /\ NoJob \notin Job
  BY <1>1 DEF IntakeConstants
<1>7. IntakeTypeOK'
  <2>1. retry' \in Retrying
    BY <1>1 DEF Retrying
  <2> QED BY <1>1, <1>3, <1>4, <1>5, <2>1 DEF IntakeSound, IntakeTypeOK
<1>8. ThreadsStand'
  <2>1. HandsStand'
    BY <1>1, <1>3, <1>6 DEF IntakeSound, ThreadsStand, HandsStand
  <2>2. PrunersStand'
    BY <1>1, <1>2, <1>3 DEF IntakeSound, ThreadsStand, PrunersStand
  <2> QED BY <1>6, <2>1, <2>2 DEF ThreadsStand, RetryStands
<1>9. DrawnStands'
  BY <1>1, <1>3, <1>4, <1>5 DEF IntakeSound, DrawnStands
<1> QED BY <1>3, <1>7, <1>8, <1>9 DEF IntakeSound

\* The clock moves, or nothing does.
LEMMA IdleStep ==
  ASSUME IntakeConstants, IntakeSound, Tick \/ UNCHANGED intakeVars
  PROVE  IntakeSound'
<1>1. /\ UNCHANGED <<jobs, table, keyVars, caller, robbed>>
      /\ UNCHANGED <<jobs, table, manifests, unsaved, idempotency, pending, signalled, caller, pruner,
                     robbed, retry, overtaken>>
  BY DEF Tick, intakeVars, recordVars, keyVars, pruningVars, retryVars
<1>2. intake' \in Usage /\ intake'.drawn = intake.drawn
  <2>1. CASE Tick
    BY <2>1 DEF Tick, IntakeConstants, IntakeSound, IntakeTypeOK, Usage
  <2>2. CASE UNCHANGED intakeVars
    BY <2>2 DEF intakeVars, IntakeSound, IntakeTypeOK
  <2> QED BY <2>1, <2>2
<1>3. ClientsStand' /\ OneJobPerKey' /\ AnswerMatches' /\ \A i \in Job : Launched(i)' <=> Launched(i)
  BY <1>1, MemoryAlone
<1>4. IntakeTypeOK'
  BY <1>1, <1>2 DEF IntakeSound, IntakeTypeOK
<1>5. ThreadsStand'
  BY <1>1, <1>3 DEF IntakeSound, ThreadsStand, HandsStand, PrunersStand, RetryStands, Listed
<1>6. KeyLeads' /\ DrawnStands'
  BY <1>1, <1>2 DEF IntakeSound, KeyLeads, DrawnStands, Known
<1> QED BY <1>3, <1>4, <1>5, <1>6 DEF IntakeSound

-----------------------------------------------------------------------------
(* What a restart retains.                                                  *)

Records == [Job -> Document \cup {NoJob}]

\* Manifests are ordered by the time and the job they were written for.
LEMMA OlderIsAnOrder ==
  ASSUME IntakeConstants, NEW docs \in Records
  PROVE  \A i, j, k \in Known(docs) :
           /\ ~Older(docs, i, i)
           /\ Older(docs, i, j) /\ Older(docs, j, k) => Older(docs, i, k)
           /\ i # j => Older(docs, i, j) \/ Older(docs, j, i)
<1>1. \A i \in Known(docs) : docs[i].updated \in Nat /\ i \in Nat
  <2> SUFFICES ASSUME NEW i \in Known(docs) PROVE docs[i].updated \in Nat /\ i \in Nat
    OBVIOUS
  <2>1. docs[i] \in Document /\ i \in Nat
    BY DEF Records, Known, IntakeConstants
  <2>2. docs[i].updated \in 0 .. MaxTime
    BY <2>1 DEF Document
  <2> QED BY <2>1, <2>2
<1> QED BY <1>1 DEF Older

\* Among some manifests there is an oldest one.
LEMMA OldestExists ==
  ASSUME IntakeConstants, NEW docs \in Records, NEW S \in SUBSET Known(docs), S # {}
  PROVE  \E i \in S : \A h \in S \ {i} : Older(docs, i, h)
<1>1. \A i \in S : docs[i].updated \in Nat /\ i \in Nat
  <2> SUFFICES ASSUME NEW i \in S PROVE docs[i].updated \in Nat /\ i \in Nat
    OBVIOUS
  <2>1. docs[i] \in Document /\ i \in Nat
    BY DEF Records, Known, IntakeConstants
  <2>2. docs[i].updated \in 0 .. MaxTime
    BY <2>1 DEF Document
  <2> QED BY <2>1, <2>2
<1>2. PICK t \in {docs[i].updated : i \in S} : \A u \in {docs[i].updated : i \in S} : t <= u
  <2>1. {docs[i].updated : i \in S} \in SUBSET Nat /\ {docs[i].updated : i \in S} # {}
    BY <1>1
  <2> QED BY <2>1, LeastNat
<1>3. {i \in S : docs[i].updated = t} \in SUBSET Nat /\ {i \in S : docs[i].updated = t} # {}
  BY <1>1
<1>4. PICK i \in {i \in S : docs[i].updated = t} : \A j \in {j \in S : docs[j].updated = t} : i <= j
  BY <1>3, LeastNat
<1>5. ASSUME NEW h \in S \ {i} PROVE Older(docs, i, h)
  <2>1. t <= docs[h].updated
    BY <1>2
  <2>2. CASE t = docs[h].updated
    BY <1>1, <1>4, <2>2 DEF Older
  <2>3. CASE t # docs[h].updated
    BY <1>1, <1>4, <2>1, <2>3 DEF Older
  <2> QED BY <2>2, <2>3
<1> QED BY <1>4, <1>5

\* What is retained of the manifests seen: the newest ones, as many as allowed.
Retains(docs, kept, seen, limit) ==
  /\ kept \subseteq seen /\ IsFiniteSet(kept)
  /\ Cardinality(kept) < limit => kept = seen
  /\ \A i \in seen \ kept, j \in kept : Older(docs, i, j)

\* The bounded heap retains the newest manifests.
LEMMA RetainStep ==
  ASSUME IntakeConstants, NEW docs \in Records, NEW limit \in Nat \ {0},
         NEW seen \in SUBSET Known(docs), NEW kept, Retains(docs, kept, seen, limit),
         NEW j \in Known(docs) \ seen
  PROVE  Retains(docs, Retain(docs, kept, j, limit), seen \cup {j}, limit)
<1>1. CASE Cardinality(kept) < limit
  <2>1. Retain(docs, kept, j, limit) = kept \cup {j} /\ kept = seen
    BY <1>1 DEF Retain, Retains
  <2>2. IsFiniteSet(kept \cup {j})
    BY FS_AddElement DEF Retains
  <2> QED BY <2>1, <2>2 DEF Retains
<1>2. CASE ~(Cardinality(kept) < limit)
  <2> DEFINE oldest == CHOOSE i \in kept : \A h \in kept \ {i} : Older(docs, i, h)
  <2>1. kept # {}
    <3>1. Cardinality({}) = 0
      BY FS_EmptySet
    <3> QED BY <1>2, <3>1
  <2>2. oldest \in kept /\ \A h \in kept \ {oldest} : Older(docs, oldest, h)
    <3>1. \E i \in kept : \A h \in kept \ {i} : Older(docs, i, h)
      BY <2>1, OldestExists DEF Retains
    <3> QED BY <3>1
  <2>3. Retain(docs, kept, j, limit) = IF Older(docs, oldest, j) THEN (kept \ {oldest}) \cup {j} ELSE kept
    BY <1>2 DEF Retain
  <2> HIDE DEF oldest
  <2>4. \A i, h, k \in Known(docs) :
           /\ ~Older(docs, i, i)
           /\ Older(docs, i, h) /\ Older(docs, h, k) => Older(docs, i, k)
           /\ i # h => Older(docs, i, h) \/ Older(docs, h, i)
    BY OlderIsAnOrder
  <2>5. CASE Older(docs, oldest, j)
    <3> DEFINE now == (kept \ {oldest}) \cup {j}
    <3>1. j \notin kept
      BY DEF Retains
    <3>2. IsFiniteSet(now) /\ Cardinality(now) = Cardinality(kept)
      <4>1. IsFiniteSet(kept) /\ Cardinality(kept) \in Nat
        BY FS_CardinalityType DEF Retains
      <4>2. IsFiniteSet(kept \ {oldest}) /\ Cardinality(kept \ {oldest}) = Cardinality(kept) - 1
        BY <2>2, <4>1, FS_RemoveElement
      <4>3. IsFiniteSet(now) /\ Cardinality(now) = Cardinality(kept \ {oldest}) + 1
        BY <3>1, <4>2, FS_AddElement
      <4> QED BY <4>1, <4>2, <4>3
    <3>3. ASSUME NEW i \in (seen \cup {j}) \ now, NEW h \in now PROVE Older(docs, i, h)
      <4>1. CASE i = oldest
        BY <2>2, <2>5, <4>1
      <4>2. CASE i # oldest
        <5>1. i \in seen \ kept /\ Older(docs, i, oldest)
          BY <2>2, <4>2 DEF Retains
        <5>2. {i, oldest, h, j} \subseteq Known(docs)
          BY <2>2 DEF Retains
        <5>3. h = j \/ Older(docs, i, h)
          BY <5>1 DEF Retains
        <5> QED BY <2>4, <2>5, <5>1, <5>2, <5>3
      <4> QED BY <4>1, <4>2
    <3>4. Retain(docs, kept, j, limit) = now
      BY <2>3, <2>5
    <3>5. now \subseteq seen \cup {j}
      BY DEF Retains
    <3> HIDE DEF now
    <3> QED BY <1>2, <3>2, <3>3, <3>4, <3>5 DEF Retains
  <2>6. CASE ~Older(docs, oldest, j)
    <3>1. Retain(docs, kept, j, limit) = kept
      BY <2>3, <2>6
    <3>2. \A h \in kept : Older(docs, j, h)
      <4>1. j # oldest /\ oldest \in Known(docs) /\ kept \subseteq Known(docs)
        BY <2>2 DEF Retains
      <4>2. Older(docs, j, oldest)
        BY <2>4, <2>6, <4>1
      <4> QED BY <2>2, <2>4, <4>1, <4>2
    <3> QED BY <1>2, <3>1, <3>2 DEF Retains
  <2> QED BY <2>5, <2>6
<1> QED BY <1>1, <1>2

\* A listing of a finite set is a sequence that names every element once.
LEMMA ListingOf ==
  ASSUME NEW S, IsFiniteSet(S), NEW listing \in SetToSeqs(S)
  PROVE  /\ Len(listing) \in Nat /\ listing \in [1 .. Len(listing) -> S]
         /\ \A m, n \in 1 .. Len(listing) : listing[m] = listing[n] => m = n
         /\ \A x \in S : \E n \in 1 .. Len(listing) : listing[n] = x
<1> DEFINE N == Cardinality(S)
<1>1. N \in Nat
  BY FS_CardinalityType
<1>2. listing \in [1 .. N -> S] /\ \A m, n \in 1 .. N : m # n => listing[m] # listing[n]
  BY DEF SetToSeqs
<1>3. Len(listing) = N
  BY <1>1, <1>2
<1> DEFINE T == {listing[n] : n \in 1 .. N}
<1>4. T \in SUBSET S
  BY <1>2
<1>5. ExistsBijection(1 .. N, T)
  <2>1. listing \in Bijection(1 .. N, T)
    BY <1>2 DEF Bijection, Injection, Surjection, IsInjective
  <2> QED BY <2>1 DEF ExistsBijection
<1>6. Cardinality(T) = N
  <2> HIDE DEF T, N
  <2> QED BY <1>1, <1>5, FS_CountingElements
<1>7. T = S
  <2> HIDE DEF T
  <2> QED BY <1>4, <1>6, FS_Subset
<1> QED BY <1>1, <1>2, <1>3, <1>7

\* One pass over a listing of the manifests retains the newest ones of S.
LEMMA PassRetains ==
  ASSUME IntakeConstants, NEW docs \in Records, IsFiniteSet(Known(docs)),
         NEW listing \in SetToSeqs(Known(docs)), NEW S \in SUBSET Known(docs), NEW limit \in Nat \ {0}
  PROVE  Retains(docs, Retained(docs, listing, S, limit), S, limit)
<1> DEFINE N == Len(listing)
           A == SUBSET Known(docs)
           Next1(n, kept) == IF listing[n] \in S THEN Retain(docs, kept, listing[n], limit) ELSE kept
           Fits(kept) == kept = [n \in 0 .. N |-> IF n = 0 THEN {} ELSE Next1(n, kept[n - 1])]
           pass == CHOOSE kept : Fits(kept)
<1>1. /\ N \in Nat /\ listing \in [1 .. N -> Known(docs)]
      /\ \A m, n \in 1 .. N : listing[m] = listing[n] => m = n
      /\ \A x \in Known(docs) : \E n \in 1 .. N : listing[n] = x
  BY ListingOf
<1>2. Retained(docs, listing, S, limit) = pass[N]
  BY DEF Retained
<1>3. \A n \in 1 .. N : \A kept \in A : Next1(n, kept) \in A
  BY <1>1 DEF Retain
<1>4. Fits(pass)
  <2> DEFINE step == [n \in 1 .. N |-> [kept \in A |-> Next1(n, kept)]]
  <2>1. step \in [1 .. N -> [A -> A]] /\ {} \in A
    BY <1>3
  <2>2. PICK f : f \in Steps(A, {}, step, N)
    <3>1. N \in Nat
      BY <1>1
    <3>2. Steps(A, {}, step, N) # {}
      <4> HIDE DEF step, A, N
      <4> QED BY <2>1, <3>1, StepsExist
    <3> QED BY <3>2
  <2>3. f \in [0 .. N -> A] /\ f[0] = {} /\ \A n \in 1 .. N : f[n] = step[n][f[n - 1]]
    BY <2>2 DEF Steps
  <2>4. \A n \in 1 .. N : f[n] = Next1(n, f[n - 1])
    <3>1. \A n \in 1 .. N : n - 1 \in 0 .. N
      BY <1>1
    <3>2. \A n \in 1 .. N : f[n - 1] \in A
      <4> HIDE DEF A
      <4> QED BY <2>3, <3>1
    <3> QED BY <2>3, <3>2
  <2>5. Fits(f)
    <3> HIDE DEF Next1
    <3> QED BY <2>3, <2>4
  <2> HIDE DEF Fits
  <2> QED BY <2>5
<1> DEFINE Seen(n) == {x \in S : \E m \in 1 .. n : listing[m] = x}
           K == {n \in Nat : n <= N => Retains(docs, pass[n], Seen(n), limit)}
<1>5. pass[0] = {} /\ \A n \in 1 .. N : pass[n] = Next1(n, pass[n - 1])
  <2>1. N \in Nat
    BY <1>1
  <2>2. pass = [n \in 0 .. N |-> IF n = 0 THEN {} ELSE Next1(n, pass[n - 1])]
    <3> HIDE DEF pass
    <3> QED BY <1>4
  <2> HIDE DEF pass, Next1, N
  <2>3. 0 \in 0 .. N /\ \A n \in 1 .. N : n \in 0 .. N /\ n # 0
    BY <2>1
  <2> QED BY <2>2, <2>3
<1> HIDE DEF pass, Fits
<1>6. 0 \in K
  <2>1. Seen(0) = {}
    OBVIOUS
  <2>2. IsFiniteSet({})
    BY FS_EmptySet
  <2> QED BY <1>5, <2>1, <2>2 DEF Retains
<1>7. ASSUME NEW n \in Nat, n \in K PROVE n + 1 \in K
  <2> SUFFICES ASSUME n + 1 <= N PROVE Retains(docs, pass[n + 1], Seen(n + 1), limit)
    OBVIOUS
  <2>1. pass[n + 1] = Next1(n + 1, pass[n]) /\ listing[n + 1] \in Known(docs)
    BY <1>1, <1>5
  <2>2. Seen(n + 1) = IF listing[n + 1] \in S THEN Seen(n) \cup {listing[n + 1]} ELSE Seen(n)
    <3>1. 1 .. (n + 1) = (1 .. n) \cup {n + 1}
      OBVIOUS
    <3> QED BY <3>1
  <2>3. listing[n + 1] \notin Seen(n)
    BY <1>1
  <2>4. Retains(docs, pass[n], Seen(n), limit)
    BY <1>1, <1>7
  <2> HIDE DEF Seen, K
  <2>5. CASE listing[n + 1] \in S
    <3>1. Seen(n) \in SUBSET Known(docs)
      BY DEF Seen
    <3>2. Retains(docs, Retain(docs, pass[n], listing[n + 1], limit), Seen(n) \cup {listing[n + 1]}, limit)
      BY <2>1, <2>3, <2>4, <3>1, RetainStep
    <3> QED BY <2>1, <2>2, <2>5, <3>2
  <2>6. CASE listing[n + 1] \notin S
    BY <2>1, <2>2, <2>4, <2>6
  <2> QED BY <2>5, <2>6
<1>8. N \in K
  <2> HIDE DEF K
  <2> QED BY <1>1, <1>6, <1>7, NatSetInduction
<1>9. Seen(N) = S
  BY <1>1
<1>10. Retains(docs, pass[N], Seen(N), limit)
  <2> HIDE DEF Seen
  <2> QED BY <1>1, <1>8
<1> QED BY <1>2, <1>9, <1>10

\* What is newest of a finite set is newer than the rest.
LEMMA NewestAreNewer ==
  ASSUME IntakeConstants, NEW docs \in Records, NEW S \in SUBSET Known(docs), IsFiniteSet(S),
         NEW limit \in Int, NEW i \in S \ Newest(docs, S, limit), NEW j \in Newest(docs, S, limit)
  PROVE  Older(docs, i, j)
<1> DEFINE Above(h) == {k \in S : Older(docs, h, k)}
<1>1. \A h, k, l \in Known(docs) :
        /\ Older(docs, h, k) /\ Older(docs, k, l) => Older(docs, h, l)
        /\ h # k => Older(docs, h, k) \/ Older(docs, k, h)
  BY OlderIsAnOrder
<1>2. j \in S /\ Cardinality(Above(j)) < limit /\ ~(Cardinality(Above(i)) < limit)
  BY DEF Newest
<1>3. ASSUME Older(docs, j, i) PROVE FALSE
  <2>1. Above(i) \subseteq Above(j)
    BY <1>1, <1>2, <1>3
  <2>2. IsFiniteSet(Above(j))
    BY FS_Subset
  <2>3. Cardinality(Above(i)) <= Cardinality(Above(j))
    <3> HIDE DEF Above
    <3> QED BY <2>1, <2>2, FS_Subset
  <2>4. IsFiniteSet(Above(i))
    BY FS_Subset
  <2>5. Cardinality(Above(i)) \in Nat /\ Cardinality(Above(j)) \in Nat
    BY <2>2, <2>4, FS_CardinalityType
  <2> QED BY <1>2, <2>3, <2>5
<1>4. i # j
  BY <1>2
<1> QED BY <1>1, <1>2, <1>3, <1>4

\* Of two manifests one comes before the other: running jobs first, then the newest.
LEMMA BeforeIsAnOrder ==
  ASSUME IntakeConstants, NEW docs \in Records
  PROVE  \A i, j, k \in Known(docs) :
           /\ ~Before(docs, i, i)
           /\ Before(docs, i, j) /\ Before(docs, j, k) => Before(docs, i, k)
           /\ i # j => Before(docs, i, j) \/ Before(docs, j, i)
<1>1. \A i \in Known(docs) : docs[i].status \in Active <=> docs[i].status \notin Terminal
  <2> SUFFICES ASSUME NEW i \in Known(docs)
               PROVE  docs[i].status \in Active <=> docs[i].status \notin Terminal
    OBVIOUS
  <2>1. docs[i] \in Document
    BY DEF Records, Known
  <2>2. docs[i].status \in Active \cup Terminal
    BY <2>1 DEF Document
  <2> QED BY <2>2 DEF Active, Terminal
<1>2. \A i, j, k \in Known(docs) :
        /\ ~Older(docs, i, i)
        /\ Older(docs, i, j) /\ Older(docs, j, k) => Older(docs, i, k)
        /\ i # j => Older(docs, i, j) \/ Older(docs, j, i)
  BY OlderIsAnOrder
<1> QED BY <1>1, <1>2 DEF Before

\* So some manifest of finitely many comes before all others.
LEMMA FirstExists ==
  ASSUME IntakeConstants, NEW docs \in Records,
         NEW S \in SUBSET Known(docs), IsFiniteSet(S), S # {}
  PROVE  \E i \in S : \A h \in S \ {i} : Before(docs, i, h)
<1> DEFINE F == {T \in SUBSET S : T = {} \/ \E i \in T : \A h \in T \ {i} : Before(docs, i, h)}
<1>1. ASSUME NEW T \in SUBSET S, NEW x \in S \ T, T \in F PROVE T \cup {x} \in F
  <2>1. CASE T = {}
    BY <2>1
  <2>2. CASE T # {}
    <3>1. PICK i \in T : \A h \in T \ {i} : Before(docs, i, h)
      BY <1>1, <2>2
    <3>2. \A h, k \in Known(docs) : Before(docs, x, i) /\ Before(docs, i, h) => Before(docs, x, h)
      BY <3>1, BeforeIsAnOrder
    <3>3. Before(docs, i, x) \/ Before(docs, x, i)
      BY <3>1, BeforeIsAnOrder
    <3>4. CASE Before(docs, i, x)
      <4>1. \A h \in (T \cup {x}) \ {i} : Before(docs, i, h)
        BY <3>1, <3>4
      <4> QED BY <4>1, <3>1
    <3>5. CASE Before(docs, x, i)
      <4>1. \A h \in (T \cup {x}) \ {x} : Before(docs, x, h)
        BY <3>1, <3>2, <3>5
      <4> QED BY <4>1
    <3> QED BY <3>3, <3>4, <3>5
  <2> QED BY <2>1, <2>2
<1>2. S \in F
  <2>1. {} \in F
    OBVIOUS
  <2> HIDE DEF F
  <2> QED BY <1>1, <2>1, FiniteSetInduction
<1> QED BY <1>2

\* Every key of finitely many manifests keeps the first of its jobs.
LEMMA KeyKeepsFirst ==
  ASSUME IntakeConstants, NEW docs \in Records,
         NEW S \in SUBSET Known(docs), IsFiniteSet(S), NEW j \in S
  PROVE  \E i \in S \ Duplicates(docs, S) : /\ docs[i].key = docs[j].key
                                            /\ i = j \/ Before(docs, i, j)
<1> DEFINE T == {i \in S : docs[i].key = docs[j].key}
<1>1. T \in SUBSET Known(docs) /\ IsFiniteSet(T) /\ T # {}
  <2>1. IsFiniteSet(T)
    BY FS_Subset
  <2> QED BY <2>1
<1>2. PICK i \in T : \A h \in T \ {i} : Before(docs, i, h)
  <2> HIDE DEF T
  <2> QED BY <1>1, FirstExists
<1>3. i \notin Duplicates(docs, S)
  <2> SUFFICES ASSUME NEW h \in S, docs[h].key = docs[i].key, Before(docs, h, i) PROVE FALSE
    BY DEF Duplicates
  <2>1. h # i /\ {h, i} \subseteq Known(docs)
    BY BeforeIsAnOrder
  <2>2. Before(docs, i, h)
    BY <1>2, <2>1
  <2> QED BY <2>1, <2>2, BeforeIsAnOrder
<1> QED BY <1>2, <1>3

\* What a restart retains of finitely many manifests.
LEMMA SelectedStand ==
  ASSUME IntakeConstants, NEW docs \in Records, IsFiniteSet(Known(docs)),
         NEW listing \in SetToSeqs(Known(docs))
  PROVE  /\ Selected(docs, listing) \in SUBSET Known(docs)
         /\ \A i \in Finished(docs) \ Selected(docs, listing) :
              \A j \in Finished(docs) \cap Selected(docs, listing) : Older(docs, i, j)
<1> DEFINE running  == Retained(docs, listing, Known(docs) \ Finished(docs), MaxLoaded)
           finished == Retained(docs, listing, Finished(docs), MaxRetained)
           newest   == Newest(docs, finished, MaxLoaded - Cardinality(running))
<1>1. MaxLoaded \in Nat \ {0} /\ MaxRetained \in Nat \ {0}
  BY DEF IntakeConstants
<1>2. Finished(docs) \in SUBSET Known(docs) /\ Known(docs) \ Finished(docs) \in SUBSET Known(docs)
  BY DEF Finished
<1>3. Retains(docs, running, Known(docs) \ Finished(docs), MaxLoaded)
  BY <1>1, <1>2, PassRetains
<1>4. Retains(docs, finished, Finished(docs), MaxRetained)
  BY <1>1, <1>2, PassRetains
<1>5. Selected(docs, listing) = running \cup newest
  BY DEF Selected
<1> HIDE DEF running, finished
<1>6. MaxLoaded - Cardinality(running) \in Int
  <2>1. Cardinality(running) \in Nat
    BY <1>3, FS_CardinalityType DEF Retains
  <2> QED BY <1>1, <2>1
<1>7. newest \subseteq finished /\ finished \in SUBSET Known(docs) /\ IsFiniteSet(finished)
  BY <1>2, <1>4 DEF Retains, Newest
<1>8. \A i \in finished \ newest : \A j \in newest : Older(docs, i, j)
  BY <1>6, <1>7, NewestAreNewer
<1> HIDE DEF newest
<1>9. ASSUME NEW i \in Finished(docs) \ Selected(docs, listing),
             NEW j \in Finished(docs) \cap Selected(docs, listing)
      PROVE  Older(docs, i, j)
  <2>1. j \in newest /\ i \notin newest
    BY <1>3, <1>5 DEF Retains
  <2>2. CASE i \in finished
    BY <1>8, <2>1, <2>2
  <2>3. CASE i \notin finished
    BY <1>4, <1>7, <2>1, <2>3 DEF Retains
  <2> QED BY <2>2, <2>3
<1> QED BY <1>2, <1>3, <1>5, <1>7, <1>9 DEF Retains

\* A restart keeps of every key one manifest at the most, and the key names it;
\* nothing else outlives the process.
LEMMA RestoreJobsStep ==
  ASSUME IntakeConstants, IntakeSound, IsFiniteSet(intake.drawn),
         NEW listing \in SetToSeqs(Known(manifests)), RestoreJobs(listing)
  PROVE  IntakeSound'
<1> USE DEF IntakeSound
<1> DEFINE chosen == Selected(manifests, listing)
           kept   == chosen \ Duplicates(manifests, chosen)
           lost   == (Finished(manifests) \cup chosen) \ kept
<1>1. /\ jobs' = [j \in Job |-> IF j \in kept THEN manifests[j] ELSE NoJob]
      /\ manifests' = [j \in Job |-> IF j \in lost THEN NoJob ELSE manifests[j]]
      /\ table' = kept
      /\ unsaved' = [j \in Job |-> NoJob]
      /\ pending' = [k \in Key |-> NoJob] /\ signalled' = {}
      /\ caller' = [c \in Client |-> Nobody]
      /\ pruner' = [p \in Pruner |-> NoList] /\ robbed' = {}
      /\ retry' = [job |-> NoJob, before |-> NoJob] /\ overtaken' = {}
  BY DEF RestoreJobs
<1>2. idempotency' = [k \in Key |->
        IF \E j \in table' : jobs'[j].key = k THEN CHOOSE j \in table' : jobs'[j].key = k ELSE NoJob]
  BY DEF RestoreJobs
<1>3. manifests \in Records /\ chosen \in SUBSET Known(manifests)
  <2>1. manifests \in Records
    BY DEF IntakeTypeOK, Records
  <2>2. IsFiniteSet(Known(manifests))
    BY FS_Subset DEF DrawnStands
  <2> QED BY <2>1, <2>2, SelectedStand
<1> HIDE DEF chosen
<1>4. /\ kept \subseteq Known(manifests)
      /\ \A i, j \in kept : manifests[i].key = manifests[j].key => i = j
  BY <1>3, BeforeIsAnOrder DEF Duplicates
<1> HIDE DEF kept, lost
<1>5. /\ caller' \in [Client -> Caller]
      /\ \A c \in Client : /\ caller'[c].pc = "idle" /\ caller'[c].job = NoJob
                           /\ caller'[c].answer = NoJob
  BY <1>1 DEF Nobody, Caller
<1>6. intake' \in Usage /\ intake'.drawn = intake.drawn
  <2>1. intake \in Usage /\ intake.restarts + 1 \in 0..MaxRestarts
    <3>1. intake.restarts < MaxRestarts
      BY DEF RestoreJobs
    <3> QED BY <3>1 DEF IntakeConstants, IntakeTypeOK, Usage
  <2>2. intake' = [intake EXCEPT !.restarts = @ + 1]
    BY DEF RestoreJobs
  <2> QED BY <2>1, <2>2 DEF Usage
<1>7. \A j \in Job : j \in table' <=> j \in Known(jobs')
  <2>1. \A j \in Job : j \in kept => manifests[j] # NoJob
    BY <1>4 DEF Known
  <2> QED BY <1>1, <2>1 DEF Known
<1>8. \A k \in Key : idempotency'[k] # NoJob =>
        idempotency'[k] \in table' /\ jobs'[idempotency'[k]].key = k
  BY <1>2
<1>9. table' \subseteq Job
  BY <1>1, <1>4 DEF Known
<1>10. IntakeTypeOK'
  <2>1. {jobs', manifests', unsaved'} \subseteq [Job -> Document \cup {NoJob}]
    BY <1>1 DEF IntakeTypeOK
  <2>2. idempotency' \in [Key -> Job \cup {NoJob}]
    BY <1>2, <1>9
  <2>3. pruner' \in [Pruner -> Pruning] /\ retry' \in Retrying
    BY <1>1 DEF NoList, Pruning, Retrying
  <2> QED BY <1>1, <1>5, <1>6, <1>9, <2>1, <2>2, <2>3 DEF IntakeTypeOK
<1>11. KeyLeads'
  BY <1>7, <1>8, <1>9 DEF KeyLeads, Known
<1>12. OneJobPerKey'
  <2>1. \A j \in table' : j \in kept /\ jobs'[j] = manifests[j]
    BY <1>1, <1>4 DEF Known
  <2>2. \A j \in table' : jobs'[j].key \in Key
    BY <1>7, <1>9, <1>10 DEF IntakeTypeOK, Known, Document
  <2>3. \A j \in table' : idempotency'[jobs'[j].key] # NoJob
    BY <1>2, <1>9, <2>2 DEF IntakeConstants
  <2>4. ASSUME NEW j \in table' PROVE idempotency'[jobs'[j].key] = j
    <3> DEFINE i == idempotency'[jobs'[j].key]
    <3>1. i \in table' /\ jobs'[i].key = jobs'[j].key
      BY <1>8, <2>2, <2>3
    <3> HIDE DEF i
    <3>2. i = j
      BY <1>4, <2>1, <3>1
    <3> QED BY <3>2 DEF i
  <2> QED BY <2>4 DEF OneJobPerKey
<1>13. ClientsStand'
  BY <1>1, <1>5 DEF ClientsStand, CallersStand, ReservationsStand, MakersStand, Holds, Makes
<1>14. ThreadsStand'
  BY <1>1 DEF IntakeConstants, ThreadsStand, HandsStand, PrunersStand, RetryStands, Listed, NoList
<1>15. DrawnStands'
  <2>1. Known(jobs') \cup Known(manifests') \subseteq Known(manifests)
    BY <1>1, <1>4 DEF Known
  <2> QED BY <1>1, <1>5, <1>6, <1>7, <1>9, <2>1 DEF DrawnStands
<1>16. AnswerMatches'
  BY <1>5 DEF AnswerMatches
<1> QED BY <1>10, <1>11, <1>12, <1>13, <1>14, <1>15, <1>16

-----------------------------------------------------------------------------
(* The theorems.                                                           *)

\* Nothing but a restart counts as one, and only a publication draws a job.
LEMMA UsageMoves ==
  ASSUME IntakeConstants, IntakeSound, IntakeNext
  PROVE  /\ \/ \E listing \in SetToSeqs(Known(manifests)) : RestoreJobs(listing)
            \/ intake'.restarts = intake.restarts
         /\ intake'.drawn = intake.drawn \/ \E j \in Job : intake'.drawn = intake.drawn \cup {j}
<1>1. intake \in Usage
  BY DEF IntakeSound, IntakeTypeOK
<1>2. ASSUME NEW c \in Client, NEW request \in Request, Ask(c, request)
      PROVE  intake'.restarts = intake.restarts /\ intake'.drawn = intake.drawn
  BY <1>1, <1>2 DEF Ask, Usage
<1>3. ASSUME NEW c \in Client, Wake(c) \/ MakeDirectoryFails(c) \/ WriteSourcesFails(c)
                             \/ Launch(c) \/ LaunchFails(c) \/ Rollback(c)
      PROVE  intake'.restarts = intake.restarts /\ intake'.drawn = intake.drawn
  BY <1>1, <1>3 DEF Wake, MakeDirectoryFails, WriteSourcesFails, Launch, LaunchFails, Rollback, Fails, Usage
<1>4. ASSUME NEW c \in Client, NEW j \in Job, PublishSaved(c, j) \/ PublishFails(c, j)
      PROVE  intake'.restarts = intake.restarts /\ intake'.drawn = intake.drawn \cup {j}
  BY <1>1, <1>4 DEF PublishSaved, PublishFails, Usage
<1>5. ASSUME NEW j \in Job, WorkerSets(j) \/ WorkerSaves(j) \/ RetryFinds(j)
      PROVE  intake'.restarts = intake.restarts /\ intake'.drawn = intake.drawn
  BY <1>1, <1>5 DEF WorkerSets, WorkerSaves, RetryFinds, Usage
<1>6. ASSUME NEW p \in Pruner, NEW j \in Job,
             \/ ListTerminal(p) \/ TestKey(p) \/ PopKey(p) \/ DeleteManifest(p) \/ PopRecord(p, j)
      PROVE  intake'.restarts = intake.restarts /\ intake'.drawn = intake.drawn
  BY <1>1, <1>6 DEF ListTerminal, TestKey, PopKey, DeleteManifest, PopRecord, Fails, Usage
<1>7. ASSUME NEW p \in Pruner, ListTerminal(p) \/ TestKey(p) \/ PopKey(p) \/ DeleteManifest(p)
      PROVE  intake'.restarts = intake.restarts /\ intake'.drawn = intake.drawn
  BY <1>1, <1>7 DEF ListTerminal, TestKey, PopKey, DeleteManifest, Fails, Usage
<1>8. ASSUME RetryQueues \/ RetrySaved \/ RetryFails \/ Tick
      PROVE  intake'.restarts = intake.restarts /\ intake'.drawn = intake.drawn
  BY <1>1, <1>8 DEF RetryQueues, RetrySaved, RetryFails, Tick, Fails, Usage
<1>9. ASSUME NEW listing, RestoreJobs(listing) PROVE intake'.drawn = intake.drawn
  BY <1>1, <1>9 DEF RestoreJobs, Usage
<1> QED BY <1>2, <1>3, <1>4, <1>5, <1>6, <1>7, <1>8, <1>9 DEF IntakeNext

\* Nothing is there when the service starts.
LEMMA InitSound ==
  ASSUME IntakeConstants, IntakeInit
  PROVE  IntakeSound
<1>1. IntakeTypeOK
  BY DEF IntakeConstants, IntakeInit, IntakeTypeOK, Caller, Nobody, Pruning, NoList, Retrying, Usage
<1>2. ClientsStand
  BY DEF IntakeInit, Nobody, ClientsStand, CallersStand, ReservationsStand, MakersStand, Holds, Makes
<1>3. ThreadsStand
  BY DEF IntakeConstants, IntakeInit, NoList, ThreadsStand, HandsStand, PrunersStand, RetryStands, Listed
<1>4. DrawnStands /\ OneJobPerKey /\ KeyLeads /\ AnswerMatches
  BY DEF IntakeInit, Nobody, DrawnStands, OneJobPerKey, KeyLeads, AnswerMatches, Known
<1> QED BY <1>1, <1>2, <1>3, <1>4 DEF IntakeSound

\* Every step keeps the invariant, one case for each action.
LEMMA NextSound ==
  ASSUME IntakeConstants, IntakeSound, IsFiniteSet(intake.drawn), [IntakeNext]_intakeVars
  PROVE  IntakeSound'
<1>1. ASSUME NEW c \in Client, NEW request \in Request, Ask(c, request) PROVE IntakeSound'
  BY <1>1, AskStep
<1>2. ASSUME NEW c \in Client, Wake(c) PROVE IntakeSound'
  BY <1>2, WakeStep
<1>3. ASSUME NEW c \in Client, MakeDirectoryFails(c) PROVE IntakeSound'
  BY <1>3, MakeDirectoryFailsStep
<1>4. ASSUME NEW c \in Client, WriteSourcesFails(c) \/ LaunchFails(c) PROVE IntakeSound'
  BY <1>4, FailureStep
<1>5. ASSUME NEW c \in Client, Launch(c) PROVE IntakeSound'
  BY <1>5, LaunchStep
<1>6. ASSUME NEW c \in Client, Rollback(c) PROVE IntakeSound'
  BY <1>6, RollbackStep
<1>7. ASSUME NEW c \in Client, NEW j \in Job, PublishSaved(c, j) \/ PublishFails(c, j) PROVE IntakeSound'
  BY <1>7, PublishStep
<1>8. ASSUME NEW j \in Job, WorkerSets(j) PROVE IntakeSound'
  BY <1>8, WorkerSetsStep
<1>9. ASSUME NEW j \in Job, WorkerSaves(j) PROVE IntakeSound'
  BY <1>9, WorkerSavesStep
<1>10. ASSUME NEW j \in Job, RetryFinds(j) PROVE IntakeSound'
  BY <1>10, RetryFindsStep
<1>11. ASSUME NEW p \in Pruner, ListTerminal(p) PROVE IntakeSound'
  BY <1>11, ListTerminalStep
<1>12. ASSUME NEW p \in Pruner, NEW j \in Job, PopRecord(p, j) PROVE IntakeSound'
  BY <1>12, PopRecordStep
<1>13. ASSUME NEW p \in Pruner, TestKey(p) PROVE IntakeSound'
  BY <1>13, TestKeyStep
<1>14. ASSUME NEW p \in Pruner, PopKey(p) PROVE IntakeSound'
  BY <1>14, PopKeyStep
<1>15. ASSUME NEW p \in Pruner, DeleteManifest(p) PROVE IntakeSound'
  BY <1>15, DeleteManifestStep
<1>16. CASE RetryQueues
  BY <1>16, RetryQueuesStep
<1>17. CASE RetrySaved
  BY <1>17, RetrySavedStep
<1>18. CASE RetryFails
  BY <1>18, RetryFailsStep
<1>19. CASE Tick \/ UNCHANGED intakeVars
  BY <1>19, IdleStep
<1>20. ASSUME NEW listing \in SetToSeqs(Known(manifests)), RestoreJobs(listing) PROVE IntakeSound'
  BY <1>20, RestoreJobsStep
<1> QED BY <1>1, <1>2, <1>3, <1>4, <1>5, <1>6, <1>7, <1>8, <1>9, <1>10, <1>11, <1>12, <1>13, <1>14,
           <1>15, <1>16, <1>17, <1>18, <1>19, <1>20 DEF IntakeNext

\* The invariant holds of every behaviour of create_job, of the workers, of
\* retry_job, of pruning one access at a time, and of restarts; and finitely
\* many jobs are ever drawn.
THEOREM IntakeSoundness ==
  IntakeSpec => [](IntakeSound /\ IsFiniteSet(intake.drawn))
<1> USE IntakeAssumption
<1>1. IntakeInit => IntakeSound /\ IsFiniteSet(intake.drawn)
  <2>1. IntakeInit => IsFiniteSet(intake.drawn)
    BY FS_EmptySet DEF IntakeInit
  <2> QED BY <2>1, InitSound
<1>2. IntakeSound /\ IsFiniteSet(intake.drawn) /\ [IntakeNext]_intakeVars
        => (IntakeSound /\ IsFiniteSet(intake.drawn))'
  <2> SUFFICES ASSUME IntakeSound, IsFiniteSet(intake.drawn), [IntakeNext]_intakeVars
               PROVE  IntakeSound' /\ IsFiniteSet(intake'.drawn)
    OBVIOUS
  <2>1. IntakeSound'
    BY NextSound
  <2>2. IsFiniteSet(intake'.drawn)
    <3>1. CASE IntakeNext
      BY <3>1, UsageMoves, FS_AddElement
    <3>2. CASE UNCHANGED intakeVars
      BY <3>2 DEF intakeVars
    <3> QED BY <3>1, <3>2
  <2> QED BY <2>1, <2>2
<1> QED BY <1>1, <1>2, PTL DEF IntakeSpec

\* However callers with one key interleave, fail and are rolled back, while any
\* number of threads prune one access at a time, finished jobs are retried and
\* the process restarts: one job in memory has a key and the key names it, but
\* for keys whose entry was popped for another job than the one they named; a
\* key leads to a job that has it; and whoever is answered by create_job is
\* answered with a job of its key that has the very content it uploaded.
THEOREM CreationCorrect ==
  IntakeSpec => []CreationIsIdempotent
<1> USE IntakeAssumption
<1>1. IntakeSound => CreationIsIdempotent
  BY DEF IntakeSound, CreationIsIdempotent
<1> QED BY <1>1, IntakeSoundness, PTL

-----------------------------------------------------------------------------
(* The retention of card jobs: what no step but a restart takes away.      *)

\* A job given to its creator is in nobody's hand who could still take it back.
OwnersStand ==
  \A c, o \in Client : caller[c].owner /\ caller[c].answer # NoJob => caller[o].job # caller[c].answer

\* Whoever makes a job got it by drawing it, and what is drawn is new.
LEMMA OwnersMove ==
  ASSUME IntakeConstants, IntakeSound, OwnersStand, IntakeNext
  PROVE  OwnersStand'
<1>1. caller \in [Client -> Caller]
  BY DEF IntakeSound, IntakeTypeOK
<1>2. CASE \E c \in Client, request \in Request : Ask(c, request)
  <2>1. PICK c \in Client, request \in Request : Ask(c, request)
    BY <1>2
  <2>2. /\ \A o \in Client \ {c} : caller'[o] = caller[o]
        /\ caller'[c].job = NoJob /\ ~caller'[c].owner
    BY <1>1, <2>1 DEF Ask
  <2>3. \A o \in Client : caller'[o].job \in {caller[o].job, NoJob}
    BY <2>2
  <2> QED BY <2>2, <2>3 DEF OwnersStand
<1>3. CASE \E c \in Client : \E j \in Job \cup {NoJob} : Returns(c, j, FALSE)
  <2>1. PICK c \in Client, j \in Job \cup {NoJob} : Returns(c, j, FALSE)
    BY <1>3
  <2>2. /\ \A o \in Client \ {c} : caller'[o] = caller[o]
        /\ caller'[c].job = NoJob /\ ~caller'[c].owner
    <3>1. caller'[c] = Answered(c, j, FALSE) /\ \A o \in Client : o # c => caller'[o] = caller[o]
      BY <2>1, CallerReturns, Zenon DEF IntakeSound
    <3> QED BY <3>1 DEF Answered
  <2>3. \A o \in Client : caller'[o].job \in {caller[o].job, NoJob}
    BY <2>2
  <2> QED BY <2>2, <2>3 DEF OwnersStand
<1>4. CASE \E c \in Client : WriteSourcesFails(c) \/ LaunchFails(c)
  <2>1. PICK c \in Client : WriteSourcesFails(c) \/ LaunchFails(c)
    BY <1>4
  <2>2. caller' = [caller EXCEPT ![c].pc = "rollback"] /\ caller[c] \in Caller
    BY <1>1, <2>1 DEF WriteSourcesFails, LaunchFails
  <2>3. /\ \A o \in Client \ {c} : caller'[o] = caller[o]
        /\ caller'[c].job = caller[c].job /\ caller'[c].answer = caller[c].answer
        /\ caller'[c].owner = caller[c].owner
    BY <1>1, <2>2 DEF Caller
  <2> QED BY <2>3 DEF OwnersStand
<1>5. CASE \E c \in Client : Launch(c)
  <2>1. PICK c \in Client : Launch(c)
    BY <1>5
  <2>2. /\ \A o \in Client \ {c} : caller'[o] = caller[o]
        /\ caller'[c].job = NoJob /\ caller'[c].answer = caller[c].job
    <3>1. caller[c].job \in Job \cup {NoJob}
      BY <1>1 DEF Caller
    <3>2. /\ caller'[c] = Answered(c, caller[c].job, TRUE)
          /\ \A o \in Client : o # c => caller'[o] = caller[o]
      BY <2>1, <3>1, CallerReturns, Zenon DEF Launch, IntakeSound
    <3> QED BY <3>2 DEF Answered
  <2>3. \A o \in Client \ {c} : caller[c].job # NoJob => caller[o].job # caller[c].job
    BY DEF IntakeSound, ClientsStand, MakersStand, Makes
  <2> QED BY <2>2, <2>3 DEF OwnersStand
<1>6. CASE \E c \in Client, j \in Job : PublishSaved(c, j) \/ PublishFails(c, j)
  <2>1. PICK c \in Client, j \in Job : PublishSaved(c, j) \/ PublishFails(c, j)
    BY <1>6
  <2>2. /\ \A o \in Client \ {c} : caller'[o] = caller[o]
        /\ caller'[c].job = j /\ caller'[c].answer = caller[c].answer /\ caller'[c].owner = caller[c].owner
    <3>1. PICK l \in {"launch", "rollback"} : caller' = [caller EXCEPT ![c].pc = l, ![c].job = j]
      BY <2>1 DEF PublishSaved, PublishFails
    <3>2. caller[c] \in Caller
      BY <1>1
    <3>3. caller' = [caller EXCEPT ![c] = [caller[c] EXCEPT !.pc = l, !.job = j]]
      BY <1>1, <3>1
    <3> QED BY <1>1, <3>2, <3>3 DEF Caller
  <2>3. \A o \in Client : caller[o].answer # j
    BY <2>1 DEF PublishSaved, PublishFails, Publish, IntakeSound, DrawnStands, IntakeConstants
  <2> QED BY <2>2, <2>3 DEF OwnersStand
<1>7. CASE caller' = caller
  BY <1>7 DEF OwnersStand
<1>8. ASSUME NEW listing, RestoreJobs(listing) PROVE OwnersStand'
  <2>1. caller' = [c \in Client |-> Nobody]
    BY <1>8 DEF RestoreJobs
  <2> QED BY <2>1 DEF OwnersStand, Nobody
<1>9. ASSUME NEW c \in Client, Wake(c) PROVE \E j \in Job \cup {NoJob} : Returns(c, j, FALSE)
  <2>1. idempotency[KeyOf(c)] \in Job \cup {NoJob}
    BY <1>9, RequestsHaveKeys DEF IntakeSound, ClientsStand, IntakeTypeOK, Wake, CallerAt
  <2> QED BY <1>9, <2>1 DEF Wake, ReturnsExisting
<1>10. ASSUME NEW c \in Client, Rollback(c) \/ MakeDirectoryFails(c)
       PROVE  \E j \in Job \cup {NoJob} : Returns(c, j, FALSE)
  BY <1>10 DEF Rollback, MakeDirectoryFails
<1>11. ASSUME NEW j \in Job, WorkerSets(j) \/ WorkerSaves(j) \/ RetryFinds(j) PROVE caller' = caller
  BY <1>11 DEF WorkerSets, WorkerSaves, RetryFinds
<1>12. ASSUME NEW p \in Pruner, NEW j \in Job, PopRecord(p, j) PROVE caller' = caller
  BY <1>12 DEF PopRecord
<1>13. ASSUME NEW p \in Pruner, ListTerminal(p) \/ TestKey(p) \/ PopKey(p) \/ DeleteManifest(p)
       PROVE  caller' = caller
  BY <1>13 DEF ListTerminal, TestKey, PopKey, DeleteManifest
<1>14. RetryQueues \/ RetrySaved \/ RetryFails \/ Tick => caller' = caller
  BY DEF RetryQueues, RetrySaved, RetryFails, Tick
<1> QED BY <1>2, <1>3, <1>4, <1>5, <1>6, <1>7, <1>8, <1>9, <1>10, <1>11, <1>12, <1>13, <1>14 DEF IntakeNext

\* Nothing leaves the table or the disk.
AllStay == table \subseteq table' /\ Known(manifests) \subseteq Known(manifests')

\* Only a creation taken back and the two pops of pruning remove anything.
LEMMA RemovingSteps ==
  ASSUME IntakeConstants, IntakeSound, IntakeNext, intake'.restarts = intake.restarts
  PROVE  \/ AllStay
         \/ \E c \in Client : Rollback(c)
         \/ \E p \in Pruner : DeleteManifest(p) \/ \E j \in Job : PopRecord(p, j)
<1>1. /\ jobs \in [Job -> Document \cup {NoJob}] /\ manifests \in [Job -> Document \cup {NoJob}]
      /\ unsaved \in [Job -> Document \cup {NoJob}] /\ intake \in Usage /\ NoJob \notin Document
  BY DEF IntakeSound, IntakeTypeOK, IntakeConstants
<1>2. ASSUME table' = table, manifests' = manifests PROVE AllStay
  BY <1>2 DEF AllStay, Known
<1>3. ASSUME NEW j \in Job, NEW document \in Document, table \subseteq table',
             manifests' \in {manifests, [manifests EXCEPT ![j] = document]}
      PROVE  AllStay
  BY <1>1, <1>3 DEF AllStay, Known
<1>4. ASSUME NEW c \in Client, NEW j \in Job, PublishSaved(c, j) \/ PublishFails(c, j) PROVE AllStay
  <2>1. PICK persisted \in BOOLEAN : Publish(c, j, persisted)
    BY <1>4 DEF PublishSaved, PublishFails
  <2>2. j \notin Known(manifests)
    BY <2>1 DEF Publish, IntakeSound, DrawnStands
  <2>3. table \subseteq table' /\ \A i \in Job \ {j} : manifests'[i] = manifests[i]
    BY <1>1, <2>1 DEF Publish
  <2> QED BY <2>2, <2>3 DEF AllStay, Known
<1>5. ASSUME NEW j \in Job, WorkerSaves(j) PROVE AllStay
  <2>1. Launched(j) /\ unsaved[j] # NoJob
    BY <1>5 DEF WorkerSaves, IntakeSound, ThreadsStand, HandsStand
  <2>2. {unsaved[j], jobs[j]} \subseteq Document
    BY <1>1, <2>1 DEF Launched, Known
  <2> QED BY <1>3, <1>5, <2>2 DEF WorkerSaves
<1>6. ASSUME RetrySaved \/ RetryFails PROVE AllStay
  <2>1. retry.job \in Job /\ Launched(retry.job)
    BY <1>6 DEF RetrySaved, RetryFails, IntakeSound, ThreadsStand, RetryStands, HandsStand, IntakeTypeOK, Retrying
  <2>2. jobs[retry.job] \in Document
    BY <1>1, <2>1 DEF Launched, Known
  <2>3. table' = table /\ manifests' \in {manifests, [manifests EXCEPT ![retry.job] = jobs[retry.job]]}
    BY <1>6 DEF RetrySaved, RetryFails
  <2> QED BY <1>3, <2>1, <2>2, <2>3
<1>7. ASSUME NEW c \in Client, NEW request \in Request, Ask(c, request)
      PROVE  table' = table /\ manifests' = manifests
  BY <1>7 DEF Ask, recordVars
<1>8. ASSUME NEW c \in Client, Wake(c) \/ MakeDirectoryFails(c) \/ WriteSourcesFails(c)
                               \/ Launch(c) \/ LaunchFails(c)
      PROVE  table' = table /\ manifests' = manifests
  BY <1>8 DEF Wake, MakeDirectoryFails, WriteSourcesFails, Launch, LaunchFails, recordVars
<1>9. ASSUME NEW j \in Job, WorkerSets(j) \/ RetryFinds(j) PROVE table' = table /\ manifests' = manifests
  BY <1>9 DEF WorkerSets, RetryFinds, recordVars
<1>10. ASSUME NEW p \in Pruner, ListTerminal(p) \/ TestKey(p) \/ PopKey(p)
       PROVE  table' = table /\ manifests' = manifests
  BY <1>10 DEF ListTerminal, TestKey, PopKey, recordVars
<1>11. RetryQueues \/ Tick => table' = table /\ manifests' = manifests
  BY DEF RetryQueues, Tick, recordVars
<1>12. \A listing : ~RestoreJobs(listing)
  <2>1. \A listing : RestoreJobs(listing) => intake' = [intake EXCEPT !.restarts = @ + 1]
    BY DEF RestoreJobs
  <2>2. intake.restarts \in Nat
    BY <1>1 DEF Usage, IntakeConstants
  <2> QED BY <1>1, <2>1, <2>2 DEF Usage
<1> QED BY <1>2, <1>4, <1>5, <1>6, <1>7, <1>8, <1>9, <1>10, <1>11, <1>12 DEF IntakeNext

\* What no step but a restart takes away.
LEMMA KeptBetweenRestarts ==
  ASSUME IntakeConstants, IntakeSound, OwnersStand, IntakeNext, intake'.restarts = intake.restarts
  PROVE  CreatorKeepsJob /\ ActiveIsKept
<1>1. CASE AllStay
  BY <1>1 DEF AllStay, CreatorKeepsJob, StaysFor, ActiveIsKept
<1>2. ASSUME NEW c \in Client, Rollback(c) PROVE CreatorKeepsJob /\ ActiveIsKept
  <2>1. /\ caller[c].pc = "rollback" /\ table' = table \ {caller[c].job}
        /\ \A i \in Job : i # caller[c].job => manifests'[i] = manifests[i]
    BY <1>2 DEF Rollback, CallerAt
  <2>2. ASSUME NEW o \in Client, caller[o].owner, caller[o].answer \in table \ table'
        PROVE  FALSE
    <3>1. caller[o].answer = caller[c].job /\ caller[o].answer # NoJob
      BY <2>1, <2>2 DEF IntakeConstants, IntakeSound, DrawnStands, Known
    <3> QED BY <2>2, <3>1 DEF OwnersStand
  <2>3. CreatorKeepsJob
    BY <2>2 DEF CreatorKeepsJob, StaysFor
  <2>4. ASSUME NEW j \in table, Launched(j) PROVE j \in table'
    BY <2>1, <2>4 DEF Launched
  <2>5. ASSUME NEW j \in Known(manifests), j \notin Known(manifests')
        PROVE  caller[c].pc = "rollback" /\ caller[c].job = j
    BY <2>1, <2>5 DEF Known
  <2> QED BY <2>3, <2>4, <2>5 DEF ActiveIsKept
\* What a thread has listed had finished when it was listed.
<1>3. \A j \in Job : Listed(j) => jobs[j].status \in Terminal \/ j \in overtaken
  BY DEF IntakeSound, ThreadsStand, PrunersStand
<1>4. ASSUME NEW p \in Pruner, NEW j \in Job, PopRecord(p, j) PROVE CreatorKeepsJob /\ ActiveIsKept
  <2>1. table' = table \ {j} /\ manifests' = manifests /\ Listed(j)
    BY <1>4 DEF PopRecord, Listed
  <2>2. \A i \in table : i \notin table' => jobs[i].status \in Terminal \/ i \in overtaken
    BY <1>3, <2>1
  <2>3. Known(manifests') = Known(manifests)
    BY <2>1
  <2> QED BY <2>2, <2>3 DEF CreatorKeepsJob, StaysFor, ActiveIsKept, Active, Terminal
<1>5. ASSUME NEW p \in Pruner, DeleteManifest(p) PROVE CreatorKeepsJob /\ ActiveIsKept
  <2>1. /\ table' = table
        /\ manifests' \in {manifests, [manifests EXCEPT ![pruner[p].job] = NoJob]}
    BY <1>5 DEF DeleteManifest
  <2>2. ASSUME NEW j \in Known(manifests), j \notin Known(manifests') PROVE Listed(j)
    <3>1. j = pruner[p].job
      BY <2>1, <2>2 DEF Known, IntakeSound, IntakeTypeOK
    <3> QED BY <3>1 DEF Listed
  <2> QED BY <1>3, <2>1, <2>2 DEF CreatorKeepsJob, StaysFor, ActiveIsKept, Known
<1> QED BY <1>1, <1>2, <1>4, <1>5, RemovingSteps

\* What a restart takes away.
LEMMA RestartRetains ==
  ASSUME IntakeConstants, IntakeSound, IsFiniteSet(intake.drawn),
         NEW listing \in SetToSeqs(Known(manifests)), RestoreJobs(listing)
  PROVE  CreatorKeepsJob /\ ActiveIsKept /\ RestartKeepsNewest
<1> DEFINE chosen == Selected(manifests, listing)
           kept   == chosen \ Duplicates(manifests, chosen)
           lost   == (Finished(manifests) \cup chosen) \ kept
<1>1. manifests \in Records /\ NoJob \notin Document
  BY DEF IntakeSound, IntakeTypeOK, IntakeConstants, Records
<1>2. IsFiniteSet(Known(manifests))
  BY FS_Subset DEF IntakeSound, DrawnStands
<1>3. /\ chosen \in SUBSET Known(manifests)
      /\ \A i \in Finished(manifests) \ chosen :
           \A j \in Finished(manifests) \cap chosen : Older(manifests, i, j)
  BY <1>1, <1>2, SelectedStand
<1>4. /\ manifests' = [j \in Job |-> IF j \in lost THEN NoJob ELSE manifests[j]]
      /\ table' = kept
      /\ intake'.restarts # intake.restarts
  <2>1. intake' = [intake EXCEPT !.restarts = @ + 1]
    BY DEF RestoreJobs
  <2>2. intake \in Usage /\ intake.restarts \in Nat
    BY DEF IntakeSound, IntakeTypeOK, Usage, IntakeConstants
  <2>3. intake'.restarts = intake.restarts + 1
    BY <2>1, <2>2 DEF Usage
  <2>4. intake'.restarts # intake.restarts
    BY <2>2, <2>3
  <2> QED BY <2>4 DEF RestoreJobs
<1>5. IsFiniteSet(chosen)
  <2> HIDE DEF chosen
  <2> QED BY <1>2, <1>3, FS_Subset
<1> HIDE DEF chosen
<1>6. Known(manifests') = Known(manifests) \ lost
  BY <1>3, <1>4 DEF Known
<1>7. \A j \in chosen \ kept : \E i \in kept : /\ manifests[i].key = manifests[j].key
                                               /\ Before(manifests, i, j)
  BY <1>1, <1>3, <1>5, KeyKeepsFirst
<1>8. CreatorKeepsJob
  BY <1>4 DEF CreatorKeepsJob
<1>9. ActiveIsKept
  <2>1. ASSUME NEW j \in Known(manifests), manifests[j].status \in Active, j \notin Known(manifests')
        PROVE  \E i \in kept : manifests[i].key = manifests[j].key /\ Before(manifests, i, j)
    <3>1. j \in lost /\ j \notin Finished(manifests)
      BY <1>6, <2>1 DEF Finished, Active, Terminal
    <3> QED BY <1>7, <3>1
  <2> QED BY <1>4, <2>1 DEF ActiveIsKept
<1>10. RestartKeepsNewest
  <2> SUFFICES ASSUME NEW i \in Finished(manifests) \ Known(manifests')
               PROVE  \/ \A j \in table' \cap Finished(manifests) : Older(manifests, i, j)
                      \/ \E j \in table' : manifests[j].key = manifests[i].key
    BY DEF RestartKeepsNewest
  <2>1. i \in lost
    BY <1>6 DEF Finished
  <2>2. CASE i \in chosen
    BY <1>4, <1>7, <2>1, <2>2
  <2>3. CASE i \notin chosen
    BY <1>3, <1>4, <2>3
  <2> QED BY <2>2, <2>3
<1> QED BY <1>8, <1>9, <1>10

\* create_job, retry_job, _prune_terminal_jobs one access at a time and
\* _restore_jobs: until a restart a job leaves the table under its creator only
\* when it has finished or was retried after a thread had listed it as finished;
\* so does a job whose worker may run, and its manifest, but for a creation that
\* is taken back and, at a restart, for another job of its key; and in whatever
\* order the directory is listed, a restart deletes no finished job that is newer
\* than one it keeps.
THEOREM RetentionCorrect == IntakeSpec => RetentionStands
<1> USE IntakeAssumption
<1>1. IntakeInit => OwnersStand
  BY DEF IntakeInit, OwnersStand, Nobody
<1>2. IntakeSound /\ OwnersStand /\ [IntakeNext]_intakeVars => OwnersStand'
  <2>1. OwnersStand /\ UNCHANGED intakeVars => OwnersStand'
    BY DEF OwnersStand, intakeVars
  <2> QED BY <2>1, OwnersMove
<1>3. IntakeSound /\ IsFiniteSet(intake.drawn) /\ OwnersStand /\ [IntakeNext]_intakeVars
        => [CreatorKeepsJob /\ ActiveIsKept /\ RestartKeepsNewest]_intakeVars
  <2> SUFFICES ASSUME IntakeSound, IsFiniteSet(intake.drawn), OwnersStand, IntakeNext
               PROVE  CreatorKeepsJob /\ ActiveIsKept /\ RestartKeepsNewest
    OBVIOUS
  <2>1. CASE \E listing \in SetToSeqs(Known(manifests)) : RestoreJobs(listing)
    BY <2>1, RestartRetains
  <2>2. CASE intake'.restarts = intake.restarts
    <3>1. intake.restarts \in Nat
      BY DEF IntakeSound, IntakeTypeOK, Usage, IntakeConstants
    <3>2. RestartKeepsNewest
      BY <2>2, <3>1 DEF RestartKeepsNewest
    <3> QED BY <2>2, <3>2, KeptBetweenRestarts
  <2> QED BY <2>1, <2>2, UsageMoves
<1> QED BY <1>1, <1>2, <1>3, IntakeSoundness, PTL DEF IntakeSpec, RetentionStands

-----------------------------------------------------------------------------
(* The review of drawing cards: the invariant.                             *)

\* c is past the claim of its apply.
Applying(c) == reviewer[c].pc \notin {"idle", "claim"}

\* Whoever is about to replace the ledger has its lock and its newest copy.
LockStands ==
  \A c \in Reviewer : reviewer[c].pc = "replace" => lock = c /\ reviewer[c].copy = ledger

\* One apply of a card runs at a time.
ApplyAlone ==
  \A c, o \in Reviewer : Applying(c) /\ Applying(o) /\ CardOf[c] = CardOf[o] => c = o

\* No row of a remembered fanout was decided on its own.
EditsStand == \A j \in Card : \A p \in Fanned(j) : p.members \cap review.edited[j] = {}

\* Only what is in the ledger is invalidated.
LedgerStands ==
  \A e \in Range(ledger) : ~e.valid => [e EXCEPT !.valid = TRUE] \in Range(ledger)

ReviewSound ==
  /\ ReviewTypeOK /\ ReviewStands
  /\ LockStands /\ ApplyAlone /\ EditsStand /\ LedgerStands

LEMMA CardsOf == \A c \in Reviewer : CardOf[c] \in Card
BY DEF Card

LEMMA RowsAreRows == \A P \in Pages : RowsOf(P) \subseteq Row /\ P \subseteq Packet
BY DEF RowsOf, Row, Packet

\* What is shown, decided and fanned out depends on the pages and the choices.
LEMMA SamePage ==
  ASSUME UNCHANGED <<approvals, fanouts>>, NEW j \in Card, page'[j].packets = page[j].packets
  PROVE  Shown(j)' = Shown(j) /\ Decided(j)' = Decided(j) /\ Fanned(j)' = Fanned(j)
BY DEF Shown, Decided, Fanned, RowsOf

-----------------------------------------------------------------------------
(* What the ledger takes.                                                  *)

\* A finite set has an enumeration, and SetToSeq is one.
LEMMA Enumerated ==
  ASSUME NEW S, IsFiniteSet(S)
  PROVE  /\ SetToSeq(S) \in Seq(S)
         /\ IsInjective(SetToSeq(S)) /\ Range(SetToSeq(S)) = S
<1>1. Cardinality(S) \in Nat /\ ExistsBijection(1..Cardinality(S), S)
  BY FS_CardinalityType
<1>2. PICK f \in [1..Cardinality(S) -> S] : IsInjective(f)
  BY <1>1 DEF ExistsBijection, Bijection, Injection
<1>3. SetToSeq(S) \in [1..Cardinality(S) -> S] /\ IsInjective(SetToSeq(S))
  BY <1>2 DEF SetToSeq
<1>4. SetToSeq(S) \in Injection(1..Cardinality(S), S)
  BY <1>3 DEF Injection
<1>5. Cardinality(1..Cardinality(S)) = Cardinality(S)
  BY <1>1, FS_Interval
<1>6. SetToSeq(S) \in Surjection(1..Cardinality(S), S)
  BY <1>4, <1>5, FS_Injection
<1>7. Range(SetToSeq(S)) = S
  BY <1>6, Fun_SurjectionProperties
<1> QED BY <1>1, <1>3, <1>7

\* The events of a page are finitely many, valid, and one for each subject.
LEMMA PageEventsTyped ==
  ASSUME ReviewConstants, ReviewTypeOK, NEW j \in Card, Shown(j) \subseteq Decided(j)
  PROVE  /\ RowEvents(j) \cup FanoutEvents(j) \subseteq Event
         /\ IsFiniteSet(RowEvents(j)) /\ IsFiniteSet(FanoutEvents(j))
         /\ \A e \in RowEvents(j) : e.valid /\ e.subject \in Row
                                    /\ e = EventOf(j, e.subject, approvals[j][e.subject])
         /\ \A e \in FanoutEvents(j) : e.valid /\ e.subject \in Packet
                                       /\ e = EventOf(j, e.subject, fanouts[j][e.subject])
<1>1. page[j].packets \in Pages /\ page[j].generation \in 1..MaxGenerations
  BY DEF ReviewTypeOK, Sheet
<1>2. Shown(j) \subseteq Row /\ page[j].packets \subseteq Packet
  BY <1>1, RowsAreRows DEF Shown
<1>3. \A r \in Shown(j) : approvals[j][r] \in Choice
  BY <1>2 DEF Decided, ReviewTypeOK
<1>4. \A p \in Fanned(j) : p \in Packet /\ fanouts[j][p] \in Choice
  BY DEF Fanned, ReviewTypeOK
<1>5. \A s, choice : LET e == EventOf(j, s, choice)
                    IN  /\ e.subject = s /\ e.valid
                        /\ s \in Row \cup Packet /\ choice \in Choice => e \in Event
  BY <1>1 DEF EventOf, Event, Subject
<1>6. /\ RowEvents(j) \subseteq Event
      /\ \A e \in RowEvents(j) : e.valid /\ e.subject \in Row
                                 /\ e = EventOf(j, e.subject, approvals[j][e.subject])
  BY <1>2, <1>3, <1>5 DEF RowEvents
<1>7. /\ FanoutEvents(j) \subseteq Event
      /\ \A e \in FanoutEvents(j) : e.valid /\ e.subject \in Packet
                                    /\ e = EventOf(j, e.subject, fanouts[j][e.subject])
  BY <1>4, <1>5 DEF FanoutEvents
<1>8. IsFiniteSet(RowEvents(j))
  <2>1. [e \in RowEvents(j) |-> e.subject] \in Injection(RowEvents(j), Row)
    BY <1>6, Fun_IsInj
  <2> QED BY <2>1, FS_Injection DEF ReviewConstants
<1>9. IsFiniteSet(FanoutEvents(j))
  <2>1. [e \in FanoutEvents(j) |-> e.subject] \in Injection(FanoutEvents(j), Packet)
    BY <1>7, Fun_IsInj
  <2> QED BY <2>1, FS_Injection DEF ReviewConstants
<1> QED BY <1>6, <1>7, <1>8, <1>9

\* Two enumerations without a common element, one after the other, enumerate
\* their union.
LEMMA Concatenated ==
  ASSUME NEW S, NEW s \in Seq(S), NEW t \in Seq(S), IsInjective(s), IsInjective(t),
         Range(s) \cap Range(t) = {}
  PROVE  /\ s \o t \in Seq(S) /\ IsInjective(s \o t)
         /\ Range(s \o t) = Range(s) \cup Range(t)
<1>1. /\ s \o t \in Seq(S) /\ Len(s \o t) = Len(s) + Len(t)
      /\ \A i \in 1..Len(s) : (s \o t)[i] = s[i]
      /\ \A i \in 1..Len(t) : (s \o t)[i + Len(s)] = t[i]
      /\ \A i \in Len(s) + 1..Len(s) + Len(t) : /\ i - Len(s) \in 1..Len(t)
                                              /\ (s \o t)[i] = t[i - Len(s)]
  OBVIOUS
<1>2. /\ Range(s) = {s[i] : i \in 1..Len(s)} /\ Range(t) = {t[i] : i \in 1..Len(t)}
      /\ Range(s \o t) = {(s \o t)[i] : i \in 1..Len(s) + Len(t)}
  BY <1>1 DEF Range
<1>3. Range(s \o t) = Range(s) \cup Range(t)
  <2>1. \A i \in 1..Len(s) + Len(t) : (s \o t)[i] \in Range(s) \cup Range(t)
    BY <1>1, <1>2
  <2>2. \A i \in 1..Len(s) : s[i] \in Range(s \o t)
    BY <1>1, <1>2
  <2>3. ASSUME NEW i \in 1..Len(t) PROVE t[i] \in Range(s \o t)
    <3>1. i + Len(s) \in 1..Len(s) + Len(t) /\ t[i] = (s \o t)[i + Len(s)]
      BY <1>1
    <3> QED BY <1>2, <3>1
  <2> QED BY <1>2, <2>1, <2>2, <2>3
<1>4. ASSUME NEW h \in 1..Len(s) + Len(t), NEW i \in 1..Len(s) + Len(t), (s \o t)[h] = (s \o t)[i]
      PROVE  h = i
  <2>1. CASE h \in 1..Len(s) /\ i \in 1..Len(s)
    BY <1>1, <1>4, <2>1 DEF IsInjective
  <2>2. CASE h \notin 1..Len(s) /\ i \notin 1..Len(s)
    BY <1>1, <1>4, <2>2 DEF IsInjective
  <2>3. \A k \in 1..Len(s), l \in Len(s) + 1..Len(s) + Len(t) : (s \o t)[k] # (s \o t)[l]
    <3>1. \A k \in 1..Len(s) : (s \o t)[k] \in Range(s)
      BY <1>1, <1>2
    <3>2. \A l \in Len(s) + 1..Len(s) + Len(t) : (s \o t)[l] \in Range(t)
      BY <1>1, <1>2
    <3> QED BY <3>1, <3>2
  <2>4. CASE (h \in 1..Len(s)) # (i \in 1..Len(s))
    BY <1>1, <1>4, <2>3, <2>4
  <2> QED BY <2>1, <2>2, <2>3, <2>4
<1> QED BY <1>1, <1>3, <1>4 DEF IsInjective

\* append_page keeps what is there and adds each new event of the page once.
LEMMA AppendedOnce ==
  ASSUME ReviewConstants, ReviewTypeOK, NEW j \in Card, Shown(j) \subseteq Decided(j),
         NEW log \in Seq(Event), IsInjective(log)
  PROVE  /\ Appended(log, j) \in Seq(Event) /\ IsInjective(Appended(log, j))
         /\ Range(Appended(log, j)) = Range(log) \cup RowEvents(j) \cup FanoutEvents(j)
         /\ Len(log) <= Len(Appended(log, j))
         /\ \A i \in 1..Len(log) : Appended(log, j)[i] = log[i]
<1> DEFINE s == SetToSeq(RowEvents(j) \ Range(log))
           t == SetToSeq(FanoutEvents(j) \ Range(log))
<1>1. RowEvents(j) \cap FanoutEvents(j) = {}
  BY PageEventsTyped DEF ReviewConstants
<1>2. /\ s \in Seq(RowEvents(j) \ Range(log)) /\ IsInjective(s) /\ Range(s) = RowEvents(j) \ Range(log)
  BY PageEventsTyped, FS_Difference, Enumerated
<1>3. /\ t \in Seq(FanoutEvents(j) \ Range(log)) /\ IsInjective(t) /\ Range(t) = FanoutEvents(j) \ Range(log)
  BY PageEventsTyped, FS_Difference, Enumerated
<1>4. s \in Seq(Event) /\ t \in Seq(Event)
  BY <1>2, <1>3, PageEventsTyped
<1> HIDE DEF s, t
<1> DEFINE u == log \o s
<1>5. u \in Seq(Event) /\ IsInjective(u) /\ Range(u) = Range(log) \cup RowEvents(j)
  BY <1>2, <1>4, Concatenated
<1>6. Len(log) <= Len(u) /\ \A i \in 1..Len(log) : u[i] = log[i]
  BY <1>4
<1>7. Appended(log, j) = u \o t
  BY DEF Appended, s, t
<1> HIDE DEF u
<1>8. /\ u \o t \in Seq(Event) /\ IsInjective(u \o t)
      /\ Range(u \o t) = Range(log) \cup RowEvents(j) \cup FanoutEvents(j)
  <2>1. Range(u) \cap Range(t) = {}
    BY <1>1, <1>3, <1>5
  <2>2. /\ u \o t \in Seq(Event) /\ IsInjective(u \o t)
        /\ Range(u \o t) = Range(u) \cup Range(t)
    BY <1>3, <1>4, <1>5, <2>1, Concatenated
  <2> QED BY <1>3, <1>5, <2>2
<1>9. Len(log) <= Len(u \o t) /\ \A i \in 1..Len(log) : (u \o t)[i] = log[i]
  BY <1>4, <1>5, <1>6
<1> QED BY <1>7, <1>8, <1>9

-----------------------------------------------------------------------------
(* The steps of the review.                                                *)

LEMMA ReviewerMoves ==
  ASSUME ReviewTypeOK, NEW c \in Reviewer, NEW x \in Session,
         reviewer' = [reviewer EXCEPT ![c] = x]
  PROVE  /\ reviewer' \in [Reviewer -> Session]
         /\ reviewer'[c] = x /\ \A o \in Reviewer : o # c => reviewer'[o] = reviewer[o]
BY DEF ReviewTypeOK

LEMMA PageMoves ==
  ASSUME ReviewTypeOK, NEW j \in Card, NEW x \in Sheet, page' = [page EXCEPT ![j] = x]
  PROVE  /\ page' \in [Card -> Sheet]
         /\ page'[j] = x /\ \A i \in Card : i # j => page'[i] = page[i]
BY DEF ReviewTypeOK

\* What a reviewer or a page becomes when it is set to idle or to ready.
LEMMA Idled ==
  ASSUME NEW y \in Session
  PROVE  /\ [y EXCEPT !.pc = "idle"] \in Session /\ [y EXCEPT !.pc = "idle"].pc = "idle"
         /\ [y EXCEPT !.pc = "idle", !.copy = <<>>] \in Session
         /\ [y EXCEPT !.pc = "idle", !.copy = <<>>].pc = "idle"
<1>1. <<>> \in Seq(Event)
  OBVIOUS
<1> QED BY <1>1 DEF Session, Places

LEMMA Readied ==
  ASSUME NEW y \in Sheet
  PROVE  /\ [y EXCEPT !.status = "ready", !.epoch = @ + 1] \in Sheet
         /\ [y EXCEPT !.status = "ready", !.epoch = @ + 1].packets = y.packets
<1>1. y.epoch + 1 \in Nat
  BY DEF Sheet
<1> QED BY <1>1 DEF Sheet, Status

\* One more of what is bounded.
LEMMA Spends ==
  ASSUME ReviewConstants, ReviewTypeOK,
         \/ review.applies < MaxApplies /\ review' = [review EXCEPT !.applies = @ + 1]
         \/ review.failures < MaxWriteFailures /\ review' = [review EXCEPT !.failures = @ + 1]
         \/ review.decisions < MaxDecisions /\ review' = [review EXCEPT !.decisions = @ + 1]
  PROVE  review' \in Spending /\ review'.edited = review.edited
<1>1. review \in Spending
  BY DEF ReviewTypeOK
<1>2. /\ review.applies < MaxApplies => review.applies + 1 \in 0..MaxApplies
      /\ review.failures < MaxWriteFailures => review.failures + 1 \in 0..MaxWriteFailures
      /\ review.decisions < MaxDecisions => review.decisions + 1 \in 0..MaxDecisions
  BY <1>1 DEF ReviewConstants, Spending
<1>3. CASE review.applies < MaxApplies /\ review' = [review EXCEPT !.applies = @ + 1]
  BY <1>1, <1>2, <1>3 DEF Spending
<1>4. CASE review.failures < MaxWriteFailures /\ review' = [review EXCEPT !.failures = @ + 1]
  BY <1>1, <1>2, <1>4 DEF Spending
<1>5. CASE review.decisions < MaxDecisions /\ review' = [review EXCEPT !.decisions = @ + 1]
  BY <1>1, <1>2, <1>5 DEF Spending
<1> QED BY <1>3, <1>4, <1>5

\* A reviewer moves on over the page and the choices as they are: it may take
\* the ledger, and starts an apply only of a full page of its own epoch that
\* nobody else applies.
LEMMA MoveSound ==
  ASSUME ReviewConstants, ReviewSound, NEW c \in Reviewer, NEW x \in Session,
         reviewer' = [reviewer EXCEPT ![c] = x],
         UNCHANGED <<approvals, fanouts, ledger>>,
         page' \in [Card -> Sheet],
         \A j \in Card : page'[j].packets = page[j].packets /\ page'[j].epoch = page[j].epoch,
         review' \in Spending, review'.edited = review.edited,
         lock' \in Reviewer \cup {NoChoice},
         x.pc = "replace" => lock' = c /\ x.copy = ledger,
         \A o \in Reviewer : o # c /\ reviewer[o].pc = "replace" => lock' = lock,
         x.pc \notin {"idle", "claim"} =>
           /\ Applying(c) \/ ~Locked(CardOf[c])
           /\ x.epoch = page[CardOf[c]].epoch /\ Shown(CardOf[c]) = Decided(CardOf[c])
  PROVE  ReviewSound'
<1> USE DEF ReviewSound, ReviewStands
<1>1. /\ reviewer' \in [Reviewer -> Session]
      /\ reviewer'[c] = x /\ \A o \in Reviewer : o # c => reviewer'[o] = reviewer[o]
  BY ReviewerMoves
<1>2. \A j \in Card : Shown(j)' = Shown(j) /\ Decided(j)' = Decided(j) /\ Fanned(j)' = Fanned(j)
  BY SamePage
<1>3. ReviewTypeOK' /\ EventsAreUnique' /\ LedgerStands'
  BY <1>1 DEF ReviewTypeOK, EventsAreUnique, LedgerStands
<1>4. FanoutsStand' /\ EditsStand'
  BY <1>2 DEF FanoutsStand, EditsStand
<1>5. LockStands'
  BY <1>1 DEF LockStands
<1>6. ApplyAlone'
  BY <1>1 DEF ApplyAlone, Applying, Locked
<1>7. RunsArePending'
  BY <1>1, <1>2, CardsOf DEF RunsArePending
<1> QED BY <1>3, <1>4, <1>5, <1>6, <1>7

\* Whoever applies a page finds all of it decided, now and when it goes on.
LEMMA ApplyingIsPending ==
  ASSUME ReviewSound, NEW c \in Reviewer, Applying(c)
  PROVE  /\ reviewer[c].epoch = page[CardOf[c]].epoch
         /\ Shown(CardOf[c]) = Decided(CardOf[c])
BY DEF ReviewSound, ReviewStands, ReviewTypeOK, RunsArePending, Applying, Session, Places

LEMMA MovesSound ==
  ASSUME ReviewConstants, ReviewSound, NEW c \in Reviewer,
         \/ ListClusters(c) \/ ApplyAsk(c) \/ ApplyClaim(c) \/ LockLedger(c) \/ ApplyRuns(c)
  PROVE  ReviewSound'
<1>1. /\ ReviewTypeOK /\ reviewer[c] \in Session /\ CardOf[c] \in Card
      /\ page[CardOf[c]].packets \in Pages /\ page[CardOf[c]].epoch \in Nat
  BY CardsOf DEF ReviewSound, ReviewTypeOK, Sheet
<1>2. \A o \in Reviewer : reviewer[o].pc = "replace" => lock = o
  BY DEF ReviewSound, LockStands
<1>3. CASE ListClusters(c)
  <2> DEFINE x == [reviewer[c] EXCEPT !.seen = page[CardOf[c]].packets]
  <2>1. x \in Session /\ x.pc = "idle"
    BY <1>1, <1>3 DEF ListClusters, Does, Session
  <2>2. reviewer' = [reviewer EXCEPT ![c] = x]
    BY <1>1, <1>3 DEF ListClusters, ReviewTypeOK
  <2> HIDE DEF x
  <2> QED BY <1>1, <1>3, <2>1, <2>2, MoveSound DEF ListClusters, ReviewTypeOK
<1>4. CASE ApplyAsk(c)
  <2> DEFINE x == [reviewer[c] EXCEPT !.pc = "claim", !.epoch = page[CardOf[c]].epoch]
  <2>1. x \in Session /\ x.pc = "claim"
    BY <1>1 DEF Session, Places
  <2>2. reviewer' = [reviewer EXCEPT ![c] = x]
    BY <1>1, <1>4 DEF ApplyAsk, ReviewTypeOK
  <2>3. review' \in Spending /\ review'.edited = review.edited
    BY <1>1, <1>4, Spends DEF ApplyAsk
  <2> HIDE DEF x
  <2> QED BY <1>1, <1>4, <2>1, <2>2, <2>3, MoveSound DEF ApplyAsk, ReviewTypeOK
<1>5. CASE ApplyClaim(c)
  <2> DEFINE x == [reviewer[c] EXCEPT !.pc = IF Claimable(c) THEN "append" ELSE "idle"]
  <2>1. x \in Session /\ x.epoch = reviewer[c].epoch
        /\ x.pc = IF Claimable(c) THEN "append" ELSE "idle"
    BY <1>1 DEF Session, Places
  <2>2. reviewer' = [reviewer EXCEPT ![c] = x]
    BY <1>1, <1>5 DEF ApplyClaim, ReviewTypeOK
  <2> HIDE DEF x
  <2> QED BY <1>1, <1>5, <2>1, <2>2, MoveSound DEF ApplyClaim, ReviewTypeOK, Claimable, Complete
<1>6. CASE LockLedger(c)
  <2> DEFINE x == [reviewer[c] EXCEPT !.pc = "replace", !.copy = ledger]
  <2>1. x \in Session /\ x.pc = "replace" /\ x.copy = ledger /\ x.epoch = reviewer[c].epoch
    BY <1>1 DEF Session, Places, ReviewTypeOK
  <2>2. reviewer' = [reviewer EXCEPT ![c] = x]
    BY <1>1, <1>6 DEF LockLedger, ReviewTypeOK
  <2>3. Applying(c)
    BY <1>6 DEF LockLedger, Does, Applying
  <2>4. \A o \in Reviewer : reviewer[o].pc # "replace"
    BY <1>2, <1>6 DEF LockLedger, ReviewConstants
  <2>5. /\ lock' = c /\ UNCHANGED <<page, approvals, fanouts, ledger, review>>
        /\ page \in [Card -> Sheet] /\ review \in Spending
    BY <1>1, <1>6 DEF LockLedger, ReviewTypeOK
  <2> HIDE DEF x
  <2> QED BY <2>1, <2>2, <2>3, <2>4, <2>5, ApplyingIsPending, MoveSound
<1>7. CASE ApplyRuns(c)
  <2> DEFINE x == [reviewer[c] EXCEPT !.pc = "run"]
  <2>1. x \in Session /\ x.pc = "run" /\ x.epoch = reviewer[c].epoch
    BY <1>1 DEF Session, Places
  <2>2. reviewer' = [reviewer EXCEPT ![c] = x]
    BY <1>1, <1>7 DEF ApplyRuns, ReviewTypeOK
  <2>3. Applying(c)
    BY <1>7 DEF ApplyRuns, Does, Applying
  <2>4. /\ page' \in [Card -> Sheet]
        /\ \A j \in Card : page'[j].packets = page[j].packets /\ page'[j].epoch = page[j].epoch
    <3>1. /\ page[CardOf[c]] \in Sheet
          /\ page' = [page EXCEPT ![CardOf[c]] = [page[CardOf[c]] EXCEPT !.status = "processing"]]
      BY <1>1, <1>7 DEF ApplyRuns, ReviewTypeOK
    <3>2. [page[CardOf[c]] EXCEPT !.status = "processing"] \in Sheet
      BY <3>1 DEF Sheet, Status
    <3> QED BY <1>1, <3>1, <3>2, PageMoves DEF Sheet
  <2> HIDE DEF x
  <2> QED BY <1>1, <1>7, <2>1, <2>2, <2>3, <2>4, ApplyingIsPending, MoveSound
          DEF ApplyRuns, ReviewTypeOK
<1> QED BY <1>3, <1>4, <1>5, <1>6, <1>7

\* An apply ends: its reviewer is idle, its card has another epoch.
LEMMA EndSound ==
  ASSUME ReviewConstants, ReviewSound, NEW c \in Reviewer, NEW x \in Session, Applying(c),
         x.pc = "idle", reviewer' = [reviewer EXCEPT ![c] = x],
         UNCHANGED <<approvals, fanouts, ledger>>,
         page' \in [Card -> Sheet],
         \A j \in Card : page'[j].packets = page[j].packets
                         /\ (j # CardOf[c] => page'[j].epoch = page[j].epoch),
         review' \in Spending, review'.edited = review.edited,
         lock' \in {lock, IF lock = c THEN NoChoice ELSE lock}
  PROVE  ReviewSound'
<1> USE DEF ReviewSound, ReviewStands
<1>1. /\ reviewer' \in [Reviewer -> Session]
      /\ reviewer'[c] = x /\ \A o \in Reviewer : o # c => reviewer'[o] = reviewer[o]
  BY ReviewerMoves
<1>2. \A j \in Card : Shown(j)' = Shown(j) /\ Decided(j)' = Decided(j) /\ Fanned(j)' = Fanned(j)
  BY SamePage
<1>3. ReviewTypeOK' /\ EventsAreUnique' /\ LedgerStands'
  BY <1>1 DEF ReviewTypeOK, EventsAreUnique, LedgerStands
<1>4. FanoutsStand' /\ EditsStand'
  BY <1>2 DEF FanoutsStand, EditsStand
<1>5. LockStands'
  BY <1>1 DEF LockStands
<1>6. ApplyAlone'
  BY <1>1 DEF ApplyAlone, Applying
<1>7. RunsArePending'
  <2>1. \A o \in Reviewer : Applying(o) /\ o # c => CardOf[o] # CardOf[c]
    BY DEF ApplyAlone
  <2> QED BY <1>1, <1>2, <2>1, CardsOf DEF RunsArePending, Applying
<1> QED BY <1>3, <1>4, <1>5, <1>6, <1>7

LEMMA EndsSound ==
  ASSUME ReviewConstants, ReviewSound, NEW c \in Reviewer, ApplyFails(c) \/ RunReady(c)
  PROVE  ReviewSound'
<1>1. /\ ReviewTypeOK /\ reviewer[c] \in Session /\ CardOf[c] \in Card /\ Applying(c)
  BY CardsOf DEF ReviewSound, ReviewTypeOK, ApplyFails, RunReady, Does, Applying
<1>2. CASE ApplyFails(c)
  <2> DEFINE x == [reviewer[c] EXCEPT !.pc = "idle", !.copy = <<>>]
  <2>1. x \in Session /\ x.pc = "idle"
    BY <1>1, Idled
  <2>2. reviewer' = [reviewer EXCEPT ![c] = x]
    BY <1>1, <1>2 DEF ApplyFails, ReviewTypeOK
  <2>3. /\ page' \in [Card -> Sheet]
        /\ \A j \in Card : page'[j].packets = page[j].packets
                           /\ (j # CardOf[c] => page'[j].epoch = page[j].epoch)
    <3>1. /\ page[CardOf[c]] \in Sheet
          /\ page' = [page EXCEPT ![CardOf[c]] = [page[CardOf[c]] EXCEPT !.epoch = @ + 1]]
      BY <1>1, <1>2 DEF ApplyFails, Finishes, ReviewTypeOK
    <3>2. [page[CardOf[c]] EXCEPT !.epoch = @ + 1] \in Sheet
      BY <3>1 DEF Sheet
    <3> QED BY <1>1, <3>1, <3>2, PageMoves DEF Sheet
  <2>4. review' \in Spending /\ review'.edited = review.edited
    BY <1>1, <1>2, Spends DEF ApplyFails
  <2> HIDE DEF x
  <2> QED BY <1>1, <1>2, <2>1, <2>2, <2>3, <2>4, EndSound DEF ApplyFails
<1>3. CASE RunReady(c)
  <2> DEFINE x == [reviewer[c] EXCEPT !.pc = "idle"]
  <2>1. x \in Session /\ x.pc = "idle"
    BY <1>1, Idled
  <2>2. reviewer' = [reviewer EXCEPT ![c] = x]
    BY <1>1, <1>3 DEF RunReady, ReviewTypeOK
  <2>3. /\ page' \in [Card -> Sheet]
        /\ \A j \in Card : page'[j].packets = page[j].packets
                           /\ (j # CardOf[c] => page'[j].epoch = page[j].epoch)
    <3>1. /\ page[CardOf[c]] \in Sheet
          /\ page' = [page EXCEPT ![CardOf[c]] =
                        [page[CardOf[c]] EXCEPT !.status = "ready", !.epoch = @ + 1]]
      BY <1>1, <1>3 DEF RunReady, ReviewTypeOK
    <3> QED BY <1>1, <3>1, Readied, PageMoves
  <2>4. review' \in Spending /\ review'.edited = review.edited
    BY <1>1, <1>3 DEF RunReady, ReviewTypeOK
  <2> HIDE DEF x
  <2> QED BY <1>1, <1>3, <2>1, <2>2, <2>3, <2>4, EndSound DEF RunReady
<1> QED BY <1>2, <1>3

\* What is used when rows are decided, and when a page is opened.
LEMMA SpendsEdit ==
  ASSUME ReviewConstants, ReviewTypeOK, NEW j \in Card, NEW E \in SUBSET Row,
         \/ review.decisions < MaxDecisions /\ review' = [review EXCEPT !.decisions = @ + 1, !.edited[j] = E]
         \/ review.generation < MaxGenerations /\ review' = [review EXCEPT !.generation = @ + 1, !.edited[j] = E]
  PROVE  review' \in Spending /\ review'.edited = [review.edited EXCEPT ![j] = E]
<1>1. review \in Spending
  BY DEF ReviewTypeOK
<1>2. /\ review.decisions < MaxDecisions => review.decisions + 1 \in 0..MaxDecisions
      /\ review.generation < MaxGenerations => review.generation + 1 \in 1..MaxGenerations
      /\ [review.edited EXCEPT ![j] = E] \in [Card -> SUBSET Row]
  BY <1>1 DEF ReviewConstants, Spending
<1>3. CASE review.decisions < MaxDecisions /\ review' = [review EXCEPT !.decisions = @ + 1, !.edited[j] = E]
  BY <1>1, <1>2, <1>3 DEF Spending
<1>4. CASE review.generation < MaxGenerations /\ review' = [review EXCEPT !.generation = @ + 1, !.edited[j] = E]
  BY <1>1, <1>2, <1>4 DEF Spending
<1> QED BY <1>3, <1>4

\* The choices of a card that nobody applies, its fanouts and what is edited on
\* its own change together.
LEMMA DecisionSound ==
  ASSUME ReviewConstants, ReviewSound, NEW j \in Card, ~Locked(j),
         approvals' \in [Card -> [Row -> Choice \cup {NoChoice}]],
         fanouts' \in [Card -> [Packet -> Choice \cup {NoChoice}]],
         review' \in Spending,
         \A i \in Card : i # j => /\ approvals'[i] = approvals[i] /\ fanouts'[i] = fanouts[i]
                                 /\ review'.edited[i] = review.edited[i],
         UNCHANGED <<page, ledger, lock, reviewer>>,
         \A p \in Packet : fanouts'[j][p] # NoChoice =>
           /\ p \in page[j].packets /\ p.members \cap review'.edited[j] = {}
           /\ \A r \in p.members : approvals'[j][r] = fanouts'[j][p]
  PROVE  ReviewSound'
<1> USE DEF ReviewSound, ReviewStands
<1>1. ReviewTypeOK'
  BY DEF ReviewTypeOK
<1>2. EventsAreUnique' /\ LedgerStands' /\ LockStands' /\ ApplyAlone'
  BY DEF EventsAreUnique, LedgerStands, LockStands, ApplyAlone, Applying
<1>3. FanoutsStand'
  BY DEF FanoutsStand, Fanned
<1>4. EditsStand'
  BY DEF EditsStand, Fanned
<1>5. RunsArePending'
  <2> SUFFICES ASSUME NEW c \in Reviewer,
                      reviewer[c].pc \in {"append", "replace", "persist", "run"}
               PROVE  /\ reviewer[c].epoch = page[CardOf[c]].epoch
                      /\ Shown(CardOf[c])' = Decided(CardOf[c])'
    BY DEF RunsArePending
  <2>1. CardOf[c] \in Card /\ CardOf[c] # j
    BY CardsOf DEF Locked
  <2>2. Shown(CardOf[c])' = Shown(CardOf[c]) /\ Decided(CardOf[c])' = Decided(CardOf[c])
    BY <2>1 DEF Shown, Decided
  <2> QED BY <2>2 DEF RunsArePending
<1> QED BY <1>1, <1>2, <1>3, <1>4, <1>5

\* What is set for one card is set for no other.
LEMMA SetFor ==
  ASSUME ReviewTypeOK, NEW j \in Card,
         NEW A \in [Row -> Choice \cup {NoChoice}], NEW F \in [Packet -> Choice \cup {NoChoice}],
         NEW E \in SUBSET Row,
         approvals' = [approvals EXCEPT ![j] = A], fanouts' = [fanouts EXCEPT ![j] = F],
         review'.edited = [review.edited EXCEPT ![j] = E]
  PROVE  /\ approvals' \in [Card -> [Row -> Choice \cup {NoChoice}]] /\ approvals'[j] = A
         /\ fanouts' \in [Card -> [Packet -> Choice \cup {NoChoice}]] /\ fanouts'[j] = F
         /\ review'.edited[j] = E
         /\ \A i \in Card : i # j => /\ approvals'[i] = approvals[i] /\ fanouts'[i] = fanouts[i]
                                    /\ review'.edited[i] = review.edited[i]
BY DEF ReviewTypeOK, Spending

\* The packets of a page have no row in common, so that the choice of one touches
\* none of the others.
LEMMA PacketsApart ==
  ASSUME ReviewConstants, ReviewTypeOK, NEW j \in Card,
         NEW p \in page[j].packets, NEW q \in page[j].packets, p # q
  PROVE  p.members \cap q.members = {}
BY DEF ReviewConstants, ReviewTypeOK, Sheet

LEMMA PacketDecisionsSound ==
  ASSUME ReviewConstants, ReviewSound, NEW c \in Reviewer, NEW p \in Packet,
         UndoCluster(c, p) \/ \E choice \in Choice : PutCluster(c, p, choice)
  PROVE  ReviewSound'
<1> DEFINE j == CardOf[c]
<1>0. ReviewTypeOK /\ FanoutsStand /\ EditsStand
  BY DEF ReviewSound, ReviewStands
<1>1. /\ j \in Card /\ page[j].packets \subseteq Packet /\ p.members \subseteq Row
      /\ approvals[j] \in [Row -> Choice \cup {NoChoice}]
      /\ fanouts[j] \in [Packet -> Choice \cup {NoChoice}] /\ review.edited[j] \in SUBSET Row
  <2>1. j \in Card /\ page[j].packets \in Pages
    BY <1>0, CardsOf DEF ReviewTypeOK, Sheet
  <2>2. page[j].packets \subseteq Packet
    BY <2>1, RowsAreRows
  <2>3. p.members \subseteq Row
    BY DEF Row, RowsOf
  <2> HIDE DEF j
  <2>4. /\ approvals[j] \in [Row -> Choice \cup {NoChoice}]
        /\ fanouts[j] \in [Packet -> Choice \cup {NoChoice}]
    BY <1>0, <2>1 DEF ReviewTypeOK
  <2>5. review.edited[j] \in SUBSET Row
    BY <1>0, <2>1 DEF ReviewTypeOK, Spending
  <2> QED BY <2>1, <2>2, <2>3, <2>4, <2>5
<1>2. ~Locked(j) /\ p \in page[j].packets /\ UNCHANGED <<page, ledger, lock, reviewer>>
  BY DEF UndoCluster, PutCluster, Handles
<1>3. \A q \in Packet : fanouts[j][q] # NoChoice =>
        /\ q \in page[j].packets /\ q.members \cap review.edited[j] = {}
        /\ \A r \in q.members : approvals[j][r] = fanouts[j][q]
  BY <1>0, <1>1 DEF FanoutsStand, EditsStand, Fanned
<1>4. \A q \in page[j].packets : q # p => p.members \cap q.members = {}
  BY <1>0, <1>1, <1>2, PacketsApart
<1>5. \A q \in Packet : q.members \subseteq Row
  BY DEF Row, RowsOf
<1>6. CASE UndoCluster(c, p)
  <2> DEFINE A == [r \in Row |-> IF r \in p.members THEN NoChoice ELSE approvals[j][r]]
             F == [fanouts[j] EXCEPT ![p] = NoChoice]
  <2>1. /\ approvals' = [approvals EXCEPT ![j] = A] /\ fanouts' = [fanouts EXCEPT ![j] = F]
        /\ review' = review
    BY <1>6 DEF UndoCluster
  <2>2. A \in [Row -> Choice \cup {NoChoice}] /\ F \in [Packet -> Choice \cup {NoChoice}]
    BY <1>1
  <2>3. \A q \in Packet : F[q] # NoChoice => /\ q \in page[j].packets /\ q.members \cap review.edited[j] = {}
                                            /\ \A r \in q.members : A[r] = F[q]
    BY <1>1, <1>3, <1>4, <1>5
  <2>4. review' \in Spending /\ review'.edited = [review.edited EXCEPT ![j] = review.edited[j]]
    BY <1>0, <1>1, <2>1 DEF ReviewTypeOK, Spending
  <2> HIDE DEF A, F
  <2>5. /\ approvals' \in [Card -> [Row -> Choice \cup {NoChoice}]] /\ approvals'[j] = A
        /\ fanouts' \in [Card -> [Packet -> Choice \cup {NoChoice}]] /\ fanouts'[j] = F
        /\ review'.edited[j] = review.edited[j]
        /\ \A i \in Card : i # j => /\ approvals'[i] = approvals[i] /\ fanouts'[i] = fanouts[i]
                                   /\ review'.edited[i] = review.edited[i]
    BY <1>0, <1>1, <2>1, <2>2, <2>4, SetFor
  <2> QED BY <1>1, <1>2, <2>3, <2>4, <2>5, DecisionSound
<1>7. ASSUME NEW choice \in Choice, PutCluster(c, p, choice)
      PROVE  ReviewSound'
  <2> DEFINE A == [r \in Row |-> IF r \in p.members THEN choice ELSE approvals[j][r]]
             F == [fanouts[j] EXCEPT ![p] = choice]
             E == review.edited[j] \ p.members
  <2>1. /\ approvals' = [approvals EXCEPT ![j] = A] /\ fanouts' = [fanouts EXCEPT ![j] = F]
    BY <1>7 DEF PutCluster
  <2>2. /\ A \in [Row -> Choice \cup {NoChoice}] /\ F \in [Packet -> Choice \cup {NoChoice}]
        /\ E \in SUBSET Row
    BY <1>1
  <2>3. \A q \in Packet : F[q] # NoChoice => /\ q \in page[j].packets /\ q.members \cap E = {}
                                            /\ \A r \in q.members : A[r] = F[q]
    <3> SUFFICES ASSUME NEW q \in Packet, F[q] # NoChoice
                 PROVE  /\ q \in page[j].packets /\ q.members \cap E = {}
                        /\ \A r \in q.members : A[r] = F[q]
      OBVIOUS
    <3>1. CASE q = p
      BY <1>1, <1>2, <1>5, <3>1
    <3>2. CASE q # p
      BY <1>1, <1>3, <1>4, <1>5, <3>2
    <3> QED BY <3>1, <3>2
  <2>4. review' \in Spending /\ review'.edited = [review.edited EXCEPT ![j] = E]
    BY <1>0, <1>1, <1>7, <2>2, SpendsEdit DEF PutCluster, Decides
  <2> HIDE DEF A, F, E
  <2>5. /\ approvals' \in [Card -> [Row -> Choice \cup {NoChoice}]] /\ approvals'[j] = A
        /\ fanouts' \in [Card -> [Packet -> Choice \cup {NoChoice}]] /\ fanouts'[j] = F
        /\ review'.edited[j] = E
        /\ \A i \in Card : i # j => /\ approvals'[i] = approvals[i] /\ fanouts'[i] = fanouts[i]
                                   /\ review'.edited[i] = review.edited[i]
    BY <1>0, <1>1, <2>1, <2>2, <2>4, SetFor
  <2> QED BY <1>1, <1>2, <2>3, <2>4, <2>5, DecisionSound
<1> QED BY <1>6, <1>7

LEMMA RowDecisionsSound ==
  ASSUME ReviewConstants, ReviewSound, NEW c \in Reviewer, NEW r \in Row,
         ConfirmItem(c, r) \/ \E choice \in Choice \cup {NoChoice} : PutItem(c, r, choice)
  PROVE  ReviewSound'
<1> DEFINE j == CardOf[c]
           F == [p \in Packet |-> IF r \in p.members THEN NoChoice ELSE fanouts[j][p]]
<1>0. ReviewTypeOK /\ FanoutsStand /\ EditsStand
  BY DEF ReviewSound, ReviewStands
<1>1. /\ j \in Card
      /\ approvals[j] \in [Row -> Choice \cup {NoChoice}]
      /\ fanouts[j] \in [Packet -> Choice \cup {NoChoice}] /\ review.edited[j] \in SUBSET Row
  BY <1>0, CardsOf DEF ReviewTypeOK, Spending
<1>2. /\ ~Locked(j) /\ UNCHANGED <<page, ledger, lock, reviewer>>
      /\ fanouts' = [fanouts EXCEPT ![j] = F] /\ F \in [Packet -> Choice \cup {NoChoice}]
  BY <1>1 DEF ConfirmItem, PutItem, Handles, DiscardFor
<1>3. \A p \in Packet : F[p] # NoChoice =>
        /\ r \notin p.members /\ F[p] = fanouts[j][p]
        /\ p \in page[j].packets /\ p.members \cap review.edited[j] = {}
        /\ \A i \in p.members : approvals[j][i] = F[p]
  BY <1>0, <1>1 DEF FanoutsStand, EditsStand, Fanned
<1> HIDE DEF F
<1>4. \A p \in Packet : p.members \subseteq Row
  BY DEF Row, RowsOf
<1>5. CASE ConfirmItem(c, r)
  <2> DEFINE E == review.edited[j] \cup {r}
  <2>0. E \in SUBSET Row
    BY <1>1
  <2>1. review' \in Spending /\ review'.edited = [review.edited EXCEPT ![j] = E]
    BY <1>0, <1>1, <1>5, <2>0, SpendsEdit DEF ConfirmItem, Decides
  <2>2. approvals' = [approvals EXCEPT ![j] = approvals[j]]
    BY <1>0, <1>1, <1>5 DEF ConfirmItem, ReviewTypeOK
  <2>3. \A p \in Packet : F[p] # NoChoice => /\ p \in page[j].packets /\ p.members \cap E = {}
                                            /\ \A i \in p.members : approvals[j][i] = F[p]
    BY <1>3
  <2> HIDE DEF E
  <2>4. /\ approvals' \in [Card -> [Row -> Choice \cup {NoChoice}]] /\ approvals'[j] = approvals[j]
        /\ fanouts' \in [Card -> [Packet -> Choice \cup {NoChoice}]] /\ fanouts'[j] = F
        /\ review'.edited[j] = E
        /\ \A i \in Card : i # j => /\ approvals'[i] = approvals[i] /\ fanouts'[i] = fanouts[i]
                                   /\ review'.edited[i] = review.edited[i]
    BY <1>0, <1>1, <1>2, <2>0, <2>1, <2>2, SetFor
  <2> QED BY <1>1, <1>2, <2>1, <2>3, <2>4, DecisionSound
<1>6. ASSUME NEW choice \in Choice \cup {NoChoice}, PutItem(c, r, choice)
      PROVE  ReviewSound'
  <2> DEFINE A == [approvals[j] EXCEPT ![r] = choice]
             E == IF choice = NoChoice THEN review.edited[j] \ {r} ELSE review.edited[j] \cup {r}
  <2>1. E \in SUBSET Row /\ A \in [Row -> Choice \cup {NoChoice}]
    BY <1>1
  <2>2. Decides(c, E)
    BY <1>6 DEF PutItem
  <2>4. approvals' = [approvals EXCEPT ![j] = A]
    BY <1>0, <1>1, <1>6 DEF PutItem, ReviewTypeOK
  <2>3. \A p \in Packet : F[p] # NoChoice => /\ p \in page[j].packets /\ p.members \cap E = {}
                                            /\ \A i \in p.members : A[i] = F[p]
    BY <1>1, <1>3, <1>4
  <2> HIDE DEF A, E
  <2>5. review' \in Spending /\ review'.edited = [review.edited EXCEPT ![j] = E]
    BY <1>0, <1>1, <2>1, <2>2, SpendsEdit DEF Decides
  <2>6. /\ approvals' \in [Card -> [Row -> Choice \cup {NoChoice}]] /\ approvals'[j] = A
        /\ fanouts' \in [Card -> [Packet -> Choice \cup {NoChoice}]] /\ fanouts'[j] = F
        /\ review'.edited[j] = E
        /\ \A i \in Card : i # j => /\ approvals'[i] = approvals[i] /\ fanouts'[i] = fanouts[i]
                                   /\ review'.edited[i] = review.edited[i]
    BY <1>0, <1>1, <1>2, <2>1, <2>4, <2>5, SetFor
  <2> QED BY <1>1, <1>2, <2>3, <2>5, <2>6, DecisionSound
<1> QED BY <1>5, <1>6

\* A new page is published for a card: whoever applied the old one is done with it.
LEMMA PublicationSound ==
  ASSUME ReviewConstants, ReviewSound, NEW j \in Card,
         page' \in [Card -> Sheet], reviewer' \in [Reviewer -> Session],
         approvals' \in [Card -> [Row -> Choice \cup {NoChoice}]],
         fanouts' \in [Card -> [Packet -> Choice \cup {NoChoice}]],
         review' \in Spending, lock' \in Reviewer \cup {NoChoice}, ledger' = ledger,
         \A i \in Card : i # j => /\ page'[i] = page[i] /\ approvals'[i] = approvals[i]
                                 /\ fanouts'[i] = fanouts[i] /\ review'.edited[i] = review.edited[i],
         \A o \in Reviewer : /\ CardOf[o] # j => reviewer'[o] = reviewer[o]
                             /\ CardOf[o] # j /\ lock = o => lock' = o
                             /\ CardOf[o] = j => reviewer'[o].pc \in {"idle", "claim"},
         \A p \in Packet : fanouts'[j][p] # NoChoice =>
           /\ p \in page'[j].packets /\ p.members \cap review'.edited[j] = {}
           /\ \A r \in p.members : approvals'[j][r] = fanouts'[j][p]
  PROVE  ReviewSound'
<1> USE DEF ReviewSound, ReviewStands
<1>1. ReviewTypeOK'
  BY DEF ReviewTypeOK
<1>2. EventsAreUnique' /\ LedgerStands'
  BY DEF EventsAreUnique, LedgerStands
<1>3. FanoutsStand'
  BY DEF FanoutsStand, Fanned
<1>4. EditsStand'
  <2> SUFFICES ASSUME NEW i \in Card, NEW p \in Packet, fanouts'[i][p] # NoChoice
               PROVE  p.members \cap review'.edited[i] = {}
    BY DEF EditsStand, Fanned
  <2>1. CASE i = j
    BY <2>1
  <2>2. CASE i # j
    <3>1. fanouts[i][p] # NoChoice /\ review'.edited[i] = review.edited[i]
      BY <2>2
    <3>2. p.members \cap review.edited[i] = {}
      BY <3>1 DEF EditsStand, Fanned
    <3> QED BY <3>1, <3>2
  <2> QED BY <2>1, <2>2
<1>5. \A o \in Reviewer : reviewer'[o].pc \notin {"idle", "claim"}
                            => CardOf[o] # j /\ reviewer'[o] = reviewer[o]
  OBVIOUS
<1>6. LockStands'
  <2> SUFFICES ASSUME NEW o \in Reviewer, reviewer'[o].pc = "replace"
               PROVE  lock' = o /\ reviewer'[o].copy = ledger'
    BY DEF LockStands
  <2>1. CardOf[o] # j /\ reviewer'[o] = reviewer[o]
    BY <1>5
  <2>2. lock = o /\ reviewer[o].copy = ledger
    BY <2>1 DEF LockStands
  <2> QED BY <2>1, <2>2
<1>7. ApplyAlone'
  <2> SUFFICES ASSUME NEW c \in Reviewer, NEW o \in Reviewer,
                      reviewer'[c].pc \notin {"idle", "claim"},
                      reviewer'[o].pc \notin {"idle", "claim"}, CardOf[c] = CardOf[o]
               PROVE  c = o
    BY DEF ApplyAlone, Applying
  <2>1. reviewer'[c] = reviewer[c] /\ reviewer'[o] = reviewer[o]
    BY <1>5
  <2> QED BY <2>1 DEF ApplyAlone, Applying
<1>8. RunsArePending'
  <2> SUFFICES ASSUME NEW c \in Reviewer,
                      reviewer'[c].pc \in {"append", "replace", "persist", "run"}
               PROVE  /\ reviewer'[c].epoch = page'[CardOf[c]].epoch
                      /\ Shown(CardOf[c])' = Decided(CardOf[c])'
    BY DEF RunsArePending
  <2>1. CardOf[c] \in Card /\ CardOf[c] # j /\ reviewer'[c] = reviewer[c]
    BY <1>5, CardsOf
  <2>2. Shown(CardOf[c])' = Shown(CardOf[c]) /\ Decided(CardOf[c])' = Decided(CardOf[c])
    BY <2>1 DEF Shown, Decided, RowsOf
  <2>3. page'[CardOf[c]] = page[CardOf[c]]
    BY <2>1
  <2>4. /\ reviewer[c].epoch = page[CardOf[c]].epoch
        /\ Shown(CardOf[c]) = Decided(CardOf[c])
    BY <2>1 DEF RunsArePending
  <2> HIDE DEF ReviewSound
  <2> QED BY <2>1, <2>2, <2>3, <2>4
<1> QED BY <1>1, <1>2, <1>3, <1>4, <1>6, <1>7, <1>8

\* What publishing and opening a page set.
LEMMA Published ==
  ASSUME ReviewConstants, ReviewTypeOK, NEW j \in Card, NEW P \in Pages, NEW E \in SUBSET Row,
         Publishes(j, P), Opens(j, E)
  PROVE  /\ page' \in [Card -> Sheet] /\ page'[j].packets = P
         /\ review' \in Spending /\ review'.edited = [review.edited EXCEPT ![j] = E]
         /\ \A i \in Card : i # j => page'[i] = page[i]
<1> DEFINE x == [status |-> "review_required", packets |-> P,
                 generation |-> review.generation + 1, epoch |-> page[j].epoch + 1]
<1>1. page[j] \in Sheet /\ review \in Spending
  BY DEF ReviewTypeOK
<1>2. review.generation + 1 \in 1..MaxGenerations /\ page[j].epoch + 1 \in Nat
  BY <1>1 DEF Publishes, ReviewConstants, Spending, Sheet
<1>3. x \in Sheet
  BY <1>2 DEF Sheet, Status
<1>4. page' = [page EXCEPT ![j] = x]
  BY DEF Publishes
<1>5. page' \in [Card -> Sheet] /\ page'[j] = x /\ \A i \in Card : i # j => page'[i] = page[i]
  BY <1>3, <1>4, PageMoves
<1>6. review' \in Spending /\ review'.edited = [review.edited EXCEPT ![j] = E]
  BY SpendsEdit DEF Publishes, Opens
<1> QED BY <1>5, <1>6

LEMMA RunReviewsSound ==
  ASSUME ReviewConstants, ReviewSound, NEW c \in Reviewer, NEW P \in Pages, RunReviews(c, P)
  PROVE  ReviewSound'
<1> DEFINE j == CardOf[c]
           A == [r \in Row |-> NoChoice]
           F == [p \in Packet |-> NoChoice]
           x == [reviewer[c] EXCEPT !.pc = "idle"]
<1>1. ReviewTypeOK /\ ApplyAlone /\ j \in Card /\ reviewer[c] \in Session
  BY CardsOf DEF ReviewSound, ReviewTypeOK
<1>2. /\ Publishes(j, P) /\ Opens(j, {}) /\ ledger' = ledger /\ lock' = lock
      /\ {} \in SUBSET Row
  BY DEF RunReviews
<1>3. /\ page' \in [Card -> Sheet] /\ page'[j].packets = P
      /\ review' \in Spending /\ review'.edited = [review.edited EXCEPT ![j] = {}]
      /\ \A i \in Card : i # j => page'[i] = page[i]
  BY <1>1, <1>2, Published
<1>4. /\ approvals' = [approvals EXCEPT ![j] = A] /\ fanouts' = [fanouts EXCEPT ![j] = F]
      /\ A \in [Row -> Choice \cup {NoChoice}] /\ F \in [Packet -> Choice \cup {NoChoice}]
      /\ \A p \in Packet : F[p] = NoChoice
  BY DEF RunReviews
<1> HIDE DEF A, F
<1>5. /\ approvals' \in [Card -> [Row -> Choice \cup {NoChoice}]] /\ approvals'[j] = A
      /\ fanouts' \in [Card -> [Packet -> Choice \cup {NoChoice}]] /\ fanouts'[j] = F
      /\ review'.edited[j] = {}
      /\ \A i \in Card : i # j => /\ approvals'[i] = approvals[i] /\ fanouts'[i] = fanouts[i]
                                 /\ review'.edited[i] = review.edited[i]
  BY <1>1, <1>2, <1>3, <1>4, SetFor
<1>6. /\ reviewer' \in [Reviewer -> Session] /\ reviewer'[c].pc = "idle"
      /\ \A o \in Reviewer : o # c => reviewer'[o] = reviewer[o]
  <2>1. x \in Session /\ x.pc = "idle"
    BY <1>1, Idled
  <2>2. reviewer' = [reviewer EXCEPT ![c] = x]
    BY <1>1 DEF RunReviews, ReviewTypeOK
  <2> HIDE DEF x
  <2> QED BY <1>1, <2>1, <2>2, ReviewerMoves
<1>7. \A o \in Reviewer : o # c /\ CardOf[o] = j => reviewer'[o].pc \in {"idle", "claim"}
  BY <1>1, <1>6 DEF ApplyAlone, Applying, RunReviews, Does
<1>8. lock' \in Reviewer \cup {NoChoice}
  BY <1>1, <1>2 DEF ReviewTypeOK
<1>9. \A o \in Reviewer : CardOf[o] # j => o # c
  OBVIOUS
<1> HIDE DEF j
<1> QED BY <1>1, <1>2, <1>3, <1>4, <1>5, <1>6, <1>7, <1>8, <1>9, PublicationSound

LEMMA RecoverSound ==
  ASSUME ReviewConstants, ReviewSound, NEW j \in Card, NEW P \in Pages, Recover(j, P)
  PROVE  ReviewSound'
<1> DEFINE kept == [r \in Row |-> IF r \in RowsOf(P) THEN approvals[j][r] ELSE NoChoice]
           F == [p \in Packet |-> IF p \in P /\ \A r \in p.members : kept[r] = fanouts[j][p]
                                  THEN fanouts[j][p] ELSE NoChoice]
           E == review.edited[j] \cap RowsOf(P)
<1>1. /\ ReviewTypeOK /\ EditsStand
      /\ approvals[j] \in [Row -> Choice \cup {NoChoice}]
      /\ fanouts[j] \in [Packet -> Choice \cup {NoChoice}] /\ review.edited[j] \in SUBSET Row
  BY DEF ReviewSound, ReviewTypeOK, Spending
<1>2. Publishes(j, P) /\ Opens(j, E) /\ ledger' = ledger
  BY DEF Recover
<1>3. /\ E \in SUBSET Row /\ kept \in [Row -> Choice \cup {NoChoice}]
      /\ F \in [Packet -> Choice \cup {NoChoice}]
  BY <1>1
<1>4. approvals' = [approvals EXCEPT ![j] = kept] /\ fanouts' = [fanouts EXCEPT ![j] = F]
  BY DEF Recover, Restored
<1>5. \A p \in Packet : F[p] # NoChoice => /\ p \in P /\ p.members \cap E = {}
                                          /\ \A r \in p.members : kept[r] = F[p]
  BY <1>1 DEF EditsStand, Fanned
<1> HIDE DEF E, F, kept
<1>6. /\ page' \in [Card -> Sheet] /\ page'[j].packets = P
      /\ review' \in Spending /\ review'.edited = [review.edited EXCEPT ![j] = E]
      /\ \A i \in Card : i # j => page'[i] = page[i]
  BY <1>1, <1>2, <1>3, Published
<1>7. /\ approvals' \in [Card -> [Row -> Choice \cup {NoChoice}]] /\ approvals'[j] = kept
      /\ fanouts' \in [Card -> [Packet -> Choice \cup {NoChoice}]] /\ fanouts'[j] = F
      /\ review'.edited[j] = E
      /\ \A i \in Card : i # j => /\ approvals'[i] = approvals[i] /\ fanouts'[i] = fanouts[i]
                                 /\ review'.edited[i] = review.edited[i]
  BY <1>1, <1>3, <1>4, <1>6, SetFor
<1>8. /\ reviewer' \in [Reviewer -> Session]
      /\ \A o \in Reviewer : /\ CardOf[o] # j => reviewer'[o] = reviewer[o]
                             /\ CardOf[o] = j => reviewer'[o].pc = "idle"
  <2>1. reviewer' = [o \in Reviewer |-> IF CardOf[o] = j
                       THEN [reviewer[o] EXCEPT !.pc = "idle", !.copy = <<>>] ELSE reviewer[o]]
    BY DEF Recover
  <2>2. \A o \in Reviewer : /\ reviewer[o] \in Session
                            /\ [reviewer[o] EXCEPT !.pc = "idle", !.copy = <<>>] \in Session
                            /\ [reviewer[o] EXCEPT !.pc = "idle", !.copy = <<>>].pc = "idle"
    BY <1>1, Idled DEF ReviewTypeOK
  <2> QED BY <2>1, <2>2
<1>9. /\ lock' \in Reviewer \cup {NoChoice}
      /\ \A o \in Reviewer : CardOf[o] # j /\ lock = o => lock' = o
  BY <1>1 DEF Recover, ReviewTypeOK
<1> QED BY <1>2, <1>5, <1>6, <1>7, <1>8, <1>9, PublicationSound

\* The page is appended to the very ledger whose lock is held.
LEMMA Replaces ==
  ASSUME ReviewConstants, ReviewSound, NEW c \in Reviewer, ReplaceLedger(c)
  PROVE  /\ CardOf[c] \in Card /\ Shown(CardOf[c]) = Decided(CardOf[c])
         /\ ledger \in Seq(Event) /\ IsInjective(ledger)
         /\ lock = c /\ ledger' = Appended(ledger, CardOf[c])
<1>1. reviewer[c].pc = "replace"
  BY DEF ReplaceLedger, Does
<1>2. lock = c /\ reviewer[c].copy = ledger
  BY <1>1 DEF ReviewSound, LockStands
<1>3. Shown(CardOf[c]) = Decided(CardOf[c])
  BY <1>1, ApplyingIsPending DEF Applying
<1>4. ledger \in Seq(Event) /\ IsInjective(ledger)
  BY DEF ReviewSound, ReviewStands, ReviewTypeOK, EventsAreUnique, IsInjective
<1> QED BY <1>2, <1>3, <1>4, CardsOf DEF ReplaceLedger

LEMMA ReplaceSound ==
  ASSUME ReviewConstants, ReviewSound, NEW c \in Reviewer, ReplaceLedger(c)
  PROVE  ReviewSound'
<1> USE DEF ReviewSound, ReviewStands
<1> DEFINE x == [reviewer[c] EXCEPT !.pc = "persist", !.copy = <<>>]
<1>1. /\ ReviewTypeOK /\ reviewer[c] \in Session /\ <<>> \in Seq(Event)
      /\ UNCHANGED <<page, approvals, fanouts, review>> /\ lock' = NoChoice
  BY DEF ReplaceLedger, ReviewTypeOK
<1>2. x \in Session /\ x.pc = "persist" /\ x.epoch = reviewer[c].epoch
  BY <1>1 DEF Session, Places
<1>3. reviewer' = [reviewer EXCEPT ![c] = x]
  BY <1>1 DEF ReplaceLedger, ReviewTypeOK
<1> HIDE DEF x
<1>4. /\ reviewer' \in [Reviewer -> Session]
      /\ reviewer'[c] = x /\ \A o \in Reviewer : o # c => reviewer'[o] = reviewer[o]
  BY <1>1, <1>2, <1>3, ReviewerMoves
<1>5. /\ ledger' \in Seq(Event) /\ IsInjective(ledger')
      /\ Range(ledger') = Range(ledger) \cup RowEvents(CardOf[c]) \cup FanoutEvents(CardOf[c])
  BY <1>1, Replaces, AppendedOnce
<1>6. ReviewTypeOK'
  BY <1>1, <1>4, <1>5 DEF ReviewTypeOK
<1>7. EventsAreUnique'
  BY <1>5 DEF EventsAreUnique, IsInjective
<1>8. LedgerStands'
  BY <1>1, <1>5, Replaces, PageEventsTyped DEF LedgerStands
<1>9. FanoutsStand' /\ EditsStand'
  BY <1>1 DEF FanoutsStand, EditsStand, Fanned
<1>10. Applying(c) /\ lock = c
  BY Replaces DEF ReplaceLedger, Does, Applying
<1>11. LockStands'
  BY <1>2, <1>4, <1>10 DEF LockStands
<1>12. ApplyAlone'
  BY <1>2, <1>4, <1>10 DEF ApplyAlone, Applying
<1>13. RunsArePending'
  <2>1. \A j \in Card : Shown(j)' = Shown(j) /\ Decided(j)' = Decided(j)
    BY <1>1 DEF Shown, Decided
  <2> QED BY <1>1, <1>2, <1>4, <1>10, <2>1, CardsOf, ApplyingIsPending DEF RunsArePending
<1> QED BY <1>6, <1>7, <1>8, <1>9, <1>11, <1>12, <1>13

\* An invalidation follows the event it invalidates, and is the only one.
LEMMA InvalidateSound ==
  ASSUME ReviewConstants, ReviewSound, NEW e \in Range(ledger), Invalidate(e)
  PROVE  ReviewSound'
<1> USE DEF ReviewSound, ReviewStands
<1> DEFINE f == [e EXCEPT !.valid = FALSE]
<1>0. ReviewTypeOK /\ ledger \in Seq(Event) /\ e \in Event
  <2>1. ReviewTypeOK /\ ledger \in Seq(Event)
    BY DEF ReviewTypeOK
  <2>2. PICK i \in DOMAIN ledger : e = ledger[i]
    BY DEF Range
  <2> QED BY <2>1, <2>2
<1>1. /\ e.valid /\ f \notin Range(ledger) /\ lock = NoChoice
      /\ ledger' = Append(ledger, f) /\ UNCHANGED <<page, approvals, fanouts, lock, reviewer>>
  BY DEF Invalidate, Superseded
<1>2. f \in Event /\ ~f.valid /\ [f EXCEPT !.valid = TRUE] = e
  BY <1>0, <1>1 DEF Event
<1> HIDE DEF f
<1>3. /\ ledger' \in Seq(Event) /\ Range(ledger') = Range(ledger) \cup {f}
      /\ Len(ledger') = Len(ledger) + 1 /\ ledger'[Len(ledger) + 1] = f
      /\ \A i \in 1..Len(ledger) : ledger'[i] = ledger[i] /\ ledger[i] \in Range(ledger)
  BY <1>0, <1>1, <1>2 DEF Range
<1>4. review' \in Spending /\ review'.edited = review.edited
  BY <1>0, <1>1, Spends DEF Invalidate
<1>5. ReviewTypeOK'
  BY <1>0, <1>1, <1>3, <1>4 DEF ReviewTypeOK
<1>6. EventsAreUnique'
  BY <1>0, <1>1, <1>3 DEF EventsAreUnique
<1>7. LedgerStands'
  BY <1>0, <1>1, <1>2, <1>3 DEF LedgerStands
<1>8. FanoutsStand' /\ EditsStand'
  BY <1>1, <1>4 DEF FanoutsStand, EditsStand, Fanned
<1>9. LockStands' /\ ApplyAlone'
  BY <1>1 DEF LockStands, ApplyAlone, Applying, ReviewConstants
<1>10. RunsArePending'
  <2>1. \A j \in Card : Shown(j)' = Shown(j) /\ Decided(j)' = Decided(j)
    BY <1>1 DEF Shown, Decided
  <2> QED BY <1>1, <2>1, CardsOf DEF RunsArePending
<1> QED BY <1>5, <1>6, <1>7, <1>8, <1>9, <1>10

LEMMA ReviewStarts == ASSUME ReviewConstants, ReviewInit PROVE ReviewSound
<1>1. \A j \in Card : FirstPage[j] \in Pages /\ 1 \in 1..MaxGenerations /\ <<>> \in Seq(Event)
  BY DEF ReviewConstants
<1>2. \A j \in Card : [status |-> "review_required", packets |-> FirstPage[j],
                       generation |-> 1, epoch |-> 0] \in Sheet
  BY <1>1 DEF Sheet, Status
<1>3. page \in [Card -> Sheet]
  BY <1>2 DEF ReviewInit
<1>4. /\ approvals \in [Card -> [Row -> Choice \cup {NoChoice}]]
      /\ fanouts \in [Card -> [Packet -> Choice \cup {NoChoice}]]
      /\ ledger \in Seq(Event) /\ lock \in Reviewer \cup {NoChoice}
  BY DEF ReviewInit
<1>5. \A c \in Reviewer : page[CardOf[c]].packets \in Pages
  BY <1>3, CardsOf DEF Sheet
<1>6. reviewer \in [Reviewer -> Session] /\ \A c \in Reviewer : reviewer[c].pc = "idle"
  <2>1. <<>> \in Seq(Event)
    OBVIOUS
  <2>2. \A c \in Reviewer : [pc |-> "idle", seen |-> page[CardOf[c]].packets,
                             epoch |-> 0, copy |-> <<>>] \in Session
    BY <1>5, <2>1 DEF Session, Places
  <2> QED BY <2>2 DEF ReviewInit
<1>7. review \in Spending
  <2>1. /\ 1 \in 1..MaxGenerations /\ 0 \in 0..MaxApplies /\ 0 \in 0..MaxWriteFailures
        /\ 0 \in 0..MaxDecisions /\ [j \in Card |-> {}] \in [Card -> SUBSET Row]
    BY DEF ReviewConstants
  <2> QED BY <2>1 DEF ReviewInit, Spending
<1>8. ReviewTypeOK
  BY <1>3, <1>4, <1>6, <1>7 DEF ReviewTypeOK
<1>9. \A j \in Card : Fanned(j) = {}
  BY DEF ReviewInit, Fanned
<1>10. DOMAIN ledger = {} /\ Range(ledger) = {}
  BY DEF ReviewInit, Range
<1>11. ReviewStands
  BY <1>6, <1>9, <1>10 DEF ReviewStands, FanoutsStand, EventsAreUnique, RunsArePending
<1> QED BY <1>6, <1>8, <1>9, <1>10, <1>11
        DEF ReviewSound, LockStands, ApplyAlone, Applying, EditsStand, LedgerStands

LEMMA ReviewIdles == ASSUME ReviewSound, UNCHANGED reviewVars PROVE ReviewSound'
<1> USE DEF reviewVars, ReviewSound, ReviewStands
<1>1. ReviewTypeOK' /\ LockStands' /\ LedgerStands' /\ EventsAreUnique'
  BY DEF ReviewTypeOK, LockStands, LedgerStands, EventsAreUnique
<1>2. ApplyAlone'
  BY DEF ApplyAlone, Applying
<1>3. FanoutsStand' /\ EditsStand'
  BY DEF FanoutsStand, EditsStand, Fanned
<1>4. RunsArePending'
  BY DEF RunsArePending, Shown, Decided, RowsOf
<1> QED BY <1>1, <1>2, <1>3, <1>4

\* However reviewers decide, undo, apply and fail, and jobs restart: the
\* invariant holds.
THEOREM ReviewSoundness ==
  ReviewSpec => []ReviewSound
<1> USE ReviewAssumption
<1>1. ReviewInit => ReviewSound
  BY ReviewStarts
<1>2. ReviewSound /\ [ReviewNext]_reviewVars => ReviewSound'
  <2> SUFFICES ASSUME ReviewSound, [ReviewNext]_reviewVars PROVE ReviewSound'
    OBVIOUS
  <2>1. ASSUME NEW c \in Reviewer,
               \/ ListClusters(c) \/ ApplyAsk(c) \/ ApplyClaim(c) \/ LockLedger(c) \/ ApplyRuns(c)
        PROVE  ReviewSound'
    BY <2>1, MovesSound
  <2>2. ASSUME NEW c \in Reviewer, ReplaceLedger(c) PROVE ReviewSound'
    BY <2>2, ReplaceSound
  <2>3. ASSUME NEW c \in Reviewer, ApplyFails(c) \/ RunReady(c) PROVE ReviewSound'
    BY <2>3, EndsSound
  <2>4. ASSUME NEW c \in Reviewer, NEW P \in Pages, RunReviews(c, P) PROVE ReviewSound'
    BY <2>4, RunReviewsSound
  <2>5. ASSUME NEW c \in Reviewer, NEW p \in Packet,
               UndoCluster(c, p) \/ \E choice \in Choice : PutCluster(c, p, choice)
        PROVE  ReviewSound'
    BY <2>5, PacketDecisionsSound
  <2>6. ASSUME NEW c \in Reviewer, NEW r \in Row,
               ConfirmItem(c, r) \/ \E choice \in Choice \cup {NoChoice} : PutItem(c, r, choice)
        PROVE  ReviewSound'
    BY <2>6, RowDecisionsSound
  <2>7. ASSUME NEW j \in Card, NEW P \in Pages, Recover(j, P) PROVE ReviewSound'
    BY <2>7, RecoverSound
  <2>8. ASSUME NEW e \in Range(ledger), Invalidate(e) PROVE ReviewSound'
    BY <2>8, InvalidateSound
  <2> QED BY <2>1, <2>2, <2>3, <2>4, <2>5, <2>6, <2>7, <2>8, ReviewIdles DEF ReviewNext
<1> QED BY <1>1, <1>2, PTL DEF ReviewSpec

\* A remembered fanout is one that an undo may take back whole, no event is in
\* the ledger twice, and of the applies asked for one page at most one runs.
THEOREM ReviewStandsCorrect ==
  ReviewSpec => []ReviewStands
<1> USE ReviewAssumption
<1>1. ReviewSound => ReviewStands
  BY DEF ReviewSound
<1> QED BY <1>1, ReviewSoundness, PTL

-----------------------------------------------------------------------------
(* What no step takes away.                                                *)

LEMMA UndoSpares == ReviewSound => UndoSparesEdits
<1> SUFFICES ASSUME ReviewSound, NEW c \in Reviewer, NEW p \in Packet, UndoCluster(c, p)
             PROVE  p.members \cap review.edited[CardOf[c]] = {}
  BY DEF UndoSparesEdits
<1>1. p \in Fanned(CardOf[c]) /\ CardOf[c] \in Card
  BY CardsOf DEF UndoCluster
<1> QED BY <1>1 DEF ReviewSound, EditsStand

LEMMA LedgerIsKept ==
  ASSUME ReviewConstants, ReviewSound, [ReviewNext]_reviewVars
  PROVE  LedgerGrows
<1>1. ledger \in Seq(Event)
  BY DEF ReviewSound, ReviewTypeOK
<1>2. CASE ledger' = ledger
  BY <1>1, <1>2 DEF LedgerGrows, IsPrefix
<1>3. ASSUME NEW c \in Reviewer, ReplaceLedger(c)
      PROVE  LedgerGrows
  <2>1. /\ ledger' \in Seq(Event) /\ Len(ledger) <= Len(ledger')
        /\ \A i \in 1..Len(ledger) : ledger'[i] = ledger[i]
    BY <1>3, Replaces, AppendedOnce DEF ReviewSound
  <2>2. SubSeq(ledger, 1, Len(ledger)) = SubSeq(ledger', 1, Len(ledger))
    BY <1>1, <2>1
  <2> QED BY <2>1, <2>2 DEF LedgerGrows, IsPrefix
<1>4. ASSUME NEW e \in Range(ledger), Invalidate(e)
      PROVE  LedgerGrows
  <2> DEFINE f == [e EXCEPT !.valid = FALSE]
  <2>1. ledger' = Append(ledger, f)
    BY <1>4 DEF Invalidate
  <2>2. PICK i \in DOMAIN ledger : e = ledger[i]
    BY DEF Range
  <2>3. e \in Event
    BY <1>1, <2>2
  <2>4. f \in Event
    BY <2>3 DEF Event
  <2> HIDE DEF f
  <2>5. /\ Len(ledger) <= Len(ledger')
        /\ SubSeq(ledger, 1, Len(ledger)) = SubSeq(ledger', 1, Len(ledger))
    BY <1>1, <2>1, <2>4
  <2> QED BY <2>5 DEF LedgerGrows, IsPrefix
<1>5. ledger' = ledger \/ (\E c \in Reviewer : ReplaceLedger(c))
                       \/ (\E e \in Range(ledger) : Invalidate(e))
  <2>1. ASSUME NEW c \in Reviewer,
               \/ ListClusters(c) \/ ApplyAsk(c) \/ ApplyClaim(c) \/ LockLedger(c)
               \/ ApplyFails(c) \/ ApplyRuns(c) \/ RunReady(c)
        PROVE  ledger' = ledger
    BY <2>1 DEF ListClusters, ApplyAsk, ApplyClaim, LockLedger, ApplyFails, ApplyRuns, RunReady
  <2>2. \A c \in Reviewer, P \in Pages : RunReviews(c, P) => ledger' = ledger
    BY DEF RunReviews
  <2>3. \A c \in Reviewer, p \in Packet :
          UndoCluster(c, p) \/ (\E choice \in Choice : PutCluster(c, p, choice)) => ledger' = ledger
    BY DEF UndoCluster, PutCluster
  <2>4. \A c \in Reviewer, r \in Row :
          ConfirmItem(c, r) \/ (\E choice \in Choice \cup {NoChoice} : PutItem(c, r, choice))
            => ledger' = ledger
    BY DEF ConfirmItem, PutItem
  <2>5. \A j \in Card, P \in Pages : Recover(j, P) => ledger' = ledger
    BY DEF Recover
  <2>6. UNCHANGED reviewVars => ledger' = ledger
    BY DEF reviewVars
  <2> QED BY <2>1, <2>2, <2>3, <2>4, <2>5, <2>6 DEF ReviewNext
<1> QED BY <1>2, <1>3, <1>4, <1>5

\* A new event of the page is the last active one of its row: what comes with it
\* is about other rows, and no invalidation precedes what it invalidates.
LEMMA ReplayFollows ==
  ASSUME ReviewConstants, ReviewSound
  PROVE  ReplayIsThePage
<1> SUFFICES ASSUME NEW c \in Reviewer, ReplaceLedger(c), NEW r \in Shown(CardOf[c]) \ Hazardous,
                    EventOf(CardOf[c], r, approvals[CardOf[c]][r]) \notin Range(ledger)
             PROVE  Lookup(ledger', r) = approvals[CardOf[c]][r]
  BY DEF ReplayIsThePage
<1> DEFINE j == CardOf[c]
           e == EventOf(j, r, approvals[j][r])
           active == {i \in DOMAIN ledger' : /\ ledger'[i].subject = r /\ r \notin Hazardous
                                             /\ ledger'[i].valid /\ ~Superseded(ledger', ledger'[i])}
<1>1. /\ ReviewTypeOK /\ LedgerStands /\ j \in Card /\ Shown(j) \subseteq Decided(j)
      /\ ledger \in Seq(Event) /\ ledger' = Appended(ledger, j) /\ IsInjective(ledger)
  BY Replaces DEF ReviewSound
<1>2. /\ RowEvents(j) \cup FanoutEvents(j) \subseteq Event
      /\ \A o \in RowEvents(j) : o.valid /\ o.subject \in Row
                                 /\ o = EventOf(j, o.subject, approvals[j][o.subject])
      /\ \A o \in FanoutEvents(j) : o.valid /\ o.subject \in Packet
  BY <1>1, PageEventsTyped
<1>3. /\ ledger' \in Seq(Event) /\ IsInjective(ledger')
      /\ Range(ledger') = Range(ledger) \cup RowEvents(j) \cup FanoutEvents(j)
      /\ Len(ledger) <= Len(ledger') /\ \A i \in 1..Len(ledger) : ledger'[i] = ledger[i]
  BY <1>1, AppendedOnce
<1>4. e \in RowEvents(j) /\ e \in Event /\ e.valid /\ e.subject = r /\ e.choice = approvals[j][r]
  BY <1>2 DEF RowEvents, EventOf
<1>5. e \notin Range(ledger)
  OBVIOUS
<1> HIDE DEF e
<1>6. PICK i \in 1..Len(ledger') : ledger'[i] = e
  BY <1>3, <1>4 DEF Range
<1>7. i > Len(ledger)
  <2>1. ASSUME i \in 1..Len(ledger) PROVE FALSE
    BY <1>1, <1>3, <1>5, <1>6, <2>1 DEF Range
  <2> QED BY <1>1, <1>6, <2>1
<1>8. ~Superseded(ledger', e)
  <2> SUFFICES ASSUME NEW f \in Range(ledger'), f = [e EXCEPT !.valid = FALSE] PROVE FALSE
    BY DEF Superseded
  <2>1. ~f.valid /\ [f EXCEPT !.valid = TRUE] = e
    BY <1>4 DEF Event
  <2>2. f \in Range(ledger)
    BY <1>2, <1>3, <2>1
  <2> QED BY <1>1, <1>5, <2>1, <2>2 DEF LedgerStands
<1>9. i \in active
  BY <1>3, <1>4, <1>6, <1>8
<1>10. \A h \in active : h <= i
  <2> SUFFICES ASSUME NEW h \in 1..Len(ledger'), ledger'[h].subject = r, h > Len(ledger)
               PROVE  h = i
    BY <1>1, <1>3, <1>7
  <2>1. ledger'[h] \notin Range(ledger)
    <3> SUFFICES ASSUME NEW k \in 1..Len(ledger), ledger[k] = ledger'[h] PROVE FALSE
      BY <1>1 DEF Range
    <3>1. ledger'[k] = ledger'[h] /\ k \in 1..Len(ledger') /\ k # h
      BY <1>1, <1>3
    <3> QED BY <1>3, <3>1 DEF IsInjective
  <2>2. ledger'[h] \in RowEvents(j) \cup FanoutEvents(j)
    BY <1>3, <2>1 DEF Range
  <2>3. r \in Row /\ r \notin Packet
    BY <1>2, <1>4 DEF ReviewConstants
  <2>4. ledger'[h] = e
    BY <1>2, <2>2, <2>3 DEF e
  <2> QED BY <1>3, <1>6, <2>4 DEF IsInjective
<1>11. \A h \in active : h \in Int
  BY <1>3
<1>12. (CHOOSE h \in active : \A k \in active : k <= h) = i
  BY <1>9, <1>10, <1>11
<1>13. active # {}
  BY <1>9
<1>14. Lookup(ledger', r) = ledger'[CHOOSE h \in active : \A k \in active : k <= h].choice
  BY <1>13 DEF Lookup
<1> QED BY <1>4, <1>6, <1>12, <1>14

\* An undo takes back no choice made for one row, the ledger only grows, and it
\* answers with the page that was appended last.
THEOREM DecisionsLastCorrect ==
  ReviewSpec => DecisionsLast
<1> USE ReviewAssumption
<1>1. ReviewSound /\ [ReviewNext]_reviewVars
        => [UndoSparesEdits /\ LedgerGrows /\ ReplayIsThePage]_reviewVars
  BY UndoSpares, LedgerIsKept, ReplayFollows
<1> QED BY <1>1, ReviewSoundness, PTL DEF ReviewSpec, DecisionsLast

===============================================================================
