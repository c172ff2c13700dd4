-------------------------- MODULE ExactlyOnceApply --------------------------
(***************************************************************************)
(* What applying a reconciliation review promises, whatever fails on the   *)
(* way: a job's decisions enter the target's feedback at most once, and a  *)
(* job publishes only the workbook of the decisions it entered.            *)
(***************************************************************************)
EXTENDS Sequences, Naturals

CONSTANTS Job, Choice, NoChoice

VARIABLES
  ledger,   \* the target's feedback: a sequence of [job, choice]
  result    \* what each job has published, NoChoice before

Entered(j) == {i \in DOMAIN ledger : ledger[i].job = j}

Init ==
  /\ \A j \in Job : Entered(j) = {}
  /\ result = [j \in Job |-> NoChoice]

Enter(j, c) ==
  /\ Entered(j) = {}
  /\ ledger' = Append(ledger, [job |-> j, choice |-> c])
  /\ UNCHANGED result

Publish(j) ==
  /\ result[j] = NoChoice
  /\ \E i \in Entered(j) : result' = [result EXCEPT ![j] = ledger[i].choice]
  /\ UNCHANGED ledger

Next == \E j \in Job : Publish(j) \/ \E c \in Choice : Enter(j, c)

Spec == Init /\ [][Next]_<<ledger, result>>
=============================================================================
