----------------------------- MODULE MCRequests -----------------------------
(***************************************************************************)
(* What clients ask of the two services, put side by side for TLC: the     *)
(* creation of drawing cards with the pruning and retries of their jobs,   *)
(* and the review of a reconciliation.  The two share no state: a          *)
(* behaviour runs one of them, and the other keeps its initial state.      *)
(***************************************************************************)
EXTENDS CardIntake, ReconciliationReview, TLC

CONSTANTS
  c1, c2, t1, t2, k1, k2, x1, x2,
  r1, r2, r3, g1, g2, f1, f2, p1, base, variant, other, a, b

VARIABLE service  \* the one that this behaviour runs, and for cards in which instance

-----------------------------------------------------------------------------
\* One key with two contents, and another key.
MCRequest == {[key |-> k1, content |-> x1], [key |-> k1, content |-> x2], [key |-> k2, content |-> x2]}

\* The cards in three instances: callers that race for two jobs through a failure
\* and a restart; two threads that prune while a third job may take the place of
\* the first; and two jobs one of which is retried while one thread at a time prunes,
\* with a clock, through a failure and a restart.
LOCAL Within ==
  CASE service = "creation" -> intake'.now = 0 /\ intake'.retries = 0 /\ intake'.drawn \subseteq {1, 2}
    [] service = "pruning"  -> /\ intake'.retries = 0 /\ intake'.failures = 0
                               /\ intake'.restarts = 0 /\ intake'.now = 0
    [] service = "retries"  -> /\ intake'.asks < MaxAsks /\ intake'.drawn \subseteq {1, 2}
                               /\ \E t \in Pruner : \A o \in Pruner \ {t} : pruner'[o] = NoList

\* Callers are alike, and so are the threads that prune.
Symmetry == Permutations({c1, c2}) \cup Permutations({t1, t2})

-----------------------------------------------------------------------------
\* A group of two rows, one under the group's name and one under a longer variant
\* of it, and a group of one row; two families in one package that may be accepted.
MCGroupOf   == (r1 :> g1) @@ (r2 :> g1) @@ (r3 :> g2)
MCFamilyOf  == (g1 :> f1) @@ (g2 :> f2)
MCPackageOf == (f1 :> p1) @@ (f2 :> p1)
MCRowName   == (r1 :> base) @@ (r2 :> variant) @@ (r3 :> other)
MCGroupName == (g1 :> base) @@ (g2 :> other)
MCAllowed   == (r1 :> {a, b}) @@ (r2 :> {a, b}) @@ (r3 :> {a})
MCProposed  == (p1 :> a)

-----------------------------------------------------------------------------
ServicesInit == service \in {"creation", "pruning", "retries", "review"} /\ IntakeInit /\ Init

CardsMove   == /\ service \in {"creation", "pruning", "retries"} /\ IntakeNext /\ Within
               /\ UNCHANGED <<service, vars>>
ReviewMoves == /\ service = "review" /\ Next
               /\ UNCHANGED <<service, intakeVars>>

ServicesNext == CardsMove \/ ReviewMoves
ServicesSpec == ServicesInit /\ [][ServicesNext]_<<service, intakeVars, vars>>
=============================================================================
