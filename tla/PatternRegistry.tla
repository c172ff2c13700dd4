---------------------------- MODULE PatternRegistry ----------------------------
(***************************************************************************)
(* The registry of learned patterns: the lifecycle of a pattern, the graph *)
(* of feedback edges between patterns, and the SQLite store that appends   *)
(* revisions, plans and edges in transactions.  Operators load a history,  *)
(* build what they want to store away from the store, and store it later.  *)
(*                                                                         *)
(* A fingerprint covers the one before it, so a (record, event) pair of    *)
(* revision n stands for its whole chain: it is the sequence of the first  *)
(* n entries.  An entry is a record and the event filed with it.           *)
(***************************************************************************)
EXTENDS Naturals, FiniteSets, SequencesExt

CONSTANTS
  Operator,      \* those who build and store revisions, each its own actor_ref
  Pattern,       \* candidate identities, ordered
  FeedbackEdge,  \* the explicit edges that may be recorded: [relation, ends]
  MaxDrafts,     \* pieces of work begun, and answers lost after COMMIT
  MaxRevisions,  \* revisions of one pattern
  NoWork

VARIABLES
  registry,  \* the stored chain of each pattern, <<>> when there is none
  edges,     \* the stored feedback edges
  work,      \* what each operator is about to store
  spent      \* pieces of work begun and answers lost

registryVars == <<registry, edges, work, spent>>

States == {"proposed", "shadow", "owner_approved", "active", "suspended", "retired"}
Events == {"candidate_registered", "state_transition", "conflict_suspended",
           "superseded", "rolled_back", "wave5_verified_import"}

\* A contradiction is a pair with the edges it follows from; a revision names the
\* revision it goes back to, and 0 stands for no pattern.
Contradiction == [pair : SUBSET Pattern, evidence : SUBSET FeedbackEdge]
Entry == [state : States, conflicts : SUBSET Contradiction, rollback : Nat,
          supersedes : Pattern \cup {0}, superseded : Pattern \cup {0},
          event : Events, actor : Operator]

RegistryTypeOK ==
  /\ registry \in [Pattern -> Seq(Entry)]
  /\ edges \subseteq FeedbackEdge
  /\ DOMAIN work = Operator

RegistryConstants ==
  /\ 0 \notin Pattern
  /\ \A e \in FeedbackEdge : e.ends \subseteq Pattern
ASSUME RegistryAssumption == RegistryConstants

\* derive_contradictions: a pair of patterns both linked and told apart, with every edge of it.
Derived(es) ==
  {[pair |-> e.ends, evidence |-> {f \in es : f.ends = e.ends}] :
     e \in {e \in es : /\ e.relation = "must_link"
                       /\ \E f \in es : f.ends = e.ends /\ f.relation # "must_link"}}
ConflictsOf(es, p) == {c \in Derived(es) : p \in c.pair}

Allowed == {<<"proposed", "shadow">>, <<"shadow", "owner_approved">>,
            <<"active", "suspended">>} \cup ((States \ {"retired"}) \X {"retired"})

RecordOf(e)    == [f \in DOMAIN e \ {"event", "actor"} |-> e[f]]
Records(chain) == [i \in DOMAIN chain |-> RecordOf(chain[i])]

\* register_candidate
Registered(op, supersedes) ==
  <<[state |-> "proposed", conflicts |-> {}, rollback |-> 0, supersedes |-> supersedes,
     superseded |-> 0, event |-> "candidate_registered", actor |-> op]>>

\* _revision and _append: the head with some fields changed, and its event.
Revised(chain, event, op, changed) == Append(chain, [changed EXCEPT !.event = event, !.actor = op])

\* move_to_shadow and retire_head.
MoveTo(chain, state, op) ==
  IF <<Last(chain).state, state>> \in Allowed
  THEN {Revised(chain, "state_transition", op, [Last(chain) EXCEPT !.state = state])} ELSE {}

ApproveHead(chain, op) ==
  IF Last(chain).conflicts = {} THEN MoveTo(chain, "owner_approved", op) ELSE {}

\* Bug: the import is filed as an ordinary transition.
ImportActiveUnmarked(chain, op) ==
  IF Last(chain).state = "owner_approved" /\ Last(chain).conflicts = {}
  THEN {Revised(chain, "state_transition", op, [Last(chain) EXCEPT !.state = "active"])} ELSE {}

ImportActive(chain, op) ==
  IF Last(chain).state = "owner_approved" /\ Last(chain).conflicts = {}
  THEN {Revised(chain, "wave5_verified_import", op, [Last(chain) EXCEPT !.state = "active"])}
  ELSE {}

\* add_pre_activation_conflicts and suspend_active_for_conflict.
WithConflicts(chain, conflicts, op) ==
  IF conflicts = {} THEN {}
  ELSE IF Last(chain).state \in {"proposed", "shadow"}
  THEN {Revised(chain, "state_transition", op, [Last(chain) EXCEPT !.conflicts = conflicts])}
  ELSE IF Last(chain).state = "active"
  THEN {Revised(chain, "conflict_suspended", op,
                [Last(chain) EXCEPT !.state = "suspended", !.conflicts = conflicts])}
  ELSE {}

RetireHead(chain, op) == MoveTo(chain, "retired", op)

RollBackPlan(chain, op) ==
  IF Last(chain).state = "active"
  THEN {Revised(chain, "rolled_back", op,
                [Last(chain) EXCEPT !.state = "suspended", !.rollback = Len(chain)])} ELSE {}

SupersessionPlan(p, chain, q, op) ==
  IF <<Last(chain).state, "retired">> \in Allowed /\ p # q
  THEN {[r \in {p, q} |->
           IF r = q THEN Registered(op, p)
           ELSE Revised(chain, "superseded", op,
                        [Last(chain) EXCEPT !.state = "retired", !.superseded = q])]} ELSE {}

\* What one more call on a loaded history can return.
NextHistories(p, chain, op) ==
  IF chain = <<>> THEN {Registered(op, 0)}
  ELSE IF Len(chain) >= MaxRevisions THEN {}
  ELSE UNION
         {MoveTo(chain, "shadow", op), ApproveHead(chain, op), ImportActive(chain, op),
          WithConflicts(chain, ConflictsOf(edges, p), op), RetireHead(chain, op)}

\* --- what the store checks -------------------------------------------------
\* _pair_status
PairStatus(p, chain) ==
  IF Len(registry[p]) < Len(chain) THEN "absent"
  ELSE IF SubSeq(registry[p], 1, Len(chain)) = chain THEN "exact" ELSE "conflict"

\* _validate_record_conflicts, against the edges of the transaction.
RepresentsConflicts(entry, es) ==
  /\ entry.state \in {"owner_approved", "active"} => entry.conflicts = {}
  /\ \A c \in entry.conflicts : c.evidence \subseteq es

\* _append_pair of a pair that is not there yet: it must extend the stored chain.
Appendable(p, chain, es) ==
  /\ RepresentsConflicts(Last(chain), es)
  /\ registry[p] = Front(chain)

\* Bug: what the store already holds of the chain is not compared.
HistoryFitsAnyway(p, chain) ==
  \A i \in Len(registry[p]) + 1..Len(chain) : RepresentsConflicts(chain[i], edges)

\* append_history: the stored chain must be a beginning of the one given.
HistoryFits(p, chain) ==
  /\ IsPrefix(registry[p], chain)
  /\ \A i \in Len(registry[p]) + 1..Len(chain) : RepresentsConflicts(chain[i], edges)
HistoryAccepted(w) == \A p \in DOMAIN w.chains : HistoryFits(p, w.chains[p])

HeadIs(p, chain) == Records(registry[p]) = Records(chain)

\* Bug: a replacement is not looked up before it is registered.
PlanFitsUnseen(chains) ==
  \A p \in DOMAIN chains :
    Len(chains[p]) > 1 => PairStatus(p, chains[p]) = "absent" /\ Appendable(p, chains[p], edges)

\* apply_plan: all of it is there already and newest, or none of it is and the heads stand.
PlanReplayed(chains) == \A p \in DOMAIN chains : registry[p] = chains[p]
PlanFits(chains) ==
  /\ \A p \in DOMAIN chains : PairStatus(p, chains[p]) = "absent"
  /\ \A p \in DOMAIN chains : Len(chains[p]) > 1 => HeadIs(p, Front(chains[p]))
  /\ \A p \in DOMAIN chains : Appendable(p, chains[p], edges)
PlanAccepted(w) == PlanReplayed(w.chains) \/ PlanFits(w.chains)

\* Bug: the contradictions are not derived again under the transaction.
EdgeFitsAsDrafted(e, heads) == \A p \in DOMAIN heads : HeadIs(p, heads[p])

\* append_edge: the endpoints as given are current and no contradiction changes.
EdgeFits(e, heads) ==
  /\ \A p \in DOMAIN heads : HeadIs(p, heads[p])
  /\ Derived(edges) = Derived(edges \cup {e})

\* append_edge_and_revisions: exactly the patterns of a new contradiction are revised,
\* each from its current head and with every contradiction it now has.
Affected(e) == UNION {c.pair : c \in Derived(edges \cup {e}) \ Derived(edges)}
RevisesConflict(p, chain, es) ==
  LET head == Last(Front(chain)) IN
  /\ head.state \notin {"owner_approved", "suspended", "retired"}
  /\ Last(chain).state = (IF head.state = "active" THEN "suspended" ELSE head.state)
  /\ Last(chain).conflicts = ConflictsOf(es, p)
  /\ Last(chain).event = (IF head.state = "active" THEN "conflict_suspended"
                          ELSE "state_transition")
ConflictFits(e, heads, chains) ==
  /\ \A p \in DOMAIN heads : HeadIs(p, heads[p])
  /\ DOMAIN chains = Affected(e)
  /\ \A p \in DOMAIN chains : /\ HeadIs(p, Front(chains[p]))
                              /\ RevisesConflict(p, chains[p], edges \cup {e})
                              /\ Appendable(p, chains[p], edges \cup {e})
ConflictReplayed(e, chains) ==
  e \in edges /\ DOMAIN chains # {} /\ \A p \in DOMAIN chains : registry[p] = chains[p]

EdgeAccepted(w) ==
  IF w.chains = <<>> THEN EdgeFits(w.edge, w.heads)
  ELSE \/ ConflictReplayed(w.edge, w.chains)
       \/ w.edge \notin edges /\ ConflictFits(w.edge, w.heads, w.chains)

--------------------------------------------------------------------------------
RegistryInit ==
  /\ registry = [p \in Pattern |-> <<>>]
  /\ edges = {}
  /\ work = [op \in Operator |-> NoWork]
  /\ spent = 0

Take(op, w) ==
  /\ work[op] = NoWork
  /\ spent < MaxDrafts
  /\ work' = [work EXCEPT ![op] = w]
  /\ spent' = spent + 1
  /\ UNCHANGED <<registry, edges>>

\* Load a history (or none, for a new candidate) and revise it once.
Draft(op) == \E p \in Pattern : \E chain \in NextHistories(p, registry[p], op) :
  Take(op, [kind |-> "history", chains |-> [r \in {p} |-> chain]])

\* Revise the loaded history once more before it is stored.
Extend(op) ==
  /\ work[op] # NoWork
  /\ work[op].kind = "history"
  /\ \E p \in DOMAIN work[op].chains : \E chain \in NextHistories(p, work[op].chains[p], op) :
       work' = [work EXCEPT ![op] = [kind |-> "history", chains |-> [r \in {p} |-> chain]]]
  /\ UNCHANGED <<registry, edges, spent>>

PlanRollback(op) == \E p \in {p \in Pattern : registry[p] # <<>>} :
  \E chain \in RollBackPlan(registry[p], op) :
    Take(op, [kind |-> "plan", chains |-> [r \in {p} |-> chain]])

PlanSupersession(op) == \E p \in {p \in Pattern : registry[p] # <<>>}, q \in Pattern :
  \E chains \in SupersessionPlan(p, registry[p], q, op) :
    Take(op, [kind |-> "plan", chains |-> chains])

\* Bind an edge to the records it is about, with the revisions a contradiction calls for.
Judge(op) == \E e \in FeedbackEdge :
  LET revised(p) == WithConflicts(registry[p], ConflictsOf(edges \cup {e}, p), op) IN
  /\ \A p \in e.ends : registry[p] # <<>>
  /\ \A p \in Affected(e) : revised(p) # {}
  /\ Take(op, [kind |-> "edge", edge |-> e, heads |-> [p \in e.ends |-> registry[p]],
               chains |-> [p \in Affected(e) |-> CHOOSE chain \in revised(p) : TRUE]])

\* COMMIT; the answer may be lost, and the operator then stores the same work again.
Commit(op, stored, recorded) ==
  /\ registry' = [p \in Pattern |-> IF p \in DOMAIN stored THEN stored[p] ELSE registry[p]]
  /\ edges' = edges \cup recorded
  /\ \/ /\ work' = [work EXCEPT ![op] = NoWork]
        /\ UNCHANGED spent
     \/ /\ spent < MaxDrafts
        /\ spent' = spent + 1
        /\ UNCHANGED work

AppendHistory(op) ==
  /\ work[op] # NoWork
  /\ work[op].kind = "history"
  /\ HistoryAccepted(work[op])
  /\ Commit(op, work[op].chains, {})

ApplyPlan(op) ==
  /\ work[op] # NoWork
  /\ work[op].kind = "plan"
  /\ PlanAccepted(work[op])
  /\ Commit(op, work[op].chains, {})

AppendEdge(op) ==
  /\ work[op] # NoWork
  /\ work[op].kind = "edge"
  /\ EdgeAccepted(work[op])
  /\ Commit(op, work[op].chains, {work[op].edge})

\* Anything else is refused, rolled back, and given up.
Refuse(op) ==
  /\ work[op] # NoWork
  /\ ~ CASE work[op].kind = "history" -> HistoryAccepted(work[op])
         [] work[op].kind = "plan"    -> PlanAccepted(work[op])
         [] work[op].kind = "edge"    -> EdgeAccepted(work[op])
  /\ work' = [work EXCEPT ![op] = NoWork]
  /\ UNCHANGED <<registry, edges, spent>>

RegistryNext == \E op \in Operator :
  \/ Draft(op) \/ Extend(op) \/ PlanRollback(op) \/ PlanSupersession(op) \/ Judge(op)
  \/ AppendHistory(op) \/ ApplyPlan(op) \/ AppendEdge(op) \/ Refuse(op)

RegistrySpec == RegistryInit /\ [][RegistryNext]_registryVars

--------------------------------------------------------------------------------
\* _validate_history_semantics: the event load_history expects of revision r.
ExpectedEvent(prior, r) ==
  IF prior.state = r.state THEN "state_transition"
  ELSE IF prior.state = "owner_approved" /\ r.state = "active" THEN "wave5_verified_import"
  ELSE IF r.state = "suspended" /\ r.conflicts # {} THEN "conflict_suspended"
  ELSE IF r.rollback # 0 THEN "rolled_back"
  ELSE IF r.superseded # 0 THEN "superseded"
  ELSE "state_transition"
Loads(chain) ==
  /\ chain[1].event = "candidate_registered"
  /\ \A i \in 2..Len(chain) :
       /\ chain[i].event = ExpectedEvent(chain[i - 1], chain[i])
       /\ chain[i - 1].state = chain[i].state =>
            chain[i].state \in {"proposed", "shadow"} /\ chain[i].conflicts # {}

\* A history the store has accepted can be loaded again: what the writers
\* check and what load_history demands agree.
HistoriesLoad == \A p \in Pattern : registry[p] # <<>> => Loads(registry[p])

\* The same of patterns never rolled back, whatever operators race and retry.
UnrolledHistoriesLoad == \A p \in Pattern :
  registry[p] # <<>> /\ Last(registry[p]).rollback = 0 => Loads(registry[p])

\* integrity_report finds nothing: the newest revision of every pattern shows
\* exactly the contradictions that follow from the stored edges, and a pattern
\* in use has none.  Edges and revisions are stored by different operators.
ContradictionsShown == \A p \in Pattern : registry[p] # <<>> =>
  /\ Last(registry[p]).conflicts = ConflictsOf(edges, p)
  /\ Last(registry[p]).state \in {"owner_approved", "active"} => ConflictsOf(edges, p) = {}

\* A supersession is all or nothing: the retired pattern and its replacement
\* name each other, also after a retry or a race for the same replacement.
SupersessionPaired == \A p, q \in Pattern :
  /\ registry[p] # <<>> /\ Last(registry[p]).superseded = q =>
       registry[q] # <<>> /\ registry[q][1].supersedes = p
  /\ registry[q] # <<>> /\ registry[q][1].supersedes = p =>
       registry[p] # <<>> /\ Last(registry[p]).superseded = q

\* Whatever operators race and retry, every stored history can be loaded, shows
\* the contradictions of the edges, and is paired with the one it replaces.
RegistryStands == UnrolledHistoriesLoad /\ ContradictionsShown /\ SupersessionPaired

\* Stored revisions and edges are never changed or taken away.
RegistryGrows ==
  [][(\A p \in Pattern : IsPrefix(registry[p], registry'[p])) /\ edges \subseteq edges']_registryVars

================================================================================
