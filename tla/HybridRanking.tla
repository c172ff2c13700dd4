--------------------------- MODULE HybridRanking ---------------------------
(* hybrid_sources.py asks four kinds of sources for evidence that resembles  *)
(* one row; hybrid_retrieval.py fuses what they answer into a short list for *)
(* the reviewer.  Neither decides: an authority answers alone, a source that *)
(* fails or answers out of its contract takes all suggestions with it, and a *)
(* suggestion a reviewer has forbidden is only shown as forbidden.           *)
(*                                                                           *)
(* Fingerprints are the values they stand for; identities, references and    *)
(* similarities are small numbers.  Bindings of an index or a context to the *)
(* query are one flag each.                                                  *)
EXTENDS Integers, Sequences, FiniteSets, SequencesExt, FiniteSetsExt, Functions

CONSTANTS K,        \* RRF_K of the rank fusion
          Failed    \* what a provider that raises answers

OfPrototypes == {"pattern_mask", "prototype_full", "prototype_skeleton"}
OfTerms == {"lexical", "dense_full", "prototype_full"}
Dense == {"dense_full", "dense_skeleton", "prototype_full", "prototype_skeleton"}
Channels == OfPrototypes \cup OfTerms \cup Dense
Representation(channel) == IF channel \in OfTerms THEN "term" ELSE "skeleton"
Kind(channel) == IF channel \in OfPrototypes THEN "prototype" ELSE "example"

Refused(code) == [refused |-> code]
IsRefused(x) == "refused" \in DOMAIN x
ByRef(evidence, ref) == CHOOSE e \in evidence : e.ref = ref
UniqueRefs(evidence) == \A e, f \in evidence : e.ref = f.ref => e = f
NoRepeats(refs) == Cardinality(Range(refs)) = Len(refs)

-----------------------------------------------------------------------------
(* Collecting: the batch of every channel.                                   *)
Eligible(e, query) == e.here /\ e.fit /\ (query.exactOnly => e.term = query.term)

\* Every prototype is backed by the head of its pattern, active and current.
PrototypeReady(prototypes, heads, query) ==
  /\ \A h, g \in heads : h.pattern = g.pattern => h = g
  /\ \A e \in prototypes : /\ Eligible(e, query)
                           /\ \E h \in heads : /\ h.pattern = e.pattern
                                               /\ h.state = "active" /\ h.current /\ h.attested
                                               /\ h.outcome = e.outcome

Down == [down |-> TRUE, signals |-> <<>>]
Up(signals) == [down |-> FALSE, signals |-> signals]
Signal(ref, near) == [ref |-> ref, near |-> near]

Known(evidence, query, refs) ==
  NoRepeats(refs) /\ \A ref \in Range(refs) : \E e \in evidence : e.ref = ref /\ Eligible(e, query)

\* The mask and the lexical index rank their matches themselves.
RankedBatch(evidence, query, answer) ==
  LET refs == [i \in DOMAIN answer |-> answer[i].ref]
      ranks == [i \in DOMAIN answer |-> answer[i].rank]
  IN IF Range(ranks) = 1 .. Len(answer) /\ Known(evidence, query, refs)
     THEN Up([r \in 1 .. Len(answer) |->
            LET match == answer[CHOOSE i \in DOMAIN answer : ranks[i] = r] IN Signal(match.ref, match.near)])
     ELSE Down
\* The dense index answers in order.
DenseBatch(evidence, query, answer) ==
  IF /\ Known(evidence, query, [i \in DOMAIN answer |-> answer[i].ref])
     /\ \A match \in Range(answer) : match.confirmed /\ (query.category = match.category \/ query.category = Failed)
  THEN Up([r \in DOMAIN answer |-> Signal(answer[r].ref, answer[r].near)]) ELSE Down

Batch(call, channel) ==
  LET source == call.sources[channel]
      evidence == {e \in call.evidence : e.kind = Kind(channel)}
      prototypes == {e \in call.evidence : e.kind = "prototype"}
  IN IF \/ channel \in OfPrototypes /\ ~PrototypeReady(prototypes, call.heads, call.query)
        \/ ~source.bound \/ source.answer = Failed THEN Down
     ELSE IF channel \in Dense THEN DenseBatch(evidence, call.query, source.answer)
     ELSE RankedBatch(evidence, call.query, source.answer)

\* Bug: only the identities of the confirmed examples are known.
ExampleIdentities(evidence) == {e.identity : e \in {e \in evidence : e.kind = "example"}}
Identities(evidence) == {e.identity : e \in evidence}

\* The neighbours that an edge of the feedback graph forbids, ranked anew.
Nearer(x, y) ==
  \/ x.rank < y.rank
  \/ x.rank = y.rank /\ x.near > y.near
  \/ x.rank = y.rank /\ x.near = y.near /\ x.ref < y.ref
Negatives(call) ==
  LET kept == {n \in Range(call.negatives.answer) : n.edge \in call.edges /\ n.identity \in Identities(call.evidence)}
      ordered == SetToSortSeq(kept, Nearer)
  IN IF ~call.negatives.bound \/ call.negatives.answer = Failed THEN [down |-> TRUE, hits |-> {}]
     ELSE [down |-> FALSE, hits |-> {[ordered[r] EXCEPT !.rank = r] @@ [direct |-> TRUE] : r \in DOMAIN ordered}]

Suppresses(authority) == authority.source \in {"exact", "pattern"} \/ authority.patterns # {}
Collected(call) ==
  IF Suppresses(call.authority) \/ ~call.bound
  THEN [batches |-> [c \in Channels |-> Down], negatives |-> [down |-> TRUE, hits |-> {}]]
  ELSE [batches |-> [c \in Channels |-> Batch(call, c)], negatives |-> Negatives(call)]

-----------------------------------------------------------------------------
(* Ranking.                                                                  *)
ValidBatch(batch, channel, evidence) ==
  /\ ~batch.down
  /\ NoRepeats([i \in DOMAIN batch.signals |-> batch.signals[i].ref])
  /\ \A signal \in Range(batch.signals) :
       \E e \in evidence : e.ref = signal.ref /\ e.kind = Kind(channel) /\ e.here

\* The positions at which a channel found an identity.
Places(batches, channel, evidence, query, identity) ==
  {i \in DOMAIN batches[channel].signals :
     LET e == ByRef(evidence, batches[channel].signals[i].ref) IN e.identity = identity /\ Eligible(e, query)}

\* _rrf, the sum of 1 / (K + rank), as a pair that is not reduced.
AddTerm(score, rank) == <<score[1] * (K + rank) + score[2], score[2] * (K + rank)>>
Score(places) == FoldFunctionOnSet(LAMBDA rank, score : AddTerm(score, rank), <<0, 1>>, places, DOMAIN places)

\* Bug: the numerators alone are compared.
ComparedNumerators(x, y) == x[1] - y[1]
Compared(x, y) == x[1] * y[2] - y[1] * x[2]
Before(x, y) ==
  LET delta == Compared(x.score, y.score)
  IN \/ delta > 0
     \/ delta = 0 /\ x.channels > y.channels
     \/ delta = 0 /\ x.channels = y.channels /\ x.identity < y.identity
First(hits) == CHOOSE h \in hits : \A g \in hits : h.rank <= g.rank

\* Bug: every hit that forbids a suggestion is shown.
AllHits(hits) == hits
FirstHit(hits) == {First(hits)}

\* What the fusion makes of one identity: the best place of each channel
\* and the hits that are nearer than the evidence of their representation.
Fused(identity, batches, evidence, query, hits) ==
  LET found == {c \in Channels : Places(batches, c, evidence, query, identity) # {}}
      places == [c \in found |-> Min(Places(batches, c, evidence, query, identity))]
      chosen == [c \in found |-> batches[c].signals[places[c]]]
      mine == {h \in hits : h.identity = identity}
      NearestOf(kind) == Max({chosen[c].near : c \in {c \in found : Representation(c) = kind}})
      blocking == {h \in mine : /\ \E c \in found : Representation(c) = h.representation
                                /\ h.near >= NearestOf(h.representation)}
      direct == {h \in mine : h.direct}
  IN [identity |-> identity, channels |-> Cardinality(found), score |-> Score(places),
      refs |-> {chosen[c].ref : c \in found}, outcomes |-> {ByRef(evidence, chosen[c].ref).outcome : c \in found},
      forbidden |-> direct # {}, exposed |-> IF direct # {} THEN FirstHit(direct) ELSE blocking]

Result(status, candidates, exposed, down) ==
  [status |-> status, candidates |-> candidates, exposed |-> exposed, down |-> down]

Ranked(query, authority, evidence, batches, negatives) ==
  LET broken == {c \in Channels : ~ValidBatch(batches[c], c, evidence)}
      identities == {e.identity : e \in {e \in evidence : \E c \in Channels :
                       Places(batches, c, evidence, query, e.identity) # {}}}
      fused == {Fused(i, batches, evidence, query, negatives.hits) : i \in identities}
      exposed == UNION {f.exposed : f \in fused}
      ordered == SetToSortSeq({f \in fused : ~f.forbidden}, Before)
  IN CASE authority.source = "exact" -> Result("authoritative_exact", <<>>, {}, {})
       [] authority.source = "pattern" -> Result("authoritative_pattern", <<>>, {}, {})
       [] authority.source = "manual" /\ authority.patterns # {} -> Result("review_required", <<>>, {}, {})
       [] OTHER ->
          IF negatives.down THEN Result("unavailable", <<>>, {}, Channels)
          ELSE IF ~UniqueRefs(evidence) THEN Refused("DUPLICATE_EVIDENCE")
          ELSE IF broken # {} THEN Result("unavailable", <<>>, {}, broken)
          ELSE IF \E f \in fused : Cardinality(f.outcomes) > 1 THEN Refused("OUTCOME_CONFLICT")
          ELSE IF \E h, g \in exposed : h # g /\ h.ref = g.ref THEN Refused("INVALID_SCHEMA")
          ELSE Result("review_required", SubSeq(ordered, 1, Min({Len(ordered), query.limit})), exposed, {})

Suggested(call) ==
  LET bundle == Collected(call)
  IN Ranked(call.query, call.authority, call.evidence, bundle.batches, bundle.negatives)

-----------------------------------------------------------------------------
(* Properties of a call and of what it suggested.                            *)
Shown(result) == {result.candidates[i].identity : i \in DOMAIN result.candidates}

\* Whatever the sources answer, a reviewer gets a list, unless evidence of
\* one identity disagrees or one negative is near two identities.
NothingRefused(call, result) ==
  IsRefused(result) =>
    \/ \E e, f \in call.evidence : e # f /\ e.identity = f.identity /\ e.outcome # f.outcome
    \/ \E n, m \in Range(call.negatives.answer) : n.ref = m.ref /\ n.identity # m.identity

\* What the feedback graph forbids is never suggested, whichever kind of
\* evidence is near it and however near.
VetoedStaysHidden(call, result) ==
  call.negatives.answer # Failed /\ ~IsRefused(result) =>
    \A n \in Range(call.negatives.answer) : n.edge \in call.edges => n.identity \notin Shown(result)

\* A suggestion never falls because a source ranks its evidence higher.
Position(result, identity) ==
  CHOOSE i \in DOMAIN result.candidates : result.candidates[i].identity = identity
Raised(signals, i) == [signals EXCEPT ![i] = signals[i + 1], ![i + 1] = signals[i]]
BestEvidenceFirst(call, result) ==
  LET bundle == Collected(call)
      IdentityAt(c, i) == ByRef(call.evidence, bundle.batches[c].signals[i].ref).identity
      After(c, i) == Ranked(call.query, call.authority, call.evidence,
                            [bundle.batches EXCEPT ![c].signals = Raised(@, i)], bundle.negatives)
  IN ~IsRefused(result) /\ result.candidates # <<>> =>
       \A c \in Channels : \A i \in 1 .. Len(bundle.batches[c].signals) - 1 :
         LET identity == IdentityAt(c, i + 1)
             after == After(c, i)
         IN identity \in Shown(result) /\ identity # IdentityAt(c, i) /\ ~IsRefused(after) =>
              identity \in Shown(after) /\ Position(after, identity) <= Position(result, identity)
=============================================================================
