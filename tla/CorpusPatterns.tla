--------------------------- MODULE CorpusPatterns ---------------------------
(* The offline corpus of reviewed rows, its profile and the pattern         *)
(* candidates mined from it: reconciliation_patterns/offline.py.            *)
(*                                                                          *)
(* A record is a row as the ontology reads it: its words, its skeleton (the *)
(* words with the slots taken out), its slots <<kind, words>>, the scope a  *)
(* pattern must share (category, mode, unit family, action, object, type),  *)
(* its unit (None when the ontology does not know it), and what became of   *)
(* it.  A fingerprint is what it is taken of.                               *)
EXTENDS Integers, FiniteSets, Sequences, FiniteSetsExt, SequencesExt

CONSTANTS None,
          Raw,      \* words that are parameter values
          Covered,  \* words the ontology classifies
          Letters,  \* of every word, its letters
          Close     \* pairs of long words one edit apart

-----------------------------------------------------------------------------
(* What a corpus may hold.                                                  *)
OutcomeValid(outcome) ==
  IF outcome.action = "accept" THEN outcome.mode # None /\ outcome.category # None
  ELSE outcome.mode = None /\ outcome.category = None
RecordValid(r, rules) ==
  /\ r.rules \subseteq rules
  /\ (r.resolution = "confirmed") = (r.outcome # <<>>)
  /\ r.outcome # <<>> => OutcomeValid(r.outcome)
  /\ r.resolution = "manual_unresolved" => r.eligibility = "review_relevant"
  /\ (r.resolution = "manual_unresolved") = (r.manual # None)
CorpusValid(records, rules) ==
  /\ \A r \in records : RecordValid(r, rules)
  /\ \A r, s \in records : r.id = s.id => r = s

Public(words) == [i \in DOMAIN words |-> IF words[i] \in Raw THEN "<parameter>" ELSE words[i]]
HasRaw(words) == Range(words) \cap Raw # {}
Identity(r) == <<r.words, r.skeleton, r.unit, r.slots>>
Atom(r) == <<Identity(r), r.doc>>
Atoms(entries) == {Atom(r) : r \in entries}
Identities(entries) == {Identity(r) : r \in entries}
Documents(entries) == {r.doc : r \in entries}
SlotWords(r) == UNION {Range(slot[2]) : slot \in r.slots}
Uncovered(r) == Range(r.words) \ (Covered \cup SlotWords(r) \cup Raw)

Differences(x, y) == {i \in DOMAIN x : x[i] # y[i]}
LexicallyNear(x, y) ==
  \/ FlattenSeq([i \in DOMAIN x |-> Letters[x[i]]]) = FlattenSeq([i \in DOMAIN y |-> Letters[y[i]]])
  \/ /\ Len(x) = Len(y)
     /\ Cardinality(Differences(x, y)) = 1
     /\ \A i \in Differences(x, y) : 1 \in {Len(Letters[x[i]]), Len(Letters[y[i]])} \/ {x[i], y[i]} \in Close

-----------------------------------------------------------------------------
(* The profile.  Private rows count, but are not described.                 *)
ReviewRelevant(records) == {r \in records : r.eligibility = "review_relevant"}
\* Bug: whatever is counted is described.
DescribedAll(records) == ReviewRelevant(records)
Described(records) == {r \in ReviewRelevant(records) : ~r.private}

Item(key, entries) ==
  [key |-> key, rows |-> Cardinality(entries), atoms |-> Cardinality(Atoms(entries)),
   identities |-> Cardinality(Identities(entries)), documents |-> Cardinality(Documents(entries))]
\* The items of all keys; the cut after the first of them is left out.
Section(entries, Keys(_)) ==
  {Item(key, {r \in entries : key \in Keys(r)}) : key \in UNION {Keys(r) : r \in entries}}
Windows(words, width) == {SubSeq(words, i, i + width - 1) : i \in 1..(Len(words) - width + 1)}
Phrases(r) == {w \in Windows(r.words, 2) \cup Windows(r.words, 3) : Range(w) \subseteq Uncovered(r)}
ParameterNear(r, s) ==
  \/ /\ r.slots # {} /\ r.slots # s.slots /\ r.skeleton = s.skeleton
     /\ {slot[1] : slot \in r.slots} = {slot[1] : slot \in s.slots}
  \/ /\ HasRaw(r.words) /\ HasRaw(s.words) /\ r.words # s.words /\ Public(r.words) = Public(s.words)
\* What is published of two forms that only differ in their parameters.
FormName(r, s) == IF Public(r.words) = Public(s.words) /\ ParameterNear(r, s) THEN {"variant"} ELSE {Public(r.words), Public(s.words)}
NearMisses(entries) ==
  {FormName(x[1], x[2]) : x \in {x \in entries \X entries :
     x[1].words # x[2].words /\ (LexicallyNear(x[1].words, x[2].words) \/ ParameterNear(x[1], x[2]))}}
VariantSets(entries) ==
  LET confirmed == {r \in entries : r.resolution = "confirmed"}
      groups == {{r \in confirmed : r.scope = q.scope /\ r.outcome = q.outcome} : q \in confirmed}
  IN  {Item({Public(r.words) : r \in g}, g) :
        g \in {g \in groups : Cardinality({Public(r.words) : r \in g}) > 1 /\ Cardinality(Identities(g)) > 1}}
ManualDrivers(entries) ==
  LET manual == {r \in entries : r.resolution = "manual_unresolved"}
  IN  {[item |-> Item(key, {r \in manual : <<r.skeleton, Public(r.words)>> = key}),
        actions |-> Cardinality({r.manual : r \in {r \in manual : <<r.skeleton, Public(r.words)>> = key}})] :
        key \in {<<r.skeleton, Public(r.words)>> : r \in manual}}
Descriptions(records) ==
  LET entries == Described(records)
  IN  [tokens |-> Section(entries, LAMBDA r : {w \in Uncovered(r) : Len(Letters[w]) > 1}), phrases |-> Section(entries, Phrases),
       actions |-> Section(entries, LAMBDA r : IF r.scope.action = None THEN {Public(r.words)} ELSE {}),
       objects |-> Section(entries, LAMBDA r : IF r.scope.object = None THEN {Public(r.words)} ELSE {}),
       near |-> NearMisses(entries), variants |-> VariantSets(entries), manual |-> ManualDrivers(entries)]
Coverage(records, rules) ==
  LET review == ReviewRelevant(records)
      count(Test(_)) == Cardinality({r \in review : Test(r)})
  IN  [review |-> Cardinality(review),
       action |-> count(LAMBDA r : r.scope.action # None), object |-> count(LAMBDA r : r.scope.object # None),
       unit |-> count(LAMBDA r : r.unit # None),
       full |-> count(LAMBDA r : r.scope.action # None /\ r.scope.object # None /\ r.unit # None /\ ~r.warned),
       rules |-> [rule \in rules |-> Cardinality(Atoms({r \in review : rule \in r.rules}))]]

-----------------------------------------------------------------------------
(* Mining: one row of every atom whose confirmed rows agree.                *)
Confirmed(records) == {r \in records : r.resolution = "confirmed" /\ ~r.private}
Outcomes(entries) == {r.outcome : r \in entries}
Contradictory(records) ==
  {atom \in Atoms(Confirmed(records)) : Cardinality(Outcomes({r \in Confirmed(records) : Atom(r) = atom})) > 1}
Usable(records) ==
  {r \in Confirmed(records) : /\ Atom(r) \notin Contradictory(records)
                              /\ \A s \in Confirmed(records) : Atom(s) = Atom(r) => r.id <= s.id}

\* Of every proposal: its kind, the texts it is about, its relation, and the
\* slots of a template.
Proposal(kind, texts, relation, entries) ==
  [kind |-> kind, texts |-> texts, relation |-> relation,
   slots |-> IF kind = "slot_template" THEN {r.slots : r \in entries} ELSE {}]
\* Bug: a template is looked for among the texts.
MatchesWords(p, r) ==
  IF p.kind = "critical_modifier" THEN Range(r.words) \cap p.texts # {} ELSE r.words \in p.texts
Matches(p, r) ==
  CASE p.kind \in {"slot_template", "include_exclude"} -> r.skeleton \in p.texts
    [] p.kind \in {"synonym_abbreviation", "split_merge"} -> r.words \in p.texts \/ Public(r.words) \in p.texts
    [] p.kind = "critical_modifier" -> Range(r.words) \cap p.texts # {}
    [] OTHER -> r.words \in p.texts

Candidate(kind, texts, relation, entries, records) ==
  LET scope == (CHOOSE r \in entries : TRUE).scope
      proposal == Proposal(kind, texts, relation, entries)
      matching == {r \in Confirmed(records) : Matches(proposal, r)}
      inScope == {r \in matching : r.scope = scope}
  IN  [scope |-> scope, proposal |-> proposal,
       expected |-> IF Cardinality(Outcomes(entries)) = 1 THEN (CHOOSE r \in entries : TRUE).outcome ELSE <<>>,
       support |-> Item(None, entries), contradictions |-> Cardinality(Atoms(inScope) \cap Contradictory(records)),
       risks |-> {risk \in {"unknown_unit", "parse_warning", "incomplete_scope"} :
                    \/ risk = "unknown_unit" /\ \E r \in entries : r.unit = None
                    \/ risk = "parse_warning" /\ \E r \in entries : r.warned
                    \/ risk = "incomplete_scope" /\ matching # inScope}]

Enough(entries, support) == Cardinality(Atoms(entries)) >= support
\* Bug: the texts of the parts are published as they are.
PartsVerbatim(entries) == {r.words : r \in entries}
Parts(entries) == {Public(r.words) : r \in entries}
SkeletonCandidates(records, support) ==
  LET facts == Usable(records)
      groups == {g \in {{r \in facts : r.scope = q.scope /\ r.skeleton = q.skeleton} : q \in facts} : Enough(g, support)}
      skeleton(g) == (CHOOSE r \in g : TRUE).skeleton
      agreed == {g \in groups : Cardinality(Outcomes(g)) = 1 /\ ~HasRaw(skeleton(g))}
      varied == {g \in agreed : Cardinality({r.slots : r \in g}) > 1}
      split == {g \in groups : Cardinality(Outcomes(g)) > 1}
      action(g) == (CHOOSE r \in g : TRUE).outcome.action
  IN  {Candidate("slot_template", {skeleton(g)}, None, g, records) : g \in varied}
      \cup {Candidate("include_exclude", {skeleton(g)}, action(g), g, records) : g \in agreed}
      \cup {Candidate("split_merge", Parts(g), "partitioned_outcomes", g, records) : g \in split}

\* Two texts of one scope: the words they differ in, or that they are near.
Modifier(x, y, entries) ==
  IF Len(x) = Len(y) /\ Cardinality(Differences(x, y)) = 1
    THEN LET i == CHOOSE i \in Differences(x, y) : TRUE
             uncovered == UNION {Uncovered(r) : r \in entries}
         IN  IF {x[i], y[i]} \subseteq uncovered THEN {x[i], y[i]} ELSE {}
    ELSE {}
\* Bug: a pair of texts is told apart by its own rows alone.
LinkedUnchecked(entries) == {"must_link"}
Linked(entries) == IF Cardinality(Outcomes(entries)) = 1 THEN {"must_link"} ELSE {"cannot_link"}
PairCandidates(x, y, left, right, records, support) ==
  LET entries == left \cup right
      texts == {x, y}
      of(kind, about, relation) == Candidate(kind, about, relation, entries, records)
      agreed == Cardinality(Outcomes(entries)) = 1
      outcome == (CHOOSE r \in entries : TRUE).outcome
      near == LexicallyNear(x, y)
  IN  IF HasRaw(x) \/ HasRaw(y) \/ ~Enough(entries, support) THEN {}
      ELSE {of("critical_modifier", Modifier(x, y, entries), "hard_boundary_review") :
              q \in {q \in {1} : ~agreed /\ Modifier(x, y, entries) # {}}}
           \cup {of("must_link_cannot_link", texts, relation) : relation \in {q \in Linked(entries) : near}}
           \cup {of(q[1], texts, q[2]) : q \in {q \in {<<"synonym_abbreviation", None>>, <<"split_merge", "same_outcome">>} :
                                                near /\ agreed}}
           \cup {of("category_specific_normalization", texts, outcome.category) :
                   q \in {q \in {1} : /\ near /\ agreed /\ outcome.action = "accept"
                                      /\ Enough(left, support) /\ Enough(right, support)}}
TextCandidates(records, support) ==
  LET facts == Usable(records)
      with(scope, x) == {r \in facts : r.scope = scope /\ r.words = x}
      pairs == {<<q[1].scope, {q[1].words, q[2].words}>> : q \in {q \in facts \X facts : q[1].scope = q[2].scope /\ q[1].words # q[2].words}}
  IN  UNION {LET x == CHOOSE x \in p[2] : TRUE
                 y == CHOOSE y \in p[2] : y # x
             IN  PairCandidates(x, y, with(p[1], x), with(p[1], y), records, support) : p \in pairs}
Mined(records, support) == SkeletonCandidates(records, support) \cup TextCandidates(records, support)

-----------------------------------------------------------------------------
(* What load_candidate_jsonl accepts of a published candidate.              *)
ProposalValid(p) ==
  CASE p.kind = "synonym_abbreviation" -> Cardinality(p.texts) = 2 /\ \A x, y \in p.texts : x # y => LexicallyNear(x, y)
    [] p.kind = "slot_template" -> Cardinality(p.slots) >= 2
    [] p.kind = "include_exclude" -> p.relation \in {"accept", "reject"}
    [] OTHER -> Cardinality(p.texts) = 2
OutcomeConsistent(p, expected) ==
  CASE p.kind = "include_exclude" -> expected # <<>> /\ expected.action = p.relation
    [] p.kind = "critical_modifier" -> expected = <<>>
    [] p.kind = "split_merge" -> (p.relation = "same_outcome") = (expected # <<>>)
    [] p.kind = "must_link_cannot_link" -> (p.relation = "must_link") = (expected # <<>>)
    [] p.kind = "category_specific_normalization" ->
         expected # <<>> /\ expected.action = "accept" /\ expected.category = p.relation
    [] OTHER -> expected # <<>>
Loads(c) ==
  /\ ProposalValid(c.proposal)
  /\ OutcomeConsistent(c.proposal, c.expected)
  /\ c.expected # <<>> => OutcomeValid(c.expected)
  /\ c.support.atoms >= 1
  /\ c.support.identities <= c.support.atoms /\ c.support.documents <= c.support.atoms
  /\ c.support.rows >= c.support.atoms

\* evaluate_candidates, for one candidate.
Evaluation(records, c) ==
  LET named == {r \in records : ~r.private /\ Matches(c.proposal, r)}
      matched == {r \in named : r.scope = c.scope}
      supported == {r \in Usable(records) : r.scope = c.scope /\ Matches(c.proposal, r)}
      agreeing == {r \in supported : r.outcome = c.expected}
      confirmed == {r \in matched : r.resolution = "confirmed"}
      conflicts == Atoms(confirmed) \cap Contradictory(records)
      judged == c.expected # <<>>
  IN  [matched |-> Cardinality(Atoms(matched)), supported |-> Cardinality(Atoms(supported)),
       contradictory |-> Cardinality(conflicts),
       unresolved |-> Cardinality(Atoms({r \in matched : r.resolution = "manual_unresolved"})),
       hard |-> Cardinality(Atoms(named \ matched)),
       agreement |-> IF judged THEN <<Cardinality(agreeing), Cardinality(supported)>> ELSE <<0, 0>>,
       risks |-> c.risks \cup {risk \in {"outcome_partition", "contradictory_atom", "hard_boundary_mismatch"} :
                   \/ risk = "outcome_partition" /\ judged /\ agreeing # supported
                   \/ risk = "contradictory_atom" /\ conflicts # {}
                   \/ risk = "hard_boundary_mismatch" /\ named # matched}]

-----------------------------------------------------------------------------
(* Properties.                                                              *)

(* A mined candidate, evaluated on its own corpus, is supported by the      *)
(* atoms and the contradictions it was published with, and they all agree   *)
(* with the outcome it expects; a modifier alone may meet more of them      *)
(* (offline.py:1837 evaluate_candidates recomputes what :1260 _candidate    *)
(* and the guards of :1327 mine_candidates established).                    *)
MinedAgree(records, mined) ==
  \A c \in mined :
    LET e == Evaluation(records, c)
    IN  /\ "outcome_partition" \notin e.risks
        /\ e.contradictory = c.contradictions
        /\ c.proposal.kind # "critical_modifier" => e.supported = c.support.atoms

(* The file of mined candidates can be loaded again, but for the parts of a *)
(* skeleton with several outcomes (offline.py:1790 load_candidate_jsonl).   *)
LinksLoad(mined) ==
  \A c \in mined : c.proposal.relation # "partitioned_outcomes" => Loads(c)

(* No candidate publishes a parameter value of a row                        *)
(* (offline.py:1327 mine_candidates, guarded once more by :1964).           *)
NoParameterPublished(mined) ==
  \A c \in mined :
    c.proposal.kind # "critical_modifier" => \A text \in c.proposal.texts : ~HasRaw(text)

(* Private rows leave no trace in the descriptions or the candidates, and   *)
(* still count in the coverage (offline.py:931 profile_corpus, :1205).      *)
PrivateRowsAreUnseen(records, rules, support, mined) ==
  LET open == {r \in records : ~r.private}
  IN  /\ Descriptions(records) = Descriptions(open)
      /\ mined = Mined(open, support)
      /\ Coverage(records, rules).review = Cardinality({r \in records : r.eligibility = "review_relevant"})

(* Not so in the code: a skeleton whose rows have three texts, or one but   *)
(* for its parameters, gives parts the file cannot be loaded with           *)
(* (offline.py:1600 wants two).                                             *)
AllMinedLoad(mined) == \A c \in mined : Loads(c)
=============================================================================
