-------------------------- MODULE DecisionPackages --------------------------
(***************************************************************************)
(* DecisionPackage-2.0: atoms of work whose pairs somebody attested to be   *)
(* the same decision are clustered (clustering.py), and the clusters are    *)
(* put together to the fewest packages in which every pair is attested      *)
(* (optimizer.py), so that no chain of pairs decides for a pair nobody saw. *)
(*                                                                         *)
(* An atom is [id, boundary, critical, typed, blocked]; a boundary [ref,    *)
(* known, unitsFit].  Of the pairs there are, constraints[{i, j}] is        *)
(* [relation, context, blocked], its context None when nobody attested it.  *)
(* A policy is [atoms, families, pairs, context]: the limits of a package   *)
(* and the context attestations must come from.                            *)
(***************************************************************************)
EXTENDS Integers, FiniteSets, Sequences, SequencesExt, FiniteSetsExt

CONSTANT None

-----------------------------------------------------------------------------
Signature(a)   == <<a.critical, a.typed>>
Pair(a, b)     == {a.id, b.id}
CanBeSafe(boundary) == boundary.known /\ boundary.unitsFit

\* PairConstraint.is_compatible, and in the context of a policy.
Compatible(constraints, pair) ==
  /\ pair \in DOMAIN constraints
  /\ LET c == constraints[pair] IN c.relation = "must_link" /\ c.context # None /\ ~c.blocked
InContext(constraints, pair, policy) ==
  Compatible(constraints, pair) /\ constraints[pair].context = policy.context

\* The first n atoms by id, the next n, ...
Chunks(atoms, n) ==
  LET place(a) == Cardinality({b \in atoms : b.id < a.id}) \div n
  IN  {{a \in atoms : place(a) = k} : k \in {place(a) : a \in atoms}}

\* cluster_atoms: what may be put together, by itself, and what a person decides.
Cohorts(atoms) ==
  LET key(a) == IF CanBeSafe(a.boundary) THEN <<a.boundary, Signature(a)>> ELSE <<a.boundary>>
  IN  {{a \in atoms : key(a) = k} : k \in {key(a) : a \in atoms}}
Clusterable(cohort, constraints) ==
  /\ \A a \in cohort : CanBeSafe(a.boundary) /\ ~a.blocked
  /\ \E a, b \in cohort : a # b /\ Compatible(constraints, Pair(a, b))
CandidateFamilies(atoms, constraints) ==
  {{a} : a \in UNION {c \in Cohorts(atoms) : Clusterable(c, constraints)}}
ManualFamilies(atoms, constraints, limit) ==
  UNION {Chunks(c, limit) : c \in {c \in Cohorts(atoms) : ~Clusterable(c, constraints)}}

\* CandidateFamily.__post_init__: a family of two signatures is refused.
Accepted(families) == \A f \in families : \A a, b \in f : Signature(a) = Signature(b)

-----------------------------------------------------------------------------
(* _select_optimal_partition, of families: a sequence, in any order.       *)

Pairs(n) == (n * (n - 1)) \div 2
Fits(n, policy) == n <= policy.atoms /\ Pairs(n) <= policy.pairs

\* _split_oversized_families
Split(families, policy) ==
  UNION {Chunks(f, Max({n \in 1..policy.atoms : n = 1 \/ Pairs(n) <= policy.pairs})) : f \in families}

\* _families_can_share
CanShare(f, g, constraints, policy) ==
  \A a \in f, b \in g : /\ a.boundary = b.boundary /\ Signature(a) = Signature(b)
                        /\ InContext(constraints, Pair(a, b), policy)

\* Bug: a family joins a package when it can share with the first of it.
ChoicesByFirst(first, available, families, constraints, policy) ==
  {{first} \cup more : more \in {more \in SUBSET available :
     /\ \A i \in more : CanShare(families[i], families[first], constraints, policy)
     /\ Cardinality(more) < policy.families
     /\ Fits(Cardinality(UNION {families[i] : i \in more \cup {first}}), policy)}}

\* _package_choices
PackageChoices(first, available, families, constraints, policy) ==
  {{first} \cup more : more \in {more \in SUBSET available :
     /\ \A i, j \in more \cup {first} : i # j => CanShare(families[i], families[j], constraints, policy)
     /\ Cardinality(more) < policy.families
     /\ more # {} => Fits(Cardinality(UNION {families[i] : i \in more \cup {first}}), policy)}}

Before(s, t, Less(_, _)) ==
  \E i \in 1..Len(t) : /\ i <= Len(s) + 1 /\ \A j \in 1..(i - 1) : s[j] = t[j]
                       /\ i = Len(s) + 1 \/ Less(s[i], t[i])
\* _partition_key: fewest packages, then the first by their atoms.
GroupKey(group, families) == SetToSortSeq({a.id : a \in UNION {families[i] : i \in group}}, <)
EarlierGroup(s, t) == Before(s, t, <)
PartitionKey(partition, families) ==
  SetToSortSeq({GroupKey(g, families) : g \in partition}, EarlierGroup)
EarlierKey(p, q) == Len(p) < Len(q) \/ (Len(p) = Len(q) /\ Before(p, q, EarlierGroup))
Better(P, Q, families) == EarlierKey(PartitionKey(P, families), PartitionKey(Q, families))
BestOf(partitions, families) == CHOOSE P \in partitions : \A Q \in partitions \ {P} : Better(P, Q, families)

\* Bug: the largest package the first family can be in is taken.
SolvedGreedily(families, constraints, policy) ==
  LET solve[remaining \in SUBSET DOMAIN families] ==
        IF remaining = {} THEN {}
        ELSE LET first == Min(remaining)
                 choices == PackageChoices(first, remaining \ {first}, families, constraints, policy)
                 choice == CHOOSE c \in choices : \A d \in choices : Cardinality(d) <= Cardinality(c)
             IN  {choice} \cup solve[remaining \ choice]
  IN  solve[DOMAIN families]

\* solve: the package of the first family left, then the best of the rest.
Solved(families, constraints, policy) ==
  LET solve[remaining \in SUBSET DOMAIN families] ==
        IF remaining = {} THEN {}
        ELSE LET first == Min(remaining)
                 choices == PackageChoices(first, remaining \ {first}, families, constraints, policy)
             IN  BestOf({{choice} \cup solve[remaining \ choice] : choice \in choices}, families)
  IN  solve[DOMAIN families]

-----------------------------------------------------------------------------
(* optimize_packages                                                       *)

AtomsIn(indices, families) == UNION {families[i] : i \in indices}

\* Bug: what is left alone is an outlier also when nothing is packed.
OutliersAlways(alone, packages) == alone

\* Lone atoms are outliers of the packages there are; without any, a person's.
Outliers(alone, packages) == IF packages = {} THEN {} ELSE alone

Arranged(groups, manual) ==
  LET packages == {g \in groups : Cardinality(g) > 1}
      alone == UNION {g \in groups : Cardinality(g) = 1}
      outliers == Outliers(alone, packages)
  IN  [packages |-> packages, manual |-> manual \cup {{a} : a \in alone \ outliers}, outliers |-> outliers,
       \* _attach_outlier_paths: outliers without a package or a manual family are refused.
       accepted |-> outliers = {} \/ packages # {} \/ manual # {}]
Optimized(families, manual, constraints, policy) ==
  Arranged({AtomsIn(g, families) : g \in Solved(families, constraints, policy)}, manual)

\* From the atoms to the packages, the families in some order.
PackagesOf(atoms, constraints, policy, limit) ==
  LET candidates == Split(CandidateFamilies(atoms, constraints), policy)
      manual == ManualFamilies(atoms, constraints, limit)
  IN  Optimized(SetToSeq(candidates), manual, constraints, policy)

-----------------------------------------------------------------------------
(* Properties of one input.                                                *)

\* The search takes the package of the first family left and never looks back,
\* in whatever order the families' digests put them; its result is still the
\* best of all partitions into packages whose families share pairwise and fit
\* the policy, and does not depend on that order.
PartitionIsOptimal(families, constraints, policy) ==
  LET ids == DOMAIN families
      good(group) ==
        /\ \A i, j \in group : i # j => CanShare(families[i], families[j], constraints, policy)
        /\ Cardinality(group) <= policy.families
        /\ Cardinality(group) > 1 => Fits(Cardinality(AtomsIn(group, families)), policy)
      partitions == {{{i \in ids : label[i] = k} : k \in Range(label)} : label \in [ids -> ids]}
      all == {P \in partitions : \A g \in P : good(g)}
  IN  Solved(families, constraints, policy) = BestOf(all, families)

\* A package is decided as one: every pair in it is attested in the context of
\* the policy, in one known boundary, with one signature, within the limits.
PackagesAreAttested(constraints, policy, result) ==
  \A package \in result.packages :
    /\ Fits(Cardinality(package), policy) /\ Cardinality(package) <= policy.families
    /\ \A x \in package : CanBeSafe(x.boundary) /\ ~x.blocked
    /\ \A x, y \in package : x # y => /\ x.boundary = y.boundary /\ Signature(x) = Signature(y)
                                      /\ InContext(constraints, {x.id, y.id}, policy)

\* No atom is lost or decided twice: each is in one package, left to a person or
\* shown as an outlier, and the result is never refused for an outlier nobody shows.
EveryAtomOnce(atoms, constraints, limit, result) ==
  LET places(x) == Cardinality({p \in result.packages : x \in p}) + Cardinality({m \in result.manual : x \in m})
                   + (IF x \in result.outliers THEN 1 ELSE 0)
  IN  Accepted(ManualFamilies(atoms, constraints, limit)) => result.accepted /\ \A x \in atoms : places(x) = 1

\* Clustering returns.  The code does not satisfy it: atoms of one boundary that
\* cannot be safe become one manual family whatever their signatures are
\* (clustering.py:139), and such a family is refused.
ClusteringReturns(atoms, constraints, limit) == Accepted(ManualFamilies(atoms, constraints, limit))
=============================================================================
