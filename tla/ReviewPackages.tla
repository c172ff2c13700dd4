--------------------------- MODULE ReviewPackages ---------------------------
(***************************************************************************)
(* What an operator is asked to decide: the uploaded rows that show some    *)
(* activity, grouped by name (reconciliation_review/grouping.py), and the   *)
(* groups put together to families and packages                            *)
(* (reconciliation_grouping/packages.py).  A safe package is accepted with  *)
(* one click, so nothing in it may differ from what the click is about.     *)
(*                                                                         *)
(* A row is [id, name, unit, category, quantity, cost].  A name is the      *)
(* sequence of its parts: the work, then what is appended to it, "paren" for *)
(* "(...)", "dash" for "- ...", "word" for anything else; <<>> is no name.   *)
(* A lexicon maps a name to the work it tells of: [action, object, critical, *)
(* negative, typed].                                                        *)
(***************************************************************************)
EXTENDS Integers, FiniteSets, Sequences, SequencesExt, FiniteSetsExt

CONSTANT None   \* no unit, category, action, ... or number

-----------------------------------------------------------------------------
(* build_review_groups                                                     *)

\* Bug: whatever begins like a complete name is merged.
IsLonger(base, name) == IsStrictPrefix(base, name)

\* _is_variant: one parenthesis, or a dash and anything after it.
IsVariant(base, name) ==
  /\ IsStrictPrefix(base, name)
  /\ LET next == name[Len(base) + 1] IN next = "dash" \/ (next = "paren" /\ Len(name) = Len(base) + 1)

\* _merge_complete_prefix_groups, over the names of one unit, a name before what
\* begins with it: the base each name is grouped under.
Base(names) ==
  LET ordered == SetToSortSeq(names, LAMBDA m, n : Len(m) < Len(n))
      place(home, name) ==
        LET bases == {b \in DOMAIN home : home[b] = b /\ IsVariant(b, name)}
            first == CHOOSE b \in bases : \A c \in bases : Len(b) <= Len(c)
        IN  [n \in DOMAIN home \cup {name} |-> IF n # name THEN home[n] ELSE IF bases = {} THEN name ELSE first]
  IN  FoldLeft(place, [n \in {} |-> n], ordered)

\* _review_group: a category, when the rows that propose one agree.
ReviewGroup(name, unit, members) ==
  LET proposed == {r.category : r \in members} \ {None}
  IN  [name |-> name, unit |-> unit, members |-> members,
       category |-> IF Cardinality(proposed) = 1 THEN CHOOSE c \in proposed : TRUE ELSE None]

ReviewGroups(rows) ==
  LET named == {r \in rows : r.name # <<>>}
      base(u) == Base({r.name : r \in {r \in named : r.unit = u}})
      keys == UNION {{<<b, u>> : b \in Range(base(u))} : u \in {r.unit : r \in named}}
  IN  {ReviewGroup(k[1], k[2], {r \in named : r.unit = k[2] /\ base(k[2])[r.name] = k[1]}) : k \in keys}
      \cup {ReviewGroup(<<>>, r.unit, {r}) : r \in rows \ named}

\* partition_rows: rows of no quantity and no cost are not shown.
Visible(rows) == {r \in rows : ~(r.quantity = 0 /\ r.cost = 0)}

-----------------------------------------------------------------------------
(* build_reconciliation_packages                                           *)

Mode(group) == IF \E r \in group.members : r.quantity \notin {None, 0} THEN "quantity_cost" ELSE "cost_only"

\* extract_features; a unit is [text, family].
Features(group, lexicon) ==
  LET work == lexicon[group.name] IN
  [group |-> group, mode |-> Mode(group), action |-> work.action, object |-> work.object,
   critical |-> work.critical, negative |-> work.negative, typed |-> work.typed]

UnitFamily(group) == IF group.unit = None THEN "unknown" ELSE group.unit.family
PackageKey(f) == <<f.group.category, f.mode, UnitFamily(f.group), f.action, f.object>>
Known(f)      == f.action # None /\ f.object # None
\* Works of no known type are one family only under the same name.
FamilyKey(f)  == <<PackageKey(f), f.critical, f.typed, IF Known(f) THEN <<>> ELSE f.group.name>>

Incompatible == {{"installation", "cost"}, {"installation", "testing"}, {"laying", "testing"},
                 {"installation", "dismantling"}, {"power", "low_current"}}

\* hard_conflict, of two groups with the same package key.
HardConflict(f, g, negativePairs) ==
  LET labels == UNION {{h.action} \cup h.critical \cup h.negative : h \in {f, g}} IN
  \/ {f.group, g.group} \in negativePairs
  \/ f.mode = "quantity_cost" /\ (UnitFamily(f.group) = "unknown" \/ f.group.unit # g.group.unit)
  \/ \E pair \in Incompatible : pair \subseteq labels
  \/ f.critical # g.critical \/ f.typed # g.typed

\* What forbids a group whatever the others are.
Unfit(f, available) ==
  \/ f.group.category # None /\ f.group \in DOMAIN available /\ f.group.category \notin available[f.group]
  \/ f.mode = "quantity_cost" /\ UnitFamily(f.group) = "unknown"

\* Bug: the groups are looked at one by one only.
ExceptionsAlone(F, negativePairs, available) == {f \in F : Unfit(f, available)}

\* validate_hard_constraints: the groups that are exceptions.
Exceptions(F, negativePairs, available) ==
  {f \in F : \/ Unfit(f, available)
             \/ \E g \in F \ {f} : PackageKey(g) = PackageKey(f) /\ HardConflict(f, g, negativePairs)}

\* Bug: an exception is put aside and left in its family.
FamiliesAndExceptions(F, exceptions) ==
  {{f \in F : FamilyKey(f) = k} : k \in {FamilyKey(f) : f \in F}} \cup {{f} : f \in exceptions}

\* _build_families: an exception is a family of its own.
Families(F, exceptions) ==
  LET key(f) == <<FamilyKey(f), IF f \in exceptions THEN {f.group} ELSE {}>>
  IN  {{f \in F : key(f) = k} : k \in {key(f) : f \in F}}

\* Bug: one family without an exception makes its package safe.
PackagesAnySafe(F, exceptions) ==
  LET families == Families(F, exceptions)
      one(family) == CHOOSE f \in family : TRUE
      key(family) == <<PackageKey(one(family)), IF Known(one(family)) THEN {} ELSE family>>
  IN  {LET of == {family \in families : key(family) = k}
       IN  [families |-> of,
            safe |-> \E family \in of : /\ one(family).group.category # None
                                         /\ Known(one(family)) /\ family \cap exceptions = {}]
       : k \in {key(family) : family \in families}}

\* _build_packages: an unknown work is a package of its own.
Packages(F, exceptions) ==
  LET families == Families(F, exceptions)
      one(family) == CHOOSE f \in family : TRUE
      key(family) == <<PackageKey(one(family)),
                       IF ~Known(one(family)) THEN family
                       ELSE IF family \cap exceptions # {} THEN "manual" ELSE "safe">>
      of(k) == {family \in families : key(family) = k}
  IN  {[families |-> of(k),
        safe |-> \A family \in of(k) : /\ one(family).group.category # None
                                       /\ Known(one(family)) /\ family \cap exceptions = {}]
       : k \in {key(family) : family \in families}}

AllFeatures(groups, lexicon) == {Features(g, lexicon) : g \in groups}
PackagesOf(groups, lexicon, negativePairs, available) ==
  LET F == AllFeatures(groups, lexicon) IN Packages(F, Exceptions(F, negativePairs, available))
Clicked(package) == UNION package.families

-----------------------------------------------------------------------------
(* Properties of one upload.                                               *)

\* Every visible row is in one group.  Rows of a group have one unit, and names
\* that vary the one of them it bears; no two groups are left that would merge.
GroupsVaryOneName(rows) ==
  LET groups == ReviewGroups(rows) IN
  /\ \A r \in rows : Cardinality({g \in groups : r \in g.members}) = 1
  /\ \A g \in groups :
       /\ \E r \in g.members : r.name = g.name
       /\ \A r \in g.members : /\ r.unit = g.unit /\ IsPrefix(g.name, r.name)
                               /\ r.name # g.name => r.name[Len(g.name) + 1] # "word"
       /\ \A h \in groups \ {g} : g.unit = h.unit /\ g.name # <<>> => ~IsVariant(g.name, h.name) /\ g.name # h.name

\* A row uploaded too never separates two rows that were one group.  The code
\* does not satisfy it: "a (p)" groups "a (p) - d", but with an "a" among the rows
\* "a (p)" is grouped under "a", of which "a (p) - d" is no variant.
GroupsOnlyGrow(rows) ==
  \A r \in rows :
    \A g \in ReviewGroups(rows \ {r}) :
      \E h \in ReviewGroups(rows) : g.members \subseteq h.members

\* One click on a safe package decides groups of one category, mode, action and
\* object with the same modifiers, none of which conflicts with another or was
\* rejected for its unit or category.
SafePackagesAgree(groups, lexicon, negativePairs, available) ==
  \A p \in PackagesOf(groups, lexicon, negativePairs, available) : p.safe =>
    \A f, g \in Clicked(p) :
      /\ f.group.category = g.group.category /\ f.group.category # None /\ Known(f) /\ ~Unfit(f, available)
      /\ PackageKey(f) = PackageKey(g) /\ f.critical = g.critical /\ f.typed = g.typed
      /\ f # g => ~HardConflict(f, g, negativePairs)

\* Every group is in exactly one family of exactly one package.
EveryGroupOnce(groups, lexicon, negativePairs, available) ==
  LET packages == PackagesOf(groups, lexicon, negativePairs, available) IN
  \A g \in groups :
    Cardinality({x \in packages \X UNION {p.families : p \in packages} :
                   x[2] \in x[1].families /\ \E f \in x[2] : f.group = g}) = 1

\* A group that may be accepted by one click may be so without any of the others:
\* nothing becomes safe because something else was uploaded.
SafeWithoutOthers(groups, lexicon, negativePairs, available) ==
  LET safe(G) == UNION {{f.group : f \in Clicked(p)} :
                        p \in {p \in PackagesOf(G, lexicon, negativePairs, available) : p.safe}}
  IN  \A g \in groups : safe(groups) \ {g} \subseteq safe(groups \ {g})
=============================================================================
