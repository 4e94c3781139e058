-------------------------- MODULE ExportNamesProofs --------------------------
(***************************************************************************)
(* Proofs about ExportNames: for any number of exports, clients and words, *)
(* and any order of the map.                                               *)
(***************************************************************************)
EXTENDS ExportNames, WellFoundedInduction, TLAPS

-----------------------------------------------------------------------------
(* Resolution.                                                             *)

\* A set of numbers has a least one.
LEMMA LeastNumber ==
    ASSUME NEW T, T \subseteq Nat, T # {}
    PROVE  \E x \in T : \A y \in T : x <= y
<1> DEFINE Less == OpToRel(<, Nat)
<1>1. IsWellFoundedOn(Less, Nat)
  BY NatLessThanWellFounded
<1>2. PICK x \in T : \A y \in T : ~(<<y, x>> \in Less)
  <2> HIDE DEF Less
  <2> QED
    BY <1>1, WFMin
<1>3. ASSUME NEW y \in T PROVE x <= y
  <2>1. <<y, x>> \in Nat \X Nat /\ ~(y < x)
    BY <1>2 DEF OpToRel
  <2> QED
    BY <2>1
<1> QED
  BY <1>3

\* The first of some loaded exports is one of them.
LEMMA FirstIsOne ==
    ASSUME TypeOK, NEW es \in SUBSET loaded, es # {}
    PROVE  First(es) \in es
<1> DEFINE T == {rank[e] : e \in es}
<1>1. T \subseteq Nat /\ T # {}
  BY DEF TypeOK
<1>2. PICK x \in T : \A y \in T : x <= y
  <2> HIDE DEF T
  <2> QED
    BY <1>1, LeastNumber
<1>3. \E e \in es : \A f \in es : rank[e] <= rank[f]
  BY <1>2
<1> QED
  BY <1>3 DEF First

\* A name leads to a loaded export, or to none.
LEMMA ResolveLoaded ==
    ASSUME TypeOK, NEW n, Resolve(n) # NoExport
    PROVE  Resolve(n) \in loaded
<1>1. /\ ByAlias(n) \in SUBSET loaded
      /\ ByLastComponent(n) \in SUBSET loaded
      /\ ByPath(n) \in SUBSET loaded
  BY DEF ByAlias, ByLastComponent, ByPath
<1> QED
  BY <1>1, FirstIsOne DEF Resolve

\* An export that alone goes by an alias, or by a path, is the one found.
LEMMA ResolveAlone ==
    ASSUME TypeOK, NEW n, NEW e \in loaded,
           \/ ByAlias(n) = {e}
           \/ ByAlias(n) = {} /\ ByLastComponent(n) = {e}
           \/ ByAlias(n) = {} /\ ByLastComponent(n) = {} /\ ByPath(n) = {e}
    PROVE  Resolve(n) = e
<1>1. First({e}) = e
  BY FirstIsOne
<1> QED
  BY <1>1 DEF Resolve

\* An alias as it stands, or behind a slash, leads to its export.
LEMMA AliasResolves ==
    ASSUME TypeOK, DistinctAliases, NEW e \in loaded, alias[e] # NoName,
           NEW n \in {alias[e], Slashed(alias[e])}
    PROVE  Resolve(n) = e
<1>1. e \in Entry /\ n.word = alias[e].word
  BY DEF TypeOK, Slashed
<1>2. ASSUME NEW f \in ByAlias(n) PROVE f = e
  <2>1. f \in Entry /\ alias[f] # NoName /\ n.word = alias[f].word
    BY DEF ByAlias, Slashed, TypeOK
  <2> QED
    BY <1>1, <2>1 DEF DistinctAliases
<1>3. ByAlias(n) = {e}
  BY <1>2 DEF ByAlias
<1> QED
  BY <1>3, ResolveAlone

\* A full path leads to its export.
LEMMA PathResolves ==
    ASSUME TypeOK, DistinctAliases, PathsAreNotComponents, NEW e \in loaded
    PROVE  Resolve(Plain(PathOf[e])) = e
<1> DEFINE n == Plain(PathOf[e])
<1>1. e \in Entry /\ n.word = PathOf[e]
  BY DEF TypeOK, Plain
<1>2. ByAlias(n) = {}
  <2> SUFFICES ASSUME NEW f \in ByAlias(n) PROVE FALSE
    OBVIOUS
  <2>1. f \in Entry /\ alias[f] # NoName /\ n.word = alias[f].word
    BY DEF ByAlias, Slashed, TypeOK
  <2> QED
    BY <1>1, <2>1 DEF DistinctAliases
<1>3. ByLastComponent(n) = {}
  <2> SUFFICES ASSUME NEW f \in ByLastComponent(n) PROVE FALSE
    OBVIOUS
  <2>1. f \in Entry
    BY DEF ByLastComponent, TypeOK
  <2>2. n \in Name
    BY <1>1 DEF Plain, Name, Word, MaxSlashes
  <2>3. CASE n = Plain(dir[f])
    BY <1>1, <2>1, <2>3 DEF Plain, PathsAreNotComponents
  <2>4. CASE n = alias[f]
    <3>1. alias[f] # NoName
      BY <2>2, <2>4, ConstantsAssumption
    <3> QED
      BY <1>1, <2>1, <2>4, <3>1 DEF DistinctAliases
  <2> QED
    BY <2>3, <2>4 DEF ByLastComponent, Stripped, Plain
<1>4. ByPath(n) = {e}
  <2>1. ASSUME NEW f \in ByPath(n) PROVE f = e
    BY <1>1, ConstantsAssumption DEF ByPath, Plain, TypeOK
  <2> QED
    BY <2>1 DEF ByPath
<1> QED
  BY <1>2, <1>3, <1>4, ResolveAlone

-----------------------------------------------------------------------------

\* The configuration is read and the map filled; handles are of loaded exports.
THEOREM TypeCorrect == Spec => []TypeOK
<1>1. Init => TypeOK
  BY DEF Init, TypeOK
<1>2. TypeOK /\ [Next]_vars => TypeOK'
  <2> SUFFICES ASSUME TypeOK, [Next]_vars
               PROVE  TypeOK'
    OBVIOUS
  <2> USE DEF TypeOK
  <2>1. CASE Load
    BY <2>1 DEF Load, config
  <2>2. ASSUME NEW c \in Client, NEW n \in Name, Mnt(c, n)
        PROVE  TypeOK'
    <3>1. Resolve(n) \in loaded
      BY <2>2, ResolveLoaded DEF Mnt, Hand
    <3> QED
      BY <2>2, <3>1 DEF Mnt, Hand, config, Given
  <2>3. ASSUME NEW c \in Client, NEW n \in Name, RootLookup(c, n)
        PROVE  TypeOK'
    <3> DEFINE e == Resolve(Plain(PathOf[Resolve(n)]))
    <3>1. e \in loaded
      BY <2>3, ResolveLoaded DEF RootLookup, Hand
    <3> QED
      BY <2>3, <3>1 DEF RootLookup, Hand, config, Given
  <2>4. CASE UNCHANGED vars
    BY <2>4 DEF vars, config
  <2> QED
    BY <2>1, <2>2, <2>3, <2>4 DEF Next
<1> QED
  BY <1>1, <1>2, PTL DEF Spec

-----------------------------------------------------------------------------

LEMMA ListedLemma == TypeOK => ListedMountsItself
<1> SUFFICES ASSUME TypeOK, DistinctAliases, PathsAreNotComponents,
                    NEW c \in Client, NEW e \in Listed(c)
             PROVE  Resolve(ExportName(e)) = e /\ c \in allowed[e]
  BY DEF ListedMountsItself
<1>1. e \in loaded /\ Resolve(Plain(PathOf[e])) = e
  BY PathResolves DEF Listed
<1>2. c \in allowed[e]
  BY <1>1 DEF Listed, IsClientAllowed
<1>3. Resolve(ExportName(e)) = e
  BY <1>1, AliasResolves DEF ExportName
<1> QED
  BY <1>2, <1>3

LEMMA AliasLemma == TypeOK => AliasLeadsToItsExport
BY AliasResolves DEF AliasLeadsToItsExport

LEMMA RootLemma == TypeOK => RootEntriesLeadToTheirExports
<1> SUFFICES ASSUME TypeOK, DistinctRootNames, PathsAreNotComponents, NEW e \in loaded
             PROVE  Resolve(RootEntryName(e)) = e /\ Resolve(Plain(PathOf[e])) = e
  BY DEF RootEntriesLeadToTheirExports
<1>1. DistinctAliases /\ e \in Entry
  BY DEF DistinctRootNames, TypeOK
<1>2. Resolve(Plain(PathOf[e])) = e
  BY <1>1, PathResolves
<1>3. CASE alias[e] # NoName
  BY <1>1, <1>2, <1>3, AliasResolves DEF RootEntryName
<1>4. CASE alias[e] = NoName
  <2> DEFINE n == Plain(dir[e])
  <2>1. n.word = dir[e] /\ n \in Name
    BY <1>1 DEF Plain, Name, Word, MaxSlashes, TypeOK
  <2>2. ASSUME NEW f \in loaded, alias[f] # NoName, alias[f].word = dir[e] PROVE FALSE
    BY <1>1, <1>4, <2>2 DEF DistinctRootNames, TypeOK
  <2>3. ByAlias(n) = {}
    BY <2>1, <2>2 DEF ByAlias, Slashed
  <2>4. ASSUME NEW f \in ByLastComponent(n) PROVE f = e
    <3>1. f \in loaded /\ f \in Entry
      BY DEF ByLastComponent, TypeOK
    <3>2. CASE n = Plain(dir[f])
      BY <1>1, <3>1, <3>2 DEF Plain, DistinctRootNames
    <3>3. CASE n = alias[f]
      BY <2>1, <2>2, <3>1, <3>3, ConstantsAssumption
    <3> QED
      BY <3>2, <3>3 DEF ByLastComponent, Stripped, Plain
  <2>5. ByLastComponent(n) = {e}
    BY <2>4 DEF ByLastComponent, Stripped, Plain
  <2>6. Resolve(n) = e
    BY <2>3, <2>5, ResolveAlone
  <2> QED
    BY <1>2, <1>4, <2>6 DEF RootEntryName
<1> QED
  BY <1>3, <1>4

\* What EXPORT tells a client of, it mounts by that name, and gets that export.
THEOREM ListedMount == Spec => []ListedMountsItself
BY TypeCorrect, ListedLemma, PTL

\* An alias leads to its export, with a slash in front and without.
THEOREM AliasesLead == Spec => []AliasLeadsToItsExport
BY TypeCorrect, AliasLemma, PTL

\* Every entry of the pseudo-root leads to its export.
THEOREM RootEntriesLead == Spec => []RootEntriesLeadToTheirExports
BY TypeCorrect, RootLemma, PTL

\* MOUNT gives handles to clients of the export only.
THEOREM MountsAllowed == Spec => []MountsOnlyAllowed
<1>1. Init => MountsOnlyAllowed
  BY DEF Init, MountsOnlyAllowed
<1>2. MountsOnlyAllowed /\ [Next]_vars => MountsOnlyAllowed'
  BY DEF MountsOnlyAllowed, Next, Load, Mnt, RootLookup, Hand, IsClientAllowed, vars, config
<1> QED
  BY <1>1, <1>2, PTL DEF Spec
=============================================================================
