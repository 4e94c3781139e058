-------------------------- MODULE CompoundProofs --------------------------
(***************************************************************************)
(* Proofs about Compound, for any exports and any options on them.         *)
(*                                                                         *)
(* changed is what the last operation did and nothing else survives in it, *)
(* but whose export a change falls in depends on where the handles are: as *)
(* long as no path has led out, inside the export of their entry.  So the  *)
(* inductive invariant is the protections with HandlesInsideRoot, and every *)
(* operation is shown to keep them all.                                    *)
(***************************************************************************)
EXTENDS Compound, TLAPS

Protected ==
    /\ TypeOK
    /\ HandlesInsideRoot
    /\ OneHandleKeepsReadOnly
    /\ SquashedRootChangesNothing

Status == {"OK", "NOFILEHANDLE", "RESTOREFH", "STALE", "BADHANDLE", "ROFS", "PERM", "NOENT", "OTHER"}

Placed(fh) == fh \in FileFh => joined \/ Contains(fh.root, fh.spot.tree)

\* What the protections ask of one change, made by a step that leaves sav saved.
Allowed(c, sav, out) ==
    /\ sav = NoFh =>
          /\ c.root \notin ReadOnly
          /\ c.tree \in ReadOnly => joined \/ out \/ <<c.root, c.tree>> \in Inner
    /\ uid = "root" /\ c.by = "current" =>
          /\ c.root \notin RootSquash
          /\ c.tree \in RootSquash => joined \/ out \/ <<c.root, c.tree>> \in Inner

LEMMA Handed ==
    ASSUME TypeOK, HandlesInsideRoot
    PROVE  /\ current \in Fh \cup {NoFh} /\ Placed(current)
           /\ saved \in Fh \cup {NoFh} /\ Placed(saved)
           /\ joined \in BOOLEAN
BY DEF TypeOK, HandlesInsideRoot, Placed

\* Every reply, whatever it says and changes.
LEMMA ReplyStep ==
    ASSUME TypeOK, NEW s \in Status, NEW cur \in Fh \cup {NoFh}, NEW sav \in Fh \cup {NoFh},
           NEW ch \in SUBSET Change, NEW out \in BOOLEAN,
           out \/ (Placed(cur) /\ Placed(sav)),
           \A c \in ch : Allowed(c, sav, out),
           Reply(s, cur, sav, ch, out)
    PROVE  Protected'
<1>1. TypeOK'
  BY DEF TypeOK, Reply, Status
<1>2. HandlesInsideRoot'
  BY DEF TypeOK, Reply, HandlesInsideRoot, Placed
<1>3. OneHandleKeepsReadOnly'
  BY DEF TypeOK, Reply, OneHandleKeepsReadOnly, Allowed
<1>4. SquashedRootChangesNothing'
  BY DEF TypeOK, Reply, SquashedRootChangesNothing, Allowed
<1> QED  BY <1>1, <1>2, <1>3, <1>4 DEF Protected

\* A step that changes no file.
LEMMA QuietStep ==
    ASSUME TypeOK, NEW s \in Status, NEW cur \in Fh \cup {NoFh}, NEW sav \in Fh \cup {NoFh},
           NEW out \in BOOLEAN, out \/ (Placed(cur) /\ Placed(sav)),
           Reply(s, cur, sav, {}, out)
    PROVE  Protected'
BY ReplyStep

LEMMA FailStep ==
    ASSUME TypeOK, HandlesInsideRoot, NEW s \in Status, Fail(s) PROVE Protected'
BY Handed, QuietStep DEF Fail

\* A name that does not lead out leads into the root of the directory's handle.
LEMMA NamedInside ==
    ASSUME NEW fh \in FileFh, Placed(fh), NEW t \in Named(fh)
    PROVE  /\ t.spot \in Spot /\ t.out \in BOOLEAN
           /\ t.out \/ joined \/ Contains(fh.root, t.spot.tree)
<1>1. fh.root \in Export /\ fh.spot \in Spot
  BY DEF FileFh
<1>2. t.spot \in Spot /\ t.out \in BOOLEAN /\ (t.out \/ t.spot \in Children(fh.spot))
  BY <1>1 DEF Named, Children, Spot
<1>3. ASSUME ~joined, t.spot \in Children(fh.spot) PROVE Contains(fh.root, t.spot.tree)
  <2>1. Contains(fh.root, fh.spot.tree)
    BY <1>3 DEF Placed
  <2>2. fh.spot.tree \in Export
    BY <1>1, <2>1, ConstantsAssumption DEF Contains
  <2>3. t.spot.tree = fh.spot.tree \/ (t.spot.tree \in Export /\ <<fh.spot.tree, t.spot.tree>> \in Inner)
    BY <1>3, <2>2, ConstantsAssumption DEF Children
  <2> QED  BY <1>1, <2>1, <2>2, <2>3, ConstantsAssumption DEF Contains
<1> QED  BY <1>2, <1>3

\* The handle get_or_create_fh gives out for what lies inside the root it is given.
LEMMA HandleGiven ==
    ASSUME NEW root, NEW s, NEW out \in BOOLEAN, NEW fh \in Handles(root, s),
           joined \/ out \/ Contains(root, s.tree)
    PROVE  fh \in Fh /\ (out \/ Placed(fh))
BY DEF Handles, Placed, Fh

\* A change through the current handle, when its export is writable (or there is a
\* saved handle) and does not squash the caller.
LEMMA CurrentAllowed ==
    ASSUME Resolves(current), NEW op \in WriteOpcode, ~Squashed(op),
           ~IsReadOnly(current) \/ saved # NoFh,
           NEW s \in Spot, NEW out \in BOOLEAN,
           out \/ joined \/ Contains(current.root, s.tree)
    PROVE  /\ By(op, "current", current, s) \in Change
           /\ Allowed(By(op, "current", current, s), saved, out)
<1>1. current.root \in Export /\ current # NoFh
  BY ConstantsAssumption DEF Resolves, FileFh, Fh
<1>2. s.tree \in Export \cup {Outside}
  BY DEF Spot
<1>3. uid = "root" => current.root \notin RootSquash
  BY <1>1 DEF Squashed, ShouldSquashRoot
<1>4. saved = NoFh => current.root \notin ReadOnly
  BY DEF IsReadOnly
<1>5. out \/ joined \/ s.tree = current.root \/ <<current.root, s.tree>> \in Inner
  BY DEF Contains
<1> QED  BY <1>1, <1>2, <1>3, <1>4, <1>5 DEF By, Change, Allowed

\* A change through the saved handle: neither protection speaks of it.
LEMMA SavedAllowed ==
    ASSUME Resolves(saved), NEW op \in WriteOpcode, NEW s \in Spot, NEW out
    PROVE  /\ By(op, "saved", saved, s) \in Change
           /\ Allowed(By(op, "saved", saved, s), saved, out)
<1>1. saved.root \in Export /\ saved # NoFh /\ s.tree \in Export \cup {Outside}
  BY ConstantsAssumption DEF Resolves, FileFh, Fh, Spot
<1> QED  BY <1>1 DEF By, Change, Allowed

LEMMA LookupProtected == ASSUME TypeOK, HandlesInsideRoot, Lookup PROVE Protected'
<1>1. ASSUME NEW e \in Export, NEW fh \in Handles(e, [tree |-> e, place |-> "top"]), Ok(fh, saved)
      PROVE  Protected'
  <2>1. fh \in Fh /\ Placed(fh)
    BY HandleGiven DEF Contains
  <2> QED  BY <1>1, <2>1, Handed, QuietStep DEF Ok, Status
<1>2. ASSUME Resolves(current),
             NEW s \in Children(current.spot) \cup {t \in Spot : Contains(current.root, t.tree)},
             NEW fh \in Handles(current.root, s), Ok(fh, saved)
      PROVE  Protected'
  <2>1. s \in Children(current.spot) => [spot |-> s, out |-> FALSE] \in Named(current)
    BY DEF Named
  <2>2. joined \/ Contains(current.root, s.tree)
    BY <1>2, <2>1, Handed, NamedInside DEF Resolves
  <2>3. fh \in Fh /\ Placed(fh)
    BY <2>2, HandleGiven
  <2> QED  BY <1>2, <2>3, Handed, QuietStep DEF Ok, Status
<1> QED  BY <1>1, <1>2, FailStep DEF Lookup, Status

LEMMA LookuppProtected == ASSUME TypeOK, HandlesInsideRoot, Lookupp PROVE Protected'
<1>1. ASSUME Resolves(current), NEW s \in Parent(current), NEW fh \in Handles(current.root, s),
             Ok(fh, saved)
      PROVE  Protected'
  <2>1. fh \in Fh /\ Placed(fh)
    BY HandleGiven DEF Parent
  <2> QED  BY <1>1, <2>1, Handed, QuietStep DEF Ok, Status
<1>2. ASSUME Ok(RootFh, saved) PROVE Protected'
  BY <1>2, Handed, QuietStep, ConstantsAssumption DEF Ok, Status, Placed, Fh
<1> QED  BY <1>1, <1>2, FailStep DEF Lookupp, Status

LEMMA MovesProtected ==
    ASSUME TypeOK, HandlesInsideRoot,
           \/ FailOtherwise \/ Putrootfh \/ (\E fh \in Fh : Putfh(fh))
           \/ Savefh \/ Restorefh \/ Look \/ NoHandle
    PROVE  Protected'
<1>1. ASSUME FailOtherwise \/ Look \/ NoHandle PROVE Protected'
  <2>1. Ok(current, saved) \/ \E s \in Status : Fail(s)
    BY <1>1
    DEF FailOtherwise, Look, LookAt, KeepBoth, Resolved, Getfh, Getattr, Access, Lockt, Read,
        ReadPlus, Seek, Readlink, Verify, Readdir, NoHandle, Status
  <2>2. CASE Ok(current, saved)
    BY <2>2, Handed, QuietStep DEF Ok, Status
  <2> QED  BY <2>1, <2>2, FailStep
<1>2. ASSUME Putrootfh \/ Savefh \/ Restorefh PROVE Protected'
  <2>1. Placed(RootFh) /\ RootFh \in Fh
    BY ConstantsAssumption DEF Placed, Fh
  <2>2. \/ \E cur, sav \in {RootFh, current, saved} : Ok(cur, sav)
        \/ \E s \in Status : Fail(s)
    BY <1>2 DEF Putrootfh, Savefh, Restorefh, Status
  <2>3. ASSUME NEW cur \in {RootFh, current, saved}, NEW sav \in {RootFh, current, saved},
               Ok(cur, sav)
        PROVE  Protected'
    BY <2>1, <2>3, Handed, QuietStep DEF Ok, Status
  <2> QED  BY <2>2, <2>3, FailStep
<1>3. ASSUME NEW fh \in Fh, Putfh(fh) PROVE Protected'
  <2>1. CASE Ok(fh, saved) /\ Placed(fh)
    BY <2>1, Handed, QuietStep DEF Ok, Status
  <2> QED  BY <1>3, <2>1, FailStep DEF Putfh, Placed, Status
<1> QED  BY <1>1, <1>2, <1>3

\* WRITE, SETATTR, COPY and CLONE: what the current handle names is changed.
LEMMA ChangingProtected ==
    ASSUME TypeOK, HandlesInsideRoot, NEW op \in WriteOpcode, Resolves(current), ~Squashed(op),
           ~IsReadOnly(current) \/ saved # NoFh, Changing(op)
    PROVE  Protected'
<1>1. PICK s \in {"OK", "OTHER"} :
         Reply(s, current, saved, {By(op, "current", current, current.spot)}, FALSE)
  BY DEF Changing
<1>2. current.spot \in Spot /\ (joined \/ Contains(current.root, current.spot.tree))
  BY Handed DEF Resolves, FileFh, Placed
<1>3. \A c \in {By(op, "current", current, current.spot)} :
         c \in Change /\ Allowed(c, saved, FALSE)
  BY <1>2, CurrentAllowed
<1>4. Placed(current) /\ Placed(saved) /\ s \in Status
  BY Handed DEF Status
<1> DEFINE ch == {By(op, "current", current, current.spot)}
<1> HIDE DEF ch
<1>5. ch \in SUBSET Change /\ \A c \in ch : Allowed(c, saved, FALSE)
  BY <1>3 DEF ch
<1>6. Reply(s, current, saved, ch, FALSE)
  BY <1>1 DEF ch
<1> QED  BY <1>4, <1>5, <1>6, Handed, ReplyStep

\* A step that changes at most what a name in the current directory leads to.
LEMMA NamedStep ==
    ASSUME TypeOK, HandlesInsideRoot, NEW op \in WriteOpcode, Resolves(current), ~Squashed(op),
           NEW t \in Named(current), NEW fh \in Handles(current.root, t.spot) \cup {current},
           NEW ch \in SUBSET {By(op, "current", current, t.spot)},
           ch = {} \/ ~IsReadOnly(current),
           Reply("OK", fh, saved, ch, t.out)
    PROVE  Protected'
<1>1. /\ t.spot \in Spot /\ t.out \in BOOLEAN
      /\ t.out \/ joined \/ Contains(current.root, t.spot.tree)
  BY Handed, NamedInside DEF Resolves
<1>2. fh \in Fh /\ (t.out \/ Placed(fh))
  BY <1>1, Handed, HandleGiven DEF Resolves, Fh
<1>3. ASSUME NEW c \in ch PROVE c \in Change /\ Allowed(c, saved, t.out)
  BY <1>1, <1>3, CurrentAllowed
<1> QED  BY <1>1, <1>2, <1>3, Handed, ReplyStep DEF Status

LEMMA OneHandleProtected ==
    ASSUME TypeOK, HandlesInsideRoot, Write \/ Setattr \/ Remove \/ Create PROVE Protected'
<1>1. {"WRITE", "SETATTR", "REMOVE", "CREATE"} \subseteq WriteOpcode
  BY DEF WriteOpcode
<1>2. CASE Write
  BY <1>1, <1>2, FailStep, ChangingProtected DEF Write, OnWritable, Status
<1>3. CASE Setattr
  BY <1>1, <1>3, FailStep, ChangingProtected DEF Setattr, OnWritable, Status
<1>4. CASE Remove
  <2>1. ASSUME Resolves(current), ~Squashed("REMOVE"), ~IsReadOnly(current),
               NEW t \in Named(current),
               Reply("OK", current, saved, {By("REMOVE", "current", current, t.spot)}, t.out)
        PROVE  Protected'
    BY <1>1, <2>1, NamedStep
  <2> QED  BY <1>4, <2>1, FailStep DEF Remove, OnWritable, Status
<1>5. CASE Create
  <2>1. ASSUME Resolves(current), ~Squashed("CREATE"), ~IsReadOnly(current),
               NEW t \in Named(current), NEW fh \in Handles(current.root, t.spot),
               Reply("OK", fh, saved, {By("CREATE", "current", current, t.spot)}, t.out)
        PROVE  Protected'
    BY <1>1, <2>1, NamedStep
  <2> QED  BY <1>5, <2>1, FailStep DEF Create, OnWritable, Status
<1> QED  BY <1>2, <1>3, <1>4, <1>5

LEMMA OpenProtected ==
    ASSUME TypeOK, HandlesInsideRoot, NEW create \in BOOLEAN, Open(create) PROVE Protected'
<1>1. "OPEN" \in WriteOpcode
  BY DEF WriteOpcode
<1>2. ASSUME Resolves(current), NEW fh \in Handles(current.root, current.spot), Ok(fh, saved)
      PROVE  Protected'
  <2>1. joined \/ Contains(current.root, current.spot.tree)
    BY <1>2, Handed DEF Resolves, Placed
  <2>2. fh \in Fh /\ Placed(fh)
    BY <2>1, HandleGiven
  <2> QED  BY <1>2, <2>2, Handed, QuietStep DEF Ok, Status
<1>3. ASSUME Resolves(current), ~Squashed("OPEN"), ~(create /\ IsReadOnly(current)),
             NEW t \in Named(current), NEW fh \in Handles(current.root, t.spot),
             NEW ch \in SUBSET {By("OPEN", "current", current, t.spot)},
             ch # {} => create, Reply("OK", fh, saved, ch, t.out)
      PROVE  Protected'
  BY <1>1, <1>3, NamedStep
<1> QED  BY <1>2, <1>3, FailStep DEF Open, Status

LEMMA TwoHandlesProtected ==
    ASSUME TypeOK, HandlesInsideRoot,
           Rename \/ Link \/ (\E op \in {"COPY", "CLONE"} : CopyOrClone(op))
    PROVE  Protected'
<1>1. {"RENAME", "LINK", "COPY", "CLONE"} \subseteq WriteOpcode
  BY DEF WriteOpcode
<1>2. Resolves(saved) => saved # NoFh
  BY ConstantsAssumption DEF Resolves, Fh
<1>3. CASE Rename
  <2>1. ASSUME Resolves(saved), Resolves(current), ~Squashed("RENAME"),
               NEW from \in Named(saved), NEW to \in Named(current),
               Reply("OK", current, saved,
                     {By("RENAME", "current", current, to.spot),
                      By("RENAME", "saved", saved, from.spot)}, from.out \/ to.out)
        PROVE  Protected'
    <3>1. /\ to.spot \in Spot /\ to.out \in BOOLEAN
          /\ to.out \/ joined \/ Contains(current.root, to.spot.tree)
          /\ from.spot \in Spot /\ from.out \in BOOLEAN
      BY <2>1, Handed, NamedInside DEF Resolves
    <3> DEFINE out == from.out \/ to.out
    <3>2. out \in BOOLEAN /\ (out \/ joined \/ Contains(current.root, to.spot.tree))
      BY <3>1
    <3> HIDE DEF out
    <3>3. /\ By("RENAME", "current", current, to.spot) \in Change
          /\ Allowed(By("RENAME", "current", current, to.spot), saved, out)
      BY <1>1, <1>2, <2>1, <3>1, <3>2, CurrentAllowed
    <3>4. /\ By("RENAME", "saved", saved, from.spot) \in Change
          /\ Allowed(By("RENAME", "saved", saved, from.spot), saved, out)
      BY <1>1, <2>1, <3>1, SavedAllowed
    <3>5. Reply("OK", current, saved,
                {By("RENAME", "current", current, to.spot),
                 By("RENAME", "saved", saved, from.spot)}, out)
      BY <2>1 DEF out
    <3> QED  BY <3>2, <3>3, <3>4, <3>5, Handed, ReplyStep DEF Status
  <2> QED  BY <1>3, <2>1, FailStep DEF Rename, Status
<1>4. CASE Link
  <2>1. ASSUME Resolves(saved), Resolves(current), ~Squashed("LINK"), NEW t \in Named(saved),
               Reply("OK", current, saved,
                     {By("LINK", "current", current, current.spot),
                      By("LINK", "saved", saved, t.spot)}, t.out)
        PROVE  Protected'
    <3>1. t.spot \in Spot /\ t.out \in BOOLEAN
      BY <2>1, Handed, NamedInside DEF Resolves
    <3>2. current.spot \in Spot /\ (joined \/ Contains(current.root, current.spot.tree))
      BY <2>1, Handed DEF Resolves, FileFh, Placed
    <3>3. /\ By("LINK", "current", current, current.spot) \in Change
          /\ Allowed(By("LINK", "current", current, current.spot), saved, t.out)
      BY <1>1, <1>2, <2>1, <3>1, <3>2, CurrentAllowed
    <3>4. /\ By("LINK", "saved", saved, t.spot) \in Change
          /\ Allowed(By("LINK", "saved", saved, t.spot), saved, t.out)
      BY <1>1, <2>1, <3>1, SavedAllowed
    <3> QED  BY <2>1, <3>1, <3>3, <3>4, Handed, ReplyStep DEF Status
  <2> QED  BY <1>4, <2>1, FailStep DEF Link, Status
<1>5. ASSUME NEW op \in {"COPY", "CLONE"}, CopyOrClone(op) PROVE Protected'
  BY <1>1, <1>2, <1>5, FailStep, ChangingProtected DEF CopyOrClone, Status
<1> QED  BY <1>3, <1>4, <1>5

LEMMA NextProtected == Protected /\ [Next]_vars => Protected'
<1> SUFFICES ASSUME Protected, [Next]_vars PROVE Protected'
  OBVIOUS
<1>1. TypeOK /\ HandlesInsideRoot
  BY DEF Protected
<1>2. CASE Begin
  BY <1>2, ConstantsAssumption
  DEF Begin, Protected, TypeOK, HandlesInsideRoot, OneHandleKeepsReadOnly,
      SquashedRootChangesNothing, Fh
<1>3. CASE Elsewhere
  BY <1>3 DEF Elsewhere, Protected, TypeOK, HandlesInsideRoot, OneHandleKeepsReadOnly,
              SquashedRootChangesNothing
<1>4. ASSUME NEW op, Stateful(op) PROVE Protected'
  BY <1>1, <1>4, Handed, QuietStep, FailStep DEF Stateful, Ok, Status
<1>5. CASE UNCHANGED vars
  BY <1>5 DEF vars, Protected, TypeOK, HandlesInsideRoot, OneHandleKeepsReadOnly,
              SquashedRootChangesNothing, Contains
<1> QED
  BY <1>1, <1>2, <1>3, <1>4, <1>5, MovesProtected, LookupProtected, LookuppProtected,
     OneHandleProtected, OpenProtected, TwoHandlesProtected DEF Next

LEMMA InitProtected == Init => Protected
BY ConstantsAssumption
DEF Init, Protected, TypeOK, HandlesInsideRoot, OneHandleKeepsReadOnly,
    SquashedRootChangesNothing, Fh

\* The permission checks of a compound hold of it at every step: the inductive
\* invariant.
THEOREM AlwaysProtected == Spec => []Protected
BY InitProtected, NextProtected, PTL DEF Spec

\* Both handles stay the pseudo-root, stale, or those of table entries, and every
\* change is of a tree that is there.
THEOREM CompoundTypeCorrect == Spec => []TypeOK
BY AlwaysProtected, PTL DEF Protected

\* Until a path that leads out of its directory is followed, handles stay inside the
\* export of their entry, for any nesting of the exports.
THEOREM HandlesStayInside == Spec => []HandlesInsideRoot
BY AlwaysProtected, PTL DEF Protected

\* With one filehandle nothing changes through a handle of a read-only export,
\* whatever the names, nor in such an export unless a path has led out of its
\* directory or the export lies inside another.
THEOREM OneHandle == Spec => []OneHandleKeepsReadOnly
BY AlwaysProtected, PTL DEF Protected

\* Root changes nothing through a current handle of an export that squashes it,
\* nor in such an export, with the same two exceptions for the latter.
THEOREM SquashedRoot == Spec => []SquashedRootChangesNothing
BY AlwaysProtected, PTL DEF Protected
=============================================================================
