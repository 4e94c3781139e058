------------------------------ MODULE Compound ------------------------------
(***************************************************************************)
(* One NFSv4 COMPOUND (src/src/nfs/nfs4.rs): the current and the saved     *)
(* filehandle, the operations that move them, the operations that change   *)
(* files, and who may change what: the read-only check (SEC-002) that each *)
(* handler makes by itself and the root_squash check (SEC-018) that the    *)
(* loop makes before it dispatches a write opcode.                         *)
(*                                                                         *)
(* The checks look at the export_root in a handle's table entry; where the *)
(* handle is on disk is another matter, for all handlers but LOOKUP join   *)
(* the name they are given to the directory's path as it stands (.., an    *)
(* absolute path, nothing at all) and the file system follows links.  What *)
(* it answers, and whether the arguments parse, is left open: see          *)
(* FailOtherwise.                                                          *)
(***************************************************************************)
EXTENDS Integers

CONSTANTS
    Export,     \* the exported trees
    ReadOnly,   \* those with options.read_only
    RootSquash, \* those with options.root_squash
    Inner,      \* pairs: the directory of the second lies inside the first
    Outside,    \* what is in no export
    NoFh,       \* no filehandle
    RootFh,     \* the pseudo-root: no path, no MAC
    StaleFh     \* a handle that does not resolve: unknown id or wrong MAC

\* Where a path leads: an export's own directory, something inside it (and
\* inside no export further down), or outside them all.
Spot == [tree: Export, place: {"top", "inside"}] \cup [tree: {Outside}, place: {"inside"}]

\* A handle that resolves: the export_root in its entry, and where its path leads.
FileFh == [root: Export, spot: Spot]
Fh == FileFh \cup {RootFh, StaleFh}

ASSUME ConstantsAssumption ==
    /\ ReadOnly \subseteq Export
    /\ RootSquash \subseteq Export
    /\ Inner \subseteq Export \X Export
    /\ \A d, e, f \in Export : <<d, e>> \in Inner /\ <<e, f>> \in Inner => <<d, f>> \in Inner
    /\ Outside \notin Export
    /\ NoFh \notin Fh
    /\ {RootFh, StaleFh} \cap FileFh = {}

VARIABLES
    uid,        \* the caller: "root" (AUTH_SYS uid 0) or "user"
    current,    \* current_fh
    saved,      \* saved_fh
    status,     \* status of the last operation; the compound ends when not "OK"
    changed,    \* what the last operation changed on disk
    joined      \* has a path that leads out of its directory been followed, by anyone?

vars == <<uid, current, saved, status, changed, joined>>

WriteOpcode == {"WRITE", "CREATE", "REMOVE", "SETATTR", "RENAME", "LINK", "OPEN", "COPY",
                "CLONE", "LOCK", "LOCKU", "CLOSE", "DELEGRETURN", "COMMIT"}

\* Which operation changed which tree, named by which filehandle, whose entry
\* says which export_root.
Change == [op: WriteOpcode, tree: Export \cup {Outside}, by: {"current", "saved"}, root: Export]

TypeOK ==
    /\ uid \in {"root", "user"}
    /\ current \in Fh \cup {NoFh}
    /\ saved \in Fh \cup {NoFh}
    /\ status \in {"OK", "NOFILEHANDLE", "RESTOREFH", "STALE", "BADHANDLE", "ROFS",
                   "PERM", "NOENT", "OTHER"}
    /\ changed \subseteq Change
    /\ joined \in BOOLEAN

Init ==
    /\ uid \in {"root", "user"}
    /\ current = NoFh
    /\ saved = NoFh
    /\ status = "OK"
    /\ changed = {}
    /\ joined = FALSE

-----------------------------------------------------------------------------

Resolves(fh) == fh \in FileFh

\* Both answer no for a handle whose export cannot be determined.
IsReadOnly(fh) == Resolves(fh) /\ fh.root \in ReadOnly
ShouldSquashRoot(fh) == Resolves(fh) /\ uid = "root" /\ fh.root \in RootSquash

Contains(root, tree) == tree = root \/ <<root, tree>> \in Inner

\* What is in the directory at a spot: the directory of an export may be.
Children(s) ==
    [tree: {s.tree}, place: {"inside"}]
        \cup {t \in Spot : t.place = "top" /\ (s.tree = Outside \/ <<s.tree, t.tree>> \in Inner)}

\* What a name can lead to when it is joined to a directory's path: a child, or,
\* with `out`, anything: the name is not one component, or a link goes there.
Named(fh) == [spot: Children(fh.spot), out: {FALSE}] \cup [spot: Spot, out: {TRUE}]

\* get_or_create_fh: a new entry has the export_root it is given; a path that has
\* an entry keeps the one that entry got when it was made.
Handles(root, s) ==
    {fh \in FileFh : fh.spot = s /\ (fh.root = root \/ joined \/ Contains(fh.root, s.tree))}

Reply(s, cur, sav, ch, out) ==
    /\ status = "OK"
    /\ status' = s
    /\ current' = cur
    /\ saved' = sav
    /\ changed' = ch
    /\ joined' = (joined \/ out)
    /\ UNCHANGED uid

Ok(cur, sav) == Reply("OK", cur, sav, {}, FALSE)
Fail(s) == Reply(s, current, saved, {}, FALSE)

\* Any operation: arguments that do not parse or a request that is cut short, a
\* file system that refuses, an operation that is not supported.
FailOtherwise == Fail("OTHER")

By(op, role, fh, s) == [op |-> op, tree |-> s.tree, by |-> role, root |-> fh.root]

\* A request on another connection, or of NFSv3, follows a path that leads out,
\* or the search of try_rebuild_fh follows a link that does.
Elsewhere ==
    /\ joined' = TRUE
    /\ UNCHANGED <<uid, current, saved, status, changed>>

\* The next request: handles do not outlive a compound.
Begin ==
    /\ uid' \in {"root", "user"}
    /\ current' = NoFh
    /\ saved' = NoFh
    /\ status' = "OK"
    /\ changed' = {}
    /\ UNCHANGED joined

-----------------------------------------------------------------------------
(* Operations that move the filehandles.                                   *)

Putrootfh == Ok(RootFh, saved)

\* Nothing is verified: a stale handle becomes the current one.  (An empty one
\* is BADHANDLE; that try_rebuild_fh does not make it resolve is FileHandles.)
Putfh(fh) ==
    \/ /\ fh \in FileFh => joined \/ Contains(fh.root, fh.spot.tree)
       /\ Ok(fh, saved)
    \/ Fail("BADHANDLE")

Savefh ==
    \/ current = NoFh /\ Fail("NOFILEHANDLE")
    \/ current # NoFh /\ Ok(current, current)

Restorefh ==
    \/ saved = NoFh /\ Fail("RESTOREFH")
    \/ saved # NoFh /\ Ok(saved, saved)

\* From the pseudo-root to an export by name or alias; from a directory to a
\* child, which need not exist: lookup_child hands out a handle all the same.
\* It takes one component only, and an existing child only if it is, links
\* resolved, inside the root of the directory's handle: anywhere in there.
Lookup ==
    \/ current = NoFh /\ Fail("NOFILEHANDLE")
    \/ current # NoFh /\ Fail("NOENT")
    \/ /\ current = RootFh
       /\ \E e \in Export : \E fh \in Handles(e, [tree |-> e, place |-> "top"]) : Ok(fh, saved)
    \/ /\ Resolves(current)
       /\ \E s \in Children(current.spot) \cup {t \in Spot : Contains(current.root, t.tree)} :
             \E fh \in Handles(current.root, s) : Ok(fh, saved)

\* The directory above.
Above(s) ==
    IF s.place = "inside" THEN {t \in Spot : t.tree = s.tree}
    ELSE {t \in Spot : t.tree = Outside \/ <<t.tree, s.tree>> \in Inner}

\* The parent must lie below the handle's export_root, which is told from the
\* paths as they are written: above a link is not above what it leads to, and a
\* path with .. in it may lead anywhere.
Parent(fh) == {s \in Spot : joined \/ Contains(fh.root, s.tree)}

LookuppAnywhere ==
    \/ current = NoFh /\ Fail("NOFILEHANDLE")
    \/ current = RootFh /\ Ok(RootFh, saved)
    \/ current = StaleFh /\ Fail("STALE")
    \/ /\ Resolves(current)
       /\ \E s \in Above(current.spot) : \E fh \in Handles(current.root, s) : Ok(fh, saved)

Lookupp ==
    \/ current = NoFh /\ Fail("NOFILEHANDLE")
    \/ current = RootFh /\ Ok(RootFh, saved)
    \/ current = StaleFh /\ Fail("STALE")
    \/ /\ Resolves(current)
       /\ current.spot = [tree |-> current.root, place |-> "top"] \/ joined
       /\ Fail("NOENT")
    \/ /\ Resolves(current)
       /\ \E s \in Parent(current) : \E fh \in Handles(current.root, s) : Ok(fh, saved)

\* Operations that look at the current filehandle and leave both as they are.
LookAt(answer) ==
    \/ current = NoFh /\ Fail("NOFILEHANDLE")
    \/ current # NoFh /\ answer

KeepBoth == Ok(current, saved)

\* These answer whatever the handle is: GETATTR of one that does not resolve
\* gives default attributes, ACCESS always grants everything.
Getfh == LookAt(KeepBoth)
Getattr == LookAt(KeepBoth)
Access == LookAt(KeepBoth)
Lockt == LookAt(KeepBoth)

Resolved == IF Resolves(current) THEN KeepBoth ELSE Fail("STALE")

\* These resolve it; a pseudo-root has nothing to read but its directory.
Read == LookAt(Resolved)
ReadPlus == LookAt(Resolved)
Seek == LookAt(Resolved)
Readlink == LookAt(Resolved)
Verify == LookAt(Resolved)
Readdir == LookAt(IF current = RootFh THEN KeepBoth ELSE Resolved)

Look ==
    \/ Getfh \/ Getattr \/ Access \/ Lockt
    \/ Read \/ ReadPlus \/ Seek \/ Readlink \/ Verify \/ Readdir

\* The operations on clients and sessions need no handle; see Sessions.
NoHandle == KeepBoth

-----------------------------------------------------------------------------
(* Operations on write opcodes.  root_squash is looked up by the current   *)
(* filehandle alone, before the handler runs.                              *)

SquashedExceptOpen(op) ==
    op \in WriteOpcode \ {"OPEN"} /\ current # NoFh /\ ShouldSquashRoot(current)

Squashed(op) == op \in WriteOpcode /\ current # NoFh /\ ShouldSquashRoot(current)

\* WRITE, SETATTR, COPY and CLONE may have changed the file before they fail.
Changing(op) ==
    \E s \in {"OK", "OTHER"} :
        Reply(s, current, saved, {By(op, "current", current, current.spot)}, FALSE)

\* An export's own directory cannot be written to as a file.
MaybeFile(fh) == fh.spot.place = "inside"

\* The preamble of the handlers that change what the current filehandle names:
\* the read-only check comes before the handle is resolved.
OnWritable(op, effect) ==
    IF Squashed(op) THEN Fail("PERM")
    ELSE \/ current = NoFh /\ Fail("NOFILEHANDLE")
         \/ IsReadOnly(current) /\ Fail("ROFS")
         \/ current \in {RootFh, StaleFh} /\ Fail("STALE")
         \/ Resolves(current) /\ ~IsReadOnly(current) /\ effect

WriteUnchecked ==
    IF Squashed("WRITE") THEN Fail("PERM")
    ELSE \/ current = NoFh /\ Fail("NOFILEHANDLE")
         \/ current \in {RootFh, StaleFh} /\ Fail("STALE")
         \/ Resolves(current) /\ MaybeFile(current) /\ Changing("WRITE")

Write == OnWritable("WRITE", MaybeFile(current) /\ Changing("WRITE"))
Setattr == OnWritable("SETATTR", Changing("SETATTR"))
Remove ==
    OnWritable("REMOVE",
        \E t \in Named(current) :
            Reply("OK", current, saved, {By("REMOVE", "current", current, t.spot)}, t.out))

\* CREATE moves on to the new object.
Create ==
    OnWritable("CREATE",
        \E t \in Named(current) : \E fh \in Handles(current.root, t.spot) :
            Reply("OK", fh, saved, {By("CREATE", "current", current, t.spot)}, t.out))

\* OPEN moves on to the file.  Only a create that finds no file changes the
\* disk, and only a create looks at the read-only flag.
Open(create) ==
    IF Squashed("OPEN") THEN Fail("PERM")
    ELSE \/ current = NoFh /\ Fail("NOFILEHANDLE")
         \/ current \in {RootFh, StaleFh} /\ Fail("STALE")
         \/ create /\ IsReadOnly(current) /\ Fail("ROFS")
         \/ /\ Resolves(current) /\ ~(create /\ IsReadOnly(current))
            /\ \/ Fail("NOENT")
               \/ \E fh \in Handles(current.root, current.spot) :
                     Ok(fh, saved)         \* an empty name opens the directory itself
               \/ \E t \in Named(current) : \E fh \in Handles(current.root, t.spot) :
                     \E ch \in SUBSET {By("OPEN", "current", current, t.spot)} :
                         /\ ch # {} => create
                         /\ Reply("OK", fh, saved, ch, t.out)

\* CLOSE, COMMIT, LOCK, LOCKU, DELEGRETURN: no file changes.
Stateful(op) ==
    IF Squashed(op) THEN Fail("PERM")
    ELSE Ok(current, saved) \/ (current = NoFh /\ Fail("NOFILEHANDLE"))

\* RENAME from the saved directory to the current one; the read-only flag of
\* the directory the file leaves is not looked at.
Rename ==
    IF Squashed("RENAME") THEN Fail("PERM")
    ELSE \/ saved = NoFh /\ Fail("RESTOREFH")
         \/ /\ saved # NoFh
            /\ \/ IsReadOnly(current) /\ Fail("ROFS")
               \/ current = NoFh /\ Fail("NOFILEHANDLE")
               \/ /\ current # NoFh /\ ~IsReadOnly(current)
                  /\ ~(Resolves(saved) /\ Resolves(current)) /\ Fail("STALE")
               \/ /\ Resolves(saved) /\ Resolves(current) /\ ~IsReadOnly(current)
                  /\ \/ Fail("NOENT")
                     \/ \E from \in Named(saved), to \in Named(current) :
                           Reply("OK", current, saved,
                                 {By("RENAME", "current", current, to.spot),
                                  By("RENAME", "saved", saved, from.spot)},
                                 from.out \/ to.out)

\* LINK of the current file into the saved directory, the only one checked.
\* The link count of the current file changes too.
Link ==
    IF Squashed("LINK") THEN Fail("PERM")
    ELSE \/ (current = NoFh \/ saved = NoFh) /\ Fail("NOFILEHANDLE")
         \/ current # NoFh /\ IsReadOnly(saved) /\ Fail("ROFS")
         \/ /\ NoFh \notin {current, saved} /\ ~IsReadOnly(saved)
            /\ ~(Resolves(saved) /\ Resolves(current)) /\ Fail("STALE")
         \/ /\ Resolves(saved) /\ Resolves(current) /\ ~IsReadOnly(saved)
            /\ \/ Fail("STALE")
               \/ /\ MaybeFile(current)
                  /\ \E t \in Named(saved) :
                        Reply("OK", current, saved,
                              {By("LINK", "current", current, current.spot),
                               By("LINK", "saved", saved, t.spot)},
                              t.out)

\* COPY and CLONE write the current file from the saved one, without a check.
CopyOrClone(op) ==
    IF Squashed(op) THEN Fail("PERM")
    ELSE \/ (current = NoFh \/ saved = NoFh) /\ Fail("NOFILEHANDLE")
         \/ /\ NoFh \notin {current, saved}
            /\ ~(Resolves(saved) /\ Resolves(current)) /\ Fail("BADHANDLE")
         \/ /\ Resolves(saved) /\ Resolves(current)
            /\ MaybeFile(saved) /\ MaybeFile(current) /\ Changing(op)

Next ==
    \/ Begin \/ Elsewhere
    \/ FailOtherwise
    \/ Putrootfh
    \/ \E fh \in Fh : Putfh(fh)
    \/ Savefh \/ Restorefh \/ Lookup \/ Lookupp
    \/ Look \/ NoHandle
    \/ Write \/ Setattr \/ Remove \/ Create
    \/ \E create \in BOOLEAN : Open(create)
    \/ \E op \in {"CLOSE", "COMMIT", "LOCK", "LOCKU", "DELEGRETURN"} : Stateful(op)
    \/ Rename
    \/ Link
    \/ \E op \in {"COPY", "CLONE"} : CopyOrClone(op)

Spec == Init /\ [][Next]_vars

-----------------------------------------------------------------------------

\* SEC-001 and its siblings: until a path that leads out of its directory has been
\* followed, which LOOKUP and LOOKUPP never do, a handle names something inside
\* the export its entry belongs to, which is the one the checks look at.
HandlesInsideRoot ==
    ~joined => \A fh \in {current, saved} \cap FileFh : Contains(fh.root, fh.spot.tree)

\* With one filehandle nothing is changed through a handle of a read-only export,
\* wherever the name leads; nor is a read-only export itself, except when a path
\* that leads out of its directory has been followed (OPEN, CREATE, REMOVE and
\* the others join any name: nfs4.rs:1049, 1574, 1650, 1891, 2355), or when the
\* export lies inside that of the handle, whose options then decide.  RENAME,
\* LINK, COPY and CLONE take two handles and check at most one of them.
OneHandleKeepsReadOnly ==
    saved = NoFh => \A ch \in changed :
        /\ ch.root \notin ReadOnly
        /\ ch.tree \in ReadOnly => joined \/ <<ch.root, ch.tree>> \in Inner

\* Root changes nothing through a handle of an export that squashes it, nor that
\* export itself, with the same two exceptions; and except through the saved
\* directory of RENAME and LINK, which the check by the current filehandle does
\* not see.
SquashedRootChangesNothing ==
    uid = "root" => \A ch \in changed : ch.by = "current" =>
        /\ ch.root \notin RootSquash
        /\ ch.tree \in RootSquash => joined \/ <<ch.root, ch.tree>> \in Inner
=============================================================================
