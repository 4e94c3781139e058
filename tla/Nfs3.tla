-------------------------------- MODULE Nfs3 --------------------------------
(***************************************************************************)
(* The NFSv3 procedures (src/src/nfs/protocol.rs) over the file-handle     *)
(* table (src/src/exports.rs), with restarts of the server.  Every request *)
(* is answered by itself: there is no reply cache, so a retransmission is  *)
(* just another request.                                                   *)
(*                                                                         *)
(* A handle that resolves is the place on disk that the path in its table  *)
(* entry leads to, with the export_root in the entry (FileHandles).  LOOKUP *)
(* takes the name of a child, which may be a link into the export; the     *)
(* other procedures join any name (.., an absolute path, nothing at all)   *)
(* to the directory's path, which can lead anywhere, and follow any link.  *)
(* So one place can come to have entries under several paths.              *)
(*                                                                         *)
(* The handles of earlier starts do not resolve, whatever they named, and  *)
(* are all the one value Stale.  A handler reads the table and calls the   *)
(* file system without anything in between that another request could      *)
(* change under it (entries are never removed), so it is one step.  What   *)
(* the file system does is external; it may refuse any call.  A request    *)
(* that is cut short, or names an unknown procedure, gets no reply and     *)
(* changes nothing.                                                        *)
(***************************************************************************)
EXTENDS Integers, Sequences

SeqExt == INSTANCE SequencesExt

CONSTANTS
    Name,       \* names of files and directories
    Path,       \* the places on disk, in exports and elsewhere, as sequences of names
    Export,     \* those that are exported
    ReadOnly,   \* those with options.read_only
    NoRoot,     \* no entry, no export_root
    Stale,      \* a handle given out before the last restart
    MaxJoined   \* bound: how often a start is asked for anything but a child

ASSUME ConstantsAssumption ==
    /\ Path \subseteq Seq(Name)
    /\ Export \subseteq Path
    /\ ReadOnly \subseteq Export
    /\ NoRoot \notin Export
    /\ Stale \notin Path
    /\ MaxJoined \in Nat

VARIABLES
    disk,       \* what is at each path: nothing, a directory, a file without or with data
    table,      \* the export_root of each entry in the file-handle table, by place
    handles,    \* the places clients hold handles of
    joined,     \* how many requests of this start have named anything but a child
    reply       \* the last reply: to which call and, if it did something, about what

vars == <<disk, table, handles, joined, reply>>

Look3 == {"GETATTR", "ACCESS", "READLINK", "FSSTAT", "FSINFO", "PATHCONF", "COMMIT"}
Op == Look3 \cup
      {"MNT", "LOOKUP", "READ", "READDIR", "SETATTR", "WRITE", "CREATE", "MKDIR",
       "REMOVE", "RMDIR", "RENAME", "UNSUPPORTED", "NONE"}

\* root: what the first handle's entry says, and the read-only check looks at.
Reply == [op: Op, fhs: SUBSET (Path \cup {Stale}), root: Export \cup {NoRoot},
          path: Path \cup {Stale},
          status: {"OK", "NOENT", "IO", "ROFS", "NOTEMPTY", "STALE", "NOTSUPP"}, count: {0, 1}]

NoReply ==
    [op |-> "NONE", fhs |-> {}, root |-> NoRoot, path |-> Stale, status |-> "OK", count |-> 0]

TypeOK ==
    /\ disk \in [Path -> {"none", "dir", "empty", "data"}]
    /\ table \in [Path -> SUBSET Export]
    /\ handles \subseteq Path \cup {Stale}
    /\ \A p \in handles \ {Stale} : table[p] # {}
    /\ joined \in 0..MaxJoined
    /\ reply \in Reply

Init ==
    /\ disk = [p \in Path |-> IF p \in Export THEN "dir" ELSE "none"]
    /\ table = [p \in Path |-> {}]
    /\ handles = {}
    /\ joined = 0
    /\ reply = NoReply

-----------------------------------------------------------------------------
(* The file system, as the handlers use it.                                *)

IsFile(p) == disk[p] \in {"empty", "data"}
Within(p, q) == SeqExt!IsPrefix(p, q)
Children(p) == {q \in Path : Len(q) = Len(p) + 1 /\ Within(p, q)}
Ancestors(p) == {q \in Path : Within(q, p) /\ q # p}
InDirectory(p) == \A q \in Ancestors(p) : disk[q] = "dir"

FileCanBeMade(p) == InDirectory(p) /\ disk[p] # "dir"
DirCanBeMade(p) == \A q \in Ancestors(p) \cup {p} : ~IsFile(q)
Removed(p) == [disk EXCEPT ![p] = "none"]

\* create_dir_all: the directories above it are made as well.
DirMade(p) == [q \in Path |-> IF Within(q, p) THEN "dir" ELSE disk[q]]

\* What src names, and all below it, comes to be at dst, which is free, or a file
\* for a file, or an empty directory for a directory.
MovedTo(src, dst, q) == dst \o SubSeq(q, Len(src) + 1, Len(q))
CanMove(src, dst) ==
    /\ disk[src] # "none" /\ InDirectory(dst)
    /\ \/ disk[dst] = "none"
       \/ IsFile(src) /\ IsFile(dst)
       \/ disk[src] = "dir" /\ disk[dst] = "dir" /\ \A q \in Children(dst) : disk[q] = "none"
    /\ ~Within(src, dst) \/ src = dst
    /\ \A q \in Path : Within(src, q) /\ disk[q] # "none" => MovedTo(src, dst, q) \in Path
Moved(src, dst) ==
    [r \in Path |->
        IF \E q \in Path : Within(src, q) /\ disk[q] # "none" /\ r = MovedTo(src, dst, q)
        THEN disk[MovedTo(dst, src, r)]
        ELSE IF Within(src, r) THEN "none" ELSE disk[r]]

-----------------------------------------------------------------------------

Resolves(h) == h # Stale

\* What the entries of a handle's place say: of those made under several paths,
\* any may be the one that the handle is of.
Roots(h) == IF Resolves(h) THEN table[h] ELSE {NoRoot}

\* is_read_only answers no for a handle whose export cannot be determined.
IsReadOnly(r) == r \in ReadOnly

\* get_or_create_fh: the entry of a path stays as it is, with the export_root it
\* got when it was made.  A place that has an entry may be meant by another path,
\* which has none.
Enter(paths, r) ==
    \E again \in SUBSET paths :
        table' = [p \in Path |->
            IF p \in again \/ (p \in paths /\ table[p] = {}) THEN table[p] \cup {r} ELSE table[p]]

\* No procedure looks at the caller's uid, which has no part in the model.
Answer(op, fhs, r, path, status, count) ==
    reply' = [op |-> op, fhs |-> fhs, root |-> r, path |-> path, status |-> status, count |-> count]

\* What a reply was about matters when something was done.
Refuse(op, status) ==
    /\ Answer(op, {}, NoRoot, Stale, status, 0)
    /\ UNCHANGED <<disk, table, handles, joined>>

Joins(out) == joined' = IF out THEN joined + 1 ELSE joined

\* The handle of a path is given out, entered under root if it is new.
Give(op, fhs, r, path, root, out) ==
    /\ Joins(out)
    /\ Enter({path}, root)
    /\ handles' = handles \cup {path}
    /\ Answer(op, fhs, r, path, "OK", 0)

\* MOUNT's MNT of an export the client may mount, and may be told of.
Mnt(e) ==
    /\ Give("MNT", {}, NoRoot, e, e, FALSE)
    /\ UNCHANGED disk

\* The name need not exist; a child that exists must be inside the export_root,
\* links resolved, and may turn out not to be readable; of one that is missing,
\* the path as it is written must be.
Lookup(h, r, p) ==
    \/ /\ Resolves(h)
       /\ disk[p] # "none" => Within(r, p)
       /\ Give("LOOKUP", {h}, r, p, r, FALSE)
       /\ UNCHANGED disk
    \/ /\ ~Resolves(h) \/ disk[p] # "none" \/ joined > 0
       /\ Refuse("LOOKUP", "NOENT")

\* GETATTR answers the attributes of "." for a handle that does not resolve,
\* ACCESS grants everything, COMMIT does not look at its handle.
Look(op, h, r) == Refuse(op, "OK")

\* No data, and the end of the file, when the file cannot be read.
Read(h, r) ==
    \E n \in {0, 1} :
        /\ n = 1 => Resolves(h) /\ disk[h] = "data"
        /\ Answer("READ", {h}, r, h, "OK", n)
        /\ UNCHANGED <<disk, table, handles, joined>>

\* READDIR and READDIRPLUS: a listing, empty when the directory cannot be read.
\* Every entry is given a place in the table, though not in the reply.
Readdir(h, r) ==
    /\ Answer("READDIR", {h}, r, h, "OK", 0)
    /\ UNCHANGED <<disk, handles, joined>>
    /\ \/ UNCHANGED table
       \/ /\ Resolves(h) /\ disk[h] = "dir"
          /\ Enter({p \in Children(h) : disk[p] # "none"}, r)

\* SETATTR: nothing is set.
Setattr(h, r) == Refuse("SETATTR", IF IsReadOnly(r) THEN "ROFS" ELSE "OK")

\* MKNOD, SYMLINK and LINK.
Unsupported(h, r) == Refuse("UNSUPPORTED", "NOTSUPP")

WriteCountsAttempt(h, r) ==
    \/ IsReadOnly(r) /\ Refuse("WRITE", "ROFS")
    \/ ~Resolves(h) /\ Refuse("WRITE", "OK")
    \/ /\ Resolves(h) /\ ~IsReadOnly(r) /\ FileCanBeMade(h)
       /\ \E d \in {"data", disk[h]} : disk' = [disk EXCEPT ![h] = d]
       /\ Answer("WRITE", {h}, r, h, "OK", 1)
       /\ UNCHANGED <<table, handles, joined>>

\* The file is made if it is missing; what fails is answered OK with count 0,
\* though it may have made the file, or written part of the data.
Write(h, r) ==
    \/ IsReadOnly(r) /\ Refuse("WRITE", "ROFS")
    \/ ~Resolves(h) /\ Refuse("WRITE", "OK")
    \/ /\ Resolves(h) /\ ~IsReadOnly(r)
       /\ \E n \in {0, 1}, d \in {"data", "empty", disk[h]} :
             /\ n = 1 => d = "data"
             /\ d # disk[h] => FileCanBeMade(h)
             /\ d = "empty" => disk[h] \in {"none", "empty"}
             /\ n = 1 => FileCanBeMade(h)
             /\ disk' = [disk EXCEPT ![h] = d]
             /\ Answer("WRITE", {h}, r, h, "OK", n)
       /\ UNCHANGED <<table, handles, joined>>

\* What the procedures on a directory and a name in it do first.
InWritable(op, h, r, p, effect) ==
    \/ IsReadOnly(r) /\ Refuse(op, "ROFS")
    \/ ~Resolves(h) /\ Refuse(op, "STALE")
    \/ Resolves(h) /\ ~IsReadOnly(r) /\ effect

\* File::create empties a file that is there already, and its result is ignored.
\* The mode of the call is not read.
Create(h, r, p, out) ==
    InWritable("CREATE", h, r, p,
        /\ disk' \in {disk} \cup (IF FileCanBeMade(p) THEN {[disk EXCEPT ![p] = "empty"]} ELSE {})
        /\ Give("CREATE", {h}, r, p, r, out))

MkdirUnchecked(h, r, p, out) ==
    \/ ~Resolves(h) /\ Refuse("MKDIR", "STALE")
    \/ /\ Resolves(h)
       /\ disk' \in {disk} \cup (IF DirCanBeMade(p) THEN {DirMade(p)} ELSE {})
       /\ Give("MKDIR", {h}, r, p, r, out)

\* So is the result of create_dir_all.
Mkdir(h, r, p, out) ==
    InWritable("MKDIR", h, r, p,
        /\ disk' \in {disk} \cup (IF DirCanBeMade(p) THEN {DirMade(p)} ELSE {})
        /\ Give("MKDIR", {h}, r, p, r, out))

\* remove_file or remove_dir, if the name exists.
Unlink(op, h, r, p, out, possible, failure) ==
    InWritable(op, h, r, p,
        \/ disk[p] = "none" /\ Refuse(op, "NOENT")
        \/ disk[p] # "none" /\ Refuse(op, failure)
        \/ /\ possible
           /\ disk' = Removed(p)
           /\ Joins(out)
           /\ Answer(op, {h}, r, p, "OK", 0)
           /\ UNCHANGED <<table, handles>>)

Remove(h, r, p, out) == Unlink("REMOVE", h, r, p, out, IsFile(p), "IO")

Rmdir(h, r, p, out) ==
    Unlink("RMDIR", h, r, p, out,
           disk[p] = "dir" /\ \A q \in Children(p) : disk[q] = "none", "NOTEMPTY")

RenameOneHandle(h, r, p, to, q, out) ==
    \/ IsReadOnly(r) /\ Refuse("RENAME", "ROFS")
    \/ ~IsReadOnly(r) /\ ~Resolves(h) /\ Refuse("RENAME", "STALE")
    \/ /\ ~IsReadOnly(r) /\ Resolves(h) /\ CanMove(p, q)
       /\ disk' = Moved(p, q)
       /\ Joins(out)
       /\ Answer("RENAME", {h, to}, r, p, "OK", 0)
       /\ UNCHANGED <<table, handles>>

\* From a name in directory h to a name in directory `to`.  Only the first
\* handle's export is looked at.
Rename(h, r, p, to, q, out) ==
    \/ IsReadOnly(r) /\ Refuse("RENAME", "ROFS")
    \/ /\ ~IsReadOnly(r) /\ ~(Resolves(h) /\ Resolves(to))
       /\ Refuse("RENAME", "STALE")
    \/ ~IsReadOnly(r) /\ Resolves(h) /\ Resolves(to) /\ Refuse("RENAME", "IO")
    \/ /\ ~IsReadOnly(r) /\ Resolves(h) /\ Resolves(to) /\ CanMove(p, q)
       /\ disk' = Moved(p, q)
       /\ Joins(out)
       /\ Answer("RENAME", {h, to}, r, p, "OK", 0)
       /\ UNCHANGED <<table, handles>>

\* The server starts anew with another MAC key and an empty table.
Restart ==
    /\ table' = [p \in Path |-> {}]
    /\ handles' = IF handles = {} THEN {} ELSE {Stale}
    /\ joined' = 0
    /\ reply' = NoReply
    /\ UNCHANGED disk

\* The places that the name of a child can lead to, whatever h is a handle of; any
\* other name, and any link, can lead to all of them (`out`).
Named(h, out) == IF out \/ ~Resolves(h) THEN Path ELSE Children(h)

\* For LOOKUP a child that is a link leads to what is there in the export_root.
LookedUp(h, r) ==
    Named(h, FALSE) \cup {p \in Path : Resolves(h) /\ disk[p] # "none" /\ Within(r, p)}

Next ==
    \/ \E e \in Export : Mnt(e)
    \/ \E h \in handles : \E r \in Roots(h) :
          \/ \E op \in Look3 : Look(op, h, r)
          \/ Read(h, r) \/ Readdir(h, r) \/ Setattr(h, r) \/ Unsupported(h, r) \/ Write(h, r)
          \/ \E p \in LookedUp(h, r) : Lookup(h, r, p)
          \/ \E out \in {o \in BOOLEAN : o => joined < MaxJoined} : \E p \in Named(h, out) :
                \/ Create(h, r, p, out) \/ Mkdir(h, r, p, out)
                \/ Remove(h, r, p, out) \/ Rmdir(h, r, p, out)
                \/ \E to \in handles : \E q \in Named(to, out) : Rename(h, r, p, to, q, out)
    \/ Restart

Spec == Init /\ [][Next]_vars

-----------------------------------------------------------------------------

\* No export lies inside another.
Apart == \A e, f \in Export : Within(e, f) => e = f

Changes(exports) ==
    \E p \in Path, e \in exports : Within(e, p) /\ p # e /\ disk'[p] # disk[p]

\* Through a handle whose entry is of a read-only export nothing changes, whatever
\* the name (for RENAME, the handle of the directory the file leaves).  And where
\* no export lies inside another, what is below a read-only export changes by
\* RENAME alone, as long as requests name children only: CREATE, MKDIR, REMOVE,
\* RMDIR and RENAME join any name (protocol.rs:487, 529, 570, 604, 655).
OnlyRenameReachesReadOnly ==
    [][/\ disk' # disk => reply'.root \notin ReadOnly
       /\ Apart /\ Changes(ReadOnly) => reply'.op = "RENAME" \/ joined' > 0]_vars

\* A request on a handle of an earlier start changes nothing, even when its
\* other handle is a good one.
StaleChangesNothing == [][disk' # disk => Stale \notin reply'.fhs]_vars

\* What REMOVE or RMDIR answers OK has gone, and what WRITE says it wrote is in
\* the file, whatever else it did and whatever others asked for before.
AnswersTrue ==
    /\ reply.status = "OK" /\ reply.op \in {"REMOVE", "RMDIR"} => disk[reply.path] = "none"
    /\ reply.op = "WRITE" /\ reply.count = 1 => disk[reply.path] = "data"
=============================================================================
