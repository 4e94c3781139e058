----------------------------- MODULE OpenLocks -----------------------------
(***************************************************************************)
(* Opens and byte-range locks of Nfs4Server (src/src/nfs/nfs4.rs): OPEN,   *)
(* CLOSE, LOCK and LOCKU.  LOCKT and OPEN_CONFIRM change nothing.          *)
(*                                                                         *)
(* Each handler holds the write lock of the one map it changes from its    *)
(* first look to its last change, so each is one step.                     *)
(*                                                                         *)
(* A stateid is a sequence number and an id.  The handlers read eight      *)
(* bytes of it as a key; which eight is what matters, so a key is written  *)
(* as its two words.  Sequence numbers are answered as 1; a request may    *)
(* carry another, as NFSv4.1 clients send 0.                               *)
(***************************************************************************)
EXTENDS Integers, FiniteSets

CONSTANTS
    File,       \* files of the exports
    LockClient, \* the client ids that lock owners carry
    OwnerBytes, \* the bytes that lock owners carry; two clients may use the same
    NoBytes,    \* the empty bytes, of a request by lock stateid or sent as such
    Seqid,      \* sequence numbers that open stateids are sent with
    NoSeqid,    \* the lock was not asked for with an open stateid
    Top,        \* u64::MAX, the last offset
    Word,       \* 2^32
    MaxOpen,    \* bound: open ids
    MaxLock     \* bound: lock ids

ASSUME OpenLocksAssumption ==
    /\ NoBytes \in OwnerBytes
    /\ Top \in Nat \ {0}
    /\ Word \in Nat
    /\ Seqid \subseteq 0..(Word - 1)
    /\ NoSeqid \notin Seqid
    /\ MaxOpen \in Nat \ {0} /\ MaxOpen < Word
    /\ MaxLock \in Nat \ {0} /\ MaxLock < Word

VARIABLES
    openFiles,  \* open_files: open id -> file
    opened,     \* every open ever answered: the id and the file it is for
    openNext,   \* open_counter
    granted,    \* every lock stateid ever answered: its id, whose it is, the file
    locks,      \* locks: key -> the locks listed under it
    lockNext    \* lock_counter

openLocksVars == <<openFiles, opened, openNext, granted, locks, lockNext>>

OpenId == 1..MaxOpen
LockId == 1..MaxLock
Key == (0..(Word - 1)) \X (0..(Word - 1))
Offset == 0..Top
LockType == {"READ", "WRITE"}   \* READW and WRITEW are treated like these
Holder == [client: LockClient, bytes: OwnerBytes]

\* A FileLock.  file, holder and seqid are not stored by the code (but for
\* holder.client): the file the lock was asked for, whose it is by the protocol,
\* and the sequence number of the open stateid it was asked for with.
LockRecord == [id: LockId, offset: Offset, length: Offset, type: LockType, owner: OwnerBytes,
               file: File, holder: Holder, seqid: Seqid \cup {NoSeqid}]

OpenLocksTypeOK ==
    /\ openFiles \subseteq [id: OpenId, file: File]
    /\ opened \subseteq [id: OpenId, file: File]
    /\ openNext \in 1..(MaxOpen + 1)
    /\ granted \subseteq [id: LockId, holder: Holder, file: File]
    /\ locks \in [Key -> SUBSET LockRecord]
    /\ lockNext \in 1..(MaxLock + 1)

OpenLocksInit ==
    /\ openFiles = {}
    /\ opened = {}
    /\ openNext = 1
    /\ granted = {}
    /\ locks = [k \in Key |-> {}]
    /\ lockNext = 1

-----------------------------------------------------------------------------

\* OPEN of a file that exists (or was just created): a new id each time, with
\* share_access and share_deny parsed and not used.
Open(f) ==
    /\ openNext <= MaxOpen
    /\ openFiles' = openFiles \cup {[id |-> openNext, file |-> f]}
    /\ opened' = opened \cup {[id |-> openNext, file |-> f]}
    /\ openNext' = openNext + 1
    /\ UNCHANGED <<granted, locks, lockNext>>

\* The two words of an id.
Halves(id) == <<id \div Word, id % Word>>

\* What CLOSE, and LOCK with is_new = TRUE, read of an open stateid: the
\* sequence number it was sent with and the high half of the id.
SeqidAndHigh(s, id) == <<s, id \div Word>>

WholeId(s, id) == Halves(id)

\* CLOSE removes the open whose id is the number it read.
Close(o, s) ==
    /\ openFiles' = {e \in openFiles : Halves(e.id) # SeqidAndHigh(s, o.id)}
    /\ UNCHANGED <<opened, openNext, granted, locks, lockNext>>

-----------------------------------------------------------------------------

SaturatingAdd(a, b) == IF a + b > Top THEN Top ELSE a + b

Overlap(o1, l1, o2, l2) ==
    o1 < SaturatingAdd(o2, l2) /\ o2 < SaturatingAdd(o1, l1)

ConflictIfNewWrites(existing, type, offset, length) ==
    \E l \in existing :
        /\ Overlap(offset, length, l.offset, l.length)
        /\ type = "WRITE"

\* check_lock_conflict: half-open ranges; two reads do not conflict; the owner
\* is not looked at, so an owner's own lock conflicts too.
Conflict(existing, type, offset, length) ==
    \E l \in existing :
        /\ Overlap(offset, length, l.offset, l.length)
        /\ type = "WRITE" \/ l.type = "WRITE"

Grant(k, l) ==
    /\ lockNext <= MaxLock
    /\ ~Conflict(locks[k], l.type, l.offset, l.length)
    /\ locks' = [locks EXCEPT ![k] = @ \cup {l}]
    /\ granted' = granted \cup {[id |-> l.id, holder |-> l.holder, file |-> l.file]}
    /\ lockNext' = lockNext + 1
    /\ UNCHANGED <<openFiles, opened, openNext>>

LockByWholeId(w, o, s, type, offset, length) ==
    Grant(WholeId(s, o.id),
          [id |-> lockNext, offset |-> offset, length |-> length, type |-> type,
           owner |-> w.bytes, file |-> o.file, holder |-> w, seqid |-> s])

\* LOCK with is_new = TRUE, under an open stateid.  (Denied: no change.)
LockNew(w, o, s, type, offset, length) ==
    Grant(SeqidAndHigh(s, o.id),
          [id |-> lockNext, offset |-> offset, length |-> length, type |-> type,
           owner |-> w.bytes, file |-> o.file, holder |-> w, seqid |-> s])

\* LOCK with is_new = FALSE, under a lock stateid h, whoever sends it and even
\* if the lock is released: here the eight bytes are the whole lock id, and the
\* request has no owner.
LockMore(h, type, offset, length) ==
    Grant(Halves(h.id),
          [id |-> lockNext, offset |-> offset, length |-> length, type |-> type,
           owner |-> NoBytes, file |-> h.file, holder |-> h.holder, seqid |-> NoSeqid])

ReleaseAnyOwner(k, owner, type, offset, length) ==
    /\ locks' = [locks EXCEPT ![k] =
          {l \in @ : ~(l.offset = offset /\ l.length = length /\ l.type = type)}]
    /\ UNCHANGED <<openFiles, opened, openNext, granted, lockNext>>

\* LOCKU keeps what differs in range, type or owner bytes, and answers OK
\* whether or not anything was removed.  The client id is not looked at.
Release(k, owner, type, offset, length) ==
    /\ locks' = [locks EXCEPT ![k] =
          {l \in @ : ~(l.offset = offset /\ l.length = length
                       /\ l.type = type /\ l.owner = owner)}]
    /\ UNCHANGED <<openFiles, opened, openNext, granted, lockNext>>

UnlockNew(w, o, s, type, offset, length) ==
    Release(SeqidAndHigh(s, o.id), w.bytes, type, offset, length)

UnlockMore(h, type, offset, length) ==
    Release(Halves(h.id), NoBytes, type, offset, length)

-----------------------------------------------------------------------------

AllLocks == UNION {locks[k] : k \in Key}

OpenLocksNext ==
    \/ \E f \in File : Open(f)
    \/ \E o \in opened, s \in Seqid : Close(o, s)
    \/ \E type \in LockType, offset, length \in Offset :
          \/ \E w \in Holder, o \in opened, s \in Seqid :
                \/ LockNew(w, o, s, type, offset, length)
                \/ UnlockNew(w, o, s, type, offset, length)
          \/ \E h \in granted : \/ LockMore(h, type, offset, length)
                                \/ UnlockMore(h, type, offset, length)

OpenLocksSpec == OpenLocksInit /\ [][OpenLocksNext]_openLocksVars

-----------------------------------------------------------------------------

\* The bytes a lock covers, by the protocol: the largest length means "to the
\* end of the file".
Bytes(l) == {b \in Offset : l.offset <= b /\ (l.length = Top \/ b < l.offset + l.length)}

Clash(l, m) == l.type = "WRITE" \/ m.type = "WRITE"

\* Below the last offset, no byte is covered by two locks of one list of which
\* one is a write lock, however ranges touch, nest or saturate.
ListsExclusive ==
    \A k \in Key : \A l, m \in locks[k] :
        l # m /\ Clash(l, m) => Bytes(l) \cap Bytes(m) \subseteq {Top}

\* Locks asked for with open stateids exclude each other on a file, through
\* whichever of its opens they were asked for, provided the stateids were sent
\* with the same sequence number: with 0 and with 1 they are in two lists.
NewLocksExclusive ==
    \A l, m \in AllLocks :
        l # m /\ l.file = m.file /\ Clash(l, m) /\ l.seqid \in Seqid /\ l.seqid = m.seqid
            => Bytes(l) \cap Bytes(m) \subseteq {Top}

\* A LOCKU by lock stateid removes only locks of the holder that the stateid
\* was given to; one with an open stateid removes only locks that were asked
\* for like that, by owner bytes equal to those it carries.  The client does
\* not count: two clients that use the same owner bytes release each other's.
OnlyHolderReleases ==
    [][\A l \in AllLocks \ AllLocks' :
          \A type \in LockType, offset, length \in Offset :
              /\ \A w \in Holder, o \in opened, s \in Seqid :
                    UnlockNew(w, o, s, type, offset, length)
                        => l.seqid = s /\ l.holder.bytes = w.bytes
              /\ \A h \in granted :
                    UnlockMore(h, type, offset, length) => l.holder = h.holder]_openLocksVars
=============================================================================
