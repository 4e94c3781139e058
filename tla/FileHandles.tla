---------------------------- MODULE FileHandles ----------------------------
(***************************************************************************)
(* The file-handle table of ExportsManager (src/src/exports.rs).           *)
(*                                                                         *)
(* A handle carries a table id (fhid), the inode of the path it was made   *)
(* for, and a MAC under the key drawn when the server started.  The inode  *)
(* is a hash of the path; hash collisions are left out, so the inode IS    *)
(* the path.  The MAC is the key that made it.                             *)
(*                                                                         *)
(* Each critical section is one step: whoever changes the two maps holds   *)
(* the write locks of both, and a reader that looks at both keeps the      *)
(* first lock while it takes the second.  FileHandleLocks drops this       *)
(* assumption and is checked to implement this module.                     *)
(***************************************************************************)
EXTENDS Integers

CONSTANTS
    Path,       \* the real paths inside the exported trees
    Task,       \* the server tasks that handle requests concurrently
    NoPath,     \* absent entry of the table
    MaxFhid,    \* bound: ids the counter may hand out
    MaxEpoch    \* bound: restarts of the server

ASSUME ConstantsAssumption ==
    /\ NoPath \notin Path
    /\ MaxFhid \in Nat \ {0}
    /\ MaxEpoch \in Nat

VARIABLES
    epoch,      \* how often the server was restarted
    key,        \* fh_hmac_key, named after the start that drew it
    fhMap,      \* fh_map: fhid -> real_path of the entry
    pathMap,    \* path_to_fhid; 0 when absent
    fhCounter,  \* fh_counter
    answers,    \* every handle ever given out: when, and the path it was asked for
    pc,         \* where each task is inside a call
    want,       \* the path that task's call is about
    id,         \* the fhid that task's call has allocated or was presented with
    contended   \* history: ids that PUTFH was searching for while another call
                \* had them in hand too, since the server started

vars == <<epoch, key, fhMap, pathMap, fhCounter, answers, pc, want, id, contended>>

Fhid == 1..MaxFhid
Epoch == 0..MaxEpoch
Handle == [fhid: Fhid, inode: Path, key: Epoch]
Answer == [path: Path, handle: Handle, epoch: Epoch]

TypeOK ==
    /\ epoch \in Epoch
    /\ key \in Epoch
    /\ fhMap \in [Fhid -> Path \cup {NoPath}]
    /\ pathMap \in [Path -> 0..MaxFhid]
    /\ fhCounter \in 1..(MaxFhid + 1)
    /\ answers \subseteq Answer
    /\ pc \in [Task -> {"idle", "alloc", "insert", "search"}]
    /\ want \in [Task -> Path \cup {NoPath}]
    /\ id \in [Task -> 0..MaxFhid]
    /\ contended \subseteq Fhid

-----------------------------------------------------------------------------

Init ==
    /\ epoch = 0
    /\ key = 0
    /\ fhMap = [n \in Fhid |-> NoPath]
    /\ pathMap = [p \in Path |-> 0]
    /\ fhCounter = 1
    /\ answers = {}
    /\ pc = [t \in Task |-> "idle"]
    /\ want = [t \in Task |-> NoPath]
    /\ id = [t \in Task |-> 0]
    /\ contended = {}

\* encode_handle: the bytes sent for entry n, whose inode is that of path q.
Encode(n, q) == [fhid |-> n, inode |-> q, key |-> key]

\* resolve_fh: the MAC is verified under the current key, then the id alone
\* selects the entry; the inode inside the handle is not compared with it.
Resolve(h) == IF h.key = key THEN fhMap[h.fhid] ELSE NoPath

Give(p, h) == answers' = answers \cup {[path |-> p, handle |-> h, epoch |-> epoch]}

Finish(t) ==
    /\ pc' = [pc EXCEPT ![t] = "idle"]
    /\ want' = [want EXCEPT ![t] = NoPath]
    /\ id' = [id EXCEPT ![t] = 0]

\* Task t takes id n in hand while a task at one of these points has it.
Contend(t, n, points) ==
    contended' = IF \E u \in Task \ {t} : pc[u] \in points /\ id[u] = n
                 THEN contended \cup {n} ELSE contended

Known(p) == pathMap[p] # 0 /\ fhMap[pathMap[p]] # NoPath

\* get_or_create_fh, the path is in the table: its handle is returned.
LookupHit(t, p) ==
    /\ pc[t] = "idle"
    /\ Known(p)
    /\ Give(p, Encode(pathMap[p], fhMap[pathMap[p]]))
    /\ UNCHANGED <<epoch, key, fhMap, pathMap, fhCounter, pc, want, id, contended>>

\* get_or_create_fh, the path is not in the table: the read locks are dropped
\* and the call goes on to allocate.
LookupMiss(t, p) ==
    /\ pc[t] = "idle"
    /\ ~Known(p)
    /\ pc' = [pc EXCEPT ![t] = "alloc"]
    /\ want' = [want EXCEPT ![t] = p]
    /\ UNCHANGED <<epoch, key, fhMap, pathMap, fhCounter, answers, id, contended>>

\* The id is taken under the counter's own lock, which is then released.
Alloc(t) ==
    /\ pc[t] = "alloc"
    /\ fhCounter <= MaxFhid
    /\ id' = [id EXCEPT ![t] = fhCounter]
    /\ fhCounter' = fhCounter + 1
    /\ Contend(t, fhCounter, {"search"})
    /\ pc' = [pc EXCEPT ![t] = "insert"]
    /\ UNCHANGED <<epoch, key, fhMap, pathMap, answers, want>>

\* Both maps are written, without looking whether another task got there first.
Insert(t) ==
    /\ pc[t] = "insert"
    /\ fhMap' = [fhMap EXCEPT ![id[t]] = want[t]]
    /\ pathMap' = [pathMap EXCEPT ![want[t]] = id[t]]
    /\ Give(want[t], Encode(id[t], want[t]))
    /\ Finish(t)
    /\ UNCHANGED <<epoch, key, fhCounter, contended>>

\* PUTFH presents a handle: any bytes, whether or not a server ever gave them
\* out, as the MAC is not looked at.  The id in them is not in the table, so
\* try_rebuild_fh starts to walk the exports for the inode in them.  (When the
\* id is in the table, or is that of the root, it changes nothing.  An id past
\* the bound on the table, whose successor may wrap, is left out.)
Putfh(t, n, p) ==
    /\ pc[t] = "idle"
    /\ fhMap[n] = NoPath
    /\ pc' = [pc EXCEPT ![t] = "search"]
    /\ want' = [want EXCEPT ![t] = p]
    /\ id' = [id EXCEPT ![t] = n]
    /\ Contend(t, n, {"insert", "search"})
    /\ UNCHANGED <<epoch, key, fhMap, pathMap, fhCounter, answers>>

\* The walk found the path: both maps are written under the presented id, and
\* the counter is moved past it.  The table may have changed since Putfh.
Rebuild(t) ==
    /\ pc[t] = "search"
    /\ fhMap' = [fhMap EXCEPT ![id[t]] = want[t]]
    /\ pathMap' = [pathMap EXCEPT ![want[t]] = id[t]]
    /\ fhCounter' = IF id[t] >= fhCounter THEN id[t] + 1 ELSE fhCounter
    /\ Finish(t)
    /\ UNCHANGED <<epoch, key, answers, contended>>

\* No path has the inode, or it lies deeper than the walk goes.
RebuildNotFound(t) ==
    /\ pc[t] = "search"
    /\ Finish(t)
    /\ UNCHANGED <<epoch, key, fhMap, pathMap, fhCounter, answers, contended>>

\* The server stops, at any point of any call, and ExportsManager::new runs
\* again: nothing was persisted, the key is a new one.  Clients keep their handles.
Restart ==
    /\ epoch < MaxEpoch
    /\ epoch' = epoch + 1
    /\ key' = epoch'
    /\ fhMap' = [n \in Fhid |-> NoPath]
    /\ pathMap' = [p \in Path |-> 0]
    /\ fhCounter' = 1
    /\ pc' = [t \in Task |-> "idle"]
    /\ want' = [t \in Task |-> NoPath]
    /\ id' = [t \in Task |-> 0]
    /\ contended' = {}
    /\ UNCHANGED answers

Next ==
    \/ \E t \in Task :
          \/ \E p \in Path : LookupHit(t, p) \/ LookupMiss(t, p)
          \/ \E n \in Fhid, p \in Path : Putfh(t, n, p)
          \/ Alloc(t)
          \/ Insert(t)
          \/ Rebuild(t)
          \/ RebuildNotFound(t)
    \/ Restart

Spec == Init /\ [][Next]_vars

-----------------------------------------------------------------------------

\* The two maps never disagree about what exists: an id that path_to_fhid
\* names has an entry in fh_map, through concurrent allocations, rebuilds and
\* restarts.  get_or_create_fh silently allocates a second id when it does not.
PathMapClosed ==
    \A p \in Path : pathMap[p] # 0 => fhMap[pathMap[p]] # NoPath

\* The counter stays ahead of every id in the table and of every id a task
\* holds but has not inserted yet, so a fresh id is never one already in the
\* table: what the comment in try_rebuild_fh asks of it.
CounterAhead ==
    /\ \A n \in Fhid : fhMap[n] # NoPath => n < fhCounter
    /\ \A t \in Task : pc[t] = "insert" => id[t] < fhCounter

\* A handle of this start resolves, at once and ever after, to the path it was
\* asked for, however many tasks allocate and rebuild at the same time and
\* whatever handles PUTFH presents.  The exception is an id that PUTFH was
\* searching for while another task had drawn it, or was searching for it too:
\* try_rebuild_fh looks for the id before its walk and not again after it, and
\* the task that writes last turns the other's handle to its own path.
SoundUnlessContended ==
    \A a \in answers : a.epoch = epoch =>
        Resolve(a.handle) = a.path \/ a.handle.fhid \in contended

\* A handle of an earlier start never resolves again, whatever PUTFH rebuilds:
\* it fails as stale rather than reach some file (the promise on fh_hmac_key).
\* So a rebuild never does what it is for, "so that subsequent GETATTR / READDIR
\* calls can still resolve the path": the handle it is made for stays stale.
OldHandlesStale ==
    \A a \in answers : a.epoch # epoch => Resolve(a.handle) = NoPath
=============================================================================
