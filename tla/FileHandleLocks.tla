-------------------------- MODULE FileHandleLocks --------------------------
(***************************************************************************)
(* The file-handle table again, with the two read-write locks that guard   *)
(* its maps (src/src/exports.rs, lines 377-414 and 593-645).  A lock is    *)
(* taken in one step and held over later ones, as the guard of a tokio     *)
(* RwLock is held over the await of the next lock.  The counter's lock is  *)
(* never held over an await, so it needs no state.  A waiter is served in  *)
(* any order the locks permit; tokio's queue is one of those orders.       *)
(***************************************************************************)
EXTENDS Integers, FiniteSets

CONSTANTS Path, Task, NoPath, NoTask, MaxFhid, MaxEpoch

VARIABLES
    epoch, key, fhMap, pathMap, fhCounter, answers, want, id, contended, \* as in FileHandles
    pc,         \* where each task is, between two lock operations
    pathLock,   \* path_to_fhid's RwLock: its readers and its writer
    fhLock      \* fh_map's RwLock

data == <<epoch, key, fhMap, pathMap, fhCounter, answers, want, id, contended>>
vars == <<data, pc, pathLock, fhLock>>

Fhid == 1..MaxFhid

Free == [readers |-> {}, writer |-> NoTask]

\* The table as FileHandles sees it: a task that has looked up nothing yet is
\* idle there, and one that holds the first of two write locks has not written.
TablePc ==
    [t \in Task |->
        CASE pc[t] \in {"idle", "lookup", "both"} -> "idle"
          [] pc[t] \in {"insert", "insertLocked"} -> "insert"
          [] pc[t] \in {"search", "rebuildLocked"} -> "search"
          [] OTHER -> "alloc"]

TableWant == [t \in Task |-> IF pc[t] \in {"lookup", "both"} THEN NoPath ELSE want[t]]

Table == INSTANCE FileHandles WITH pc <- TablePc, want <- TableWant

-----------------------------------------------------------------------------

Init ==
    /\ epoch = 0
    /\ key = 0
    /\ fhMap = [n \in Fhid |-> NoPath]
    /\ pathMap = [p \in Path |-> 0]
    /\ fhCounter = 1
    /\ answers = {}
    /\ pc = [t \in Task |-> "idle"]
    /\ want = [t \in Task |-> NoPath]
    /\ id = [t \in Task |-> 0]
    /\ contended = {}
    /\ pathLock = Free
    /\ fhLock = Free

CanRead(lock) == lock.writer = NoTask
CanWrite(lock) == lock = Free

Goto(t, l) == pc' = [pc EXCEPT ![t] = l]

Give(p, h) == answers' = answers \cup {[path |-> p, handle |-> h, epoch |-> epoch]}

Finish(t) ==
    /\ Goto(t, "idle")
    /\ want' = [want EXCEPT ![t] = NoPath]
    /\ id' = [id EXCEPT ![t] = 0]

Contend(t, n, points) ==
    contended' = IF \E u \in Task \ {t} : pc[u] \in points /\ id[u] = n
                 THEN contended \cup {n} ELSE contended

\* Bound: a call starts only while enough ids remain for every call under way,
\* so no call ever waits for the bound.
IdsRemain == fhCounter + Cardinality({u \in Task : pc[u] # "idle"}) <= MaxFhid

\* get_or_create_fh takes path_to_fhid for reading ...
TakePath(t, p) ==
    /\ pc[t] = "idle"
    /\ IdsRemain
    /\ CanRead(pathLock)
    /\ pathLock' = [pathLock EXCEPT !.readers = @ \cup {t}]
    /\ want' = [want EXCEPT ![t] = p]
    /\ Goto(t, "lookup")
    /\ UNCHANGED <<epoch, key, fhMap, pathMap, fhCounter, answers, id, contended, fhLock>>

UnknownKeepsLock(t) ==
    /\ pc[t] = "lookup"
    /\ pathMap[want[t]] = 0
    /\ Goto(t, "alloc")
    /\ UNCHANGED <<data, pathLock, fhLock>>

\* ... finds no id there and drops the lock ...
PathUnknown(t) ==
    /\ pc[t] = "lookup"
    /\ pathMap[want[t]] = 0
    /\ pathLock' = [pathLock EXCEPT !.readers = @ \ {t}]
    /\ Goto(t, "alloc")
    /\ UNCHANGED <<data, fhLock>>

\* ... or keeps it while it takes fh_map for reading ...
TakeFh(t) ==
    /\ pc[t] = "lookup"
    /\ pathMap[want[t]] # 0
    /\ CanRead(fhLock)
    /\ fhLock' = [fhLock EXCEPT !.readers = @ \cup {t}]
    /\ Goto(t, "both")
    /\ UNCHANGED <<data, pathLock>>

\* ... and answers; both guards drop.
LookupDone(t) ==
    /\ pc[t] = "both"
    /\ LET n == pathMap[want[t]] IN
       IF fhMap[n] # NoPath
       THEN /\ Give(want[t], [fhid |-> n, inode |-> fhMap[n], key |-> key])
            /\ Finish(t)
       ELSE Goto(t, "alloc") /\ UNCHANGED <<answers, want, id>>
    /\ pathLock' = [pathLock EXCEPT !.readers = @ \ {t}]
    /\ fhLock' = [fhLock EXCEPT !.readers = @ \ {t}]
    /\ UNCHANGED <<epoch, key, fhMap, pathMap, fhCounter, contended>>

\* The id is drawn under the counter's lock.
Alloc(t) ==
    /\ pc[t] = "alloc"
    /\ fhCounter <= MaxFhid
    /\ id' = [id EXCEPT ![t] = fhCounter]
    /\ fhCounter' = fhCounter + 1
    /\ Contend(t, fhCounter, {"search", "rebuildLocked"})
    /\ Goto(t, "insert")
    /\ UNCHANGED <<epoch, key, fhMap, pathMap, answers, want, pathLock, fhLock>>

WriteUnderOneLock(t) ==
    /\ pc[t] = "insert"
    /\ CanWrite(fhLock)
    /\ fhLock' = [fhLock EXCEPT !.writer = t]
    /\ fhMap' = [fhMap EXCEPT ![id[t]] = want[t]]
    /\ Goto(t, "insertLocked")
    /\ UNCHANGED <<epoch, key, pathMap, fhCounter, answers, want, id, contended, pathLock>>

\* The write locks are taken in the other order: fh_map first ...
TakeFhToInsert(t) ==
    /\ pc[t] = "insert"
    /\ CanWrite(fhLock)
    /\ fhLock' = [fhLock EXCEPT !.writer = t]
    /\ Goto(t, "insertLocked")
    /\ UNCHANGED <<data, pathLock>>

\* ... then path_to_fhid; both maps are written and both locks released.
Insert(t) ==
    /\ pc[t] = "insertLocked"
    /\ CanWrite(pathLock)
    /\ fhMap' = [fhMap EXCEPT ![id[t]] = want[t]]
    /\ pathMap' = [pathMap EXCEPT ![want[t]] = id[t]]
    /\ Give(want[t], [fhid |-> id[t], inode |-> want[t], key |-> key])
    /\ Finish(t)
    /\ fhLock' = Free
    /\ UNCHANGED <<epoch, key, fhCounter, contended, pathLock>>

PutfhKnownToo(t, n, p) ==
    /\ pc[t] = "idle"
    /\ CanRead(fhLock)
    /\ want' = [want EXCEPT ![t] = p]
    /\ id' = [id EXCEPT ![t] = n]
    /\ Contend(t, n, {"insert", "insertLocked", "search", "rebuildLocked"})
    /\ Goto(t, "search")
    /\ UNCHANGED <<epoch, key, fhMap, pathMap, fhCounter, answers, pathLock, fhLock>>

\* try_rebuild_fh looks the id up under fh_map's read lock, drops it and walks
\* the exports without any lock.
Putfh(t, n, p) ==
    /\ pc[t] = "idle"
    /\ CanRead(fhLock)
    /\ fhMap[n] = NoPath
    /\ want' = [want EXCEPT ![t] = p]
    /\ id' = [id EXCEPT ![t] = n]
    /\ Contend(t, n, {"insert", "insertLocked", "search", "rebuildLocked"})
    /\ Goto(t, "search")
    /\ UNCHANGED <<epoch, key, fhMap, pathMap, fhCounter, answers, pathLock, fhLock>>

TakeFhToRebuild(t) ==
    /\ pc[t] = "search"
    /\ CanWrite(fhLock)
    /\ fhLock' = [fhLock EXCEPT !.writer = t]
    /\ Goto(t, "rebuildLocked")
    /\ UNCHANGED <<data, pathLock>>

RebuildKeepsCounter(t) ==
    /\ pc[t] = "rebuildLocked"
    /\ CanWrite(pathLock)
    /\ fhMap' = [fhMap EXCEPT ![id[t]] = want[t]]
    /\ pathMap' = [pathMap EXCEPT ![want[t]] = id[t]]
    /\ Finish(t)
    /\ fhLock' = Free
    /\ UNCHANGED <<epoch, key, fhCounter, answers, contended, pathLock>>

Rebuild(t) ==
    /\ pc[t] = "rebuildLocked"
    /\ CanWrite(pathLock)
    /\ fhMap' = [fhMap EXCEPT ![id[t]] = want[t]]
    /\ pathMap' = [pathMap EXCEPT ![want[t]] = id[t]]
    /\ fhCounter' = IF id[t] >= fhCounter THEN id[t] + 1 ELSE fhCounter
    /\ Finish(t)
    /\ fhLock' = Free
    /\ UNCHANGED <<epoch, key, answers, contended, pathLock>>

RebuildNotFound(t) ==
    /\ pc[t] = "search"
    /\ Finish(t)
    /\ UNCHANGED <<epoch, key, fhMap, pathMap, fhCounter, answers, contended, pathLock, fhLock>>

RestartSameKey ==
    /\ epoch < MaxEpoch
    /\ epoch' = epoch + 1
    /\ fhMap' = [n \in Fhid |-> NoPath]
    /\ pathMap' = [p \in Path |-> 0]
    /\ fhCounter' = 1
    /\ pc' = [t \in Task |-> "idle"]
    /\ want' = [t \in Task |-> NoPath]
    /\ id' = [t \in Task |-> 0]
    /\ contended' = {}
    /\ pathLock' = Free
    /\ fhLock' = Free
    /\ UNCHANGED <<key, answers>>

\* The server stops, at any point of any call, and starts again.
Restart ==
    /\ epoch < MaxEpoch
    /\ epoch' = epoch + 1
    /\ key' = epoch'
    /\ fhMap' = [n \in Fhid |-> NoPath]
    /\ pathMap' = [p \in Path |-> 0]
    /\ fhCounter' = 1
    /\ pc' = [t \in Task |-> "idle"]
    /\ want' = [t \in Task |-> NoPath]
    /\ id' = [t \in Task |-> 0]
    /\ contended' = {}
    /\ pathLock' = Free
    /\ fhLock' = Free
    /\ UNCHANGED answers

\* What a task inside a call does next.
Continue(t) ==
    \/ PathUnknown(t)
    \/ TakeFh(t)
    \/ LookupDone(t)
    \/ Alloc(t)
    \/ TakeFhToInsert(t)
    \/ Insert(t)
    \/ TakeFhToRebuild(t)
    \/ Rebuild(t)
    \/ RebuildNotFound(t)

Next ==
    \/ \E t \in Task :
          \/ \E p \in Path : TakePath(t, p)
          \/ \E n \in Fhid, p \in Path : Putfh(t, n, p)
          \/ Continue(t)
    \/ Restart

Spec == Init /\ [][Next]_vars

\* The runtime polls every task that can run, and a lock that is free again
\* and again is in the end given to whoever waits for it (tokio's queue is fair).
FairSpec == Spec /\ \A t \in Task : SF_vars(Continue(t))

-----------------------------------------------------------------------------

\* The critical sections are atomic: whatever the locks let tasks interleave,
\* the table goes through steps of FileHandles only.
ImplementsTable == Table!Spec

\* A lookup holds path_to_fhid and a writer holds fh_map; each wants the other.
Inverted ==
    \E t, u \in Task :
        /\ pc[t] = "lookup" /\ t \in pathLock.readers
        /\ pc[u] \in {"insertLocked", "rebuildLocked"} /\ fhLock.writer = u

\* The model's counter has reached its bound, at which the code's goes on.
OutOfIds(t) == pc[t] = "alloc" /\ fhCounter > MaxFhid

\* Every call of get_or_create_fh and try_rebuild_fh returns, unless the two
\* locks are once taken in the inverted orders: a call can then wait for ever.
CallsReturnUnlessInverted ==
    \A t \in Task : pc[t] # "idle" ~> (pc[t] = "idle" \/ Inverted \/ OutOfIds(t))
=============================================================================
