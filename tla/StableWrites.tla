---------------------------- MODULE StableWrites ----------------------------
(***************************************************************************)
(* WRITE and COMMIT on the blocks of one file, NFSv4 (src/src/nfs/nfs4.rs) *)
(* and NFSv3 (src/src/nfs/protocol.rs), over the operating system's cache  *)
(* and disk: what survives when the server restarts, which loses nothing   *)
(* that reached the cache, and when the power fails.                       *)
(*                                                                         *)
(* The handlers open, write and sync without awaiting, but on several      *)
(* threads, so requests interleave between these calls.  Every answered    *)
(* WRITE says FILE_SYNC.  COMMIT calls nothing and changes nothing: it     *)
(* answers the verifier alone, and has no action.                          *)
(***************************************************************************)
EXTENDS Integers

CONSTANTS
    Block,          \* blocks of the file, each what one WRITE covers
    Task,           \* requests in progress
    NoBlock,        \* of an idle task
    MaxVersion      \* bound: writes to the file

ASSUME ConstantsAssumption ==
    /\ NoBlock \notin Block
    /\ MaxVersion \in Nat \ {0}

VARIABLES
    disk,       \* version of each block that is on the disk
    cache,      \* version of each block in the cache, which READ returns
    version,    \* writes made so far
    pc,         \* where each WRITE is
    req,        \* its block, whether it calls sync_all, the version it wrote
    answered,   \* newest version of each block whose WRITE was answered OK
    promised,   \* the same, of the WRITEs whose sync_all did what it says
    powerLost   \* whether the power has failed

server == <<pc, req>>
told == <<answered, promised>>
vars == <<disk, cache, version, pc, req, answered, promised, powerLost>>

Version == 0..MaxVersion
Request == [block: Block \cup {NoBlock}, sync: BOOLEAN, version: Version]
NoRequest == [block |-> NoBlock, sync |-> FALSE, version |-> 0]

TypeOK ==
    /\ disk \in [Block -> Version]
    /\ cache \in [Block -> Version]
    /\ version \in Version
    /\ pc \in [Task -> {"idle", "opened", "written", "synced", "unsynced"}]
    /\ req \in [Task -> Request]
    /\ \A t \in Task : pc[t] # "idle" => req[t].block \in Block
    /\ answered \in [Block -> Version]
    /\ promised \in [Block -> Version]
    /\ powerLost \in BOOLEAN

Init ==
    /\ disk = [b \in Block |-> 0]
    /\ cache = [b \in Block |-> 0]
    /\ version = 0
    /\ pc = [t \in Task |-> "idle"]
    /\ req = [t \in Task |-> NoRequest]
    /\ answered = [b \in Block |-> 0]
    /\ promised = [b \in Block |-> 0]
    /\ powerLost = FALSE

Goto(t, l) == pc' = [pc EXCEPT ![t] = l]
Finish(t) == Goto(t, "idle") /\ req' = [req EXCEPT ![t] = NoRequest]
Later(a, b) == IF a > b THEN a ELSE b

-----------------------------------------------------------------------------

\* A WRITE whose handle resolves to a file it can open and seek in.  NFSv3
\* always syncs; NFSv4 if FILE_SYNC (2) is asked for, not for DATA_SYNC (1).
OpenFile(t, b, sync) ==
    /\ pc[t] = "idle"
    /\ Goto(t, "opened")
    /\ req' = [req EXCEPT ![t] = [block |-> b, sync |-> sync, version |-> 0]]
    /\ UNCHANGED <<disk, cache, version, told, powerLost>>

\* The whole file rewritten around the block, from an image read earlier.
WriteWhole(t) ==
    /\ pc[t] = "opened"
    /\ version < MaxVersion
    /\ version' = version + 1
    /\ cache' = [disk EXCEPT ![req[t].block] = version + 1]
    /\ req' = [req EXCEPT ![t].version = version + 1]
    /\ Goto(t, "written")
    /\ UNCHANGED <<disk, told, powerLost>>

\* write_all at the offset: the other blocks are left as they are.
WriteAll(t) ==
    /\ pc[t] = "opened"
    /\ version < MaxVersion
    /\ version' = version + 1
    /\ cache' = [cache EXCEPT ![req[t].block] = version + 1]
    /\ req' = [req EXCEPT ![t].version = version + 1]
    /\ Goto(t, "written")
    /\ UNCHANGED <<disk, told, powerLost>>

\* NFSv4 answers NFS4ERR_IO, NFSv3 answers OK with a count of 0.
WriteFails(t) ==
    /\ pc[t] = "opened"
    /\ Finish(t)
    /\ UNCHANGED <<disk, cache, version, told, powerLost>>

SyncAllLater(t) ==
    /\ pc[t] = "written"
    /\ req[t].sync
    /\ Goto(t, "synced")
    /\ UNCHANGED <<disk, cache, version, req, told, powerLost>>

\* sync_all writes the file's cached blocks to the disk.
SyncAll(t) ==
    /\ pc[t] = "written"
    /\ req[t].sync
    /\ disk' = cache
    /\ Goto(t, "synced")
    /\ UNCHANGED <<cache, version, req, told, powerLost>>

\* It fails, having written any of the blocks or none: its result is not looked
\* at, and the answer is the same.
SyncFails(t) ==
    /\ pc[t] = "written"
    /\ req[t].sync
    /\ Goto(t, "unsynced")
    /\ UNCHANGED <<disk, cache, version, req, told, powerLost>>

AnswerEarly(t) ==
    /\ pc[t] = "written"
    /\ LET b == req[t].block IN
       /\ answered' = [answered EXCEPT ![b] = Later(@, req[t].version)]
       /\ promised' = IF req[t].sync
                      THEN [promised EXCEPT ![b] = Later(@, req[t].version)]
                      ELSE promised
    /\ Finish(t)
    /\ UNCHANGED <<disk, cache, version, powerLost>>

\* The answer: OK, the whole count, FILE_SYNC whatever was asked for.
Answer(t) ==
    /\ pc[t] \in IF req[t].sync THEN {"synced", "unsynced"} ELSE {"written"}
    /\ LET b == req[t].block IN
       /\ answered' = [answered EXCEPT ![b] = Later(@, req[t].version)]
       /\ promised' = IF pc[t] = "synced"
                      THEN [promised EXCEPT ![b] = Later(@, req[t].version)]
                      ELSE promised
    /\ Finish(t)
    /\ UNCHANGED <<disk, cache, version, powerLost>>

-----------------------------------------------------------------------------

\* The operating system writes a block back when it likes.
WriteBack(b) ==
    /\ disk' = [disk EXCEPT ![b] = cache[b]]
    /\ UNCHANGED <<cache, version, server, told, powerLost>>

AllIdle ==
    /\ pc' = [t \in Task |-> "idle"]
    /\ req' = [t \in Task |-> NoRequest]

\* The server's process stops, at any point, and another is started.
Restart ==
    /\ AllIdle
    /\ UNCHANGED <<disk, cache, version, told, powerLost>>

\* The machine loses power: the cache is gone and the disk is what is read.
PowerFailure ==
    /\ cache' = disk
    /\ powerLost' = TRUE
    /\ AllIdle
    /\ UNCHANGED <<disk, version, told>>

Step(t) ==
    \/ WriteAll(t)
    \/ WriteFails(t)
    \/ SyncAll(t)
    \/ SyncFails(t)
    \/ Answer(t)

Next ==
    \/ \E t \in Task, b \in Block, sync \in BOOLEAN : OpenFile(t, b, sync)
    \/ \E t \in Task : Step(t)
    \/ \E b \in Block : WriteBack(b)
    \/ Restart
    \/ PowerFailure

Spec == Init /\ [][Next]_vars

-----------------------------------------------------------------------------

\* Requests on disjoint ranges do not undo each other, and a restart of the
\* server undoes nothing: until the power fails, a READ returns the data of the
\* newest answered WRITE of a block or newer ("avoids race conditions with
\* concurrent writes", SEC-019).
AnsweredWritesKept ==
    ~powerLost => \A b \in Block : answered[b] <= cache[b]

\* A WRITE that asked for FILE_SYNC, and whose sync_all did not fail, survives
\* power failures: it was on the disk before the answer.
FileSyncSurvives == \A b \in Block : promised[b] <= cache[b]

\* The server is a store whose promises, made to those WRITEs, hold.
Store == INSTANCE StableStore WITH contents <- cache
ImplementsStore == Store!StoreSpec
=============================================================================
