------------------------- MODULE StableWritesProofs -------------------------
(***************************************************************************)
(* Proofs about StableWrites, for any blocks, requests and bounds.         *)
(*                                                                         *)
(* The disk is never ahead of the cache nor the cache of the counter; what *)
(* a request has written is in the cache, and on the disk once it is past  *)
(* a sync_all that did not fail.  So an answer promises what is there.     *)
(***************************************************************************)
EXTENDS StableWrites, TLAPS

Ordered == \A b \in Block : disk[b] <= cache[b] /\ cache[b] <= version

InCache ==
    \A t \in Task : pc[t] \in {"written", "synced", "unsynced"} => req[t].version <= cache[req[t].block]

Cached == TypeOK /\ Ordered /\ InCache /\ AnsweredWritesKept

OnDisk == \A t \in Task : pc[t] = "synced" => req[t].version <= disk[req[t].block]

PromisedOnDisk == \A b \in Block : promised[b] <= disk[b]

Durable == Cached /\ OnDisk /\ PromisedOnDisk

-----------------------------------------------------------------------------
(* Steps of one request.                                                    *)

LEMMA OpenCached ==
    ASSUME Cached, NEW t \in Task, NEW b \in Block, NEW sync \in BOOLEAN, OpenFile(t, b, sync)
    PROVE  Cached'
<1> USE DEF OpenFile, Goto, told
<1>1. [block |-> b, sync |-> sync, version |-> 0] \in Request
  BY ConstantsAssumption DEF Request, Version
<1>2. TypeOK'
  BY <1>1 DEF Cached, TypeOK, Request
<1>3. InCache'
  BY DEF Cached, TypeOK, InCache
<1> QED  BY <1>2, <1>3 DEF Cached, Ordered, AnsweredWritesKept

LEMMA WriteCached ==
    ASSUME Cached, NEW t \in Task, WriteAll(t)
    PROVE  Cached'
<1> USE ConstantsAssumption DEF WriteAll, Goto, told
<1> DEFINE b == req[t].block
<1>1. b \in Block /\ version \in Nat /\ version + 1 \in Version
  BY DEF Cached, TypeOK, Version
<1>2. TypeOK'
  BY <1>1 DEF Cached, TypeOK, Request
<1>3. \A c \in Block : cache[c] \in Nat /\ disk[c] \in Nat /\ cache'[c] >= cache[c]
                       /\ cache'[c] \in Nat /\ cache'[c] <= version'
  BY <1>1 DEF Cached, TypeOK, Ordered, Version
<1>4. Ordered'
  BY <1>3 DEF Cached, Ordered
<1>5. InCache'
  <2> SUFFICES ASSUME NEW u \in Task, pc'[u] \in {"written", "synced", "unsynced"}
               PROVE  req'[u].version <= cache'[req'[u].block]
    BY DEF InCache
  <2>1. CASE u = t
    <3>1. req'[u].version = version + 1 /\ req'[u].block = b /\ cache'[b] = version + 1
      BY <2>1, <1>1 DEF Cached, TypeOK, Request
    <3> QED  BY <3>1, <1>1
  <2>2. CASE u # t
    <3>1. req'[u] = req[u] /\ pc'[u] = pc[u]
      BY <2>2 DEF Cached, TypeOK
    <3>2. req[u].block \in Block /\ req[u].version \in Nat /\ req[u].version <= cache[req[u].block]
      BY <3>1 DEF Cached, TypeOK, InCache, Request, Version
    <3> QED  BY <3>1, <3>2, <1>3
  <2> QED  BY <2>1, <2>2
<1>6. AnsweredWritesKept'
  BY <1>3 DEF Cached, TypeOK, AnsweredWritesKept, Version
<1> QED  BY <1>2, <1>4, <1>5, <1>6 DEF Cached

LEMMA SyncCached ==
    ASSUME Cached, NEW t \in Task, SyncAll(t) \/ SyncFails(t)
    PROVE  Cached'
<1> USE DEF SyncAll, SyncFails, Goto, told
<1>1. TypeOK'
  BY DEF Cached, TypeOK
<1>2. Ordered'
  BY DEF Cached, TypeOK, Ordered, Version
<1>3. InCache'
  BY DEF Cached, TypeOK, InCache
<1> QED  BY <1>1, <1>2, <1>3 DEF Cached, AnsweredWritesKept

LEMMA FinishCached ==
    ASSUME Cached, NEW t \in Task, WriteFails(t) \/ Answer(t)
    PROVE  Cached'
<1> USE ConstantsAssumption DEF Finish, Goto, told
<1>1. NoRequest \in Request
  BY DEF NoRequest, Request, Version
<1>2. CASE WriteFails(t)
  BY <1>1, <1>2
  DEF WriteFails, Cached, TypeOK, Ordered, InCache, AnsweredWritesKept
<1>3. CASE Answer(t)
  <2> USE <1>3 DEF Answer
  <2> DEFINE b == req[t].block
             v == req[t].version
  <2>1. b \in Block /\ v \in Version /\ v <= cache[b] /\ pc[t] \in {"written", "synced", "unsynced"}
    BY DEF Cached, TypeOK, InCache, Request
  <2>2. Later(answered[b], v) \in Version /\ Later(promised[b], v) \in Version
    BY <2>1 DEF Later, Cached, TypeOK
  <2>3. TypeOK'
    BY <1>1, <2>1, <2>2 DEF Cached, TypeOK
  <2>4. InCache'
    BY DEF Cached, TypeOK, InCache
  <2>5. AnsweredWritesKept'
    BY <2>1 DEF Cached, TypeOK, AnsweredWritesKept, Later, Version
  <2> QED  BY <2>3, <2>4, <2>5 DEF Cached, Ordered
<1> QED  BY <1>2, <1>3

-----------------------------------------------------------------------------

LEMMA InitCached == Init => Cached
<1> SUFFICES ASSUME Init PROVE Cached
  OBVIOUS
<1>1. 0 \in Version /\ NoRequest \in Request
  BY ConstantsAssumption DEF NoRequest, Request, Version
<1>2. TypeOK
  BY <1>1 DEF Init, TypeOK
<1>3. Ordered /\ InCache /\ AnsweredWritesKept
  BY DEF Init, Ordered, InCache, AnsweredWritesKept
<1> QED  BY <1>2, <1>3 DEF Cached

LEMMA NextCached == Cached /\ [Next]_vars => Cached'
<1> SUFFICES ASSUME Cached, [Next]_vars PROVE Cached'
  OBVIOUS
<1>1. ASSUME NEW t \in Task, NEW b \in Block, NEW sync \in BOOLEAN, OpenFile(t, b, sync)
      PROVE  Cached'
  BY <1>1, OpenCached
<1>2. ASSUME NEW t \in Task, Step(t) PROVE Cached'
  BY <1>2, WriteCached, SyncCached, FinishCached DEF Step
<1>3. ASSUME NEW b \in Block, WriteBack(b) PROVE Cached'
  <2> USE <1>3 DEF WriteBack, server, told
  <2>1. TypeOK'
    BY DEF Cached, TypeOK
  <2>2. Ordered'
    BY DEF Cached, TypeOK, Ordered, Version
  <2> QED  BY <2>1, <2>2 DEF Cached, InCache, AnsweredWritesKept
<1>4. CASE Restart \/ PowerFailure
  <2> USE <1>4, ConstantsAssumption DEF Restart, PowerFailure, AllIdle, told
  <2>1. NoRequest \in Request
    BY DEF NoRequest, Request, Version
  <2>2. TypeOK'
    BY <2>1 DEF Cached, TypeOK
  <2>3. Ordered' /\ AnsweredWritesKept'
    BY DEF Cached, TypeOK, Ordered, AnsweredWritesKept, Version
  <2>4. InCache'
    BY DEF InCache
  <2> QED  BY <2>2, <2>3, <2>4 DEF Cached
<1>5. CASE UNCHANGED vars
  BY <1>5 DEF vars, Cached, TypeOK, Ordered, InCache, AnsweredWritesKept
<1> QED  BY <1>1, <1>2, <1>3, <1>4, <1>5 DEF Next

\* Types hold, whatever requests, restarts and power failures come.
THEOREM TypeCorrect == Spec => []TypeOK
<1>1. Cached => TypeOK
  BY DEF Cached
<1> QED  BY InitCached, NextCached, <1>1, PTL DEF Spec

\* Until the power fails no answered WRITE is undone, by other requests, failed
\* syncs or restarts of the server.
THEOREM WritesKept == Spec => []AnsweredWritesKept
<1>1. Cached => AnsweredWritesKept
  BY DEF Cached
<1> QED  BY InitCached, NextCached, <1>1, PTL DEF Spec

-----------------------------------------------------------------------------
(* What sync_all wrote.                                                     *)

LEMMA NextDurable == Durable /\ [Next]_vars => Durable'
<1> SUFFICES ASSUME Durable, [Next]_vars PROVE OnDisk' /\ PromisedOnDisk'
  BY NextCached DEF Durable
<1> USE DEF Durable, Cached, TypeOK, Goto, Finish, told
<1>1. ASSUME NEW t \in Task, NEW b \in Block, NEW sync \in BOOLEAN, OpenFile(t, b, sync)
      PROVE  OnDisk' /\ PromisedOnDisk'
  BY <1>1 DEF OpenFile, OnDisk, PromisedOnDisk
<1>2. ASSUME NEW t \in Task, WriteAll(t) \/ WriteFails(t) PROVE OnDisk' /\ PromisedOnDisk'
  BY <1>2 DEF WriteAll, WriteFails, OnDisk, PromisedOnDisk
<1>3. ASSUME NEW t \in Task, SyncAll(t) PROVE OnDisk' /\ PromisedOnDisk'
  <2> USE <1>3 DEF SyncAll
  <2>1. \A c \in Block : disk'[c] = cache[c] /\ disk[c] <= cache[c]
                         /\ disk[c] \in Nat /\ cache[c] \in Nat /\ promised[c] \in Nat
    BY DEF Ordered, Version
  <2>2. PromisedOnDisk'
    BY <2>1 DEF PromisedOnDisk
  <2>3. ASSUME NEW u \in Task, pc'[u] = "synced" PROVE req'[u].version <= disk'[req'[u].block]
    <3>1. req'[u] = req[u] /\ pc[u] \in {"written", "synced"} /\ req[u].block \in Block
      BY <2>3
    <3>2. req[u].version <= cache[req[u].block]
      BY <3>1 DEF InCache
    <3> QED  BY <3>1, <3>2, <2>1
  <2> QED  BY <2>2, <2>3 DEF OnDisk
<1>4. ASSUME NEW t \in Task, Answer(t) PROVE OnDisk' /\ PromisedOnDisk'
  <2> USE <1>4 DEF Answer
  <2>1. pc[t] = "synced" => req[t].version <= disk[req[t].block]
    BY DEF OnDisk
  <2>2. PromisedOnDisk'
    BY <2>1 DEF PromisedOnDisk, Later
  <2> QED  BY <2>2 DEF OnDisk
<1>5. ASSUME NEW b \in Block, WriteBack(b) PROVE OnDisk' /\ PromisedOnDisk'
  <2> USE <1>5 DEF WriteBack, server
  <2>1. \A c \in Block : disk'[c] >= disk[c] /\ disk[c] \in Nat /\ disk'[c] \in Nat
                         /\ promised[c] \in Nat
    BY DEF Ordered, Version
  <2>2. PromisedOnDisk'
    BY <2>1 DEF PromisedOnDisk
  <2>3. \A u \in Task : pc[u] = "synced" => req[u].block \in Block /\ req[u].version \in Nat
    BY DEF Request, Version
  <2> QED  BY <2>1, <2>2, <2>3 DEF OnDisk
<1>6. CASE Restart \/ PowerFailure
  BY <1>6 DEF Restart, PowerFailure, AllIdle, OnDisk, PromisedOnDisk
<1>7. ASSUME NEW t \in Task, SyncFails(t) PROVE OnDisk' /\ PromisedOnDisk'
  BY <1>7 DEF SyncFails, OnDisk, PromisedOnDisk
<1>8. CASE UNCHANGED vars
  BY <1>8 DEF vars, OnDisk, PromisedOnDisk
<1> QED  BY <1>1, <1>2, <1>3, <1>4, <1>5, <1>6, <1>7, <1>8 DEF Next, Step

LEMMA InitDurable == Init => Durable
BY InitCached DEF Init, Durable, OnDisk, PromisedOnDisk

LEMMA DurableKeepsPromises == Durable => FileSyncSurvives
<1> SUFFICES ASSUME Durable, NEW b \in Block PROVE promised[b] <= cache[b]
  BY DEF FileSyncSurvives
<1>1. promised[b] \in Nat /\ disk[b] \in Nat /\ cache[b] \in Nat
  BY DEF Durable, Cached, TypeOK, Version
<1>2. promised[b] <= disk[b] /\ disk[b] <= cache[b]
  BY DEF Durable, Cached, Ordered, PromisedOnDisk
<1> QED  BY <1>1, <1>2

\* A WRITE that asked for FILE_SYNC, was answered, and whose sync_all did not
\* fail, survives power failures.
THEOREM SyncedSurvive == Spec => []FileSyncSurvives
BY InitDurable, NextDurable, DurableKeepsPromises, PTL DEF Spec

-----------------------------------------------------------------------------

LEMMA StepStores ==
    ASSUME Durable, Durable', [Next]_vars
    PROVE  [Store!StoreNext]_(Store!storeVars)
<1> USE DEF Store!storeVars
<1>0. FileSyncSurvives'
  BY DurableKeepsPromises, PTL
<1>1. ASSUME NEW t \in Task, WriteAll(t) PROVE Store!StoreNext
  <2> USE <1>1 DEF WriteAll, told
  <2>1. req[t].block \in Block /\ cache \in [Block -> Version] /\ version \in Nat
        /\ cache[req[t].block] \in Nat /\ cache[req[t].block] <= version
    BY DEF Durable, Cached, TypeOK, Ordered, Version
  <2>2. cache'[req[t].block] = version + 1
    BY <2>1
  <2>3. cache'[req[t].block] > cache[req[t].block]
    BY <2>1, <2>2
  <2> QED  BY <2>1, <2>2, <2>3 DEF Store!StoreNext, Store!StoreWrite
<1>2. ASSUME NEW t \in Task, Answer(t) PROVE Store!StoreNext \/ UNCHANGED Store!storeVars
  <2> USE <1>2 DEF Answer, Finish, Goto
  <2> DEFINE b == req[t].block
  <2>1. CASE pc[t] # "synced"
    BY <2>1
  <2>2. CASE pc[t] = "synced"
    <3>1. b \in Block /\ promised \in [Block -> Version]
      BY <2>2 DEF Durable, Cached, TypeOK
    <3>2. promised' = [promised EXCEPT ![b] = promised'[b]]
      BY <2>2, <3>1
    <3>3. promised'[b] >= promised[b]
      BY <2>2, <3>1 DEF Later, Durable, Cached, TypeOK, Request, Version
    <3>4. promised'[b] <= cache[b]
      BY <1>0, <3>1 DEF FileSyncSurvives
    <3> QED  BY <3>1, <3>2, <3>3, <3>4 DEF Store!StoreNext, Store!StorePromise
  <2> QED  BY <2>1, <2>2 DEF Durable, Cached, TypeOK
<1>3. CASE PowerFailure
  <2> USE <1>3 DEF PowerFailure, told
  <2>1. cache' = [b \in Block |-> cache'[b]]
    BY DEF Durable, Cached, TypeOK
  <2>2. \A b \in Block : promised[b] <= cache'[b] /\ cache'[b] <= cache[b]
    BY DEF Durable, Cached, Ordered, PromisedOnDisk
  <2> QED  BY <2>1, <2>2 DEF Store!StoreNext, Store!StoreLoss
<1>4. ASSUME NEW t \in Task, WriteFails(t) \/ SyncAll(t) \/ SyncFails(t)
      PROVE  UNCHANGED Store!storeVars
  BY <1>4 DEF WriteFails, SyncAll, SyncFails, told
<1>5. ASSUME NEW t \in Task, NEW b \in Block, NEW sync \in BOOLEAN, OpenFile(t, b, sync)
      PROVE  UNCHANGED Store!storeVars
  BY <1>5 DEF OpenFile, told
<1>6. ASSUME (\E b \in Block : WriteBack(b)) \/ Restart \/ UNCHANGED vars
      PROVE  UNCHANGED Store!storeVars
  BY <1>6 DEF WriteBack, Restart, vars, told
<1> QED  BY <1>1, <1>2, <1>3, <1>4, <1>5, <1>6 DEF Next, Step

\* The server implements a store that keeps its promises.
THEOREM Implements == Spec => ImplementsStore
<1>1. Init => Store!StoreInit
  BY DEF Init, Store!StoreInit
<1> QED  BY <1>1, InitDurable, NextDurable, StepStores, PTL
         DEF Spec, ImplementsStore, Store!StoreSpec
=============================================================================
