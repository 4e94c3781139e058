------------------------- MODULE FileHandlesProofs -------------------------
(***************************************************************************)
(* Proofs about FileHandles, for any paths, tasks and bounds.              *)
(*                                                                         *)
(* Sound is inductive: the types, what a task inside a call has in hand,   *)
(* and the two invariants that tie the maps and the counter together.      *)
(* Settled adds what holds of every id but the contended ones: one task at *)
(* most has it in hand, and then it is not in the table yet.               *)
(*                                                                         *)
(* The last part proves that the table under its two locks implements this *)
(* one, step by step, so that what holds here holds there.                 *)
(***************************************************************************)
EXTENDS LockedFileHandles, TLAPS

\* What a task has in hand: a path from the moment the call begins, an id from
\* the moment it drew one or was presented with one.
InHand ==
    \A t \in Task :
        /\ pc[t] # "idle" => want[t] \in Path
        /\ pc[t] \in {"insert", "search"} => id[t] \in Fhid

\* The key in force is the one drawn by this start, and a handle carries the
\* key of the start that gave it out.
KeyPerStart ==
    /\ key = epoch
    /\ \A a \in answers : a.handle.key = a.epoch /\ a.epoch <= epoch

Sound ==
    /\ TypeOK
    /\ InHand
    /\ KeyPerStart
    /\ PathMapClosed
    /\ CounterAhead

-----------------------------------------------------------------------------

LEMMA InitSound == Init => Sound
BY ConstantsAssumption
   DEF Init, Sound, TypeOK, InHand, KeyPerStart, PathMapClosed, CounterAhead, Epoch, Fhid

\* Alloc takes an id that is not in the table.
LEMMA AllocSound == ASSUME Sound, NEW t \in Task, Alloc(t) PROVE Sound'
<1> USE ConstantsAssumption DEF Sound, Alloc, Contend
<1>1. fhCounter \in Fhid  BY DEF TypeOK, Fhid
<1>2. TypeOK'  BY <1>1 DEF TypeOK, Fhid
<1>3. InHand'  BY <1>1 DEF TypeOK, InHand
<1>4. KeyPerStart'  BY DEF KeyPerStart
<1>5. PathMapClosed'  BY DEF PathMapClosed
<1>6. CounterAhead'  BY <1>1 DEF TypeOK, CounterAhead, Fhid
<1> QED  BY <1>2, <1>3, <1>4, <1>5, <1>6

\* Entering p in both maps under n keeps them closed.
LEMMA WriteClosed ==
    ASSUME TypeOK, PathMapClosed, NEW n \in Fhid, NEW p \in Path,
           fhMap' = [fhMap EXCEPT ![n] = p],
           pathMap' = [pathMap EXCEPT ![p] = n]
    PROVE  PathMapClosed'
BY ConstantsAssumption DEF TypeOK, PathMapClosed, Fhid

LEMMA InsertSound == ASSUME Sound, NEW t \in Task, Insert(t) PROVE Sound'
<1> USE ConstantsAssumption DEF Sound, Insert, Finish
<1>1. id[t] \in Fhid /\ want[t] \in Path  BY DEF InHand
<1>2. TypeOK'
  <2>1. answers' \subseteq Answer
    BY <1>1 DEF TypeOK, Give, Encode, Answer, Handle
  <2> QED  BY <1>1, <2>1 DEF TypeOK, Fhid
<1>3. InHand'  BY DEF TypeOK, InHand
<1>4. KeyPerStart'  BY DEF KeyPerStart, TypeOK, Epoch, Give, Encode
<1>5. PathMapClosed'  BY <1>1, WriteClosed
<1>6. CounterAhead'  BY <1>1 DEF TypeOK, CounterAhead
<1> QED  BY <1>2, <1>3, <1>4, <1>5, <1>6

LEMMA RebuildSound == ASSUME Sound, NEW t \in Task, Rebuild(t) PROVE Sound'
<1> USE ConstantsAssumption DEF Sound, Rebuild, Finish
<1>1. id[t] \in Fhid /\ want[t] \in Path  BY DEF InHand
<1>2. TypeOK'  BY <1>1 DEF TypeOK, Fhid
<1>3. InHand'  BY DEF TypeOK, InHand
<1>4. KeyPerStart'  BY DEF KeyPerStart
<1>5. PathMapClosed'  BY <1>1, WriteClosed
<1>6. CounterAhead'  BY <1>1 DEF TypeOK, CounterAhead, Fhid
<1> QED  BY <1>2, <1>3, <1>4, <1>5, <1>6

LEMMA LookupHitSound ==
    ASSUME Sound, NEW t \in Task, NEW p \in Path, LookupHit(t, p) PROVE Sound'
<1> USE ConstantsAssumption DEF Sound, LookupHit
<1>1. pathMap[p] \in Fhid /\ fhMap[pathMap[p]] \in Path
  BY DEF TypeOK, Known, Fhid
<1>2. TypeOK'
  <2>1. answers' \subseteq Answer
    BY <1>1 DEF TypeOK, Give, Encode, Answer, Handle
  <2> QED  BY <2>1 DEF TypeOK
<1>3. InHand'  BY DEF InHand
<1>4. KeyPerStart'  BY DEF KeyPerStart, TypeOK, Epoch, Give, Encode
<1>5. PathMapClosed' /\ CounterAhead'  BY DEF PathMapClosed, CounterAhead
<1> QED  BY <1>2, <1>3, <1>4, <1>5

LEMMA PutfhSound ==
    ASSUME Sound, NEW t \in Task, NEW n \in Fhid, NEW p \in Path, Putfh(t, n, p)
    PROVE  Sound'
<1> USE ConstantsAssumption DEF Sound, Putfh, Contend
<1>1. TypeOK'  BY DEF TypeOK, Fhid
<1>2. InHand'  BY DEF TypeOK, InHand
<1>3. KeyPerStart' /\ PathMapClosed'  BY DEF KeyPerStart, PathMapClosed
<1>4. CounterAhead'  BY DEF TypeOK, CounterAhead
<1> QED  BY <1>1, <1>2, <1>3, <1>4

LEMMA NextSound == Sound /\ [Next]_vars => Sound'
<1> SUFFICES ASSUME Sound, [Next]_vars PROVE Sound'
  OBVIOUS
<1>1. ASSUME NEW t \in Task, NEW p \in Path, LookupMiss(t, p) PROVE Sound'
  <2> USE <1>1 DEF Sound, LookupMiss
  <2>1. TypeOK' /\ InHand'  BY DEF TypeOK, InHand
  <2>2. KeyPerStart' /\ PathMapClosed'  BY DEF KeyPerStart, PathMapClosed
  <2>3. CounterAhead'  BY DEF TypeOK, CounterAhead
  <2> QED  BY <2>1, <2>2, <2>3
<1>2. ASSUME NEW t \in Task, RebuildNotFound(t) PROVE Sound'
  <2> USE <1>2, ConstantsAssumption DEF Sound, RebuildNotFound, Finish
  <2>1. TypeOK'  BY DEF TypeOK
  <2>4. InHand'  BY DEF TypeOK, InHand
  <2>2. KeyPerStart' /\ PathMapClosed'  BY DEF KeyPerStart, PathMapClosed
  <2>3. CounterAhead'  BY DEF TypeOK, CounterAhead
  <2> QED  BY <2>1, <2>2, <2>3, <2>4
<1>3. CASE Restart
  <2> USE <1>3, ConstantsAssumption DEF Sound, Restart
  <2>1. TypeOK' /\ InHand'  BY DEF TypeOK, InHand, Epoch
  <2>2. KeyPerStart'  BY DEF KeyPerStart, TypeOK, Answer, Epoch
  <2>3. PathMapClosed' /\ CounterAhead'  BY DEF PathMapClosed, CounterAhead
  <2> QED  BY <2>1, <2>2, <2>3
<1>4. CASE UNCHANGED vars
  BY <1>4 DEF vars, Sound, TypeOK, InHand, KeyPerStart, PathMapClosed, CounterAhead
<1> QED
  BY <1>1, <1>2, <1>3, <1>4, AllocSound, InsertSound, RebuildSound, LookupHitSound,
     PutfhSound DEF Next

\* The table, its counter and the handles given out stay consistent through
\* rebuilds and restarts: the inductive invariant.
THEOREM AlwaysSound == Spec => []Sound
BY InitSound, NextSound, PTL DEF Spec

\* The variables keep their types: in particular no table access is outside the
\* table, for any number of paths and tasks.
THEOREM TypeCorrect == Spec => []TypeOK
BY AlwaysSound, PTL DEF Sound

\* An id that path_to_fhid names always has an entry in fh_map.
THEOREM MapsAgree == Spec => []PathMapClosed
BY AlwaysSound, PTL DEF Sound

\* A fresh id is never one in the table: fh_counter stays ahead, through
\* concurrent allocations, rebuilds of old ids and restarts.
THEOREM FreshIds == Spec => []CounterAhead
BY AlwaysSound, PTL DEF Sound

\* A handle given out before the last restart never resolves.
THEOREM StaleForEver == Spec => []OldHandlesStale
<1>1. Sound => OldHandlesStale
  BY DEF Sound, KeyPerStart, OldHandlesStale, Resolve
<1> QED  BY <1>1, AlwaysSound, PTL

-----------------------------------------------------------------------------

\* A task has a drawn or a presented id in hand.
Holds(t, n) == pc[t] \in {"insert", "search"} /\ id[t] = n

\* Of an id that is not contended: handles with it resolve to their paths,
\* path_to_fhid has it for the path of its entry only, and one task at most has
\* it in hand, while it has no entry.
SettledId(n) ==
    /\ \A a \in answers : a.epoch = epoch /\ a.handle.fhid = n => fhMap[n] = a.path
    /\ \A p \in Path : pathMap[p] = n => fhMap[n] = p
    /\ \A t \in Task : Holds(t, n) => fhMap[n] = NoPath
    /\ \A t, u \in Task : Holds(t, n) /\ Holds(u, n) => t = u

Settled == \A n \in Fhid \ contended : SettledId(n)

LEMMA InitSettled == Init => Settled
BY DEF Init, Settled, SettledId, Holds, Fhid

LEMMA LookupHitSettled ==
    ASSUME Sound, Settled, NEW t \in Task, NEW p \in Path, LookupHit(t, p)
    PROVE  Settled'
<1> SUFFICES ASSUME NEW n \in Fhid \ contended PROVE SettledId(n)'
  BY DEF Settled, LookupHit, Fhid
<1>1. SettledId(n)
  BY DEF Settled
<1>2. \A a \in answers' : a.epoch = epoch /\ a.handle.fhid = n => fhMap[n] = a.path
  BY <1>1 DEF SettledId, LookupHit, Give, Encode
<1> QED  BY <1>1, <1>2 DEF SettledId, Holds, LookupHit

\* The id drawn has no entry, and no task has drawn it before; one that is
\* searching for it makes it contended.
LEMMA AllocSettled ==
    ASSUME Sound, Settled, NEW t \in Task, Alloc(t) PROVE Settled'
<1> USE DEF Alloc
<1> SUFFICES ASSUME NEW n \in Fhid, n \notin contended' PROVE SettledId(n)'
  BY DEF Settled, Fhid
<1>1. SettledId(n)
  BY DEF Settled, Contend
<1>2. \A u \in Task \ {t} : Holds(u, n)' <=> Holds(u, n)
  BY DEF Sound, TypeOK, Holds
<1>3. Holds(t, n)' => n = fhCounter
  BY DEF Sound, TypeOK, Holds
<1>4. ASSUME n = fhCounter PROVE fhMap[n] = NoPath /\ \A u \in Task \ {t} : ~Holds(u, n)
  <2>1. \A u \in Task \ {t} : ~(pc[u] = "search" /\ id[u] = n)
    BY <1>4 DEF Contend
  <2>2. fhMap[n] = NoPath /\ \A u \in Task : pc[u] = "insert" => id[u] # n
    BY <1>4 DEF Sound, TypeOK, CounterAhead, Fhid
  <2> QED  BY <2>1, <2>2 DEF Holds
<1>5. \A u \in Task : Holds(u, n)' => fhMap[n] = NoPath
  BY <1>1, <1>2, <1>3, <1>4 DEF SettledId
<1>6. \A u, v \in Task : Holds(u, n)' /\ Holds(v, n)' => u = v
  BY <1>1, <1>2, <1>3, <1>4 DEF SettledId
<1> QED  BY <1>1, <1>5, <1>6 DEF SettledId

\* An id that another task has in hand becomes contended.
LEMMA PutfhSettled ==
    ASSUME Sound, Settled, NEW t \in Task, NEW m \in Fhid, NEW p \in Path, Putfh(t, m, p)
    PROVE  Settled'
<1> USE DEF Putfh
<1> SUFFICES ASSUME NEW n \in Fhid, n \notin contended' PROVE SettledId(n)'
  BY DEF Settled, Fhid
<1>1. SettledId(n)
  BY DEF Settled, Contend
<1>2. \A u \in Task \ {t} : Holds(u, n)' <=> Holds(u, n)
  BY DEF Sound, TypeOK, Holds
<1>3. Holds(t, n)' => n = m
  BY DEF Sound, TypeOK, Holds
<1>4. n = m => fhMap[n] = NoPath /\ \A u \in Task \ {t} : ~Holds(u, n)
  BY DEF Contend, Holds
<1>5. \A u \in Task : Holds(u, n)' => fhMap[n] = NoPath
  BY <1>1, <1>2, <1>3, <1>4 DEF SettledId
<1>6. \A u, v \in Task : Holds(u, n)' /\ Holds(v, n)' => u = v
  BY <1>1, <1>2, <1>3, <1>4 DEF SettledId
<1> QED  BY <1>1, <1>5, <1>6 DEF SettledId

\* Task t enters path q in both maps under the id it holds, and has nothing in
\* hand any more.  Only an entry that was absent is written, unless contended.
LEMMA WriteSettled ==
    ASSUME Sound, Settled, NEW t \in Task, NEW m \in Fhid, NEW q \in Path, Holds(t, m),
           fhMap' = [fhMap EXCEPT ![m] = q],
           pathMap' = [pathMap EXCEPT ![q] = m],
           pc' = [pc EXCEPT ![t] = "idle"], id' = [id EXCEPT ![t] = 0],
           UNCHANGED <<epoch, contended>>,
           \A a \in answers' : a \in answers \/ (a.handle.fhid = m /\ a.path = q)
    PROVE  Settled'
<1> SUFFICES ASSUME NEW n \in Fhid \ contended PROVE SettledId(n)'
  BY DEF Settled, Fhid
<1>1. SettledId(n)
  BY DEF Settled
<1>2. \A u \in Task : Holds(u, n)' => Holds(u, n) /\ u # t
  BY DEF Sound, TypeOK, Holds
<1>3. CASE n = m
  <2>1. fhMap[n] = NoPath /\ fhMap'[n] = q
    BY <1>1, <1>3 DEF SettledId, Sound, TypeOK
  <2>2. \A u \in Task : ~Holds(u, n)'
    BY <1>1, <1>2, <1>3 DEF SettledId
  <2>3. \A a \in answers : a.path \in Path
    BY DEF Sound, TypeOK, Answer
  <2>4. \A a \in answers' : a.epoch = epoch /\ a.handle.fhid = n => a.path = q
    BY <1>1, <2>1, <2>3, ConstantsAssumption DEF SettledId
  <2>5. \A p \in Path : pathMap'[p] = n => p = q
    BY <1>1, <2>1, ConstantsAssumption DEF SettledId, Sound, TypeOK
  <2> QED  BY <2>1, <2>2, <2>4, <2>5 DEF SettledId
<1>4. CASE n # m
  <2>1. fhMap'[n] = fhMap[n]
    BY <1>4 DEF Sound, TypeOK
  <2>2. \A p \in Path : pathMap'[p] = n => pathMap[p] = n
    BY <1>4 DEF Sound, TypeOK
  <2> QED  BY <1>1, <1>2, <1>4, <2>1, <2>2 DEF SettledId
<1> QED  BY <1>3, <1>4

LEMMA InsertSettled ==
    ASSUME Sound, Settled, NEW t \in Task, Insert(t) PROVE Settled'
<1> USE DEF Insert, Finish
<1>1. id[t] \in Fhid /\ want[t] \in Path /\ Holds(t, id[t])
  BY DEF Sound, InHand, Holds
<1>2. \A a \in answers' : a \in answers \/ (a.handle.fhid = id[t] /\ a.path = want[t])
  BY DEF Give, Encode
<1> QED  BY <1>1, <1>2, WriteSettled

LEMMA RebuildSettled ==
    ASSUME Sound, Settled, NEW t \in Task, Rebuild(t) PROVE Settled'
<1> USE DEF Rebuild, Finish
<1>1. id[t] \in Fhid /\ want[t] \in Path /\ Holds(t, id[t])
  BY DEF Sound, InHand, Holds
<1> QED  BY <1>1, WriteSettled

LEMMA NextSettled == Sound /\ Settled /\ [Next]_vars => Settled'
<1> SUFFICES ASSUME Sound, Settled, [Next]_vars PROVE Settled'
  OBVIOUS
<1>1. ASSUME NEW t \in Task, NEW p \in Path, LookupMiss(t, p) PROVE Settled'
  <2>1. \A u \in Task, n \in Fhid : Holds(u, n)' => Holds(u, n)
    BY <1>1 DEF Sound, TypeOK, Holds, LookupMiss
  <2> QED  BY <1>1, <2>1 DEF Settled, SettledId, LookupMiss, Fhid
<1>2. ASSUME NEW t \in Task, RebuildNotFound(t) PROVE Settled'
  <2>1. \A u \in Task, n \in Fhid : Holds(u, n)' => Holds(u, n)
    BY <1>2 DEF Sound, TypeOK, Holds, RebuildNotFound, Finish
  <2> QED  BY <1>2, <2>1 DEF Settled, SettledId, RebuildNotFound, Fhid
<1>3. CASE Restart
  <2>1. \A a \in answers' : a.epoch # epoch'
    BY <1>3 DEF Sound, TypeOK, Answer, Epoch, KeyPerStart, Restart
  <2>2. \A u \in Task, n \in Fhid : ~Holds(u, n)'
    BY <1>3 DEF Restart, Holds
  <2>3. \A p \in Path : pathMap'[p] = 0
    BY <1>3 DEF Restart
  <2> QED  BY <2>1, <2>2, <2>3 DEF Settled, SettledId, Fhid
<1>4. CASE UNCHANGED vars
  BY <1>4 DEF vars, Settled, SettledId, Holds, Fhid
<1> QED
  BY <1>1, <1>2, <1>3, <1>4, AllocSettled, InsertSettled, LookupHitSettled, PutfhSettled,
     RebuildSettled DEF Next

\* Every handle of this start resolves to the path it was asked for, however
\* many tasks allocate and rebuild at once and whatever PUTFH presents, but for
\* the ids that PUTFH was searching for while another task had them in hand.
THEOREM HandlesSound == Spec => []SoundUnlessContended
<1>1. Sound /\ Settled => SoundUnlessContended
  <2> SUFFICES ASSUME Sound, Settled, NEW a \in answers, a.epoch = epoch,
                      a.handle.fhid \notin contended
               PROVE  Resolve(a.handle) = a.path
    BY DEF SoundUnlessContended
  <2>1. a.handle.key = key /\ a.handle.fhid \in Fhid
    BY DEF Sound, KeyPerStart, TypeOK, Answer, Handle
  <2> QED  BY <2>1 DEF Settled, SettledId, Resolve
<1>2. Spec => []Settled
  BY InitSettled, AlwaysSound, NextSettled, PTL DEF Spec
<1> QED  BY <1>1, <1>2, AlwaysSound, PTL

-----------------------------------------------------------------------------

\* Where a task can be between two lock operations.
LockPc == {"idle", "lookup", "both", "alloc", "insert", "insertLocked", "search", "rebuildLocked"}

\* FileHandles' name for each of them.
TableView(l) ==
    CASE l \in {"idle", "lookup", "both"} -> "idle"
      [] l \in {"insert", "insertLocked"} -> "insert"
      [] l \in {"search", "rebuildLocked"} -> "search"
      [] OTHER -> "alloc"

\* A task inside a lookup is among path_to_fhid's readers, so nobody writes
\* what it has read; and it has drawn no id.
LocksHeld ==
    /\ Mapped
    /\ lockPc \in [Task -> LockPc]
    /\ lockWant \in [Task -> Path \cup {NoPath}]
    /\ id \in [Task -> 0..MaxFhid]
    /\ \A t \in Task :
          /\ lockPc[t] \in {"lookup", "both"} => t \in pathLock.readers /\ lockWant[t] \in Path
          /\ lockPc[t] = "both" => pathMap[lockWant[t]] # 0
          /\ lockPc[t] \in {"idle", "lookup", "both"} => id[t] = 0
          /\ lockPc[t] = "idle" => lockWant[t] = NoPath
    /\ pathLock.readers \subseteq Task
    /\ pathLock = [readers |-> pathLock.readers, writer |-> NoTask]

\* The variables that FileHandles does not share, after a step of task t.
LEMMA TableStep ==
    ASSUME LocksHeld, Mapped', NEW t \in Task, NEW l \in LockPc, NEW w,
           lockPc' = [lockPc EXCEPT ![t] = l],
           lockWant' = [lockWant EXCEPT ![t] = w]
    PROVE  /\ pc' = [pc EXCEPT ![t] = TableView(l)]
           /\ want' = [want EXCEPT ![t] = IF l \in {"lookup", "both"} THEN NoPath ELSE w]
           /\ pc[t] = TableView(lockPc[t])
           /\ want[t] = IF lockPc[t] \in {"lookup", "both"} THEN NoPath ELSE lockWant[t]
BY DEF LocksHeld, Mapped, Locks!TablePc, Locks!TableWant, LockPc, TableView

LEMMA SameFunction == ASSUME NEW S, NEW T, NEW f \in [S -> T], NEW s \in S PROVE f = [f EXCEPT ![s] = f[s]]
OBVIOUS

\* One lemma for each step: taking a lock is no step of the table.
LEMMA TakePathRefines ==
    ASSUME LocksHeld, Mapped', NEW t \in Task, NEW p \in Path, Locks!TakePath(t, p)
    PROVE  UNCHANGED vars /\ LocksHeld'
<1> USE DEF Locks!TakePath, Locks!Goto
<1>1. /\ pc' = [pc EXCEPT ![t] = "idle"] /\ want' = [want EXCEPT ![t] = NoPath]
      /\ pc[t] = "idle" /\ want[t] = NoPath
  BY TableStep DEF TableView, LockPc, LocksHeld
<1>2. pc' = pc /\ want' = want
  BY <1>1 DEF LocksHeld, Mapped, Locks!TablePc, Locks!TableWant
<1>3. UNCHANGED vars
  BY <1>2 DEF vars
<1>4. LocksHeld'
  BY DEF LocksHeld, LockPc, Locks!CanRead
<1> QED  BY <1>3, <1>4

\* A call that returns leaves no trace of itself behind.
LEMMA FinishHolds ==
    ASSUME LocksHeld, Mapped', NEW t \in Task, Locks!Finish(t),
           pathLock' = [pathLock EXCEPT !.readers = @ \ {t}] \/ pathLock' = pathLock,
           \A u \in Task : lockPc[u] = "both" /\ u # t => pathMap'[lockWant[u]] # 0
    PROVE  LocksHeld'
<1> USE DEF LocksHeld, Locks!Finish, Locks!Goto
<1>1. id' \in [Task -> 0..MaxFhid]
  BY ConstantsAssumption
<1>2. lockPc' \in [Task -> LockPc] /\ lockWant' \in [Task -> Path \cup {NoPath}]
  BY DEF LockPc
<1>3. ASSUME NEW u \in Task
      PROVE  /\ lockPc'[u] \in {"lookup", "both"} => u \in pathLock'.readers /\ lockWant'[u] \in Path
             /\ lockPc'[u] = "both" => pathMap'[lockWant'[u]] # 0
             /\ lockPc'[u] \in {"idle", "lookup", "both"} => id'[u] = 0
             /\ lockPc'[u] = "idle" => lockWant'[u] = NoPath
  <2>1. CASE u = t
    BY <2>1
  <2>2. CASE u # t
    <3>1. lockPc'[u] = lockPc[u] /\ lockWant'[u] = lockWant[u] /\ id'[u] = id[u]
      BY <2>2
    <3>2. u \in pathLock.readers => u \in pathLock'.readers
      BY <2>2
    <3> QED  BY <2>2, <3>1, <3>2
  <2> QED  BY <2>1, <2>2
<1>4. pathLock'.readers \subseteq Task /\ pathLock' = [readers |-> pathLock'.readers, writer |-> NoTask]
  OBVIOUS
<1> QED  BY <1>1, <1>2, <1>3, <1>4

LEMMA PathUnknownRefines ==
    ASSUME LocksHeld, Mapped', NEW t \in Task, Locks!PathUnknown(t)
    PROVE  LookupMiss(t, lockWant[t]) /\ lockWant[t] \in Path /\ LocksHeld'
<1> USE DEF Locks!PathUnknown, Locks!Goto, Locks!data
<1>1. lockWant' = [lockWant EXCEPT ![t] = lockWant[t]]
  BY SameFunction DEF LocksHeld
<1>2. /\ pc' = [pc EXCEPT ![t] = "alloc"] /\ want' = [want EXCEPT ![t] = lockWant[t]]
      /\ pc[t] = "idle"
  BY <1>1, TableStep DEF TableView, LockPc
<1>3. LookupMiss(t, lockWant[t])
  BY <1>2 DEF LookupMiss, Known
<1>4. LocksHeld'
  BY DEF LocksHeld, LockPc
<1> QED  BY <1>3, <1>4 DEF LocksHeld

LEMMA TakeFhRefines ==
    ASSUME LocksHeld, Mapped', NEW t \in Task, Locks!TakeFh(t)
    PROVE  UNCHANGED vars /\ LocksHeld'
<1> USE DEF Locks!TakeFh, Locks!Goto, Locks!data
<1>1. pc' = pc /\ want' = want
  BY DEF LocksHeld, Mapped, Locks!TablePc, Locks!TableWant
<1>2. LocksHeld'
  BY DEF LocksHeld, LockPc
<1> QED  BY <1>1, <1>2 DEF vars

LEMMA LookupDoneRefines ==
    ASSUME LocksHeld, Mapped', NEW t \in Task, Locks!LookupDone(t)
    PROVE  /\ lockWant[t] \in Path
           /\ LookupHit(t, lockWant[t]) \/ LookupMiss(t, lockWant[t])
           /\ LocksHeld'
<1> DEFINE n == pathMap[lockWant[t]]
<1> USE DEF Locks!LookupDone, Locks!Goto
<1>1. lockWant[t] \in Path /\ n # 0 /\ id[t] = 0
  BY DEF LocksHeld
<1>3. CASE fhMap[n] # NoPath
  <2> LocksHeld'
    BY <1>3, FinishHolds DEF LocksHeld
  <2>1. lockPc' = [lockPc EXCEPT ![t] = "idle"] /\ lockWant' = [lockWant EXCEPT ![t] = NoPath]
    BY <1>3 DEF Locks!Finish
  <2>2. pc' = pc /\ want' = want
    BY <2>1 DEF LocksHeld, Mapped, Locks!TablePc, Locks!TableWant
  <2>3. id' = id
    BY <1>1, <1>3 DEF LocksHeld, Locks!Finish
  <2>4. pc[t] = "idle"
    BY <2>1, TableStep DEF TableView, LockPc
  <2>5. LookupHit(t, lockWant[t])
    BY <1>1, <1>3, <2>2, <2>3, <2>4 DEF LookupHit, Known, Give, Encode, Locks!Give
  <2> QED  BY <1>1, <2>5
<1>4. CASE fhMap[n] = NoPath
  <2>1. lockWant' = [lockWant EXCEPT ![t] = lockWant[t]] /\ lockPc' = [lockPc EXCEPT ![t] = "alloc"]
    BY <1>4, SameFunction DEF LocksHeld
  <2>2. pc' = [pc EXCEPT ![t] = "alloc"] /\ want' = [want EXCEPT ![t] = lockWant[t]] /\ pc[t] = "idle"
    BY <2>1, TableStep DEF TableView, LockPc
  <2>3. LookupMiss(t, lockWant[t])
    BY <1>4, <2>2 DEF LookupMiss, Known
  <2>4. /\ UNCHANGED <<lockWant, id, pathMap>> /\ lockPc[t] = "both"
        /\ pathLock' = [pathLock EXCEPT !.readers = @ \ {t}]
    BY <1>4
  <2>5. LocksHeld'
    <3> HIDE DEF Locks!LookupDone
    <3> QED  BY <2>1, <2>4 DEF LocksHeld, LockPc
  <2> QED  BY <1>1, <2>3, <2>5
<1> QED  BY <1>3, <1>4

\* Whoever holds an id here holds it there.
LEMMA InHandSame ==
    ASSUME LocksHeld, NEW t \in Task
    PROVE  /\ pc[t] = "insert" <=> lockPc[t] \in {"insert", "insertLocked"}
           /\ pc[t] = "search" <=> lockPc[t] \in {"search", "rebuildLocked"}
BY DEF LocksHeld, Mapped, Locks!TablePc

LEMMA AllocRefines ==
    ASSUME LocksHeld, TypeOK, Mapped', NEW t \in Task, Locks!Alloc(t)
    PROVE  Alloc(t) /\ LocksHeld'
<1> USE DEF Locks!Alloc, Locks!Goto
<1>1. lockWant' = [lockWant EXCEPT ![t] = lockWant[t]]
  BY SameFunction DEF LocksHeld
<1>2. /\ pc' = [pc EXCEPT ![t] = "insert"] /\ want' = [want EXCEPT ![t] = lockWant[t]]
      /\ pc[t] = "alloc" /\ want[t] = lockWant[t]
  BY <1>1, TableStep DEF TableView, LockPc
<1>3. want' = want
  BY <1>2, SameFunction DEF TypeOK
<1>7. Contend(t, fhCounter, {"search"})
  BY InHandSame DEF Contend, Locks!Contend
<1>4. Alloc(t)
  BY <1>2, <1>3, <1>7 DEF Alloc
<1>5. id' \in [Task -> 0..MaxFhid]
  BY DEF LocksHeld, TypeOK
<1>6. LocksHeld'
  BY <1>5 DEF LocksHeld, LockPc
<1> QED  BY <1>4, <1>6

LEMMA TakeFhToWriteRefines ==
    ASSUME LocksHeld, Mapped', NEW t \in Task,
           Locks!TakeFhToInsert(t) \/ Locks!TakeFhToRebuild(t)
    PROVE  UNCHANGED vars /\ LocksHeld'
<1> USE DEF Locks!TakeFhToInsert, Locks!TakeFhToRebuild, Locks!Goto, Locks!data
<1>1. pc' = pc /\ want' = want
  BY DEF LocksHeld, Mapped, Locks!TablePc, Locks!TableWant
<1>2. LocksHeld'
  BY DEF LocksHeld, LockPc
<1> QED  BY <1>1, <1>2 DEF vars

\* A writer of both maps has waited until nobody reads path_to_fhid.
LEMMA NoReaders ==
    ASSUME LocksHeld, Locks!CanWrite(pathLock), NEW t \in Task
    PROVE  lockPc[t] \notin {"lookup", "both"}
BY DEF LocksHeld, Locks!CanWrite, Locks!Free

LEMMA InsertRefines ==
    ASSUME LocksHeld, Mapped', NEW t \in Task, Locks!Insert(t)
    PROVE  Insert(t) /\ LocksHeld'
<1> USE DEF Locks!Insert, Locks!Finish, Locks!Goto
<1>1. /\ pc' = [pc EXCEPT ![t] = "idle"] /\ want' = [want EXCEPT ![t] = NoPath]
      /\ pc[t] = "insert" /\ want[t] = lockWant[t]
  BY TableStep DEF TableView, LockPc, LocksHeld
<1>2. Insert(t)
  BY <1>1 DEF Insert, Finish, Give, Encode, Locks!Give
<1>3. LocksHeld'
  BY NoReaders, FinishHolds
<1> QED  BY <1>2, <1>3

LEMMA PutfhRefines ==
    ASSUME LocksHeld, TypeOK, Mapped', NEW t \in Task, NEW n \in Fhid, NEW p \in Path,
           Locks!Putfh(t, n, p)
    PROVE  Putfh(t, n, p) /\ LocksHeld'
<1> USE DEF Locks!Putfh, Locks!Goto
<1>1. /\ pc' = [pc EXCEPT ![t] = "search"] /\ want' = [want EXCEPT ![t] = p]
      /\ pc[t] = "idle"
  BY TableStep DEF TableView, LockPc
<1>2. Contend(t, n, {"insert", "search"})
  BY InHandSame DEF Contend, Locks!Contend
<1>3. Putfh(t, n, p)
  BY <1>1, <1>2 DEF Putfh
<1>4. LocksHeld'
  BY DEF LocksHeld, LockPc, Fhid
<1> QED  BY <1>3, <1>4

LEMMA RebuildRefines ==
    ASSUME LocksHeld, Mapped', NEW t \in Task, Locks!Rebuild(t)
    PROVE  Rebuild(t) /\ LocksHeld'
<1> USE DEF Locks!Rebuild, Locks!Finish, Locks!Goto
<1>1. /\ pc' = [pc EXCEPT ![t] = "idle"] /\ want' = [want EXCEPT ![t] = NoPath]
      /\ pc[t] = "search" /\ want[t] = lockWant[t]
  BY TableStep DEF TableView, LockPc, LocksHeld
<1>2. Rebuild(t)
  BY <1>1 DEF Rebuild, Finish
<1>3. LocksHeld'
  BY NoReaders, FinishHolds
<1> QED  BY <1>2, <1>3

LEMMA RebuildNotFoundRefines ==
    ASSUME LocksHeld, Mapped', NEW t \in Task, Locks!RebuildNotFound(t)
    PROVE  RebuildNotFound(t) /\ LocksHeld'
<1> USE DEF Locks!RebuildNotFound, Locks!Finish, Locks!Goto
<1>1. /\ pc' = [pc EXCEPT ![t] = "idle"] /\ want' = [want EXCEPT ![t] = NoPath]
      /\ pc[t] = "search"
  BY TableStep DEF TableView, LockPc, LocksHeld
<1>2. RebuildNotFound(t)
  BY <1>1 DEF RebuildNotFound, Finish
<1>3. LocksHeld'
  BY FinishHolds DEF LocksHeld
<1> QED  BY <1>2, <1>3

LEMMA RestartRefines ==
    ASSUME LocksHeld, Mapped', Locks!Restart
    PROVE  Restart /\ LocksHeld'
<1> USE DEF Locks!Restart
<1>1. pc' = [t \in Task |-> "idle"] /\ want' = [t \in Task |-> NoPath]
  BY DEF Mapped, Locks!TablePc, Locks!TableWant
<1>2. Restart
  BY <1>1 DEF Restart, Fhid, Locks!Fhid
<1>3. LocksHeld'
  BY ConstantsAssumption DEF LocksHeld, LockPc, Locks!Free
<1> QED  BY <1>2, <1>3

LEMMA InitRefines == LocksInit => Init /\ LocksHeld
<1> SUFFICES ASSUME LocksInit PROVE Init /\ LocksHeld
  OBVIOUS
<1> USE DEF LocksInit, Locks!Init
<1>1. pc = [t \in Task |-> "idle"] /\ want = [t \in Task |-> NoPath]
  BY DEF Mapped, Locks!TablePc, Locks!TableWant
<1>2. Init
  BY <1>1 DEF Init, Fhid, Locks!Fhid
<1>3. LocksHeld
  BY ConstantsAssumption DEF LocksHeld, LockPc, Locks!Free
<1> QED  BY <1>2, <1>3

\* Every step of the locks is a step of the table, or none.
LEMMA StepRefines ==
    LocksHeld /\ TypeOK /\ [LocksNext]_<<lockVars, pc, want>> => [Next]_vars /\ LocksHeld'
<1> SUFFICES ASSUME LocksHeld, TypeOK, [LocksNext]_<<lockVars, pc, want>>
             PROVE  [Next]_vars /\ LocksHeld'
  OBVIOUS
<1>1. CASE UNCHANGED <<lockVars, pc, want>>
  BY <1>1 DEF lockVars, Locks!vars, Locks!data, vars, LocksHeld, Mapped, Locks!TablePc, Locks!TableWant
<1>2. CASE LocksNext
  <2> Mapped'
    BY <1>2 DEF LocksNext, Mapped
  <2>1. ASSUME NEW t \in Task, NEW p \in Path, Locks!TakePath(t, p) PROVE [Next]_vars /\ LocksHeld'
    BY <2>1, TakePathRefines
  <2>2. ASSUME NEW t \in Task, NEW n \in Fhid, NEW p \in Path, Locks!Putfh(t, n, p)
        PROVE  [Next]_vars /\ LocksHeld'
    BY <2>2, PutfhRefines DEF Next
  <2>3. ASSUME NEW t \in Task, Locks!Continue(t) PROVE [Next]_vars /\ LocksHeld'
    BY <2>3, PathUnknownRefines, TakeFhRefines, LookupDoneRefines, AllocRefines,
       TakeFhToWriteRefines, InsertRefines, RebuildRefines, RebuildNotFoundRefines
       DEF Locks!Continue, Next
  <2>4. CASE Locks!Restart
    BY <2>4, RestartRefines DEF Next
  <2> QED  BY <1>2, <2>1, <2>2, <2>3, <2>4 DEF LocksNext, Locks!Next, Fhid, Locks!Fhid
<1> QED  BY <1>1, <1>2


\* Under the refinement mapping FileHandles' actions and those of the table
\* that FileHandleLocks instantiates are the same.
LEMMA SameTable ==
    ASSUME Mapped, Mapped', [Next]_vars
    PROVE  [Locks!Table!Next]_(Locks!Table!vars)
<1> USE DEF Mapped
<1>1. ASSUME NEW t \in Task, NEW p \in Path, LookupHit(t, p) PROVE Locks!Table!LookupHit(t, p)
  BY <1>1 DEF LookupHit, Known, Give, Encode, Locks!Table!LookupHit, Locks!Table!Known, Locks!Table!Give, Locks!Table!Encode
<1>2. ASSUME NEW t \in Task, NEW p \in Path, LookupMiss(t, p) PROVE Locks!Table!LookupMiss(t, p)
  BY <1>2 DEF LookupMiss, Known, Locks!Table!LookupMiss, Locks!Table!Known
<1>3. ASSUME NEW t \in Task, NEW n \in Fhid, NEW p \in Path, Putfh(t, n, p)
      PROVE  Locks!Table!Putfh(t, n, p)
  BY <1>3 DEF Putfh, Contend, Locks!Table!Putfh, Locks!Table!Contend
<1>4. ASSUME NEW t \in Task, Alloc(t) PROVE Locks!Table!Alloc(t)
  BY <1>4 DEF Alloc, Contend, Locks!Table!Alloc, Locks!Table!Contend
<1>5. ASSUME NEW t \in Task, Insert(t) PROVE Locks!Table!Insert(t)
  BY <1>5 DEF Insert, Give, Encode, Finish, Locks!Table!Insert, Locks!Table!Give, Locks!Table!Encode, Locks!Table!Finish
<1>6. ASSUME NEW t \in Task, Rebuild(t) PROVE Locks!Table!Rebuild(t)
  BY <1>6 DEF Rebuild, Finish, Locks!Table!Rebuild, Locks!Table!Finish
<1>7. ASSUME NEW t \in Task, RebuildNotFound(t) PROVE Locks!Table!RebuildNotFound(t)
  BY <1>7 DEF RebuildNotFound, Finish, Locks!Table!RebuildNotFound, Locks!Table!Finish
<1>8. ASSUME Restart PROVE Locks!Table!Restart
  BY <1>8 DEF Restart, Fhid, Locks!Table!Restart, Locks!Table!Fhid
<1>9. CASE UNCHANGED vars
  BY <1>9 DEF vars, Locks!Table!vars
<1> QED
  BY <1>1, <1>2, <1>3, <1>4, <1>5, <1>6, <1>7, <1>8, <1>9 DEF Next, Fhid, Locks!Table!Next, Locks!Table!Fhid

LEMMA SameInit == ASSUME Mapped, Init PROVE Locks!Table!Init
BY DEF Mapped, Init, Fhid, Locks!Table!Init, Locks!Table!Fhid

\* Whatever the locks let tasks interleave, the table goes through steps of
\* FileHandles: proved of the variables that LockedFileHandles keeps for it ...
THEOREM LockedTable == LocksSpec => Spec /\ []LocksHeld
<1>1. TypeOK /\ LocksHeld /\ [LocksNext]_<<lockVars, pc, want>> => [Next]_vars /\ LocksHeld'
  BY StepRefines
<1>2. LocksSpec => Init /\ LocksHeld /\ [][LocksNext]_<<lockVars, pc, want>>
  BY InitRefines, PTL DEF LocksSpec
<1>3. Sound /\ [Next]_vars => Sound'
  BY NextSound
<1>4. Init => Sound
  BY InitSound
<1>5. Sound => TypeOK
  BY DEF Sound
<1> QED  BY <1>1, <1>2, <1>3, <1>4, <1>5, PTL DEF Spec

\* ... and so of the table that FileHandleLocks itself instantiates.
THEOREM LocksImplementTable == LocksSpec => ImplementsTable
<1>1. LocksHeld => Mapped
  BY DEF LocksHeld
<1>2. Mapped /\ Mapped' /\ [Next]_vars => [Locks!Table!Next]_(Locks!Table!vars)
  BY SameTable
<1>3. Mapped /\ Init => Locks!Table!Init
  BY SameInit
<1>4. Spec /\ []LocksHeld => Locks!Table!Init /\ [][Locks!Table!Next]_(Locks!Table!vars)
  BY <1>1, <1>2, <1>3, PTL DEF Spec
<1> QED  BY <1>4, LockedTable DEF ImplementsTable, Locks!ImplementsTable, Locks!Table!Spec

\* What is true of the table is true of it under its locks.
THEOREM LockedInvariants ==
    LocksSpec => [](CounterAhead /\ SoundUnlessContended /\ OldHandlesStale)
BY LockedTable, FreshIds, HandlesSound, StaleForEver, PTL
=============================================================================
