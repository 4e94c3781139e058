------------------------- MODULE LockedFileHandles -------------------------
(***************************************************************************)
(* The table under its two locks (FileHandleLocks), with the variables of  *)
(* FileHandles beside it: those that FileHandleLocks does not share are    *)
(* kept at what its refinement mapping says.  So the invariants of the     *)
(* table can be stated, checked and proved of every state that the locks   *)
(* allow.                                                                  *)
(***************************************************************************)
EXTENDS FileHandles

CONSTANT NoTask     \* nobody holds the write lock

ASSUME NoTaskAssumption == NoTask \notin Task

VARIABLES lockPc, lockWant, pathLock, fhLock

Locks == INSTANCE FileHandleLocks WITH pc <- lockPc, want <- lockWant

lockVars == Locks!vars

Mapped == pc = Locks!TablePc /\ want = Locks!TableWant

LocksInit == Locks!Init /\ Mapped
LocksNext == Locks!Next /\ pc' = Locks!TablePc' /\ want' = Locks!TableWant'

\* Locks!FairSpec, with the mapped variables.
LocksSpec ==
    /\ LocksInit /\ [][LocksNext]_<<lockVars, pc, want>>
    /\ \A t \in Task : SF_lockVars(Locks!Continue(t))

-----------------------------------------------------------------------------

\* Whatever the locks let tasks interleave, the table goes through steps of
\* FileHandles only: its critical sections are atomic.
ImplementsTable == Locks!ImplementsTable

\* Every call returns, unless the locks are once taken in inverted orders.
CallsReturnUnlessInverted == Locks!CallsReturnUnlessInverted
=============================================================================
