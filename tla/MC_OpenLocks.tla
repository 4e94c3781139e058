---------------------------- MODULE MC_OpenLocks ----------------------------
(* OpenLocks on a small instance: files and clients are interchangeable.   *)
EXTENDS OpenLocks, TLC

Symmetry == Permutations(File) \cup Permutations(LockClient)
=============================================================================
