--------------------------- MODULE MC_FileHandles ---------------------------
(* The table under its two locks, on a small instance.  No symmetry          *)
(* reduction: the run checks a refinement and liveness.                      *)
EXTENDS LockedFileHandles
=============================================================================
