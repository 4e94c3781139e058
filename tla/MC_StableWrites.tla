-------------------------- MODULE MC_StableWrites --------------------------
(* StableWrites on a small instance.  No symmetry reduction: the run checks *)
(* a refinement.                                                           *)
EXTENDS StableWrites
=============================================================================
