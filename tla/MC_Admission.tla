---------------------------- MODULE MC_Admission ----------------------------
(* Admission on a small instance: addresses are interchangeable, and tasks. *)
EXTENDS Admission, TLC

Symmetry == Permutations(Ip) \cup Permutations(Task)
=============================================================================
