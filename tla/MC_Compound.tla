---------------------------- MODULE MC_Compound ----------------------------
(* Compound with one export of each kind: plain, read-only, root-squashed  *)
(* and both.  The last lies inside the plain one.                          *)
EXTENDS Compound

CONSTANTS plain, fixed, squashed, both

Nested == {<<plain, both>>}
=============================================================================
