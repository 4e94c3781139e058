---------------------------- MODULE MC_Sessions ----------------------------
(* Sessions on a small instance: two requests, a v4.0 and a v4.1 owner or  *)
(* the empty one, and a lease of 0, so that a record is fresh or overdue.  *)
EXTENDS Sessions
=============================================================================
