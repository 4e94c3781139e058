----------------------------- MODULE MC_Paging -----------------------------
(* Paging on four names, of which the first takes twice the room.          *)
EXTENDS Paging, TLC

CONSTANT Room   \* how many small entries a reply holds

MCName == 1..4
MCEntrySize == [n \in MCName |-> IF n = 1 THEN 2 ELSE 1]
MCMaxCount == Overhead + Room
=============================================================================
