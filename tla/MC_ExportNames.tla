--------------------------- MODULE MC_ExportNames ---------------------------
(* ExportNames with two exports, in all configurations of few words.       *)
EXTENDS ExportNames, TLC

CONSTANTS e1, e2, pathA, pathB, data, music

Paths == (e1 :> pathA) @@ (e2 :> pathB)
Aliases == {NoName} \cup [slashes: {0, 1}, word: {data, music}]
=============================================================================
