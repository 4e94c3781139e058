-------------------------- MODULE MC_RecordStream --------------------------
(* RecordStream on short streams: records of every kind, up to MaxRecords. *)
EXTENDS RecordStream, TLC

CONSTANTS MaxRecords, Lengths, Programs

MkMark(length, last, program) == [length |-> length, last |-> last, program |-> program]

Marks == {MkMark(n, TRUE, p) : n \in Lengths, p \in Programs}
            \cup {MkMark(MinRecord, FALSE, "v4")}

MCStream == UNION {[1..n -> Marks] : n \in 1..MaxRecords}

MCBody == {MkMark(MinRecord, TRUE, "v4")}
=============================================================================
