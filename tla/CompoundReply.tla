---------------------------- MODULE CompoundReply ----------------------------
(***************************************************************************)
(* How one NFSv4 COMPOUND is read and answered (src/src/nfs/nfs4.rs): the  *)
(* cursor that every handler moves past its own arguments, the loop that   *)
(* stops at the first error, and the reply with its array of results.      *)
(*                                                                         *)
(* The unit is the XDR word of four bytes.  What an operation does to      *)
(* files is module Compound's; here a handler is what it takes from the    *)
(* request, its status and what it puts in the reply.  Each operation      *)
(* below stands for those whose arguments have its shape; an opcode that   *)
(* is none of them is answered as one without a handler is.                *)
(***************************************************************************)
EXTENDS Integers, SequencesExt

CONSTANTS
    Encoding,   \* operations as clients encode them: opcode, then arguments
    MaxOps      \* MAX_OPS_PER_COMPOUND

GETFH == 10
LOCK == 12
PUTFH == 22
REMOVE == 28
RENEW == 30
RELEASE_LOCKOWNER == 39
ILLEGAL == 10044

ASSUME ReplyAssumption ==
    /\ \A e \in Encoding : e \in Seq(Nat) /\ e # <<>>
    /\ MaxOps \in Nat

VARIABLES
    asked,      \* the operations the client encoded
    minor,      \* minor_version
    request,    \* their words, or what arrived of them
    squashed,   \* root is the caller, and squashed by the current export
    phase,      \* "begin", "loop" or "done"
    p,          \* words the cursor has passed
    current,    \* there is a current filehandle
    results,    \* op_results: opcode, status, and what follows the status
    rescount,   \* res_op_count
    status      \* compound_status

replyVars == <<asked, minor, request, squashed, phase, p, current, results, rescount, status>>

\* The parts of a compound that its processing does not change.
input == <<asked, minor, request, squashed>>

Status == {"OK", "BADXDR", "MINOR_VERS_MISMATCH", "RESOURCE", "NOFILEHANDLE", "BADHANDLE",
           "ROFS", "OTHER", "DENIED", "PERM", "NOTSUPP", "OP_ILLEGAL"}
ResultBody == {"none", "resok", "LOCK4denied"}

ReplyTypeOK ==
    /\ asked \in Seq(Encoding)
    /\ minor \in 0..3
    /\ request \in Seq(Nat)
    /\ squashed \in BOOLEAN
    /\ phase \in {"begin", "loop", "done"}
    /\ p \in Nat
    /\ current \in BOOLEAN
    /\ results \in Seq([op: Nat, status: Status, body: ResultBody])
    /\ rescount \in 0..MaxOps
    /\ status \in Status

\* Any request of up to one operation too many, whole or ending early.
ReplyInit ==
    /\ asked \in BoundedSeq(Encoding, MaxOps + 1)
    /\ \E n \in 0..Len(FlattenSeq(asked)) : request = SubSeq(FlattenSeq(asked), 1, n)
    /\ minor \in {0, 2, 3}
    /\ squashed \in BOOLEAN
    /\ phase = "begin"
    /\ p = 0
    /\ current = FALSE
    /\ results = <<>>
    /\ rescount = 0
    /\ status = "OK"

opcount == Len(asked)

-----------------------------------------------------------------------------
(* What the handlers make of their arguments, which start after word a.    *)

Ends(a, n) == a + n > Len(request)
Word(a, n) == request[a + n]

\* The words that an opaque of n bytes fills, with its padding.
Words(n) == (n + 3) \div 4
OpaqueEnds(a, n) == 4 * a + n > 4 * Len(request)

Outcome(taken, s, body, cur) == [taken |-> taken, status |-> s, body |-> body, current |-> cur]
Fails(s) == Outcome(0, s, "none", current)
Succeeds(taken, body) == Outcome(taken, "OK", body, current)

Getfh == {IF current THEN Succeeds(0, "resok") ELSE Fails("NOFILEHANDLE")}

PutfhUnpadded(a) ==
    IF Ends(a, 1) \/ OpaqueEnds(a + 1, Word(a, 1)) THEN {Fails("BADXDR")}
    ELSE IF Word(a, 1) = 0 THEN {Fails("BADHANDLE")}
    ELSE {Outcome(1 + Word(a, 1) \div 4, "OK", "none", TRUE)}

Putfh(a) ==
    IF Ends(a, 1) \/ OpaqueEnds(a + 1, Word(a, 1)) THEN {Fails("BADXDR")}
    ELSE IF Word(a, 1) = 0 THEN {Fails("BADHANDLE")}
    ELSE {Outcome(1 + Words(Word(a, 1)), "OK", "none", TRUE)}

\* RENEW takes its client id without looking whether it is there.
Renew == {Succeeds(2, "none")}

\* REMOVE; what the export and the file system say of it is left open.
RemoveOp(a) ==
    IF ~current THEN {Fails("NOFILEHANDLE")}
    ELSE {Fails("ROFS")} \cup
         IF Ends(a, 1) \/ OpaqueEnds(a + 1, Word(a, 1)) THEN {Fails("BADXDR")}
         ELSE {Succeeds(1 + Words(Word(a, 1)), "resok"), Fails("OTHER")}

\* parse_lock_args: the words taken, none when the request ends within them.
LockArgs(a) ==
    LET new == Word(a, 7) # 0
        fixed == IF new THEN 16 ELSE 12
    IN  IF Ends(a, 7) THEN 0
        ELSE IF Ends(a, fixed) THEN 0
        ELSE IF ~new THEN 12
        ELSE IF OpaqueEnds(a + 16, Word(a, 16)) THEN 0
        ELSE 16 + Words(Word(a, 16))

\* LOCK; whether the lock is free is module OpenLocks' matter.
Lock(a) ==
    IF ~current THEN {Fails("NOFILEHANDLE")}
    ELSE IF LockArgs(a) = 0 THEN {Fails("BADXDR")}
    ELSE {Succeeds(LockArgs(a), "resok"), Outcome(LockArgs(a), "DENIED", "LOCK4denied", current)}

\* RELEASE_LOCKOWNER takes the second word of the client id for the length of
\* the owner, and no word for that length.
ReleaseLockowner(a) ==
    {IF Ends(a, 2) THEN Fails("BADXDR") ELSE Succeeds(2 + Words(Word(a, 2)), "none")}

\* dispatch_op
Handled(op, a) ==
    CASE op = GETFH -> Getfh
      [] op = PUTFH -> Putfh(a)
      [] op = RENEW -> Renew
      [] op = REMOVE -> RemoveOp(a)
      [] op = LOCK -> Lock(a)
      [] op = RELEASE_LOCKOWNER -> ReleaseLockowner(a)
      [] op = ILLEGAL -> {Fails("OP_ILLEGAL")}
      [] OTHER -> {Fails("NOTSUPP")}

\* The clients' encodings have the words that these handlers take: an operation
\* is followed by the next one.  (RELEASE_LOCKOWNER's are not all taken.)
WellEncoded ==
    \A e \in Encoding :
        /\ e[1] = GETFH => Len(e) = 1
        /\ e[1] = RENEW => Len(e) = 3
        /\ e[1] \in {PUTFH, REMOVE} => Len(e) >= 2 /\ Len(e) = 2 + Words(e[2])
        /\ e[1] = LOCK => \/ Len(e) = 13 /\ e[8] = 0
                          \/ Len(e) >= 17 /\ e[8] # 0 /\ Len(e) = 17 + Words(e[17])

IsWriteOpcode(op) == op \in {REMOVE, LOCK}

-----------------------------------------------------------------------------

\* make_compound_error: no results.
RejectWith(s) ==
    /\ status' = s
    /\ phase' = "done"
    /\ UNCHANGED <<input, p, current, results, rescount>>

DecodeUncapped ==
    /\ phase = "begin"
    /\ \/ RejectWith("BADXDR")
       \/ IF minor > 2 THEN RejectWith("MINOR_VERS_MISMATCH")
          ELSE /\ phase' = "loop"
               /\ UNCHANGED <<input, p, current, results, rescount, status>>

\* The head of the compound; one whose head is cut off is refused alike.
Decode ==
    /\ phase = "begin"
    /\ \/ RejectWith("BADXDR")
       \/ IF minor > 2 THEN RejectWith("MINOR_VERS_MISMATCH")
          ELSE IF opcount > MaxOps THEN RejectWith("RESOURCE")
          ELSE /\ phase' = "loop"
               /\ UNCHANGED <<input, p, current, results, rescount, status>>

\* The loop goes on for opcount operations unless it has been left.
AnotherOp == phase = "loop" /\ status = "OK" /\ Len(results) < opcount

Encode(op, s, body) == results' = Append(results, [op |-> op, status |-> s, body |-> body])

\* The request ends where an opcode should be.
EndsEarly ==
    /\ AnotherOp
    /\ Ends(p, 1)
    /\ status' = "BADXDR"
    /\ Encode(ILLEGAL, "BADXDR", "none")
    /\ UNCHANGED <<input, phase, p, current, rescount>>

IsSquashed(op) == squashed /\ current /\ IsWriteOpcode(op)

SquashUncounted ==
    /\ AnotherOp
    /\ ~Ends(p, 1)
    /\ IsSquashed(Word(p, 1))
    /\ status' = "PERM"
    /\ p' = p + 1
    /\ Encode(Word(p, 1), "PERM", "none")
    /\ UNCHANGED <<input, phase, current, rescount>>

\* SEC-018, before the operation is dispatched.
Squash ==
    /\ AnotherOp
    /\ ~Ends(p, 1)
    /\ IsSquashed(Word(p, 1))
    /\ status' = "PERM"
    /\ p' = p + 1
    /\ Encode(Word(p, 1), "PERM", "none")
    /\ rescount' = rescount + 1
    /\ UNCHANGED <<input, phase, current>>

\* One operation; only a successful one's result follows its status.
DispatchOp ==
    /\ AnotherOp
    /\ ~Ends(p, 1)
    /\ ~IsSquashed(Word(p, 1))
    /\ \E o \in Handled(Word(p, 1), p + 1) :
          /\ Encode(Word(p, 1), o.status, IF o.status = "OK" THEN o.body ELSE "none")
          /\ p' = p + 1 + o.taken
          /\ current' = o.current
          /\ status' = o.status
    /\ rescount' = rescount + 1
    /\ UNCHANGED <<input, phase>>

\* The reply is put together after the last operation or the first error.
EndCompound ==
    /\ phase = "loop"
    /\ ~AnotherOp
    /\ phase' = "done"
    /\ UNCHANGED <<input, p, current, results, rescount, status>>

ReplyNext == Decode \/ EndsEarly \/ Squash \/ DispatchOp \/ EndCompound

ReplySpec == ReplyInit /\ [][ReplyNext]_replyVars

-----------------------------------------------------------------------------

\* The cursor stays in step as long as no RELEASE_LOCKOWNER has been read: the
\* k-th result answers the k-th operation that the client encoded, or says that
\* the request ended before it.
AnswersRequest ==
    \A k \in DOMAIN results :
        (\A j \in 1..(k - 1) : asked[j][1] # RELEASE_LOCKOWNER) =>
            \/ results[k].op = asked[k][1]
            \/ results[k] = [op |-> ILLEGAL, status |-> "BADXDR", body |-> "none"]

\* rescount leaves out no result but one that says that the request ended.
CountedButTheEnd ==
    phase = "done" =>
        \/ rescount = Len(results)
        \/ /\ rescount = Len(results) - 1
           /\ Last(results).op = ILLEGAL
=============================================================================
