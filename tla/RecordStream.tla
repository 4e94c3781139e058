---------------------------- MODULE RecordStream ----------------------------
(***************************************************************************)
(* One TCP connection of handle_nfs_stream (src/src/nfs/mod.rs): records   *)
(* are cut out of a byte stream that arrives in arbitrary pieces, given to *)
(* the handler of their program one after the other, and answered.         *)
(*                                                                         *)
(* The client's stream is a sequence of records, which it may break off    *)
(* anywhere.  The buffer is the part of the stream from offset "at" to     *)
(* offset "got".  Bytes are counted; what they say matters only where the  *)
(* server takes them for a header.                                         *)
(***************************************************************************)
EXTENDS Integers, Sequences

CONSTANTS
    Stream,     \* the sequences of records a client may send
    Body,       \* what the bytes of a body may say, read as a header
    HeaderSize, \* 4, the record mark
    MinRecord,  \* 20, below which a length is not accepted
    MaxRecord,  \* MAX_RECORD_LENGTH
    Chunk,      \* 65536, the most one read returns
    MaxBuffer   \* MAX_RECV_BUF

\* A record mark, and the program and version found behind it.
Header == [length: Nat, last: BOOLEAN, program: {"v3", "v4", "acl", "other"}]

ASSUME ConstantsAssumption ==
    /\ Stream \subseteq Seq(Header)
    /\ Body \subseteq Header
    /\ HeaderSize \in Nat \ {0}
    /\ MinRecord \in Nat \ {0}
    /\ MaxRecord \in Nat /\ MinRecord <= MaxRecord
    /\ Chunk \in Nat \ {0}
    /\ MaxBuffer \in Nat /\ HeaderSize + MaxRecord + Chunk <= MaxBuffer

VARIABLES
    records,    \* the client's stream
    body,       \* what its bodies say, read as a header
    sent,       \* bytes sent before the client closes
    at,         \* offset of the first byte of recv_buf
    got,        \* offset behind its last byte
    pc,         \* where the task is
    reply,      \* the message type of the reply in hand
    dispatched, \* offsets of the records given to a handler
    written,    \* message types of the replies written
    why         \* why the connection was dropped

stream == <<records, body, sent>>
vars == <<records, body, sent, at, got, pc, reply, dispatched, written, why>>

Size(r) == HeaderSize + r.length

\* Offset of record i of the stream; of its end, for i = Len(records) + 1.
Start(i) ==
    LET f[j \in 0..Len(records)] == IF j = 0 THEN 0 ELSE f[j - 1] + Size(records[j])
    IN  f[i - 1]

\* What the four bytes at an offset say as a record mark.
HeaderAt(o) ==
    IF \E i \in DOMAIN records : Start(i) = o
    THEN records[CHOOSE i \in DOMAIN records : Start(i) = o]
    ELSE body

Call == 0
Reply == 1

TypeOK ==
    /\ records \in Stream /\ body \in Body
    /\ sent \in Nat
    /\ at \in 0..got
    /\ got \in 0..sent
    /\ pc \in {"parse", "write", "read", "closed"}
    /\ reply \in {Call, Reply}
    /\ dispatched \in Seq(Nat)
    /\ written \in Seq({Call, Reply})
    /\ why \in {"open", "fragment", "oversized", "eof", "error", "cap"}

Init ==
    /\ records \in Stream /\ body \in Body
    /\ sent \in 1..Start(Len(records) + 1)
    /\ at = 0
    /\ got = 0
    /\ pc = "parse"
    /\ reply = Reply
    /\ dispatched = <<>>
    /\ written = <<>>
    /\ why = "open"

Close(reason) ==
    /\ pc' = "closed"
    /\ why' = reason

Buffered == got - at

\* A record mark is in the buffer, and what it says.
Marked == pc = "parse" /\ Buffered >= HeaderSize
Mark == HeaderAt(at)

Fragment(h) == ~h.last
Short(h) == h.last /\ h.length < MinRecord
OversizedForBuffer(h) == h.last /\ h.length > MaxBuffer
Oversized(h) == h.last /\ h.length > MaxRecord
Valid(h) == ~Fragment(h) /\ ~Short(h) /\ ~Oversized(h)
Complete(h) == Buffered >= Size(h)
IncompleteOrJust(h) == Buffered <= Size(h)
Incomplete(h) == Buffered < Size(h)

-----------------------------------------------------------------------------

\* A record in several fragments is not supported: the connection is dropped.
DropFragment ==
    /\ Marked /\ Fragment(Mark)
    /\ Close("fragment")
    /\ UNCHANGED <<stream, at, got, reply, dispatched, written>>

\* Only the header of a record that is too short is taken out of the buffer.
SkipShort ==
    /\ Marked /\ Short(Mark)
    /\ at' = at + HeaderSize
    /\ UNCHANGED <<stream, got, pc, reply, dispatched, written, why>>

DropOversized ==
    /\ Marked /\ Oversized(Mark)
    /\ Close("oversized")
    /\ UNCHANGED <<stream, at, got, reply, dispatched, written>>

NeedMore ==
    /\ pc = "parse"
    /\ Buffered < HeaderSize \/ (Valid(Mark) /\ Incomplete(Mark))
    /\ pc' = "read"
    /\ UNCHANGED <<stream, at, got, reply, dispatched, written, why>>

DispatchAgain ==
    /\ Marked /\ Valid(Mark) /\ Complete(Mark)
    /\ dispatched' = Append(dispatched, at)
    /\ pc' = "write"
    /\ reply' = Reply
    /\ UNCHANGED <<stream, at, got, written, why>>

\* A complete record leaves the buffer and is given to its program's handler.
\* An NFS handler may have no reply, another program or version has none, and
\* NFS_ACL gets an error reply whose message type is written as 0.
Dispatch ==
    /\ Marked /\ Valid(Mark) /\ Complete(Mark)
    /\ at' = at + Size(Mark)
    /\ dispatched' = Append(dispatched, at)
    /\ CASE Mark.program = "acl" -> pc' = "write" /\ reply' = Call
         [] Mark.program \in {"v3", "v4"} -> pc' \in {"write", "parse"} /\ reply' = Reply
         [] OTHER -> pc' = "parse" /\ UNCHANGED reply
    /\ UNCHANGED <<stream, got, written, why>>

Write ==
    /\ pc = "write"
    /\ written' = Append(written, reply)
    /\ pc' = "parse"
    /\ UNCHANGED <<stream, at, got, reply, dispatched, why>>

WriteFails ==
    /\ pc = "write"
    /\ Close("error")
    /\ UNCHANGED <<stream, at, got, reply, dispatched, written>>

\* Some of what was sent arrives; a buffer beyond the limit drops the connection.
Read ==
    /\ pc = "read"
    /\ \E n \in 1..Chunk :
          /\ got + n <= sent
          /\ got' = got + n
          /\ IF Buffered + n > MaxBuffer THEN Close("cap") ELSE pc' = "parse" /\ UNCHANGED why
    /\ UNCHANGED <<stream, at, reply, dispatched, written>>

ReadEnd ==
    /\ pc = "read"
    /\ got = sent
    /\ Close("eof")
    /\ UNCHANGED <<stream, at, got, reply, dispatched, written>>

ReadFails ==
    /\ pc = "read"
    /\ Close("error")
    /\ UNCHANGED <<stream, at, got, reply, dispatched, written>>

Next ==
    \/ DropFragment
    \/ SkipShort
    \/ DropOversized
    \/ NeedMore
    \/ Dispatch
    \/ Write
    \/ WriteFails
    \/ Read
    \/ ReadEnd
    \/ ReadFails

Spec == Init /\ [][Next]_vars

\* The connection's task is polled, the network delivers, and the client reads.
FairSpec == Spec /\ WF_vars(Next)

-----------------------------------------------------------------------------

\* The records the server takes that were sent whole: those before the first it
\* does not take.
Acceptable ==
    {i \in DOMAIN records : Start(i + 1) <= sent /\ \A j \in 1..i : Valid(records[j])}

AllHandled == \A i \in Acceptable : i <= Len(dispatched)

\* "We must buffer incoming data and process complete NFS records": what is
\* given to the handlers is the client's records, each once and in order,
\* however the stream is cut into reads; unless a record is too short, after
\* which the next header is read from the middle of it.
RecordsInOrder ==
    (\A i \in DOMAIN records : ~Short(records[i])) =>
        dispatched = [i \in 1..Len(dispatched) |-> Start(i)]

\* What was sent whole and can be taken is handled in the end, or the connection
\* is dropped for an error: the task never waits for bytes while it has a record.
RecordsHandled == <>(AllHandled \/ why = "error")

\* The limit of the buffer is never what drops a connection: at most one record
\* less a byte and one read are in the buffer, however much a client sends ahead.
CapNeverDrops == why # "cap"
=============================================================================
