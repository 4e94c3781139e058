------------------------------- MODULE Portmap -------------------------------
(***************************************************************************)
(* The port mapper (src/src/nfs/portmap.rs): a table that a task spawned   *)
(* by new() fills, and the requests that the UDP socket and the TCP        *)
(* connections answer from it, before and after.                           *)
(*                                                                         *)
(* A u32 is the set of its bits, so that make_key's shifts and ors are     *)
(* what they are in the code: sums of bits and unions.  The parts of a     *)
(* key are not cut to the bits it has for them, and may overlap.           *)
(***************************************************************************)
EXTENDS Integers

CONSTANTS
    Program,    \* u32s that requests ask about ...
    Version,
    Protocol,
    NoReply     \* the request is dropped

U32 == SUBSET (0..31)

VARIABLES
    mappings,   \* the entries of the table
    reply       \* how the last request was answered: accept_stat and port

vars == <<mappings, reply>>

\* A small number as a u32.
Bits(n) == {b \in 0..16 : (n \div 2^b) % 2 = 1}

Service(p, v, t, port) == [program |-> Bits(p), version |-> Bits(v), protocol |-> t, port |-> port]

\* The protocols' numbers, 6 and 17.
Tcp == {1, 2}
Udp == {0, 4}

\* The entries of initialize_mappings: each service by TCP and by UDP.
Entries == UNION {
    {Service(100000, 2, t, 111), Service(100005, 3, t, 20048), Service(100005, 1, t, 20048),
     Service(100003, 3, t, 2049), Service(100003, 4, t, 2049)} : t \in {Tcp, Udp}}

Triple == [program : Program, version : Version, protocol : Protocol]
Reply == [stat : {"SUCCESS", "GARBAGE_ARGS", "PROC_UNAVAIL"}, port : {0, 111, 2049, 20048}]

TypeOK ==
    /\ mappings \in {{}, Entries}
    /\ reply \in Reply \cup {NoReply}

Init ==
    /\ mappings = {}
    /\ reply = NoReply

-----------------------------------------------------------------------------

\* u32 as u64, shifted.
Shifted(u, n) == {b + n : b \in u}

MakeKeyVersionLow(e) == Shifted(e.program, 32) \cup Shifted(e.version, 4) \cup e.protocol
\* make_key: 64 bits, so nothing of the program is shifted out.
MakeKey(e) == Shifted(e.program, 32) \cup Shifted(e.version, 8) \cup e.protocol

\* HashMap::insert under one write lock: of entries with one key the last stays.
InitializeMappings ==
    /\ mappings = {}
    /\ mappings' = Entries
    /\ UNCHANGED reply

PortFor(e) ==
    IF \E m \in mappings : MakeKey(m) = MakeKey(e)
    THEN (CHOOSE m \in mappings : MakeKey(m) = MakeKey(e)).port
    ELSE 0

Answer(stat, port) == reply' = [stat |-> stat, port |-> port] /\ UNCHANGED mappings

Getport(e) == Answer("SUCCESS", PortFor(e))

\* NULL, and DUMP, which lists nothing (SEC-017).
NullOrDump == Answer("SUCCESS", 0)

\* Credentials, verifier or arguments that the request ends within.
Garbage == Answer("GARBAGE_ARGS", 0)

\* SET, UNSET, CALLIT and procedures that do not exist.
Unavailable == Answer("PROC_UNAVAIL", 0)

\* Too short for a call's header, or not a call.
Dropped == reply' = NoReply /\ UNCHANGED mappings

Request ==
    \/ \E e \in Triple : Getport(e)
    \/ NullOrDump \/ Garbage \/ Unavailable \/ Dropped

-----------------------------------------------------------------------------

\* The parts of a key run into each other: it has 24 bits for a version and 8
\* for a protocol, and a request may give 32 of each.
Fits(e) == e.version \subseteq 0..23 /\ e.protocol \subseteq 0..7

\* What such parts amount to: bits of the version above its room are the
\* program's, and bits of the protocol above its room are the version's.
Overlaid(e) ==
    [program  |-> e.program \cup {b \in 0..31 : b + 24 \in e.version},
     version  |-> {b \in 0..23 : b \in e.version \/ b + 8 \in e.protocol},
     protocol |-> e.protocol \cap 0..7]

Registered(e, port) == \E m \in mappings :
    /\ m.port = port
    /\ [program |-> m.program, version |-> m.version, protocol |-> m.protocol] = e

\* "not found, returning 0": a port is only told of a program, version and protocol
\* that it serves.  A request whose version and protocol fit in the key is answered
\* for what it names; any other for what its parts overlap to, which may be
\* registered when what it names is not.
OnlyRegisteredFound == \A e \in Triple : PortFor(e) # 0 =>
    /\ Registered(Overlaid(e), PortFor(e))
    /\ Fits(e) => Registered(e, PortFor(e))
=============================================================================
