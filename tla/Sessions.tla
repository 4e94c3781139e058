------------------------------ MODULE Sessions ------------------------------
(***************************************************************************)
(* NFSv4 client and session state of Nfs4Server (src/src/nfs/nfs4.rs):     *)
(* SETCLIENTID (v4.0), EXCHANGE_ID, CREATE_SESSION, SEQUENCE,              *)
(* DESTROY_SESSION, DESTROY_CLIENTID (v4.1/4.2), and the background sweep  *)
(* cleanup_expired.                                                        *)
(*                                                                         *)
(* Each map has its own RwLock and no handler keeps one over the next, so  *)
(* a step is what one lock acquisition protects and requests interleave    *)
(* between steps.  RENEW and BIND_CONN_TO_SESSION change nothing and have  *)
(* no action: RENEW in particular leaves last_used as it was.  Nor has     *)
(* SETCLIENTID_CONFIRM, which only sets the record's confirmed flag: the   *)
(* code never reads it, nor the confirm verifier, and the records leave    *)
(* both out.                                                               *)
(*                                                                         *)
(* Time is kept as the age of each record, in units of the lease; a sweep  *)
(* takes no time, but requests run between its steps.                      *)
(***************************************************************************)
EXTENDS Integers

CONSTANTS
    Owner,      \* client owner / id_string byte strings
    NoOwner,    \* the empty one, which is also the id_string of every record
                \* that EXCHANGE_ID makes
    Verifier,   \* client verifiers (one per client boot)
    Zero,       \* the verifier of every record that EXCHANGE_ID makes
    Task,       \* requests in progress
    None,       \* absent record
    MaxClient,  \* bound: client ids the counter may hand out
    MaxSeq,     \* bound: sr_sequenceid
    Lease       \* LEASE_TIMEOUT

ASSUME ConstantsAssumption ==
    /\ NoOwner \in Owner
    /\ Zero \in Verifier
    /\ MaxClient \in Nat \ {0}
    /\ MaxSeq \in Nat \ {0}
    /\ Lease \in Nat

VARIABLES
    ownerMap,   \* client_owner_map; 0 when absent
    clients,    \* clients: id -> record or None
    counter,    \* client_counter
    sessions,   \* sessions; the session id is a function of the client id
    pc,         \* where each request is
    req,        \* its arguments and locals
    told,       \* every client id ever answered: owner, id, minor version
    sweep,      \* where the sweep is
    expired     \* the ids the sweep has collected

table == <<ownerMap, clients, counter, sessions>>
vars == <<ownerMap, clients, counter, sessions, pc, req, told, sweep, expired>>

Client == 1..MaxClient
Seq32 == 1..MaxSeq
Age == 0..(Lease + 1)

ClientRecord == [idString: Owner, verifier: Verifier, age: Age]
SessionRecord == [sequence: Seq32, age: Age]
Request == [owner: Owner, verifier: Verifier, id: 0..MaxClient, seq: 0..MaxSeq]
NoRequest == [owner |-> NoOwner, verifier |-> Zero, id |-> 0, seq |-> 0]

TypeOK ==
    /\ ownerMap \in [Owner -> 0..MaxClient]
    /\ clients \in [Client -> ClientRecord \cup {None}]
    /\ counter \in 1..(MaxClient + 1)
    /\ sessions \in [Client -> SessionRecord \cup {None}]
    /\ pc \in [Task -> {"idle", "xAlloc", "xMap", "xStore", "sAlloc", "sStore", "seq"}]
    /\ req \in [Task -> Request]
    /\ told \subseteq [owner: Owner, id: Client, minor: {0, 1}]
    /\ sweep \in {"idle", "dropSessions", "findClients", "dropClients"}
    /\ expired \subseteq Client

Init ==
    /\ ownerMap = [o \in Owner |-> 0]
    /\ clients = [c \in Client |-> None]
    /\ counter = 1
    /\ sessions = [c \in Client |-> None]
    /\ pc = [t \in Task |-> "idle"]
    /\ req = [t \in Task |-> NoRequest]
    /\ told = {}
    /\ sweep = "idle"
    /\ expired = {}

Goto(t, l) == pc' = [pc EXCEPT ![t] = l]
Finish(t) == Goto(t, "idle") /\ req' = [req EXCEPT ![t] = NoRequest]
Answer(o, c, m) == told' = told \cup {[owner |-> o, id |-> c, minor |-> m]}

-----------------------------------------------------------------------------
(* EXCHANGE_ID (v4.1): lookup, allocation, map entry and record are four   *)
(* critical sections; nothing is looked at again.                          *)

ExchangeId(t, o) ==
    /\ pc[t] = "idle"
    /\ req' = [req EXCEPT ![t].owner = o, ![t].id = ownerMap[o]]
    /\ Goto(t, IF ownerMap[o] # 0 THEN "xStore" ELSE "xAlloc")
    /\ UNCHANGED <<table, told, sweep, expired>>

AllocReused(t, from, to) ==
    /\ pc[t] = from
    /\ counter <= MaxClient
    /\ req' = [req EXCEPT ![t].id = counter]
    /\ Goto(t, to)
    /\ UNCHANGED <<table, told, sweep, expired>>

\* client_counter is read and bumped under one write lock.
Alloc(t, from, to) ==
    /\ pc[t] = from
    /\ counter <= MaxClient
    /\ req' = [req EXCEPT ![t].id = counter]
    /\ counter' = counter + 1
    /\ Goto(t, to)
    /\ UNCHANGED <<ownerMap, clients, sessions, told, sweep, expired>>

ExchangeAlloc(t) == Alloc(t, "xAlloc", "xMap")

ExchangeMap(t) ==
    /\ pc[t] = "xMap"
    /\ ownerMap' = [ownerMap EXCEPT ![req[t].owner] = req[t].id]
    /\ Goto(t, "xStore")
    /\ UNCHANGED <<clients, counter, sessions, req, told, sweep, expired>>

\* The record is replaced whole: an empty id_string, a zero verifier, just used.
ExchangeStore(t) ==
    /\ pc[t] = "xStore"
    /\ clients' = [clients EXCEPT ![req[t].id] =
          [idString |-> NoOwner, verifier |-> Zero, age |-> 0]]
    /\ Answer(req[t].owner, req[t].id, 1)
    /\ Finish(t)
    /\ UNCHANGED <<ownerMap, counter, sessions, sweep, expired>>

-----------------------------------------------------------------------------
(* SETCLIENTID (v4.0).                                                      *)

SameString(o) == {c \in Client : clients[c] # None /\ clients[c].idString = o}

\* The scan meets a record with this id_string first: with the same verifier
\* its id is answered (and last_used is not refreshed); with another verifier
\* the answer is CLID_INUSE and nothing changes.  An empty id_string is that of
\* every record that EXCHANGE_ID made.
SetClientIdKnown(t, o, v) ==
    /\ pc[t] = "idle"
    /\ \E c \in SameString(o) : clients[c].verifier = v /\ Answer(o, c, 0)
    /\ UNCHANGED <<table, pc, req, sweep, expired>>

SetClientIdNew(t, o, v) ==
    /\ pc[t] = "idle"
    /\ SameString(o) = {}
    /\ req' = [req EXCEPT ![t].owner = o, ![t].verifier = v]
    /\ Goto(t, "sAlloc")
    /\ UNCHANGED <<table, told, sweep, expired>>

SetClientIdAlloc(t) == Alloc(t, "sAlloc", "sStore")

SetClientIdStore(t) ==
    /\ pc[t] = "sStore"
    /\ clients' = [clients EXCEPT ![req[t].id] =
          [idString |-> req[t].owner, verifier |-> req[t].verifier, age |-> 0]]
    /\ Answer(req[t].owner, req[t].id, 0)
    /\ Finish(t)
    /\ UNCHANGED <<ownerMap, counter, sessions, sweep, expired>>

-----------------------------------------------------------------------------
(* Sessions.                                                                *)

ExchangedIds == {a.id : a \in {b \in told : b.minor = 1}}

\* The client id is not looked up and csa_sequence is ignored; a session the
\* client already has is replaced by a new one with sequence 1.
CreateSession(c) ==
    /\ sessions' = [sessions EXCEPT ![c] = [sequence |-> 1, age |-> 0]]
    /\ UNCHANGED <<ownerMap, clients, counter, pc, req, told, sweep, expired>>

Drop(S) == sessions' = [c \in Client |-> IF c \in S THEN None ELSE sessions[c]]

DestroySession(c) ==
    /\ Drop({c})
    /\ UNCHANGED <<ownerMap, clients, counter, pc, req, told, sweep, expired>>

\* Removes the client's sessions; its record and its owner entry stay.
DestroyClientId(c) ==
    /\ Drop({c})
    /\ UNCHANGED <<ownerMap, clients, counter, pc, req, told, sweep, expired>>

\* SEQUENCE, under the read lock: an unknown session or a sequence id below
\* the stored one is BADSESSION.  One number serves every slot.
SequenceCheck(t, c, q) ==
    /\ pc[t] = "idle"
    /\ sessions[c] # None
    /\ q >= sessions[c].sequence
    /\ req' = [req EXCEPT ![t].id = c, ![t].seq = q]
    /\ Goto(t, "seq")
    /\ UNCHANGED <<table, told, sweep, expired>>

UpsertSequence(t) ==
    /\ pc[t] = "seq"
    /\ LET c == req[t].id IN
       sessions' = [sessions EXCEPT ![c] = [sequence |-> req[t].seq, age |-> 0]]
    /\ Finish(t)
    /\ UNCHANGED <<ownerMap, clients, counter, told, sweep, expired>>

\* SEQUENCE, under the write lock: the session is updated if it is still
\* there; either way the answer is OK and the compound goes on.
SequenceUpdate(t) ==
    /\ pc[t] = "seq"
    /\ LET c == req[t].id IN
       sessions' = IF sessions[c] = None THEN sessions
                      ELSE [sessions EXCEPT ![c] = [sequence |-> req[t].seq, age |-> 0]]
    /\ Finish(t)
    /\ UNCHANGED <<ownerMap, clients, counter, told, sweep, expired>>

-----------------------------------------------------------------------------
(* cleanup_expired, run every 60 seconds.  A write lock is only taken for   *)
(* what was found.                                                          *)

Overdue(r) == r # None /\ r.age > Lease

FindSessionsOfKnownClients ==
    /\ sweep = "idle"
    /\ expired' = {c \in Client : Overdue(sessions[c]) /\ clients[c] # None}
    /\ sweep' = IF expired' = {} THEN "findClients" ELSE "dropSessions"
    /\ UNCHANGED <<table, pc, req, told>>

FindSessions ==
    /\ sweep = "idle"
    /\ expired' = {c \in Client : Overdue(sessions[c])}
    /\ sweep' = IF expired' = {} THEN "findClients" ELSE "dropSessions"
    /\ UNCHANGED <<table, pc, req, told>>

\* What was collected is removed without being looked at again.
DropSessions ==
    /\ sweep = "dropSessions"
    /\ Drop(expired)
    /\ expired' = {}
    /\ sweep' = "findClients"
    /\ UNCHANGED <<ownerMap, clients, counter, pc, req, told>>

FindNamedClients ==
    /\ sweep = "findClients"
    /\ expired' = {c \in Client : /\ Overdue(clients[c]) /\ clients[c].idString # NoOwner
                                 /\ sessions[c] = None}
    /\ sweep' = IF expired' = {} THEN "idle" ELSE "dropClients"
    /\ UNCHANGED <<table, pc, req, told>>

FindClients ==
    /\ sweep = "findClients"
    /\ expired' = {c \in Client : Overdue(clients[c]) /\ sessions[c] = None}
    /\ sweep' = IF expired' = {} THEN "idle" ELSE "dropClients"
    /\ UNCHANGED <<table, pc, req, told>>

\* The owner entry removed is the one under the record's id_string: that of the
\* empty owner for a client made by EXCHANGE_ID, whose own entry therefore stays.
DropClients ==
    /\ sweep = "dropClients"
    /\ clients' = [c \in Client |-> IF c \in expired THEN None ELSE clients[c]]
    /\ ownerMap' = [o \in Owner |->
          IF \E c \in expired : clients[c] # None /\ clients[c].idString = o
          THEN 0 ELSE ownerMap[o]]
    /\ expired' = {}
    /\ sweep' = "idle"
    /\ UNCHANGED <<counter, sessions, pc, req, told>>

Sweep == FindSessions \/ DropSessions \/ FindClients \/ DropClients

Older(r) == IF r = None \/ r.age > Lease THEN r ELSE [r EXCEPT !.age = @ + 1]

Tick ==
    /\ sweep = "idle"
    /\ clients' = [c \in Client |-> Older(clients[c])]
    /\ sessions' = [c \in Client |-> Older(sessions[c])]
    /\ UNCHANGED <<ownerMap, counter, pc, req, told, sweep, expired>>

-----------------------------------------------------------------------------

Continue(t) ==
    \/ ExchangeAlloc(t)
    \/ ExchangeMap(t)
    \/ ExchangeStore(t)
    \/ SetClientIdAlloc(t)
    \/ SetClientIdStore(t)
    \/ SequenceUpdate(t)

Next ==
    \/ \E t \in Task :
          \/ \E o \in Owner : ExchangeId(t, o)
          \/ \E o \in Owner, v \in Verifier : SetClientIdKnown(t, o, v) \/ SetClientIdNew(t, o, v)
          \/ \E c \in ExchangedIds, q \in Seq32 : SequenceCheck(t, c, q)
          \/ Continue(t)
    \/ \E c \in ExchangedIds : CreateSession(c) \/ DestroySession(c) \/ DestroyClientId(c)
    \/ Sweep
    \/ Tick

Spec == Init /\ [][Next]_vars

\* The sweep's task is polled; nothing else has to happen.
FairSpec == Spec /\ WF_vars(Sweep)

-----------------------------------------------------------------------------

\* a was answered to a SETCLIENTID with an empty id_string, b to an EXCHANGE_ID.
EmptyMeetsExchange(a, b) == a.owner = NoOwner /\ a.minor = 0 /\ b.minor = 1

\* No two owners, and no v4.0 and v4.1 client, are ever answered the same
\* client id, although both protocols draw from one counter, records expire
\* and requests interleave at every lock.  The exception is SETCLIENTID with an
\* empty id_string, which may be answered the id of any client of EXCHANGE_ID.
IdsNeverShared ==
    \A a, b \in told : a.id = b.id =>
        \/ a.owner = b.owner /\ a.minor = b.minor
        \/ EmptyMeetsExchange(a, b) \/ EmptyMeetsExchange(b, a)

\* Only CREATE_SESSION makes a session exist: in particular a SEQUENCE that
\* passed its check before DESTROY_SESSION or the sweep removed the session
\* does not bring it back when it takes the write lock.
OnlyCreateSessionCreates ==
    [][\A c \in Client :
          sessions[c] = None /\ sessions'[c] # None => CreateSession(c)]_vars

\* A session left idle beyond the lease is removed, unless it is used or
\* created again in the meantime (cleanup_expired).
IdleSessionsExpire ==
    \A c \in Client :
        Overdue(sessions[c]) ~> (sessions[c] = None \/ ~Overdue(sessions[c]))

\* A client record idle beyond the lease and without a session is removed,
\* unless EXCHANGE_ID renews it or the client gets a session.
IdleClientsExpire ==
    \A c \in Client :
        (Overdue(clients[c]) /\ sessions[c] = None)
            ~> (~Overdue(clients[c]) \/ sessions[c] # None)
=============================================================================
