------------------------------ MODULE Admission ------------------------------
(***************************************************************************)
(* Which TCP connections the NFS port takes (src/src/nfs/mod.rs): the      *)
(* limiter of new connections per IP and window, the cap on connections    *)
(* open at once, and the accept loop that consults the two while           *)
(* connection tasks end and the limiter's cleanup runs.                    *)
(*                                                                         *)
(* There is one accept loop.  Between two of its steps other threads run:  *)
(* a connection task may drop its ConnGuard at any time.                   *)
(***************************************************************************)
EXTENDS Integers, FiniteSets

CONSTANTS
    Ip,             \* client addresses
    Task,           \* connection tasks, spawned one after another for ever
    None,           \* no limiter entry; the accept loop holds no stream
    MaxPerIp,       \* max_conn_rate_per_ip
    Window,         \* the limiter's window, in ticks
    MaxConnections  \* max_connections

\* Beyond these the exact value makes no difference to the limiter.
Count == 0..(MaxPerIp + 1)
Age == 0..(Window + 1)
Entry == [count: Count, age: Age]

ASSUME AdmissionAssumption ==
    /\ None \notin Ip
    /\ None \notin Nat
    /\ None \notin Entry
    /\ MaxPerIp \in Nat \ {0}
    /\ Window \in Nat
    /\ MaxConnections \in Nat

VARIABLES
    perIp,      \* the limiter's map: Ip -> count and age of its window, or None
    connCount,  \* conn_count
    active,     \* the connection tasks that hold a ConnGuard
    peer,       \* whose stream the accept loop holds
    current,    \* the value fetch_add returned to it, None before the call
    recent      \* Ip -> age -> connections the limiter has let through since that long ago

admissionVars == <<perIp, connCount, active, peer, current, recent>>

AdmissionTypeOK ==
    /\ perIp \in [Ip -> Entry \cup {None}]
    /\ connCount \in 0..(MaxConnections + 1)
    /\ active \in SUBSET Task
    /\ IsFiniteSet(active)
    /\ peer \in Ip \cup {None}
    /\ current \in 0..MaxConnections \cup {None}
    /\ recent \in [Ip -> [0..Window -> Nat]]

AdmissionInit ==
    /\ perIp = [i \in Ip |-> None]
    /\ connCount = 0
    /\ active = {}
    /\ peer = None
    /\ current = None
    /\ recent = [i \in Ip |-> [a \in 0..Window |-> 0]]

-----------------------------------------------------------------------------

AtMost(n, m) == IF n > m THEN m ELSE n

\* ConnRateLimiter::check: what the entry becomes.  A window that is over is
\* replaced by one that starts now, and counts this connection.
Counted(e) ==
    IF e = None THEN [count |-> 1, age |-> 0]
    ELSE IF e.age > Window THEN [count |-> 1, age |-> 0]
    ELSE [e EXCEPT !.count = AtMost(@ + 1, MaxPerIp + 1)]

\* The first connection of a window after the first is let through as such;
\* any other one if the window's count, this connection included, allows it.
Allowed(e) == Counted(e).count <= MaxPerIp

\* accept() returns a stream from i and the limiter lets it through ...
AcceptAllowed(i) ==
    /\ peer = None
    /\ Allowed(perIp[i])
    /\ perIp' = [perIp EXCEPT ![i] = Counted(@)]
    /\ recent' = [recent EXCEPT ![i] = [a \in 0..Window |-> @[a] + 1]]
    /\ peer' = i
    /\ UNCHANGED <<connCount, active, current>>

\* ... or does not, and the stream is dropped.
AcceptLimited(i) ==
    /\ peer = None
    /\ ~Allowed(perIp[i])
    /\ perIp' = [perIp EXCEPT ![i] = Counted(@)]
    /\ UNCHANGED <<connCount, active, peer, current, recent>>

\* fetch_add: the slot is taken first and looked at afterwards.
FetchAdd ==
    /\ peer # None
    /\ current = None
    /\ current' = connCount
    /\ connCount' = connCount + 1
    /\ UNCHANGED <<perIp, active, peer, recent>>

RejectKeepsSlot ==
    /\ current # None /\ current >= MaxConnections
    /\ peer' = None
    /\ current' = None
    /\ UNCHANGED <<perIp, connCount, active, recent>>

\* The cap was reached: the slot is given back and the stream dropped.
Reject ==
    /\ current # None /\ current >= MaxConnections
    /\ connCount' = connCount - 1
    /\ peer' = None
    /\ current' = None
    /\ UNCHANGED <<perIp, active, recent>>

SpawnAtCap ==
    /\ current # None /\ current <= MaxConnections
    /\ \E t \in Task \ active : active' = active \cup {t}
    /\ peer' = None
    /\ current' = None
    /\ UNCHANGED <<perIp, connCount, recent>>

\* A task is spawned for the stream, with the guard of its slot.
Spawn ==
    /\ current # None /\ current < MaxConnections
    /\ \E t \in Task \ active : active' = active \cup {t}
    /\ peer' = None
    /\ current' = None
    /\ UNCHANGED <<perIp, connCount, recent>>

\* A connection task ends, whatever the reason (a failed TLS handshake, end of
\* stream, an unacceptable record, an error): its guard is dropped.
End(t) ==
    /\ t \in active
    /\ active' = active \ {t}
    /\ connCount' = connCount - 1
    /\ UNCHANGED <<perIp, peer, current, recent>>

CleanupByCount ==
    /\ perIp' = [i \in Ip |->
          IF perIp[i] # None /\ perIp[i].count > MaxPerIp THEN perIp[i] ELSE None]
    /\ UNCHANGED <<connCount, active, peer, current, recent>>

\* ConnRateLimiter::cleanup keeps an entry that is in its window or has a count.
Cleanup ==
    /\ perIp' = [i \in Ip |->
          IF perIp[i] # None /\ (perIp[i].age <= Window \/ perIp[i].count > 0)
          THEN perIp[i] ELSE None]
    /\ UNCHANGED <<connCount, active, peer, current, recent>>

Older(e) == IF e = None THEN None ELSE [e EXCEPT !.age = AtMost(@ + 1, Window + 1)]

Tick ==
    /\ perIp' = [i \in Ip |-> Older(perIp[i])]
    /\ recent' = [i \in Ip |-> [a \in 0..Window |-> IF a = 0 THEN 0 ELSE recent[i][a - 1]]]
    /\ UNCHANGED <<connCount, active, peer, current>>

AdmissionNext ==
    \/ \E i \in Ip : AcceptAllowed(i) \/ AcceptLimited(i)
    \/ \E t \in Task : End(t)
    \/ FetchAdd
    \/ Reject
    \/ Spawn
    \/ Cleanup
    \/ Tick

AdmissionSpec == AdmissionInit /\ [][AdmissionNext]_admissionVars

-----------------------------------------------------------------------------

\* There are never more connection tasks than max_connections, although the
\* counter itself passes the cap for a moment and tasks end at any time.
CapKept == Cardinality(active) <= MaxConnections

\* No slot leaks and none is given back twice: conn_count is the number of
\* tasks, and of the slot the accept loop has taken and not yet decided on.
CountExact == connCount = Cardinality(active) + (IF current = None THEN 0 ELSE 1)

\* A client gets at most two windows' worth of connections in any stretch of
\* time as long as a window: windows start with a connection, never overlap,
\* and cleanup never makes the limiter forget one that is not over.
RateKept == \A i \in Ip : recent[i][Window] <= 2 * MaxPerIp
=============================================================================
