-------------------------- MODULE Nfs4StateProofs --------------------------
(***************************************************************************)
(* Proofs about the two halves of the NFSv4 state, for any owners,         *)
(* verifiers, requests, files, offsets and word size.                      *)
(*                                                                         *)
(* Sessions.  Whoever holds, stores or was answered a client id makes a    *)
(* claim on it: for which owner, and by which protocol.  A step other than *)
(* Alloc makes no claim that was not there before, but one: EXCHANGE_ID    *)
(* makes a record with an empty id_string, which is then claimed for the   *)
(* empty owner by v4.0 too.  Alloc claims an id that nobody claims; so     *)
(* claims on one id agree but for that one, and answers are claims.        *)
(*                                                                         *)
(* OpenLocks.  LOCK keeps each list exclusive because a range is tested    *)
(* against every lock of the list before it enters it.  That the locks     *)
(* asked for with open stateids exclude each other needs one more fact: an *)
(* open id has 0 as its high half, so all that were sent with one sequence *)
(* number are in one list, which is no list under a lock id.               *)
(***************************************************************************)
EXTENDS Sessions, OpenLocks, TLAPS

-----------------------------------------------------------------------------
(* Sessions.                                                                *)

\* What a request has in hand at each point.
InHand ==
    \A t \in Task :
        /\ pc[t] \in {"xAlloc", "xMap", "xStore", "sAlloc", "sStore"} => req[t].owner \in Owner
        /\ pc[t] \in {"xMap", "xStore", "sStore", "seq"} => req[t].id \in Client
        /\ pc[t] = "seq" => req[t].seq \in Seq32

Typed == TypeOK /\ InHand

\* c is claimed for owner o by protocol m.
Claimed(c, o, m) ==
    \/ [owner |-> o, id |-> c, minor |-> m] \in told
    \/ m = 1 /\ ownerMap[o] = c
    \/ m = 0 /\ clients[c] # None /\ clients[c].idString = o
    \/ \E t \in Task : /\ req[t].id = c /\ req[t].owner = o
                       /\ \/ m = 1 /\ pc[t] \in {"xMap", "xStore"}
                          \/ m = 0 /\ pc[t] = "sStore"

\* The claim that the empty id_string of a record of EXCHANGE_ID makes.
EmptyClaim(o, m, n) == o = NoOwner /\ m = 0 /\ n = 1

ClaimsAgree ==
    \A c \in Client : \A o, p \in Owner : \A m, n \in {0, 1} :
        Claimed(c, o, m) /\ Claimed(c, p, n) =>
            (o = p /\ m = n) \/ EmptyClaim(o, m, n) \/ EmptyClaim(p, n, m)

ClaimsOld == \A c \in Client : \A o \in Owner : \A m \in {0, 1} : Claimed(c, o, m) => c < counter

NoNewClaim ==
    \A c \in Client : \A o \in Owner : \A m \in {0, 1} :
        Claimed(c, o, m)' =>
            \/ Claimed(c, o, m)
            \/ o = NoOwner /\ m = 0 /\ \E p \in Owner : Claimed(c, p, 1)

-----------------------------------------------------------------------------
(* Types.                                                                   *)

LEMMA InitTyped == Init => Typed
BY ConstantsAssumption
   DEF Init, Typed, TypeOK, InHand, NoRequest, Request, Client, Seq32

LEMMA AllocTyped ==
    ASSUME Typed, NEW t \in Task, ExchangeAlloc(t) \/ SetClientIdAlloc(t) PROVE Typed'
<1> USE ConstantsAssumption DEF Typed, ExchangeAlloc, SetClientIdAlloc, Alloc, Goto
<1>1. counter \in Client
  BY DEF TypeOK, Client
<1>2. TypeOK'
  <2>1. counter' \in 1..(MaxClient + 1)
    BY <1>1 DEF TypeOK, Client
  <2>2. req' \in [Task -> Request]
    <3>1. counter \in 0..MaxClient /\ req' = [req EXCEPT ![t].id = counter]
      BY <1>1 DEF Client
    <3> QED  BY <3>1 DEF TypeOK, Request
  <2>3. pc' \in [Task -> {"idle", "xAlloc", "xMap", "xStore", "sAlloc", "sStore", "seq"}]
    BY DEF TypeOK
  <2> QED  BY <2>1, <2>2, <2>3 DEF TypeOK
<1>3. InHand'
  BY <1>1 DEF TypeOK, InHand, Request
<1> QED  BY <1>2, <1>3

LEMMA ExchangeTyped ==
    ASSUME Typed, NEW t \in Task,
           (\E o \in Owner : ExchangeId(t, o)) \/ ExchangeMap(t) \/ ExchangeStore(t)
    PROVE  Typed'
<1> USE ConstantsAssumption DEF Typed, Goto
<1>1. ASSUME NEW o \in Owner, ExchangeId(t, o) PROVE Typed'
  <2>1. ownerMap[o] \in 0..MaxClient
    BY DEF TypeOK
  <2>2. TypeOK'
    BY <1>1 DEF ExchangeId, table, TypeOK, Request
  <2>3. InHand'
    <3>1. /\ req'[t].owner = o /\ req'[t].id = ownerMap[o]
          /\ pc'[t] = IF ownerMap[o] # 0 THEN "xStore" ELSE "xAlloc"
          /\ \A u \in Task : u # t => pc'[u] = pc[u] /\ req'[u] = req[u]
      BY <1>1 DEF ExchangeId, TypeOK, Request
    <3> QED  BY <2>1, <3>1 DEF InHand, Client
  <2> QED  BY <2>2, <2>3
<1>2. CASE ExchangeMap(t)
  <2>1. req[t].owner \in Owner /\ req[t].id \in Client
    BY <1>2 DEF ExchangeMap, InHand
  <2>2. TypeOK'
    BY <1>2, <2>1 DEF ExchangeMap, TypeOK, Client
  <2>3. InHand'
    BY <1>2 DEF ExchangeMap, TypeOK, InHand
  <2> QED  BY <2>2, <2>3
<1>3. CASE ExchangeStore(t)
  <2>1. req[t].owner \in Owner /\ req[t].id \in Client
    BY <1>3 DEF ExchangeStore, InHand
  <2>2. TypeOK'
    BY <1>3, <2>1
    DEF ExchangeStore, Finish, Answer, TypeOK, ClientRecord, Age, Request, NoRequest
  <2>3. InHand'
    BY <1>3 DEF ExchangeStore, Finish, TypeOK, InHand
  <2> QED  BY <2>2, <2>3
<1> QED  BY <1>1, <1>2, <1>3

LEMMA SetClientIdTyped ==
    ASSUME Typed, NEW t \in Task,
           \/ \E o \in Owner, v \in Verifier : SetClientIdKnown(t, o, v) \/ SetClientIdNew(t, o, v)
           \/ SetClientIdStore(t)
    PROVE  Typed'
<1> USE ConstantsAssumption DEF Typed, Goto
<1>1. ASSUME NEW o \in Owner, NEW v \in Verifier, SetClientIdKnown(t, o, v) PROVE Typed'
  <2>1. TypeOK'
    BY <1>1 DEF SetClientIdKnown, SameString, Answer, table, TypeOK
  <2>2. InHand'
    BY <1>1 DEF SetClientIdKnown, InHand
  <2> QED  BY <2>1, <2>2
<1>2. ASSUME NEW o \in Owner, NEW v \in Verifier, SetClientIdNew(t, o, v) PROVE Typed'
  <2>1. TypeOK'
    BY <1>2 DEF SetClientIdNew, table, TypeOK, Request
  <2>2. InHand'
    <3>1. /\ pc'[t] = "sAlloc"
          /\ \A u \in Task : u # t => pc'[u] = pc[u] /\ req'[u] = req[u]
      BY <1>2 DEF SetClientIdNew, TypeOK
    <3>2. req'[t].owner = o /\ o \in Owner
      BY <1>2 DEF SetClientIdNew, TypeOK, Request
    <3> QED  BY <3>1, <3>2 DEF InHand
  <2> QED  BY <2>1, <2>2
<1>3. CASE SetClientIdStore(t)
  <2>1. req[t].owner \in Owner /\ req[t].id \in Client /\ req[t].verifier \in Verifier
    BY <1>3 DEF SetClientIdStore, InHand, TypeOK, Request
  <2>2. TypeOK'
    BY <1>3, <2>1
    DEF SetClientIdStore, Finish, Answer, TypeOK, ClientRecord, Age, Request, NoRequest
  <2>3. InHand'
    BY <1>3 DEF SetClientIdStore, Finish, TypeOK, InHand
  <2> QED  BY <2>2, <2>3
<1> QED  BY <1>1, <1>2, <1>3

LEMMA ExchangedIdsAreClients == TypeOK => ExchangedIds \subseteq Client
BY DEF TypeOK, ExchangedIds

LEMMA SessionTyped ==
    ASSUME Typed, NEW c \in Client, CreateSession(c) \/ DestroySession(c) \/ DestroyClientId(c)
    PROVE  Typed'
<1>1. TypeOK'
  BY ConstantsAssumption
  DEF Typed, CreateSession, DestroySession, DestroyClientId, Drop, TypeOK, SessionRecord, Age, Seq32
<1>2. InHand'
  BY DEF Typed, CreateSession, DestroySession, DestroyClientId, InHand
<1> QED  BY <1>1, <1>2 DEF Typed

LEMMA SequenceTyped ==
    ASSUME Typed, NEW t \in Task,
           (\E c \in Client, q \in Seq32 : SequenceCheck(t, c, q)) \/ SequenceUpdate(t)
    PROVE  Typed'
<1> USE ConstantsAssumption DEF Typed, Goto
<1>1. ASSUME NEW c \in Client, NEW q \in Seq32, SequenceCheck(t, c, q) PROVE Typed'
  <2>1. req' \in [Task -> Request]
    <3>1. c \in 0..MaxClient /\ q \in 0..MaxSeq
      BY DEF Client, Seq32
    <3> QED  BY <1>1, <3>1 DEF SequenceCheck, TypeOK, Request
  <2>2. TypeOK'
    BY <1>1, <2>1 DEF SequenceCheck, table, TypeOK
  <2>3. InHand'
    <3>1. /\ req'[t].id = c /\ req'[t].seq = q /\ pc'[t] = "seq"
          /\ \A u \in Task : u # t => pc'[u] = pc[u] /\ req'[u] = req[u]
      BY <1>1 DEF SequenceCheck, TypeOK, Request
    <3> QED  BY <3>1 DEF InHand
  <2> QED  BY <2>2, <2>3
<1>2. CASE SequenceUpdate(t)
  <2>1. req[t].id \in Client /\ req[t].seq \in Seq32
    BY <1>2 DEF SequenceUpdate, InHand
  <2>2. sessions' \in [Client -> SessionRecord \cup {None}]
    BY <1>2, <2>1 DEF SequenceUpdate, TypeOK, SessionRecord, Age
  <2>3. TypeOK'
    BY <1>2, <2>2 DEF SequenceUpdate, Finish, TypeOK, Request, NoRequest
  <2>4. InHand'
    BY <1>2 DEF SequenceUpdate, Finish, TypeOK, InHand
  <2> QED  BY <2>3, <2>4
<1> QED  BY <1>1, <1>2

LEMMA SweepTyped == ASSUME Typed, Sweep PROVE Typed'
<1>1. InHand'
  BY DEF Typed, Sweep, FindSessions, DropSessions, FindClients, DropClients, table, InHand
<1>2. CASE FindSessions \/ FindClients
  BY <1>1, <1>2 DEF Typed, FindSessions, FindClients, table, TypeOK
<1>3. CASE DropSessions
  BY <1>1, <1>3 DEF Typed, DropSessions, Drop, TypeOK
<1>4. CASE DropClients
  BY <1>1, <1>4, ConstantsAssumption DEF Typed, DropClients, TypeOK
<1> QED  BY <1>2, <1>3, <1>4 DEF Sweep

LEMMA TickTyped == ASSUME Typed, Tick PROVE Typed'
<1>1. ASSUME NEW r \in ClientRecord \cup {None} PROVE Older(r) \in ClientRecord \cup {None}
  BY ConstantsAssumption DEF Older, ClientRecord, Age
<1>2. ASSUME NEW r \in SessionRecord \cup {None} PROVE Older(r) \in SessionRecord \cup {None}
  BY ConstantsAssumption DEF Older, SessionRecord, Age
<1>3. clients' \in [Client -> ClientRecord \cup {None}]
  BY <1>1 DEF Typed, TypeOK, Tick
<1>4. sessions' \in [Client -> SessionRecord \cup {None}]
  BY <1>2 DEF Typed, TypeOK, Tick
<1> QED  BY <1>3, <1>4 DEF Typed, TypeOK, InHand, Tick

LEMMA NextTyped == Typed /\ [Next]_vars => Typed'
<1> SUFFICES ASSUME Typed, [Next]_vars PROVE Typed'
  OBVIOUS
<1>1. ExchangedIds \subseteq Client
  BY ExchangedIdsAreClients DEF Typed
<1>2. CASE UNCHANGED vars
  BY <1>2 DEF vars, Typed, TypeOK, InHand
<1> QED
  BY <1>1, <1>2, AllocTyped, ExchangeTyped, SetClientIdTyped, SessionTyped,
     SequenceTyped, SweepTyped, TickTyped DEF Next, Continue

\* Requests between two locks hold ids and owners of the right kind: the
\* inductive invariant of the types.
THEOREM AlwaysTyped == Spec => []Typed
BY InitTyped, NextTyped, PTL DEF Spec

-----------------------------------------------------------------------------
(* Claims.                                                                  *)

\* Steps that add to nothing a claim looks at.
LEMMA QuietNoNewClaim ==
    ASSUME Typed,
           UNCHANGED <<told, ownerMap, clients>>,
           \A t \in Task : \/ pc'[t] \in {"idle", "xAlloc", "sAlloc", "seq"}
                           \/ pc'[t] = pc[t] /\ req'[t] = req[t]
    PROVE  NoNewClaim
BY DEF NoNewClaim, Claimed

LEMMA ExchangeNoNewClaim ==
    ASSUME Typed, NEW t \in Task,
           (\E o \in Owner : ExchangeId(t, o)) \/ ExchangeMap(t) \/ ExchangeStore(t)
    PROVE  NoNewClaim
<1> USE DEF Typed, TypeOK, Goto, NoNewClaim
<1>1. ASSUME NEW o \in Owner, ExchangeId(t, o) PROVE NoNewClaim
  <2>1. /\ req'[t].owner = o /\ req'[t].id = ownerMap[o]
        /\ pc'[t] = IF ownerMap[o] # 0 THEN "xStore" ELSE "xAlloc"
        /\ \A u \in Task : u # t => pc'[u] = pc[u] /\ req'[u] = req[u]
    BY <1>1 DEF ExchangeId, Request
  <2>2. UNCHANGED <<told, ownerMap, clients>>
    BY <1>1 DEF ExchangeId, table
  <2> QED  BY <2>1, <2>2 DEF Claimed
<1>2. CASE ExchangeMap(t)
  BY <1>2 DEF ExchangeMap, Claimed
<1>3. CASE ExchangeStore(t)
  <2>1. req[t].owner \in Owner /\ req[t].id \in Client /\ Claimed(req[t].id, req[t].owner, 1)
    BY <1>3 DEF ExchangeStore, InHand, Claimed
  <2>2. ASSUME NEW c \in Client, NEW o \in Owner, NEW m \in {0, 1}, Claimed(c, o, m)',
               ~Claimed(c, o, m)
        PROVE  c = req[t].id /\ o = NoOwner /\ m = 0
    <3>1. ~([owner |-> o, id |-> c, minor |-> m] = [owner |-> req[t].owner, id |-> req[t].id, minor |-> 1])
      BY <2>1, <2>2
    <3> QED  BY <1>3, <2>2, <3>1 DEF ExchangeStore, Finish, Answer, Claimed
  <2> QED  BY <2>1, <2>2
<1> QED  BY <1>1, <1>2, <1>3

LEMMA SetClientIdNoNewClaim ==
    ASSUME Typed, NEW t \in Task,
           \/ \E o \in Owner, v \in Verifier : SetClientIdKnown(t, o, v) \/ SetClientIdNew(t, o, v)
           \/ SetClientIdStore(t)
    PROVE  NoNewClaim
<1> USE DEF Typed, TypeOK, Goto, NoNewClaim
<1>1. ASSUME NEW o \in Owner, NEW v \in Verifier, SetClientIdKnown(t, o, v) PROVE NoNewClaim
  BY <1>1 DEF SetClientIdKnown, SameString, Answer, table, Claimed
<1>2. ASSUME NEW o \in Owner, NEW v \in Verifier, SetClientIdNew(t, o, v) PROVE NoNewClaim
  <2>1. /\ pc'[t] = "sAlloc"
        /\ \A u \in Task : u # t => pc'[u] = pc[u] /\ req'[u] = req[u]
    BY <1>2 DEF SetClientIdNew
  <2>2. UNCHANGED <<told, ownerMap, clients>>
    BY <1>2 DEF SetClientIdNew, table
  <2> QED  BY <2>1, <2>2 DEF Claimed
<1>3. CASE SetClientIdStore(t)
  BY <1>3 DEF SetClientIdStore, Finish, Answer, Claimed
<1> QED  BY <1>1, <1>2, <1>3

\* A record the sweep and the clock leave keeps its id_string, and an owner
\* entry is only ever removed.
LEMMA RecordsNoNewClaim == ASSUME Typed, DropClients \/ Tick PROVE NoNewClaim
<1> USE DEF Typed, TypeOK, NoNewClaim
<1>1. CASE DropClients
  BY <1>1, ConstantsAssumption DEF DropClients, Claimed, Client
<1>2. CASE Tick
  <2>1. \A c \in Client : /\ clients'[c] # None => clients[c] # None
                          /\ clients[c] # None => clients'[c].idString = clients[c].idString
    BY <1>2 DEF Tick, Older, ClientRecord
  <2> QED  BY <1>2, <2>1 DEF Tick, Claimed
<1> QED  BY <1>1, <1>2

Claims == Typed /\ ClaimsAgree /\ ClaimsOld

LEMMA NoNewClaimKeeps ==
    ASSUME Claims, Typed', NoNewClaim, counter' = counter PROVE Claims'
<1>1. ClaimsAgree'
  BY DEF Claims, ClaimsAgree, NoNewClaim, EmptyClaim
<1>2. ClaimsOld'
  BY DEF Claims, ClaimsOld, NoNewClaim
<1> QED  BY <1>1, <1>2 DEF Claims

\* The one claim Alloc makes is on the counter's value, on which there is none.
LEMMA AllocKeeps ==
    ASSUME Claims, Typed', NEW t \in Task, ExchangeAlloc(t) \/ SetClientIdAlloc(t)
    PROVE  Claims'
<1> USE DEF ExchangeAlloc, SetClientIdAlloc, Alloc, Goto
<1>1. /\ counter \in Client /\ counter' = counter + 1 /\ counter \in Nat
      /\ UNCHANGED <<told, ownerMap, clients>>
      /\ \A u \in Task : u # t => pc'[u] = pc[u] /\ req'[u] = req[u]
      /\ req'[t].id = counter /\ req'[t].owner = req[t].owner
      /\ pc'[t] \in {"xMap", "sStore"}
  BY ConstantsAssumption DEF Claims, Typed, TypeOK, Client, Request
<1>2. \A c \in Client : \A o \in Owner : \A m \in {0, 1} :
          Claimed(c, o, m)' =>
              \/ Claimed(c, o, m)
              \/ /\ c = counter /\ o = req[t].owner
                 /\ m = (IF pc'[t] = "xMap" THEN 1 ELSE 0)
  BY <1>1 DEF Claimed
<1>3. \A o \in Owner : \A m \in {0, 1} : ~Claimed(counter, o, m)
  BY <1>1 DEF Claims, ClaimsOld
<1>4. ClaimsAgree'
  BY <1>2, <1>3 DEF Claims, ClaimsAgree
<1>5. ClaimsOld'
  BY <1>1, <1>2 DEF Claims, ClaimsOld, Client
<1> QED  BY <1>4, <1>5 DEF Claims

LEMMA NextClaims == Claims /\ Typed' /\ [Next]_vars => Claims'
<1> SUFFICES ASSUME Claims, Typed', [Next]_vars PROVE Claims'
  OBVIOUS
<1>1. Typed
  BY DEF Claims
<1>2. ASSUME NEW t \in Task, ExchangeAlloc(t) \/ SetClientIdAlloc(t) PROVE Claims'
  BY <1>2, AllocKeeps
<1>3. ASSUME NEW t \in Task,
             \/ (\E o \in Owner : ExchangeId(t, o)) \/ ExchangeMap(t) \/ ExchangeStore(t)
             \/ \E o \in Owner, v \in Verifier : SetClientIdKnown(t, o, v) \/ SetClientIdNew(t, o, v)
             \/ SetClientIdStore(t)
      PROVE  Claims'
  <2>1. NoNewClaim
    BY <1>1, <1>3, ExchangeNoNewClaim, SetClientIdNoNewClaim
  <2>2. counter' = counter
    BY <1>3 DEF ExchangeId, ExchangeMap, ExchangeStore, SetClientIdKnown, SetClientIdNew,
                SetClientIdStore, table
  <2> QED  BY <2>1, <2>2, NoNewClaimKeeps
<1>4. CASE DropClients \/ Tick
  <2>1. NoNewClaim
    BY <1>1, <1>4, RecordsNoNewClaim
  <2>2. counter' = counter
    BY <1>4 DEF DropClients, Tick
  <2> QED  BY <2>1, <2>2, NoNewClaimKeeps
<1>5. ASSUME NEW c, CreateSession(c) \/ DestroySession(c) \/ DestroyClientId(c) PROVE Claims'
  <2>1. UNCHANGED <<told, ownerMap, clients, counter, pc, req>>
    BY <1>5 DEF CreateSession, DestroySession, DestroyClientId
  <2> QED  BY <1>1, <2>1, QuietNoNewClaim, NoNewClaimKeeps
<1>6. ASSUME NEW t \in Task, NEW c, NEW q, SequenceCheck(t, c, q) \/ SequenceUpdate(t)
      PROVE  Claims'
  <2>1. UNCHANGED <<told, ownerMap, clients, counter>>
    BY <1>6 DEF SequenceCheck, SequenceUpdate, table
  <2>2. \A u \in Task : \/ pc'[u] \in {"idle", "xAlloc", "sAlloc", "seq"}
                        \/ pc'[u] = pc[u] /\ req'[u] = req[u]
    BY <1>1, <1>6 DEF SequenceCheck, SequenceUpdate, Finish, Goto, Typed, TypeOK
  <2> QED  BY <1>1, <2>1, <2>2, QuietNoNewClaim, NoNewClaimKeeps
<1>7. CASE FindSessions \/ DropSessions \/ FindClients \/ UNCHANGED vars
  <2>1. UNCHANGED <<told, ownerMap, clients, counter, pc, req>>
    BY <1>7 DEF FindSessions, DropSessions, FindClients, vars, table
  <2> QED  BY <1>1, <2>1, QuietNoNewClaim, NoNewClaimKeeps
<1> QED
  BY <1>2, <1>3, <1>4, <1>5, <1>6, <1>7 DEF Next, Continue, Sweep

LEMMA InitClaims == Init => Claims
<1> SUFFICES ASSUME Init PROVE Claims
  OBVIOUS
<1>1. \A c \in Client : \A o \in Owner : \A m \in {0, 1} : ~Claimed(c, o, m)
  BY ConstantsAssumption DEF Init, Claimed, Client
<1> QED  BY <1>1, InitTyped DEF Claims, ClaimsAgree, ClaimsOld

\* No two owners ever claim one client id, but by way of an empty id_string,
\* between the locks of a handler either: the inductive invariant.
THEOREM AlwaysClaims == Spec => []Claims
BY InitClaims, AlwaysTyped, NextClaims, PTL DEF Spec

\* The variables keep their types, for any number of requests in progress.
THEOREM SessionsTypeCorrect == Spec => []TypeOK
BY AlwaysTyped, PTL DEF Typed

\* No client id is ever answered to two owners or by both protocols, unless to
\* a SETCLIENTID with an empty id_string and to an EXCHANGE_ID.
THEOREM NeverShared == Spec => []IdsNeverShared
<1>1. Claims => IdsNeverShared
  <2> SUFFICES ASSUME Claims, NEW a \in told, NEW b \in told, a.id = b.id
               PROVE  \/ a.owner = b.owner /\ a.minor = b.minor
                      \/ EmptyMeetsExchange(a, b) \/ EmptyMeetsExchange(b, a)
    BY DEF IdsNeverShared
  <2>1. /\ a = [owner |-> a.owner, id |-> a.id, minor |-> a.minor]
        /\ b = [owner |-> b.owner, id |-> b.id, minor |-> b.minor]
        /\ a.owner \in Owner /\ b.owner \in Owner /\ a.id \in Client
        /\ a.minor \in {0, 1} /\ b.minor \in {0, 1}
    BY DEF Claims, Typed, TypeOK
  <2>2. Claimed(a.id, a.owner, a.minor) /\ Claimed(a.id, b.owner, b.minor)
    BY <2>1 DEF Claimed
  <2> QED  BY <2>1, <2>2 DEF Claims, ClaimsAgree, EmptyClaim, EmptyMeetsExchange
<1> QED  BY <1>1, AlwaysClaims, PTL

-----------------------------------------------------------------------------
(* Which steps make a session.                                              *)

\* A step that puts a session where there was none is CREATE_SESSION: the
\* update of SEQUENCE looks again, the clock ages what there is, and every
\* other step leaves the table alone or only removes from it.
LEMMA NewSession ==
    ASSUME Typed, Next, NEW c \in Client, sessions[c] = None, sessions'[c] # None
    PROVE  CreateSession(c)
<1>1. ExchangedIds \subseteq Client
  BY ExchangedIdsAreClients DEF Typed
<1>2. sessions' # sessions
  OBVIOUS
<1>3. ASSUME NEW t \in Task PROVE ~SequenceUpdate(t)
  BY <1>2 DEF Typed, TypeOK, SequenceUpdate
<1>4. ASSUME NEW d PROVE ~DestroySession(d) /\ ~DestroyClientId(d)
  BY DEF DestroySession, DestroyClientId, Drop
<1>5. ~DropSessions /\ ~Tick
  BY DEF DropSessions, Drop, Tick, Older
<1>6. ASSUME NEW d \in Client, CreateSession(d) PROVE CreateSession(c)
  <2>1. d = c
    BY <1>6 DEF Typed, TypeOK, CreateSession
  <2> QED  BY <1>6, <2>1
<1>7. ASSUME NEW t \in Task, NEW d, NEW q PROVE ~SequenceCheck(t, d, q)
  BY <1>2 DEF SequenceCheck, table
<1>8. ASSUME NEW t \in Task, NEW o, NEW v
      PROVE  ~ExchangeId(t, o) /\ ~SetClientIdKnown(t, o, v) /\ ~SetClientIdNew(t, o, v)
  BY <1>2 DEF ExchangeId, SetClientIdKnown, SetClientIdNew, table
<1>9. ASSUME NEW t \in Task
      PROVE  /\ ~ExchangeAlloc(t) /\ ~ExchangeMap(t) /\ ~ExchangeStore(t)
             /\ ~SetClientIdAlloc(t) /\ ~SetClientIdStore(t)
  BY <1>2 DEF ExchangeAlloc, SetClientIdAlloc, Alloc, ExchangeMap, ExchangeStore, SetClientIdStore
<1>10. ~FindSessions /\ ~FindClients /\ ~DropClients
  BY <1>2 DEF FindSessions, FindClients, DropClients, table
<1> QED
  BY <1>1, <1>3, <1>4, <1>5, <1>6, <1>7, <1>8, <1>9, <1>10 DEF Next, Continue, Sweep

\* Only CREATE_SESSION makes a session exist: no SEQUENCE in progress brings
\* back one that was destroyed or swept after its check.
THEOREM OnlyCreateSession == Spec => OnlyCreateSessionCreates
<1>1. Typed /\ [Next]_vars =>
          [\A c \in Client : sessions[c] = None /\ sessions'[c] # None => CreateSession(c)]_vars
  BY NewSession
<1> QED  BY <1>1, AlwaysTyped, PTL DEF Spec, OnlyCreateSessionCreates

-----------------------------------------------------------------------------
(* OpenLocks.                                                               *)

\* A lock asked for with an open stateid is in the list under the sequence
\* number it was sent with and 0.
FreshUnderSeqid ==
    \A k \in Key : \A l \in locks[k] : l.seqid \in Seqid => k = <<l.seqid, 0>>

Exclusive ==
    /\ OpenLocksTypeOK
    /\ ListsExclusive
    /\ FreshUnderSeqid

-----------------------------------------------------------------------------

LEMMA WordSize == Word \in Nat /\ Word > 1 /\ Top \in Nat \ {0}
BY OpenLocksAssumption

\* Ranges that do not overlap, by the code's saturating test, have no byte in
\* common below the last offset, whether or not they reach to the end of the file.
LEMMA DisjointRanges ==
    ASSUME NEW l \in LockRecord, NEW m \in LockRecord,
           ~Overlap(l.offset, l.length, m.offset, m.length)
    PROVE  Bytes(l) \cap Bytes(m) \subseteq {Top}
<1> SUFFICES ASSUME NEW b \in Bytes(l) \cap Bytes(m), b # Top PROVE FALSE
  OBVIOUS
<1>1. /\ l.offset \in 0..Top /\ l.length \in 0..Top
      /\ m.offset \in 0..Top /\ m.length \in 0..Top
  BY DEF LockRecord, Offset
<1>2. /\ b \in 0..Top
      /\ l.offset <= b /\ (l.length = Top \/ b < l.offset + l.length)
      /\ m.offset <= b /\ (m.length = Top \/ b < m.offset + m.length)
  BY DEF Bytes, Offset
<1>3. CASE l.offset >= SaturatingAdd(m.offset, m.length)
  BY <1>1, <1>2, <1>3, WordSize DEF SaturatingAdd
<1>4. CASE m.offset >= SaturatingAdd(l.offset, l.length)
  BY <1>1, <1>2, <1>4, WordSize DEF SaturatingAdd
<1>5. SaturatingAdd(m.offset, m.length) \in 0..Top /\ SaturatingAdd(l.offset, l.length) \in 0..Top
  BY <1>1, WordSize DEF SaturatingAdd
<1> QED  BY <1>1, <1>3, <1>4, <1>5, WordSize DEF Overlap

\* Granting a lock keeps every list exclusive.
LEMMA GrantExclusive ==
    ASSUME Exclusive, NEW k \in Key, NEW l \in LockRecord, l.id = lockNext,
           l.seqid \in Seqid => k = <<l.seqid, 0>>, Grant(k, l)
    PROVE  Exclusive'
<1>1. OpenLocksTypeOK'
  <2>1. lockNext' \in 1..(MaxLock + 1)
    BY OpenLocksAssumption DEF Exclusive, OpenLocksTypeOK, Grant
  <2>2. locks' \in [Key -> SUBSET LockRecord]
    BY DEF Exclusive, OpenLocksTypeOK, Grant
  <2>3. granted' \subseteq [id: LockId, holder: Holder, file: File]
    BY DEF Exclusive, OpenLocksTypeOK, Grant, LockRecord
  <2> QED  BY <2>1, <2>2, <2>3 DEF Exclusive, OpenLocksTypeOK, Grant
<1>2. \A j \in Key : locks'[j] = IF j = k THEN locks[k] \cup {l} ELSE locks[j]
  BY DEF Exclusive, OpenLocksTypeOK, Grant
<1>3. ASSUME NEW m \in locks[k], Clash(l, m) PROVE Bytes(l) \cap Bytes(m) \subseteq {Top}
  <2>1. m \in LockRecord
    BY DEF Exclusive, OpenLocksTypeOK
  <2>2. ~Overlap(l.offset, l.length, m.offset, m.length)
    BY <1>3 DEF Grant, Conflict, Clash
  <2> QED  BY <2>1, <2>2, DisjointRanges
<1>4. ListsExclusive'
  <2> SUFFICES ASSUME NEW j \in Key, NEW x \in locks'[j], NEW y \in locks'[j],
                      x # y, Clash(x, y)
               PROVE  Bytes(x) \cap Bytes(y) \subseteq {Top}
    BY DEF ListsExclusive, Clash, Bytes
  <2>1. CASE x \in locks[j] /\ y \in locks[j]
    BY <2>1 DEF Exclusive, ListsExclusive
  <2>2. CASE j = k /\ x = l /\ y \in locks[k]
    BY <2>2, <1>3
  <2>3. CASE j = k /\ y = l /\ x \in locks[k]
    BY <2>3, <1>3 DEF Clash
  <2> QED  BY <1>2, <2>1, <2>2, <2>3
<1>5. FreshUnderSeqid'
  BY <1>2 DEF Exclusive, FreshUnderSeqid
<1> QED  BY <1>1, <1>4, <1>5 DEF Exclusive

\* Releasing locks only makes lists smaller.
LEMMA ReleaseExclusive ==
    ASSUME Exclusive, NEW k \in Key, NEW owner, NEW type, NEW offset, NEW length,
           Release(k, owner, type, offset, length)
    PROVE  Exclusive'
<1>1. \A j \in Key : locks'[j] \subseteq locks[j]
  BY DEF Exclusive, OpenLocksTypeOK, Release
<1>2. locks' \in [Key -> SUBSET LockRecord]
  BY <1>1 DEF Exclusive, OpenLocksTypeOK, Release
<1>3. OpenLocksTypeOK'
  BY <1>2 DEF Exclusive, OpenLocksTypeOK, Release
<1>4. ListsExclusive'
  BY <1>1 DEF Exclusive, ListsExclusive, Clash, Bytes
<1>5. FreshUnderSeqid'
  BY <1>1 DEF Exclusive, FreshUnderSeqid
<1> QED  BY <1>3, <1>4, <1>5 DEF Exclusive

\* What is read of an open stateid is its sequence number and 0, whichever
\* open it is; what is read of a lock stateid is 0 and its id.
LEMMA OpenKey ==
    ASSUME NEW s \in Seqid, NEW n \in OpenId
    PROVE  SeqidAndHigh(s, n) = <<s, 0>> /\ <<s, 0>> \in Key
<1>1. n \in 0..(Word - 1) /\ Word \in Nat /\ Word > 0 /\ s \in 0..(Word - 1)
  BY OpenLocksAssumption DEF OpenId
<1>2. n \div Word = 0
  BY <1>1
<1> QED  BY <1>1, <1>2 DEF SeqidAndHigh, Key

LEMMA LockKey == ASSUME NEW n \in LockId PROVE Halves(n) = <<0, n>> /\ <<0, n>> \in Key
<1>1. n \in 0..(Word - 1) /\ Word \in Nat /\ Word > 0
  BY OpenLocksAssumption DEF LockId
<1>2. n \div Word = 0 /\ n % Word = n
  BY <1>1
<1> QED  BY <1>1, <1>2 DEF Halves, Key

\* The lock that a granted request enters, and the list it enters.
LEMMA LockNewGrants ==
    ASSUME OpenLocksTypeOK, NEW w \in Holder, NEW o \in opened, NEW s \in Seqid,
           NEW type \in LockType, NEW offset \in Offset, NEW length \in Offset,
           LockNew(w, o, s, type, offset, length)
    PROVE  \E l \in LockRecord :
              /\ l.id = lockNext /\ l.seqid = s /\ l.owner = l.holder.bytes
              /\ <<s, 0>> \in Key /\ Grant(<<s, 0>>, l)
<1> DEFINE l == [id |-> lockNext, offset |-> offset, length |-> length, type |-> type,
                 owner |-> w.bytes, file |-> o.file, holder |-> w, seqid |-> s]
<1>1. o.id \in OpenId /\ o.file \in File
  BY DEF OpenLocksTypeOK
<1>2. SeqidAndHigh(s, o.id) = <<s, 0>> /\ <<s, 0>> \in Key
  BY <1>1, OpenKey
<1>3. Grant(<<s, 0>>, l)
  BY <1>2 DEF LockNew
<1>4. lockNext \in LockId
  BY <1>3, OpenLocksAssumption DEF Grant, OpenLocksTypeOK, LockId
<1>5. l \in LockRecord
  BY <1>1, <1>4 DEF LockRecord, Holder
<1> QED  BY <1>2, <1>3, <1>5

LEMMA LockMoreGrants ==
    ASSUME OpenLocksTypeOK, NEW h \in granted,
           NEW type \in LockType, NEW offset \in Offset, NEW length \in Offset,
           LockMore(h, type, offset, length)
    PROVE  \E l \in LockRecord :
              /\ l.id = lockNext /\ l.seqid = NoSeqid /\ l.owner = NoBytes
              /\ l.holder = h.holder
              /\ <<0, h.id>> \in Key /\ Grant(<<0, h.id>>, l)
<1> DEFINE l == [id |-> lockNext, offset |-> offset, length |-> length, type |-> type,
                 owner |-> NoBytes, file |-> h.file, holder |-> h.holder, seqid |-> NoSeqid]
<1>1. h.id \in LockId /\ h.file \in File /\ h.holder \in Holder
  BY DEF OpenLocksTypeOK
<1>2. Halves(h.id) = <<0, h.id>> /\ <<0, h.id>> \in Key
  BY <1>1, LockKey
<1>3. Grant(<<0, h.id>>, l)
  BY <1>2 DEF LockMore
<1>4. lockNext \in LockId
  BY <1>3, OpenLocksAssumption DEF Grant, OpenLocksTypeOK, LockId
<1>5. l \in LockRecord
  BY <1>1, <1>4, OpenLocksAssumption DEF LockRecord
<1> QED  BY <1>2, <1>3, <1>5

LEMMA NextExclusive == Exclusive /\ [OpenLocksNext]_openLocksVars => Exclusive'
<1> SUFFICES ASSUME Exclusive, [OpenLocksNext]_openLocksVars PROVE Exclusive'
  OBVIOUS
<1>0. OpenLocksTypeOK
  BY DEF Exclusive
<1>1. ASSUME NEW f \in File, Open(f) PROVE Exclusive'
  <2>1. OpenLocksTypeOK'
    BY <1>1, OpenLocksAssumption DEF Exclusive, OpenLocksTypeOK, Open, OpenId
  <2>2. ListsExclusive' /\ FreshUnderSeqid'
    BY <1>1 DEF Exclusive, ListsExclusive, FreshUnderSeqid, Open, Clash, Bytes
  <2> QED  BY <2>1, <2>2 DEF Exclusive
<1>2. ASSUME NEW o \in opened, NEW s \in Seqid, Close(o, s) PROVE Exclusive'
  <2>1. OpenLocksTypeOK'
    BY <1>2 DEF Exclusive, OpenLocksTypeOK, Close
  <2>2. ListsExclusive' /\ FreshUnderSeqid'
    BY <1>2 DEF Exclusive, ListsExclusive, FreshUnderSeqid, Close, Clash, Bytes
  <2> QED  BY <2>1, <2>2 DEF Exclusive
<1>3. ASSUME NEW w \in Holder, NEW o \in opened, NEW s \in Seqid, NEW type \in LockType,
             NEW offset \in Offset, NEW length \in Offset,
             LockNew(w, o, s, type, offset, length) \/ UnlockNew(w, o, s, type, offset, length)
      PROVE  Exclusive'
  <2>1. CASE LockNew(w, o, s, type, offset, length)
    <3>1. PICK l \in LockRecord :
              /\ l.id = lockNext /\ l.seqid = s
              /\ <<s, 0>> \in Key /\ Grant(<<s, 0>>, l)
      BY <1>0, <2>1, LockNewGrants
    <3> QED  BY <3>1, GrantExclusive
  <2>2. CASE UnlockNew(w, o, s, type, offset, length)
    <3>1. o.id \in OpenId
      BY <1>0 DEF OpenLocksTypeOK
    <3>2. SeqidAndHigh(s, o.id) \in Key
      BY <3>1, OpenKey
    <3> QED  BY <2>2, <3>2, ReleaseExclusive DEF UnlockNew
  <2> QED  BY <1>3, <2>1, <2>2
<1>4. ASSUME NEW h \in granted, NEW type \in LockType, NEW offset \in Offset, NEW length \in Offset,
             LockMore(h, type, offset, length) \/ UnlockMore(h, type, offset, length)
      PROVE  Exclusive'
  <2>1. CASE LockMore(h, type, offset, length)
    <3>1. PICK l \in LockRecord :
              /\ l.id = lockNext /\ l.seqid = NoSeqid
              /\ <<0, h.id>> \in Key /\ Grant(<<0, h.id>>, l)
      BY <1>0, <2>1, LockMoreGrants
    <3> QED  BY <3>1, GrantExclusive, OpenLocksAssumption
  <2>2. CASE UnlockMore(h, type, offset, length)
    <3>1. h.id \in LockId
      BY <1>0 DEF OpenLocksTypeOK
    <3>2. Halves(h.id) \in Key
      BY <3>1, LockKey
    <3> QED  BY <2>2, <3>2, ReleaseExclusive DEF UnlockMore
  <2> QED  BY <1>4, <2>1, <2>2
<1>5. CASE UNCHANGED openLocksVars
  BY <1>5 DEF openLocksVars, Exclusive, OpenLocksTypeOK, ListsExclusive, FreshUnderSeqid, Clash, Bytes
<1> QED  BY <1>1, <1>2, <1>3, <1>4, <1>5 DEF OpenLocksNext

LEMMA InitExclusive == OpenLocksInit => Exclusive
BY OpenLocksAssumption DEF OpenLocksInit, Exclusive, OpenLocksTypeOK, ListsExclusive, FreshUnderSeqid

\* LOCK keeps every list exclusive: the inductive invariant.
THEOREM AlwaysExclusive == OpenLocksSpec => []Exclusive
BY InitExclusive, NextExclusive, PTL DEF OpenLocksSpec

\* Below the last offset no byte is covered by two clashing locks of one list.
THEOREM LocksOfAListExclude == OpenLocksSpec => []ListsExclusive
BY AlwaysExclusive, PTL DEF Exclusive

\* Locks asked for with open stateids of one sequence number exclude each other
\* on a file, through whichever of its opens they were asked for.
THEOREM NewLocksExclude == OpenLocksSpec => []NewLocksExclusive
<1>1. Exclusive => NewLocksExclusive
  <2> SUFFICES ASSUME Exclusive, NEW l \in AllLocks, NEW m \in AllLocks,
                      l # m, Clash(l, m), l.seqid \in Seqid, l.seqid = m.seqid
               PROVE  Bytes(l) \cap Bytes(m) \subseteq {Top}
    BY DEF NewLocksExclusive
  <2>1. \E k \in Key : l \in locks[k] /\ m \in locks[k]
    BY DEF AllLocks, Exclusive, FreshUnderSeqid
  <2> QED  BY <2>1 DEF Exclusive, ListsExclusive
<1> QED  BY <1>1, AlwaysExclusive, PTL

-----------------------------------------------------------------------------
(* Who holds what is listed where.                                          *)

\* A lock asked for with an open stateid has its holder's owner bytes.
FreshOwner == \A k \in Key : \A l \in locks[k] : l.seqid \in Seqid => l.owner = l.holder.bytes

\* A lock asked for with a lock stateid is listed under the id of one that was
\* given to its own holder.
ListedByStateid(k, l) ==
    \E n \in LockId : /\ k = <<0, n>> /\ n < lockNext
                      /\ \A h \in granted : h.id = n => h.holder = l.holder

\* Lock ids are given once, so a list under a lock id is of one holder.
Holders ==
    /\ Exclusive
    /\ \A h \in granted : h.id < lockNext
    /\ \A g, h \in granted : g.id = h.id => g.holder = h.holder
    /\ FreshOwner
    /\ \A k \in Key : \A l \in locks[k] : l.seqid = NoSeqid => ListedByStateid(k, l)

\* What a grant may do to Holders: a lock asked for with an open stateid, or
\* one that joins its own holder's list.
LEMMA GrantHolders ==
    ASSUME Holders, Exclusive', NEW k \in Key, NEW l \in LockRecord, l.id = lockNext,
           l.seqid \in Seqid => l.owner = l.holder.bytes,
           l.seqid = NoSeqid => \E h \in granted : k = <<0, h.id>> /\ h.holder = l.holder,
           Grant(k, l)
    PROVE  Holders'
<1>1. \A j \in Key : locks'[j] = IF j = k THEN locks[k] \cup {l} ELSE locks[j]
  BY DEF Holders, Exclusive, OpenLocksTypeOK, Grant
<1>2. granted' = granted \cup {[id |-> l.id, holder |-> l.holder, file |-> l.file]}
  BY DEF Grant
<1>3. lockNext \in Nat /\ lockNext' = lockNext + 1
  BY DEF Holders, Exclusive, OpenLocksTypeOK, Grant
<1>4. \A h \in granted : h.id \in LockId /\ h.id < lockNext
  BY DEF Holders, Exclusive, OpenLocksTypeOK
<1>5. \A h \in granted' : h.id < lockNext'
  BY <1>2, <1>3, <1>4 DEF LockId
<1>6. \A g, h \in granted' : g.id = h.id => g.holder = h.holder
  BY <1>2, <1>3, <1>4 DEF Holders, LockId
<1>7. FreshOwner'
  BY <1>1 DEF Holders, FreshOwner
<1>8. ASSUME NEW j \in Key, NEW m \in locks'[j], m.seqid = NoSeqid PROVE ListedByStateid(j, m)'
  <2>1. CASE m \in locks[j]
    <3>1. PICK n \in LockId : /\ j = <<0, n>> /\ n < lockNext
                              /\ \A h \in granted : h.id = n => h.holder = m.holder
      BY <1>8, <2>1 DEF Holders, ListedByStateid
    <3>2. \A h \in granted' : h.id = n => h.holder = m.holder
      BY <1>2, <1>3, <3>1 DEF LockId
    <3> QED  BY <1>3, <3>1, <3>2 DEF ListedByStateid, LockId
  <2>2. CASE j = k /\ m = l
    <3>1. PICK g \in granted : k = <<0, g.id>> /\ g.holder = l.holder
      BY <1>8, <2>2
    <3>2. \A h \in granted' : h.id = g.id => h.holder = l.holder
      BY <1>2, <1>3, <1>4, <3>1 DEF Holders, LockId
    <3> QED  BY <1>3, <1>4, <2>2, <3>1, <3>2 DEF ListedByStateid, LockId
  <2> QED  BY <1>1, <2>1, <2>2
<1> QED  BY <1>5, <1>6, <1>7, <1>8 DEF Holders

LEMMA ReleaseHolders ==
    ASSUME Holders, Exclusive', UNCHANGED <<granted, lockNext>>,
           \A j \in Key : locks'[j] \subseteq locks[j]
    PROVE  Holders'
BY DEF Holders, FreshOwner, ListedByStateid

LEMMA NextHolders == Holders /\ Exclusive' /\ [OpenLocksNext]_openLocksVars => Holders'
<1> SUFFICES ASSUME Holders, Exclusive', [OpenLocksNext]_openLocksVars PROVE Holders'
  OBVIOUS
<1>0. OpenLocksTypeOK
  BY DEF Holders, Exclusive
<1>1. ASSUME UNCHANGED <<granted, locks, lockNext>> PROVE Holders'
  BY <1>1, ReleaseHolders
<1>2. ASSUME NEW k, NEW owner, NEW type, NEW offset, NEW length,
             Release(k, owner, type, offset, length)
      PROVE  Holders'
  <2>1. \A j \in Key : locks'[j] \subseteq locks[j]
    BY <1>2 DEF Holders, Exclusive, OpenLocksTypeOK, Release
  <2> QED  BY <1>2, <2>1, ReleaseHolders DEF Release
<1>3. ASSUME NEW w \in Holder, NEW o \in opened, NEW s \in Seqid, NEW type \in LockType,
             NEW offset \in Offset, NEW length \in Offset, LockNew(w, o, s, type, offset, length)
      PROVE  Holders'
  <2>1. PICK l \in LockRecord :
            /\ l.id = lockNext /\ l.seqid = s /\ l.owner = l.holder.bytes
            /\ <<s, 0>> \in Key /\ Grant(<<s, 0>>, l)
    BY <1>0, <1>3, LockNewGrants
  <2> QED  BY <2>1, GrantHolders, OpenLocksAssumption
<1>4. ASSUME NEW h \in granted, NEW type \in LockType,
             NEW offset \in Offset, NEW length \in Offset, LockMore(h, type, offset, length)
      PROVE  Holders'
  <2>1. PICK l \in LockRecord :
            /\ l.id = lockNext /\ l.seqid = NoSeqid /\ l.holder = h.holder
            /\ <<0, h.id>> \in Key /\ Grant(<<0, h.id>>, l)
    BY <1>0, <1>4, LockMoreGrants
  <2> QED  BY <2>1, GrantHolders, OpenLocksAssumption
<1> QED
  BY <1>1, <1>2, <1>3, <1>4 DEF OpenLocksNext, Open, Close, UnlockNew, UnlockMore, openLocksVars

\* Lists under lock ids are of one holder each: the inductive invariant.
THEOREM AlwaysHolders == OpenLocksSpec => []Holders
<1>1. OpenLocksInit => Holders
  BY InitExclusive, OpenLocksAssumption DEF OpenLocksInit, Holders, FreshOwner
<1> QED  BY <1>1, AlwaysExclusive, NextHolders, PTL DEF OpenLocksSpec

\* What a LOCKU removes from the table is of the stateid's holder, or of the
\* owner bytes it carries.
LEMMA ReleasesOwn ==
    ASSUME Holders, NEW l \in AllLocks \ AllLocks', NEW type, NEW offset, NEW length
    PROVE  /\ \A w \in Holder, o \in opened, s \in Seqid :
                 UnlockNew(w, o, s, type, offset, length)
                     => l.seqid = s /\ l.holder.bytes = w.bytes
           /\ \A h \in granted : UnlockMore(h, type, offset, length) => l.holder = h.holder
<1>1. PICK k \in Key : l \in locks[k] /\ l \notin locks'[k]
  BY DEF AllLocks
<1>2. ASSUME NEW j, NEW owner, Release(j, owner, type, offset, length)
      PROVE  k = j /\ l.owner = owner
  BY <1>1, <1>2 DEF Holders, Exclusive, OpenLocksTypeOK, Release
<1>3. l.seqid \in Seqid \/ l.seqid = NoSeqid
  BY <1>1 DEF Holders, Exclusive, OpenLocksTypeOK, LockRecord
<1>4. l.seqid \in Seqid => k = <<l.seqid, 0>> /\ l.owner = l.holder.bytes
  BY <1>1 DEF Holders, Exclusive, FreshUnderSeqid, FreshOwner
<1>5. l.seqid = NoSeqid => \E n \in LockId : /\ k = <<0, n>>
                                             /\ \A h \in granted : h.id = n => h.holder = l.holder
  BY <1>1 DEF Holders, ListedByStateid
<1>6. ASSUME NEW w \in Holder, NEW o \in opened, NEW s \in Seqid,
             UnlockNew(w, o, s, type, offset, length)
      PROVE  l.seqid = s /\ l.holder.bytes = w.bytes
  <2>1. o.id \in OpenId
    BY DEF Holders, Exclusive, OpenLocksTypeOK
  <2>2. k = <<s, 0>> /\ l.owner = w.bytes
    BY <1>2, <1>6, <2>1, OpenKey DEF UnlockNew
  <2> QED  BY <1>3, <1>4, <1>5, <2>2 DEF LockId
<1>7. ASSUME NEW h \in granted, UnlockMore(h, type, offset, length)
      PROVE  l.holder = h.holder
  <2>1. h.id \in LockId
    BY DEF Holders, Exclusive, OpenLocksTypeOK
  <2>2. k = <<0, h.id>>
    BY <1>2, <1>7, <2>1, LockKey DEF UnlockMore
  <2> QED  BY <1>3, <1>4, <1>5, <2>1, <2>2 DEF LockId
<1> QED  BY <1>6, <1>7

\* A lock leaves the table only by a LOCKU with a stateid of its own holder's,
\* or with an open stateid and its own holder's owner bytes.
THEOREM HoldersRelease == OpenLocksSpec => OnlyHolderReleases
<1>1. Holders /\ [OpenLocksNext]_openLocksVars =>
          [\A l \in AllLocks \ AllLocks' :
              \A type \in LockType, offset, length \in Offset :
                  /\ \A w \in Holder, o \in opened, s \in Seqid :
                        UnlockNew(w, o, s, type, offset, length)
                            => l.seqid = s /\ l.holder.bytes = w.bytes
                  /\ \A h \in granted :
                        UnlockMore(h, type, offset, length) => l.holder = h.holder]_openLocksVars
  BY ReleasesOwn
<1> QED  BY <1>1, AlwaysHolders, PTL DEF OpenLocksSpec, OnlyHolderReleases
=============================================================================
