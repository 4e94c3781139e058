---------------------------- MODULE ServerProofs ----------------------------
(***************************************************************************)
(* Proofs about the server's outer parts, for any addresses, tasks, limits,*)
(* windows and numbers asked of the port mapper.                           *)
(*                                                                         *)
(* Admission.  CapKept is not inductive: Spawn keeps it only because the   *)
(* slot the accept loop looks at was numbered before the tasks alive now   *)
(* (Numbered), and End only ever lowers their number.  RateKept needs to   *)
(* know which window a connection was let through in (Windowed): those of  *)
(* the window a client's entry is counting are in its count, and those     *)
(* older than that window all belong to the one before.                    *)
(*                                                                         *)
(* Startup.  That an ended process listens nowhere needs to know how each  *)
(* end is reached: before "wait" no server has been spawned                *)
(* (NotYetSpawned), and Ctrl-C cannot end a process that is stopping, for  *)
(* the request it would make has been made (StopIsAsked).                  *)
(***************************************************************************)
EXTENDS Admission, Startup, FiniteSetTheorems, TLAPS

-----------------------------------------------------------------------------
(* Admission.                                                               *)

\* The loop's slot is numbered no lower than the tasks that are left.
Numbered == current # None => Cardinality(active) <= current

IInv == AdmissionTypeOK /\ CountExact /\ Numbered /\ CapKept

LEMMA Sizes == ASSUME AdmissionTypeOK PROVE Cardinality(active) \in Nat
BY FS_CardinalityType DEF AdmissionTypeOK

LEMMA CountedTyped ==
    ASSUME NEW e \in Entry \cup {None} PROVE Counted(e) \in Entry
<1> USE AdmissionAssumption DEF Entry, Count, Age, Counted, AtMost
<1>1. CASE e = None
  BY <1>1
<1>2. CASE e # None /\ e.age > Window
  BY <1>2
<1>3. CASE e # None /\ ~(e.age > Window)
  BY <1>3
<1> QED  BY <1>1, <1>2, <1>3

LEMMA OlderTyped ==
    ASSUME NEW e \in Entry \cup {None} PROVE Older(e) \in Entry \cup {None}
BY AdmissionAssumption DEF Entry, Count, Age, Older, AtMost

\* A connection let through is counted in every stretch.
LEMMA OneMore ==
    ASSUME NEW n \in [0..Window -> Nat]
    PROVE  LET m == [a \in 0..Window |-> n[a] + 1]
           IN  m \in [0..Window -> Nat] /\ \A a \in 0..Window : m[a] = n[a] + 1
<1>1. \A a \in 0..Window : n[a] + 1 \in Nat
  OBVIOUS
<1> QED  BY <1>1

LEMMA InitHolds == AdmissionInit => IInv
BY AdmissionAssumption, FS_EmptySet
   DEF AdmissionInit, IInv, AdmissionTypeOK, CountExact, Numbered, CapKept, Entry

\* A step of the accept loop or of the clock that leaves slots and tasks alone.
LEMMA SlotsAlone ==
    ASSUME IInv, UNCHANGED <<connCount, active, current>>,
           AdmissionTypeOK'
    PROVE  IInv'
BY DEF IInv, CountExact, Numbered, CapKept

LEMMA AcceptKeeps ==
    ASSUME IInv, NEW i \in Ip, AcceptAllowed(i) \/ AcceptLimited(i) PROVE IInv'
<1>1. perIp' \in [Ip -> Entry \cup {None}]
  BY CountedTyped DEF IInv, AdmissionTypeOK, AcceptAllowed, AcceptLimited
<1>2. recent' \in [Ip -> [0..Window -> Nat]]
  <2> DEFINE more == [a \in 0..Window |-> recent[i][a] + 1]
  <2>1. recent \in [Ip -> [0..Window -> Nat]]
    BY DEF IInv, AdmissionTypeOK
  <2>2. more \in [0..Window -> Nat]
    <3>1. recent[i] \in [0..Window -> Nat]
      BY <2>1
    <3> QED  BY <3>1, OneMore
  <2>3. recent' = recent \/ recent' = [recent EXCEPT ![i] = more]
    BY DEF AcceptAllowed, AcceptLimited
  <2> HIDE DEF more
  <2> QED  BY <2>1, <2>2, <2>3
<1>3. UNCHANGED <<connCount, active, current>>
  BY DEF AcceptAllowed, AcceptLimited
<1>4. AdmissionTypeOK'
  BY <1>1, <1>2, <1>3 DEF IInv, AdmissionTypeOK, AcceptAllowed, AcceptLimited
<1> QED  BY <1>3, <1>4, SlotsAlone

LEMMA CleanupKeeps == ASSUME IInv, Cleanup PROVE IInv'
<1>1. AdmissionTypeOK'
  BY DEF IInv, AdmissionTypeOK, Cleanup
<1> QED  BY <1>1, SlotsAlone DEF Cleanup

LEMMA TickKeeps == ASSUME IInv, Tick PROVE IInv'
<1>1. perIp' \in [Ip -> Entry \cup {None}]
  BY OlderTyped DEF IInv, AdmissionTypeOK, Tick
<1>2. recent' \in [Ip -> [0..Window -> Nat]]
  <2>1. ASSUME NEW i \in Ip, NEW a \in 0..Window
        PROVE  (IF a = 0 THEN 0 ELSE recent[i][a - 1]) \in Nat
    <3>1. a # 0 => a - 1 \in 0..Window
      BY AdmissionAssumption
    <3>2. recent[i] \in [0..Window -> Nat]
      BY DEF IInv, AdmissionTypeOK
    <3> QED  BY <3>1, <3>2
  <2> QED  BY <2>1 DEF Tick
<1>3. AdmissionTypeOK'
  BY <1>1, <1>2 DEF IInv, AdmissionTypeOK, Tick
<1> QED  BY <1>3, SlotsAlone DEF Tick

LEMMA FetchAddKeeps == ASSUME IInv, FetchAdd PROVE IInv'
BY AdmissionAssumption, Sizes
   DEF IInv, AdmissionTypeOK, CountExact, Numbered, CapKept, FetchAdd

LEMMA RejectKeeps == ASSUME IInv, Reject PROVE IInv'
BY AdmissionAssumption, Sizes
   DEF IInv, AdmissionTypeOK, CountExact, Numbered, CapKept, Reject

LEMMA SpawnKeeps == ASSUME IInv, Spawn PROVE IInv'
<1>1. PICK t \in Task \ active : active' = active \cup {t}
  BY DEF Spawn
<1>2. IsFiniteSet(active') /\ Cardinality(active') = Cardinality(active) + 1
  BY <1>1, FS_AddElement DEF IInv, AdmissionTypeOK
<1>3. Cardinality(active) \in Nat /\ Cardinality(active) <= current /\ current < MaxConnections
  BY Sizes DEF IInv, Numbered, Spawn
<1>4. current \in 0..MaxConnections /\ connCount = Cardinality(active) + 1
  BY DEF IInv, AdmissionTypeOK, CountExact, Spawn
<1>5. AdmissionTypeOK'
  BY <1>1, <1>2 DEF IInv, AdmissionTypeOK, Spawn
<1>6. CountExact' /\ Numbered' /\ CapKept'
  BY <1>2, <1>3, <1>4, AdmissionAssumption DEF CountExact, Numbered, CapKept, Spawn
<1> QED  BY <1>5, <1>6 DEF IInv

LEMMA EndKeeps == ASSUME IInv, NEW t \in Task, End(t) PROVE IInv'
<1>1. IsFiniteSet(active') /\ Cardinality(active') = Cardinality(active) - 1
  BY FS_RemoveElement DEF IInv, AdmissionTypeOK, End
<1>2. Cardinality(active') \in Nat
  BY <1>1, FS_CardinalityType
<1>3. /\ Cardinality(active) \in Nat /\ Cardinality(active) <= MaxConnections
      /\ connCount \in 0..(MaxConnections + 1) /\ connCount' = connCount - 1
      /\ current \in 0..MaxConnections \cup {None} /\ current' = current
  BY Sizes DEF IInv, AdmissionTypeOK, CapKept, End
<1>4. CountExact' /\ connCount' \in 0..(MaxConnections + 1)
  <2>1. CASE current = None
    BY <1>1, <1>2, <1>3, <2>1, AdmissionAssumption DEF IInv, CountExact
  <2>2. CASE current # None
    BY <1>1, <1>2, <1>3, <2>2, AdmissionAssumption DEF IInv, CountExact
  <2> QED  BY <2>1, <2>2
<1>5. Numbered' /\ CapKept'
  <2>1. CapKept'
    BY <1>1, <1>3, AdmissionAssumption DEF CapKept
  <2>2. CASE current # None
    BY <1>1, <1>3, <2>1, <2>2, AdmissionAssumption DEF IInv, Numbered
  <2> QED  BY <1>3, <2>1, <2>2 DEF Numbered
<1>6. AdmissionTypeOK'
  BY <1>1, <1>3, <1>4 DEF IInv, AdmissionTypeOK, End
<1> QED  BY <1>4, <1>5, <1>6 DEF IInv

\* Every step of Admission keeps the inductive invariant.
LEMMA StepKeeps == IInv /\ [AdmissionNext]_admissionVars => IInv'
<1> SUFFICES ASSUME IInv, [AdmissionNext]_admissionVars PROVE IInv'
  OBVIOUS
<1>1. ASSUME NEW i \in Ip, AcceptAllowed(i) \/ AcceptLimited(i) PROVE IInv'
  BY <1>1, AcceptKeeps
<1>2. ASSUME NEW t \in Task, End(t) PROVE IInv'
  BY <1>2, EndKeeps
<1>3. CASE UNCHANGED admissionVars
  <2>1. AdmissionTypeOK'
    BY <1>3 DEF IInv, AdmissionTypeOK, admissionVars
  <2> QED  BY <1>3, <2>1, SlotsAlone DEF admissionVars
<1> QED
  BY <1>1, <1>2, <1>3, FetchAddKeeps, RejectKeeps, SpawnKeeps, CleanupKeeps, TickKeeps DEF AdmissionNext

\* The variables keep their types; in particular conn_count, which is read with
\* no lock, never passes max_connections by more than one nor drops below zero.
THEOREM TypeCorrect == AdmissionSpec => []AdmissionTypeOK
<1>1. IInv => AdmissionTypeOK
  BY DEF IInv
<1> QED  BY InitHolds, StepKeeps, <1>1, PTL DEF AdmissionSpec

\* There are never more connection tasks than max_connections allows, whatever
\* tasks end between fetch_add and the comparison with the cap.
THEOREM CapIsKept == AdmissionSpec => []CapKept
<1>1. IInv => CapKept
  BY DEF IInv
<1> QED  BY InitHolds, StepKeeps, <1>1, PTL DEF AdmissionSpec

\* conn_count always equals the guards that exist and the slot in hand: the
\* rejecting path and ConnGuard's drop give back each slot exactly once.
THEOREM SlotsAreCounted == AdmissionSpec => []CountExact
<1>1. IInv => CountExact
  BY DEF IInv
<1> QED  BY InitHolds, StepKeeps, <1>1, PTL DEF AdmissionSpec

-----------------------------------------------------------------------------

\* Of n, the connections let through since each age, what the entry e knows:
\* the ones since its window began are counted, and if that window is not over
\* the older ones belong to a single window before it.
Windowed(e, n) ==
    IF e = None THEN \A a \in 0..Window : n[a] = 0
    ELSE /\ e.count > 0
         /\ e.age <= Window =>
               /\ n[e.age] <= e.count
               /\ n[e.age] <= MaxPerIp
               /\ n[Window] - n[e.age] <= MaxPerIp
         /\ e.age > Window => n[0] = 0 /\ n[Window] <= MaxPerIp

\* The longer the stretch, the more connections.
Cumulative(n) == \A a, b \in 0..Window : a <= b => n[a] <= n[b]

Rated == \A i \in Ip : Windowed(perIp[i], recent[i]) /\ Cumulative(recent[i])

LEMMA InitRated == AdmissionInit => Rated
BY AdmissionAssumption DEF AdmissionInit, Rated, Windowed, Cumulative

LEMMA EntryTyped ==
    ASSUME NEW e \in Entry \cup {None}, e # None
    PROVE  /\ e = [count |-> e.count, age |-> e.age]
           /\ e.count \in 0..(MaxPerIp + 1) /\ e.age \in 0..(Window + 1)
           /\ e.count \in Nat /\ MaxPerIp \in Nat \ {0} /\ Window \in Nat
BY AdmissionAssumption DEF Entry, Count, Age

LEMMA AllowedWindowed ==
    ASSUME NEW e \in Entry \cup {None}, NEW n \in [0..Window -> Nat],
           Windowed(e, n), Cumulative(n), Allowed(e),
           NEW m \in [0..Window -> Nat], \A a \in 0..Window : m[a] = n[a] + 1
    PROVE  Windowed(Counted(e), m) /\ Cumulative(m)
<1>1. Cumulative(m)
  BY DEF Cumulative
<1>2. 0 \in 0..Window /\ Window \in 0..Window /\ MaxPerIp \in Nat \ {0} /\ Window \in Nat
  BY AdmissionAssumption
<1>3. Counted(e) # None
  BY CountedTyped, AdmissionAssumption
<1>4. CASE e = None \/ (e # None /\ e.age > Window)
  <2>1. Counted(e) = [count |-> 1, age |-> 0]
    BY <1>4 DEF Counted
  <2>2. n[0] = 0 /\ n[Window] <= MaxPerIp
    BY <1>2, <1>4 DEF Windowed
  <2>3. m[0] = 1 /\ m[Window] = n[Window] + 1 /\ n[Window] \in Nat
    BY <1>2, <2>2
  <2> QED  BY <1>1, <1>2, <1>3, <2>1, <2>2, <2>3 DEF Windowed
<1>5. CASE e # None /\ ~(e.age > Window)
  <2>1. e.age \in 0..Window /\ e.count \in Nat
    BY <1>2, <1>5, EntryTyped
  <2>2. Counted(e) = [count |-> e.count + 1, age |-> e.age] /\ e.count + 1 <= MaxPerIp
    <3>1. Counted(e) = [e EXCEPT !.count = AtMost(e.count + 1, MaxPerIp + 1)]
      BY <1>5 DEF Counted
    <3>2. Counted(e) = [count |-> AtMost(e.count + 1, MaxPerIp + 1), age |-> e.age]
      BY <1>5, <3>1, EntryTyped
    <3>3. AtMost(e.count + 1, MaxPerIp + 1) <= MaxPerIp
      BY <3>2 DEF Allowed
    <3>4. AtMost(e.count + 1, MaxPerIp + 1) = e.count + 1
      BY <1>2, <2>1, <3>3 DEF AtMost
    <3> QED  BY <3>2, <3>3, <3>4
  <2>3. m[e.age] = n[e.age] + 1 /\ m[Window] = n[Window] + 1
    BY <1>2, <2>1
  <2>4. n[e.age] <= e.count /\ n[Window] - n[e.age] <= MaxPerIp
    BY <1>2, <1>5, <2>1 DEF Windowed
  <2>5. n[e.age] \in Nat /\ n[Window] \in Nat
    BY <1>2, <2>1
  <2>6. Counted(e).count = e.count + 1 /\ Counted(e).age = e.age
    BY <2>2
  <2> QED  BY <1>1, <1>2, <1>3, <2>1, <2>2, <2>3, <2>4, <2>5, <2>6 DEF Windowed
<1> QED  BY <1>1, <1>4, <1>5

LEMMA LimitedWindowed ==
    ASSUME NEW e \in Entry \cup {None}, NEW n \in [0..Window -> Nat],
           Windowed(e, n), ~Allowed(e)
    PROVE  Windowed(Counted(e), n)
<1>1. MaxPerIp \in Nat \ {0} /\ Window \in Nat
  BY AdmissionAssumption
<1>2. e # None /\ ~(e.age > Window)
  BY <1>1 DEF Allowed, Counted
<1>3. e.age \in 0..Window /\ e.count \in 0..(MaxPerIp + 1) /\ n[e.age] \in Nat
  BY <1>1, <1>2 DEF Entry, Count, Age
<1>4. Counted(e) = [count |-> AtMost(e.count + 1, MaxPerIp + 1), age |-> e.age]
  BY <1>2, EntryTyped DEF Counted
<1>5. Counted(e).age = e.age /\ Counted(e).count = AtMost(e.count + 1, MaxPerIp + 1)
  BY <1>4
<1>6. Counted(e).count >= e.count /\ Counted(e).count \in Nat
  BY <1>1, <1>3, <1>5 DEF AtMost
<1>7. e.count > 0 /\ n[e.age] <= e.count /\ n[e.age] <= MaxPerIp /\ n[Window] - n[e.age] <= MaxPerIp
  BY <1>1, <1>2, <1>3 DEF Windowed
<1>8. Counted(e) # None
  BY CountedTyped, AdmissionAssumption
<1> QED  BY <1>1, <1>3, <1>5, <1>6, <1>7, <1>8 DEF Windowed

LEMMA OlderWindowed ==
    ASSUME NEW e \in Entry \cup {None}, NEW n \in [0..Window -> Nat],
           Windowed(e, n), Cumulative(n),
           NEW m \in [0..Window -> Nat], m[0] = 0, \A a \in 1..Window : m[a] = n[a - 1]
    PROVE  Windowed(Older(e), m) /\ Cumulative(m)
<1>1. Window \in Nat /\ MaxPerIp \in Nat /\ 0 \in 0..Window /\ Window \in 0..Window
  BY AdmissionAssumption
<1>2. Cumulative(m)
  <2> SUFFICES ASSUME NEW a \in 0..Window, NEW b \in 0..Window, a <= b PROVE m[a] <= m[b]
    BY DEF Cumulative
  <2>1. CASE a = 0
    BY <2>1
  <2>2. CASE a # 0
    <3>1. a - 1 \in 0..Window /\ b - 1 \in 0..Window /\ a - 1 <= b - 1
      BY <2>2, <1>1
    <3>2. m[a] = n[a - 1] /\ m[b] = n[b - 1]
      BY <2>2, <1>1
    <3> QED  BY <3>1, <3>2 DEF Cumulative
  <2> QED  BY <2>1, <2>2
<1>3. m[Window] <= n[Window] /\ m[Window] \in Nat /\ n[Window] \in Nat
  <2>1. CASE Window = 0
    BY <1>1, <2>1
  <2>2. CASE Window # 0
    <3>1. m[Window] = n[Window - 1] /\ Window - 1 \in 0..Window
      BY <1>1, <2>2
    <3> QED  BY <1>1, <3>1 DEF Cumulative
  <2> QED  BY <2>1, <2>2
<1>4. CASE e = None
  <2>1. \A a \in 0..Window : m[a] = 0
    <3> SUFFICES ASSUME NEW a \in 0..Window, a # 0 PROVE m[a] = 0
      OBVIOUS
    <3>1. m[a] = n[a - 1] /\ a - 1 \in 0..Window
      BY <1>1
    <3> QED  BY <1>4, <3>1 DEF Windowed
  <2> QED  BY <1>2, <1>4, <2>1 DEF Windowed, Older
<1>5. CASE e # None
  <2>1. e.count > 0 /\ e.count \in Nat /\ e.age \in 0..(Window + 1)
    BY <1>5, EntryTyped DEF Windowed
  <2>2. Older(e) = [count |-> e.count, age |-> AtMost(e.age + 1, Window + 1)]
    BY <1>5, EntryTyped DEF Older
  <2>3. Older(e) # None /\ Older(e).count = e.count /\ Older(e).age = AtMost(e.age + 1, Window + 1)
    <3>1. Older(e) # None
      <4>1. AtMost(e.age + 1, Window + 1) \in 0..(Window + 1)
        BY <1>1, <2>1 DEF AtMost
      <4>2. e.count \in 0..(MaxPerIp + 1)
        BY <1>5, EntryTyped
      <4>3. Older(e) \in Entry
        BY <2>2, <4>1, <4>2 DEF Entry, Count, Age
      <4> QED  BY <4>3, AdmissionAssumption
    <3> QED  BY <2>2, <3>1
  <2>4. CASE e.age < Window
    <3>1. Older(e).age = e.age + 1 /\ e.age + 1 \in 1..Window
      <4>1. e.age \in Nat /\ e.age + 1 <= Window
        BY <1>1, <2>1, <2>4
      <4>2. AtMost(e.age + 1, Window + 1) = e.age + 1
        BY <1>1, <4>1 DEF AtMost
      <4>3. e.age + 1 \in 1..Window
        BY <1>1, <4>1
      <4> QED  BY <2>3, <4>2, <4>3
    <3>2. m[e.age + 1] = n[e.age] /\ n[e.age] \in Nat
      BY <1>1, <2>1, <2>4, <3>1
    <3>3. n[e.age] <= e.count /\ n[e.age] <= MaxPerIp /\ n[Window] - n[e.age] <= MaxPerIp
      BY <1>1, <1>5, <2>1, <2>4 DEF Windowed
    <3>4. Older(e).age <= Window /\ ~(Older(e).age > Window)
      BY <1>1, <3>1
    <3>5. m[Older(e).age] <= Older(e).count /\ m[Older(e).age] <= MaxPerIp
      BY <2>3, <3>1, <3>2, <3>3
    <3>6. m[Window] - m[Older(e).age] <= MaxPerIp
      BY <1>1, <1>3, <3>1, <3>2, <3>3
    <3> QED  BY <1>2, <2>1, <2>3, <3>4, <3>5, <3>6 DEF Windowed
  <2>5. CASE ~(e.age < Window)
    <3>1. Older(e).age = Window + 1
      BY <1>1, <2>1, <2>3, <2>5 DEF AtMost
    <3>2. n[Window] <= MaxPerIp
      BY <1>1, <1>5, <2>1, <2>5 DEF Windowed
    <3>3. ~(Older(e).age <= Window) /\ m[Window] <= MaxPerIp
      BY <1>1, <1>3, <3>1, <3>2
    <3> QED  BY <1>2, <2>1, <2>3, <3>3 DEF Windowed
  <2> QED  BY <2>4, <2>5
<1> QED  BY <1>4, <1>5

LEMMA StepRated == IInv /\ Rated /\ [AdmissionNext]_admissionVars => Rated'
<1> SUFFICES ASSUME AdmissionTypeOK, Rated, [AdmissionNext]_admissionVars, NEW i \in Ip
             PROVE  Windowed(perIp'[i], recent'[i]) /\ Cumulative(recent'[i])
  BY DEF IInv, Rated
<1>1. /\ perIp[i] \in Entry \cup {None} /\ recent[i] \in [0..Window -> Nat]
      /\ Windowed(perIp[i], recent[i]) /\ Cumulative(recent[i])
  BY DEF AdmissionTypeOK, Rated
<1>2. CASE UNCHANGED <<perIp, recent>>
  BY <1>1, <1>2
<1>3. ASSUME NEW j \in Ip, AcceptAllowed(j) PROVE Windowed(perIp'[i], recent'[i]) /\ Cumulative(recent'[i])
  <2>1. CASE i = j
    <3>1. perIp'[i] = Counted(perIp[i]) /\ recent'[i] = [a \in 0..Window |-> recent[i][a] + 1]
      BY <1>3, <2>1 DEF AcceptAllowed, AdmissionTypeOK
    <3>2. recent'[i] \in [0..Window -> Nat] /\ \A a \in 0..Window : recent'[i][a] = recent[i][a] + 1
      BY <1>1, <3>1, OneMore
    <3> QED  BY <1>1, <1>3, <2>1, <3>1, <3>2, AllowedWindowed DEF AcceptAllowed
  <2>2. CASE i # j
    BY <1>1, <1>3, <2>2 DEF AcceptAllowed, AdmissionTypeOK
  <2> QED  BY <2>1, <2>2
<1>4. ASSUME NEW j \in Ip, AcceptLimited(j) PROVE Windowed(perIp'[i], recent'[i]) /\ Cumulative(recent'[i])
  <2>1. CASE i = j
    <3>1. perIp'[i] = Counted(perIp[i]) /\ recent'[i] = recent[i]
      BY <1>4, <2>1 DEF AcceptLimited, AdmissionTypeOK
    <3> QED  BY <1>1, <1>4, <2>1, <3>1, LimitedWindowed DEF AcceptLimited
  <2>2. CASE i # j
    BY <1>1, <1>4, <2>2 DEF AcceptLimited, AdmissionTypeOK
  <2> QED  BY <2>1, <2>2
<1>5. CASE Cleanup
  <2>1. perIp[i] # None => perIp[i].count > 0
    BY <1>1 DEF Windowed
  <2>2. perIp'[i] = perIp[i] /\ recent'[i] = recent[i]
    BY <1>5, <2>1 DEF Cleanup
  <2> QED  BY <1>1, <2>2
<1>6. CASE Tick
  <2>1. perIp'[i] = Older(perIp[i])
        /\ recent'[i] = [a \in 0..Window |-> IF a = 0 THEN 0 ELSE recent[i][a - 1]]
    BY <1>6 DEF Tick
  <2>2. /\ recent'[i] \in [0..Window -> Nat] /\ recent'[i][0] = 0
        /\ \A a \in 1..Window : recent'[i][a] = recent[i][a - 1]
    BY <1>1, <2>1, AdmissionAssumption
  <2> QED  BY <1>1, <2>1, <2>2, OlderWindowed
<1> QED
  BY <1>2, <1>3, <1>4, <1>5, <1>6 DEF AdmissionNext, End, FetchAdd, Reject, Spawn, admissionVars

\* No client gets more than two windows' worth of connections in any stretch as
\* long as a window, whenever it asks and whenever the cleanup runs.
THEOREM RateIsKept == AdmissionSpec => []RateKept
<1>1. IInv /\ Rated => RateKept
  <2> SUFFICES ASSUME AdmissionTypeOK, Rated, NEW i \in Ip PROVE recent[i][Window] <= 2 * MaxPerIp
    BY DEF IInv, RateKept
  <2> USE AdmissionAssumption DEF Entry, Age
  <2>1. perIp[i] \in Entry \cup {None} /\ recent[i] \in [0..Window -> Nat] /\ Windowed(perIp[i], recent[i])
    BY DEF AdmissionTypeOK, Rated
  <2>2. CASE perIp[i] = None \/ perIp[i].age > Window
    BY <2>1, <2>2 DEF Windowed
  <2>3. CASE perIp[i] # None /\ ~(perIp[i].age > Window)
    <3>1. perIp[i].age \in 0..Window
      BY <2>1, <2>3
    <3>2. recent[i][Window] \in Nat /\ recent[i][perIp[i].age] \in Nat
      BY <2>1, <3>1
    <3> QED  BY <2>1, <2>3, <3>1, <3>2 DEF Windowed
  <2> QED  BY <2>2, <2>3
<1>2. AdmissionSpec => [](IInv /\ Rated)
  BY InitHolds, StepKeeps, InitRated, StepRated, PTL DEF AdmissionSpec
<1> QED  BY <1>1, <1>2, PTL

-----------------------------------------------------------------------------
(* Startup: the process.                                                    *)

\* A request has been made before the main thread reaches "stop", and the
\* server's task exists only from "wait" on.
StopIsAsked == pc = "stop" => stopSent
NotYetSpawned == pc \in {"register", "config", "runtime", "exports", "spawn"} => server = "none"

ProcessInv == TypeOK /\ StopIsAsked /\ NotYetSpawned /\ StoppedIsQuiet

LEMMA InitProcess == Init => ProcessInv
BY DEF Init, ProcessInv, TypeOK, StopIsAsked, NotYetSpawned, StoppedIsQuiet

LEMMA BindKeeps ==
    ASSUME ProcessInv, NEW l \in Listener, Bind(l)
    PROVE  ProcessInv'
<1>1. PICK s \in {"bound", "failed"} : socket' = [socket EXCEPT ![l] = s]
  BY DEF Bind
<1>2. socket' \in [Listener -> {"none", "bound", "failed"}]
  BY <1>1 DEF ProcessInv, TypeOK
<1> QED  BY <1>2 DEF Bind, ProcessInv, TypeOK, config, StopIsAsked, NotYetSpawned, StoppedIsQuiet

LEMMA NextKeepsProcess == ASSUME ProcessInv, [Next]_vars PROVE ProcessInv'
<1> USE DEF ProcessInv, TypeOK, config, StopIsAsked, NotYetSpawned, StoppedIsQuiet
<1>1. CASE Register \/ LoadConfig \/ MakeRuntime
  BY <1>1 DEF Register, LoadConfig, MakeRuntime, Go, Report, Quiet
<1>2. CASE LoadExports \/ SpawnServer
  BY <1>2 DEF LoadExports, SpawnServer, Go, Report, Quiet
<1>3. CASE Stop
  BY <1>3 DEF Stop, Go, Report
<1>4. CASE Shutdown
  BY <1>4 DEF Shutdown, Go, Report
<1>5. CASE RequestStopService \/ CtrlC
  BY <1>5 DEF RequestStopService, CtrlC
<1>6. CASE Start
  BY <1>6 DEF Start
<1>7. CASE \E l \in Listener : Bind(l)
  BY <1>7, BindKeeps
<1>8. CASE UNCHANGED vars
  BY <1>8 DEF vars
<1> QED  BY <1>1, <1>2, <1>3, <1>4, <1>5, <1>6, <1>7, <1>8 DEF Next, Main, Ended

\* A started server is not forgotten, and a process that has ended stays so.
LEMMA TableOutlives ==
    ASSUME ProcessInv, [Next]_vars, server = "started", pc # "done", pc' # "done"
    PROVE  server' = "started"
BY DEF ProcessInv, NotYetSpawned, Next, Main, Ended, vars, Register, LoadConfig, MakeRuntime, LoadExports,
       SpawnServer, Stop, Shutdown, Go, Report, Quiet, RequestStopService, CtrlC, Start, Bind

StartupInv == ProcessInv /\ ProcessTypeOK

LEMMA PortsKnown ==
    ASSUME mappings \in {{}, P!Entries}, NEW e
    PROVE  P!PortFor(e) \in {0, 111, 2049, 20048}
<1>1. \A m \in P!Entries : m.port \in {0, 111, 2049, 20048}
  BY DEF P!Entries, P!Service
<1> QED  BY <1>1 DEF P!PortFor

LEMMA RequestTyped ==
    ASSUME P!TypeOK, P!Request
    PROVE  P!TypeOK' /\ mappings' = mappings
<1>1. ASSUME NEW s \in {"SUCCESS", "GARBAGE_ARGS", "PROC_UNAVAIL"},
             NEW n \in {0, 111, 2049, 20048}, P!Answer(s, n)
      PROVE  P!TypeOK' /\ mappings' = mappings
  BY <1>1 DEF P!Answer, P!TypeOK, P!Reply
<1>2. CASE \E e \in P!Triple : P!Getport(e)
  BY <1>1, <1>2, PortsKnown DEF P!Getport, P!TypeOK
<1>3. CASE P!NullOrDump \/ P!Garbage \/ P!Unavailable
  BY <1>1, <1>3 DEF P!NullOrDump, P!Garbage, P!Unavailable
<1>4. CASE P!Dropped
  BY <1>4 DEF P!Dropped, P!TypeOK
<1> QED  BY <1>2, <1>3, <1>4 DEF P!Request

LEMMA InitStartup == StartupInit => StartupInv
BY InitProcess DEF StartupInit, P!Init, StartupInv, ProcessTypeOK, P!TypeOK, ProcessInv

LEMMA NextStartup == StartupInv /\ [StartupNext]_<<vars, portmap>> => StartupInv'
<1> SUFFICES ASSUME StartupInv, [StartupNext]_<<vars, portmap>> PROVE StartupInv'
  OBVIOUS
<1>1. CASE ProcessStep
  <2>1. ProcessInv'
    BY <1>1, NextKeepsProcess DEF ProcessStep, StartupInv
  <2>2. CASE pc' = "done"
    BY <1>1, <2>1, <2>2 DEF ProcessStep, StartupInv, ProcessTypeOK, ProcessInv, P!TypeOK
  <2>3. CASE pc' # "done"
    <3>1. UNCHANGED portmap
      BY <1>1, <2>3 DEF ProcessStep
    <3>2. mappings' # {} => server' = "started"
      BY <1>1, <2>3, <3>1, TableOutlives DEF ProcessStep, portmap, StartupInv, ProcessTypeOK
    <3> QED  BY <2>1, <2>3, <3>1, <3>2 DEF portmap, StartupInv, ProcessTypeOK, ProcessInv, P!TypeOK
  <2> QED  BY <2>2, <2>3
<1>2. ASSUME UNCHANGED vars PROVE ProcessInv' /\ (server = "started" /\ pc # "done" => server' = "started" /\ pc' # "done")
  BY <1>2, NextKeepsProcess DEF vars, StartupInv
<1>3. CASE FillTable
  BY <1>2, <1>3 DEF FillTable, P!InitializeMappings, StartupInv, ProcessTypeOK, ProcessInv, P!TypeOK
<1>4. CASE PortmapRequest
  BY <1>2, <1>4, RequestTyped DEF PortmapRequest, StartupInv, ProcessTypeOK, ProcessInv
<1>5. CASE UNCHANGED <<vars, portmap>>
  BY <1>2, <1>5 DEF portmap, StartupInv, ProcessTypeOK, ProcessInv, P!TypeOK
<1> QED  BY <1>1, <1>3, <1>4, <1>5 DEF StartupNext

\* Start and stop leave no listener and no table behind: the inductive
\* invariant.
THEOREM AlwaysStartup == StartupSpec => []StartupInv
BY InitStartup, NextStartup, PTL DEF StartupSpec

\* The process and its port mapper keep their types; the table exists only
\* while a started server does.
THEOREM ProcessTypeCorrect == StartupSpec => []ProcessTypeOK
BY AlwaysStartup, PTL DEF StartupInv

\* A process that has ended listens nowhere, wherever in its start it was stopped.
THEOREM EndedListensNowhere == StartupSpec => []StoppedIsQuiet
<1>1. StartupInv => StoppedIsQuiet
  BY DEF StartupInv, ProcessInv
<1> QED  BY <1>1, AlwaysStartup, PTL

-----------------------------------------------------------------------------
(* Startup: the keys of the port mapper's table.                            *)

\* A key of parts of any width is that of an entry, whose parts fit, only if the
\* entry is what the parts overlap to.
LEMMA KeyTells ==
    ASSUME NEW e, NEW m, e.program \subseteq 0..31, m.program \subseteq 0..31,
           e.version \subseteq 0..31, m.version \subseteq 0..23,
           e.protocol \subseteq 0..31, m.protocol \subseteq 0..7,
           P!MakeKey(e) = P!MakeKey(m)
    PROVE  /\ m.program = e.program \cup {b \in 0..31 : b + 24 \in e.version}
           /\ m.version = {b \in 0..23 : b \in e.version \/ b + 8 \in e.protocol}
           /\ m.protocol = e.protocol \cap 0..7
<1> DEFINE key(x) == {b + 32 : b \in x.program} \cup {b + 8 : b \in x.version} \cup x.protocol
<1>1. key(e) = key(m)
  BY DEF P!MakeKey, P!Shifted
<1>2. /\ m.program = {b \in 0..31 : b + 32 \in key(m)}
      /\ m.version = {b \in 0..23 : b + 8 \in key(m)}
      /\ m.protocol = {b \in 0..7 : b \in key(m)}
  OBVIOUS
<1>3. {b \in 0..31 : b + 32 \in key(e)} = e.program \cup {b \in 0..31 : b + 24 \in e.version}
  <2>1. ASSUME NEW b \in 0..31
        PROVE  b + 32 \in key(e) <=> b \in e.program \/ b + 24 \in e.version
    OBVIOUS
  <2> HIDE DEF key
  <2> QED  BY <2>1
<1>4. {b \in 0..23 : b + 8 \in key(e)} = {b \in 0..23 : b \in e.version \/ b + 8 \in e.protocol}
  <2>1. ASSUME NEW b \in 0..23
        PROVE  b + 8 \in key(e) <=> b \in e.version \/ b + 8 \in e.protocol
    OBVIOUS
  <2> HIDE DEF key
  <2> QED  BY <2>1
<1>5. {b \in 0..7 : b \in key(e)} = e.protocol \cap 0..7
  OBVIOUS
<1> HIDE DEF key
<1> QED  BY <1>1, <1>2, <1>3, <1>4, <1>5

\* GETPORT names a port only for what its table registers, for any u32s that
\* clients ask with: the triple named if it fits in a key, else what it overlaps to.
THEOREM OnlyTheRegistered == StartupSpec => []OnlyRegisteredFound
<1>1. ASSUME NEW m \in P!Entries
      PROVE  m.program \subseteq 0..31 /\ m.version \subseteq 0..23 /\ m.protocol \subseteq 0..7
  <2>1. \A n : P!Bits(n) \subseteq 0..16
    BY DEF P!Bits
  <2> QED  BY <2>1 DEF P!Entries, P!Service, P!Tcp, P!Udp
<1>2. StartupInv => OnlyRegisteredFound
  <2> SUFFICES ASSUME StartupInv, NEW e \in P!Triple, P!PortFor(e) # 0
               PROVE  /\ P!Registered(P!Overlaid(e), P!PortFor(e))
                      /\ P!Fits(e) => P!Registered(e, P!PortFor(e))
    BY DEF OnlyRegisteredFound, P!OnlyRegisteredFound
  <2> DEFINE m == CHOOSE m \in mappings : P!MakeKey(m) = P!MakeKey(e)
  <2>1. m \in mappings /\ P!MakeKey(m) = P!MakeKey(e) /\ P!PortFor(e) = m.port
    BY DEF P!PortFor
  <2> HIDE DEF m
  <2>2. m \in P!Entries
    BY <2>1 DEF StartupInv, ProcessTypeOK, P!TypeOK
  <2>3. /\ e = [program |-> e.program, version |-> e.version, protocol |-> e.protocol]
        /\ e.program \subseteq 0..31 /\ e.version \subseteq 0..31 /\ e.protocol \subseteq 0..31
    <3>1. /\ e = [program |-> e.program, version |-> e.version, protocol |-> e.protocol]
          /\ e.program \in Program /\ e.version \in Version /\ e.protocol \in Protocol
      BY DEF P!Triple
    <3> QED  BY <3>1, ConstantsAssumption
  <2>4. P!Overlaid(e) = [program |-> m.program, version |-> m.version, protocol |-> m.protocol]
    BY <1>1, <2>1, <2>2, <2>3, KeyTells DEF P!Overlaid
  <2>5. P!Registered(P!Overlaid(e), P!PortFor(e))
    BY <2>1, <2>4 DEF P!Registered
  <2>6. ASSUME P!Fits(e)
        PROVE  P!Overlaid(e) = e
    <3>1. {b \in 0..31 : b + 24 \in e.version} = {}
      BY <2>6 DEF P!Fits
    <3>2. {b \in 0..23 : b \in e.version \/ b + 8 \in e.protocol} = e.version
      BY <2>6 DEF P!Fits
    <3>3. e.protocol \cap 0..7 = e.protocol
      BY <2>6 DEF P!Fits
    <3> QED  BY <2>3, <3>1, <3>2, <3>3 DEF P!Overlaid
  <2> QED  BY <2>5, <2>6
<1> QED  BY <1>2, AlwaysStartup, PTL
=============================================================================
