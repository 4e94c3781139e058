---------------------------- MODULE CursorProofs ----------------------------
(***************************************************************************)
(* Proofs about RecordStream, CompoundReply and Paging, for any streams,   *)
(* requests, directories, lengths and reads: in each, a cursor moves over  *)
(* a sequence, and what it finds there must be what was put there.         *)
(*                                                                         *)
(* RecordStream.  The task reads only when the buffer holds less than a    *)
(* record mark, or less than a record of an accepted length; so before a   *)
(* read the buffer is smaller than the greatest record, and one read more  *)
(* is within the limit.  That the handlers get the client's records in     *)
(* order rests on where the records start: Start is a recursive function,  *)
(* whose equation is proved by induction on the length of the stream, as a *)
(* least counterexample.                                                   *)
(*                                                                         *)
(* CompoundReply.  The count of the results is behind by at most the one   *)
(* that ends the compound (Counted).  That results answer the operations   *)
(* in their places rests on the cursor standing where the next operation   *)
(* starts (InStep); where that is in the joined words is again found by    *)
(* induction on the number of operations (LaidOut, Layout).                *)
(*                                                                         *)
(* Paging.  A name's position is the number of names that sort before it.  *)
(* Creations only raise it and removals only lower it, which is why each   *)
(* leaves one of NoneMissed and NoneAgain true, and not the other.         *)
(***************************************************************************)
EXTENDS RecordStream, CompoundReply, Paging, FiniteSetTheorems, SequenceTheorems,
        WellFoundedInduction, TLAPS

\* A set of naturals has a least member: how the inductions below are done.
LEMMA LeastNat ==
    ASSUME NEW T \in SUBSET Nat, T # {}
    PROVE  \E n \in T : \A m \in T : n <= m
<1>1. PICK n \in T : \A m \in T : <<m, n>> \notin OpToRel(<, Nat)
  BY WFMin, NatLessThanWellFounded, Zenon
<1>2. \A m \in T : ~(m < n)
  BY <1>1 DEF OpToRel
<1> QED  BY <1>2

\* Where the members of two joined sequences are.
LEMMA Joined ==
    ASSUME NEW S, NEW r, NEW s \in Seq(S), NEW t \in Seq(S), r = s \o t
    PROVE  /\ Len(s) \in Nat /\ Len(t) \in Nat /\ Len(r) = Len(s) + Len(t)
           /\ \A x \in 1..Len(s) : r[x] = s[x]
           /\ \A x \in 1..Len(t) : r[Len(s) + x] = t[x]
<1>1. Len(s) \in Nat /\ Len(t) \in Nat
  OBVIOUS
<1>2. /\ Len(r) = Len(s) + Len(t)
      /\ \A x \in 1..(Len(s) + Len(t)) : r[x] = IF x <= Len(s) THEN s[x] ELSE t[x - Len(s)]
  BY ConcatProperties
<1>3. ASSUME NEW x \in 1..Len(t) PROVE r[Len(s) + x] = t[x]
  <2>1. /\ Len(s) + x \in 1..(Len(s) + Len(t)) /\ ~(Len(s) + x <= Len(s))
        /\ (Len(s) + x) - Len(s) = x
    BY <1>1
  <2> QED  BY <1>2, <2>1
<1> QED  BY <1>1, <1>2, <1>3

-----------------------------------------------------------------------------
(* RecordStream: types, and the limit on the buffer.                        *)

\* What the task waits for is missing.
WaitsForMore == pc = "read" => Buffered < HeaderSize + MaxRecord

Bounded == TypeOK /\ WaitsForMore /\ CapNeverDrops

LEMMA MarkIsHeader == ASSUME TypeOK PROVE Mark \in Header
<1>1. records \in Seq(Header) /\ body \in Header
  BY ConstantsAssumption DEF TypeOK
<1>2. CASE \E i \in DOMAIN records : Start(i) = at
  <2> DEFINE i == CHOOSE i \in DOMAIN records : Start(i) = at
  <2>1. i \in DOMAIN records
    BY <1>2
  <2>2. records[i] \in Header
    BY <1>1, <2>1
  <2> QED  BY <1>2, <2>2 DEF Mark, HeaderAt
<1>3. CASE ~\E i \in DOMAIN records : Start(i) = at
  BY <1>1, <1>3 DEF Mark, HeaderAt
<1> QED  BY <1>2, <1>3

LEMMA RangeInNat == \A x, y : y \in 1..x => y \in Nat
OBVIOUS

LEMMA InitBounded == Init => Bounded
<1> SUFFICES ASSUME Init PROVE Bounded
  OBVIOUS
<1>1. sent \in Nat
  BY RangeInNat DEF Init
<1>2. <<>> \in Seq(Nat) /\ <<>> \in Seq({Call, Reply})
  OBVIOUS
<1> QED  BY <1>1, <1>2 DEF Init, Bounded, TypeOK, WaitsForMore, CapNeverDrops

-----------------------------------------------------------------------------

LEMMA ParseBounded ==
    ASSUME Bounded, DropFragment \/ SkipShort \/ DropOversized \/ NeedMore
    PROVE  Bounded'
<1> USE ConstantsAssumption DEF Bounded, TypeOK, stream, Buffered, Marked
<1>1. CASE DropFragment
  BY <1>1 DEF DropFragment, Close, WaitsForMore, CapNeverDrops
<1>2. CASE DropOversized
  BY <1>2 DEF DropOversized, Close, WaitsForMore, CapNeverDrops
<1>3. CASE SkipShort
  <2>1. at' \in 0..got
    BY <1>3 DEF SkipShort
  <2> QED  BY <1>3, <2>1 DEF SkipShort, WaitsForMore, CapNeverDrops
<1>4. CASE NeedMore
  <2>1. Mark \in Header
    BY MarkIsHeader
  <2>2. Mark.length \in Nat /\ Mark.last \in BOOLEAN
    BY <2>1 DEF Header
  <2>3. Valid(Mark) /\ Incomplete(Mark) => Buffered < HeaderSize + MaxRecord
    BY <2>2 DEF Valid, Fragment, Short, Oversized, Incomplete, Size
  <2>4. Buffered < HeaderSize => Buffered < HeaderSize + MaxRecord
    OBVIOUS
  <2>5. WaitsForMore'
    BY <1>4, <2>3, <2>4 DEF NeedMore, WaitsForMore
  <2>6. TypeOK' /\ CapNeverDrops'
    BY <1>4 DEF NeedMore, CapNeverDrops
  <2> QED  BY <2>5, <2>6
<1> QED  BY <1>1, <1>2, <1>3, <1>4

LEMMA OffsetsInNat == ASSUME TypeOK PROVE at \in Nat /\ got \in Nat
BY DEF TypeOK

LEMMA SizeInNat ==
    ASSUME NEW h \in Header
    PROVE  h.length \in Nat /\ Size(h) \in Nat /\ Size(h) > 0
<1>1. h.length \in Nat
  BY DEF Header
<1>2. HeaderSize \in Nat \ {0}
  BY ConstantsAssumption
<1> QED  BY <1>1, <1>2 DEF Size

LEMMA DispatchBounded == ASSUME Bounded, Dispatch PROVE Bounded'
<1> USE ConstantsAssumption DEF Bounded, TypeOK, stream, Buffered, Marked, Dispatch
<1>1. Mark \in Header /\ Mark.length \in Nat
  BY MarkIsHeader DEF Header
<1>2. at' \in 0..got
  <2>1. at \in Nat /\ got \in Nat /\ Size(Mark) \in Nat
    BY <1>1, OffsetsInNat, SizeInNat
  <2>2. at' = at + Size(Mark) /\ got - at >= Size(Mark)
    BY DEF Complete
  <2> HIDE DEF Bounded, TypeOK, Dispatch
  <2> QED  BY <2>1, <2>2
<1>3. dispatched' \in Seq(Nat)
  <2>1. at \in Nat
    BY OffsetsInNat
  <2>2. dispatched \in Seq(Nat) /\ dispatched' = Append(dispatched, at)
    OBVIOUS
  <2> HIDE DEF Bounded, TypeOK, Dispatch
  <2> QED  BY <2>1, <2>2
<1>4. pc' \in {"write", "parse"} /\ reply' \in {Call, Reply}
  BY <1>1 DEF Header
<1> QED  BY <1>2, <1>3, <1>4 DEF WaitsForMore, CapNeverDrops

LEMMA TransferBounded ==
    ASSUME Bounded, Write \/ WriteFails \/ Read \/ ReadEnd \/ ReadFails
    PROVE  Bounded'
<1> USE ConstantsAssumption DEF Bounded, TypeOK, stream, Close
<1>1. CASE Write
  <2>1. written' \in Seq({Call, Reply})
    BY <1>1 DEF Write
  <2> QED  BY <1>1, <2>1 DEF Write, WaitsForMore, CapNeverDrops
<1>2. CASE WriteFails \/ ReadEnd \/ ReadFails
  BY <1>2 DEF WriteFails, ReadEnd, ReadFails, WaitsForMore, CapNeverDrops
<1>3. CASE Read
  <2>1. PICK n \in 1..Chunk :
           /\ got + n <= sent /\ got' = got + n
           /\ IF Buffered + n > MaxBuffer THEN Close("cap") ELSE pc' = "parse" /\ UNCHANGED why
    BY <1>3 DEF Read
  <2>2. Buffered + n <= MaxBuffer
    BY <1>3, <2>1 DEF Read, WaitsForMore, Buffered
  <2>3. pc' = "parse" /\ why' = why /\ got' \in 0..sent /\ at \in 0..got'
    <3>1. ~(Buffered + n > MaxBuffer)
      BY <2>2 DEF Buffered
    <3>2. pc' = "parse" /\ why' = why
      BY <2>1, <3>1
    <3>3. got' \in 0..sent /\ at \in 0..got'
      BY <2>1
    <3> QED  BY <3>2, <3>3
  <2>4. UNCHANGED <<stream, at, reply, dispatched, written>>
    BY <1>3 DEF Read
  <2>5. TypeOK'
    BY <2>3, <2>4
  <2>6. WaitsForMore' /\ CapNeverDrops'
    BY <2>3 DEF WaitsForMore, CapNeverDrops
  <2> QED  BY <2>5, <2>6
<1> QED  BY <1>1, <1>2, <1>3

LEMMA NextBounded == Bounded /\ [Next]_vars => Bounded'
<1> SUFFICES ASSUME Bounded, [Next]_vars PROVE Bounded'
  OBVIOUS
<1>1. CASE Next
  BY <1>1, ParseBounded, DispatchBounded, TransferBounded DEF Next
<1>2. CASE UNCHANGED vars
  BY <1>2 DEF vars, Bounded, TypeOK, WaitsForMore, CapNeverDrops, Buffered
<1> QED  BY <1>1, <1>2

\* Types hold; in particular the buffer never runs past what was sent.
THEOREM TypeCorrect == Spec => []TypeOK
<1>1. Bounded => TypeOK
  BY DEF Bounded
<1> QED  BY InitBounded, NextBounded, <1>1, PTL DEF Spec

\* With a limit no smaller than a record and a read, no client whatever is
\* dropped for the size of its buffer.
THEOREM CapUnreached == Spec => []CapNeverDrops
<1>1. Bounded => CapNeverDrops
  BY DEF Bounded
<1> QED  BY InitBounded, NextBounded, <1>1, PTL DEF Spec

-----------------------------------------------------------------------------
(* RecordStream: where the records start.                                   *)

\* The offsets of the first n records and of their end.
Places(g, n) ==
    /\ g \in [0..n -> Nat]
    /\ g[0] = 0
    /\ \A j \in 1..n : g[j] = g[j - 1] + Size(records[j])

\* Every prefix of the stream can be laid out.
LEMMA PlacesExist ==
    ASSUME records \in Seq(Header), NEW n \in 0..Len(records)
    PROVE  \E g : Places(g, n)
<1> DEFINE Bad == {m \in 0..Len(records) : ~\E g : Places(g, m)}
<1> SUFFICES ASSUME Bad # {} PROVE FALSE
  OBVIOUS
<1>1. PICK m \in Bad : \A k \in Bad : m <= k
  <2>1. Bad \in SUBSET Nat
    OBVIOUS
  <2> HIDE DEF Bad
  <2> QED  BY <2>1, LeastNat
<1>2. m \in Nat /\ m <= Len(records)
  OBVIOUS
<1>3. CASE m = 0
  <2>1. Places([j \in 0..0 |-> 0], 0)
    BY DEF Places
  <2> QED  BY <1>3, <2>1
<1>4. CASE m # 0
  <2>1. m - 1 \in 0..Len(records) /\ ~(m <= m - 1)
    BY <1>2, <1>4
  <2>2. PICK g : Places(g, m - 1)
    BY <1>1, <2>1
  <2>3. Size(records[m]) \in Nat
    <3>1. records[m] \in Header
      BY <1>2, <1>4
    <3> QED  BY <3>1, SizeInNat
  <2> DEFINE h == [j \in 0..m |-> IF j = m THEN g[m - 1] + Size(records[m]) ELSE g[j]]
  <2>4. g[m - 1] \in Nat /\ \A j \in 0..(m - 1) : g[j] \in Nat
    BY <1>2, <1>4, <2>2 DEF Places
  <2>5. \A j \in 0..m : j # m => j \in 0..(m - 1)
    BY <1>2
  <2>6. h \in [0..m -> Nat]
    BY <2>3, <2>4, <2>5
  <2>7. h[0] = 0
    BY <1>2, <1>4, <2>2 DEF Places
  <2>8. ASSUME NEW j \in 1..m PROVE h[j] = h[j - 1] + Size(records[j])
    <3>1. j \in 0..m /\ j - 1 \in 0..m /\ j - 1 # m /\ j - 1 \in 0..(m - 1)
      BY <1>2
    <3>2. h[j - 1] = g[j - 1]
      BY <3>1
    <3>3. CASE j = m
      BY <3>1, <3>2, <3>3
    <3>4. CASE j # m
      <4>1. h[j] = g[j] /\ j \in 1..(m - 1)
        BY <1>2, <3>1, <3>4
      <4>2. g[j] = g[j - 1] + Size(records[j])
        BY <2>2, <4>1 DEF Places
      <4> QED  BY <3>2, <4>1, <4>2
    <3> QED  BY <3>3, <3>4
  <2>9. Places(h, m)
    <3> HIDE DEF h
    <3> QED  BY <2>6, <2>7, <2>8 DEF Places
  <2> QED  BY <2>9
<1> QED  BY <1>3, <1>4

\* So Start satisfies the equation it is defined by: the first record is at the
\* beginning of the stream, and each next one behind the record before it.
LEMMA StartEquation ==
    ASSUME records \in Seq(Header)
    PROVE  /\ Start(1) = 0
           /\ \A i \in 1..Len(records) : Start(i + 1) = Start(i) + Size(records[i])
           /\ \A i \in 1..(Len(records) + 1) : Start(i) \in Nat
<1> DEFINE f == CHOOSE f : f = [j \in 0..Len(records) |->
                                   IF j = 0 THEN 0 ELSE f[j - 1] + Size(records[j])]
<1>1. Len(records) \in Nat
  OBVIOUS
<1>2. PICK g : Places(g, Len(records))
  BY <1>1, PlacesExist
<1>3. g = [j \in 0..Len(records) |-> IF j = 0 THEN 0 ELSE g[j - 1] + Size(records[j])]
  BY <1>1, <1>2 DEF Places
<1>4. f = [j \in 0..Len(records) |-> IF j = 0 THEN 0 ELSE f[j - 1] + Size(records[j])]
  BY <1>3, Zenon
<1>5. \A i : Start(i) = f[i - 1]
  BY Zenon DEF Start
<1> HIDE DEF f
<1>6. f[0] = 0 /\ \A j \in 1..Len(records) : f[j] = f[j - 1] + Size(records[j])
  BY <1>1, <1>4
<1>7. \A j \in 0..Len(records) : f[j] \in Nat
  <2> DEFINE Bad == {j \in 0..Len(records) : f[j] \notin Nat}
  <2> SUFFICES ASSUME Bad # {} PROVE FALSE
    OBVIOUS
  <2>1. PICK m \in Bad : \A k \in Bad : m <= k
    <3>1. Bad \in SUBSET Nat
      OBVIOUS
    <3> HIDE DEF Bad
    <3> QED  BY <3>1, LeastNat
  <2>2. m \in 1..Len(records) /\ m - 1 \in 0..Len(records) /\ ~(m <= m - 1)
    BY <1>1, <1>6
  <2>3. f[m - 1] \in Nat
    BY <2>1, <2>2
  <2>4. records[m] \in Header
    BY <2>2
  <2>5. f[m] = f[m - 1] + Size(records[m]) /\ Size(records[m]) \in Nat
    BY <1>6, <2>2, <2>4, SizeInNat
  <2> QED  BY <2>3, <2>5
<1>8. Start(1) = 0
  BY <1>5, <1>6
<1>9. ASSUME NEW i \in 1..Len(records) PROVE Start(i + 1) = Start(i) + Size(records[i])
  <2>1. Start(i + 1) = f[i] /\ Start(i) = f[i - 1]
    <3>1. (i + 1) - 1 = i
      BY <1>1
    <3> QED  BY <1>5, <3>1
  <2> QED  BY <1>6, <2>1
<1>10. ASSUME NEW i \in 1..(Len(records) + 1) PROVE Start(i) \in Nat
  <2>1. i - 1 \in 0..Len(records)
    BY <1>1
  <2> QED  BY <1>5, <1>7, <2>1
<1> QED  BY <1>8, <1>9, <1>10

\* No two records start at the same offset.
LEMMA StartGrows ==
    ASSUME records \in Seq(Header)
    PROVE  \A i, j \in 1..(Len(records) + 1) : i < j => Start(i) < Start(j)
<1> DEFINE Bad == {j \in 1..(Len(records) + 1) :
                      \E i \in 1..(Len(records) + 1) : i < j /\ ~(Start(i) < Start(j))}
<1> SUFFICES ASSUME Bad # {} PROVE FALSE
  OBVIOUS
<1>1. Len(records) \in Nat
  OBVIOUS
<1>2. PICK m \in Bad : \A k \in Bad : m <= k
  <2>1. Bad \in SUBSET Nat
    OBVIOUS
  <2> HIDE DEF Bad
  <2> QED  BY <2>1, LeastNat
<1>3. PICK i \in 1..(Len(records) + 1) : i < m /\ ~(Start(i) < Start(m))
  OBVIOUS
<1>4. m - 1 \in 1..Len(records) /\ i \in 1..Len(records) /\ ~(m <= m - 1) /\ (m - 1) + 1 = m
  BY <1>1, <1>3
<1>5. records[m - 1] \in Header
  BY <1>4
<1>6. Start(m) = Start(m - 1) + Size(records[m - 1]) /\ Start(m - 1) \in Nat /\ Start(i) \in Nat
  BY <1>1, <1>4, StartEquation
<1>7. Size(records[m - 1]) \in Nat /\ Size(records[m - 1]) > 0
  <2> DEFINE r == records[m - 1]
  <2>1. r \in Header
    BY <1>5
  <2> HIDE DEF r
  <2>2. Size(r) \in Nat /\ Size(r) > 0
    BY <2>1, SizeInNat
  <2> QED  BY <2>2 DEF r
<1>8. Start(m - 1) < Start(m)
  BY <1>6, <1>7
<1>9. CASE i = m - 1
  BY <1>3, <1>8, <1>9
<1>10. CASE i # m - 1
  <2>1. i < m - 1 /\ m - 1 \in 1..(Len(records) + 1) /\ m - 1 \notin Bad
    BY <1>1, <1>2, <1>3, <1>4, <1>10
  <2>2. Start(i) < Start(m - 1)
    BY <2>1
  <2>3. Start(m) \in Nat
    BY <1>6, <1>7
  <2> QED  BY <1>3, <1>6, <1>8, <2>2, <2>3
<1> QED  BY <1>9, <1>10

-----------------------------------------------------------------------------

NoShort == \A i \in DOMAIN records : ~Short(records[i])

\* If no record is too short: the handlers have been given a prefix of the
\* client's records, and the buffer begins at the one after it.
InOrder ==
    /\ sent <= Start(Len(records) + 1)
    /\ NoShort =>
          /\ Len(dispatched) <= Len(records)
          /\ dispatched = [i \in 1..Len(dispatched) |-> Start(i)]
          /\ at = Start(Len(dispatched) + 1)

LEMMA InitInOrder == Init => InOrder
<1> SUFFICES ASSUME Init PROVE InOrder
  OBVIOUS
<1>1. records \in Seq(Header) /\ Len(records) \in Nat
  BY ConstantsAssumption DEF Init
<1>2. Start(Len(records) + 1) \in Nat /\ Start(1) = 0
  BY <1>1, StartEquation
<1>3. sent <= Start(Len(records) + 1)
  BY <1>2 DEF Init
<1>4. Len(dispatched) = 0 /\ dispatched = <<>> /\ at = 0
  BY DEF Init
<1>5. dispatched = [i \in 1..Len(dispatched) |-> Start(i)]
  BY <1>4
<1> QED  BY <1>1, <1>2, <1>3, <1>4, <1>5 DEF InOrder

\* A mark that has arrived is that of the next record.
LEMMA MarkIsNext ==
    ASSUME Bounded, InOrder, NoShort, Marked
    PROVE  Len(dispatched) + 1 \in DOMAIN records /\ Mark = records[Len(dispatched) + 1]
<1> DEFINE n == Len(dispatched) + 1
<1>1. records \in Seq(Header) /\ Len(records) \in Nat /\ dispatched \in Seq(Nat) /\ n \in 1..(Len(records) + 1)
  <2>1. records \in Seq(Header) /\ dispatched \in Seq(Nat)
    BY ConstantsAssumption DEF Bounded, TypeOK
  <2>2. Len(dispatched) \in Nat /\ Len(dispatched) <= Len(records) /\ Len(records) \in Nat
    BY <2>1 DEF InOrder
  <2> QED  BY <2>1, <2>2
<1>2. at = Start(n) /\ at \in Nat /\ got \in Nat /\ got <= sent /\ sent \in Nat
  BY OffsetsInNat DEF Bounded, TypeOK, InOrder
<1>3. Start(Len(records) + 1) \in Nat /\ sent <= Start(Len(records) + 1)
  BY <1>1, StartEquation DEF InOrder
<1>4. at < got
  BY <1>2, ConstantsAssumption DEF Marked, Buffered
<1>5. n # Len(records) + 1
  BY <1>2, <1>3, <1>4
<1>6. n \in DOMAIN records
  BY <1>1, <1>5
<1>7. \A i \in DOMAIN records : Start(i) = at => i = n
  <2> SUFFICES ASSUME NEW i \in DOMAIN records, Start(i) = Start(n), i # n PROVE FALSE
    BY <1>2
  <2>1. i \in 1..(Len(records) + 1) /\ Start(n) \in Nat /\ Start(i) \in Nat
    BY <1>1, <1>2, StartEquation
  <2>2. i < n \/ n < i
    BY <1>1, <2>1
  <2> QED  BY <1>1, <2>1, <2>2, StartGrows
<1>8. Mark = records[n]
  <2>1. (CHOOSE i \in DOMAIN records : Start(i) = at) = n
    BY <1>2, <1>6, <1>7
  <2> QED  BY <1>2, <1>6, <2>1 DEF Mark, HeaderAt
<1> QED  BY <1>6, <1>8

LEMMA DispatchInOrder == ASSUME Bounded, InOrder, Dispatch PROVE InOrder'
<1>1. UNCHANGED stream /\ Marked
  BY DEF Dispatch
<1>2. \A i : Start(i)' = Start(i)
  BY <1>1 DEF Start, stream, Size
<1>3. (sent <= Start(Len(records) + 1))'
  BY <1>1, <1>2 DEF InOrder, stream
<1>4. ASSUME NoShort
      PROVE  /\ Len(dispatched') <= Len(records)
             /\ dispatched' = [i \in 1..Len(dispatched') |-> Start(i)]
             /\ at' = Start(Len(dispatched') + 1)
  <2> DEFINE n == Len(dispatched)
  <2>1. n + 1 \in DOMAIN records /\ Mark = records[n + 1]
    BY <1>1, <1>4, MarkIsNext
  <2>2. records \in Seq(Header) /\ dispatched \in Seq(Nat) /\ n \in Nat /\ at \in Nat
    BY ConstantsAssumption, OffsetsInNat DEF Bounded, TypeOK
  <2>3. at = Start(n + 1) /\ dispatched = [i \in 1..n |-> Start(i)]
    BY <1>4 DEF InOrder
  <2>4. at' = at + Size(records[n + 1]) /\ dispatched' = Append(dispatched, at)
    BY <2>1 DEF Dispatch
  <2>5. n + 1 \in 1..Len(records) /\ Len(records) \in Nat
    BY <2>1, <2>2
  <2>6. at' = Start((n + 1) + 1)
    BY <2>2, <2>3, <2>4, <2>5, StartEquation
  <2>7. Len(dispatched') = n + 1
    BY <2>2, <2>4
  <2>8. dispatched' = [i \in 1..(n + 1) |-> Start(i)]
    BY <2>2, <2>3, <2>4, <2>7
  <2> QED  BY <2>5, <2>6, <2>7, <2>8
<1>5. NoShort' => NoShort
  BY <1>1 DEF NoShort, Short, stream
<1> QED  BY <1>1, <1>2, <1>3, <1>4, <1>5 DEF InOrder, stream

\* A step that leaves the stream, the buffer's beginning and the handlers alone.
LEMMA NothingTaken ==
    ASSUME InOrder, UNCHANGED <<stream, at, dispatched>> PROVE InOrder'
<1>1. \A i : Start(i)' = Start(i)
  BY DEF Start, stream, Size
<1> QED  BY <1>1 DEF InOrder, NoShort, Short, stream

LEMMA NextInOrder == Bounded /\ InOrder /\ [Next]_vars => InOrder'
<1> SUFFICES ASSUME Bounded, InOrder, [Next]_vars PROVE InOrder'
  OBVIOUS
<1>1. CASE SkipShort
  <2>1. UNCHANGED stream /\ Marked /\ Short(Mark) /\ UNCHANGED dispatched
    BY <1>1 DEF SkipShort
  <2>2. ~NoShort
    BY <2>1, MarkIsNext DEF NoShort
  <2>3. ~NoShort'
    BY <2>1, <2>2 DEF NoShort, Short, stream
  <2>4. \A i : Start(i)' = Start(i)
    BY <2>1 DEF Start, stream, Size
  <2> QED  BY <2>1, <2>3, <2>4 DEF InOrder, stream
<1>2. CASE Dispatch
  BY <1>2, DispatchInOrder
<1>3. CASE DropFragment \/ DropOversized \/ NeedMore \/ Write \/ WriteFails \/ Read \/ ReadEnd \/ ReadFails
  BY <1>3, NothingTaken
     DEF DropFragment, DropOversized, NeedMore, Write, WriteFails, Read, ReadEnd, ReadFails
<1>4. CASE UNCHANGED vars
  BY <1>4, NothingTaken DEF vars, stream
<1> QED  BY <1>1, <1>2, <1>3, <1>4 DEF Next

\* The handlers are given the client's records, each once and in order, however
\* the stream is cut into reads, unless one of them is too short to be a record.
THEOREM RecordsAreInOrder == Spec => []RecordsInOrder
<1>1. InOrder => RecordsInOrder
  BY DEF InOrder, NoShort, RecordsInOrder
<1> QED  BY InitBounded, NextBounded, InitInOrder, NextInOrder, <1>1, PTL DEF Spec

-----------------------------------------------------------------------------
(* CompoundReply: the words of a compound.                                  *)

\* g lists what the first j operations fill, for each j up to n.
LaidOut(g, n) ==
    /\ g \in [0..n -> Seq(Nat)]
    /\ g[0] = <<>>
    /\ \A j \in 1..n : g[j] = g[j - 1] \o asked[j]

LEMMA AskedWords ==
    ASSUME asked \in Seq(Encoding), NEW k \in 1..Len(asked)
    PROVE  asked[k] \in Encoding /\ asked[k] \in Seq(Nat) /\ Len(asked[k]) \in Nat \ {0}
<1>1. asked[k] \in Encoding
  OBVIOUS
<1>2. asked[k] \in Seq(Nat) /\ asked[k] # <<>>
  BY <1>1, ReplyAssumption
<1> QED  BY <1>1, <1>2, EmptySeq

LEMMA LaidOutExists ==
    ASSUME asked \in Seq(Encoding), NEW n \in 0..Len(asked)
    PROVE  \E g : LaidOut(g, n)
<1> DEFINE Bad == {m \in 0..Len(asked) : ~\E g : LaidOut(g, m)}
<1> SUFFICES ASSUME Bad # {} PROVE FALSE
  OBVIOUS
<1>1. PICK m \in Bad : \A k \in Bad : m <= k
  <2>1. Bad \in SUBSET Nat
    OBVIOUS
  <2> HIDE DEF Bad
  <2> QED  BY <2>1, LeastNat
<1>2. m \in Nat /\ m <= Len(asked)
  OBVIOUS
<1>3. CASE m = 0
  <2>1. LaidOut([j \in 0..0 |-> <<>>], 0)
    BY DEF LaidOut
  <2> QED  BY <1>3, <2>1
<1>4. CASE m # 0
  <2>1. m - 1 \in 0..Len(asked) /\ ~(m <= m - 1)
    BY <1>2, <1>4
  <2>2. PICK g : LaidOut(g, m - 1)
    BY <1>1, <2>1
  <2>3. g[m - 1] \o asked[m] \in Seq(Nat)
    <3>1. asked[m] \in Seq(Nat)
      BY <1>2, <1>4, AskedWords
    <3>2. g[m - 1] \in Seq(Nat)
      BY <1>2, <1>4, <2>2 DEF LaidOut
    <3> QED  BY <3>1, <3>2, ConcatProperties
  <2> DEFINE h == [j \in 0..m |-> IF j = m THEN g[m - 1] \o asked[m] ELSE g[j]]
  <2>4. \A j \in 0..m : j # m => j \in 0..(m - 1) /\ g[j] \in Seq(Nat)
    BY <1>2, <2>2 DEF LaidOut
  <2>5. h \in [0..m -> Seq(Nat)]
    BY <2>3, <2>4
  <2>6. h[0] = <<>>
    BY <1>2, <1>4, <2>2 DEF LaidOut
  <2>7. ASSUME NEW j \in 1..m PROVE h[j] = h[j - 1] \o asked[j]
    <3>1. j \in 0..m /\ j - 1 \in 0..m /\ j - 1 # m
      BY <1>2
    <3>2. h[j - 1] = g[j - 1]
      BY <3>1
    <3>3. CASE j = m
      BY <3>1, <3>2, <3>3
    <3>4. CASE j # m
      <4>1. h[j] = g[j] /\ j \in 1..(m - 1)
        BY <1>2, <3>1, <3>4
      <4>2. g[j] = g[j - 1] \o asked[j]
        BY <2>2, <4>1 DEF LaidOut
      <4> QED  BY <3>2, <4>1, <4>2
    <3> QED  BY <3>3, <3>4
  <2>8. LaidOut(h, m)
    <3> HIDE DEF h
    <3> QED  BY <2>5, <2>6, <2>7 DEF LaidOut
  <2> QED  BY <2>8
<1> QED  BY <1>3, <1>4

\* What FlattenSeq computes: the last of the prefixes.
LEMMA FlattenIsLaidOut ==
    ASSUME asked \in Seq(Encoding)
    PROVE  \E g : LaidOut(g, Len(asked)) /\ FlattenSeq(asked) = g[Len(asked)]
<1>1. Len(asked) \in Nat
  OBVIOUS
<1>2. PICK g : LaidOut(g, Len(asked))
  BY <1>1, LaidOutExists
<1>3. CASE Len(asked) = 0
  <2>1. FlattenSeq(asked) = asked
    BY <1>3 DEF FlattenSeq
  <2>2. asked = <<>>
    BY <1>3, EmptySeq
  <2> QED  BY <1>2, <1>3, <2>1, <2>2 DEF LaidOut
<1>4. CASE Len(asked) # 0
  <2> DEFINE f == CHOOSE f : f = [i \in 1..Len(asked) |->
                                    IF i = 1 THEN asked[i] ELSE f[i - 1] \o asked[i]]
             t == [i \in 1..Len(asked) |-> g[i]]
  <2>1. g[1] = asked[1]
    <3>1. asked[1] \in Seq(Nat)
      BY <1>1, <1>4, AskedWords
    <3>2. 1 \in 1..Len(asked) /\ 1 - 1 = 0
      BY <1>1, <1>4
    <3>3. g[1] = <<>> \o asked[1]
      BY <1>2, <3>2 DEF LaidOut
    <3> QED  BY <3>1, <3>3, ConcatEmptySeq
  <2>2. t = [i \in 1..Len(asked) |-> IF i = 1 THEN asked[i] ELSE t[i - 1] \o asked[i]]
    <3>1. ASSUME NEW i \in 1..Len(asked), i # 1 PROVE t[i] = t[i - 1] \o asked[i]
      <4>1. i - 1 \in 1..Len(asked)
        BY <1>1, <3>1
      <4> QED  BY <1>2, <4>1 DEF LaidOut
    <3> QED  BY <2>1, <3>1
  <2>3. f = [i \in 1..Len(asked) |-> IF i = 1 THEN asked[i] ELSE f[i - 1] \o asked[i]]
    <3> HIDE DEF t
    <3> QED  BY <2>2, Zenon
  <2>4. FlattenSeq(asked) = f[Len(asked)]
    BY <1>4, Zenon DEF FlattenSeq
  <2> HIDE DEF f
  <2>5. \A i \in 1..Len(asked) : f[i] = g[i]
    <3> DEFINE Bad == {i \in 1..Len(asked) : f[i] # g[i]}
    <3> SUFFICES ASSUME Bad # {} PROVE FALSE
      OBVIOUS
    <3>1. PICK m \in Bad : \A k \in Bad : m <= k
      <4>1. Bad \in SUBSET Nat
        OBVIOUS
      <4> HIDE DEF Bad
      <4> QED  BY <4>1, LeastNat
    <3>2. m # 1
      BY <2>1, <2>3
    <3>3. m - 1 \in 1..Len(asked) /\ ~(m <= m - 1)
      BY <1>1, <3>2
    <3>4. f[m - 1] = g[m - 1]
      BY <3>1, <3>3
    <3>5. f[m] = f[m - 1] \o asked[m]
      BY <2>3, <3>2
    <3>6. g[m] = g[m - 1] \o asked[m]
      BY <1>2 DEF LaidOut
    <3> QED  BY <3>4, <3>5, <3>6
  <2>6. Len(asked) \in 1..Len(asked)
    BY <1>1, <1>4
  <2> QED  BY <1>2, <2>4, <2>5, <2>6
<1> QED  BY <1>3, <1>4

\* The words of the k-th operation are where its prefix ends, in every longer one.
LEMMA WordsStay ==
    ASSUME asked \in Seq(Encoding), NEW g, LaidOut(g, Len(asked)), NEW k \in 1..Len(asked),
           NEW i \in 1..Len(asked[k]), NEW j \in k..Len(asked)
    PROVE  Len(g[k - 1]) + i <= Len(g[j]) /\ g[j][Len(g[k - 1]) + i] = asked[k][i]
<1> DEFINE place == Len(g[k - 1]) + i
           Bad == {m \in k..Len(asked) : ~(place <= Len(g[m]) /\ g[m][place] = asked[k][i])}
<1> SUFFICES ASSUME Bad # {} PROVE FALSE
  OBVIOUS
<1>1. Len(asked) \in Nat /\ k \in Nat /\ i \in Nat \ {0}
  OBVIOUS
<1>2. PICK m \in Bad : \A n \in Bad : m <= n
  <2>1. Bad \in SUBSET Nat
    OBVIOUS
  <2> HIDE DEF Bad
  <2> QED  BY <2>1, LeastNat
<1>3. /\ m \in k..Len(asked) /\ m \in 1..Len(asked) /\ m - 1 \in 0..Len(asked)
      /\ k - 1 \in 0..Len(asked)
  BY <1>1
<1>4. m - 1 \in k..Len(asked) => place <= Len(g[m - 1]) /\ g[m - 1][place] = asked[k][i]
  <2>1. ~(m <= m - 1)
    BY <1>3
  <2> QED  BY <1>2, <2>1
<1>5. ~(place <= Len(g[m]) /\ g[m][place] = asked[k][i])
  OBVIOUS
<1> HIDE DEF Bad
<1>6. /\ g[m - 1] \in Seq(Nat) /\ g[k - 1] \in Seq(Nat) /\ asked[m] \in Seq(Nat)
      /\ g[m] = g[m - 1] \o asked[m]
  BY <1>3, AskedWords DEF LaidOut
<1>7. /\ Len(g[m - 1]) \in Nat /\ Len(asked[m]) \in Nat
      /\ Len(g[m]) = Len(g[m - 1]) + Len(asked[m])
      /\ \A x \in 1..Len(g[m - 1]) : g[m][x] = g[m - 1][x]
      /\ \A x \in 1..Len(asked[m]) : g[m][Len(g[m - 1]) + x] = asked[m][x]
  <2> DEFINE a == g[m - 1]
             b == asked[m]
             c == g[m]
  <2>1. a \in Seq(Nat) /\ b \in Seq(Nat) /\ c = a \o b
    BY <1>6
  <2> HIDE DEF a, b, c
  <2>2. /\ Len(a) \in Nat /\ Len(b) \in Nat /\ Len(c) = Len(a) + Len(b)
        /\ \A x \in 1..Len(a) : c[x] = a[x]
        /\ \A x \in 1..Len(b) : c[Len(a) + x] = b[x]
    BY <2>1, Joined
  <2> QED  BY <2>2 DEF a, b, c
<1>8. CASE m = k
  <2>1. i <= Len(asked[m]) /\ i \in 1..Len(asked[m])
    BY <1>8
  <2>2. place = Len(g[m - 1]) + i
    BY <1>8
  <2> HIDE DEF place
  <2>3. g[m][place] = asked[m][i]
    BY <1>7, <2>1, <2>2
  <2>4. place <= Len(g[m])
    BY <1>1, <1>7, <2>1, <2>2
  <2> QED  BY <1>5, <1>8, <2>3, <2>4
<1>9. CASE m # k
  <2>1. m - 1 \in k..Len(asked)
    BY <1>1, <1>3, <1>9
  <2>2. place \in 1..Len(g[m - 1])
    BY <1>1, <1>4, <1>6, <1>7, <2>1
  <2> HIDE DEF place
  <2>3. place <= Len(g[m])
    <3>1. place \in Nat /\ place <= Len(g[m - 1])
      BY <1>7, <2>2
    <3>2. Len(g[m - 1]) \in Nat /\ Len(asked[m]) \in Nat /\ Len(g[m]) = Len(g[m - 1]) + Len(asked[m])
      BY <1>7
    <3>3. \A x, y, z \in Nat : x <= y => x <= y + z
      OBVIOUS
    <3> QED  BY <3>1, <3>2, <3>3, Zenon
  <2>4. g[m][place] = g[m - 1][place]
    BY <1>7, <2>2
  <2> QED  BY <1>4, <1>5, <2>1, <2>3, <2>4
<1> QED  BY <1>8, <1>9

\* Where the words of operation k + 1 start.
Layout == CHOOSE g : LaidOut(g, Len(asked)) /\ FlattenSeq(asked) = g[Len(asked)]
Offset(k) == Len(Layout[k])

LEMMA Offsets ==
    ASSUME asked \in Seq(Encoding)
    PROVE  /\ FlattenSeq(asked) \in Seq(Nat)
           /\ Offset(0) = 0
           /\ \A k \in 1..Len(asked) :
                 /\ Offset(k - 1) \in Nat
                 /\ Offset(k) = Offset(k - 1) + Len(asked[k])
                 /\ \A i \in 1..Len(asked[k]) :
                       /\ Offset(k - 1) + i <= Len(FlattenSeq(asked))
                       /\ FlattenSeq(asked)[Offset(k - 1) + i] = asked[k][i]
<1>1. LaidOut(Layout, Len(asked)) /\ FlattenSeq(asked) = Layout[Len(asked)]
  BY FlattenIsLaidOut, Zenon DEF Layout
<1>2. Len(asked) \in Nat
  OBVIOUS
<1>3. FlattenSeq(asked) \in Seq(Nat)
  BY <1>1, <1>2 DEF LaidOut
<1>4. Offset(0) = 0
  BY <1>1, EmptySeq DEF LaidOut, Offset
<1>5. ASSUME NEW k \in 1..Len(asked)
      PROVE  Offset(k - 1) \in Nat /\ Offset(k) = Offset(k - 1) + Len(asked[k])
  <2>1. k - 1 \in 0..Len(asked) /\ asked[k] \in Seq(Nat)
    BY <1>2, AskedWords
  <2> DEFINE a == Layout[k - 1]
             b == asked[k]
             c == Layout[k]
  <2>2. a \in Seq(Nat) /\ b \in Seq(Nat) /\ c = a \o b
    BY <1>1, <2>1 DEF LaidOut
  <2> HIDE DEF a, b, c
  <2>3. Len(a) \in Nat /\ Len(c) = Len(a) + Len(b)
    BY <2>2, Joined
  <2> QED  BY <2>3 DEF Offset, a, b, c
<1>6. ASSUME NEW k \in 1..Len(asked), NEW i \in 1..Len(asked[k])
      PROVE  /\ Offset(k - 1) + i <= Len(FlattenSeq(asked))
             /\ FlattenSeq(asked)[Offset(k - 1) + i] = asked[k][i]
  <2>1. Len(asked) \in k..Len(asked)
    BY <1>2
  <2> QED  BY <1>1, <2>1, WordsStay DEF Offset
<1> QED  BY <1>3, <1>4, <1>5, <1>6

-----------------------------------------------------------------------------
(* CompoundReply: types, and the count of the results.                      *)

Outcomes == [taken: Nat, status: Status, body: ResultBody, current: BOOLEAN]

LEMMA WordsTyped == ASSUME NEW n \in Nat PROVE Words(n) \in Nat
BY DEF Words

LEMMA HandledTyped ==
    ASSUME request \in Seq(Nat), current \in BOOLEAN, NEW a \in Nat, NEW op \in Nat
    PROVE  Handled(op, a) \subseteq Outcomes
<1> USE DEF Outcomes, Outcome, Fails, Succeeds, Status, ResultBody
<1>1. ASSUME NEW n \in Nat \ {0}, ~Ends(a, n) PROVE Word(a, n) \in Nat /\ Words(Word(a, n)) \in Nat
  <2>1. a + n \in 1..Len(request)
    BY <1>1 DEF Ends
  <2>2. Word(a, n) \in Nat
    BY <2>1 DEF Word
  <2> QED  BY <2>2, WordsTyped
<1>2. Getfh \subseteq Outcomes /\ Renew \subseteq Outcomes
  BY DEF Getfh, Renew
<1>3. Putfh(a) \subseteq Outcomes /\ RemoveOp(a) \subseteq Outcomes
  <2>1. ~Ends(a, 1) => 1 + Words(Word(a, 1)) \in Nat
    BY <1>1
  <2>2. Putfh(a) \subseteq Outcomes
    <3>1. Fails("BADXDR") \in Outcomes /\ Fails("BADHANDLE") \in Outcomes
      OBVIOUS
    <3>2. ~Ends(a, 1) => Outcome(1 + Words(Word(a, 1)), "OK", "none", TRUE) \in Outcomes
      BY <2>1
    <3> HIDE DEF Outcome, Outcomes, Fails
    <3> QED  BY <3>1, <3>2 DEF Putfh
  <2>3. RemoveOp(a) \subseteq Outcomes
    BY <2>1 DEF RemoveOp
  <2> QED  BY <2>2, <2>3
<1>4. Lock(a) \subseteq Outcomes
  <2>1. LockArgs(a) \in Nat
    BY <1>1 DEF LockArgs
  <2> QED  BY <2>1 DEF Lock
<1>5. ReleaseLockowner(a) \subseteq Outcomes
  BY <1>1 DEF ReleaseLockowner
<1> QED  BY <1>2, <1>3, <1>4, <1>5 DEF Handled

\* No result is left uncounted but one that ends the compound.
Counted ==
    /\ Len(results) <= Len(asked)
    /\ phase = "loop" => Len(asked) <= MaxOps
    /\ status = "OK" => rescount = Len(results)
    /\ \/ rescount = Len(results)
       \/ results # <<>> /\ rescount = Len(results) - 1 /\ Last(results).op = ILLEGAL

CountInv == ReplyTypeOK /\ Counted

LEMMA InitCounted == ReplyInit => CountInv
<1> SUFFICES ASSUME ReplyInit PROVE CountInv
  OBVIOUS
<1>1. asked \in Seq(Encoding)
  <2>1. PICK m \in 0..(MaxOps + 1) : asked \in [1..m -> Encoding]
    BY DEF ReplyInit, BoundedSeq, SeqOf
  <2> QED  BY <2>1, ReplyAssumption
<1>2. request \in Seq(Nat)
  <2>1. PICK n \in 0..Len(FlattenSeq(asked)) : request = SubSeq(FlattenSeq(asked), 1, n)
    BY DEF ReplyInit
  <2> QED  BY <1>1, <2>1, Offsets
<1>3. results \in Seq([op: Nat, status: Status, body: ResultBody]) /\ Len(results) = 0
  BY DEF ReplyInit
<1>4. ReplyTypeOK
  <2>1. minor \in 0..3 /\ p \in Nat /\ rescount \in 0..MaxOps
    BY ReplyAssumption DEF ReplyInit
  <2>2. squashed \in BOOLEAN /\ current \in BOOLEAN
    BY DEF ReplyInit
  <2> QED  BY <1>1, <1>2, <1>3, <2>1, <2>2 DEF ReplyInit, ReplyTypeOK, Status
<1> QED  BY <1>1, <1>3, <1>4 DEF ReplyInit, CountInv, Counted

\* A result is added and counted, or ends the compound and says so.
LEMMA EncodeCounted ==
    ASSUME CountInv, AnotherOp, NEW op \in Nat, NEW s \in Status, NEW b \in ResultBody,
           Encode(op, s, b), status' = s,
           \/ rescount' = rescount + 1
           \/ s # "OK" /\ op = ILLEGAL /\ rescount' = rescount,
           p' \in Nat, current' \in BOOLEAN, UNCHANGED <<input, phase>>
    PROVE  CountInv'
<1>1. results' \in Seq([op: Nat, status: Status, body: ResultBody])
  BY DEF CountInv, ReplyTypeOK, Encode
<1>2. /\ Len(results) \in Nat /\ Len(results') = Len(results) + 1
      /\ results' # <<>> /\ Last(results').op = op
  BY <1>1 DEF CountInv, ReplyTypeOK, Encode, Last
<1>3. rescount = Len(results) /\ Len(results) < Len(asked) /\ Len(asked) <= MaxOps
  BY DEF CountInv, Counted, AnotherOp, opcount
<1>4. Len(asked) \in Nat
  BY DEF CountInv, ReplyTypeOK
<1>5. rescount' \in 0..MaxOps
  BY <1>2, <1>3, <1>4, ReplyAssumption
<1>6. ReplyTypeOK'
  BY <1>1, <1>5 DEF CountInv, ReplyTypeOK, input
<1>7. Counted'
  BY <1>2, <1>3, <1>4 DEF CountInv, Counted, input
<1> QED  BY <1>6, <1>7 DEF CountInv

LEMMA NextCounted == CountInv /\ [ReplyNext]_replyVars => CountInv'
<1> SUFFICES ASSUME CountInv, [ReplyNext]_replyVars PROVE CountInv'
  OBVIOUS
<1>1. CASE Decode
  <2>1. ASSUME NEW s \in Status \ {"OK"}, RejectWith(s) PROVE CountInv'
    BY <2>1 DEF RejectWith, CountInv, ReplyTypeOK, Counted, input
  <2>2. ASSUME Len(asked) <= MaxOps, phase' = "loop",
               UNCHANGED <<input, p, current, results, rescount, status>>
        PROVE  CountInv'
    BY <2>2 DEF CountInv, ReplyTypeOK, Counted, input
  <2>3. {"BADXDR", "MINOR_VERS_MISMATCH", "RESOURCE"} \subseteq Status \ {"OK"}
    BY DEF Status
  <2>4. Len(asked) \in Nat
    BY DEF CountInv, ReplyTypeOK
  <2> QED  BY <1>1, <2>1, <2>2, <2>3, <2>4, ReplyAssumption DEF Decode, opcount
<1>2. CASE EndsEarly
  <2>1. ILLEGAL \in Nat /\ "BADXDR" \in Status /\ "none" \in ResultBody
    BY DEF ILLEGAL, Status, ResultBody
  <2> QED  BY <1>2, <2>1, EncodeCounted DEF EndsEarly, CountInv, ReplyTypeOK
<1>3. ASSUME AnotherOp, ~Ends(p, 1) PROVE Word(p, 1) \in Nat /\ p \in Nat
  BY <1>3 DEF Ends, Word, CountInv, ReplyTypeOK
<1>4. CASE Squash
  <2>1. "PERM" \in Status /\ "none" \in ResultBody
    BY DEF Status, ResultBody
  <2>2. AnotherOp /\ Word(p, 1) \in Nat /\ p + 1 \in Nat
    BY <1>3, <1>4 DEF Squash
  <2>3. current' = current /\ current \in BOOLEAN
    BY <1>4 DEF Squash, CountInv, ReplyTypeOK
  <2> QED  BY <1>4, <2>1, <2>2, <2>3, EncodeCounted DEF Squash
<1>5. CASE DispatchOp
  <2>1. PICK o \in Handled(Word(p, 1), p + 1) :
            /\ Encode(Word(p, 1), o.status, IF o.status = "OK" THEN o.body ELSE "none")
            /\ p' = p + 1 + o.taken
            /\ current' = o.current
            /\ status' = o.status
    BY <1>5 DEF DispatchOp
  <2>2. AnotherOp /\ Word(p, 1) \in Nat /\ p \in Nat /\ p + 1 \in Nat
    BY <1>3, <1>5 DEF DispatchOp
  <2>3. o \in Outcomes
    BY <2>2, HandledTyped DEF CountInv, ReplyTypeOK
  <2>4. /\ o.status \in Status /\ o.taken \in Nat /\ o.current \in BOOLEAN
        /\ (IF o.status = "OK" THEN o.body ELSE "none") \in ResultBody
    BY <2>3 DEF Outcomes, ResultBody
  <2> QED  BY <1>5, <2>1, <2>2, <2>4, EncodeCounted DEF DispatchOp
<1>6. CASE EndCompound \/ UNCHANGED replyVars
  BY <1>6 DEF EndCompound, replyVars, CountInv, ReplyTypeOK, Counted, input
<1> QED  BY <1>1, <1>2, <1>4, <1>5, <1>6 DEF ReplyNext

\* The loop counts every result but the one that ends the compound: the
\* inductive invariant.
THEOREM AlwaysCounted == ReplySpec => []CountInv
BY InitCounted, NextCounted, PTL DEF ReplySpec

\* The cursor, the results and their count keep their types, whatever the
\* request holds and wherever it is cut off.
THEOREM ReplyTypeCorrect == ReplySpec => []ReplyTypeOK
BY AlwaysCounted, PTL DEF CountInv

\* The count in a reply is that of its results, but for one that says that the
\* request ended.
THEOREM ResultsAreCounted == ReplySpec => []CountedButTheEnd
<1>1. CountInv => CountedButTheEnd
  BY DEF CountInv, Counted, CountedButTheEnd
<1> QED  BY <1>1, AlwaysCounted, PTL

-----------------------------------------------------------------------------
(* CompoundReply: the cursor.                                               *)

NoRelease(n) == \A j \in 1..n : asked[j][1] # RELEASE_LOCKOWNER

\* What arrived begins as what was sent.
Arrived ==
    /\ Len(request) <= Len(FlattenSeq(asked))
    /\ \A i \in 1..Len(request) : request[i] = FlattenSeq(asked)[i]

\* Between two operations the cursor is where the next one starts.
InStep == status = "OK" /\ NoRelease(Len(results)) => p = Offset(Len(results))

CursorInv == CountInv /\ Arrived /\ InStep /\ AnswersRequest

\* In step, the words ahead of the cursor are those of the next operation.
LEMMA NextWords ==
    ASSUME CursorInv, AnotherOp, NoRelease(Len(results)), NEW k, k = Len(results) + 1
    PROVE  /\ k \in 1..Len(asked) /\ k - 1 = Len(results)
           /\ asked[k] \in Encoding /\ Len(asked[k]) \in Nat \ {0}
           /\ p \in Nat /\ Offset(k) = p + Len(asked[k])
           /\ ~Ends(p, 1) => Word(p, 1) = asked[k][1]
           /\ \A n \in 1..(Len(asked[k]) - 1) : ~Ends(p + 1, n) => Word(p + 1, n) = asked[k][n + 1]
<1>1. /\ asked \in Seq(Encoding) /\ request \in Seq(Nat) /\ p \in Nat
      /\ Len(results) \in Nat /\ Len(results) < Len(asked)
  BY DEF CursorInv, CountInv, ReplyTypeOK, AnotherOp, opcount
<1>2. k \in 1..Len(asked) /\ k - 1 = Len(results)
  BY <1>1
<1>3. asked[k] \in Encoding /\ Len(asked[k]) \in Nat \ {0}
  BY <1>1, <1>2, AskedWords
<1>4. p = Offset(k - 1)
  BY <1>2 DEF CursorInv, InStep, AnotherOp
<1>5. Offset(k) = p + Len(asked[k])
  BY <1>1, <1>2, <1>4, Offsets
<1>6. \A i \in 1..Len(asked[k]) : FlattenSeq(asked)[p + i] = asked[k][i]
  BY <1>1, <1>2, <1>4, Offsets
<1>7. ASSUME NEW i \in 1..Len(asked[k]), p + i <= Len(request) PROVE request[p + i] = asked[k][i]
  <2>1. p + i \in 1..Len(request)
    BY <1>1, <1>7
  <2> QED  BY <1>6, <2>1 DEF CursorInv, Arrived
<1>8. ~Ends(p, 1) => Word(p, 1) = asked[k][1]
  BY <1>1, <1>3, <1>7 DEF Ends, Word
<1>9. ASSUME NEW n \in 1..(Len(asked[k]) - 1), ~Ends(p + 1, n)
      PROVE  Word(p + 1, n) = asked[k][n + 1]
  <2>1. n + 1 \in 1..Len(asked[k]) /\ (p + 1) + n = p + (n + 1)
    BY <1>1, <1>3
  <2>2. p + (n + 1) <= Len(request)
    BY <1>1, <1>9, <2>1 DEF Ends
  <2> QED  BY <1>7, <2>1, <2>2 DEF Word
<1> QED  BY <1>1, <1>2, <1>3, <1>5, <1>8, <1>9

\* An operation that succeeds takes its own words, all of them.
LEMMA TakesItsWords ==
    ASSUME WellEncoded, CursorInv, AnotherOp, NoRelease(Len(results)), NEW k,
           k = Len(results) + 1, asked[k][1] # RELEASE_LOCKOWNER,
           NEW o \in Handled(asked[k][1], p + 1), o.status = "OK"
    PROVE  o.taken = Len(asked[k]) - 1
<1> DEFINE e == asked[k]
           a == p + 1
<1>1. e \in Encoding /\ Len(e) \in Nat
  BY NextWords
<1>10. \A n \in 1..Len(e) : e[n] \in Nat
  BY <1>1, ReplyAssumption
<1>2. \A n \in 1..(Len(e) - 1) : ~Ends(a, n) => Word(a, n) = e[n + 1]
  BY NextWords
<1>3. o \in Handled(e[1], a) /\ e[1] # RELEASE_LOCKOWNER
  OBVIOUS
<1> HIDE DEF e, a
<1> USE DEF Outcome, Fails, Succeeds, GETFH, LOCK, PUTFH, REMOVE, RENEW, RELEASE_LOCKOWNER, ILLEGAL
<1>4. CASE e[1] = GETFH
  <2>1. Len(e) = 1
    BY <1>1, <1>4 DEF WellEncoded
  <2>2. o \in Getfh
    BY <1>3, <1>4 DEF Handled
  <2>3. o.taken = 0
    BY <2>2 DEF Getfh
  <2> QED  BY <2>1, <2>3 DEF e
<1>5. CASE e[1] = RENEW
  <2>1. Len(e) = 3
    BY <1>1, <1>5 DEF WellEncoded
  <2>2. o \in Renew
    BY <1>3, <1>5 DEF Handled
  <2>3. o.taken = 2
    BY <2>2 DEF Renew
  <2> QED  BY <2>1, <2>3 DEF e
<1>6. CASE e[1] \in {PUTFH, REMOVE}
  <2>1. Len(e) >= 2 /\ Len(e) = 2 + Words(e[2])
    BY <1>1, <1>6 DEF WellEncoded
  <2>2. ~Ends(a, 1) => Word(a, 1) = e[2]
    BY <1>1, <1>2, <2>1
  <2>3. ~Ends(a, 1) /\ o.taken = 1 + Words(Word(a, 1))
    <3>1. CASE e[1] = PUTFH
      BY <1>3, <3>1 DEF Handled, Putfh
    <3>2. CASE e[1] = REMOVE
      BY <1>3, <3>2 DEF Handled, RemoveOp
    <3> QED  BY <1>6, <3>1, <3>2
  <2>4. Words(e[2]) \in Nat
    <3>1. e[2] \in Nat
      BY <1>1, <1>10, <2>1
    <3> QED  BY <3>1, WordsTyped
  <2>5. o.taken = 1 + Words(e[2])
    BY <2>2, <2>3
  <2> HIDE DEF Outcome, Fails, Succeeds
  <2> QED  BY <2>1, <2>4, <2>5 DEF e
<1>7. CASE e[1] = LOCK
  <2>1. o.taken = LockArgs(a) /\ LockArgs(a) # 0
    BY <1>3, <1>7 DEF Handled, Lock
  <2> HIDE DEF Outcome, Fails, Succeeds
  <2>2. \/ Len(e) = 13 /\ e[8] = 0
        \/ Len(e) >= 17 /\ e[8] # 0 /\ Len(e) = 17 + Words(e[17])
    BY <1>1, <1>7 DEF WellEncoded
  <2>3. ~Ends(a, 7) /\ Word(a, 7) = e[8]
    <3>1. ~Ends(a, 7)
      BY <2>1 DEF LockArgs
    <3>2. 7 \in 1..(Len(e) - 1)
      BY <1>1, <2>2
    <3> QED  BY <1>2, <3>1, <3>2
  <2>4. CASE e[8] = 0
    <3>1. LockArgs(a) = 12
      BY <2>1, <2>3, <2>4 DEF LockArgs
    <3> QED  BY <2>1, <2>2, <2>4, <3>1 DEF e
  <2>5. CASE e[8] # 0
    <3>1. ~Ends(a, 16) /\ LockArgs(a) = 16 + Words(Word(a, 16))
      BY <2>1, <2>3, <2>5 DEF LockArgs
    <3>2. 16 \in 1..(Len(e) - 1) /\ 17 \in 1..Len(e)
      BY <1>1, <2>2, <2>5
    <3>3. Word(a, 16) = e[17]
      <4>1. Word(a, 16) = e[16 + 1]
        BY <1>2, <3>1, <3>2
      <4> QED  BY <4>1
    <3>4. Words(e[17]) \in Nat
      BY <1>10, <3>2, WordsTyped
    <3>5. o.taken = 16 + Words(e[17])
      BY <2>1, <3>1, <3>3
    <3> QED  BY <2>2, <2>5, <3>4, <3>5 DEF e
  <2> QED  BY <2>4, <2>5
<1>8. CASE e[1] \notin {GETFH, RENEW, PUTFH, REMOVE, LOCK}
  BY <1>3, <1>8 DEF Handled
<1> QED  BY <1>4, <1>5, <1>6, <1>7, <1>8 DEF e

LEMMA InitInStep == ReplyInit => CursorInv
<1> SUFFICES ASSUME ReplyInit PROVE CursorInv
  OBVIOUS
<1>1. CountInv
  BY InitCounted
<1>2. asked \in Seq(Encoding) /\ Len(results) = 0 /\ DOMAIN results = {} /\ p = 0
  BY <1>1 DEF ReplyInit, CountInv, ReplyTypeOK
<1>3. InStep /\ AnswersRequest
  BY <1>2, Offsets DEF InStep, AnswersRequest
<1>4. Arrived
  <2>1. PICK n \in 0..Len(FlattenSeq(asked)) : request = SubSeq(FlattenSeq(asked), 1, n)
    BY DEF ReplyInit
  <2> DEFINE w == FlattenSeq(asked)
  <2>2. w \in Seq(Nat) /\ n \in 0..Len(w) /\ request = SubSeq(w, 1, n)
    BY <1>2, <2>1, Offsets
  <2> HIDE DEF w
  <2>3. Len(request) = n /\ \A i \in 1..n : request[i] = w[i]
    BY <2>2
  <2> QED  BY <2>2, <2>3 DEF Arrived, w
<1> QED  BY <1>1, <1>3, <1>4 DEF CursorInv

\* A result added in step answers its operation, or says that there is none.
LEMMA EncodeAnswers ==
    ASSUME CursorInv, NEW op, NEW s, NEW b, Encode(op, s, b), asked' = asked,
           NoRelease(Len(results)) =>
               \/ op = asked[Len(results) + 1][1]
               \/ op = ILLEGAL /\ s = "BADXDR" /\ b = "none"
    PROVE  AnswersRequest'
<1>1. /\ Len(results) \in Nat /\ DOMAIN results' = 1..(Len(results) + 1)
      /\ results'[Len(results) + 1] = [op |-> op, status |-> s, body |-> b]
      /\ \A k \in 1..Len(results) : results'[k] = results[k]
  BY DEF CursorInv, CountInv, ReplyTypeOK, Encode
<1>2. DOMAIN results = 1..Len(results)
  BY DEF CursorInv, CountInv, ReplyTypeOK
<1> SUFFICES ASSUME NEW k \in DOMAIN results',
                    \A j \in 1..(k - 1) : asked[j][1] # RELEASE_LOCKOWNER
             PROVE  \/ results'[k].op = asked[k][1]
                    \/ results'[k] = [op |-> ILLEGAL, status |-> "BADXDR", body |-> "none"]
  BY DEF AnswersRequest
<1>3. CASE k \in 1..Len(results)
  BY <1>1, <1>2, <1>3 DEF CursorInv, AnswersRequest
<1>4. CASE k = Len(results) + 1
  <2>1. NoRelease(Len(results))
    BY <1>1, <1>4 DEF NoRelease
  <2> QED  BY <1>1, <1>4, <2>1
<1> QED  BY <1>1, <1>3, <1>4

\* What the request holds, and where it is, no step changes.
LEMMA StillArrived ==
    ASSUME CursorInv, UNCHANGED input
    PROVE  Arrived'
BY DEF CursorInv, Arrived, input

LEMMA NextInStep ==
    ASSUME WellEncoded, CursorInv, [ReplyNext]_replyVars
    PROVE  CursorInv'
<1>1. CountInv' /\ CountInv
  BY NextCounted DEF CursorInv
<1>2. UNCHANGED input
  BY DEF ReplyNext, Decode, RejectWith, EndsEarly, Squash, DispatchOp, EndCompound, replyVars, input
<1>3. Arrived' /\ asked' = asked
  BY <1>2, StillArrived DEF input
<1>4. ASSUME UNCHANGED <<p, results>>, status' = "OK" => status = "OK" PROVE CursorInv'
  <2>1. InStep'
    BY <1>3, <1>4 DEF CursorInv, InStep, NoRelease, Offset, Layout, LaidOut
  <2>2. AnswersRequest'
    BY <1>3, <1>4 DEF CursorInv, AnswersRequest
  <2> QED  BY <1>1, <1>3, <2>1, <2>2 DEF CursorInv
<1>5. CASE Decode
  BY <1>4, <1>5 DEF Decode, RejectWith
<1>6. CASE EndsEarly
  <2>1. AnswersRequest'
    BY <1>3, <1>6, EncodeAnswers DEF EndsEarly
  <2>2. InStep'
    BY <1>6 DEF EndsEarly, InStep
  <2> QED  BY <1>1, <1>3, <2>1, <2>2 DEF CursorInv
<1>7. CASE Squash
  <2>1. NoRelease(Len(results)) => Word(p, 1) = asked[Len(results) + 1][1]
    BY <1>7, NextWords DEF Squash
  <2>2. AnswersRequest'
    BY <1>3, <1>7, <2>1, EncodeAnswers DEF Squash
  <2>3. InStep'
    BY <1>7 DEF Squash, InStep
  <2> QED  BY <1>1, <1>3, <2>2, <2>3 DEF CursorInv
<1>8. CASE DispatchOp
  <2>1. PICK o \in Handled(Word(p, 1), p + 1) :
            /\ Encode(Word(p, 1), o.status, IF o.status = "OK" THEN o.body ELSE "none")
            /\ p' = p + 1 + o.taken
            /\ status' = o.status
    BY <1>8 DEF DispatchOp
  <2>2. AnotherOp /\ ~Ends(p, 1)
    BY <1>8 DEF DispatchOp
  <2>3. NoRelease(Len(results)) => Word(p, 1) = asked[Len(results) + 1][1]
    BY <2>2, NextWords
  <2>4. AnswersRequest'
    BY <1>3, <2>1, <2>3, EncodeAnswers
  <2>5. Len(results) \in Nat /\ Len(results') = Len(results) + 1
    BY <1>1, <2>1 DEF CountInv, ReplyTypeOK, Encode
  <2>6. ASSUME o.status = "OK", NoRelease(Len(results) + 1) PROVE p' = Offset(Len(results) + 1)
    <3> DEFINE k == Len(results) + 1
    <3>1. NoRelease(Len(results)) /\ asked[k][1] # RELEASE_LOCKOWNER
      BY <2>5, <2>6 DEF NoRelease
    <3>2. p \in Nat /\ Offset(k) = p + Len(asked[k]) /\ Len(asked[k]) \in Nat
      BY <2>2, <3>1, NextWords
    <3>3. o \in Handled(asked[k][1], p + 1)
      BY <2>3, <3>1
    <3>4. o.taken = Len(asked[k]) - 1
      BY <2>2, <2>6, <3>1, <3>3, TakesItsWords
    <3> HIDE DEF k
    <3>5. p' = Offset(k)
      <4> DEFINE l == Len(asked[k])
      <4>1. p' = p + 1 + o.taken /\ o.taken = l - 1 /\ Offset(k) = p + l /\ p \in Nat /\ l \in Nat
        BY <2>1, <3>2, <3>4
      <4> HIDE DEF l
      <4> QED  BY <4>1
    <3> QED  BY <3>5 DEF k
  <2>7. InStep'
    BY <1>3, <2>1, <2>5, <2>6 DEF InStep, NoRelease, Offset, Layout, LaidOut
  <2> QED  BY <1>1, <1>3, <2>4, <2>7 DEF CursorInv
<1>9. CASE EndCompound \/ UNCHANGED replyVars
  BY <1>4, <1>9 DEF EndCompound, replyVars
<1> QED  BY <1>5, <1>6, <1>7, <1>8, <1>9 DEF ReplyNext

\* If the clients encode their operations as these handlers read them, every
\* result answers the operation in its place, up to a RELEASE_LOCKOWNER.
THEOREM AnswersTheRequest ==
    ASSUME WellEncoded
    PROVE  ReplySpec => []AnswersRequest
<1>1. CursorInv /\ [ReplyNext]_replyVars => CursorInv'
  BY NextInStep
<1>2. CursorInv => AnswersRequest
  BY DEF CursorInv
<1> QED  BY <1>1, <1>2, InitInStep, PTL DEF ReplySpec

-----------------------------------------------------------------------------
(* Paging: the listing.                                                     *)

LEMMA FiniteDirectory ==
    ASSUME NEW S \in SUBSET Name
    PROVE  /\ IsFiniteSet(S) /\ Cardinality(S) \in Nat
           /\ Cardinality(Name) \in Nat /\ Cardinality(S) <= Cardinality(Name)
BY PagingAssumption, FS_Subset, FS_CardinalityType

\* A greater set has more below, and a greater bound has the lesser one below it.
LEMMA BelowGrows ==
    ASSUME NEW S \in SUBSET Name, NEW T \in SUBSET S, NEW n
    PROVE  /\ Cardinality({m \in T : m < n}) \in Nat /\ Cardinality({m \in S : m < n}) \in Nat
           /\ Cardinality({m \in T : m < n}) <= Cardinality({m \in S : m < n})
<1> DEFINE a == {m \in T : m < n}
           b == {m \in S : m < n}
<1>1. a \in SUBSET b /\ b \in SUBSET Name /\ a \in SUBSET Name
  OBVIOUS
<1> HIDE DEF a, b
<1>2. IsFiniteSet(b) /\ Cardinality(b) \in Nat /\ Cardinality(a) \in Nat
  BY <1>1, FiniteDirectory
<1>3. Cardinality(a) <= Cardinality(b)
  BY <1>1, <1>2, FS_Subset
<1> QED  BY <1>2, <1>3 DEF a, b

LEMMA BeforeTyped ==
    ASSUME dir \subseteq Name, NEW n \in dir
    PROVE  Before(n) \in 0..(Cardinality(dir) - 1)
<1> DEFINE b == {m \in dir : m < n}
<1>1. b \in SUBSET dir /\ n \notin b
  BY PagingAssumption
<1> HIDE DEF b
<1>2. IsFiniteSet(dir) /\ Cardinality(dir) \in Nat /\ Cardinality(b) \in Nat
  BY <1>1, FiniteDirectory
<1>3. Cardinality(b) <= Cardinality(dir) /\ Cardinality(b) # Cardinality(dir)
  BY <1>1, <1>2, FS_Subset
<1>4. Before(n) = Cardinality(b)
  BY DEF Before, b
<1> QED  BY <1>2, <1>3, <1>4

LEMMA BeforeRises ==
    ASSUME dir \subseteq Name, NEW n \in dir, NEW m \in dir, n < m
    PROVE  Before(n) < Before(m)
<1> DEFINE a == {k \in dir : k < n}
           b == {k \in dir : k < m}
<1>1. a \in SUBSET b /\ n \in b /\ n \notin a /\ b \in SUBSET Name /\ a \in SUBSET Name
  <2>1. n \in Nat /\ m \in Nat /\ \A k \in dir : k \in Nat
    BY PagingAssumption
  <2>2. \A k \in dir : k < n => k < m
    BY <2>1
  <2>3. n < m /\ ~(n < n)
    BY <2>1
  <2> QED  BY <2>2, <2>3
<1> HIDE DEF a, b
<1>2. IsFiniteSet(b) /\ Cardinality(b) \in Nat /\ Cardinality(a) \in Nat
  BY <1>1, FiniteDirectory
<1>3. Cardinality(a) <= Cardinality(b) /\ Cardinality(a) # Cardinality(b)
  BY <1>1, <1>2, FS_Subset
<1>4. Before(n) = Cardinality(a) /\ Before(m) = Cardinality(b)
  BY DEF Before, a, b
<1> QED  BY <1>2, <1>3, <1>4

\* Different names have different positions, and every position has its name.
LEMMA EveryPosition ==
    ASSUME dir \subseteq Name
    PROVE  /\ \A n, m \in dir : Before(n) = Before(m) => n = m
           /\ \A i \in 1..Cardinality(dir) : \E n \in dir : Before(n) = i - 1
<1> DEFINE places == 0..(Cardinality(dir) - 1)
           f == [n \in dir |-> Before(n)]
<1>1. ASSUME NEW n \in dir, NEW m \in dir, Before(n) = Before(m) PROVE n = m
  <2>1. Before(n) \in Nat /\ Before(m) \in Nat /\ n \in Nat /\ m \in Nat
    <3>1. Before(n) \in 0..(Cardinality(dir) - 1) /\ Before(m) \in 0..(Cardinality(dir) - 1)
      BY BeforeTyped
    <3> QED  BY <3>1, PagingAssumption
  <2>2. ~(n < m) /\ ~(m < n)
    BY <1>1, <2>1, BeforeRises
  <2> QED  BY <2>1, <2>2
<1>2. Cardinality(dir) \in Nat /\ IsFiniteSet(dir)
  BY FiniteDirectory
<1>3. IsFiniteSet(places) /\ Cardinality(places) = Cardinality(dir)
  BY <1>2, FS_Interval
<1>4. f \in [dir -> places]
  BY BeforeTyped
<1>5. f \in Injection(dir, places)
  BY <1>1, <1>4 DEF Injection, IsInjective
<1>6. f \in Surjection(dir, places)
  <2> HIDE DEF f, places
  <2> QED  BY <1>3, <1>5, FS_Injection
<1>7. ASSUME NEW i \in 1..Cardinality(dir) PROVE \E n \in dir : Before(n) = i - 1
  <2>1. i - 1 \in places
    BY <1>2
  <2>2. \E n \in dir : f[n] = i - 1
    <3> HIDE DEF f, places
    <3> QED  BY <1>6, <2>1 DEF Surjection
  <2> QED  BY <2>2
<1> QED  BY <1>1, <1>7

LEMMA ListingIs ==
    ASSUME dir \subseteq Name
    PROVE  /\ Listing \in Seq(Name) /\ Len(Listing) = Cardinality(dir) /\ Len(Listing) \in Nat
           /\ \A i \in 1..Len(Listing) : Listing[i] \in dir /\ Before(Listing[i]) = i - 1
           /\ \A n \in dir : Before(n) + 1 \in 1..Len(Listing) /\ Listing[Before(n) + 1] = n
<1>1. Cardinality(dir) \in Nat
  BY FiniteDirectory
<1>2. ASSUME NEW i \in 1..Cardinality(dir) PROVE Listing[i] \in dir /\ Before(Listing[i]) = i - 1
  <2>1. \E n \in dir : Before(n) = i - 1
    BY EveryPosition
  <2>2. Listing[i] = CHOOSE n \in dir : Before(n) = i - 1
    BY DEF Listing
  <2> QED  BY <2>1, <2>2
<1>3. DOMAIN Listing = 1..Cardinality(dir) /\ Listing = [i \in 1..Cardinality(dir) |-> Listing[i]]
  BY DEF Listing
<1>4. Listing \in [1..Cardinality(dir) -> Name]
  BY <1>2, <1>3
<1>5. Listing \in Seq(Name) /\ Len(Listing) = Cardinality(dir)
  BY <1>1, <1>4
<1>6. ASSUME NEW n \in dir PROVE Before(n) + 1 \in 1..Len(Listing) /\ Listing[Before(n) + 1] = n
  <2>1. Before(n) \in 0..(Cardinality(dir) - 1)
    BY BeforeTyped
  <2>2. Before(n) + 1 \in 1..Cardinality(dir) /\ (Before(n) + 1) - 1 = Before(n)
    BY <1>1, <2>1
  <2>3. Listing[Before(n) + 1] \in dir /\ Before(Listing[Before(n) + 1]) = Before(n)
    BY <1>2, <2>2
  <2> QED  BY <1>5, <2>2, <2>3, EveryPosition
<1> QED  BY <1>1, <1>2, <1>5, <1>6

\* A page's entries: those of the rest of the listing that come first.
LEMMA FittingIs ==
    ASSUME NEW s \in Seq(Name)
    PROVE  \E n \in 0..Len(s) : Fitting(s) = SubSeq(s, 1, n)
<1> DEFINE Over == {j \in 1..Len(s) : ~(Bytes(SubSeq(s, 1, j)) <= MaxCount)}
           Stops(k) == /\ \A j \in 1..k : Bytes(SubSeq(s, 1, j)) <= MaxCount
                       /\ k = Len(s) \/ ~(Bytes(SubSeq(s, 1, k + 1)) <= MaxCount)
<1>1. Len(s) \in Nat
  OBVIOUS
<1>2. \E k \in 0..Len(s) : Stops(k)
  <2>1. CASE Over = {}
    <3>1. Stops(Len(s))
      BY <2>1
    <3> QED  BY <1>1, <3>1
  <2>2. CASE Over # {}
    <3>1. PICK m \in Over : \A j \in Over : m <= j
      <4>1. Over \in SUBSET Nat
        OBVIOUS
      <4> HIDE DEF Over
      <4> QED  BY <2>2, <4>1, LeastNat
    <3>2. m \in 1..Len(s) /\ ~(Bytes(SubSeq(s, 1, m)) <= MaxCount)
      OBVIOUS
    <3>3. \A j \in 1..(m - 1) : j \notin Over /\ j \in 1..Len(s)
      <4> HIDE DEF Over
      <4> QED  BY <1>1, <3>1, <3>2
    <3>4. \A j \in 1..(m - 1) : Bytes(SubSeq(s, 1, j)) <= MaxCount
      BY <3>3
    <3>5. (m - 1) + 1 = m /\ m - 1 \in 0..Len(s)
      BY <1>1, <3>2
    <3>6. Stops(m - 1)
      BY <3>2, <3>4, <3>5
    <3> HIDE DEF Stops
    <3> QED  BY <3>5, <3>6
  <2> QED  BY <2>1, <2>2
<1>3. Fitting(s) = SubSeq(s, 1, CHOOSE k \in 0..Len(s) : Stops(k))
  BY DEF Fitting
<1> HIDE DEF Stops
<1> QED  BY <1>2, <1>3

\* What a call answers is the part of the listing behind its cookie, up to the
\* cookie it answers or the end.
LEMMA PageIs ==
    ASSUME PagingTypeOK, kind # "v4" => cookie = 0, NEW page, page = PageOf(cookie),
           NEW start, start = StartIndex(cookie)
    PROVE  /\ start \in Nat
           /\ page.entries \in Seq(Name) /\ Len(page.entries) \in Nat
           /\ \A j \in 1..Len(page.entries) :
                 start + j \in 1..Len(Listing) /\ page.entries[j] = Listing[start + j]
           /\ page.eof \in BOOLEAN
           /\ page.eof => start + Len(page.entries) >= Len(Listing)
           /\ ~page.eof => /\ kind = "v4"
                           /\ start + Len(page.entries) < Len(Listing)
                           /\ page.entries # <<>> =>
                                 /\ StartIndex(page.last) = start + Len(page.entries)
                                 /\ page.last \in CookieBase..(CookieBase + Cardinality(Name) - 2)
<1>1. /\ Listing \in Seq(Name) /\ Len(Listing) \in Nat /\ Cardinality(Name) \in Nat
      /\ Len(Listing) <= Cardinality(Name)
  BY ListingIs, FiniteDirectory DEF PagingTypeOK
<1>2. start \in Nat
  BY <1>1 DEF PagingTypeOK, StartIndex, CookieBase
<1>3. /\ Rest(cookie) \in Seq(Name) /\ Len(Rest(cookie)) \in Nat
      /\ start <= Len(Listing) => Len(Rest(cookie)) = Len(Listing) - start
      /\ start > Len(Listing) => Len(Rest(cookie)) = 0
      /\ \A j \in 1..Len(Rest(cookie)) :
            start + j \in 1..Len(Listing) /\ Rest(cookie)[j] = Listing[start + j]
  <2> DEFINE w == Listing
             r == SubSeq(w, start + 1, Len(w))
  <2>1. w \in Seq(Name) /\ Len(w) \in Nat /\ start \in Nat
    BY <1>1, <1>2
  <2> HIDE DEF w
  <2>2. /\ r \in Seq(Name) /\ Len(r) = IF start + 1 <= Len(w) THEN Len(w) - start ELSE 0
        /\ \A j \in 1..Len(r) : r[j] = w[start + j]
    BY <2>1, SubSeqProperties
  <2>3. \A j \in 1..Len(r) : start + j \in 1..Len(w)
    BY <2>1, <2>2
  <2>4. Rest(cookie) = r
    BY DEF Rest, w
  <2> HIDE DEF r
  <2> QED  BY <2>1, <2>2, <2>3, <2>4 DEF w
<1>4. CASE kind = "v4"
  <2> DEFINE r == Rest(cookie)
             f == Fitting(r)
             k == Len(f)
  <2>1. PICK n \in 0..Len(r) : f = SubSeq(r, 1, n)
    BY <1>3, FittingIs
  <2>2. /\ f \in Seq(Name) /\ k \in Nat /\ k <= Len(r)
        /\ \A j \in 1..k : f[j] = r[j]
    <3>1. r \in Seq(Name) /\ Len(r) \in Nat
      BY <1>3
    <3> HIDE DEF r, f
    <3> QED  BY <2>1, <3>1
  <2>3. page = Page(f, CookieBase + start + k - 1, start + k >= Len(Listing))
    BY <1>4 DEF PageOf, DirectoryPage
  <2> HIDE DEF f
  <2>4. /\ page.entries = f /\ page.last = CookieBase + start + k - 1
        /\ page.eof = (start + k >= Len(Listing))
    BY <2>3 DEF Page
  <2>5. \A j \in 1..k : start + j \in 1..Len(Listing) /\ f[j] = Listing[start + j]
    <3>1. \A j \in 1..k : j \in 1..Len(r)
      BY <1>3, <2>2
    <3> QED  BY <1>3, <2>2, <3>1
  <2> DEFINE l == Len(Listing)
             c == Cardinality(Name)
  <2>6. start \in Nat /\ k \in Nat /\ l \in Nat /\ c \in Nat /\ l <= c
    BY <1>1, <1>2, <2>2
  <2>7. (page.eof <=> start + k >= l) /\ page.eof \in BOOLEAN
    <3> DEFINE b == start + k >= l
    <3>1. page.eof = b
      BY <2>4
    <3>2. b \in BOOLEAN
      BY <2>6
    <3> HIDE DEF b
    <3>3. (page.eof <=> b) /\ page.eof \in BOOLEAN
      BY <3>1, <3>2
    <3> QED  BY <3>3 DEF b
  <2>8. k = 0 => page.entries = <<>>
    BY <2>2, <2>4, EmptySeq
  <2>9. page.last = 3 + start + k - 1 /\ CookieBase = 3
    BY <2>4 DEF CookieBase
  <2> HIDE DEF k, l, c
  <2>10. ~page.eof => start + k < l
    BY <2>6, <2>7
  <2>11. ASSUME ~page.eof, page.entries # <<>>
         PROVE  StartIndex(page.last) = start + k /\ page.last \in CookieBase..(CookieBase + c - 2)
    <3>1. k # 0 /\ start + k < l
      BY <2>8, <2>10, <2>11
    <3>2. page.last \in 3..(3 + c - 2) /\ ~(page.last < 3) /\ (page.last - 3) + 1 = start + k
      BY <2>6, <2>9, <3>1
    <3> QED  BY <2>9, <3>2 DEF StartIndex
  <2>12. page.eof => start + k >= l
    BY <2>7
  <2> QED  BY <1>2, <1>4, <2>2, <2>4, <2>5, <2>7, <2>10, <2>11, <2>12 DEF k, l, c
<1>5. CASE kind # "v4"
  <2>1. start = 0 /\ cookie = 0
    BY <1>5 DEF StartIndex, CookieBase
  <2>2. kind = "root" => page = Page(Rest(cookie), CookieBase + Len(Listing) - 1, TRUE)
    BY DEF PageOf, RootPage
  <2>3. kind = "v3" => page = Page(Listing, Len(Listing), TRUE)
    BY DEF PageOf, V3Page
  <2>4. page.eof = TRUE /\ page.entries \in {Rest(cookie), Listing}
    BY <1>5, <2>2, <2>3, PagingAssumption DEF PagingTypeOK, Page
  <2>5. Len(Rest(cookie)) = Len(Listing)
    BY <1>1, <1>3, <2>1
  <2> DEFINE e == page.entries
             l == Len(Listing)
  <2>6. e \in Seq(Name) /\ Len(e) = l /\ l \in Nat
    BY <1>1, <1>3, <2>4, <2>5
  <2>7. \A j \in 1..l : 0 + j \in 1..l /\ e[j] = Listing[0 + j]
    <3>1. \A j \in 1..l : 0 + j \in 1..l /\ 0 + j = j
      BY <2>6
    <3>2. e = Rest(cookie) => \A j \in 1..l : e[j] = Listing[0 + j]
      BY <1>3, <2>1, <2>5
    <3> QED  BY <2>4, <3>1, <3>2
  <2>8. 0 + l >= l
    BY <2>6
  <2> HIDE DEF e, l
  <2>9. /\ \A j \in 1..Len(e) : start + j \in 1..l /\ e[j] = Listing[start + j]
        /\ start + Len(e) >= l
    BY <2>1, <2>6, <2>7, <2>8
  <2> QED  BY <1>2, <2>4, <2>6, <2>9 DEF e, l
<1> QED  BY <1>4, <1>5

-----------------------------------------------------------------------------
(* Paging: what has been listed.                                            *)

Listed == {listed[i] : i \in DOMAIN listed}

\* Nothing was removed, so what is ahead of the cookie now was ahead of it when
\* the entries before it were answered.
NoneMissed ==
    ~removed =>
        /\ state = "listing" => \A n \in present : Before(n) < StartIndex(cookie) => n \in Listed
        /\ state = "end" => present \subseteq Listed

\* Nothing was created, so what was answered and is still there is behind the
\* cookie.
NoneAgain ==
    ~created =>
        /\ \A i, j \in 1..Len(listed) : listed[i] = listed[j] => i = j
        /\ state = "listing" => \A n \in Listed \cap dir : Before(n) < StartIndex(cookie)

PagingInv ==
    /\ PagingTypeOK
    /\ present \subseteq dir
    /\ kind # "v4" => cookie = 0
    /\ NoneMissed
    /\ NoneAgain

LEMMA InitPaging == PagingInit => PagingInv
<1> SUFFICES ASSUME PagingInit PROVE PagingInv
  OBVIOUS
<1>1. listed \in Seq(Name) /\ Len(listed) = 0 /\ Listed = {}
  BY DEF PagingInit, Listed
<1>2. StartIndex(cookie) = 0 /\ changes \in 0..MaxChanges
  BY PagingAssumption DEF PagingInit, StartIndex, CookieBase
<1>3. ASSUME NEW n \in dir PROVE ~(Before(n) < 0)
  <2>1. Before(n) \in 0..(Cardinality(dir) - 1)
    BY BeforeTyped DEF PagingInit
  <2> QED  BY <2>1
<1>4. PagingTypeOK
  BY <1>1, <1>2 DEF PagingInit, PagingTypeOK
<1>5. NoneMissed
  BY <1>2, <1>3 DEF PagingInit, NoneMissed
<1>6. NoneAgain
  BY <1>1 DEF NoneAgain
<1> QED  BY <1>4, <1>5, <1>6 DEF PagingInit, PagingInv

LEMMA ReaddirKeeps == ASSUME PagingInv, Readdir PROVE PagingInv'
<1> DEFINE page == PageOf(cookie)
           e == page.entries
           s == StartIndex(cookie)
           k == Len(e)
           l == Len(Listing)
<1>1. /\ state = "listing" /\ listed' = listed \o e
      /\ cookie' = IF e = <<>> \/ page.eof THEN cookie ELSE page.last
      /\ state' = IF page.eof THEN "end" ELSE state
      /\ UNCHANGED <<kind, dir, history>>
  BY DEF Readdir
<1>2. /\ PagingTypeOK /\ present \subseteq dir /\ (kind # "v4" => cookie = 0)
      /\ NoneMissed /\ NoneAgain
  BY DEF PagingInv
<1>3. /\ s \in Nat /\ e \in Seq(Name) /\ k \in Nat
      /\ \A j \in 1..k : s + j \in 1..l /\ e[j] = Listing[s + j]
      /\ page.eof \in BOOLEAN
      /\ page.eof => s + k >= l
      /\ ~page.eof => /\ kind = "v4" /\ s + k < l
                      /\ e # <<>> =>
                            /\ StartIndex(page.last) = s + k
                            /\ page.last \in CookieBase..(CookieBase + Cardinality(Name) - 2)
  BY <1>2, PageIs, Zenon
<1>4. /\ l \in Nat
      /\ \A i \in 1..l : Listing[i] \in dir /\ Before(Listing[i]) = i - 1
      /\ \A n \in dir : Before(n) + 1 \in 1..l /\ Listing[Before(n) + 1] = n
  BY <1>2, ListingIs DEF PagingTypeOK
<1>5. e = <<>> => k = 0
  OBVIOUS
<1> HIDE DEF page, e, s, k, l
<1>6. ~page.eof => StartIndex(cookie') = s + k
  <2>1. k = 0 => s + k = s
    BY <1>3
  <2> QED  BY <1>1, <1>3, <1>5, <2>1 DEF s
<1>7. /\ Len(listed) \in Nat /\ Len(listed') = Len(listed) + k
      /\ listed' \in Seq(Name)
      /\ \A x \in 1..Len(listed) : listed'[x] = listed[x]
      /\ \A x \in 1..k : listed'[Len(listed) + x] = e[x]
  <2>1. listed \in Seq(Name)
    BY <1>2 DEF PagingTypeOK
  <2> QED  BY <1>1, <1>3, <2>1, Joined, ConcatProperties DEF k
<1> DEFINE Answered == {e[j] : j \in 1..k}
<1>8. Listed' = Listed \cup Answered
  <2>1. /\ Listed = {listed[x] : x \in 1..Len(listed)}
        /\ Listed' = {listed'[x] : x \in 1..Len(listed')}
    BY <1>2, <1>7 DEF Listed, PagingTypeOK
  <2>2. ASSUME NEW x \in 1..Len(listed') PROVE listed'[x] \in Listed \cup Answered
    <3>1. CASE x \in 1..Len(listed)
      BY <1>7, <2>1, <3>1
    <3>2. CASE x \notin 1..Len(listed)
      <4>1. x - Len(listed) \in 1..k /\ Len(listed) + (x - Len(listed)) = x
        BY <1>3, <1>7, <3>2
      <4>2. listed'[x] = e[x - Len(listed)]
        BY <1>7, <4>1
      <4> QED  BY <4>1, <4>2
    <3> QED  BY <3>1, <3>2
  <2>3. ASSUME NEW x \in 1..Len(listed) PROVE listed[x] \in Listed'
    <3>1. x \in 1..Len(listed')
      BY <1>3, <1>7
    <3> QED  BY <1>7, <2>1, <3>1
  <2>4. ASSUME NEW j \in 1..k PROVE e[j] \in Listed'
    <3>1. Len(listed) + j \in 1..Len(listed')
      BY <1>3, <1>7
    <3> QED  BY <1>7, <2>1, <3>1
  <2> QED  BY <2>1, <2>2, <2>3, <2>4
<1>9. ASSUME NEW n \in dir
      PROVE  /\ Before(n) \in Nat
             /\ Before(n) >= s /\ Before(n) < s + k => n \in Answered
             /\ n \in Answered => Before(n) >= s /\ Before(n) < s + k
             /\ page.eof => Before(n) < s + k
  <2> DEFINE b == Before(n)
  <2>1. b + 1 \in 1..l /\ Listing[b + 1] = n /\ b \in Nat
    <3>1. b \in 0..(Cardinality(dir) - 1)
      BY <1>2, BeforeTyped DEF PagingTypeOK
    <3> QED  BY <1>4, <3>1
  <2> HIDE DEF b
  <2>2. ASSUME b >= s, b < s + k PROVE n \in Answered
    <3>1. (b + 1) - s \in 1..k /\ s + ((b + 1) - s) = b + 1
      BY <1>3, <2>1, <2>2
    <3>2. e[(b + 1) - s] = n
      BY <1>3, <2>1, <3>1
    <3> QED  BY <3>1, <3>2
  <2>3. ASSUME NEW j \in 1..k, n = e[j] PROVE b >= s /\ b < s + k
    <3>1. b = s + j - 1
      BY <1>3, <1>4, <2>3 DEF b
    <3> QED  BY <1>3, <3>1
  <2>4. page.eof => b < s + k
    BY <1>3, <1>4, <2>1
  <2> QED  BY <2>1, <2>2, <2>3, <2>4 DEF b
<1> HIDE DEF Answered
<1>10. PagingTypeOK'
  <2>1. cookie' \in {0} \cup CookieBase..(CookieBase + Cardinality(Name) - 2)
    BY <1>1, <1>2, <1>3 DEF PagingTypeOK
  <2> QED  BY <1>1, <1>2, <1>7, <2>1 DEF PagingTypeOK, history
<1>11. NoneMissed'
  <2> SUFFICES ASSUME ~removed, NEW n \in present,
                      state' = "listing" => Before(n) < StartIndex(cookie'),
                      state' \in {"listing", "end"}
               PROVE  n \in Listed'
    BY <1>1 DEF NoneMissed, history, Before
  <2>1. n \in dir /\ (Before(n) < s => n \in Listed)
    BY <1>1, <1>2 DEF NoneMissed, s
  <2>2. Before(n) < s + k
    BY <1>1, <1>3, <1>6, <1>9, <2>1
  <2>3. Before(n) \in Nat
    BY <1>9, <2>1
  <2> QED  BY <1>3, <1>8, <1>9, <2>1, <2>2, <2>3
<1>12. NoneAgain'
  <2> SUFFICES ASSUME ~created
               PROVE  /\ \A i, j \in 1..Len(listed') : listed'[i] = listed'[j] => i = j
                      /\ state' = "listing" =>
                            \A n \in Listed' \cap dir : Before(n) < StartIndex(cookie')
    BY <1>1 DEF NoneAgain, history, Before
  <2>1. /\ \A i, j \in 1..Len(listed) : listed[i] = listed[j] => i = j
        /\ \A n \in Listed \cap dir : Before(n) < s
    BY <1>1, <1>2 DEF NoneAgain, s
  <2>2. \A j \in 1..k : e[j] \in dir /\ e[j] \in Answered /\ Before(e[j]) = s + j - 1
    <3>1. ASSUME NEW j \in 1..k PROVE e[j] \in dir /\ Before(e[j]) = s + j - 1
      <4>1. s + j \in 1..l /\ e[j] = Listing[s + j]
        BY <1>3
      <4>2. Listing[s + j] \in dir /\ Before(Listing[s + j]) = (s + j) - 1
        BY <1>4, <4>1
      <4>3. Before(e[j]) = (s + j) - 1
        BY <4>1, <4>2, Zenon
      <4>4. (s + j) - 1 = s + j - 1
        BY <1>3
      <4> QED  BY <4>1, <4>2, <4>3, <4>4, Zenon
    <3>2. \A j \in 1..k : e[j] \in Answered
      BY DEF Answered
    <3> QED  BY <3>1, <3>2
  <2>3. \A i \in 1..Len(listed) : listed[i] \in Listed
    BY <1>2 DEF Listed, PagingTypeOK
  <2>4. ASSUME NEW i \in 1..Len(listed'), NEW j \in 1..Len(listed'), listed'[i] = listed'[j], i < j
        PROVE  FALSE
    <3> DEFINE m == Len(listed)
    <3>1. m \in Nat /\ i \in 1..(m + k) /\ j \in 1..(m + k)
      BY <1>7
    <3>2. CASE j <= m
      BY <1>7, <2>1, <2>4, <3>1, <3>2
    <3>3. CASE i <= m /\ ~(j <= m)
      <4>1. j - m \in 1..k /\ m + (j - m) = j /\ i \in 1..m
        BY <1>3, <3>1, <3>3
      <4>2. listed'[j] = e[j - m] /\ listed'[i] = listed[i]
        BY <1>7, <4>1
      <4>3. e[j - m] \in Listed \cap dir
        BY <2>2, <2>3, <2>4, <4>1, <4>2
      <4>4. Before(e[j - m]) < s /\ Before(e[j - m]) = s + (j - m) - 1
        BY <2>1, <2>2, <4>1, <4>3
      <4> QED  BY <1>3, <4>1, <4>4
    <3>4. CASE ~(i <= m) /\ ~(j <= m)
      <4>1. /\ j - m \in 1..k /\ m + (j - m) = j
            /\ i - m \in 1..k /\ m + (i - m) = i
        BY <1>3, <3>1, <3>4
      <4>2. listed'[j] = e[j - m] /\ listed'[i] = e[i - m]
        BY <1>7, <4>1
      <4>3. s + (j - m) - 1 = s + (i - m) - 1
        BY <2>2, <2>4, <4>1, <4>2
      <4> QED  BY <1>3, <2>4, <3>1, <4>3
    <3> QED  BY <2>4, <3>1, <3>2, <3>3, <3>4
  <2>5. \A i, j \in 1..Len(listed') : listed'[i] = listed'[j] => i = j
    <3>1. \A i, j \in 1..Len(listed') : i < j \/ j < i \/ i = j
      BY <1>3, <1>7
    <3> QED  BY <2>4, <3>1
  <2>6. ASSUME state' = "listing", NEW n \in Listed' \cap dir PROVE Before(n) < StartIndex(cookie')
    <3>1. ~page.eof /\ StartIndex(cookie') = s + k
      BY <1>1, <1>6, <2>6
    <3>2. n \in Listed => Before(n) < s
      BY <2>1, <2>6
    <3> QED  BY <1>3, <1>8, <1>9, <2>6, <3>1, <3>2
  <2> QED  BY <2>5, <2>6
<1> QED  BY <1>1, <1>2, <1>3, <1>10, <1>11, <1>12 DEF PagingInv, history

LEMMA NextPaging == PagingInv /\ [PagingNext]_pagingVars => PagingInv'
<1> SUFFICES ASSUME PagingInv, [PagingNext]_pagingVars PROVE PagingInv'
  OBVIOUS
<1>1. CASE Readdir
  BY <1>1, ReaddirKeeps
<1>2. CASE ReaddirFails
  BY <1>2 DEF ReaddirFails, history, PagingInv, PagingTypeOK, NoneMissed, NoneAgain, Listed
<1>3. ASSUME NEW n \in Name, CreateName(n) PROVE PagingInv'
  <2>1. PagingTypeOK'
    BY <1>3, PagingAssumption DEF CreateName, Change, PagingInv, PagingTypeOK
  <2>2. /\ state = "listing" /\ dir \subseteq Name /\ dir' \subseteq Name /\ dir \in SUBSET dir'
        /\ UNCHANGED <<kind, cookie, listed, state, present, removed>> /\ created' = TRUE
    BY <1>3 DEF CreateName, Change, PagingInv, PagingTypeOK
  <2>3. NoneMissed'
    <3> SUFFICES ASSUME ~removed, NEW m \in present, Before(m)' < StartIndex(cookie)
                 PROVE  m \in Listed
      BY <2>2 DEF NoneMissed, Listed, StartIndex
    <3>1. Before(m) \in Nat /\ Before(m)' \in Nat /\ Before(m) <= Before(m)'
      BY <2>2, BelowGrows DEF Before
    <3>2. StartIndex(cookie) \in Nat
      BY <2>1, <2>2 DEF StartIndex, CookieBase, PagingTypeOK
    <3> QED  BY <2>2, <3>1, <3>2 DEF PagingInv, NoneMissed
  <2> QED  BY <2>1, <2>2, <2>3 DEF PagingInv, NoneAgain
<1>4. ASSUME NEW n \in Name, RemoveName(n) PROVE PagingInv'
  <2>1. PagingTypeOK'
    BY <1>4, PagingAssumption DEF RemoveName, Change, PagingInv, PagingTypeOK
  <2>2. /\ state = "listing" /\ dir \subseteq Name /\ dir' \in SUBSET dir /\ present' \subseteq dir'
        /\ UNCHANGED <<kind, cookie, listed, state, created>> /\ removed' = TRUE
    BY <1>4 DEF RemoveName, Change, PagingInv, PagingTypeOK
  <2>3. NoneAgain'
    <3> SUFFICES ASSUME ~created, NEW m \in Listed \cap dir' PROVE Before(m)' < StartIndex(cookie)
      BY <2>2 DEF PagingInv, NoneAgain, Listed, StartIndex
    <3>1. Before(m) \in Nat /\ Before(m)' \in Nat /\ Before(m)' <= Before(m)
      BY <2>2, BelowGrows DEF Before
    <3>2. StartIndex(cookie) \in Nat
      BY <2>1, <2>2 DEF StartIndex, CookieBase, PagingTypeOK
    <3>3. Before(m) < StartIndex(cookie)
      BY <2>2 DEF PagingInv, NoneAgain
    <3> QED  BY <3>1, <3>2, <3>3
  <2> QED  BY <2>1, <2>2, <2>3 DEF PagingInv, NoneMissed
<1>5. CASE Rewind
  <2>1. listed' \in Seq(Name) /\ Len(listed') = 0 /\ Listed' = {}
    BY <1>5 DEF Rewind, Listed
  <2>2. StartIndex(cookie') = 0
    BY <1>5 DEF Rewind, StartIndex, CookieBase
  <2>3. PagingTypeOK'
    BY <1>5, <2>1 DEF Rewind, PagingInv, PagingTypeOK
  <2>4. \A n \in dir' : ~(Before(n)' < 0)
    <3>1. ASSUME NEW n \in dir' PROVE Before(n) \in 0..(Cardinality(dir) - 1) /\ Before(n)' = Before(n)
      BY <1>5, <3>1, BeforeTyped DEF Rewind, PagingInv, PagingTypeOK, Before
    <3> QED  BY <3>1
  <2>5. NoneMissed'
    BY <1>5, <2>2, <2>4 DEF Rewind, NoneMissed
  <2>6. NoneAgain'
    BY <2>1 DEF NoneAgain
  <2> QED  BY <1>5, <2>3, <2>5, <2>6 DEF Rewind, PagingInv
<1>6. CASE UNCHANGED pagingVars
  BY <1>6 DEF pagingVars, history, PagingInv, PagingTypeOK, NoneMissed, NoneAgain, Listed, Before
<1> QED  BY <1>1, <1>2, <1>3, <1>4, <1>5, <1>6 DEF PagingNext

\* A listing misses or repeats names only where the directory moved under it:
\* the inductive invariant.
THEOREM AlwaysPaging == PagingSpec => []PagingInv
BY InitPaging, NextPaging, PTL DEF PagingSpec

\* Cookies stay within the listings of the directory, and what is answered are
\* names.
THEOREM PagingTypeCorrect == PagingSpec => []PagingTypeOK
<1>1. PagingInv => PagingTypeOK
  BY DEF PagingInv
<1> QED  BY <1>1, AlwaysPaging, PTL

LEMMA TimesTyped ==
    ASSUME PagingTypeOK, NEW n
    PROVE  /\ IsFiniteSet({i \in DOMAIN listed : listed[i] = n}) /\ Times(n) \in Nat
           /\ Times(n) = 0 <=> n \notin Listed
<1> DEFINE t == {i \in DOMAIN listed : listed[i] = n}
<1>1. t \in SUBSET (1..Len(listed)) /\ Len(listed) \in Nat
  BY DEF PagingTypeOK
<1>2. t = {} <=> n \notin Listed
  BY DEF Listed
<1> HIDE DEF t
<1>3. IsFiniteSet(t)
  <2>1. IsFiniteSet(1..Len(listed))
    BY <1>1, FS_Interval
  <2> QED  BY <1>1, <2>1, FS_Subset
<1>4. Cardinality(t) \in Nat /\ (Cardinality(t) = 0 <=> t = {})
  BY <1>3, FS_CardinalityType, FS_EmptySet
<1> QED  BY <1>2, <1>3, <1>4 DEF Times, t

\* A listing made while names were only created has every name that was there
\* all along, however the pages fall.
THEOREM CreationsSkipNothing == PagingSpec => []GrowingSkipsNothing
<1>1. PagingInv => GrowingSkipsNothing
  <2> SUFFICES ASSUME PagingInv, state = "end", ~removed, NEW n \in present PROVE Times(n) >= 1
    BY DEF GrowingSkipsNothing
  <2>1. n \in Listed
    BY DEF PagingInv, NoneMissed
  <2>2. Times(n) \in Nat /\ Times(n) # 0
    BY <2>1, TimesTyped DEF PagingInv
  <2> QED  BY <2>2
<1> QED  BY <1>1, AlwaysPaging, PTL

\* A listing made while names were only removed has no name twice.
THEOREM RemovalsRepeatNothing == PagingSpec => []ShrinkingRepeatsNothing
<1>1. PagingInv => ShrinkingRepeatsNothing
  <2> SUFFICES ASSUME PagingInv, ~created, NEW n \in Name PROVE Times(n) <= 1
    BY DEF ShrinkingRepeatsNothing
  <2>1. CASE n \notin Listed
    <3>1. Times(n) = 0
      BY <2>1, TimesTyped DEF PagingInv
    <3> QED  BY <3>1
  <2>2. CASE n \in Listed
    <3>1. PICK i \in DOMAIN listed : listed[i] = n
      BY <2>2 DEF Listed
    <3>2. DOMAIN listed = 1..Len(listed)
      BY DEF PagingInv, PagingTypeOK
    <3>3. {j \in DOMAIN listed : listed[j] = n} = {i}
      BY <3>1, <3>2 DEF PagingInv, NoneAgain
    <3>4. Times(n) = 1
      BY <3>3, FS_Singleton DEF Times
    <3> QED  BY <3>4
  <2> QED  BY <2>1, <2>2
<1> QED  BY <1>1, AlwaysPaging, PTL
=============================================================================
