----------------------------- MODULE Nfs3Proofs -----------------------------
(***************************************************************************)
(* Proofs about Nfs3, for any tree of paths and any exports.               *)
(*                                                                         *)
(* As long as requests name children only, a path's entry is made through  *)
(* a handle of something above it, or by MOUNT, so the export it is entered *)
(* under lies above it.  A request that is not refused for its handle's    *)
(* export can then only reach paths below that export, and no export lies  *)
(* below another.                                                          *)
(***************************************************************************)
EXTENDS Nfs3, SequenceTheorems, TLAPS

\* The export in a path's entry is above the path, or the path itself.
RootsAbove == joined = 0 => \A p \in Path : \A r \in table[p] : Within(r, p)

IInv == TypeOK /\ RootsAbove

-----------------------------------------------------------------------------
(* Paths.                                                                   *)

LEMMA WithinMeans ==
    ASSUME NEW p \in Path, NEW q \in Path
    PROVE  Within(p, q) <=> Len(p) <= Len(q) /\ \A i \in 1..Len(p) : p[i] = q[i]
<1>1. p \in Seq(Name) /\ q \in Seq(Name)
  BY ConstantsAssumption
<1>2. /\ SubSeq(p, 1, Len(p)) = p
      /\ Len(p) <= Len(q) => Len(SubSeq(q, 1, Len(p))) = Len(p)
  BY <1>1
<1> QED  BY <1>1, <1>2 DEF Within, SeqExt!IsPrefix

LEMMA WithinSelf == ASSUME NEW p \in Path PROVE Within(p, p)
BY WithinMeans, ConstantsAssumption

LEMMA WithinTransitive ==
    ASSUME NEW p \in Path, NEW q \in Path, NEW r \in Path, Within(p, q), Within(q, r)
    PROVE  Within(p, r)
<1>1. Len(p) \in Nat /\ Len(q) \in Nat /\ Len(r) \in Nat
  BY ConstantsAssumption
<1> QED  BY <1>1, WithinMeans

\* Of two paths above one path, one is above the other.
LEMMA WithinLinear ==
    ASSUME NEW p \in Path, NEW q \in Path, NEW r \in Path, Within(p, r), Within(q, r)
    PROVE  Within(p, q) \/ Within(q, p)
<1>1. Len(p) \in Nat /\ Len(q) \in Nat /\ Len(r) \in Nat
  BY ConstantsAssumption
<1> QED  BY <1>1, WithinMeans

\* What a handle, its entry and a name of it are about.
LEMMA HandlePath ==
    ASSUME IInv, NEW h \in handles, NEW r \in Roots(h), Resolves(h)
    PROVE  h \in Path /\ r \in Export /\ r \in Path /\ (joined = 0 => Within(r, h))
BY ConstantsAssumption DEF IInv, TypeOK, RootsAbove, Resolves, Roots

LEMMA RootTyped ==
    ASSUME IInv, NEW h \in handles, NEW r \in Roots(h)
    PROVE  r \in Export \cup {NoRoot} /\ h \in Path \cup {Stale}
BY HandlePath DEF Roots, IInv, TypeOK

LEMMA NamedPath ==
    ASSUME IInv, NEW h \in handles, NEW r \in Roots(h), NEW out \in BOOLEAN, NEW p \in Named(h, out)
    PROVE  /\ p \in Path
           /\ ~out /\ Resolves(h) => Within(h, p) /\ (joined = 0 => Within(r, p))
<1>1. p \in Path /\ (~out /\ Resolves(h) => Within(h, p))
  BY DEF Named, Children
<1> QED  BY <1>1, HandlePath, WithinTransitive

\* Nothing read-only is below the export of a handle that is not refused as such.
LEMMA NotReadOnly ==
    ASSUME IInv, Apart, NEW h \in handles, NEW r \in Roots(h), Resolves(h), ~IsReadOnly(r),
           NEW p \in Path, Within(r, p), NEW e \in ReadOnly
    PROVE  ~Within(e, p)
<1>1. e \in Export /\ e \in Path
  BY ConstantsAssumption
<1> QED  BY <1>1, HandlePath, WithinLinear DEF Apart, IsReadOnly

-----------------------------------------------------------------------------
(* What the parts of the handlers do.                                       *)

LEMMA AnswerTyped ==
    ASSUME NEW op \in Op, NEW fhs \in SUBSET (Path \cup {Stale}), NEW r \in Export \cup {NoRoot},
           NEW path \in Path \cup {Stale},
           NEW status \in {"OK", "NOENT", "IO", "ROFS", "NOTEMPTY", "STALE", "NOTSUPP"},
           NEW count \in {0, 1}, Answer(op, fhs, r, path, status, count)
    PROVE  reply' \in Reply
BY DEF Answer, Reply

LEMMA JoinsTyped ==
    ASSUME IInv, NEW out \in BOOLEAN, out => joined < MaxJoined, Joins(out)
    PROVE  joined' \in 0..MaxJoined /\ (joined' = 0 => joined = 0 /\ ~out)
BY ConstantsAssumption DEF IInv, TypeOK, Joins

\* Unless joined names have been, only entries below the export they are entered
\* under are made.
LEMMA EnterKeeps ==
    ASSUME IInv, NEW root \in Export, NEW paths \in SUBSET Path,
           joined' \in 0..MaxJoined, joined' = 0 => joined = 0 /\ \A p \in paths : Within(root, p),
           Enter(paths, root), handles' \subseteq handles \cup paths,
           disk' \in [Path -> {"none", "dir", "empty", "data"}], reply' \in Reply
    PROVE  IInv'
<1>1. PICK again \in SUBSET paths :
         table' = [p \in Path |->
            IF p \in again \/ (p \in paths /\ table[p] = {}) THEN table[p] \cup {root} ELSE table[p]]
  BY DEF Enter
<1>2. table \in [Path -> SUBSET Export]
  BY DEF IInv, TypeOK
<1>3. ASSUME NEW p \in Path
      PROVE  /\ table'[p] = table[p] \cup {root} \/ table'[p] = table[p]
             /\ p \notin paths => table'[p] = table[p]
             /\ p \in paths => table'[p] # {}
  BY <1>1
<1>4. table' \in [Path -> SUBSET Export]
  BY <1>1, <1>2
<1>5. \A p \in handles' \ {Stale} : table'[p] # {}
  BY <1>3 DEF IInv, TypeOK
<1>6. handles' \subseteq Path \cup {Stale}
  BY DEF IInv, TypeOK
<1>7. RootsAbove'
  <2> SUFFICES ASSUME joined' = 0, NEW p \in Path, NEW r \in table'[p] PROVE Within(r, p)
    BY DEF RootsAbove, Within
  <2>1. CASE r \in table[p]
    BY <2>1 DEF IInv, RootsAbove
  <2>2. CASE r \notin table[p]
    BY <1>3, <2>2
  <2> QED  BY <2>1, <2>2
<1> QED  BY <1>4, <1>5, <1>6, <1>7 DEF IInv, TypeOK

LEMMA SameKeeps ==
    ASSUME IInv, UNCHANGED <<table, handles>>,
           joined' \in 0..MaxJoined, joined' = 0 => joined = 0,
           disk' \in [Path -> {"none", "dir", "empty", "data"}], reply' \in Reply
    PROVE  IInv'
BY DEF IInv, TypeOK, RootsAbove, Within

LEMMA RefuseKeeps ==
    ASSUME IInv, NEW op \in Op,
           NEW status \in {"OK", "NOENT", "IO", "ROFS", "NOTEMPTY", "STALE", "NOTSUPP"},
           Refuse(op, status)
    PROVE  IInv'
<1>1. reply' \in Reply
  BY AnswerTyped DEF Refuse
<1> QED  BY <1>1, SameKeeps DEF Refuse, IInv, TypeOK

LEMMA GiveKeeps ==
    ASSUME IInv, NEW op \in Op, NEW fhs \in SUBSET (Path \cup {Stale}),
           NEW r \in Export \cup {NoRoot}, NEW path \in Path, NEW root \in Export,
           NEW out \in BOOLEAN, out => joined < MaxJoined,
           ~out /\ joined = 0 => Within(root, path),
           disk' \in [Path -> {"none", "dir", "empty", "data"}], Give(op, fhs, r, path, root, out)
    PROVE  IInv'
<1>1. reply' \in Reply
  BY AnswerTyped DEF Give
<1>2. joined' \in 0..MaxJoined /\ (joined' = 0 => joined = 0 /\ ~out)
  BY JoinsTyped DEF Give
<1> QED  BY <1>1, <1>2, EnterKeeps DEF Give

\* Both ways round, a move takes what is below the one to the same place below the other.
LEMMA MoveBack ==
    ASSUME NEW src \in Path, NEW dst \in Path, NEW q \in Path, Within(src, q)
    PROVE  MovedTo(dst, src, MovedTo(src, dst, q)) = q
<1> DEFINE tail == SubSeq(q, Len(src) + 1, Len(q))
<1>1. src \in Seq(Name) /\ dst \in Seq(Name) /\ q \in Seq(Name)
  BY ConstantsAssumption
<1>2. Len(src) \in Nat /\ Len(dst) \in Nat /\ Len(q) \in Nat /\ Len(src) <= Len(q)
  BY <1>1, WithinMeans
<1>3. tail \in Seq(Name) /\ Len(tail) = Len(q) - Len(src)
      /\ \A i \in 1..(Len(q) - Len(src)) : tail[i] = q[Len(src) + i]
  BY <1>1, <1>2
<1> HIDE DEF tail
<1> DEFINE r == dst \o tail
<1>4. /\ r \in Seq(Name) /\ Len(r) = Len(dst) + Len(tail)
      /\ \A i \in 1..(Len(dst) + Len(tail)) :
            r[i] = IF i <= Len(dst) THEN dst[i] ELSE tail[i - Len(dst)]
  BY <1>1, <1>3, ConcatProperties
<1> HIDE DEF r
<1>5. SubSeq(r, Len(dst) + 1, Len(r)) = tail
  <2>1. /\ SubSeq(r, Len(dst) + 1, Len(r)) \in Seq(Name)
        /\ Len(SubSeq(r, Len(dst) + 1, Len(r))) = Len(tail)
        /\ \A i \in 1..Len(tail) : SubSeq(r, Len(dst) + 1, Len(r))[i] = r[Len(dst) + i]
    BY <1>2, <1>3, <1>4
  <2> QED  BY <1>3, <1>4, <2>1
<1>6. src \o tail = q
  <2> DEFINE whole == src \o tail
  <2>1. /\ whole \in Seq(Name) /\ Len(whole) = Len(src) + Len(tail)
        /\ \A i \in 1..(Len(src) + Len(tail)) :
              whole[i] = IF i <= Len(src) THEN src[i] ELSE tail[i - Len(src)]
    BY <1>1, <1>3, ConcatProperties
  <2> HIDE DEF whole
  <2>2. \A i \in 1..Len(src) : src[i] = q[i]
    BY WithinMeans
  <2>3. ASSUME NEW i \in 1..Len(q) PROVE whole[i] = q[i]
    <3>1. i \in 1..(Len(src) + Len(tail)) /\ i \in Nat
      BY <1>2, <1>3
    <3>2. CASE i <= Len(src)
      BY <1>2, <2>1, <2>2, <3>1, <3>2
    <3>3. CASE ~(i <= Len(src))
      <4>1. whole[i] = tail[i - Len(src)]
        BY <2>1, <3>1, <3>3
      <4>2. i - Len(src) \in 1..(Len(q) - Len(src)) /\ Len(src) + (i - Len(src)) = i
        BY <1>2, <3>1, <3>3
      <4> QED  BY <1>3, <4>1, <4>2
    <3> QED  BY <3>2, <3>3
  <2>4. whole = q
    BY <1>1, <1>2, <1>3, <2>1, <2>3, SeqEqual
  <2> QED  BY <2>4 DEF whole
<1> QED  BY <1>5, <1>6 DEF MovedTo, r, tail

LEMMA MovedTyped ==
    ASSUME IInv, NEW src \in Path, NEW dst \in Path
    PROVE  Moved(src, dst) \in [Path -> {"none", "dir", "empty", "data"}]
<1>1. ASSUME NEW r \in Path, NEW q \in Path, Within(src, q), r = MovedTo(src, dst, q)
      PROVE  MovedTo(dst, src, r) \in Path
  BY <1>1, MoveBack
<1> QED  BY <1>1 DEF Moved, IInv, TypeOK

-----------------------------------------------------------------------------
(* What every step does right: it keeps the invariant, its reply is true,  *)
(* and what it changes on the disk it may change.                          *)

Right ==
    /\ IInv'
    /\ AnswersTrue'
    /\ disk' # disk => Stale \notin reply'.fhs /\ reply'.root \notin ReadOnly
    /\ Apart /\ Changes(ReadOnly) => reply'.op = "RENAME" \/ joined' > 0

\* A change above or at a path that a handle not refused as read-only reaches.
LEMMA ReachesWritable ==
    ASSUME IInv, NEW h \in handles, NEW r \in Roots(h), Resolves(h), ~IsReadOnly(r),
           NEW p \in Path, Within(r, p),
           \A q \in Path : disk'[q] # disk[q] => Within(q, p)
    PROVE  Apart => ~Changes(ReadOnly)
<1> SUFFICES ASSUME Apart, NEW q \in Path, NEW e \in ReadOnly, Within(e, q), disk'[q] # disk[q]
             PROVE  FALSE
  BY DEF Changes
<1>1. e \in Path
  BY ConstantsAssumption
<1>2. Within(e, p)
  BY <1>1, WithinTransitive
<1> QED  BY <1>2, NotReadOnly

LEMMA RefuseRight ==
    ASSUME IInv, NEW op \in Op,
           NEW status \in {"OK", "NOENT", "IO", "ROFS", "NOTEMPTY", "STALE", "NOTSUPP"},
           op \in {"REMOVE", "RMDIR"} => status # "OK",
           Refuse(op, status)
    PROVE  Right
<1>1. IInv'
  BY RefuseKeeps
<1>2. disk' = disk /\ reply'.op = op /\ reply'.status = status /\ reply'.count = 0
  BY DEF Refuse, Answer
<1> QED  BY <1>1, <1>2 DEF Right, AnswersTrue, Changes

LEMMA HandleTyped == ASSUME IInv, NEW h \in handles PROVE {h} \in SUBSET (Path \cup {Stale})
BY DEF IInv, TypeOK

LEMMA MntRight == ASSUME IInv, NEW e \in Export, Mnt(e) PROVE Right
<1>1. e \in Path /\ Within(e, e)
  BY WithinSelf, ConstantsAssumption
<1>2. IInv'
  <2>1. disk' \in [Path -> {"none", "dir", "empty", "data"}] /\ Give("MNT", {}, NoRoot, e, e, FALSE)
    BY DEF Mnt, IInv, TypeOK
  <2>2. "MNT" \in Op
    BY DEF Op
  <2> QED  BY <1>1, <2>1, <2>2, GiveKeeps
<1>3. disk' = disk /\ reply'.op = "MNT"
  BY DEF Mnt, Give, Answer
<1> QED  BY <1>2, <1>3 DEF Right, AnswersTrue, Changes

LEMMA LookupRight ==
    ASSUME IInv, NEW h \in handles, NEW r \in Roots(h), NEW p \in LookedUp(h, r), Lookup(h, r, p)
    PROVE  Right
<1>1. p \in Path /\ {h} \in SUBSET (Path \cup {Stale}) /\ "LOOKUP" \in Op
  BY NamedPath, HandleTyped DEF Op, LookedUp
<1>4. ASSUME Resolves(h), joined = 0 PROVE Within(r, p)
  <2>1. CASE p \in Named(h, FALSE)
    BY <1>4, <2>1, NamedPath
  <2> QED  BY <2>1 DEF LookedUp
<1>2. CASE Resolves(h) /\ Give("LOOKUP", {h}, r, p, r, FALSE) /\ UNCHANGED disk
  <2>1. IInv'
    BY <1>1, <1>2, <1>4, GiveKeeps, HandlePath DEF IInv, TypeOK
  <2>2. disk' = disk /\ reply'.op = "LOOKUP"
    BY <1>2 DEF Give, Answer
  <2> QED  BY <2>1, <2>2 DEF Right, AnswersTrue, Changes
<1>3. CASE Refuse("LOOKUP", "NOENT")
  BY <1>1, <1>3, RefuseRight
<1> QED  BY <1>2, <1>3 DEF Lookup

\* The procedures that only look, and those that do nothing.
LEMMA LookRight ==
    ASSUME IInv, NEW h, NEW r,
           (\E op \in Look3 : Look(op, h, r)) \/ Setattr(h, r) \/ Unsupported(h, r)
    PROVE  Right
<1>1. ASSUME NEW op \in Look3, Look(op, h, r) PROVE Right
  <2>1. op \in Op /\ op \notin {"REMOVE", "RMDIR"}
    BY DEF Op, Look3
  <2> QED  BY <1>1, <2>1, RefuseRight DEF Look
<1>2. CASE Setattr(h, r)
  <2>1. "SETATTR" \in Op
    BY DEF Op
  <2> QED  BY <1>2, <2>1, RefuseRight DEF Setattr
<1>3. CASE Unsupported(h, r)
  <2>1. "UNSUPPORTED" \in Op
    BY DEF Op
  <2> QED  BY <1>3, <2>1, RefuseRight DEF Unsupported
<1> QED  BY <1>1, <1>2, <1>3

LEMMA ReadRight ==
    ASSUME IInv, NEW h \in handles, NEW r \in Roots(h), Read(h, r) \/ Readdir(h, r) PROVE Right
<1>1. {h} \in SUBSET (Path \cup {Stale}) /\ h \in Path \cup {Stale} /\ r \in Export \cup {NoRoot}
  BY HandleTyped, RootTyped
<1>2. /\ disk' = disk /\ disk \in [Path -> {"none", "dir", "empty", "data"}]
      /\ joined' = joined /\ joined \in 0..MaxJoined
  BY DEF Read, Readdir, IInv, TypeOK
<1>3. CASE Read(h, r)
  <2>1. PICK n \in {0, 1} : Answer("READ", {h}, r, h, "OK", n) /\ UNCHANGED <<table, handles>>
    BY <1>3 DEF Read
  <2>2. reply' \in Reply
    <3>1. "READ" \in Op
      BY DEF Op
    <3> QED  BY <1>1, <2>1, <3>1, AnswerTyped
  <2>3. IInv'
    BY <1>2, <2>1, <2>2, SameKeeps
  <2>4. reply'.op = "READ"
    BY <2>1 DEF Answer
  <2> QED  BY <1>2, <2>3, <2>4 DEF Right, AnswersTrue, Changes
<1>4. CASE Readdir(h, r)
  <2>1. reply' \in Reply
    <3>1. "READDIR" \in Op
      BY DEF Op
    <3> QED  BY <1>1, <1>4, <3>1, AnswerTyped DEF Readdir
  <2>2. handles' = handles
    BY <1>4 DEF Readdir
  <2>3. ASSUME UNCHANGED table PROVE IInv'
    BY <1>2, <2>1, <2>2, <2>3, SameKeeps
  <2>4. ASSUME Resolves(h), Enter({p \in Children(h) : disk[p] # "none"}, r) PROVE IInv'
    <3>1. \A p \in Children(h) : p \in Path /\ (joined = 0 => Within(r, p))
      <4>1. \A p \in Children(h) : p \in Named(h, FALSE)
        BY <2>4 DEF Named
      <4> QED  BY <2>4, <4>1, NamedPath
    <3> DEFINE there == {p \in Children(h) : disk[p] # "none"}
    <3>2. there \in SUBSET Path /\ (joined = 0 => \A p \in there : Within(r, p))
      BY <3>1
    <3>3. handles' \subseteq handles \cup there
      BY <2>2
    <3>4. disk' \in [Path -> {"none", "dir", "empty", "data"}]
      BY <1>2
    <3>5. r \in Export /\ Enter(there, r)
      BY <2>4, HandlePath
    <3> HIDE DEF there
    <3> QED  BY <1>2, <2>1, <3>2, <3>3, <3>4, <3>5, EnterKeeps
  <2>5. reply'.op = "READDIR"
    BY <1>4 DEF Readdir, Answer
  <2> QED  BY <1>2, <1>4, <2>3, <2>4, <2>5 DEF Right, AnswersTrue, Changes, Readdir
<1> QED  BY <1>3, <1>4

LEMMA WriteRight ==
    ASSUME IInv, NEW h \in handles, NEW r \in Roots(h), Write(h, r) PROVE Right
<1>1. /\ {h} \in SUBSET (Path \cup {Stale}) /\ h \in Path \cup {Stale} /\ "WRITE" \in Op
      /\ r \in Export \cup {NoRoot}
  BY HandleTyped, RootTyped DEF Op
<1>2. CASE Refuse("WRITE", "ROFS") \/ Refuse("WRITE", "OK")
  BY <1>1, <1>2, RefuseRight
<1>3. ASSUME Resolves(h), ~IsReadOnly(r), NEW n \in {0, 1}, NEW d \in {"data", "empty", disk[h]},
             n = 1 => d = "data", disk' = [disk EXCEPT ![h] = d],
             Answer("WRITE", {h}, r, h, "OK", n), UNCHANGED <<table, handles, joined>>
      PROVE  Right
  <2>1. h \in Path /\ disk \in [Path -> {"none", "dir", "empty", "data"}] /\ joined \in 0..MaxJoined
    BY <1>3, HandlePath DEF IInv, TypeOK
  <2>2. disk' \in [Path -> {"none", "dir", "empty", "data"}]
    BY <1>3, <2>1
  <2>3. IInv'
    <3>1. reply' \in Reply
      BY <1>1, <1>3, AnswerTyped
    <3> QED  BY <1>3, <2>1, <2>2, <3>1, SameKeeps
  <2>4. reply' = [op |-> "WRITE", fhs |-> {h}, root |-> r, path |-> h, status |-> "OK", count |-> n]
    BY <1>3 DEF Answer
  <2>5. AnswersTrue'
    <3>1. disk'[h] = d
      BY <1>3, <2>1
    <3> QED  BY <1>3, <2>4, <3>1 DEF AnswersTrue
  <2>6. Stale \notin reply'.fhs /\ reply'.root \notin ReadOnly
    BY <1>3, <2>1, <2>4, ConstantsAssumption DEF IsReadOnly
  <2>7. Apart /\ joined = 0 => ~Changes(ReadOnly)
    <3>1. \A q \in Path : disk'[q] # disk[q] => Within(q, h)
      BY <1>3, <2>1, WithinSelf
    <3> QED  BY <1>3, <2>1, <3>1, HandlePath, ReachesWritable
  <2> QED  BY <1>3, <2>1, <2>3, <2>5, <2>6, <2>7 DEF Right
<1> QED  BY <1>2, <1>3 DEF Write

\* CREATE and MKDIR: what they make lies at or above the name.
LEMMA MakeRight ==
    ASSUME IInv, NEW h \in handles, NEW r \in Roots(h), Resolves(h), ~IsReadOnly(r),
           NEW out \in BOOLEAN, out => joined < MaxJoined, NEW p \in Named(h, out),
           NEW op \in {"CREATE", "MKDIR"},
           disk' \in [Path -> {"none", "dir", "empty", "data"}],
           \A q \in Path : disk'[q] # disk[q] => Within(q, p),
           Give(op, {h}, r, p, r, out)
    PROVE  Right
<1>1. p \in Path /\ h \in Path /\ r \in Export /\ (~out /\ joined = 0 => Within(r, p))
  BY NamedPath, HandlePath
<1>2. IInv'
  <2>1. {h} \in SUBSET (Path \cup {Stale}) /\ op \in Op
    BY HandleTyped DEF Op
  <2> QED  BY <1>1, <2>1, GiveKeeps
<1>3. reply'.op = op /\ reply'.fhs = {h} /\ reply'.root = r
  BY DEF Give, Answer
<1>4. joined' \in 0..MaxJoined /\ (joined' = 0 => joined = 0 /\ ~out)
  BY JoinsTyped DEF Give
<1>5. Apart /\ ~out /\ joined = 0 => ~Changes(ReadOnly)
  BY <1>1, ReachesWritable
<1> QED  BY <1>1, <1>2, <1>3, <1>4, <1>5, ConstantsAssumption DEF Right, AnswersTrue, IsReadOnly

LEMMA CreateRight ==
    ASSUME IInv, NEW h \in handles, NEW r \in Roots(h), NEW out \in BOOLEAN,
           out => joined < MaxJoined, NEW p \in Named(h, out), Create(h, r, p, out)
    PROVE  Right
<1>1. p \in Path /\ "CREATE" \in Op
  BY NamedPath DEF Op
<1>2. CASE Refuse("CREATE", "ROFS") \/ Refuse("CREATE", "STALE")
  BY <1>1, <1>2, RefuseRight
<1>3. ASSUME Resolves(h), ~IsReadOnly(r), Give("CREATE", {h}, r, p, r, out),
             disk' = disk \/ disk' = [disk EXCEPT ![p] = "empty"]
      PROVE  Right
  <2>1. disk' \in [Path -> {"none", "dir", "empty", "data"}]
    BY <1>3 DEF IInv, TypeOK
  <2>2. \A q \in Path : disk'[q] # disk[q] => Within(q, p)
    BY <1>1, <1>3, WithinSelf DEF IInv, TypeOK
  <2> QED  BY <1>3, <2>1, <2>2, MakeRight
<1> QED  BY <1>2, <1>3 DEF Create, InWritable

LEMMA MkdirRight ==
    ASSUME IInv, NEW h \in handles, NEW r \in Roots(h), NEW out \in BOOLEAN,
           out => joined < MaxJoined, NEW p \in Named(h, out), Mkdir(h, r, p, out)
    PROVE  Right
<1>1. p \in Path /\ "MKDIR" \in Op
  BY NamedPath DEF Op
<1>2. CASE Refuse("MKDIR", "ROFS") \/ Refuse("MKDIR", "STALE")
  BY <1>1, <1>2, RefuseRight
<1>3. ASSUME Resolves(h), ~IsReadOnly(r), Give("MKDIR", {h}, r, p, r, out),
             disk' = disk \/ disk' = DirMade(p)
      PROVE  Right
  <2>1. disk' \in [Path -> {"none", "dir", "empty", "data"}]
    BY <1>3 DEF IInv, TypeOK, DirMade
  <2>2. \A q \in Path : disk'[q] # disk[q] => Within(q, p)
    BY <1>3 DEF DirMade
  <2> QED  BY <1>3, <2>1, <2>2, MakeRight
<1> QED  BY <1>2, <1>3 DEF Mkdir, InWritable

LEMMA UnlinkRight ==
    ASSUME IInv, NEW h \in handles, NEW r \in Roots(h), NEW out \in BOOLEAN,
           out => joined < MaxJoined, NEW p \in Named(h, out), NEW op \in {"REMOVE", "RMDIR"},
           NEW possible, NEW failure \in {"IO", "NOTEMPTY"},
           Unlink(op, h, r, p, out, possible, failure)
    PROVE  Right
<1>1. p \in Path /\ {h} \in SUBSET (Path \cup {Stale}) /\ op \in Op /\ r \in Export \cup {NoRoot}
  BY NamedPath, HandleTyped, RootTyped DEF Op
<1>2. ASSUME NEW status \in {"ROFS", "STALE", "NOENT", "IO", "NOTEMPTY"}, Refuse(op, status)
      PROVE  Right
  BY <1>1, <1>2, RefuseRight
<1>3. ASSUME Resolves(h), ~IsReadOnly(r), disk' = Removed(p), Joins(out),
             Answer(op, {h}, r, p, "OK", 0), UNCHANGED <<table, handles>>
      PROVE  Right
  <2>1. h \in Path /\ (~out /\ joined = 0 => Within(r, p))
    BY <1>3, NamedPath, HandlePath
  <2>2. disk' \in [Path -> {"none", "dir", "empty", "data"}] /\ disk'[p] = "none"
        /\ \A q \in Path : disk'[q] # disk[q] => q = p
    BY <1>1, <1>3 DEF Removed, IInv, TypeOK
  <2>3. joined' \in 0..MaxJoined /\ (joined' = 0 => joined = 0 /\ ~out)
    BY <1>3, JoinsTyped
  <2>4. IInv'
    <3>1. reply' \in Reply
      BY <1>1, <1>3, AnswerTyped
    <3> QED  BY <1>3, <2>2, <2>3, <3>1, SameKeeps
  <2>5. reply' = [op |-> op, fhs |-> {h}, root |-> r, path |-> p, status |-> "OK", count |-> 0]
    BY <1>3 DEF Answer
  <2>6. Apart /\ ~out /\ joined = 0 => ~Changes(ReadOnly)
    BY <1>1, <1>3, <2>1, <2>2, WithinSelf, ReachesWritable
  <2> QED
    BY <1>3, <2>1, <2>2, <2>3, <2>4, <2>5, <2>6, ConstantsAssumption
    DEF Right, AnswersTrue, IsReadOnly
<1> QED  BY <1>2, <1>3 DEF Unlink, InWritable

LEMMA RenameRight ==
    ASSUME IInv, NEW h \in handles, NEW r \in Roots(h), NEW out \in BOOLEAN,
           out => joined < MaxJoined, NEW p \in Named(h, out), NEW to \in handles,
           NEW q \in Named(to, out), Rename(h, r, p, to, q, out)
    PROVE  Right
<1>1. /\ p \in Path /\ {h, to} \in SUBSET (Path \cup {Stale}) /\ "RENAME" \in Op
      /\ r \in Export \cup {NoRoot}
  BY NamedPath, RootTyped DEF Op, IInv, TypeOK
<1>2. q \in Path
  BY DEF Named, Children
<1>3. ASSUME NEW status \in {"ROFS", "STALE", "IO"}, Refuse("RENAME", status)
      PROVE  Right
  BY <1>1, <1>3, RefuseRight
<1>4. ASSUME Resolves(h), Resolves(to), ~IsReadOnly(r), disk' = Moved(p, q), Joins(out),
             Answer("RENAME", {h, to}, r, p, "OK", 0), UNCHANGED <<table, handles>>
      PROVE  Right
  <2>1. joined' \in 0..MaxJoined /\ (joined' = 0 => joined = 0 /\ ~out)
    BY <1>4, JoinsTyped
  <2>2. IInv'
    <3>1. reply' \in Reply
      BY <1>1, <1>4, AnswerTyped
    <3> QED  BY <1>1, <1>2, <1>4, <2>1, <3>1, MovedTyped, SameKeeps
  <2>3. reply'.op = "RENAME" /\ reply'.fhs = {h, to} /\ reply'.root = r
    BY <1>4 DEF Answer
  <2>4. AnswersTrue'
    BY <2>3 DEF AnswersTrue
  <2>5. Stale \notin reply'.fhs /\ reply'.root \notin ReadOnly
    BY <1>4, <2>3 DEF Resolves, IsReadOnly
  <2> QED  BY <2>2, <2>3, <2>4, <2>5 DEF Right
<1> QED  BY <1>3, <1>4 DEF Rename

LEMMA RestartRight == ASSUME IInv, Restart PROVE Right
<1>1. reply' = NoReply /\ NoReply \in Reply
  BY DEF Restart, NoReply, Reply, Op
<1>2. TypeOK'
  BY <1>1, ConstantsAssumption DEF IInv, TypeOK, Restart
<1>3. RootsAbove'
  BY DEF RootsAbove, Restart
<1> QED  BY <1>1, <1>2, <1>3 DEF Right, IInv, AnswersTrue, NoReply, Restart, Changes

LEMMA NextRight == IInv /\ Next => Right
<1> SUFFICES ASSUME IInv, Next PROVE Right
  OBVIOUS
<1>1. CASE \E e \in Export : Mnt(e)
  BY <1>1, MntRight
<1>2. CASE Restart
  BY <1>2, RestartRight
<1>3. ASSUME NEW h \in handles, NEW r \in Roots(h),
             \/ \E op \in Look3 : Look(op, h, r)
             \/ Read(h, r) \/ Readdir(h, r) \/ Setattr(h, r) \/ Unsupported(h, r) \/ Write(h, r)
             \/ \E p \in LookedUp(h, r) : Lookup(h, r, p)
      PROVE  Right
  BY <1>3, LookRight, ReadRight, WriteRight, LookupRight
<1>4. ASSUME NEW h \in handles, NEW r \in Roots(h), NEW out \in BOOLEAN, out => joined < MaxJoined,
             NEW p \in Named(h, out),
             \/ Create(h, r, p, out) \/ Mkdir(h, r, p, out)
             \/ Remove(h, r, p, out) \/ Rmdir(h, r, p, out)
      PROVE  Right
  BY <1>4, CreateRight, MkdirRight, UnlinkRight DEF Remove, Rmdir
<1>5. ASSUME NEW h \in handles, NEW r \in Roots(h), NEW out \in BOOLEAN, out => joined < MaxJoined,
             NEW p \in Named(h, out), NEW to \in handles, NEW q \in Named(to, out),
             Rename(h, r, p, to, q, out)
      PROVE  Right
  BY <1>5, RenameRight
<1>6. ASSUME NEW h \in handles, NEW r \in Roots(h),
             NEW out \in {o \in BOOLEAN : o => joined < MaxJoined}, NEW p \in Named(h, out),
             \/ Create(h, r, p, out) \/ Mkdir(h, r, p, out)
             \/ Remove(h, r, p, out) \/ Rmdir(h, r, p, out)
             \/ \E to \in handles : \E q \in Named(to, out) : Rename(h, r, p, to, q, out)
      PROVE  Right
  <2>1. out \in BOOLEAN /\ (out => joined < MaxJoined)
    OBVIOUS
  <2> QED  BY <1>4, <1>5, <1>6, <2>1
<1> QED  BY <1>1, <1>2, <1>3, <1>6, Zenon DEF Next

LEMMA InitHolds == Init => IInv /\ AnswersTrue
<1> SUFFICES ASSUME Init PROVE IInv /\ AnswersTrue
  OBVIOUS
<1>1. reply \in Reply
  BY DEF Init, NoReply, Reply, Op
<1>2. TypeOK
  BY <1>1, ConstantsAssumption DEF Init, TypeOK
<1> QED  BY <1>2 DEF Init, IInv, RootsAbove, AnswersTrue, NoReply

LEMMA StepHolds == IInv /\ AnswersTrue /\ [Next]_vars => (IInv /\ AnswersTrue)'
<1>1. IInv /\ Next => (IInv /\ AnswersTrue)'
  BY NextRight DEF Right
<1>2. IInv /\ AnswersTrue /\ UNCHANGED vars => (IInv /\ AnswersTrue)'
  BY DEF vars, IInv, TypeOK, RootsAbove, Within, AnswersTrue
<1> QED  BY <1>1, <1>2

\* The handles name paths of exports, and answers are true of the disk: the
\* inductive invariant.
THEOREM AlwaysHolds == Spec => [](IInv /\ AnswersTrue)
BY InitHolds, StepHolds, PTL DEF Spec

\* Every handle a client holds of the present start has its entry, every entry
\* its export, and the tree stays a tree of known things through every move.
THEOREM TypeCorrect == Spec => []TypeOK
<1>1. IInv => TypeOK
  BY DEF IInv
<1> QED  BY <1>1, AlwaysHolds, PTL

\* What REMOVE, RMDIR and WRITE say they did is done.
THEOREM TrueAnswers == Spec => []AnswersTrue
BY AlwaysHolds, PTL

\* A request with a handle of an earlier start changes nothing.
THEOREM StaleIsHarmless == Spec => StaleChangesNothing
<1>1. IInv /\ [Next]_vars => [disk' # disk => Stale \notin reply'.fhs]_vars
  BY NextRight DEF Right
<1> QED  BY <1>1, AlwaysHolds, PTL DEF Spec, StaleChangesNothing

\* Nothing changes through a handle of a read-only export; and where no export lies
\* inside another, only RENAME changes anything below one, as long as requests name
\* children only, whatever the tree and the exports.
THEOREM RenameAlone == Spec => OnlyRenameReachesReadOnly
<1>1. IInv /\ [Next]_vars =>
         [/\ disk' # disk => reply'.root \notin ReadOnly
          /\ Apart /\ Changes(ReadOnly) => reply'.op = "RENAME" \/ joined' > 0]_vars
  BY NextRight DEF Right
<1> QED  BY <1>1, AlwaysHolds, PTL DEF Spec, OnlyRenameReachesReadOnly
=============================================================================
