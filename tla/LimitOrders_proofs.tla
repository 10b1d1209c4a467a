------------------------- MODULE LimitOrders_proofs -------------------------
(***************************************************************************)
(* Proofs about LimitOrders, for any ids, sizes, limits, number of calls   *)
(* and bounds.                                                             *)
(***************************************************************************)
EXTENDS LimitOrders, FiniteSetTheorems, WellFoundedInduction, TLAPS

-----------------------------------------------------------------------------
(* Operators of LocalBook *)

\* An arrangement of ids is a finite list of elements of the set, none twice.
LEMMA ArrangementType ==
  ASSUME NEW S \in SUBSET Ids, NEW list \in Arrangements(S)
  PROVE  /\ list \in Seq(Ids)
         /\ \A i \in DOMAIN list : list[i] \in S
         /\ \A i, j \in DOMAIN list : list[i] = list[j] => i = j
<1>1. IsFiniteSet(S)
  BY FS_Subset, IdsAssumption
<1>2. Cardinality(S) \in Nat
  BY <1>1, FS_CardinalityType
<1>3. list \in [1..Cardinality(S) -> S] /\ IsInjective(list)
  BY DEF Arrangements, Injection
<1> QED
  BY <1>2, <1>3 DEF IsInjective

\* Among the first n ops naming an id there is a last one.
LEMMA LastNaming ==
  ASSUME NEW n \in Nat, NEW S \in SUBSET (1..n), S # {}
  PROVE  \E i \in S : \A j \in S : j <= i
<1> DEFINE T == {k \in Nat : n - k \in S}
           R == OpToRel(<, Nat)
<1>1. \A i \in S : i \in Nat /\ i <= n /\ n - i \in T
  OBVIOUS
<1>2. T \subseteq Nat /\ T # {}
  BY <1>1
<1>3. \E m \in T : \A k \in T : ~ (<<k, m>> \in R)
  <2> HIDE DEF T
  <2> QED
    BY <1>2, NatLessThanWellFounded, WFMin
<1>4. PICK m \in T : \A k \in T : ~ (<<k, m>> \in R)
  BY <1>3
<1>5. \A k \in T : m <= k
  <2> SUFFICES ASSUME NEW k \in T, k < m
               PROVE  FALSE
    BY <1>2
  <2>1. <<k, m>> \in Nat \X Nat /\ <<k, m>>[1] < <<k, m>>[2]
    BY <1>2
  <2> QED
    BY <2>1, <1>4 DEF OpToRel
<1>6. \A j \in S : j <= n - m
  <2> SUFFICES ASSUME NEW j \in S
               PROVE  j <= n - m
    OBVIOUS
  <2>1. m \in Nat /\ j \in Nat /\ m <= n - j
    BY <1>1, <1>5
  <2> QED
    BY <2>1
<1> QED
  BY <1>6

\* Ops applied to a book of sizes leave a book of sizes.
LEMMA AfterOpsType ==
  ASSUME NEW book \in Levels, NEW ops \in Seq(LevelOp), NEW n \in 0..Len(ops)
  PROVE  AfterOps(book, ops, n) \in Levels
<1> SUFFICES ASSUME NEW id \in Ids
             PROVE  AfterOps(book, ops, n)[id] \in Size
  BY DEF AfterOps, Levels
<1>1. CASE ~ \E i \in 1..n : ops[i].id = id
  BY <1>1 DEF AfterOps, Levels
<1>2. CASE \E i \in 1..n : ops[i].id = id
  <2> DEFINE P(i) == ops[i].id = id /\ \A j \in 1..n : ops[j].id = id => j <= i
             last == CHOOSE i \in 1..n : P(i)
  <2>1. \E i \in 1..n : P(i)
    <3> DEFINE S == {i \in 1..n : ops[i].id = id}
    <3>1. S \in SUBSET (1..n) /\ S # {} /\ n \in Nat
      BY <1>2
    <3>2. \E i \in S : \A j \in S : j <= i
      <4> HIDE DEF S
      <4> QED
        BY <3>1, LastNaming
    <3> QED
      BY <3>2
  <2>2. last \in 1..n
    BY <2>1
  <2>3. AfterOps(book, ops, n)[id] = ops[last].new
    BY <1>2 DEF AfterOps
  <2> QED
    <3> HIDE DEF last
    <3>1. ops[last] \in LevelOp
      BY <2>2
    <3> QED
      BY <2>3, <3>1 DEF LevelOp
<1> QED
  BY <1>1, <1>2

\* An op that no earlier op shadows meets the size the book started with.
LEMMA FirstNaming ==
  ASSUME NEW book \in Levels, NEW ops \in Seq(LevelOp), NEW i \in DOMAIN ops,
         \A j, k \in DOMAIN ops : ops[j].id = ops[k].id => j = k
  PROVE  AfterOps(book, ops, i - 1)[ops[i].id] = book[ops[i].id]
<1>1. ops[i].id \in Ids
  <2>1. ops[i] \in LevelOp
    OBVIOUS
  <2> QED
    BY <2>1 DEF LevelOp
<1>2. ~ \E j \in 1..(i - 1) : ops[j].id = ops[i].id
  OBVIOUS
<1> QED
  BY <1>1, <1>2 DEF AfterOps

\* A nonempty list of ops takes at least one chunk.
LEMMA NumChunksType ==
  ASSUME NEW ops \in Seq(LevelOp)
  PROVE  /\ NumChunks(ops) \in Nat
         /\ ops # <<>> => NumChunks(ops) >= 1
<1> DEFINE a == Len(ops) + MAX_LEVEL_OPS - 1
           q == a \div MAX_LEVEL_OPS
<1>1. MAX_LEVEL_OPS \in Nat /\ MAX_LEVEL_OPS > 0 /\ Len(ops) \in Nat
  BY LimitsAssumption
<1>2. a \in Nat /\ q \in Int
  BY <1>1
<1>3. a < MAX_LEVEL_OPS * (q + 1) /\ MAX_LEVEL_OPS * q <= a
  BY <1>1, <1>2
<1>4. q >= 0
  BY <1>1, <1>2, <1>3
<1>5. ASSUME ops # <<>> PROVE q >= 1
  <2>1. a >= MAX_LEVEL_OPS
    BY <1>1, <1>5
  <2> QED
    BY <1>1, <1>2, <1>3, <2>1
<1> QED
  BY <1>2, <1>4, <1>5 DEF NumChunks

\* The registry books of the chunks are sets of books of the market.
LEMMA ChunkBooksType ==
  ASSUME NEW ops \in Seq(LevelOp), NEW books \in SUBSET Books
  PROVE  ChunkBooks(ops, books, Me) \in Seq(SUBSET Books)
<1>1. ChunkBooks(ops, books, Me) \in [1..NumChunks(ops) -> SUBSET Books]
  BY ActorsAssumption DEF ChunkBooks
<1> QED
  BY <1>1, NumChunksType

-----------------------------------------------------------------------------
(* What each builder emits: typed ops derived from the snapshot *)

\* build_place.
LEMMA PlaceOpsFrom ==
  ASSUME NEW book \in Levels, NEW want \in Levels,
         NEW list \in Arrangements(Resting(want)), PlacesOk(book, list, want)
  PROVE  PlaceOps(list, want) \in Seq(LevelOp) /\ OpsFrom(book, PlaceOps(list, want))
<1> DEFINE ops == PlaceOps(list, want)
<1>1. /\ list \in Seq(Ids)
      /\ \A i, j \in DOMAIN list : list[i] = list[j] => i = j
  BY ArrangementType DEF Resting
<1>2. /\ ops \in Seq(LevelOp)
      /\ DOMAIN ops = DOMAIN list
      /\ \A i \in DOMAIN list : ops[i].id = list[i] /\ ops[i].expected = 0
  <2>1. \A id \in Ids : PlaceOp(id, want[id]) \in LevelOp
    BY SizeAssumption DEF PlaceOp, LevelOp, Levels, Size
  <2>2. \A i \in DOMAIN list : list[i] \in Ids
    BY <1>1
  <2>3. /\ DOMAIN ops = DOMAIN list
        /\ \A i \in DOMAIN list : ops[i] = PlaceOp(list[i], want[list[i]])
    BY DEF PlaceOps
  <2>4. ops \in Seq(LevelOp)
    BY <1>1, <2>1, <2>2 DEF PlaceOps
  <2> QED
    BY <2>3, <2>4 DEF PlaceOp
<1>3. \A i, j \in DOMAIN ops : ops[i].id = ops[j].id => i = j
  BY <1>1, <1>2
<1>4. ASSUME NEW i \in DOMAIN ops PROVE ops[i].expected = book[ops[i].id]
  <2>1. AfterOps(book, ops, i - 1)[ops[i].id] = book[ops[i].id]
    BY <1>2, <1>3, FirstNaming
  <2>2. AfterOps(book, ops, i - 1)[list[i]] = 0
    BY <1>2 DEF PlacesOk, CanPlace
  <2> QED
    BY <1>2, <2>1, <2>2
<1> QED
  BY <1>2, <1>3, <1>4 DEF OpsFrom

\* build_cancel.
LEMMA CancelOpsFrom ==
  ASSUME NEW book \in Levels, NEW S \in SUBSET Ids, NEW list \in Arrangements(S),
         NEW mode \in CancelMode
  PROVE  /\ CancelOps(book, list, mode) \in Seq(LevelOp)
         /\ OpsFrom(book, CancelOps(book, list, mode))
         /\ \A i \in DOMAIN CancelOps(book, list, mode) :
              CancelOps(book, list, mode)[i].id \in S
<1> DEFINE ops == CancelOps(book, list, mode)
<1>1. /\ list \in Seq(Ids)
      /\ \A i \in DOMAIN list : list[i] \in S
      /\ \A i, j \in DOMAIN list : list[i] = list[j] => i = j
  BY ArrangementType
<1>2. \A id \in Ids :
        /\ CancelOp(book, id, mode) \in LevelOp
        /\ CancelOp(book, id, mode).id = id
        /\ \/ CancelOp(book, id, mode).expected = book[id]
           \/ CancelOp(book, id, mode) = CancelAnyOp(id)
  BY SizeAssumption DEF CancelOp, CancelAnyOp, ResizeOp, LevelOp, Levels, Size
<1>3. /\ DOMAIN ops = DOMAIN list
      /\ \A i \in DOMAIN list : list[i] \in Ids /\ ops[i] = CancelOp(book, list[i], mode)
  BY <1>1 DEF CancelOps
<1>4. ops \in Seq(LevelOp)
  BY <1>1, <1>2, <1>3 DEF CancelOps
<1> QED
  BY <1>1, <1>2, <1>3, <1>4 DEF OpsFrom

\* build_modify.
LEMMA ModifyOpsFrom ==
  ASSUME NEW book \in Levels, NEW id \in Ids, NEW new_id \in Ids,
         NEW new_size \in Size, NEW mode \in CancelMode,
         ModifyOk(book, id, new_id, new_size)
  PROVE  /\ ModifyOps(book, id, new_id, new_size, mode) \in Seq(LevelOp)
         /\ OpsFrom(book, ModifyOps(book, id, new_id, new_size, mode))
<1> DEFINE cancel == CancelOp(book, id, mode)
           place == PlaceOp(new_id, new_size)
           resize == ResizeOp(id, book[id], new_size)
<1>1. /\ cancel \in LevelOp /\ cancel.id = id
      /\ cancel.expected = book[id] \/ cancel = CancelAnyOp(id)
  BY SizeAssumption DEF CancelOp, CancelAnyOp, ResizeOp, LevelOp, Levels, Size
<1>2. place \in LevelOp /\ place.id = new_id /\ place.expected = 0
  BY SizeAssumption DEF PlaceOp, LevelOp, Size
<1>3. resize \in LevelOp /\ resize.id = id /\ resize.expected = book[id]
  BY DEF ResizeOp, LevelOp, Levels
<1> HIDE DEF cancel, place, resize
<1>4. CASE new_id = id
  <2>1. ModifyOps(book, id, new_id, new_size, mode) = <<resize>>
    BY <1>4 DEF ModifyOps, resize
  <2> QED
    BY <1>3, <2>1 DEF OpsFrom
<1>5. CASE new_id # id /\ new_size = 0
  <2>1. ModifyOps(book, id, new_id, new_size, mode) = <<cancel>>
    BY <1>5 DEF ModifyOps, cancel
  <2> QED
    BY <1>1, <2>1 DEF OpsFrom
<1>6. CASE new_id # id /\ new_size # 0
  <2>1. ModifyOps(book, id, new_id, new_size, mode) = <<cancel, place>>
    BY <1>6 DEF ModifyOps, cancel, place
  <2>2. book[new_id] = 0
    <3>1. new_size > 0
      BY <1>6, SizeAssumption DEF Size
    <3>2. [book EXCEPT ![id] = 0][new_id] = 0
      BY <1>6, <3>1 DEF ModifyOk, CanPlace
    <3> QED
      BY <1>6, <3>2 DEF Levels
  <2> QED
    BY <1>1, <1>2, <1>6, <2>1, <2>2 DEF OpsFrom
<1> QED
  BY <1>4, <1>5, <1>6

\* Two lists of ops on disjoint sets of ids, one after the other.
LEMMA ConcatOpsFrom ==
  ASSUME NEW book \in Levels, NEW A \in SUBSET Ids, NEW B \in SUBSET Ids,
         A \cap B = {},
         NEW f \in Seq(LevelOp), NEW g \in Seq(LevelOp),
         OpsFrom(book, f), OpsFrom(book, g),
         \A i \in DOMAIN f : f[i].id \in A,
         \A i \in DOMAIN g : g[i].id \in B
  PROVE  /\ f \o g \in Seq(LevelOp)
         /\ OpsFrom(book, f \o g)
         /\ \A i \in DOMAIN (f \o g) : (f \o g)[i].id \in A \cup B
<1> DEFINE h == f \o g
<1>1. /\ h \in Seq(LevelOp)
      /\ Len(h) = Len(f) + Len(g)
      /\ \A i \in 1..Len(h) : h[i] = IF i <= Len(f) THEN f[i] ELSE g[i - Len(f)]
  OBVIOUS
<1> HIDE DEF h
<1>2. ASSUME NEW i \in DOMAIN h
      PROVE  \/ i \in DOMAIN f /\ h[i] = f[i]
             \/ i - Len(f) \in DOMAIN g /\ i > Len(f) /\ h[i] = g[i - Len(f)]
  BY <1>1
<1>3. \A i \in DOMAIN h : h[i].id \in A \cup B
  BY <1>2
<1>4. \A i \in DOMAIN h : h[i].expected = book[h[i].id] \/ h[i] = CancelAnyOp(h[i].id)
  BY <1>2 DEF OpsFrom
<1>5. ASSUME NEW i \in DOMAIN h, NEW j \in DOMAIN h, h[i].id = h[j].id
      PROVE  i = j
  <2>1. CASE i \in DOMAIN f /\ h[i] = f[i] /\ j \in DOMAIN f /\ h[j] = f[j]
    BY <1>5, <2>1 DEF OpsFrom
  <2>2. CASE /\ i - Len(f) \in DOMAIN g /\ h[i] = g[i - Len(f)]
             /\ j - Len(f) \in DOMAIN g /\ h[j] = g[j - Len(f)]
    <3>1. i - Len(f) = j - Len(f)
      BY <1>5, <2>2 DEF OpsFrom
    <3> QED
      BY <1>1, <3>1
  <2>3. CASE i \in DOMAIN f /\ h[i] = f[i] /\ j - Len(f) \in DOMAIN g /\ h[j] = g[j - Len(f)]
    BY <1>5, <2>3
  <2>4. CASE j \in DOMAIN f /\ h[j] = f[j] /\ i - Len(f) \in DOMAIN g /\ h[i] = g[i - Len(f)]
    BY <1>5, <2>4
  <2> QED
    BY <1>2, <2>1, <2>2, <2>3, <2>4
<1> QED
  BY <1>1, <1>3, <1>4, <1>5 DEF OpsFrom, h

\* diff_to: cancels, resizes and places name disjoint ids.
LEMMA DiffOpsFrom ==
  ASSUME NEW book \in Levels, NEW want \in Levels, NEW mode \in CancelMode,
         NEW cancels \in Arrangements(ToCancel(book, want)),
         NEW resizes \in Arrangements(ToResize(book, want)),
         NEW places \in Arrangements(ToPlace(book, want))
  PROVE  /\ DiffOps(book, want, mode, cancels, resizes, places) \in Seq(LevelOp)
         /\ OpsFrom(book, DiffOps(book, want, mode, cancels, resizes, places))
<1> DEFINE C == ToCancel(book, want)
           R == ToResize(book, want)
           P == ToPlace(book, want)
           c == CancelOps(book, cancels, mode)
           r == ResizeOps(book, resizes, want)
           p == PlaceOps(places, want)
<1>1. /\ C \in SUBSET Ids /\ R \in SUBSET Ids /\ P \in SUBSET Ids
      /\ C \cap R = {} /\ (C \cup R) \cap P = {}
      /\ \A id \in P : book[id] = 0
  BY SizeAssumption DEF ToCancel, ToResize, ToPlace, Resting, Levels, Size
<1>2. c \in Seq(LevelOp) /\ OpsFrom(book, c) /\ \A i \in DOMAIN c : c[i].id \in C
  BY <1>1, CancelOpsFrom
<1>3. r \in Seq(LevelOp) /\ OpsFrom(book, r) /\ \A i \in DOMAIN r : r[i].id \in R
  <2>1. /\ resizes \in Seq(Ids)
        /\ \A i \in DOMAIN resizes : resizes[i] \in R
        /\ \A i, j \in DOMAIN resizes : resizes[i] = resizes[j] => i = j
    BY <1>1, ArrangementType
  <2>2. \A id \in Ids : ResizeOp(id, book[id], want[id]) \in LevelOp
    BY DEF ResizeOp, LevelOp, Levels
  <2>3. /\ DOMAIN r = DOMAIN resizes
        /\ \A i \in DOMAIN resizes : /\ resizes[i] \in Ids
                                     /\ r[i] = ResizeOp(resizes[i], book[resizes[i]], want[resizes[i]])
    BY <2>1 DEF ResizeOps
  <2>4. r \in Seq(LevelOp)
    BY <2>1, <2>2, <2>3 DEF ResizeOps
  <2> QED
    BY <2>1, <2>3, <2>4 DEF OpsFrom, ResizeOp
<1>4. p \in Seq(LevelOp) /\ OpsFrom(book, p) /\ \A i \in DOMAIN p : p[i].id \in P
  <2>1. /\ places \in Seq(Ids)
        /\ \A i \in DOMAIN places : places[i] \in P
        /\ \A i, j \in DOMAIN places : places[i] = places[j] => i = j
    BY <1>1, ArrangementType
  <2>2. \A id \in Ids : PlaceOp(id, want[id]) \in LevelOp
    BY SizeAssumption DEF PlaceOp, LevelOp, Levels, Size
  <2>3. /\ DOMAIN p = DOMAIN places
        /\ \A i \in DOMAIN places : /\ places[i] \in Ids /\ book[places[i]] = 0
                                    /\ p[i] = PlaceOp(places[i], want[places[i]])
    BY <1>1, <2>1 DEF PlaceOps
  <2>4. p \in Seq(LevelOp)
    BY <2>1, <2>2, <2>3 DEF PlaceOps
  <2> QED
    BY <2>1, <2>3, <2>4 DEF OpsFrom, PlaceOp
<1> HIDE DEF C, R, P, c, r, p
<1>5. /\ c \o r \in Seq(LevelOp) /\ OpsFrom(book, c \o r)
      /\ \A i \in DOMAIN (c \o r) : (c \o r)[i].id \in C \cup R
  BY <1>1, <1>2, <1>3, ConcatOpsFrom
<1>6. (c \o r) \o p \in Seq(LevelOp) /\ OpsFrom(book, (c \o r) \o p)
  <2> DEFINE cr == c \o r
             CR == C \cup R
  <2>1. /\ CR \in SUBSET Ids /\ CR \cap P = {} /\ cr \in Seq(LevelOp)
        /\ OpsFrom(book, cr) /\ \A i \in DOMAIN cr : cr[i].id \in CR
    BY <1>1, <1>5
  <2> HIDE DEF cr, CR
  <2>2. cr \o p \in Seq(LevelOp) /\ OpsFrom(book, cr \o p)
    BY <1>1, <1>4, <2>1, ConcatOpsFrom
  <2> QED
    BY <2>2 DEF cr
<1> QED
  BY <1>6 DEF DiffOps, c, r, p

-----------------------------------------------------------------------------
(* The invariant, action by action *)

\* Every build that sends level ops sends ones derived from the snapshot.
LEMMA BuildSends ==
  ASSUME TypeOK, NEW t \in Tasks,
         BuildPlace(t) \/ BuildModify(t) \/ BuildCancel(t) \/ BuildReplaceAll(t)
  PROVE  /\ pc[t] = "ready"
         /\ \E ops \in Seq(LevelOp) :
              OpsFrom(snap[t].levels, ops) /\ SendOps(t, ops)
<1>1. snap[t].levels \in Levels
  BY DEF TypeOK, Snapshot
<1>2. CASE BuildPlace(t)
  <2>1. PICK want \in Levels :
          \E list \in Arrangements(Resting(want)) :
            /\ PlacesOk(snap[t].levels, list, want)
            /\ SendOps(t, PlaceOps(list, want))
    BY <1>2 DEF BuildPlace
  <2>2. PICK list \in Arrangements(Resting(want)) :
          /\ PlacesOk(snap[t].levels, list, want)
          /\ SendOps(t, PlaceOps(list, want))
    BY <2>1
  <2>3. /\ PlaceOps(list, want) \in Seq(LevelOp)
        /\ OpsFrom(snap[t].levels, PlaceOps(list, want))
    BY <1>1, <2>2, PlaceOpsFrom
  <2> QED
    BY <1>2, <2>2, <2>3 DEF BuildPlace
<1>3. CASE BuildModify(t)
  <2>1. PICK id \in Ids, new_id \in Ids, new_size \in Size, mode \in Modes :
          /\ ModifyOk(snap[t].levels, id, new_id, new_size)
          /\ SendOps(t, ModifyOps(snap[t].levels, id, new_id, new_size, mode))
    BY <1>3 DEF BuildModify
  <2>2. mode \in CancelMode
    BY ActorsAssumption
  <2>3. /\ ModifyOps(snap[t].levels, id, new_id, new_size, mode) \in Seq(LevelOp)
        /\ OpsFrom(snap[t].levels, ModifyOps(snap[t].levels, id, new_id, new_size, mode))
    BY <1>1, <2>1, <2>2, ModifyOpsFrom
  <2> QED
    BY <1>3, <2>1, <2>3 DEF BuildModify
<1>4. CASE BuildCancel(t)
  <2>1. PICK S \in SUBSET Resting(snap[t].levels), mode \in Modes :
          \E list \in Arrangements(S) :
            SendOps(t, CancelOps(snap[t].levels, list, mode))
    BY <1>4 DEF BuildCancel
  <2>2. PICK list \in Arrangements(S) : SendOps(t, CancelOps(snap[t].levels, list, mode))
    BY <2>1
  <2>3. mode \in CancelMode /\ S \in SUBSET Ids
    BY ActorsAssumption DEF Resting
  <2>4. /\ CancelOps(snap[t].levels, list, mode) \in Seq(LevelOp)
        /\ OpsFrom(snap[t].levels, CancelOps(snap[t].levels, list, mode))
    BY <1>1, <2>3, CancelOpsFrom
  <2> QED
    BY <1>4, <2>2, <2>4 DEF BuildCancel
<1>5. CASE BuildReplaceAll(t)
  <2>1. PICK want \in Levels, mode \in Modes :
          \E cancels \in Arrangements(ToCancel(snap[t].levels, want)),
             resizes \in Arrangements(ToResize(snap[t].levels, want)),
             places \in Arrangements(ToPlace(snap[t].levels, want)) :
               SendOps(t, DiffOps(snap[t].levels, want, mode, cancels, resizes, places))
    BY <1>5 DEF BuildReplaceAll
  <2>2. PICK cancels \in Arrangements(ToCancel(snap[t].levels, want)),
             resizes \in Arrangements(ToResize(snap[t].levels, want)),
             places \in Arrangements(ToPlace(snap[t].levels, want)) :
               SendOps(t, DiffOps(snap[t].levels, want, mode, cancels, resizes, places))
    BY <2>1
  <2>3. mode \in CancelMode
    BY ActorsAssumption
  <2>4. /\ DiffOps(snap[t].levels, want, mode, cancels, resizes, places) \in Seq(LevelOp)
        /\ OpsFrom(snap[t].levels,
                   DiffOps(snap[t].levels, want, mode, cancels, resizes, places))
    BY <1>1, <2>3, DiffOpsFrom
  <2> QED
    BY <1>5, <2>2, <2>4 DEF BuildReplaceAll
<1> QED
  BY <1>2, <1>3, <1>4, <1>5

\* The initial state satisfies the invariant.
LEMMA InitInv == Init => IInv
<1> SUFFICES ASSUME Init PROVE IInv
  OBVIOUS
<1>1. EmptyBook \in Levels /\ EmptyBook \in [Ids -> Nat]
  BY SizeAssumption DEF EmptyBook, Levels, Size
<1>2. NoSnap \in Snapshot /\ NoTx \in Tx
  BY <1>1 DEF NoSnap, Snapshot, NoTx, Tx, Kinds
<1>3. TypeOK
  BY <1>1, <1>2 DEF Init, TypeOK
<1>4. ReadsAreHistory
  BY DEF Init, ReadsAreHistory, TxFromSnap, SnapOfChain
<1> QED
  BY <1>3, <1>4 DEF IInv

\* Ending a call keeps the calls' types.
LEMMA FinishType ==
  ASSUME TypeOK, NEW t \in Tasks, Finish(t)
  PROVE  /\ pc' \in [Tasks -> {"idle", "book", "ready", "sent"}]
         /\ snap' \in [Tasks -> Snapshot] /\ reg' \in [Tasks -> SUBSET Books]
         /\ tx' \in [Tasks -> Tx] /\ filled' \in [Tasks -> [Ids -> Nat]]
<1>1. EmptyBook \in Levels /\ EmptyBook \in [Ids -> Nat]
  BY SizeAssumption DEF EmptyBook, Levels, Size
<1>2. NoSnap \in Snapshot /\ NoTx \in Tx
  BY <1>1 DEF NoSnap, Snapshot, NoTx, Tx, Kinds
<1> QED
  BY <1>1, <1>2 DEF Finish, TypeOK

\* What landing level ops does to the chain, spelled out.
LEMMA LandOpsFacts ==
  ASSUME TypeOK, NEW t \in Tasks, LandOps(t)
  PROVE  /\ Finish(t) /\ pc[t] = "sent" /\ tx[t].kind = "ops"
         /\ tx[t].ops \in Seq(LevelOp) /\ BaseLevels(tx[t]) \in Levels
         /\ tx[t].init = ~exists
         /\ BaseSeq(tx[t]) < tx[t].seq
         /\ \A i \in DOMAIN tx[t].ops :
              tx[t].ops[i].expected \in
                {LEVEL_OP_EXPECTED_ANY,
                 AfterOps(BaseLevels(tx[t]), tx[t].ops, i - 1)[tx[t].ops[i].id]}
         /\ exists' = TRUE
         /\ epoch' = IF tx[t].init THEN epoch + 1 ELSE epoch
         /\ levels' = AfterOps(BaseLevels(tx[t]), tx[t].ops, Len(tx[t].ops))
         /\ seq' = tx[t].seq + NumChunks(tx[t].ops) - 1
         /\ seats' \in SUBSET Books
<1>1. tx[t] \in Tx
  BY DEF TypeOK
<1>2. tx[t].ops \in Seq(LevelOp)
  BY <1>1 DEF Tx
<1>3. BaseLevels(tx[t]) \in Levels
  BY SizeAssumption DEF BaseLevels, TypeOK, EmptyBook, Levels, Size
<1>4. PICK s \in IF MaySeat(tx[t].ops) THEN SeatOutcomes ELSE {seats} :
        OpsAccepted(tx[t], s) /\ seats' = s
  BY DEF LandOps
<1>5. s \in SUBSET Books
  BY <1>4, ActorsAssumption DEF SeatOutcomes, TypeOK
<1>6. /\ tx[t].init = ~exists
      /\ BaseSeq(tx[t]) < tx[t].seq
      /\ \A i \in 1..Len(tx[t].ops) :
           tx[t].ops[i].expected \in
             {LEVEL_OP_EXPECTED_ANY,
              AfterOps(BaseLevels(tx[t]), tx[t].ops, i - 1)[tx[t].ops[i].id]}
  BY <1>4 DEF OpsAccepted, SeqOk
<1>7. DOMAIN tx[t].ops = 1..Len(tx[t].ops)
  BY <1>2
<1> QED
  BY <1>2, <1>3, <1>4, <1>5, <1>6, <1>7 DEF LandOps

\* Every step keeps the types.
LEMMA NextType == TypeOK /\ [Next]_vars => TypeOK'
<1> SUFFICES ASSUME TypeOK, [Next]_vars PROVE TypeOK'
  OBVIOUS
<1>1. ASSUME NEW t \in Tasks, ReadBook(t) PROVE TypeOK'
  <2>1. EmptyBook \in [Ids -> Nat]
    BY DEF EmptyBook
  <2>2. [exists |-> exists, epoch |-> epoch, levels |-> levels, seq |-> seq] \in Snapshot
    BY DEF TypeOK, Snapshot
  <2> QED
    BY <1>1, <2>1, <2>2 DEF ReadBook, TypeOK, chain
<1>2. ASSUME NEW t \in Tasks, ReadRegistry(t) PROVE TypeOK'
  BY <1>2 DEF ReadRegistry, TypeOK, chain
<1>3. ASSUME NEW t \in Tasks, GiveUp(t) \/ Reject(t) PROVE TypeOK'
  <2>1. Finish(t) /\ UNCHANGED chain
    BY <1>3 DEF GiveUp, Reject
  <2> QED
    BY <2>1, FinishType DEF TypeOK, chain
<1>4. ASSUME NEW t \in Tasks, NEW trans \in Tx, Send(t, trans) PROVE TypeOK'
  BY <1>4 DEF Send, TypeOK, chain
<1>5. ASSUME NEW t \in Tasks,
             BuildPlace(t) \/ BuildModify(t) \/ BuildCancel(t) \/ BuildReplaceAll(t)
      PROVE  TypeOK'
  <2>1. PICK ops \in Seq(LevelOp) : SendOps(t, ops)
    BY <1>5, BuildSends
  <2> DEFINE trans == [kind |-> "ops", init |-> ~snap[t].exists, ops |-> ops,
                       books |-> ChunkBooks(ops, reg[t], Me), seq |-> snap[t].seq + 1]
  <2>2. snap[t] \in Snapshot /\ reg[t] \in SUBSET Books
    BY DEF TypeOK
  <2>3. ChunkBooks(ops, reg[t], Me) \in Seq(SUBSET Books)
    BY <2>2, ChunkBooksType
  <2>4. snap[t].seq + 1 \in Nat /\ (~snap[t].exists) \in BOOLEAN
    BY <2>2 DEF Snapshot
  <2>5. trans \in Tx
    BY <2>3, <2>4 DEF Tx, Kinds
  <2>6. Send(t, trans)
    BY <2>1 DEF SendOps
  <2> HIDE DEF trans
  <2> QED
    BY <1>4, <2>5, <2>6
<1>6. ASSUME NEW t \in Tasks, BuildCancelAll(t) \/ BuildClose(t) PROVE TypeOK'
  <2>1. PICK kind \in {"clear", "close"} : SendClear(t, kind)
    BY <1>6 DEF BuildCancelAll, BuildClose
  <2> DEFINE trans == [kind |-> kind, init |-> FALSE, ops |-> <<>>, books |-> <<>>,
                       seq |-> snap[t].seq + 1]
  <2>2. trans \in Tx
    BY DEF TypeOK, Snapshot, Tx, Kinds
  <2>3. Send(t, trans)
    BY <2>1 DEF SendClear
  <2> HIDE DEF trans
  <2> QED
    BY <1>4, <2>2, <2>3
<1>7. ASSUME NEW t \in Tasks, LandOps(t) PROVE TypeOK'
  <2> DEFINE ops == tx[t].ops
             base == BaseLevels(tx[t])
  <2>1. /\ Finish(t) /\ ops \in Seq(LevelOp) /\ base \in Levels
        /\ BaseSeq(tx[t]) < tx[t].seq
        /\ exists' = TRUE
        /\ epoch' = IF tx[t].init THEN epoch + 1 ELSE epoch
        /\ levels' = AfterOps(base, ops, Len(ops))
        /\ seq' = tx[t].seq + NumChunks(ops) - 1
        /\ seats' \in SUBSET Books
    BY <1>7, LandOpsFacts
  <2>2. tx[t].seq \in Nat /\ BaseSeq(tx[t]) \in Nat
    BY DEF TypeOK, Tx, BaseSeq
  <2> HIDE DEF ops, base
  <2>3. levels' \in Levels
    BY <2>1, AfterOpsType, Len(ops) \in 0..Len(ops)
  <2>4. seq' \in Nat
    BY <2>1, <2>2, NumChunksType
  <2>5. exists' \in BOOLEAN /\ epoch' \in Nat
    BY <2>1 DEF TypeOK
  <2>6. /\ pc' \in [Tasks -> {"idle", "book", "ready", "sent"}]
        /\ snap' \in [Tasks -> Snapshot] /\ reg' \in [Tasks -> SUBSET Books]
        /\ tx' \in [Tasks -> Tx] /\ filled' \in [Tasks -> [Ids -> Nat]]
    BY <2>1, FinishType
  <2> QED
    BY <2>1, <2>3, <2>4, <2>5, <2>6 DEF TypeOK
<1>8. ASSUME NEW t \in Tasks, LandClear(t) \/ LandClose(t) PROVE TypeOK'
  <2>1. EmptyBook \in Levels
    BY SizeAssumption DEF EmptyBook, Levels, Size
  <2>2. /\ Finish(t) /\ levels' = EmptyBook /\ seq' \in {tx[t].seq, 0}
        /\ exists' \in {exists, FALSE} /\ epoch' = epoch /\ seats' = seats
    BY <1>8 DEF LandClear, LandClose
  <2>3. seq' \in Nat /\ exists' \in BOOLEAN
    <3>1. tx[t].seq \in Nat /\ exists \in BOOLEAN
      BY DEF TypeOK, Tx
    <3>2. seq' \in Nat
      BY <2>2, <3>1
    <3>3. exists' \in BOOLEAN
      BY <2>2, <3>1, Zenon
    <3> QED
      BY <3>2, <3>3
  <2>4. /\ pc' \in [Tasks -> {"idle", "book", "ready", "sent"}]
        /\ snap' \in [Tasks -> Snapshot] /\ reg' \in [Tasks -> SUBSET Books]
        /\ tx' \in [Tasks -> Tx] /\ filled' \in [Tasks -> [Ids -> Nat]]
    BY <2>2, FinishType
  <2> QED
    BY <2>1, <2>2, <2>3, <2>4 DEF TypeOK
<1>9. ASSUME NEW id \in Ids, NEW n \in 1..MaxSize, Fill(id, n) PROVE TypeOK'
  <2>1. levels[id] \in Size /\ n \in 1..levels[id]
    BY <1>9 DEF Fill, TypeOK, Levels
  <2>2. levels[id] - n \in Size
    BY <2>1, SizeAssumption DEF Size
  <2>3. levels' \in Levels
    BY <1>9, <2>2 DEF Fill, TypeOK, Levels
  <2>4. filled' \in [Tasks -> [Ids -> Nat]]
    BY <1>9, <2>1 DEF Fill, TypeOK
  <2> QED
    BY <1>9, <2>3, <2>4 DEF Fill, TypeOK
<1>10. ASSUME NEW S \in SUBSET Books, ChangeRegistry(S) PROVE TypeOK'
  BY <1>10 DEF ChangeRegistry, TypeOK, calls
<1>11. CASE UNCHANGED vars
  BY <1>11 DEF vars, chain, calls, TypeOK
<1> QED
  BY <1>1, <1>2, <1>3, <1>5, <1>6, <1>7, <1>8, <1>9, <1>10, <1>11 DEF Next

\* The state keeps its type for any number of calls and any book, so every
\* size on the book and in a transaction in flight is one a caller asked for.
THEOREM TypeCorrect == Spec => []TypeOK
<1>1. Init => TypeOK
  BY InitInv DEF IInv
<1> QED
  BY <1>1, NextType, PTL DEF Spec

-----------------------------------------------------------------------------
(* The history invariant, action by action *)

\* Ending one call leaves the others' reads and transactions alone.
LEMMA FinishOthers ==
  ASSUME TypeOK, NEW t \in Tasks, Finish(t), NEW u \in Tasks
  PROVE  \/ pc'[u] = "idle"
         \/ /\ u # t
            /\ pc'[u] = pc[u] /\ snap'[u] = snap[u] /\ tx'[u] = tx[u]
            /\ filled'[u] = filled[u]
BY DEF Finish, TypeOK

\* Steps that leave the chain alone and end a call.
LEMMA FinishInv ==
  ASSUME IInv, NEW t \in Tasks, Finish(t), UNCHANGED chain
  PROVE  ReadsAreHistory'
<1>1. (~exists => levels = EmptyBook /\ seq = 0)'
  BY DEF IInv, ReadsAreHistory, chain
<1>2. ASSUME NEW u \in Tasks PROVE (TxFromSnap(u) /\ SnapOfChain(u))'
  <2>1. TypeOK /\ TxFromSnap(u) /\ SnapOfChain(u)
    BY DEF IInv, ReadsAreHistory
  <2>2. CASE pc'[u] = "idle"
    BY <2>2 DEF TxFromSnap, SnapOfChain
  <2>3. CASE /\ pc'[u] = pc[u] /\ snap'[u] = snap[u] /\ tx'[u] = tx[u]
             /\ filled'[u] = filled[u]
    BY <2>1, <2>3 DEF TxFromSnap, SnapOfChain, SameBook, chain
  <2> QED
    BY <2>1, <2>2, <2>3, FinishOthers
<1> QED
  BY <1>1, <1>2 DEF ReadsAreHistory

\* Steps that send a transaction built from the call's snapshot.
LEMMA SendInv ==
  ASSUME IInv, NEW t \in Tasks, pc[t] # "idle", NEW trans \in Tx, Send(t, trans),
         trans.seq = snap[t].seq + 1,
         trans.init = ~snap[t].exists,
         trans.kind = "ops" =>
           trans.ops # <<>> /\ OpsFrom(snap[t].levels, trans.ops),
         trans.kind # "ops" => snap[t].exists
  PROVE  ReadsAreHistory'
<1>1. (~exists => levels = EmptyBook /\ seq = 0)'
  BY DEF IInv, ReadsAreHistory, Send, chain
<1>2. ASSUME NEW u \in Tasks PROVE SnapOfChain(u)'
  <2>1. SnapOfChain(u) /\ pc \in [Tasks -> {"idle", "book", "ready", "sent"}]
    BY DEF IInv, ReadsAreHistory, TypeOK
  <2>2. pc'[u] # "idle" => pc[u] # "idle"
    BY <2>1 DEF Send
  <2> QED
    BY <2>1, <2>2 DEF Send, chain, SnapOfChain, SameBook
<1>3. ASSUME NEW u \in Tasks PROVE TxFromSnap(u)'
  <2>1. TxFromSnap(u) /\ pc \in [Tasks -> {"idle", "book", "ready", "sent"}]
        /\ tx \in [Tasks -> Tx]
    BY DEF IInv, ReadsAreHistory, TypeOK
  <2>2. CASE u = t
    BY <2>1, <2>2 DEF Send, TxFromSnap
  <2>3. CASE u # t
    BY <2>1, <2>3 DEF Send, TxFromSnap
  <2> QED
    BY <2>2, <2>3
<1> QED
  BY <1>1, <1>2, <1>3 DEF ReadsAreHistory

\* Steps that write the book or open or close the account, and end the call.
\* The other calls' reads become stale: the sequence number has moved past
\* them, or the account is another one.
LEMMA WriteInv ==
  ASSUME IInv, TypeOK', NEW t \in Tasks, Finish(t),
         \/ exists /\ exists' /\ epoch' = epoch /\ seq' > seq
         \/ ~exists /\ exists' /\ epoch' = epoch + 1
         \/ ~exists' /\ epoch' = epoch /\ levels' = EmptyBook /\ seq' = 0
  PROVE  ReadsAreHistory'
<1>1. (~exists => levels = EmptyBook /\ seq = 0)'
  OBVIOUS
<1>2. ASSUME NEW u \in Tasks PROVE (TxFromSnap(u) /\ SnapOfChain(u))'
  <2>1. TypeOK /\ TxFromSnap(u) /\ SnapOfChain(u)
    BY DEF IInv, ReadsAreHistory
  <2>2. CASE pc'[u] = "idle"
    BY <2>2 DEF TxFromSnap, SnapOfChain
  <2>3. CASE /\ pc'[u] # "idle"
             /\ pc'[u] = pc[u] /\ snap'[u] = snap[u] /\ tx'[u] = tx[u]
             /\ filled'[u] = filled[u]
    <3>1. TxFromSnap(u)'
      BY <2>1, <2>3 DEF TxFromSnap
    <3>2. /\ epoch \in Nat /\ epoch' \in Nat /\ seq \in Nat /\ seq' \in Nat
          /\ snap[u].epoch \in Nat /\ snap[u].seq \in Nat
      BY <2>1 DEF TypeOK, Snapshot
    <3>3. CASE exists /\ exists' /\ epoch' = epoch /\ seq' > seq
      BY <2>1, <2>3, <3>1, <3>2, <3>3 DEF SnapOfChain, SameBook
    <3>4. CASE ~exists /\ exists' /\ epoch' = epoch + 1
      BY <2>1, <2>3, <3>1, <3>2, <3>4 DEF SnapOfChain, SameBook
    <3>5. CASE ~exists' /\ epoch' = epoch
      BY <2>1, <2>3, <3>1, <3>2, <3>5 DEF SnapOfChain, SameBook
    <3> QED
      BY <3>3, <3>4, <3>5
  <2> QED
    BY <2>1, <2>2, <2>3, FinishOthers
<1> QED
  BY <1>1, <1>2 DEF ReadsAreHistory

\* A fill takes from the level exactly what it adds to the count of every call
\* that has read the book.
LEMMA FillInv ==
  ASSUME IInv, NEW id \in Ids, NEW n \in 1..MaxSize, Fill(id, n)
  PROVE  ReadsAreHistory'
<1>1. (~exists => levels = EmptyBook /\ seq = 0)'
  BY DEF Fill
<1>2. ASSUME NEW u \in Tasks PROVE TxFromSnap(u)'
  BY DEF IInv, ReadsAreHistory, TxFromSnap, Fill
<1>3. ASSUME NEW u \in Tasks PROVE SnapOfChain(u)'
  <2>1. TypeOK /\ SnapOfChain(u)
    BY DEF IInv, ReadsAreHistory
  <2>2. SUFFICES ASSUME pc[u] # "idle" PROVE SnapOfChain(u)'
    BY DEF Fill, SnapOfChain
  <2>3. /\ filled' [u] = [filled[u] EXCEPT ![id] = @ + n]
        /\ levels' = [levels EXCEPT ![id] = @ - n]
        /\ exists /\ exists' = exists /\ epoch' = epoch /\ seq' = seq
        /\ snap' = snap /\ pc' = pc
    BY <2>2 DEF Fill
  <2>4. /\ n \in Nat /\ filled[u] \in [Ids -> Nat] /\ levels \in [Ids -> Size]
        /\ \A i \in Ids : levels[i] \in Int
    BY <2>1, SizeAssumption DEF TypeOK, Levels, Size
  <2>5. \A i \in Ids : levels'[i] + filled'[u][i] = levels[i] + filled[u][i]
    BY <2>3, <2>4
  <2> QED
    BY <2>1, <2>2, <2>3, <2>5 DEF SnapOfChain, SameBook
<1> QED
  BY <1>1, <1>2, <1>3 DEF ReadsAreHistory

\* Every step keeps the history invariant.
LEMMA NextHistory == IInv /\ TypeOK' /\ [Next]_vars => ReadsAreHistory'
<1> SUFFICES ASSUME IInv, TypeOK', [Next]_vars PROVE ReadsAreHistory'
  OBVIOUS
<1>0. TypeOK /\ ReadsAreHistory
  BY DEF IInv
<1>1. ASSUME NEW t \in Tasks, ReadBook(t) PROVE ReadsAreHistory'
  <2>1. (~exists => levels = EmptyBook /\ seq = 0)'
    BY <1>0, <1>1 DEF ReadsAreHistory, ReadBook, chain
  <2>2. ASSUME NEW u \in Tasks PROVE TxFromSnap(u)'
    <3>1. TxFromSnap(u) /\ pc \in [Tasks -> {"idle", "book", "ready", "sent"}]
          /\ snap \in [Tasks -> Snapshot]
      BY <1>0 DEF ReadsAreHistory, TypeOK
    <3> QED
      BY <1>1, <3>1 DEF TxFromSnap, ReadBook
  <2>3. SnapOfChain(t)'
    <3>1. /\ snap'[t] = [exists |-> exists, epoch |-> epoch, levels |-> levels, seq |-> seq]
          /\ filled'[t] = EmptyBook
          /\ exists' = exists /\ epoch' = epoch /\ levels' = levels /\ seq' = seq
      BY <1>0, <1>1 DEF TypeOK, ReadBook, chain
    <3>2. \A id \in Ids : levels[id] \in Int /\ EmptyBook[id] = 0
      BY <1>0, SizeAssumption DEF TypeOK, Levels, Size, EmptyBook
    <3>3. epoch \in Nat /\ seq \in Nat
      BY <1>0 DEF TypeOK
    <3> QED
      BY <1>0, <3>1, <3>2, <3>3 DEF ReadsAreHistory, SnapOfChain, SameBook
  <2>4. ASSUME NEW u \in Tasks, u # t PROVE SnapOfChain(u)'
    <3>1. SnapOfChain(u)
      BY <1>0 DEF ReadsAreHistory
    <3>2. /\ pc'[u] = pc[u] /\ snap'[u] = snap[u] /\ filled'[u] = filled[u]
          /\ exists' = exists /\ epoch' = epoch /\ levels' = levels /\ seq' = seq
      BY <1>0, <1>1, <2>4 DEF TypeOK, ReadBook, chain
    <3> QED
      BY <3>1, <3>2 DEF SnapOfChain, SameBook
  <2> QED
    BY <2>1, <2>2, <2>3, <2>4 DEF ReadsAreHistory
<1>2. ASSUME NEW t \in Tasks, ReadRegistry(t) PROVE ReadsAreHistory'
  <2>1. /\ snap' = snap /\ tx' = tx /\ filled' = filled /\ exists' = exists
        /\ epoch' = epoch /\ levels' = levels /\ seq' = seq
        /\ \A u \in Tasks : /\ pc'[u] = "sent" => pc[u] = "sent"
                            /\ pc'[u] # "idle" => pc[u] # "idle"
    BY <1>0, <1>2 DEF TypeOK, ReadRegistry, chain
  <2> QED
    BY <1>0, <2>1 DEF ReadsAreHistory, TxFromSnap, SnapOfChain, SameBook
<1>3. ASSUME NEW t \in Tasks, GiveUp(t) \/ Reject(t) PROVE ReadsAreHistory'
  BY <1>3, FinishInv DEF GiveUp, Reject
<1>4. ASSUME NEW t \in Tasks,
             BuildPlace(t) \/ BuildModify(t) \/ BuildCancel(t) \/ BuildReplaceAll(t)
      PROVE  ReadsAreHistory'
  <2>1. PICK ops \in Seq(LevelOp) : OpsFrom(snap[t].levels, ops) /\ SendOps(t, ops)
    BY <1>0, <1>4, BuildSends
  <2>2. pc[t] # "idle"
    BY <1>0, <1>4, BuildSends
  <2> DEFINE trans == [kind |-> "ops", init |-> ~snap[t].exists, ops |-> ops,
                       books |-> ChunkBooks(ops, reg[t], Me), seq |-> snap[t].seq + 1]
  <2>3. snap[t] \in Snapshot /\ reg[t] \in SUBSET Books
    BY <1>0 DEF TypeOK
  <2>4. ChunkBooks(ops, reg[t], Me) \in Seq(SUBSET Books)
    BY <2>3, ChunkBooksType
  <2>5. snap[t].seq + 1 \in Nat /\ (~snap[t].exists) \in BOOLEAN
    BY <2>3 DEF Snapshot
  <2>6. trans \in Tx
    BY <2>4, <2>5 DEF Tx, Kinds
  <2>7. Send(t, trans) /\ ops # <<>>
    BY <2>1 DEF SendOps
  <2>8. /\ trans.seq = snap[t].seq + 1 /\ trans.init = ~snap[t].exists
        /\ trans.kind = "ops" /\ trans.ops = ops
    OBVIOUS
  <2> HIDE DEF trans
  <2> QED
    BY <2>1, <2>2, <2>6, <2>7, <2>8, SendInv
<1>5. ASSUME NEW t \in Tasks, BuildCancelAll(t) \/ BuildClose(t) PROVE ReadsAreHistory'
  <2>1. PICK kind \in {"clear", "close"} : SendClear(t, kind)
    BY <1>5 DEF BuildCancelAll, BuildClose
  <2> DEFINE trans == [kind |-> kind, init |-> FALSE, ops |-> <<>>, books |-> <<>>,
                       seq |-> snap[t].seq + 1]
  <2>2. trans \in Tx
    BY <1>0 DEF TypeOK, Snapshot, Tx, Kinds
  <2>3. Send(t, trans) /\ snap[t].exists /\ pc[t] # "idle"
    BY <2>1 DEF SendClear
  <2>4. trans.seq = snap[t].seq + 1 /\ trans.init = FALSE /\ trans.kind # "ops"
    BY <2>1
  <2>5. trans.init = ~snap[t].exists
    BY <2>3, <2>4
  <2> HIDE DEF trans
  <2> QED
    BY <2>2, <2>3, <2>4, <2>5, SendInv
<1>6. ASSUME NEW t \in Tasks, LandOps(t) PROVE ReadsAreHistory'
  <2>1. /\ Finish(t) /\ pc[t] = "sent" /\ tx[t].kind = "ops"
        /\ tx[t].ops \in Seq(LevelOp)
        /\ tx[t].init = ~exists /\ BaseSeq(tx[t]) < tx[t].seq
        /\ exists' = TRUE
        /\ epoch' = IF tx[t].init THEN epoch + 1 ELSE epoch
        /\ seq' = tx[t].seq + NumChunks(tx[t].ops) - 1
    BY <1>0, <1>6, LandOpsFacts
  <2>2. NumChunks(tx[t].ops) \in Nat /\ NumChunks(tx[t].ops) >= 1
    BY <1>0, <2>1, NumChunksType DEF ReadsAreHistory, TxFromSnap
  <2>3. CASE exists
    <3>1. seq < tx[t].seq /\ seq \in Nat /\ tx[t].seq \in Nat
      BY <1>0, <2>1, <2>3 DEF BaseSeq, TypeOK, Tx
    <3>2. seq' > seq
      BY <2>1, <2>2, <3>1
    <3> QED
      BY <2>1, <2>3, <3>2, WriteInv
  <2>4. CASE ~exists
    BY <2>1, <2>4, WriteInv
  <2> QED
    BY <2>3, <2>4
<1>7. ASSUME NEW t \in Tasks, LandClear(t) PROVE ReadsAreHistory'
  <2>1. exists /\ seq < tx[t].seq /\ seq' = tx[t].seq /\ exists' = exists
        /\ epoch' = epoch /\ Finish(t)
    BY <1>7 DEF LandClear, SeqOk
  <2>2. seq' > seq
    BY <1>0, <2>1 DEF TypeOK, Tx
  <2> QED
    BY <2>1, <2>2, WriteInv
<1>8. ASSUME NEW t \in Tasks, LandClose(t) PROVE ReadsAreHistory'
  BY <1>8, WriteInv DEF LandClose
<1>9. ASSUME NEW id \in Ids, NEW n \in 1..MaxSize, Fill(id, n) PROVE ReadsAreHistory'
  BY <1>9, FillInv
<1>10. ASSUME NEW S \in SUBSET Books, ChangeRegistry(S) PROVE ReadsAreHistory'
  BY <1>0, <1>10 DEF ChangeRegistry, calls, ReadsAreHistory, TxFromSnap, SnapOfChain, SameBook
<1>11. CASE UNCHANGED vars
  BY <1>0, <1>11 DEF vars, chain, calls, ReadsAreHistory, TxFromSnap, SnapOfChain, SameBook
<1> QED
  BY <1>1, <1>2, <1>3, <1>4, <1>5, <1>6, <1>7, <1>8, <1>9, <1>10, <1>11 DEF Next

\* Every read a call still holds is accounted for by the chain's history: the
\* sequence number has moved past it, the account has been replaced, or the
\* levels are those it read less the fills since.
THEOREM HistoryCorrect == Spec => []ReadsAreHistory
<1>1. IInv /\ [Next]_vars => IInv'
  BY NextType, NextHistory DEF IInv
<1>2. IInv => ReadsAreHistory
  BY DEF IInv
<1> QED
  BY InitInv, <1>1, <1>2, PTL DEF Spec

-----------------------------------------------------------------------------
(* The action properties *)

\* When a transaction lands on the book account its call read, that account
\* has not been written in between, and its levels are those read less the
\* fills since.
LEMMA LandOnRead ==
  ASSUME IInv, NEW t \in Tasks, Land(t), SameBook(t)
  PROVE  /\ snap[t].seq = seq
         /\ exists => \A id \in Ids : levels[id] + filled[t][id] = snap[t].levels[id]
         /\ ~exists => snap[t].levels = EmptyBook /\ filled[t] = EmptyBook
<1>1. TypeOK /\ TxFromSnap(t) /\ SnapOfChain(t)
      /\ (~exists => levels = EmptyBook /\ seq = 0)
  BY DEF IInv, ReadsAreHistory
<1>2. seq \in Nat /\ snap[t].seq \in Nat /\ tx[t].seq \in Nat
  BY <1>1 DEF TypeOK, Snapshot, Tx
<1>3. /\ pc[t] = "sent" /\ tx[t].seq = snap[t].seq + 1
      /\ exists = snap[t].exists
      /\ exists => seq < tx[t].seq
  <2>1. pc[t] = "sent"
    BY DEF Land, LandOps, LandClear, LandClose
  <2>2. CASE LandOps(t)
    <3>1. tx[t].init = ~exists /\ BaseSeq(tx[t]) < tx[t].seq
      BY <1>1, <2>2, LandOpsFacts
    <3>2. snap[t].exists \in BOOLEAN /\ exists \in BOOLEAN
      BY <1>1 DEF TypeOK, Snapshot
    <3>3. exists = snap[t].exists
      BY <1>1, <2>1, <3>1, <3>2 DEF TxFromSnap
    <3>4. exists => seq < tx[t].seq
      BY <3>1 DEF BaseSeq
    <3> QED
      BY <1>1, <2>1, <3>3, <3>4 DEF TxFromSnap
  <2>3. CASE LandClear(t) \/ LandClose(t)
    <3>1. exists /\ seq < tx[t].seq /\ tx[t].kind # "ops"
      BY <2>3 DEF LandClear, LandClose, SeqOk
    <3>2. snap[t].exists
      BY <1>1, <2>1, <3>1 DEF TxFromSnap
    <3>3. snap[t].exists \in BOOLEAN /\ exists \in BOOLEAN
      BY <1>1 DEF TypeOK, Snapshot
    <3> QED
      BY <1>1, <2>1, <3>1, <3>2, <3>3 DEF TxFromSnap
  <2> QED
    BY <2>2, <2>3 DEF Land
<1>4. CASE exists
  <2>1. /\ snap[t].seq <= seq
        /\ snap[t].seq = seq =>
             \A id \in Ids : levels[id] + filled[t][id] = snap[t].levels[id]
    BY <1>1, <1>3, <1>4 DEF SnapOfChain
  <2>2. snap[t].seq = seq
    BY <1>2, <1>3, <1>4, <2>1
  <2> QED
    BY <1>4, <2>1, <2>2
<1>5. CASE ~exists
  BY <1>1, <1>3, <1>5 DEF SnapOfChain
<1> QED
  BY <1>4, <1>5

\* No update is lost, for any number of concurrent calls.
THEOREM NoUpdateLost == Spec => NoLostUpdate
<1>1. IInv /\ [Next]_vars => IInv'
  BY NextType, NextHistory DEF IInv
<1>2. IInv /\ [Next]_vars =>
        [\A t \in Tasks : (Land(t) /\ SameBook(t)) => snap[t].seq = seq]_vars
  BY LandOnRead
<1> QED
  BY InitInv, <1>1, <1>2, PTL DEF Spec, NoLostUpdate

\* A size guard that holds proves that nothing was filled since the read.
THEOREM GuardsDetectFills == Spec => GuardedWriteSeesNoFill
<1>1. IInv /\ [Next]_vars => IInv'
  BY NextType, NextHistory DEF IInv
<1>2. ASSUME IInv, NEW t \in Tasks, LandOps(t), SameBook(t), NEW id \in Guarded(t)
      PROVE  filled[t][id] = 0
  <2> DEFINE ops == tx[t].ops
             base == BaseLevels(tx[t])
  <2>1. PICK i \in DOMAIN ops :
          ops[i].id = id /\ ops[i].expected # LEVEL_OP_EXPECTED_ANY
    BY <1>2 DEF Guarded
  <2>2. /\ TypeOK /\ OpsFrom(snap[t].levels, ops)
        /\ pc[t] = "sent" /\ ops \in Seq(LevelOp) /\ base \in Levels
        /\ tx[t].init = ~exists
        /\ ops[i].expected \in {LEVEL_OP_EXPECTED_ANY, AfterOps(base, ops, i - 1)[ops[i].id]}
    BY <1>2, LandOpsFacts DEF IInv, ReadsAreHistory, TxFromSnap
  <2>3. /\ snap[t].seq = seq
        /\ exists => \A x \in Ids : levels[x] + filled[t][x] = snap[t].levels[x]
        /\ ~exists => snap[t].levels = EmptyBook /\ filled[t] = EmptyBook
    BY <1>2, LandOnRead DEF Land
  <2>4. AfterOps(base, ops, i - 1)[ops[i].id] = base[ops[i].id]
    <3> HIDE DEF ops, base
    <3> QED
      BY <2>2, FirstNaming DEF OpsFrom
  <2>5. base[id] = snap[t].levels[id]
    <3>1. ops[i] # CancelAnyOp(id)
      BY <2>1 DEF CancelAnyOp
    <3>2. ops[i].expected = snap[t].levels[id]
      BY <2>1, <2>2, <3>1 DEF OpsFrom
    <3> HIDE DEF ops, base
    <3> QED
      BY <2>1, <2>2, <2>4, <3>2
  <2>6. id \in Ids
    <3>1. ops[i] \in LevelOp
      BY <2>2
    <3> QED
      BY <2>1, <3>1 DEF LevelOp
  <2>7. CASE exists
    <3>1. levels[id] = snap[t].levels[id]
      BY <2>2, <2>5, <2>7 DEF BaseLevels
    <3>2. levels[id] \in Int /\ filled[t][id] \in Int
      BY <2>2, <2>6, SizeAssumption DEF TypeOK, Levels, Size
    <3> QED
      BY <2>3, <2>6, <2>7, <3>1, <3>2
  <2>8. CASE ~exists
    BY <2>3, <2>6, <2>8 DEF EmptyBook
  <2> QED
    BY <2>7, <2>8
<1>3. IInv /\ [Next]_vars =>
        [\A t \in Tasks :
           (LandOps(t) /\ SameBook(t)) => \A id \in Guarded(t) : filled[t][id] = 0]_vars
  BY <1>2
<1> QED
  BY InitInv, <1>1, <1>3, PTL DEF Spec, GuardedWriteSeesNoFill

\* The chain ends up with the book the builder computed, less the fills of the
\* levels the transaction does not name.
THEOREM PlannedBookLands == Spec => LandedBookIsPlanned
<1>1. IInv /\ [Next]_vars => IInv'
  BY NextType, NextHistory DEF IInv
<1>2. ASSUME IInv, NEW t \in Tasks, LandOps(t), SameBook(t), NEW id \in Ids
      PROVE  levels'[id] = IF id \in Named(t) THEN Planned(t)[id]
                           ELSE Planned(t)[id] - filled[t][id]
  <2> DEFINE ops == tx[t].ops
             base == BaseLevels(tx[t])
  <2>1. /\ TypeOK /\ ops \in Seq(LevelOp) /\ base \in Levels
        /\ tx[t].init = ~exists
        /\ levels' = AfterOps(base, ops, Len(ops))
    BY <1>2, LandOpsFacts DEF IInv
  <2>2. /\ exists => \A x \in Ids : levels[x] + filled[t][x] = snap[t].levels[x]
        /\ ~exists => snap[t].levels = EmptyBook /\ filled[t] = EmptyBook
    BY <1>2, LandOnRead DEF Land
  <2>3. base[id] = snap[t].levels[id] - filled[t][id]
    <3>1. levels[id] \in Int /\ filled[t][id] \in Int
      BY <2>1, SizeAssumption DEF TypeOK, Levels, Size
    <3>2. CASE exists
      <4>1. base = levels
        BY <2>1, <3>2 DEF BaseLevels
      <4>2. levels[id] + filled[t][id] = snap[t].levels[id]
        BY <2>2, <3>2
      <4> HIDE DEF base
      <4> QED
        BY <3>1, <4>1, <4>2
    <3>3. CASE ~exists
      <4>1. base = EmptyBook
        BY <2>1, <3>3 DEF BaseLevels
      <4>2. snap[t].levels = EmptyBook /\ filled[t] = EmptyBook
        BY <2>2, <3>3
      <4>3. EmptyBook[id] = 0
        BY DEF EmptyBook
      <4> HIDE DEF base
      <4> QED
        BY <4>1, <4>2, <4>3
    <3> QED
      BY <3>2, <3>3
  <2>4. id \in Named(t) <=> \E i \in 1..Len(ops) : ops[i].id = id
    BY <2>1 DEF Named
  <2>5. CASE id \in Named(t)
    BY <2>1, <2>4, <2>5 DEF AfterOps, Planned
  <2>6. CASE id \notin Named(t)
    <3>1. levels'[id] = base[id] /\ Planned(t)[id] = snap[t].levels[id]
      BY <2>1, <2>4, <2>6 DEF AfterOps, Planned
    <3> QED
      BY <2>3, <2>6, <3>1
  <2> QED
    BY <2>5, <2>6
<1>3. IInv /\ [Next]_vars =>
        [\A t \in Tasks :
           (LandOps(t) /\ SameBook(t)) =>
              \A id \in Ids :
                levels'[id] = IF id \in Named(t) THEN Planned(t)[id]
                              ELSE Planned(t)[id] - filled[t][id]]_vars
  BY <1>2
<1> QED
  BY InitInv, <1>1, <1>3, PTL DEF Spec, LandedBookIsPlanned

-----------------------------------------------------------------------------
(* The refinement *)

\* Level ops never add to a level that is not as the call read it, even when
\* they land on another account than the one it read.
LEMMA LandAddsToRead ==
  ASSUME IInv, NEW t \in Tasks, LandOps(t), NEW id \in Ids, levels'[id] > levels[id]
  PROVE  levels[id] = snap[t].levels[id]
<1> DEFINE ops == tx[t].ops
           base == BaseLevels(tx[t])
<1>1. /\ TypeOK /\ OpsFrom(snap[t].levels, ops)
      /\ ops \in Seq(LevelOp) /\ base \in Levels
      /\ tx[t].init = ~exists
      /\ ~exists => levels = EmptyBook
      /\ levels' = AfterOps(base, ops, Len(ops))
      /\ \A i \in DOMAIN ops :
           ops[i].expected \in {LEVEL_OP_EXPECTED_ANY, AfterOps(base, ops, i - 1)[ops[i].id]}
  BY LandOpsFacts DEF IInv, ReadsAreHistory, TxFromSnap
<1>2. base = levels
  BY <1>1 DEF BaseLevels
<1>3. levels[id] \in Nat /\ levels \in Levels
  BY <1>1, SizeAssumption DEF TypeOK, Levels, Size
<1> HIDE DEF ops, base
<1>4. PICK i \in 1..Len(ops) : ops[i].id = id /\ levels'[id] = ops[i].new
  <2>1. \E i \in 1..Len(ops) : ops[i].id = id
    <3>1. SUFFICES ASSUME ~ \E i \in 1..Len(ops) : ops[i].id = id PROVE FALSE
      OBVIOUS
    <3>2. levels'[id] = base[id]
      BY <1>1, <3>1 DEF AfterOps
    <3> QED
      BY <1>2, <1>3, <3>2
  <2> DEFINE last == CHOOSE i \in 1..Len(ops) :
                       /\ ops[i].id = id
                       /\ \A j \in 1..Len(ops) : ops[j].id = id => j <= i
  <2>2. PICK i \in 1..Len(ops) : ops[i].id = id
    BY <2>1
  <2>3. \A j \in 1..Len(ops) : ops[j].id = id => j = i
    BY <1>1, <2>2 DEF OpsFrom
  <2>4. last = i
    BY <2>2, <2>3
  <2>5. levels'[id] = ops[last].new
    BY <1>1, <2>1 DEF AfterOps
  <2> QED
    BY <2>2, <2>4, <2>5
<1>5. i \in DOMAIN ops
  BY <1>1
<1>6. ops[i] # CancelAnyOp(id)
  BY <1>3, <1>4 DEF CancelAnyOp
<1>7. ops[i].expected = snap[t].levels[id]
  BY <1>1, <1>4, <1>5, <1>6 DEF OpsFrom
<1>8. snap[t].levels[id] # LEVEL_OP_EXPECTED_ANY
  BY <1>1, SizeAssumption DEF TypeOK, Snapshot, Levels, Size, LEVEL_OP_EXPECTED_ANY
<1>9. AfterOps(base, ops, i - 1)[ops[i].id] = base[ops[i].id]
  BY <1>1, <1>5, FirstNaming DEF OpsFrom
<1> QED
  BY <1>1, <1>2, <1>4, <1>5, <1>7, <1>8, <1>9

\* Ending a call of the client ends it on the ledger.
LEMMA FinishIsDone ==
  ASSUME TypeOK, NEW t \in Tasks, Finish(t), pc[t] # "idle"
  PROVE  Ledger!Done(t)
<1>1. \A u \in Tasks : pc'[u] = IF u = t THEN "idle" ELSE pc[u]
  BY DEF Finish, TypeOK
<1>2. \A u \in Tasks : u # t => snap'[u] = snap[u]
  BY DEF Finish, TypeOK
<1>3. t \in DOMAIN Read
  BY DEF Read
<1>4. {u \in Tasks : pc'[u] # "idle"} = DOMAIN Read \ {t}
  BY <1>1 DEF Read
<1>5. Read' = [u \in DOMAIN Read \ {t} |-> Read[u]]
  BY <1>2, <1>4 DEF Read
<1> QED
  BY <1>3, <1>5 DEF Ledger!Done

\* Steps within a call leave what has been read alone.
LEMMA SameReads ==
  ASSUME TypeOK, snap' = snap, \A u \in Tasks : pc'[u] = "idle" <=> pc[u] = "idle"
  PROVE  Read' = Read
BY DEF Read

\* Every step of the client and the chain is a step of the ledger, or none.
LEMMA LedgerStep == IInv /\ [Next]_vars => [Ledger!Next]_(Ledger!vars)
<1> SUFFICES ASSUME IInv, [Next]_vars PROVE [Ledger!Next]_(Ledger!vars)
  OBVIOUS
<1>0. TypeOK /\ ReadsAreHistory
  BY DEF IInv
<1>a. ASSUME NEW t \in Tasks, pc[t] # "idle" PROVE Read[t] = snap[t]
  BY <1>a DEF Read
<1>b. ASSUME UNCHANGED chain, Read' = Read PROVE UNCHANGED Ledger!vars
  BY <1>b DEF chain, Ledger!vars, Ledger!ledger
<1>1. ASSUME NEW t \in Tasks, ReadBook(t) PROVE Ledger!Look(t)
  <2>1. /\ t \notin DOMAIN Read
        /\ {u \in Tasks : pc'[u] # "idle"} = DOMAIN Read \cup {t}
    BY <1>0, <1>1 DEF ReadBook, Read, TypeOK
  <2>2. /\ snap'[t] = [exists |-> exists, epoch |-> epoch, levels |-> levels, seq |-> seq]
        /\ \A u \in Tasks : u # t => snap'[u] = snap[u]
    BY <1>0, <1>1 DEF ReadBook, TypeOK
  <2>3. Read' = [u \in DOMAIN Read \cup {t} |->
                   IF u = t THEN [exists |-> exists, epoch |-> epoch, levels |-> levels, seq |-> seq]
                   ELSE Read[u]]
    BY <2>1, <2>2 DEF Read
  <2> QED
    BY <1>1, <2>1, <2>3 DEF Ledger!Look, Ledger!ledger, ReadBook, chain
<1>2. ASSUME NEW t \in Tasks, ReadRegistry(t) PROVE UNCHANGED Ledger!vars
  <2>1. snap' = snap /\ \A u \in Tasks : pc'[u] = "idle" <=> pc[u] = "idle"
    BY <1>0, <1>2 DEF ReadRegistry, TypeOK
  <2> QED
    BY <1>0, <1>2, <1>b, <2>1, SameReads DEF ReadRegistry
<1>3. ASSUME NEW t \in Tasks, NEW trans, pc[t] # "idle", Send(t, trans)
      PROVE  UNCHANGED Ledger!vars
  <2>1. snap' = snap /\ \A u \in Tasks : pc'[u] = "idle" <=> pc[u] = "idle"
    BY <1>0, <1>3 DEF Send, TypeOK
  <2> QED
    BY <1>0, <1>3, <1>b, <2>1, SameReads DEF Send
<1>4. ASSUME NEW t \in Tasks,
             BuildPlace(t) \/ BuildModify(t) \/ BuildCancel(t) \/ BuildReplaceAll(t)
      PROVE  UNCHANGED Ledger!vars
  <2>1. PICK ops \in Seq(LevelOp) : SendOps(t, ops)
    BY <1>0, <1>4, BuildSends
  <2>2. pc[t] # "idle"
    BY <1>0, <1>4, BuildSends
  <2> QED
    BY <1>3, <2>1, <2>2 DEF SendOps
<1>5. ASSUME NEW t \in Tasks, BuildCancelAll(t) \/ BuildClose(t)
      PROVE  UNCHANGED Ledger!vars
  BY <1>3, <1>5 DEF BuildCancelAll, BuildClose, SendClear
<1>6. ASSUME NEW t \in Tasks, GiveUp(t) \/ Reject(t) PROVE Ledger!Leave(t)
  <2>1. Finish(t) /\ pc[t] # "idle" /\ UNCHANGED chain
    BY <1>6 DEF GiveUp, Reject
  <2> QED
    BY <1>0, <2>1, FinishIsDone DEF Ledger!Leave, Ledger!ledger, chain
<1>7. ASSUME NEW t \in Tasks, LandOps(t) PROVE Ledger!Open(t) \/ Ledger!Amend(t)
  <2>1. /\ Finish(t) /\ pc[t] = "sent" /\ tx[t].kind = "ops"
        /\ tx[t].ops \in Seq(LevelOp)
        /\ tx[t].init = ~exists /\ BaseSeq(tx[t]) < tx[t].seq
        /\ exists' = TRUE
        /\ epoch' = IF tx[t].init THEN epoch + 1 ELSE epoch
        /\ seq' = tx[t].seq + NumChunks(tx[t].ops) - 1
    BY <1>0, <1>7, LandOpsFacts
  <2>2. NumChunks(tx[t].ops) \in Nat /\ NumChunks(tx[t].ops) >= 1
    BY <1>0, <2>1, NumChunksType DEF ReadsAreHistory, TxFromSnap
  <2>3. tx[t].init = ~snap[t].exists
    BY <1>0, <2>1 DEF ReadsAreHistory, TxFromSnap
  <2>4. exists \in BOOLEAN /\ snap[t].exists \in BOOLEAN
    BY <1>0 DEF TypeOK, Snapshot
  <2>5. Ledger!Done(t) /\ Read[t] = snap[t]
    BY <1>0, <1>a, <2>1, FinishIsDone
  <2>6. Ledger!AddsToWhatWasSeen(t)
    BY <1>7, <2>5, LandAddsToRead DEF Ledger!AddsToWhatWasSeen
  <2>7. /\ seq \in Nat /\ tx[t].seq \in Nat /\ BaseSeq(tx[t]) \in Nat
    BY <1>0 DEF TypeOK, Tx, BaseSeq
  <2>8. seq' > BaseSeq(tx[t])
    BY <2>1, <2>2, <2>7
  <2>9. CASE exists
    <3>1. seq' > seq
      BY <2>1, <2>8, <2>9 DEF BaseSeq
    <3>2. Ledger!Unchallenged(t)
      BY <1>7, <2>5, LandOnRead DEF Ledger!Unchallenged, Land, SameBook
    <3>3. snap[t].exists /\ exists' = exists /\ epoch' = epoch
      BY <2>1, <2>3, <2>4, <2>9
    <3> QED
      BY <2>5, <2>6, <2>9, <3>1, <3>2, <3>3 DEF Ledger!Amend
  <2>10. CASE ~exists
    <3>1. seq' > 0
      BY <2>1, <2>8, <2>10 DEF BaseSeq
    <3>2. ~snap[t].exists /\ epoch' = epoch + 1
      BY <2>1, <2>3, <2>4, <2>10
    <3> QED
      BY <2>1, <2>5, <2>6, <2>10, <3>1, <3>2 DEF Ledger!Open
  <2> QED
    BY <2>9, <2>10
<1>8. ASSUME NEW t \in Tasks, LandClear(t) PROVE Ledger!Amend(t)
  <2>1. /\ Finish(t) /\ pc[t] = "sent" /\ tx[t].kind # "ops" /\ exists
        /\ seq < tx[t].seq /\ seq' = tx[t].seq /\ levels' = EmptyBook
        /\ exists' = exists /\ epoch' = epoch
    BY <1>8 DEF LandClear, SeqOk
  <2>2. snap[t].exists
    BY <1>0, <2>1 DEF ReadsAreHistory, TxFromSnap
  <2>3. Ledger!Done(t) /\ Read[t] = snap[t]
    BY <1>0, <1>a, <2>1, FinishIsDone
  <2>4. Ledger!AddsToWhatWasSeen(t)
    BY <1>0, <2>1, SizeAssumption DEF Ledger!AddsToWhatWasSeen, EmptyBook, TypeOK, Levels, Size
  <2>5. Ledger!Unchallenged(t)
    BY <1>8, <2>3, LandOnRead DEF Ledger!Unchallenged, Land, SameBook
  <2>6. seq' > seq
    BY <1>0, <2>1 DEF TypeOK, Tx
  <2> QED
    BY <2>1, <2>2, <2>3, <2>4, <2>5, <2>6 DEF Ledger!Amend
<1>9. ASSUME NEW t \in Tasks, LandClose(t) PROVE Ledger!Close(t)
  <2>1. /\ Finish(t) /\ pc[t] = "sent" /\ tx[t].kind # "ops" /\ exists
        /\ seq' = 0 /\ levels' = EmptyBook /\ exists' = FALSE /\ epoch' = epoch
    BY <1>9 DEF LandClose
  <2>2. snap[t].exists
    BY <1>0, <2>1 DEF ReadsAreHistory, TxFromSnap
  <2>3. Ledger!Done(t) /\ Read[t] = snap[t]
    BY <1>0, <1>a, <2>1, FinishIsDone
  <2>4. Ledger!Unchallenged(t)
    BY <1>9, <2>3, LandOnRead DEF Ledger!Unchallenged, Land, SameBook
  <2> QED
    BY <2>1, <2>2, <2>3, <2>4 DEF Ledger!Close, Ledger!None, EmptyBook
<1>10. ASSUME NEW id \in Ids, NEW n \in 1..MaxSize, Fill(id, n) PROVE Ledger!Take(id)
  <2>1. /\ exists /\ levels' = [levels EXCEPT ![id] = @ - n] /\ n \in 1..levels[id]
        /\ exists' = exists /\ epoch' = epoch /\ seq' = seq /\ snap' = snap /\ pc' = pc
    BY <1>10 DEF Fill
  <2>2. levels \in [Ids -> Size] /\ levels[id] \in Int
    BY <1>0, SizeAssumption DEF TypeOK, Levels, Size
  <2>3. levels'[id] < levels[id] /\ levels' = [levels EXCEPT ![id] = levels'[id]]
    BY <2>1, <2>2
  <2>4. Read' = Read
    BY <2>1 DEF Read
  <2> QED
    BY <2>1, <2>3, <2>4 DEF Ledger!Take
<1>11. ASSUME NEW S \in SUBSET Books, ChangeRegistry(S) PROVE UNCHANGED Ledger!vars
  BY <1>11 DEF ChangeRegistry, calls, Ledger!vars, Ledger!ledger, Read
<1>12. CASE UNCHANGED vars
  BY <1>12 DEF vars, chain, calls, Ledger!vars, Ledger!ledger, Read
<1> QED
  BY <1>1, <1>2, <1>4, <1>5, <1>6, <1>7, <1>8, <1>9, <1>10, <1>11, <1>12
     DEF Next, Ledger!Next

\* The client implements the ledger under optimistic concurrency control, for
\* any number of calls, ids, sizes and limits.
THEOREM LedgerImplemented == Spec => ImplementsLedger
<1>1. Init => Ledger!Init
  <2>1. SUFFICES ASSUME Init PROVE Ledger!Init
    OBVIOUS
  <2>2. {u \in Tasks : pc[u] # "idle"} = {}
    BY <2>1 DEF Init
  <2>3. Read = [t \in {} |-> 0]
    BY <2>2 DEF Read
  <2> QED
    BY <2>1, <2>3 DEF Init, Ledger!Init, Ledger!None, EmptyBook
<1>2. IInv /\ [Next]_vars => IInv'
  BY NextType, NextHistory DEF IInv
<1> QED
  BY <1>1, <1>2, InitInv, LedgerStep, PTL DEF Spec, ImplementsLedger, Ledger!Spec

-----------------------------------------------------------------------------
(* A fresh transaction lands *)

\* A book the program keeps: no side too long, no bid reaching an ask.
Sound(book) == WithinSides(book) /\ ~Crossed(book)

\* The book is sound after every op, not only at the ends of the chunks.
StaysSound(book, ops) == \A i \in 1..Len(ops) : Sound(AfterOps(book, ops, i))

\* Level ops in flight carry what the call's reads made of them.
SentSound(t) ==
  (pc[t] = "sent" /\ tx[t].kind = "ops") =>
    /\ tx[t].books = ChunkBooks(tx[t].ops, reg[t], Me)
    /\ ~SplitRequired(tx[t].ops, reg[t], Me)
    /\ StaysSound(snap[t].levels, tx[t].ops)

\* The chain's book and every snapshot of it are sound, and no transaction in
\* flight passes through an unsound book on its way from its snapshot.
SoundInv ==
  /\ Sound(levels)
  /\ \A t \in Tasks : Sound(snap[t].levels) /\ SentSound(t)

\* A set of ids is finite, and so is a side of a book.
LEMMA SideFinite ==
  ASSUME NEW book, NEW side
  PROVE  /\ IsFiniteSet(Resting(book))
         /\ IsFiniteSet({id \in Resting(book) : id.side = side})
         /\ SideCount(book, side) \in Nat
<1>1. Resting(book) \in SUBSET Ids /\ {id \in Resting(book) : id.side = side} \in SUBSET Ids
  BY DEF Resting
<1>2. IsFiniteSet(Resting(book)) /\ IsFiniteSet({id \in Resting(book) : id.side = side})
  BY <1>1, IdsAssumption, FS_Subset
<1> QED
  BY <1>2, FS_CardinalityType DEF SideCount

\* A side of a book that rests on fewer ids is no longer.
LEMMA SideLess ==
  ASSUME NEW a, NEW b, NEW side,
         \A id \in Ids : (a[id] > 0 /\ id.side = side) => b[id] > 0
  PROVE  SideCount(a, side) <= SideCount(b, side)
<1> DEFINE A == {id \in Resting(a) : id.side = side}
           B == {id \in Resting(b) : id.side = side}
<1>1. A \in SUBSET B
  BY DEF Resting
<1>2. IsFiniteSet(B)
  BY SideFinite
<1>3. Cardinality(A) <= Cardinality(B)
  BY <1>1, <1>2, FS_Subset
<1> QED
  BY <1>3 DEF SideCount

\* A book that rests on fewer ids than an uncrossed one is uncrossed.
LEMMA UncrossedLess ==
  ASSUME NEW a, NEW b, ~Crossed(b), \A id \in Ids : a[id] > 0 => b[id] > 0
  PROVE  ~Crossed(a)
BY DEF Crossed, Resting

\* A book that rests on fewer ids than a sound one is sound.
LEMMA SoundLess ==
  ASSUME NEW a, NEW b, Sound(b), \A id \in Ids : a[id] > 0 => b[id] > 0
  PROVE  Sound(a)
<1>1. ~Crossed(a)
  BY UncrossedLess DEF Sound
<1>2. ASSUME NEW side \in Sides PROVE SideCount(a, side) <= MAX_LEVELS
  <2>1. SideCount(a, side) <= SideCount(b, side)
    BY SideLess
  <2>2. SideCount(b, side) <= MAX_LEVELS
    BY DEF Sound, WithinSides
  <2>3. SideCount(a, side) \in Nat /\ SideCount(b, side) \in Nat /\ MAX_LEVELS \in Nat
    BY SideFinite, LimitsAssumption
  <2> QED
    BY <2>1, <2>2, <2>3
<1> QED
  BY <1>1, <1>2 DEF Sound, WithinSides

\* An empty book is sound.
LEMMA EmptySound == Sound(EmptyBook)
<1>1. Resting(EmptyBook) = {}
  BY DEF Resting, EmptyBook
<1>2. ASSUME NEW side PROVE SideCount(EmptyBook, side) = 0
  <2>1. {id \in Resting(EmptyBook) : id.side = side} = {}
    BY <1>1
  <2> QED
    BY <2>1, FS_EmptySet DEF SideCount
<1> QED
  BY <1>1, <1>2, LimitsAssumption DEF Sound, WithinSides, Crossed

\* An arrangement names every id of its set.
LEMMA ArrangementHits ==
  ASSUME NEW S \in SUBSET Ids, NEW list \in Arrangements(S)
  PROVE  /\ \A id \in S : \E i \in DOMAIN list : list[i] = id
         /\ DOMAIN list = 1..Len(list) /\ Len(list) \in Nat
<1>1. IsFiniteSet(S)
  BY FS_Subset, IdsAssumption
<1>2. Cardinality(S) \in Nat
  BY <1>1, FS_CardinalityType
<1>3. list \in Injection(1..Cardinality(S), S)
  BY DEF Arrangements
<1>4. Cardinality(1..Cardinality(S)) = Cardinality(S)
  BY <1>2, FS_Interval
<1>5. list \in Surjection(1..Cardinality(S), S)
  BY <1>1, <1>3, <1>4, FS_Injection
<1>6. list \in Seq(Ids)
  BY ArrangementType
<1>7. DOMAIN list = 1..Cardinality(S)
  BY <1>3 DEF Injection
<1> QED
  BY <1>5, <1>6, <1>7 DEF Surjection

\* Where no id is named twice, each op settles its id and nothing else does.
LEMMA AfterUnique ==
  ASSUME NEW book, NEW ops, NEW n \in Nat, NEW id \in Ids,
         \A i, j \in 1..n : ops[i].id = ops[j].id => i = j
  PROVE  /\ \A i \in 1..n : ops[i].id = id => AfterOps(book, ops, n)[id] = ops[i].new
         /\ (\A i \in 1..n : ops[i].id # id) => AfterOps(book, ops, n)[id] = book[id]
<1>1. ASSUME NEW i \in 1..n, ops[i].id = id
      PROVE  AfterOps(book, ops, n)[id] = ops[i].new
  <2> DEFINE P(k) == ops[k].id = id /\ \A j \in 1..n : ops[j].id = id => j <= k
             last == CHOOSE k \in 1..n : P(k)
  <2>1. P(i)
    BY <1>1
  <2>2. last \in 1..n /\ P(last)
    BY <2>1
  <2>3. last = i
    <3> HIDE DEF last
    <3> QED
      BY <1>1, <2>2
  <2>4. AfterOps(book, ops, n)[id] = ops[last].new
    BY <1>1 DEF AfterOps
  <2> QED
    <3> HIDE DEF last
    <3> QED
      BY <2>3, <2>4
<1>2. (\A i \in 1..n : ops[i].id # id) => AfterOps(book, ops, n)[id] = book[id]
  BY DEF AfterOps
<1> QED
  BY <1>1, <1>2

\* Placing an order that CanPlace admits keeps its side within its limit.
LEMMA PlaceFits ==
  ASSUME NEW a, NEW b, NEW p \in Ids, SideCount(a, p.side) < MAX_LEVELS,
         \A id \in Ids : (id # p /\ id.side = p.side /\ b[id] > 0) => a[id] > 0
  PROVE  SideCount(b, p.side) <= MAX_LEVELS
<1> DEFINE A == {id \in Resting(a) : id.side = p.side}
           B == {id \in Resting(b) : id.side = p.side}
<1>1. B \in SUBSET (A \cup {p})
  BY DEF Resting
<1>2. IsFiniteSet(A) /\ IsFiniteSet(B)
  BY SideFinite
<1>3. Cardinality(A) \in Nat /\ Cardinality(B) \in Nat
  BY <1>2, FS_CardinalityType
<1>4. IsFiniteSet(A \cup {p}) /\ Cardinality(A \cup {p}) <= Cardinality(A) + 1
  <2>1. /\ IsFiniteSet(A \cup {p})
        /\ Cardinality(A \cup {p}) = IF p \in A THEN Cardinality(A) ELSE Cardinality(A) + 1
    <3> HIDE DEF A
    <3> QED BY <1>2, FS_AddElement
  <2> QED BY <2>1, <1>3
<1>5. Cardinality(B) <= Cardinality(A \cup {p})
  <2> HIDE DEF A, B
  <2> QED BY <1>1, <1>4, FS_Subset
<1>6. Cardinality(A \cup {p}) \in Nat
  <2> HIDE DEF A
  <2> QED BY <1>4, FS_CardinalityType
<1>7. Cardinality(A) < MAX_LEVELS /\ MAX_LEVELS \in Nat
  BY LimitsAssumption DEF SideCount
<1>8. Cardinality(B) <= MAX_LEVELS
  <2> HIDE DEF A, B
  <2> QED BY <1>3, <1>4, <1>5, <1>6, <1>7
<1> QED
  BY <1>8 DEF SideCount

\* What PlaceOps places, op by op.
LEMMA PlaceOpsAre ==
  ASSUME NEW list \in Seq(Ids), NEW want
  PROVE  /\ DOMAIN PlaceOps(list, want) = 1..Len(list)
         /\ Len(PlaceOps(list, want)) = Len(list) /\ Len(list) \in Nat
         /\ \A i \in 1..Len(list) : /\ PlaceOps(list, want)[i].id = list[i]
                                    /\ PlaceOps(list, want)[i].new = want[list[i]]
                                    /\ list[i] \in Ids
<1>1. DOMAIN list = 1..Len(list) /\ Len(list) \in Nat
  OBVIOUS
<1> QED
  BY <1>1 DEF PlaceOps, PlaceOp

\* A place loop whose checks pass never leaves a side too long, and if it ends
\* uncrossed it was never crossed.
LEMMA PlacesStaySound ==
  ASSUME NEW base \in Levels, NEW want \in Levels, NEW list \in Seq(Ids),
         \A i, j \in DOMAIN list : list[i] = list[j] => i = j,
         PlacesOk(base, list, want), Sound(base),
         ~Crossed(AfterOps(base, PlaceOps(list, want), Len(list)))
  PROVE  StaysSound(base, PlaceOps(list, want))
<1> DEFINE ops == PlaceOps(list, want)
           At(n) == AfterOps(base, ops, n)
<1>1. /\ Len(ops) = Len(list) /\ Len(list) \in Nat /\ DOMAIN list = 1..Len(list)
      /\ \A i \in 1..Len(list) : ops[i].id = list[i] /\ ops[i].new = want[list[i]] /\ list[i] \in Ids
  BY PlaceOpsAre
<1>2. \A i \in 1..Len(list) : CanPlace(At(i - 1), list[i], want[list[i]])
  BY <1>1 DEF PlacesOk
<1>3. \A i, j \in 1..Len(list) : list[i] = list[j] => i = j
  BY <1>1
<1>4. \A i \in 1..Len(list) : want[list[i]] > 0
  BY <1>1, <1>2, SizeAssumption DEF CanPlace, Levels, Size
<1> HIDE DEF ops
\* Which ids rest after n places.
<1>5. ASSUME NEW n \in 0..Len(list), NEW id \in Ids
      PROVE  At(n)[id] > 0 <=> (base[id] > 0 \/ \E i \in 1..n : list[i] = id)
  <2>1. \A i, j \in 1..n : ops[i].id = ops[j].id => i = j
    BY <1>1, <1>3
  <2>2. /\ \A i \in 1..n : ops[i].id = id => At(n)[id] = ops[i].new
        /\ (\A i \in 1..n : ops[i].id # id) => At(n)[id] = base[id]
    BY <1>1, <2>1, AfterUnique
  <2>3. \A i \in 1..n : i \in 1..Len(list)
    BY <1>1
  <2> HIDE DEF At
  <2> QED
    BY <1>1, <1>4, <2>2, <2>3
<1> SUFFICES ASSUME NEW n \in 1..Len(list)
             PROVE  Sound(At(n))
  BY <1>1 DEF StaysSound, ops
<1>6. ~Crossed(At(n))
  <2>1. ~Crossed(At(Len(list)))
    BY DEF ops
  <2>2. \A id \in Ids : At(n)[id] > 0 => At(Len(list))[id] > 0
    <3>1. n \in 0..Len(list) /\ Len(list) \in 0..Len(list) /\ \A i \in 1..n : i \in 1..Len(list)
      BY <1>1
    <3> HIDE DEF At
    <3> QED BY <1>5, <3>1
  <2> HIDE DEF At
  <2> QED
    BY <2>1, <2>2, UncrossedLess
<1>7. ASSUME NEW side \in Sides
      PROVE  SideCount(At(n), side) <= MAX_LEVELS
  <2> DEFINE S == {j \in 1..n : list[j].side = side}
  <2>0. n \in Nat /\ n \in 0..Len(list) /\ S \in SUBSET (1..n)
    BY <1>1
  <2>1. CASE S = {}
    <3>1. \A id \in Ids : (At(n)[id] > 0 /\ id.side = side) => base[id] > 0
      <4> HIDE DEF At
      <4> QED BY <1>5, <2>0, <2>1
    <3>2. SideCount(At(n), side) <= SideCount(base, side)
      <4> HIDE DEF At
      <4> QED BY <3>1, SideLess
    <3>3. SideCount(base, side) <= MAX_LEVELS
      BY DEF Sound, WithinSides
    <3>4. SideCount(At(n), side) \in Nat /\ SideCount(base, side) \in Nat /\ MAX_LEVELS \in Nat
      <4> HIDE DEF At
      <4> QED BY SideFinite, LimitsAssumption
    <3> HIDE DEF At
    <3> QED BY <3>2, <3>3, <3>4
  <2>2. CASE S # {}
    <3>1. \E j \in S : \A k \in S : k <= j
      <4> HIDE DEF S
      <4> QED BY <2>0, <2>2, LastNaming
    <3>2. PICK j \in S : \A k \in S : k <= j
      BY <3>1
    <3>3. j \in 1..Len(list) /\ j <= n /\ list[j].side = side /\ list[j] \in Ids /\ j - 1 \in 0..Len(list)
      BY <1>1, <2>0
    <3>4. SideCount(At(j - 1), list[j].side) < MAX_LEVELS
      BY <1>2, <3>3 DEF CanPlace
    <3>5. \A id \in Ids :
            (id # list[j] /\ id.side = list[j].side /\ At(n)[id] > 0) => At(j - 1)[id] > 0
      <4> SUFFICES ASSUME NEW id \in Ids, id # list[j], id.side = list[j].side, At(n)[id] > 0
                   PROVE  At(j - 1)[id] > 0
        OBVIOUS
      <4>1. CASE base[id] > 0
        <5> HIDE DEF At
        <5> QED BY <1>5, <3>3, <4>1
      <4>2. CASE \E i \in 1..n : list[i] = id
        <5>1. PICK i \in 1..n : list[i] = id
          BY <4>2
        <5>2. i \in S
          BY <5>1, <3>3
        <5>3. i <= j /\ i # j
          BY <3>2, <5>1, <5>2
        <5>4. i \in 1..(j - 1)
          BY <5>3, <3>3, <5>1, <1>1
        <5> HIDE DEF At
        <5> QED BY <1>5, <3>3, <5>1, <5>4
      <4> HIDE DEF At
      <4> QED BY <1>5, <2>0, <4>1, <4>2
    <3> HIDE DEF At
    <3>6. SideCount(At(n), list[j].side) <= MAX_LEVELS
      BY <3>3, <3>4, <3>5, PlaceFits
    <3> QED
      BY <3>3, <3>6
  <2> QED
    BY <2>1, <2>2
<1> QED
  BY <1>6, <1>7 DEF Sound, WithinSides

\* Ops that only write ids resting in the snapshot keep it sound.
LEMMA WritesStaySound ==
  ASSUME NEW book \in Levels, NEW ops \in Seq(LevelOp), Sound(book), NEW n \in 0..Len(ops),
         \A i \in 1..n : book[ops[i].id] > 0
  PROVE  Sound(AfterOps(book, ops, n))
<1>1. \A id \in Ids : AfterOps(book, ops, n)[id] > 0 => book[id] > 0
  BY DEF AfterOps
<1> QED
  BY <1>1, SoundLess

\* A function on an initial segment is a sequence of that length.
LEMMA SegmentSeq ==
  ASSUME NEW E, NEW n \in Nat, NEW f \in [1..n -> E]
  PROVE  f \in Seq(E) /\ Len(f) = n
OBVIOUS

\* The elements of three sequences put together, a being where the second
\* starts and b where the third does.
Joined(ops, c, r, p, a, b) ==
  /\ Len(ops) = b + Len(p)
  /\ \A i \in 1..a : ops[i] = c[i]
  /\ \A i \in (a + 1)..b : ops[i] = r[i - a]
  /\ \A i \in (b + 1)..(b + Len(p)) : ops[i] = p[i - b]

\* Three sequences put together hold the elements of each.
LEMMA ThreeParts ==
  ASSUME NEW E, NEW c \in Seq(E), NEW r \in Seq(E), NEW p \in Seq(E),
         NEW a \in Nat, NEW b \in Nat, a = Len(c), b = a + Len(r)
  PROVE  Joined(c \o r \o p, c, r, p, a, b)
<1>1. /\ c \o r \in Seq(E) /\ Len(c \o r) = b
      /\ \A i \in 1..a : (c \o r)[i] = c[i]
      /\ \A i \in (a + 1)..b : (c \o r)[i] = r[i - a]
  OBVIOUS
<1> DEFINE d == c \o r
<1>2. d \in Seq(E) /\ Len(d) = b
  BY <1>1
<1> HIDE DEF d
<1>3. /\ Len(d \o p) = b + Len(p)
      /\ \A i \in 1..b : (d \o p)[i] = d[i]
      /\ \A i \in (b + 1)..(b + Len(p)) : (d \o p)[i] = p[i - b]
  BY <1>2
<1>4. (\A i \in 1..a : i \in 1..b) /\ (\A i \in (a + 1)..b : i \in 1..b)
  OBVIOUS
<1>5. c \o r \o p = d \o p
  BY DEF d
<1>6. /\ \A i \in 1..a : d[i] = c[i]
      /\ \A i \in (a + 1)..b : d[i] = r[i - a]
  BY <1>1 DEF d
<1> QED
  BY <1>3, <1>4, <1>5, <1>6 DEF Joined

\* The ids and new sizes of a list of cancels up to a, resizes up to b and
\* places from there on.
CancelsThenResizesThenPlaces(ops, cancels, resizes, places, want, a, b) ==
  /\ Len(ops) = b + Len(places)
  /\ \A i \in 1..a : ops[i].id = cancels[i] /\ ops[i].new = 0
  /\ \A i \in (a + 1)..b : ops[i].id = resizes[i - a] /\ ops[i].new = want[resizes[i - a]]
  /\ \A i \in (b + 1)..Len(ops) :
       ops[i].id = places[i - b] /\ ops[i].new = want[places[i - b]]

\* Op by op, what diff_to emits.
LEMMA DiffOpsAre ==
  ASSUME NEW book, NEW want, NEW mode \in CancelMode,
         NEW cancels \in Seq(Ids), NEW resizes \in Seq(Ids), NEW places \in Seq(Ids),
         NEW a \in Nat, NEW b \in Nat, a = Len(cancels), b = a + Len(resizes)
  PROVE  CancelsThenResizesThenPlaces(DiffOps(book, want, mode, cancels, resizes, places),
                                      cancels, resizes, places, want, a, b)
<1> DEFINE ops == DiffOps(book, want, mode, cancels, resizes, places)
           c == CancelOps(book, cancels, mode)
           r == ResizeOps(book, resizes, want)
           p == PlaceOps(places, want)
           E == {c[i] : i \in DOMAIN c} \cup {r[i] : i \in DOMAIN r} \cup {p[i] : i \in DOMAIN p}
<1>1. /\ DOMAIN cancels = 1..Len(cancels) /\ DOMAIN resizes = 1..Len(resizes)
      /\ DOMAIN places = 1..Len(places)
      /\ Len(cancels) \in Nat /\ Len(resizes) \in Nat /\ Len(places) \in Nat
  OBVIOUS
<1>2. /\ c = [i \in 1..Len(cancels) |-> CancelOp(book, cancels[i], mode)]
      /\ r = [i \in 1..Len(resizes) |-> ResizeOp(resizes[i], book[resizes[i]], want[resizes[i]])]
      /\ p = [i \in 1..Len(places) |-> PlaceOp(places[i], want[places[i]])]
  BY <1>1 DEF CancelOps, ResizeOps, PlaceOps
<1>3. /\ \A i \in 1..Len(cancels) : c[i].id = cancels[i] /\ c[i].new = 0
      /\ \A i \in 1..Len(resizes) : r[i].id = resizes[i] /\ r[i].new = want[resizes[i]]
      /\ \A i \in 1..Len(places) : p[i].id = places[i] /\ p[i].new = want[places[i]]
  BY <1>2 DEF CancelOp, CancelAnyOp, ResizeOp, PlaceOp
<1>4. ops = c \o r \o p
  BY DEF DiffOps
<1>5. DOMAIN c = 1..Len(cancels) /\ DOMAIN r = 1..Len(resizes) /\ DOMAIN p = 1..Len(places)
  BY <1>2
<1> HIDE DEF ops, c, r, p
<1>6. \A i \in DOMAIN c : c[i] \in E
  OBVIOUS
<1>7. \A i \in DOMAIN r : r[i] \in E
  OBVIOUS
<1>8. \A i \in DOMAIN p : p[i] \in E
  OBVIOUS
<1> HIDE DEF E
<1>9. c \in [1..Len(cancels) -> E] /\ r \in [1..Len(resizes) -> E] /\ p \in [1..Len(places) -> E]
  BY <1>2, <1>5, <1>6, <1>7, <1>8
<1>10. /\ c \in Seq(E) /\ r \in Seq(E) /\ p \in Seq(E)
       /\ Len(c) = Len(cancels) /\ Len(r) = Len(resizes) /\ Len(p) = Len(places)
  BY <1>1, <1>9, SegmentSeq
<1>11. a = Len(c) /\ b = a + Len(r)
  BY <1>10
<1>12. Joined(ops, c, r, p, a, b)
  BY <1>4, <1>10, <1>11, ThreeParts
<1>13. Len(ops) = b + Len(places)
  BY <1>10, <1>12 DEF Joined
<1>14. ASSUME NEW i \in 1..a PROVE ops[i].id = cancels[i] /\ ops[i].new = 0
  <2>1. ops[i] = c[i] /\ i \in 1..Len(cancels)
    BY <1>12 DEF Joined
  <2> QED BY <2>1, <1>3
<1>15. ASSUME NEW i \in (a + 1)..b
       PROVE  ops[i].id = resizes[i - a] /\ ops[i].new = want[resizes[i - a]]
  <2>1. ops[i] = r[i - a]
    BY <1>12 DEF Joined
  <2>2. i - a \in 1..Len(resizes)
    BY <1>1
  <2> QED BY <2>1, <2>2, <1>3
<1>16. ASSUME NEW i \in (b + 1)..Len(ops)
       PROVE  ops[i].id = places[i - b] /\ ops[i].new = want[places[i - b]]
  <2>1. i \in (b + 1)..(b + Len(p)) /\ i - b \in 1..Len(places)
    BY <1>1, <1>10, <1>13
  <2>2. ops[i] = p[i - b]
    BY <1>12, <2>1 DEF Joined
  <2> QED BY <2>1, <2>2, <1>3
<1>17. CancelsThenResizesThenPlaces(ops, cancels, resizes, places, want, a, b)
  BY <1>13, <1>14, <1>15, <1>16 DEF CancelsThenResizesThenPlaces
<1> QED
  BY <1>17 DEF ops

\* replace_all: cancels and resizes only shrink the set of resting orders, and
\* the places then grow it towards the desired one, which was checked.
LEMMA DiffStaysSound ==
  ASSUME NEW book \in Levels, NEW want \in Levels, NEW mode \in CancelMode,
         NEW cancels \in Arrangements(ToCancel(book, want)),
         NEW resizes \in Arrangements(ToResize(book, want)),
         NEW places \in Arrangements(ToPlace(book, want)),
         DiffOk(book, want, places), ~Crossed(want), Sound(book)
  PROVE  StaysSound(book, DiffOps(book, want, mode, cancels, resizes, places))
<1> DEFINE ops == DiffOps(book, want, mode, cancels, resizes, places)
           a == Len(cancels)
           b == Len(cancels) + Len(resizes)
           base == [id \in Ids |-> IF book[id] > 0 THEN want[id] ELSE 0]
           p == PlaceOps(places, want)
<1>1. /\ ToCancel(book, want) \in SUBSET Ids /\ ToResize(book, want) \in SUBSET Ids
      /\ ToPlace(book, want) \in SUBSET Ids
  BY DEF ToCancel, ToResize, ToPlace, Resting
<1>2. /\ cancels \in Seq(Ids) /\ DOMAIN cancels = 1..a /\ a \in Nat
      /\ \A i \in 1..a : cancels[i] \in ToCancel(book, want)
      /\ \A id \in ToCancel(book, want) : \E i \in 1..a : cancels[i] = id
  BY <1>1, ArrangementType, ArrangementHits
<1>3. /\ resizes \in Seq(Ids) /\ DOMAIN resizes = 1..Len(resizes) /\ Len(resizes) \in Nat
      /\ \A i \in 1..Len(resizes) : resizes[i] \in ToResize(book, want)
      /\ \A id \in ToResize(book, want) : \E i \in 1..Len(resizes) : resizes[i] = id
  BY <1>1, ArrangementType, ArrangementHits
<1>4. /\ places \in Seq(Ids) /\ DOMAIN places = 1..Len(places) /\ Len(places) \in Nat
      /\ \A i \in 1..Len(places) : places[i] \in ToPlace(book, want)
      /\ \A i, j \in DOMAIN places : places[i] = places[j] => i = j
  BY <1>1, ArrangementType, ArrangementHits
<1>5. /\ Len(ops) = b + Len(places)
      /\ \A i \in 1..a : ops[i].id = cancels[i] /\ ops[i].new = 0
      /\ \A i \in (a + 1)..b : ops[i].id = resizes[i - a] /\ ops[i].new = want[resizes[i - a]]
      /\ \A i \in (b + 1)..Len(ops) :
           ops[i].id = places[i - b] /\ ops[i].new = want[places[i - b]]
  <2>1. a \in Nat /\ b \in Nat /\ a = Len(cancels) /\ b = a + Len(resizes)
    BY <1>2, <1>3
  <2>2. CancelsThenResizesThenPlaces(ops, cancels, resizes, places, want, a, b)
    <3> HIDE DEF a, b
    <3> QED BY <1>2, <1>3, <1>4, <2>1, DiffOpsAre
  <2> HIDE DEF ops, a, b
  <2> QED
    BY <2>2 DEF CancelsThenResizesThenPlaces
<1>6. /\ ops \in Seq(LevelOp)
      /\ \A i, j \in 1..Len(ops) : ops[i].id = ops[j].id => i = j
  <2>1. ops \in Seq(LevelOp) /\ OpsFrom(book, ops)
    BY DiffOpsFrom
  <2> HIDE DEF ops
  <2> QED BY <2>1 DEF OpsFrom
<1> HIDE DEF ops
<1>7. b \in Nat /\ b >= a
  BY <1>2, <1>3
<1>8. /\ \A id \in Ids : book[id] \in Nat /\ want[id] \in Nat
      /\ base \in Levels
  BY SizeAssumption DEF Levels, Size
<1>9. \A i \in 1..b : book[ops[i].id] > 0
  <2> SUFFICES ASSUME NEW i \in 1..b PROVE book[ops[i].id] > 0
    OBVIOUS
  <2>1. CASE i <= a
    <3>1. i \in 1..a
      BY <2>1, <1>7, <1>2
    <3> QED BY <3>1, <1>2, <1>5 DEF ToCancel, Resting
  <2>2. CASE i > a
    <3>1. i \in (a + 1)..b /\ i - a \in 1..Len(resizes)
      BY <2>2, <1>7, <1>2, <1>3
    <3> QED BY <3>1, <1>3, <1>5 DEF ToResize, Resting
  <2> QED
    BY <2>1, <2>2, <1>2, <1>7
<1> HIDE DEF base
<1>10. \A id \in Ids : base[id] = IF book[id] > 0 THEN want[id] ELSE 0
  BY DEF base
<1>11. Sound(base)
  BY <1>10, SoundLess
<1>12. \A i \in 1..Len(places) : p[i].id = places[i] /\ p[i].new = want[places[i]]
  BY <1>4, PlaceOpsAre
<1>13. Len(p) = Len(places)
  BY <1>4, PlaceOpsAre
<1> HIDE DEF p
\* Past the resizes the ops do what the place loop does to the book so far.
<1>14. ASSUME NEW n \in (b + 1)..Len(ops), NEW id \in Ids
       PROVE  AfterOps(book, ops, n)[id] = AfterOps(base, p, n - b)[id]
  <2>0. n \in Nat /\ n - b \in 1..Len(places) /\ n - b \in Nat /\ n <= Len(ops) /\ n > b
    BY <1>5, <1>7, <1>4
  <2>1. \A i, j \in 1..n : ops[i].id = ops[j].id => i = j
    BY <1>6, <2>0, <1>5, <1>7, <1>4
  <2>2. /\ \A i \in 1..n : ops[i].id = id => AfterOps(book, ops, n)[id] = ops[i].new
        /\ (\A i \in 1..n : ops[i].id # id) => AfterOps(book, ops, n)[id] = book[id]
    BY <2>0, <2>1, AfterUnique
  <2>3. \A i, j \in 1..(n - b) : p[i].id = p[j].id => i = j
    BY <1>12, <1>4, <2>0
  <2>4. /\ \A i \in 1..(n - b) : p[i].id = id => AfterOps(base, p, n - b)[id] = p[i].new
        /\ (\A i \in 1..(n - b) : p[i].id # id) => AfterOps(base, p, n - b)[id] = base[id]
    BY <2>0, <2>3, AfterUnique
  <2>5. CASE \E k \in 1..(n - b) : places[k] = id
    <3>1. PICK k \in 1..(n - b) : places[k] = id
      BY <2>5
    <3>2. k + b \in (b + 1)..Len(ops) /\ k + b \in 1..n /\ (k + b) - b = k /\ k \in 1..Len(places)
      BY <2>0, <1>5, <1>7, <1>4
    <3>3. ops[k + b].id = id /\ ops[k + b].new = want[id] /\ p[k].id = id /\ p[k].new = want[id]
      BY <3>1, <3>2, <1>5, <1>12
    <3> QED
      BY <2>2, <2>4, <3>2, <3>3
  <2>6. CASE ~ \E k \in 1..(n - b) : places[k] = id
    <3>1. AfterOps(base, p, n - b)[id] = base[id]
      <4>1. \A i \in 1..(n - b) : i \in 1..Len(places)
        BY <2>0
      <4> QED BY <2>4, <2>6, <1>12, <4>1
    <3>2. \A i \in (b + 1)..n : ops[i].id # id
      <4>1. \A i \in (b + 1)..n : i \in (b + 1)..Len(ops) /\ i - b \in 1..(n - b)
        BY <2>0, <1>5, <1>7, <1>4
      <4> QED BY <2>6, <1>5, <4>1
    <3>3. CASE id \in ToCancel(book, want)
      <4>1. PICK i \in 1..a : cancels[i] = id
        BY <1>2, <3>3
      <4>2. i \in 1..n
        BY <1>7, <1>2, <2>0
      <4>3. AfterOps(book, ops, n)[id] = 0
        BY <4>1, <4>2, <1>5, <2>2
      <4> QED
        BY <3>1, <3>3, <4>3, <1>10 DEF ToCancel, Resting
    <3>4. CASE id \in ToResize(book, want)
      <4>1. PICK i \in 1..Len(resizes) : resizes[i] = id
        BY <1>3, <3>4
      <4>2. i + a \in 1..n /\ i + a \in (a + 1)..b /\ (i + a) - a = i
        BY <1>7, <1>2, <1>3, <2>0
      <4>3. ops[i + a].id = id /\ ops[i + a].new = want[id]
        BY <1>5, <4>1, <4>2
      <4>4. AfterOps(book, ops, n)[id] = want[id]
        BY <4>2, <4>3, <2>2
      <4> QED
        BY <3>1, <3>4, <4>4, <1>10 DEF ToResize, Resting
    <3>5. CASE id \notin ToCancel(book, want) /\ id \notin ToResize(book, want)
      <4>1. \A i \in 1..n : ops[i].id # id
        <5> SUFFICES ASSUME NEW i \in 1..n PROVE ops[i].id # id
          OBVIOUS
        <5>1. CASE i \in 1..a
          BY <5>1, <1>2, <1>5, <3>5
        <5>2. CASE i \in (a + 1)..b
          <6>1. i - a \in 1..Len(resizes)
            BY <5>2, <1>2, <1>3
          <6> QED BY <5>2, <6>1, <1>3, <1>5, <3>5
        <5>3. CASE i \in (b + 1)..n
          BY <5>3, <3>2
        <5> QED
          BY <5>1, <5>2, <5>3, <1>2, <1>7, <2>0
      <4>2. AfterOps(book, ops, n)[id] = book[id]
        BY <4>1, <2>2
      <4>3. book[id] \in Nat /\ want[id] \in Nat
        BY <1>8
      <4>4. base[id] = book[id]
        BY <4>3, <1>10, <3>5 DEF ToCancel, ToResize, Resting
      <4> QED
        BY <4>2, <4>4, <3>1
    <3> QED
      BY <3>3, <3>4, <3>5
  <2> QED
    BY <2>5, <2>6
<1>15. ~Crossed(AfterOps(base, p, Len(places)))
  <2>1. \A id \in Ids : AfterOps(base, p, Len(places))[id] > 0 => want[id] > 0
    <3> SUFFICES ASSUME NEW id \in Ids PROVE AfterOps(base, p, Len(places))[id] > 0 => want[id] > 0
      OBVIOUS
    <3>1. \A i, j \in 1..Len(places) : p[i].id = p[j].id => i = j
      BY <1>12, <1>4
    <3>2. /\ \A i \in 1..Len(places) : p[i].id = id => AfterOps(base, p, Len(places))[id] = p[i].new
          /\ (\A i \in 1..Len(places) : p[i].id # id) => AfterOps(base, p, Len(places))[id] = base[id]
      BY <1>4, <3>1, AfterUnique
    <3> QED
      BY <3>2, <1>8, <1>10, <1>12
  <2> QED
    BY <2>1, UncrossedLess
<1>16. StaysSound(base, p)
  <2>1. PlacesOk(base, places, want)
    BY DEF DiffOk, base
  <2> QED
    BY <1>4, <1>8, <1>11, <1>15, <2>1, PlacesStaySound DEF p
<1> SUFFICES ASSUME NEW n \in 1..Len(ops) PROVE Sound(AfterOps(book, ops, n))
  BY DEF StaysSound, ops
<1>17. CASE n <= b
  <2>1. n \in 0..Len(ops) /\ \A i \in 1..n : i \in 1..b
    BY <1>17, <1>7, <1>5, <1>4
  <2> QED
    BY <1>6, <1>9, <2>1, WritesStaySound
<1>18. CASE n > b
  <2>1. n \in (b + 1)..Len(ops) /\ n - b \in 1..Len(p)
    BY <1>18, <1>7, <1>5, <1>4, <1>13
  <2>2. Sound(AfterOps(base, p, n - b))
    BY <1>16, <2>1 DEF StaysSound
  <2>3. \A id \in Ids : AfterOps(book, ops, n)[id] > 0 => AfterOps(base, p, n - b)[id] > 0
    BY <1>14, <2>1
  <2> QED
    BY <2>2, <2>3, SoundLess
<1> QED
  BY <1>17, <1>18, <1>7, <1>5, <1>4

\* modify: cancelling first makes room for the place on the same side.
LEMMA ModifyStaysSound ==
  ASSUME NEW book \in Levels, NEW id \in Ids, NEW new_id \in Ids, NEW new_size \in Size,
         NEW mode \in CancelMode, new_id.side = id.side,
         ModifyOk(book, id, new_id, new_size), Sound(book),
         LET ops == ModifyOps(book, id, new_id, new_size, mode)
         IN  ~Crossed(AfterOps(book, ops, Len(ops)))
  PROVE  StaysSound(book, ModifyOps(book, id, new_id, new_size, mode))
<1> DEFINE ops == ModifyOps(book, id, new_id, new_size, mode)
<1>1. ops \in Seq(LevelOp) /\ OpsFrom(book, ops)
  BY ModifyOpsFrom
<1>2. book[id] > 0 /\ ~Crossed(AfterOps(book, ops, Len(ops)))
  BY DEF ModifyOk
<1>3. CancelOp(book, id, mode).id = id /\ CancelOp(book, id, mode).new = 0
  BY DEF CancelOp, CancelAnyOp, ResizeOp
<1>4. CASE new_id = id \/ new_size = 0
  <2>1. Len(ops) = 1 /\ ops[1].id = id
    BY <1>3, <1>4 DEF ModifyOps, ResizeOp
  <2> HIDE DEF ops
  <2>2. ASSUME NEW n \in 1..Len(ops) PROVE Sound(AfterOps(book, ops, n))
    <3>1. n \in 0..Len(ops) /\ \A i \in 1..n : book[ops[i].id] > 0
      BY <1>2, <2>1
    <3> QED BY <1>1, <3>1, WritesStaySound
  <2> QED
    BY <2>2 DEF StaysSound, ops
<1>5. CASE new_id # id /\ new_size # 0
  <2>1. /\ Len(ops) = 2 /\ ops[1].id = id /\ ops[1].new = 0
        /\ ops[2].id = new_id /\ ops[2].new = new_size
    BY <1>3, <1>5 DEF ModifyOps, PlaceOp
  <2>2. SideCount([book EXCEPT ![id] = 0], new_id.side) < MAX_LEVELS
    BY <1>5, SizeAssumption DEF ModifyOk, CanPlace, Size
  <2> HIDE DEF ops
  <2>3. Sound(AfterOps(book, ops, 1))
    <3>1. 1 \in 0..Len(ops) /\ \A i \in 1..1 : book[ops[i].id] > 0
      BY <1>2, <2>1
    <3> QED BY <1>1, <3>1, WritesStaySound
  <2>4. \A k \in Ids :
          AfterOps(book, ops, 2)[k] =
            IF k = new_id THEN new_size ELSE IF k = id THEN 0 ELSE book[k]
    <3> SUFFICES ASSUME NEW k \in Ids
                 PROVE  AfterOps(book, ops, 2)[k] =
                          IF k = new_id THEN new_size ELSE IF k = id THEN 0 ELSE book[k]
      OBVIOUS
    <3>1. 2 \in Nat /\ 1..2 = {1, 2}
      OBVIOUS
    <3>2. \A i, j \in 1..2 : ops[i].id = ops[j].id => i = j
      BY <1>5, <2>1, <3>1
    <3>3. /\ \A i \in 1..2 : ops[i].id = k => AfterOps(book, ops, 2)[k] = ops[i].new
          /\ (\A i \in 1..2 : ops[i].id # k) => AfterOps(book, ops, 2)[k] = book[k]
      BY <3>1, <3>2, AfterUnique
    <3> QED
      BY <1>5, <2>1, <3>1, <3>3
  <2>5. ASSUME NEW side \in Sides PROVE SideCount(AfterOps(book, ops, 2), side) <= MAX_LEVELS
    <3> DEFINE after == AfterOps(book, ops, 2)
    <3>1. CASE side = new_id.side
      <4>1. \A k \in Ids : (k # new_id /\ k.side = new_id.side /\ after[k] > 0) =>
              [book EXCEPT ![id] = 0][k] > 0
        BY <2>4 DEF Levels
      <4> HIDE DEF after
      <4>2. SideCount(after, new_id.side) <= MAX_LEVELS
        BY <2>2, <4>1, PlaceFits
      <4> QED BY <3>1, <4>2 DEF after
    <3>2. CASE side # new_id.side
      <4>1. \A k \in Ids : (after[k] > 0 /\ k.side = side) => book[k] > 0
        BY <2>4, <3>2
      <4> HIDE DEF after
      <4>2. SideCount(after, side) <= SideCount(book, side)
        BY <4>1, SideLess
      <4>3. SideCount(book, side) <= MAX_LEVELS
        BY DEF Sound, WithinSides
      <4>4. SideCount(after, side) \in Nat /\ SideCount(book, side) \in Nat /\ MAX_LEVELS \in Nat
        BY SideFinite, LimitsAssumption
      <4>5. SideCount(after, side) <= MAX_LEVELS
        BY <4>2, <4>3, <4>4
      <4> QED BY <4>5 DEF after
    <3> QED
      BY <3>1, <3>2
  <2>6. Sound(AfterOps(book, ops, 2))
    BY <1>2, <2>1, <2>5 DEF Sound, WithinSides
  <2>7. ASSUME NEW n \in 1..Len(ops) PROVE Sound(AfterOps(book, ops, n))
    <3>1. n = 1 \/ n = 2
      BY <2>1
    <3> QED BY <2>3, <2>6, <3>1
  <2> QED
    BY <2>7 DEF StaysSound, ops
<1> QED
  BY <1>4, <1>5

\* Every build that sends level ops sends ones that keep the snapshot sound.
LEMMA BuildSendsSound ==
  ASSUME TypeOK, NEW t \in Tasks, Sound(snap[t].levels),
         BuildPlace(t) \/ BuildModify(t) \/ BuildCancel(t) \/ BuildReplaceAll(t)
  PROVE  \E ops \in Seq(LevelOp) :
           OpsFrom(snap[t].levels, ops) /\ StaysSound(snap[t].levels, ops) /\ SendOps(t, ops)
<1> DEFINE book == snap[t].levels
<1>1. book \in Levels
  BY DEF TypeOK, Snapshot
<1>2. CASE BuildPlace(t)
  <2>0. PICK want \in Levels :
          \E list \in Arrangements(Resting(want)) :
            /\ PlacesOk(book, list, want)
            /\ ~Crossed(AfterOps(book, PlaceOps(list, want), Len(list)))
            /\ SendOps(t, PlaceOps(list, want))
    BY <1>2 DEF BuildPlace
  <2>1. PICK list \in Arrangements(Resting(want)) :
          /\ PlacesOk(book, list, want)
          /\ ~Crossed(AfterOps(book, PlaceOps(list, want), Len(list)))
          /\ SendOps(t, PlaceOps(list, want))
    BY <2>0
  <2> HIDE DEF book
  <2>2. PlaceOps(list, want) \in Seq(LevelOp) /\ OpsFrom(book, PlaceOps(list, want))
    BY <1>1, <2>1, PlaceOpsFrom
  <2>3. /\ list \in Seq(Ids)
        /\ \A i, j \in DOMAIN list : list[i] = list[j] => i = j
    <3>1. Resting(want) \in SUBSET Ids
      BY DEF Resting
    <3> QED BY <3>1, ArrangementType
  <2>4. StaysSound(book, PlaceOps(list, want))
    BY <1>1, <2>1, <2>3, PlacesStaySound DEF book
  <2> QED
    BY <2>1, <2>2, <2>4 DEF book
<1>3. CASE BuildModify(t)
  <2>1. PICK id \in Ids, new_id \in Ids, new_size \in Size, mode \in Modes :
          LET ops == ModifyOps(book, id, new_id, new_size, mode)
          IN  /\ new_id.side = id.side
              /\ ModifyOk(book, id, new_id, new_size)
              /\ ~Crossed(AfterOps(book, ops, Len(ops)))
              /\ SendOps(t, ops)
    BY <1>3 DEF BuildModify
  <2>2. mode \in CancelMode
    BY ActorsAssumption
  <2> DEFINE ops == ModifyOps(book, id, new_id, new_size, mode)
  <2>3. ops \in Seq(LevelOp) /\ OpsFrom(book, ops)
    <3> HIDE DEF book
    <3> QED BY <1>1, <2>1, <2>2, ModifyOpsFrom
  <2>4. StaysSound(book, ops)
    <3>1. Sound(book)
      OBVIOUS
    <3> HIDE DEF book
    <3> QED BY <1>1, <2>1, <2>2, <3>1, ModifyStaysSound
  <2>5. SendOps(t, ops)
    BY <2>1
  <2> HIDE DEF ops
  <2> QED
    BY <2>3, <2>4, <2>5
<1>4. CASE BuildCancel(t)
  <2>1. PICK S \in SUBSET Resting(book), mode \in Modes :
          \E list \in Arrangements(S) : SendOps(t, CancelOps(book, list, mode))
    BY <1>4 DEF BuildCancel
  <2>2. PICK list \in Arrangements(S) : SendOps(t, CancelOps(book, list, mode))
    BY <2>1
  <2>3. mode \in CancelMode /\ S \in SUBSET Ids /\ \A id \in S : book[id] > 0
    BY ActorsAssumption DEF Resting
  <2> DEFINE ops == CancelOps(book, list, mode)
  <2>4. ops \in Seq(LevelOp) /\ OpsFrom(book, ops) /\ \A i \in DOMAIN ops : ops[i].id \in S
    <3> HIDE DEF book
    <3> QED BY <1>1, <2>3, CancelOpsFrom
  <2>5. SendOps(t, ops)
    BY <2>2
  <2> HIDE DEF ops
  <2>6. ASSUME NEW n \in 1..Len(ops) PROVE Sound(AfterOps(book, ops, n))
    <3>1. n \in 0..Len(ops) /\ \A i \in 1..n : i \in DOMAIN ops
      BY <2>4
    <3>2. \A i \in 1..n : book[ops[i].id] > 0
      BY <2>3, <2>4, <3>1
    <3> QED BY <1>1, <2>4, <3>1, <3>2, WritesStaySound
  <2> QED
    BY <2>4, <2>5, <2>6 DEF StaysSound
<1>5. CASE BuildReplaceAll(t)
  <2>1. PICK want \in Levels, mode \in Modes :
          \E cancels \in Arrangements(ToCancel(book, want)),
             resizes \in Arrangements(ToResize(book, want)),
             places \in Arrangements(ToPlace(book, want)) :
            /\ DiffOk(book, want, places) /\ ~Crossed(want)
            /\ SendOps(t, DiffOps(book, want, mode, cancels, resizes, places))
    BY <1>5 DEF BuildReplaceAll
  <2>2. PICK cancels \in Arrangements(ToCancel(book, want)),
             resizes \in Arrangements(ToResize(book, want)),
             places \in Arrangements(ToPlace(book, want)) :
            /\ DiffOk(book, want, places) /\ ~Crossed(want)
            /\ SendOps(t, DiffOps(book, want, mode, cancels, resizes, places))
    BY <2>1
  <2>3. mode \in CancelMode /\ Sound(book)
    BY ActorsAssumption
  <2> DEFINE ops == DiffOps(book, want, mode, cancels, resizes, places)
  <2>4. ops \in Seq(LevelOp) /\ OpsFrom(book, ops)
    <3> HIDE DEF book
    <3> QED BY <1>1, <2>3, DiffOpsFrom
  <2>5. StaysSound(book, ops)
    <3> HIDE DEF book
    <3> QED BY <1>1, <2>2, <2>3, DiffStaysSound
  <2>6. SendOps(t, ops)
    BY <2>2
  <2> HIDE DEF ops
  <2> QED
    BY <2>4, <2>5, <2>6
<1> QED
  BY <1>2, <1>3, <1>4, <1>5

\* The last chunk ends with the last op.
LEMMA LastChunkEnds ==
  ASSUME NEW ops \in Seq(LevelOp), ops # <<>>
  PROVE  /\ NumChunks(ops) \in 1..NumChunks(ops)
         /\ ChunkEnd(ops, NumChunks(ops)) = Len(ops)
<1> DEFINE a == Len(ops) + MAX_LEVEL_OPS - 1
           q == a \div MAX_LEVEL_OPS
<1>1. MAX_LEVEL_OPS \in Nat /\ MAX_LEVEL_OPS > 0 /\ Len(ops) \in Nat
  BY LimitsAssumption
<1>2. a \in Nat /\ q \in Int
  BY <1>1
<1>3. a < MAX_LEVEL_OPS * (q + 1)
  BY <1>1, <1>2
<1>4. MAX_LEVEL_OPS * (q + 1) = q * MAX_LEVEL_OPS + MAX_LEVEL_OPS
  BY <1>1, <1>2
<1>5. q * MAX_LEVEL_OPS \in Int
  BY <1>1, <1>2
<1>6. ~(q * MAX_LEVEL_OPS < Len(ops))
  <2> DEFINE m == q * MAX_LEVEL_OPS
  <2>1. Len(ops) + MAX_LEVEL_OPS - 1 < m + MAX_LEVEL_OPS
    BY <1>3, <1>4
  <2>2. m \in Int
    BY <1>5
  <2> HIDE DEF m
  <2>3. ~(m < Len(ops))
    BY <1>1, <2>1, <2>2
  <2> QED BY <2>3 DEF m
<1>7. NumChunks(ops) = q
  BY DEF NumChunks
<1> HIDE DEF q
<1> QED
  BY <1>6, <1>7, NumChunksType DEF ChunkEnd

\* A call's soundness survives a step that leaves its reads and its
\* transaction alone.
LEMMA SentSoundKept ==
  ASSUME NEW u \in Tasks, SentSound(u), pc'[u] = pc[u], snap'[u] = snap[u],
         reg'[u] = reg[u], tx'[u] = tx[u]
  PROVE  SentSound(u)'
BY DEF SentSound

\* Ending a call keeps every snapshot and transaction sound.
LEMMA FinishSound ==
  ASSUME TypeOK, SoundInv, NEW t \in Tasks, Finish(t), Sound(levels')
  PROVE  SoundInv'
<1> SUFFICES ASSUME NEW u \in Tasks PROVE Sound(snap'[u].levels) /\ SentSound(u)'
  BY DEF SoundInv
<1>1. CASE u = t
  <2>1. pc'[u] = "idle" /\ snap'[u].levels = EmptyBook
    BY <1>1 DEF Finish, TypeOK, NoSnap
  <2> QED BY <2>1, EmptySound DEF SentSound
<1>2. CASE u # t
  <2>1. pc'[u] = pc[u] /\ snap'[u] = snap[u] /\ reg'[u] = reg[u] /\ tx'[u] = tx[u]
    BY <1>2 DEF Finish, TypeOK
  <2> QED BY <2>1, SentSoundKept DEF SoundInv
<1> QED
  BY <1>1, <1>2

\* Sending a transaction keeps them sound, if what is sent is.
LEMMA SendSound ==
  ASSUME TypeOK, SoundInv, NEW t \in Tasks, NEW trans, Send(t, trans),
         trans.kind = "ops" =>
           /\ trans.books = ChunkBooks(trans.ops, reg[t], Me)
           /\ ~SplitRequired(trans.ops, reg[t], Me)
           /\ StaysSound(snap[t].levels, trans.ops)
  PROVE  SoundInv'
<1>0. levels' = levels /\ snap' = snap /\ reg' = reg
  BY DEF Send, chain
<1> SUFFICES ASSUME NEW u \in Tasks PROVE SentSound(u)'
  BY <1>0 DEF SoundInv
<1>1. CASE u = t
  <2>1. tx'[u] = trans
    BY <1>1 DEF Send, TypeOK
  <2> QED BY <1>0, <1>1, <2>1 DEF SentSound
<1>2. CASE u # t
  <2>1. pc'[u] = pc[u] /\ tx'[u] = tx[u]
    BY <1>2 DEF Send, TypeOK
  <2> QED BY <1>0, <2>1, SentSoundKept DEF SoundInv
<1> QED
  BY <1>1, <1>2

\* The initial state is sound.
LEMMA InitSound == Init => SoundInv
<1> SUFFICES ASSUME Init PROVE SoundInv
  OBVIOUS
<1> QED
  BY EmptySound DEF Init, SoundInv, SentSound, NoSnap

\* Every step keeps the chain, the snapshots and the transactions sound: the
\* program accepts level ops only if they leave the book so.
LEMMA NextSound == IInv /\ SoundInv /\ [Next]_vars => SoundInv'
<1> SUFFICES ASSUME IInv, SoundInv, [Next]_vars PROVE SoundInv'
  OBVIOUS
<1> USE DEF IInv
<1>1. ASSUME NEW t \in Tasks, ReadBook(t) PROVE SoundInv'
  <2>0. levels' = levels /\ reg' = reg /\ tx' = tx
    BY <1>1 DEF ReadBook, chain
  <2> SUFFICES ASSUME NEW u \in Tasks PROVE Sound(snap'[u].levels) /\ SentSound(u)'
    BY <2>0 DEF SoundInv
  <2>1. CASE u = t
    <3>1. pc'[u] = "book" /\ snap'[u].levels = levels
      BY <1>1, <2>1 DEF ReadBook, TypeOK
    <3> QED BY <3>1 DEF SoundInv, SentSound
  <2>2. CASE u # t
    <3>1. pc'[u] = pc[u] /\ snap'[u] = snap[u]
      BY <1>1, <2>2 DEF ReadBook, TypeOK
    <3> QED BY <2>0, <3>1, SentSoundKept DEF SoundInv
  <2> QED
    BY <2>1, <2>2
<1>2. ASSUME NEW t \in Tasks, ReadRegistry(t) PROVE SoundInv'
  <2>0. levels' = levels /\ snap' = snap /\ tx' = tx
    BY <1>2 DEF ReadRegistry, chain
  <2> SUFFICES ASSUME NEW u \in Tasks PROVE SentSound(u)'
    BY <2>0 DEF SoundInv
  <2>1. CASE u = t
    <3>1. pc'[u] = "ready"
      BY <1>2, <2>1 DEF ReadRegistry, TypeOK
    <3> QED BY <3>1 DEF SentSound
  <2>2. CASE u # t
    <3>1. pc'[u] = pc[u] /\ reg'[u] = reg[u]
      BY <1>2, <2>2 DEF ReadRegistry, TypeOK
    <3> QED BY <2>0, <3>1, SentSoundKept DEF SoundInv
  <2> QED
    BY <2>1, <2>2
<1>3. ASSUME NEW t \in Tasks, GiveUp(t) \/ Reject(t) PROVE SoundInv'
  <2>1. Finish(t) /\ levels' = levels
    BY <1>3 DEF GiveUp, Reject, chain
  <2> QED
    BY <2>1, FinishSound DEF SoundInv
<1>4. ASSUME NEW t \in Tasks,
             BuildPlace(t) \/ BuildModify(t) \/ BuildCancel(t) \/ BuildReplaceAll(t)
      PROVE  SoundInv'
  <2>1. PICK ops \in Seq(LevelOp) : StaysSound(snap[t].levels, ops) /\ SendOps(t, ops)
    BY <1>4, BuildSendsSound DEF SoundInv
  <2> DEFINE trans == [kind |-> "ops", init |-> ~snap[t].exists, ops |-> ops,
                       books |-> ChunkBooks(ops, reg[t], Me), seq |-> snap[t].seq + 1]
  <2>2. Send(t, trans) /\ ~SplitRequired(ops, reg[t], Me)
    BY <2>1 DEF SendOps
  <2>3. trans.ops = ops /\ trans.books = ChunkBooks(ops, reg[t], Me)
    OBVIOUS
  <2> HIDE DEF trans
  <2> QED
    BY <2>1, <2>2, <2>3, SendSound
<1>5. ASSUME NEW t \in Tasks, BuildCancelAll(t) \/ BuildClose(t) PROVE SoundInv'
  <2>1. PICK kind \in {"clear", "close"} : SendClear(t, kind)
    BY <1>5 DEF BuildCancelAll, BuildClose
  <2> DEFINE trans == [kind |-> kind, init |-> FALSE, ops |-> <<>>, books |-> <<>>,
                       seq |-> snap[t].seq + 1]
  <2>2. Send(t, trans)
    BY <2>1 DEF SendClear
  <2>3. trans.kind # "ops"
    BY <2>1
  <2> HIDE DEF trans
  <2> QED
    BY <2>2, <2>3, SendSound
<1>6. ASSUME NEW t \in Tasks, LandOps(t) PROVE SoundInv'
  <2> DEFINE ops == tx[t].ops
             base == BaseLevels(tx[t])
  <2>1. /\ Finish(t) /\ ops \in Seq(LevelOp)
        /\ levels' = AfterOps(base, ops, Len(ops))
    BY <1>6, LandOpsFacts
  <2>2. ops # <<>>
    BY <1>6 DEF LandOps, ReadsAreHistory, TxFromSnap
  <2>3. PICK s : OpsAccepted(tx[t], s)
    BY <1>6 DEF LandOps
  <2>4. /\ \A i \in 1..Len(ops) : WithinSides(AfterOps(base, ops, i))
        /\ \A k \in 1..NumChunks(ops) : ~Crossed(AfterOps(base, ops, ChunkEnd(ops, k)))
    BY <2>3 DEF OpsAccepted
  <2> HIDE DEF ops, base
  <2>5. Len(ops) \in 1..Len(ops)
    BY <2>1, <2>2
  <2>6. /\ NumChunks(ops) \in 1..NumChunks(ops)
        /\ ChunkEnd(ops, NumChunks(ops)) = Len(ops)
    BY <2>1, <2>2, LastChunkEnds
  <2>7. Sound(levels')
    BY <2>1, <2>4, <2>5, <2>6 DEF Sound
  <2> QED
    BY <2>1, <2>7, FinishSound
<1>7. ASSUME NEW t \in Tasks, LandClear(t) \/ LandClose(t) PROVE SoundInv'
  <2>1. Finish(t) /\ levels' = EmptyBook
    BY <1>7 DEF LandClear, LandClose
  <2> QED
    BY <2>1, EmptySound, FinishSound
<1>8. ASSUME NEW id \in Ids, NEW n \in 1..MaxSize, Fill(id, n) PROVE SoundInv'
  <2>1. /\ levels' = [levels EXCEPT ![id] = @ - n] /\ n \in 1..levels[id]
        /\ pc' = pc /\ snap' = snap /\ reg' = reg /\ tx' = tx
    BY <1>8 DEF Fill
  <2>2. \A k \in Ids : levels'[k] > 0 => levels[k] > 0
    BY <2>1, SizeAssumption DEF TypeOK, Levels, Size
  <2>3. Sound(levels')
    BY <2>2, SoundLess DEF SoundInv
  <2> QED
    BY <2>1, <2>3, SentSoundKept DEF SoundInv
<1>9. ASSUME NEW S \in SUBSET Books, ChangeRegistry(S) PROVE SoundInv'
  <2>1. levels' = levels /\ pc' = pc /\ snap' = snap /\ reg' = reg /\ tx' = tx
    BY <1>9 DEF ChangeRegistry, calls
  <2> QED
    BY <2>1, SentSoundKept DEF SoundInv
<1>10. CASE UNCHANGED vars
  <2>1. levels' = levels /\ pc' = pc /\ snap' = snap /\ reg' = reg /\ tx' = tx
    BY <1>10 DEF vars, chain, calls
  <2> QED
    BY <2>1, SentSoundKept DEF SoundInv
<1> QED
  BY <1>1, <1>2, <1>3, <1>4, <1>5, <1>6, <1>7, <1>8, <1>9, <1>10 DEF Next

\* Whichever seat the program gives the book, the second and later placing
\* chunks name the registry as it is then: the fetched set with this book in
\* it, or the builder had refused to build.
LEMMA SeatIsNamed ==
  ASSUME NEW ops \in Seq(LevelOp), NEW k \in PlacingChunks(ops), PlacedBefore(ops, k),
         ~SplitRequired(ops, seats, Me), seats \in SUBSET Books, NEW s \in SeatOutcomes
  PROVE  s = seats \cup {Me}
<1>1. IsFiniteSet(seats)
  BY ActorsAssumption, FS_Subset
<1>2. Cardinality(seats) \in Nat /\ MAX_SEATED_MAKERS \in Nat
  BY <1>1, FS_CardinalityType, LimitsAssumption
<1>3. Me \in seats \/ Cardinality(seats) < MAX_SEATED_MAKERS
  BY <1>2 DEF SplitRequired
<1> QED
  BY <1>3 DEF SeatOutcomes

\* A transaction whose reads are still current is accepted in every state that
\* satisfies the two invariants.
LEMMA FreshLands == IInv /\ SoundInv => FreshTxLands
<1> SUFFICES ASSUME IInv, SoundInv, NEW t \in Tasks,
                    pc[t] = "sent", tx[t].kind = "ops", StillFresh(t),
                    NEW s \in IF MaySeat(tx[t].ops) THEN SeatOutcomes ELSE {seats}
             PROVE  OpsAccepted(tx[t], s)
  BY DEF FreshTxLands
<1> DEFINE ops == tx[t].ops
           base == BaseLevels(tx[t])
<1>1. /\ snap[t].exists = exists /\ snap[t].levels = levels /\ snap[t].seq = seq
      /\ MaySeat(ops) => reg[t] = seats
  BY DEF StillFresh
<1>2. /\ ops \in Seq(LevelOp) /\ levels \in Levels /\ seq \in Nat /\ seats \in SUBSET Books
      /\ exists \in BOOLEAN
  BY DEF IInv, TypeOK, Tx
<1>3. /\ tx[t].seq = seq + 1 /\ tx[t].init = ~exists
      /\ ops # <<>> /\ OpsFrom(levels, ops)
      /\ ~exists => levels = EmptyBook /\ seq = 0
  BY <1>1 DEF IInv, ReadsAreHistory, TxFromSnap
<1>4. /\ tx[t].books = ChunkBooks(ops, reg[t], Me)
      /\ ~SplitRequired(ops, reg[t], Me)
      /\ StaysSound(levels, ops)
  BY <1>1 DEF SoundInv, SentSound
<1>5. base = levels /\ BaseSeq(tx[t]) = seq
  BY <1>3 DEF BaseLevels, BaseSeq
<1> HIDE DEF ops, base
<1>6. SeqOk(BaseSeq(tx[t]), tx[t].seq)
  BY <1>2, <1>3, <1>5, BoundsAssumption DEF SeqOk
<1>7. ASSUME NEW i \in 1..Len(ops)
      PROVE  /\ ops[i].expected \in {LEVEL_OP_EXPECTED_ANY, AfterOps(base, ops, i - 1)[ops[i].id]}
             /\ WithinSides(AfterOps(base, ops, i))
  <2>1. i \in DOMAIN ops
    BY <1>2
  <2>2. AfterOps(levels, ops, i - 1)[ops[i].id] = levels[ops[i].id]
    BY <1>2, <1>3, <2>1, FirstNaming DEF OpsFrom
  <2>3. ops[i].expected = levels[ops[i].id] \/ ops[i] = CancelAnyOp(ops[i].id)
    BY <1>3, <2>1 DEF OpsFrom
  <2>4. ops[i] = CancelAnyOp(ops[i].id) => ops[i].expected = LEVEL_OP_EXPECTED_ANY
    BY DEF CancelAnyOp
  <2> QED
    BY <1>4, <1>5, <2>2, <2>3, <2>4 DEF StaysSound, Sound
<1>8. ASSUME NEW k \in 1..NumChunks(ops)
      PROVE  ~Crossed(AfterOps(base, ops, ChunkEnd(ops, k)))
  <2>1. NumChunks(ops) \in Nat /\ MAX_LEVEL_OPS \in Nat \ {0} /\ Len(ops) \in Nat
    BY <1>2, NumChunksType, LimitsAssumption
  <2>2. Len(ops) >= 1
    BY <1>2, <1>3
  <2>3. k * MAX_LEVEL_OPS \in Nat /\ k * MAX_LEVEL_OPS >= 1
    BY <2>1
  <2>4. ChunkEnd(ops, k) \in 1..Len(ops)
    <3> DEFINE m == k * MAX_LEVEL_OPS
    <3>1. m \in Nat /\ m >= 1
      BY <2>3
    <3>2. ChunkEnd(ops, k) = IF m < Len(ops) THEN m ELSE Len(ops)
      BY DEF ChunkEnd
    <3> HIDE DEF m
    <3> QED BY <2>1, <2>2, <3>1, <3>2
  <2> QED
    BY <1>4, <1>5, <2>4 DEF StaysSound, Sound
<1>9. ASSUME NEW k \in PlacingChunks(ops)
      PROVE  tx[t].books[k] = IF PlacedBefore(ops, k) THEN s ELSE seats
  <2>1. k \in 1..NumChunks(ops) /\ MaySeat(ChunkOf(ops, k))
    BY DEF PlacingChunks
  <2>2. MaySeat(ops)
    <3> DEFINE m == (k - 1) * MAX_LEVEL_OPS + 1
               n == ChunkEnd(ops, k)
    <3>1. NumChunks(ops) \in Nat /\ MAX_LEVEL_OPS \in Nat \ {0} /\ Len(ops) \in Nat
      BY <1>2, NumChunksType, LimitsAssumption
    <3>2. m \in Nat /\ m >= 1 /\ n \in Nat /\ n <= Len(ops)
      <4>1. (k - 1) * MAX_LEVEL_OPS \in Nat /\ k * MAX_LEVEL_OPS \in Nat
        BY <2>1, <3>1
      <4>2. m \in Nat /\ m >= 1
        BY <4>1
      <4>3. n \in Nat /\ n <= Len(ops)
        BY <3>1, <4>1 DEF ChunkEnd
      <4> QED BY <4>2, <4>3
    <3>3. PICK i \in DOMAIN ChunkOf(ops, k) : MayPlaceOrGrow(ChunkOf(ops, k)[i])
      BY <2>1 DEF MaySeat
    <3>4. ChunkOf(ops, k) = SubSeq(ops, m, n)
      BY DEF ChunkOf
    <3> HIDE DEF m, n
    <3>5. i \in DOMAIN SubSeq(ops, m, n) /\ MayPlaceOrGrow(SubSeq(ops, m, n)[i])
      BY <3>3, <3>4
    <3>6. DOMAIN SubSeq(ops, m, n) = 1..(n - m + 1)
      BY <1>2, <3>2
    <3>7. i \in 1..(n - m + 1)
      BY <3>5, <3>6
    <3>8. SubSeq(ops, m, n)[i] = ops[m + i - 1] /\ m + i - 1 \in DOMAIN ops
      BY <1>2, <3>2, <3>7
    <3> QED
      BY <3>5, <3>8 DEF MaySeat
  <2>3. reg[t] = seats /\ s \in SeatOutcomes
    BY <1>1, <2>2 DEF ops
  <2>4. tx[t].books[k] = IF PlacedBefore(ops, k) THEN seats \cup {Me} ELSE seats
    BY <1>4, <2>1, <2>3 DEF ChunkBooks
  <2>5. PlacedBefore(ops, k) => s = seats \cup {Me}
    BY <1>2, <1>4, <2>3, SeatIsNamed
  <2> QED
    BY <2>4, <2>5
<1> QED
  BY <1>3, <1>6, <1>7, <1>8, <1>9 DEF OpsAccepted, ops, base

\* The chain's book, the snapshots and the transactions in flight stay sound.
THEOREM SoundInvariance == Spec => []SoundInv
<1>1. IInv /\ [Next]_vars => IInv'
  BY NextType, NextHistory DEF IInv
<1> QED
  BY <1>1, InitInv, InitSound, NextSound, PTL DEF Spec

\* Whatever the orders, the chunk size, the registry and the seat the program
\* gives: a transaction of level ops whose reads are still current passes every
\* check of the program.  place, modify, cancel and replace_all never build one
\* that the program would refuse for its sequence number, a guard, a full side,
\* a crossed book between two chunks or the registry a chunk names.
THEOREM FreshLanding == Spec => []FreshTxLands
<1>1. IInv /\ [Next]_vars => IInv'
  BY NextType, NextHistory DEF IInv
<1> QED
  BY <1>1, InitInv, InitSound, NextSound, FreshLands, PTL DEF Spec
=============================================================================
