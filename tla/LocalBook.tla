------------------------------ MODULE LocalBook ------------------------------
(***************************************************************************)
(* The client's snapshot of a limit-order (LO) book and the level ops that *)
(* change it: limit_order/book.rs, onchain/level_op.rs and push_level_ops  *)
(* of limit_order/actions.rs.                                              *)
(*                                                                         *)
(* A book is a function from order ids to resting sizes, 0 where nothing   *)
(* rests.  (LocalBook keeps a vector of the active pairs; ids in it are    *)
(* unique because place refuses a duplicate, so the function carries the   *)
(* same information up to the order of the vector.)  The loops of book.rs  *)
(* are written as sequences of ops, one entry per iteration.               *)
(***************************************************************************)
EXTENDS Integers, Sequences, FiniteSets, Functions

CONSTANTS
  Ids,            \* LimitOrderId: records [side, price_ticks]
  MaxSize,        \* largest size (in base lots) a caller asks for
  U64_MAX,        \* the u64 ceiling; only its distance from MaxSize matters
  MAX_LEVELS,     \* levels a side of a book holds (16)
  MAX_LEVEL_OPS,  \* ops one UpdateBookLimit carries (32)
  MAX_SEATED_MAKERS, \* seats of the maker registry (48)
  Books           \* the maker book accounts of the market

Sides == {"Bid", "Ask"}

ASSUME IdsAssumption ==
  /\ IsFiniteSet(Ids)
  /\ Ids \subseteq [side : Sides, price_ticks : Nat]

\* Level sizes stay below the sentinel: validate_level_size bounds them far
\* below u64::MAX.
ASSUME SizeAssumption == MaxSize \in Nat /\ U64_MAX \in Nat /\ MaxSize < U64_MAX

ASSUME LimitsAssumption ==
  /\ MAX_LEVELS \in Nat \ {0}
  /\ MAX_LEVEL_OPS \in Nat \ {0}
  /\ MAX_SEATED_MAKERS \in Nat

Size == 0 .. MaxSize
Levels == [Ids -> Size]
CancelMode == {"Any", "Strict"}

-----------------------------------------------------------------------------
(* LevelOp *)

\* expected_size of an op that skips the compare-and-set check.
LEVEL_OP_EXPECTED_ANY == U64_MAX

LevelOp == [id : Ids, expected : Size \cup {LEVEL_OP_EXPECTED_ANY}, new : Size]

PlaceOp(id, size) == [id |-> id, expected |-> 0, new |-> size]
CancelAnyOp(id) == [id |-> id, expected |-> LEVEL_OP_EXPECTED_ANY, new |-> 0]
\* Mutants: expected and new size swapped; the new size taken as a delta.
ResizeOpSwapped(id, observed, size) == [id |-> id, expected |-> size, new |-> observed]
ResizeOpAsDelta(id, observed, size) ==
  [id |-> id, expected |-> observed, new |-> observed + size]

\* Mutant: the observed size not sent as a guard.
ResizeOpUnguarded(id, observed, size) ==
  [id |-> id, expected |-> LEVEL_OP_EXPECTED_ANY, new |-> size]

ResizeOp(id, observed, size) == [id |-> id, expected |-> observed, new |-> size]

\* Mutant: the test for a cancel forgotten.
MayPlaceOrGrowOnCancel(op) ==
  op.expected = LEVEL_OP_EXPECTED_ANY \/ op.new > op.expected

\* LevelOp::may_place_or_grow: could this op add resting size?
MayPlaceOrGrow(op) ==
  /\ op.new > 0
  /\ \/ op.expected = LEVEL_OP_EXPECTED_ANY
     \/ op.new > op.expected

\* level_ops_may_seat: does any op of the chunk place or grow a level?
MaySeat(ops) == \E i \in DOMAIN ops : MayPlaceOrGrow(ops[i])

-----------------------------------------------------------------------------
(* LocalBook *)

EmptyBook == [id \in Ids |-> 0]

\* The ids at which something rests.
Resting(book) == {id \in Ids : book[id] > 0}

SideCount(book, side) == Cardinality({id \in Resting(book) : id.side = side})

\* check_not_crossed fails: the best bid reaches the best ask.
Crossed(book) ==
  \E bid, ask \in Resting(book) :
    /\ bid.side = "Bid" /\ ask.side = "Ask"
    /\ bid.price_ticks >= ask.price_ticks

WithinSides(book) == \A side \in Sides : SideCount(book, side) <= MAX_LEVELS

\* The book after the first n ops of a list: the last op naming an id wins.
AfterOps(book, ops, n) ==
  [id \in Ids |->
    IF \E i \in 1..n : ops[i].id = id
      THEN ops[CHOOSE i \in 1..n :
                 /\ ops[i].id = id
                 /\ \A j \in 1..n : ops[j].id = id => j <= i].new
      ELSE book[id]]

\* Every order of a set of ids, one sequence per arrangement: a caller's list
\* without duplicates, or a vector's iteration order.
Arrangements(S) == Injection(1..Cardinality(S), S)

\* LocalBook::place succeeds for an order of this size at this id, on a book
\* holding these levels.
CanPlace(book, id, size) ==
  /\ size # 0
  /\ id.price_ticks # 0
  /\ book[id] = 0
  /\ SideCount(book, id.side) < MAX_LEVELS

\* The place loop of build_place over the caller's list of orders, in the
\* order the list gives; want[id] is the size asked for at id.
PlaceOps(list, want) == [i \in DOMAIN list |-> PlaceOp(list[i], want[list[i]])]

PlacesOk(book, list, want) ==
  \A i \in DOMAIN list :
    CanPlace(AfterOps(book, PlaceOps(list, want), i - 1), list[i], want[list[i]])

\* LocalBook::cancel of a resting order under a cancel mode.
CancelOp(book, id, mode) ==
  IF mode = "Any" THEN CancelAnyOp(id) ELSE ResizeOp(id, book[id], 0)

\* The cancel loop of build_cancel over a list of distinct ids.
CancelOps(book, list, mode) ==
  [i \in DOMAIN list |-> CancelOp(book, list[i], mode)]

\* The resizes of diff_to, strict always.
ResizeOps(book, list, want) ==
  [i \in DOMAIN list |-> ResizeOp(list[i], book[list[i]], want[list[i]])]

\* build_modify: a strict resize when the id is kept, otherwise a cancel under
\* the mode, followed by a place unless the new size is zero.
ModifyOps(book, id, new_id, new_size, mode) ==
  IF new_id = id THEN << ResizeOp(id, book[id], new_size) >>
  ELSE IF new_size = 0 THEN << CancelOp(book, id, mode) >>
  ELSE << CancelOp(book, id, mode), PlaceOp(new_id, new_size) >>

ModifyOk(book, id, new_id, new_size) ==
  /\ book[id] > 0
  /\ (new_id # id /\ new_size > 0) =>
        CanPlace([book EXCEPT ![id] = 0], new_id, new_size)

\* diff_to: what is cancelled, resized and placed to reach the desired set.
ToCancel(book, want) == {id \in Resting(book) : want[id] = 0}
ToResize(book, want) == {id \in Resting(book) : want[id] \notin {0, book[id]}}
ToPlace(book, want)  == {id \in Ids : want[id] > 0 /\ book[id] = 0}

DiffOps(book, want, mode, cancels, resizes, places) ==
  CancelOps(book, cancels, mode)
    \o ResizeOps(book, resizes, want)
    \o PlaceOps(places, want)

DiffOk(book, want, places) ==
  PlacesOk([id \in Ids |-> IF book[id] > 0 THEN want[id] ELSE 0], places, want)

-----------------------------------------------------------------------------
(* push_level_ops: chunks of MAX_LEVEL_OPS ops, one UpdateBookLimit each *)

NumChunks(ops) == (Len(ops) + MAX_LEVEL_OPS - 1) \div MAX_LEVEL_OPS

\* Position of the last op of chunk k.
ChunkEnd(ops, k) ==
  IF k * MAX_LEVEL_OPS < Len(ops) THEN k * MAX_LEVEL_OPS ELSE Len(ops)

ChunkOf(ops, k) == SubSeq(ops, (k - 1) * MAX_LEVEL_OPS + 1, ChunkEnd(ops, k))

PlacingChunks(ops) == {k \in 1..NumChunks(ops) : MaySeat(ChunkOf(ops, k))}

\* Does a chunk before chunk k place or grow a level?
PlacedBefore(ops, k) == \E j \in PlacingChunks(ops) : j < k

\* RegistryFullSplitRequired: an unseated book, a full registry and a second
\* placing chunk that would have to name the evicted seat.
SplitRequired(ops, registry_books, me) ==
  /\ me \notin registry_books
  /\ Cardinality(registry_books) >= MAX_SEATED_MAKERS
  /\ \E k \in PlacingChunks(ops) : PlacedBefore(ops, k)

\* Mutant: seating not tracked across chunks.
ChunkBooksAsFetched(ops, registry_books, me) ==
  [k \in 1..NumChunks(ops) |-> IF k \in PlacingChunks(ops) THEN registry_books ELSE {}]

\* The registry books each chunk carries: none when it cannot seat, the
\* fetched set for the first placing chunk, and from the second on the set
\* with this book in it.
ChunkBooks(ops, registry_books, me) ==
  [k \in 1..NumChunks(ops) |->
     IF k \notin PlacingChunks(ops) THEN {}
     ELSE IF PlacedBefore(ops, k) THEN registry_books \cup {me}
     ELSE registry_books]
=============================================================================
