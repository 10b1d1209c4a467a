----------------------------- MODULE LimitOrders -----------------------------
(***************************************************************************)
(* The read-modify-write protocol of the limit-order client                *)
(* (limit_order/actions.rs and the limit-order methods of client.rs)       *)
(* against the on-chain LO book and the maker registry.                    *)
(*                                                                         *)
(* Several calls may be in flight for one owner (the client's methods take *)
(* &self).  A call reads the book, then the registry, each in its own RPC, *)
(* builds one transaction from what it read, and the transaction lands     *)
(* later, atomically, or never.  Takers fill resting levels, and other     *)
(* makers and the global authority change the registry, at any time in     *)
(* between.                                                                *)
(*                                                                         *)
(* The program is not part of the repository: LandOps, LandClear,          *)
(* LandClose, Fill and ChangeRegistry are what instruction.rs documents    *)
(* and the builders rely on.  Collateral, post-only rejection, suspension  *)
(* and every other reason the program may have to refuse a transaction is  *)
(* the action Reject, which may happen to any transaction in flight.       *)
(***************************************************************************)
EXTENDS LocalBook

CONSTANTS
  Tasks,             \* concurrent calls of one owner on one market
  Me,                \* the owner's maker book account
  MMBooks,           \* market-maker books: never displaced by a placing LO
  MAX_SEQUENCE_JUMP, \* how far a sequence number may run ahead (65535)
  Calls,             \* the client methods the tasks use
  Modes,             \* the cancel modes the callers use
  MaxBatch,          \* bound: orders or ids named by one call
  MaxSeq,            \* bound: sequence numbers written to one book
  MaxEpoch           \* bound: times the book account is initialized

ASSUME ActorsAssumption ==
  /\ Me \in Books
  /\ MMBooks \subseteq Books \ {Me}
  /\ Modes \subseteq CancelMode
  /\ IsFiniteSet(Books)

ASSUME BoundsAssumption ==
  /\ MAX_SEQUENCE_JUMP \in Nat \ {0}
  /\ MaxSeq \in Nat
  /\ MaxEpoch \in Nat
  /\ MaxBatch \in Nat

VARIABLES
  exists,  \* does the owner's MakerBook account exist
  epoch,   \* history: times the account has been initialized
  levels,  \* its resting levels
  seq,     \* its last_updated_sequence_number
  seats,   \* the books seated in the market's maker registry
  pc,      \* where each call stands
  snap,    \* the book each call read
  reg,     \* PostOnly.registry_books of each call
  tx,      \* the transaction each call sent
  filled   \* history: lots filled at each level since the call's read

chain == <<exists, epoch, levels, seq, seats>>
calls == <<pc, snap, reg, tx, filled>>
vars == <<chain, calls>>

Snapshot == [exists : BOOLEAN, epoch : Nat, levels : Levels, seq : Nat]
Kinds == {"none", "ops", "clear", "close"}
Tx == [kind : Kinds, init : BOOLEAN, ops : Seq(LevelOp),
       books : Seq(SUBSET Books), seq : Nat]

NoSnap == [exists |-> FALSE, epoch |-> 0, levels |-> EmptyBook, seq |-> 0]
NoTx == [kind |-> "none", init |-> FALSE, ops |-> <<>>, books |-> <<>>, seq |-> 0]

\* The type of the state: sizes never leave Size, so no write resurrects a
\* level beyond what a caller asked for, and the transactions in flight only
\* name this market's ids and books.
TypeOK ==
  /\ exists \in BOOLEAN
  /\ epoch \in Nat
  /\ levels \in Levels
  /\ seq \in Nat
  /\ seats \in SUBSET Books
  /\ pc \in [Tasks -> {"idle", "book", "ready", "sent"}]
  /\ snap \in [Tasks -> Snapshot]
  /\ reg \in [Tasks -> SUBSET Books]
  /\ tx \in [Tasks -> Tx]
  /\ filled \in [Tasks -> [Ids -> Nat]]

Init ==
  /\ exists = FALSE /\ epoch = 0
  /\ levels = EmptyBook /\ seq = 0
  /\ seats \in {S \in SUBSET (Books \ {Me}) : Cardinality(S) <= MAX_SEATED_MAKERS}
  /\ pc = [t \in Tasks |-> "idle"]
  /\ snap = [t \in Tasks |-> NoSnap]
  /\ reg = [t \in Tasks |-> {}]
  /\ tx = [t \in Tasks |-> NoTx]
  /\ filled = [t \in Tasks |-> EmptyBook]

-----------------------------------------------------------------------------
(* The calls: two reads, then a build *)

\* get_maker_book_optional: the whole account in one RPC, None if absent.
ReadBook(t) ==
  /\ pc[t] = "idle"
  /\ pc' = [pc EXCEPT ![t] = "book"]
  /\ snap' = [snap EXCEPT ![t] =
       [exists |-> exists, epoch |-> epoch, levels |-> levels, seq |-> seq]]
  /\ filled' = [filled EXCEPT ![t] = EmptyBook]
  /\ UNCHANGED <<chain, reg, tx>>

\* get_post_only: the registry's current maker set, a second RPC.
ReadRegistry(t) ==
  /\ pc[t] = "book"
  /\ pc' = [pc EXCEPT ![t] = "ready"]
  /\ reg' = [reg EXCEPT ![t] = seats]
  /\ UNCHANGED <<chain, snap, tx, filled>>

\* The builder returned its instructions and the caller sent them.
Send(t, transaction) ==
  /\ tx' = [tx EXCEPT ![t] = transaction]
  /\ pc' = [pc EXCEPT ![t] = "sent"]
  /\ UNCHANGED <<chain, snap, reg, filled>>

\* Mutant: the sequence number read again when the transaction is built.
SendOpsRefetchingSeq(t, ops) ==
  /\ ops # <<>>
  /\ ~SplitRequired(ops, reg[t], Me)
  /\ snap[t].seq + NumChunks(ops) <= MaxSeq
  /\ snap[t].exists \/ epoch < MaxEpoch
  /\ Send(t, [kind |-> "ops", init |-> ~snap[t].exists, ops |-> ops,
              books |-> ChunkBooks(ops, reg[t], Me), seq |-> seq + 1])

\* push_level_ops on the call's ops, after InitializeMakerBook when the book
\* did not exist; an unchanged book (no op) sends nothing.
SendOps(t, ops) ==
  /\ ops # <<>>
  /\ ~SplitRequired(ops, reg[t], Me)
  /\ snap[t].seq + NumChunks(ops) <= MaxSeq
  /\ snap[t].exists \/ epoch < MaxEpoch
  /\ Send(t, [kind |-> "ops", init |-> ~snap[t].exists, ops |-> ops,
              books |-> ChunkBooks(ops, reg[t], Me), seq |-> snap[t].seq + 1])

\* place_limit_orders / build_place.
BuildPlace(t) ==
  /\ "place" \in Calls /\ pc[t] = "ready"
  /\ \E want \in Levels :
       /\ Cardinality(Resting(want)) \in 1..MaxBatch
       /\ \E list \in Arrangements(Resting(want)) :
            /\ PlacesOk(snap[t].levels, list, want)
            /\ ~Crossed(AfterOps(snap[t].levels, PlaceOps(list, want), Len(list)))
            /\ SendOps(t, PlaceOps(list, want))

\* modify_limit_order / build_modify: the side is kept, price and size change.
BuildModify(t) ==
  /\ "modify" \in Calls /\ pc[t] = "ready"
  /\ snap[t].exists
  /\ \E id, new_id \in Ids, new_size \in Size, mode \in Modes :
       LET ops == ModifyOps(snap[t].levels, id, new_id, new_size, mode)
       IN  /\ new_id.side = id.side
           /\ ModifyOk(snap[t].levels, id, new_id, new_size)
           /\ ~Crossed(AfterOps(snap[t].levels, ops, Len(ops)))
           /\ SendOps(t, ops)

\* cancel_limit_orders / build_cancel: no cross check, nothing can cross.
BuildCancel(t) ==
  /\ "cancel" \in Calls /\ pc[t] = "ready"
  /\ snap[t].exists
  /\ \E S \in SUBSET Resting(snap[t].levels), mode \in Modes :
       /\ Cardinality(S) \in 1..MaxBatch
       /\ \E list \in Arrangements(S) :
            SendOps(t, CancelOps(snap[t].levels, list, mode))

\* replace_all_limit_orders / build_replace_all.
BuildReplaceAll(t) ==
  /\ "replace_all" \in Calls /\ pc[t] = "ready"
  /\ \E want \in Levels, mode \in Modes :
       /\ Cardinality(Resting(want)) \in 1..MaxBatch
       /\ \E cancels \in Arrangements(ToCancel(snap[t].levels, want)),
             resizes \in Arrangements(ToResize(snap[t].levels, want)),
             places \in Arrangements(ToPlace(snap[t].levels, want)) :
            /\ DiffOk(snap[t].levels, want, places)
            /\ ~Crossed(want)
            /\ SendOps(t, DiffOps(snap[t].levels, want, mode,
                                  cancels, resizes, places))

\* The shared tail of build_cancel_all and build_close_book: ClearBook at the
\* next sequence number; neither reads the registry.
SendClear(t, kind) ==
  /\ pc[t] = "book"
  /\ snap[t].exists
  /\ snap[t].seq + 1 <= MaxSeq
  /\ Send(t, [kind |-> kind, init |-> FALSE, ops |-> <<>>, books |-> <<>>,
              seq |-> snap[t].seq + 1])

\* cancel_all_limit_orders / build_cancel_all.
BuildCancelAll(t) == "cancel_all" \in Calls /\ SendClear(t, "clear")

\* close_limit_order_book / build_close_book.
BuildClose(t) == "close" \in Calls /\ SendClear(t, "close")

\* The call is over; what it read and sent no longer matters.
Finish(t) ==
  /\ pc' = [pc EXCEPT ![t] = "idle"]
  /\ snap' = [snap EXCEPT ![t] = NoSnap]
  /\ reg' = [reg EXCEPT ![t] = {}]
  /\ tx' = [tx EXCEPT ![t] = NoTx]
  /\ filled' = [filled EXCEPT ![t] = EmptyBook]

\* A read failed, the builder returned an error, or it emitted no write.
GiveUp(t) ==
  /\ pc[t] \in {"book", "ready"}
  /\ Finish(t)
  /\ UNCHANGED chain

-----------------------------------------------------------------------------
(* The program and the other actors (external) *)

\* Mutant: the last sequence number accepted once more.
SeqOkReplayed(current, s) == current <= s /\ s <= current + MAX_SEQUENCE_JUMP

\* The sequence number of a write must be new and not too far ahead.
SeqOk(current, s) == current < s /\ s <= current + MAX_SEQUENCE_JUMP

\* Where a placing call may leave the registry: unchanged if already seated, a
\* free seat if there is one, else the seat of an LO book it displaces, or
\* nothing if it displaces none.
SeatOutcomes ==
  IF Me \in seats THEN {seats}
  ELSE IF Cardinality(seats) < MAX_SEATED_MAKERS THEN {seats \cup {Me}}
  ELSE {seats} \cup {(seats \ {b}) \cup {Me} : b \in seats \ MMBooks}

\* Levels and sequence number the level ops start from.
BaseLevels(transaction) == IF transaction.init THEN EmptyBook ELSE levels
BaseSeq(transaction) == IF transaction.init THEN 0 ELSE seq

\* The program accepts every UpdateBookLimit of the transaction: the book is
\* there (or created by it), the numbers are fresh, each op finds the size it
\* expects, no side overflows, no chunk leaves the book crossed, and each
\* placing chunk names exactly the registry of that moment, s being the
\* registry once the book has placed.
OpsAccepted(transaction, s) ==
  LET ops == transaction.ops
      base == BaseLevels(transaction)
  IN  /\ transaction.init = ~exists
      /\ SeqOk(BaseSeq(transaction), transaction.seq)
      /\ \A i \in 1..Len(ops) :
           /\ ops[i].expected \in
                {LEVEL_OP_EXPECTED_ANY, AfterOps(base, ops, i - 1)[ops[i].id]}
           /\ WithinSides(AfterOps(base, ops, i))
      /\ \A k \in 1..NumChunks(ops) : ~Crossed(AfterOps(base, ops, ChunkEnd(ops, k)))
      /\ \A k \in PlacingChunks(ops) :
           transaction.books[k] = IF PlacedBefore(ops, k) THEN s ELSE seats

\* [InitializeMakerBook], UpdateBookLimit ... land as one transaction.
LandOps(t) ==
  /\ pc[t] = "sent" /\ tx[t].kind = "ops"
  /\ \E s \in IF MaySeat(tx[t].ops) THEN SeatOutcomes ELSE {seats} :
       /\ OpsAccepted(tx[t], s)
       /\ seats' = s
  /\ exists' = TRUE
  /\ epoch' = IF tx[t].init THEN epoch + 1 ELSE epoch
  /\ levels' = AfterOps(BaseLevels(tx[t]), tx[t].ops, Len(tx[t].ops))
  /\ seq' = tx[t].seq + NumChunks(tx[t].ops) - 1
  /\ Finish(t)

\* ClearBook: every level goes, whatever it holds.
LandClear(t) ==
  /\ pc[t] = "sent" /\ tx[t].kind = "clear"
  /\ exists /\ SeqOk(seq, tx[t].seq)
  /\ levels' = EmptyBook
  /\ seq' = tx[t].seq
  /\ Finish(t)
  /\ UNCHANGED <<exists, epoch, seats>>

\* ClearBook, CloseMakerBook: the account goes, its registry seat stays.
LandClose(t) ==
  /\ pc[t] = "sent" /\ tx[t].kind = "close"
  /\ exists /\ SeqOk(seq, tx[t].seq)
  /\ exists' = FALSE
  /\ levels' = EmptyBook
  /\ seq' = 0
  /\ Finish(t)
  /\ UNCHANGED <<epoch, seats>>

Land(t) == LandOps(t) \/ LandClear(t) \/ LandClose(t)

\* The transaction fails as a whole, or its blockhash expires unlanded.
Reject(t) ==
  /\ pc[t] = "sent"
  /\ Finish(t)
  /\ UNCHANGED chain

\* A taker's swap consumes n lots of a resting level.
Fill(id, n) ==
  /\ exists
  /\ n \in 1..levels[id]
  /\ levels' = [levels EXCEPT ![id] = @ - n]
  /\ filled' = [t \in Tasks |->
       IF pc[t] = "idle" THEN filled[t] ELSE [filled[t] EXCEPT ![id] = @ + n]]
  /\ UNCHANGED <<exists, epoch, seq, seats, pc, snap, reg, tx>>

\* Another maker's placement seats it (possibly in this book's place), or the
\* global authority replaces the set.
ChangeRegistry(S) ==
  /\ S # seats
  /\ Cardinality(S) <= MAX_SEATED_MAKERS
  /\ seats' = S
  /\ UNCHANGED <<exists, epoch, levels, seq, calls>>

Next ==
  \/ \E t \in Tasks :
       \/ ReadBook(t) \/ ReadRegistry(t) \/ GiveUp(t)
       \/ BuildPlace(t) \/ BuildModify(t) \/ BuildCancel(t)
       \/ BuildReplaceAll(t) \/ BuildCancelAll(t) \/ BuildClose(t)
       \/ LandOps(t) \/ LandClear(t) \/ LandClose(t) \/ Reject(t)
  \/ \E id \in Ids, n \in 1..MaxSize : Fill(id, n)
  \/ \E S \in SUBSET Books : ChangeRegistry(S)

Spec == Init /\ [][Next]_vars

-----------------------------------------------------------------------------
(* Properties *)

\* What the client's LocalBook holds once the builder is done.
Planned(t) == AfterOps(snap[t].levels, tx[t].ops, Len(tx[t].ops))

\* Ids the call's transaction writes, and those it writes under a size guard.
Named(t) == {tx[t].ops[i].id : i \in DOMAIN tx[t].ops}
Guarded(t) == {tx[t].ops[i].id : i \in
                 {j \in DOMAIN tx[t].ops :
                    tx[t].ops[j].expected # LEVEL_OP_EXPECTED_ANY}}

\* The transaction was built from this incarnation of the book account.
SameBook(t) == snap[t].epoch = epoch

\* The book has not moved since the call read it, nor has the registry if the
\* transaction places or grows anything.
StillFresh(t) ==
  /\ snap[t] = [exists |-> exists, epoch |-> epoch, levels |-> levels, seq |-> seq]
  /\ MaySeat(tx[t].ops) => reg[t] = seats

\* The builders' local checks predict the program's: a transaction of level
\* ops whose reads are still current is accepted chunk by chunk (sequence
\* numbers, guards, side capacity, crossing, and the registry set each placing
\* chunk must name after an earlier chunk of it took a seat), whichever seat
\* the program gives the book.  A transaction that only cancels or shrinks is
\* accepted even when the registry it read is stale.
FreshTxLands ==
  \A t \in Tasks :
    (pc[t] = "sent" /\ tx[t].kind = "ops" /\ StillFresh(t)) =>
      \A s \in IF MaySeat(tx[t].ops) THEN SeatOutcomes ELSE {seats} :
        OpsAccepted(tx[t], s)

\* No update is lost: of the transactions built from one state of the book at
\* most one lands.  When one lands on the incarnation it read, no other write
\* of the owner has landed since that read.
NoLostUpdate ==
  [][\A t \in Tasks : (Land(t) /\ SameBook(t)) => snap[t].seq = seq]_vars

\* A level written under a size guard saw no fill between the call's read and
\* the write, not even one that a later write could have hidden by restoring
\* the size (places, resizes and strict cancels).
GuardedWriteSeesNoFill ==
  [][\A t \in Tasks :
       (LandOps(t) /\ SameBook(t)) => \A id \in Guarded(t) : filled[t][id] = 0]_vars

\* The book after a landed transaction is the one the builder computed
\* locally, less what takers filled meanwhile on the levels it does not name.
LandedBookIsPlanned ==
  [][\A t \in Tasks :
       (LandOps(t) /\ SameBook(t)) =>
          \A id \in Ids :
            levels'[id] = IF id \in Named(t) THEN Planned(t)[id]
                          ELSE Planned(t)[id] - filled[t][id]]_vars

\* "A fill that lands between the read and the write fails the instruction":
\* a transaction that places or grows a level never lands over a fill of a
\* level it names.
FillFailsTheWrite ==
  [][\A t \in Tasks :
       (LandOps(t) /\ SameBook(t) /\ MaySeat(tx[t].ops)) =>
          \A id \in Named(t) : filled[t][id] = 0]_vars

-----------------------------------------------------------------------------
(* The abstract specification *)

\* What the calls in flight have read.
Read == [t \in {u \in Tasks : pc[u] # "idle"} |-> snap[t]]

Ledger == INSTANCE OrderLedger WITH
  Clients <- Tasks, Orders <- Ids,
  open <- exists, life <- epoch, sizes <- levels, version <- seq, seen <- Read

\* The read-modify-write cycles of the client, with their registry reads,
\* chunks, guards and sequence numbers, implement the ledger under optimistic
\* concurrency control: a landed transaction is one commit that nothing of the
\* owner's came before, and never adds to a level that is not as it was read.
ImplementsLedger == Ledger!Spec

-----------------------------------------------------------------------------
(* The inductive invariant behind the action properties *)

\* Ops built from a snapshot: no id twice, and every op is guarded by the size
\* the snapshot shows or cancels whatever rests.
OpsFrom(book, ops) ==
  /\ \A i, j \in DOMAIN ops : ops[i].id = ops[j].id => i = j
  /\ \A i \in DOMAIN ops :
       ops[i].expected = book[ops[i].id] \/ ops[i] = CancelAnyOp(ops[i].id)

\* A transaction in flight still is what its call's snapshot makes of it.
TxFromSnap(t) ==
  pc[t] = "sent" =>
    /\ tx[t].seq = snap[t].seq + 1
    /\ tx[t].init = ~snap[t].exists
    /\ tx[t].kind = "ops" => tx[t].ops # <<>> /\ OpsFrom(snap[t].levels, tx[t].ops)
    /\ tx[t].kind # "ops" => snap[t].exists

\* What the chain can have become since a call's read.  While the account is
\* the one it read its sequence number has not decreased, and as long as it
\* has not moved the levels are those read less the fills counted since.
SnapOfChain(t) ==
  pc[t] # "idle" =>
    /\ snap[t].epoch <= epoch
    /\ ~snap[t].exists => snap[t].seq = 0 /\ snap[t].levels = EmptyBook
    /\ (SameBook(t) /\ ~snap[t].exists) => ~exists /\ filled[t] = EmptyBook
    /\ (SameBook(t) /\ snap[t].exists /\ exists) =>
         /\ snap[t].seq <= seq
         /\ snap[t].seq = seq =>
              \A id \in Ids : levels[id] + filled[t][id] = snap[t].levels[id]

\* A closed or never opened account holds nothing, and every read and build of
\* a call in flight is consistent with the chain's history since.
ReadsAreHistory ==
  /\ ~exists => levels = EmptyBook /\ seq = 0
  /\ \A t \in Tasks : TxFromSnap(t) /\ SnapOfChain(t)

IInv == TypeOK /\ ReadsAreHistory
=============================================================================
