--------------------------- MODULE Quoting_proofs ---------------------------
(***************************************************************************)
(* Theorems about the quote cycle, for any market, fees, quotes and number *)
(* of processes: what the sequence numbers of maker writes prevent, and    *)
(* which quotes can be filled.                                             *)
(***************************************************************************)
EXTENDS Quoting, MakerBook_proofs

\* The fields of the account the theorems are about.
Stamps == {"last_updated_sequence_number", "last_updated_slot", "expiry_in_slots"}

\* A book has them, and they are numbers.
Stamped(b) ==
  /\ b = [f \in DOMAIN b |-> b[f]] /\ Stamps \subseteq DOMAIN b
  /\ b.last_updated_sequence_number \in Nat
  /\ b.last_updated_slot \in Nat /\ b.expiry_in_slots \in Nat

\* The shape of the state: what the clock, the book and the calls hold.
Shapes ==
  /\ slot \in Nat /\ restart \in Nat /\ quoted \in Nat
  /\ Stamped(book)
  /\ DOMAIN pc = Tasks /\ pc = [t \in Tasks |-> pc[t]]
  /\ DOMAIN snap = Tasks /\ snap = [t \in Tasks |-> snap[t]]
  /\ DOMAIN tx = Tasks /\ tx = [t \in Tasks |-> tx[t]]
  /\ DOMAIN raced = Tasks /\ raced = [t \in Tasks |-> raced[t]]
  /\ \A t \in Tasks : Stamped(snap[t])

\* The slot the account shows is that of the maker's last quote: neither a
\* clear nor the vault's rescale moves it.
SlotIsQuoted == book.last_updated_slot = quoted

\* How far the sequence number has moved since a process's read, and by what.
RaceCounts(t) ==
  LET seen == snap[t].last_updated_sequence_number
      now == book.last_updated_sequence_number
  IN  \/ now = seen /\ raced[t] = <<>>
      \/ now = seen + 1 /\ raced[t] = << <<seen + 1>> >>
      \/ now >= seen + 2

\* The transactions a quoter sends.
Kinds == {"update", "update_book", "mid", "clear", "drain"}

\* The numbers a transaction in flight carries come from its process's read.
TxFromSnap(t) ==
  /\ tx[t].kind \in Kinds
  /\ tx[t].kind \in {"update_book", "mid", "clear"} => tx[t].seq = <<NextSequenceNumber(t)>>
  /\ tx[t].kind = "update" =>
       tx[t].seq = UpdateSequence(tx[t].update.mid_price_changed, NextSequenceNumber(t))

\* The invariant behind the properties of sequence numbers and slots.
IInv ==
  /\ Shapes /\ SlotIsQuoted
  /\ \A t \in Tasks : pc[t] # "idle" => RaceCounts(t)
  /\ \A t \in Tasks : pc[t] = "sent" => TxFromSnap(t)

-----------------------------------------------------------------------------
(* What the steps do to the stamps *)

\* A new book carries stamps.
LEMMA EmptyBookStamped == Stamped(EmptyBook)
  BY DEF EmptyBook, Stamped, Stamps

\* Neither new levels nor a rebalance touches them.
LEMMA WithLevelsStamps ==
  ASSUME NEW b, Stamped(b), NEW mid, NEW bids, NEW asks
  PROVE  /\ Stamped(WithLevels(b, mid, bids, asks))
         /\ \A f \in Stamps : WithLevels(b, mid, bids, asks)[f] = b[f]
  BY DEF Stamped, Stamps, WithLevels

\* Applying a pending rebalance leaves the stamps alone.
LEMMA SyncedStamps ==
  ASSUME NEW b, Stamped(b)
  PROVE  /\ Stamped(Synced(b))
         /\ \A f \in Stamps : Synced(b)[f] = b[f]
  BY DEF Stamped, Stamps, Synced

\* The stamps of the book stay, and so does everything of the processes.
Quiet ==
  /\ Stamped(book') /\ book'.last_updated_sequence_number = book.last_updated_sequence_number
  /\ book'.last_updated_slot = book.last_updated_slot
  /\ UNCHANGED quoted

\* A step that touches no stamp and no call keeps the invariant.
LEMMA QuietKeeps ==
  ASSUME IInv, Quiet, UNCHANGED processes, slot' \in Nat, restart' \in Nat
  PROVE  IInv'
  BY DEF IInv, Shapes, SlotIsQuoted, RaceCounts, TxFromSnap, NextSequenceNumber, Quiet, processes

\* Takers, the vault, the authority, deposits, the cluster and the cache.
LEMMA OthersKeep ==
  ASSUME IInv,
         \/ \E lots \in Deposits : Deposit(lots)
         \/ \E i \in 1..MAX_LEVELS, n \in 1..MaxSize : FillBid(i, n) \/ FillAsk(i, n)
         \/ \E q \in TwoSidedQuotes : Rescale(q)
         \/ \E e \in Expiries : UpdateExpiry(e)
         \/ \E f \in Fees : UpdateFee(f)
         \/ ToggleSuspension \/ Tick \/ Restart \/ RefreshConfig
  PROVE  IInv'
<1> USE DEF Stamps
<1>1. Stamped(book) /\ slot \in Nat /\ restart \in Nat
  BY DEF IInv, Shapes
<1>2. ASSUME NEW lots \in Deposits, Deposit(lots) PROVE IInv'
  <2>1. Quiet
    BY <1>1, <1>2 DEF Deposit, Quiet, Stamped
  <2> QED BY <1>1, <1>2, <2>1, QuietKeeps DEF Deposit
<1>3. ASSUME NEW i \in 1..MAX_LEVELS, NEW n \in 1..MaxSize, FillBid(i, n) PROVE IInv'
  <2> DEFINE b == Synced(book)
  <2>1. Stamped(b) /\ b.last_updated_slot = book.last_updated_slot
        /\ b.last_updated_sequence_number = book.last_updated_sequence_number
    BY <1>1, SyncedStamps
  <2>2. PICK locked, free, base :
          book' = [b EXCEPT !.bid_levels[i].size = @ - n, !.quote_locked = locked,
                            !.quote_free = free, !.base_free = base]
    BY <1>3 DEF FillBid
  <2>3. Quiet
    <3> HIDE DEF b
    <3> QED BY <1>3, <2>1, <2>2 DEF FillBid, Quiet, Stamped
  <2> QED BY <1>1, <1>3, <2>3, QuietKeeps DEF FillBid
<1>4. ASSUME NEW i \in 1..MAX_LEVELS, NEW n \in 1..MaxSize, FillAsk(i, n) PROVE IInv'
  <2> DEFINE b == Synced(book)
  <2>1. Stamped(b) /\ b.last_updated_slot = book.last_updated_slot
        /\ b.last_updated_sequence_number = book.last_updated_sequence_number
    BY <1>1, SyncedStamps
  <2>2. PICK locked, free :
          book' = [b EXCEPT !.ask_levels[i].size = @ - n, !.base_locked = locked, !.quote_free = free]
    BY <1>4 DEF FillAsk
  <2>3. Quiet
    <3> HIDE DEF b
    <3> QED BY <1>4, <2>1, <2>2 DEF FillAsk, Quiet, Stamped
  <2> QED BY <1>1, <1>4, <2>3, QuietKeeps DEF FillAsk
<1>5. ASSUME NEW q \in TwoSidedQuotes, Rescale(q) PROVE IInv'
  <2>1. Quiet
    BY <1>1, <1>5, WithLevelsStamps DEF Rescale, Quiet
  <2> QED BY <1>1, <1>5, <2>1, QuietKeeps DEF Rescale
<1>6. ASSUME NEW e \in Expiries, UpdateExpiry(e) PROVE IInv'
  <2>1. Quiet
    BY <1>1, <1>6, QuotingAssumption DEF UpdateExpiry, Quiet, Stamped
  <2> QED BY <1>1, <1>6, <2>1, QuietKeeps DEF UpdateExpiry
<1>7. CASE ToggleSuspension
  <2>1. Quiet
    BY <1>1, <1>7 DEF ToggleSuspension, Quiet, Stamped
  <2> QED BY <1>1, <1>7, <2>1, QuietKeeps DEF ToggleSuspension
<1>8. CASE (\E f \in Fees : UpdateFee(f)) \/ Tick \/ Restart \/ RefreshConfig
  <2>1. UNCHANGED <<book, quoted, processes>> /\ slot' \in Nat /\ restart' \in Nat
    BY <1>1, <1>8 DEF UpdateFee, Tick, Restart, RefreshConfig
  <2>2. Quiet
    BY <1>1, <2>1 DEF Quiet
  <2> QED BY <2>1, <2>2, QuietKeeps
<1> QED
  BY <1>2, <1>3, <1>4, <1>5, <1>6, <1>7, <1>8

-----------------------------------------------------------------------------
(* The maker's processes *)

\* A process that reads the book or returns to idle leaves the others alone.
LEMMA ReadBookKeeps ==
  ASSUME IInv, NEW t \in Tasks, ReadBook(t)
  PROVE  IInv'
<1>1. /\ Shapes' /\ SlotIsQuoted'
      /\ \A u \in Tasks : u # t => pc'[u] = pc[u] /\ snap'[u] = snap[u] /\ raced'[u] = raced[u]
      /\ pc'[t] = "ready" /\ snap'[t] = book /\ raced'[t] = <<>>
      /\ book' = book /\ tx' = tx
  BY DEF IInv, Shapes, SlotIsQuoted, ReadBook
<1>2. \A u \in Tasks : pc'[u] # "idle" => RaceCounts(u)'
  BY <1>1 DEF IInv, RaceCounts
<1>3. \A u \in Tasks : pc'[u] = "sent" => TxFromSnap(u)'
  BY <1>1 DEF IInv, TxFromSnap, NextSequenceNumber
<1> QED
  BY <1>1, <1>2, <1>3 DEF IInv

\* Sending a transaction built from the snapshot keeps it.
LEMMA SendKeeps ==
  ASSUME IInv, NEW t \in Tasks, NEW x, Send(t, x), x.kind \in Kinds,
         x.kind \in {"update_book", "mid", "clear"} => x.seq = <<NextSequenceNumber(t)>>,
         x.kind = "update" => x.seq = UpdateSequence(x.update.mid_price_changed, NextSequenceNumber(t))
  PROVE  IInv'
<1>1. /\ Shapes' /\ SlotIsQuoted'
      /\ \A u \in Tasks : u # t => pc'[u] = pc[u] /\ tx'[u] = tx[u]
      /\ pc[t] = "ready" /\ pc'[t] = "sent" /\ tx'[t] = x
      /\ book' = book /\ snap' = snap /\ raced' = raced
  BY DEF IInv, Shapes, SlotIsQuoted, Send
<1>2. \A u \in Tasks : pc'[u] # "idle" => RaceCounts(u)'
  BY <1>1 DEF IInv, RaceCounts
<1>3. \A u \in Tasks : pc'[u] = "sent" => TxFromSnap(u)'
  BY <1>1 DEF IInv, TxFromSnap, NextSequenceNumber
<1> QED
  BY <1>1, <1>2, <1>3 DEF IInv

\* So does every build.
LEMMA BuildsKeep ==
  ASSUME IInv, NEW t \in Tasks,
         \/ BuildClear(t) \/ BuildDrain(t)
         \/ \E q \in TwoSidedQuotes : BuildUpdate(t, q) \/ BuildUpdateBook(t, q)
         \/ \E m \in Mids : BuildMid(t, m)
  PROVE  IInv'
<1> USE DEF Kinds
<1>1. CASE BuildClear(t)
  BY <1>1, SendKeeps DEF BuildClear
<1>2. CASE BuildDrain(t)
  BY <1>2, SendKeeps DEF BuildDrain
<1>3. ASSUME NEW q \in TwoSidedQuotes, BuildUpdate(t, q) PROVE IInv'
  BY <1>3, SendKeeps DEF BuildUpdate
<1>4. ASSUME NEW q \in TwoSidedQuotes, BuildUpdateBook(t, q) PROVE IInv'
  BY <1>4, SendKeeps DEF BuildUpdateBook
<1>5. ASSUME NEW m \in Mids, BuildMid(t, m) PROVE IInv'
  BY <1>5, SendKeeps DEF BuildMid
<1> QED
  BY <1>1, <1>2, <1>3, <1>4, <1>5

\* A process that is done, without a number spent.
LEMMA FinishKeeps ==
  ASSUME IInv, NEW t \in Tasks, Finish(t), Quiet, raced' = [raced EXCEPT ![t] = <<>>],
         UNCHANGED <<slot, restart>>
  PROVE  IInv'
<1>1. /\ Shapes' /\ SlotIsQuoted'
      /\ \A u \in Tasks : u # t => pc'[u] = pc[u] /\ snap'[u] = snap[u]
                                   /\ raced'[u] = raced[u] /\ tx'[u] = tx[u]
      /\ pc'[t] = "idle"
      /\ book'.last_updated_sequence_number = book.last_updated_sequence_number
  BY EmptyBookStamped DEF IInv, Shapes, SlotIsQuoted, Finish, Quiet
<1>2. \A u \in Tasks : pc'[u] # "idle" => RaceCounts(u)'
  BY <1>1 DEF IInv, RaceCounts
<1>3. \A u \in Tasks : pc'[u] = "sent" => TxFromSnap(u)'
  BY <1>1 DEF IInv, TxFromSnap, NextSequenceNumber
<1> QED
  BY <1>1, <1>2, <1>3 DEF IInv

\* So does a rejected transaction.
LEMMA RejectKeeps ==
  ASSUME IInv, NEW t \in Tasks, Reject(t)
  PROVE  IInv'
<1>1. Quiet
  BY DEF IInv, Shapes, Reject, Quiet
<1> QED
  BY <1>1, FinishKeeps DEF Reject

\* So does landing a drain.
LEMMA LandDrainKeeps ==
  ASSUME IInv, NEW t \in Tasks, LandDrain(t)
  PROVE  IInv'
<1> DEFINE b == Synced(book)
<1>1. Stamped(b) /\ b.last_updated_slot = book.last_updated_slot
      /\ b.last_updated_sequence_number = book.last_updated_sequence_number
  BY SyncedStamps DEF IInv, Shapes, Stamps
<1>2. book' = [b EXCEPT !.quote_free = @ - tx[t].lots] /\ UNCHANGED quoted
  BY DEF LandDrain
<1>3. Quiet
  <2> HIDE DEF b
  <2> QED BY <1>1, <1>2 DEF Quiet, Stamped, Stamps
<1> QED
  BY <1>3, FinishKeeps DEF LandDrain

\* The numbers of a write in flight: one above the number its process read, or
\* two above it, or both in turn.
SeqShape(t) ==
  LET next == NextSequenceNumber(t)
  IN  tx[t].seq \in {<<next>>, <<next + 1>>, <<next, next + 1>>}

\* A transaction in flight carries the next sequence number of its read.
LEMMA SeqShapes ==
  ASSUME IInv, NEW t \in Tasks, pc[t] = "sent", tx[t].kind # "drain"
  PROVE  NextSequenceNumber(t) \in Nat /\ SeqShape(t)
<1>1. NextSequenceNumber(t) \in Nat
  BY DEF IInv, Shapes, Stamped, NextSequenceNumber
<1>2. TxFromSnap(t)
  BY DEF IInv
<1>3. CASE tx[t].kind = "update"
  BY <1>1, <1>2, <1>3 DEF TxFromSnap, SeqShape, UpdateSequence
<1>4. CASE tx[t].kind \in {"update_book", "mid", "clear"}
  BY <1>1, <1>2, <1>4 DEF TxFromSnap, SeqShape
<1> QED
  BY <1>1, <1>2, <1>3, <1>4 DEF TxFromSnap, Kinds

\* A write that lands moves the number up: by one, and then it spent that
\* number alone, or by more.
LEMMA LandedKeeps ==
  ASSUME IInv, NEW t \in Tasks, pc[t] = "sent", tx[t].kind # "drain",
         SeqsOk(book.last_updated_sequence_number, tx[t].seq),
         NEW nb, Stamped(nb), nb.last_updated_slot = quoted', quoted' \in Nat,
         Landed(t, tx[t].seq, nb)
  PROVE  IInv'
<1> DEFINE last == tx[t].seq[Len(tx[t].seq)]
           now == book.last_updated_sequence_number
<1>1. /\ last \in Nat /\ now \in Nat
      /\ (last = now + 1 /\ tx[t].seq = <<now + 1>>) \/ last >= now + 2
  <2>1. now \in Nat
    BY DEF IInv, Shapes, Stamped
  <2>2. NextSequenceNumber(t) \in Nat /\ SeqShape(t)
    BY SeqShapes
  <2> DEFINE next == NextSequenceNumber(t)
             seqs == tx[t].seq
  <2>3. next \in Nat /\ seqs \in {<<next>>, <<next + 1>>, <<next, next + 1>>} /\ SeqsOk(now, seqs)
    BY <2>2 DEF SeqShape
  <2> HIDE DEF next, seqs, now
  <2>4. /\ seqs[Len(seqs)] \in Nat
        /\ (seqs[Len(seqs)] = now + 1 /\ seqs = <<now + 1>>) \/ seqs[Len(seqs)] >= now + 2
    <3>1. CASE seqs = <<next>>
      BY <2>1, <2>3, <3>1, QuotingAssumption DEF SeqsOk, SeqOk
    <3>2. CASE seqs = <<next + 1>>
      BY <2>1, <2>3, <3>2, QuotingAssumption DEF SeqsOk, SeqOk
    <3>3. CASE seqs = <<next, next + 1>>
      BY <2>1, <2>3, <3>3, QuotingAssumption DEF SeqsOk, SeqOk
    <3> QED BY <2>3, <3>1, <3>2, <3>3
  <2> QED BY <2>1, <2>4 DEF seqs
<1>2. /\ Stamped(book') /\ book'.last_updated_sequence_number = last
      /\ book'.last_updated_slot = quoted'
  <2> HIDE DEF last
  <2> QED BY <1>1 DEF Landed, Stamped, Stamps, last
<1>3. /\ \A u \in Tasks : u # t => pc'[u] = pc[u] /\ snap'[u] = snap[u] /\ tx'[u] = tx[u]
      /\ \A u \in Tasks : u # t /\ pc[u] # "idle" => raced'[u] = Append(raced[u], tx[t].seq)
      /\ pc'[t] = "idle"
  BY DEF IInv, Shapes, Landed, Finish
<1>4. Shapes' /\ SlotIsQuoted'
  BY <1>2, EmptyBookStamped DEF IInv, Shapes, SlotIsQuoted, Landed, Finish
<1>5. ASSUME NEW u \in Tasks, pc'[u] # "idle" PROVE RaceCounts(u)'
  <2>1. u # t /\ pc[u] # "idle" /\ RaceCounts(u) /\ snap'[u] = snap[u]
        /\ raced'[u] = Append(raced[u], tx[t].seq)
    BY <1>3, <1>5 DEF IInv
  <2> DEFINE seen == snap[u].last_updated_sequence_number
  <2>2. seen \in Nat /\ book'.last_updated_sequence_number = last
    BY <1>2 DEF IInv, Shapes, Stamped
  <2>3. \/ now = seen /\ raced[u] = <<>>
        \/ now = seen + 1 /\ raced[u] = << <<seen + 1>> >>
        \/ now >= seen + 2
    BY <2>1 DEF RaceCounts
  <2>4. \/ last = seen + 1 /\ raced'[u] = << <<seen + 1>> >>
        \/ last >= seen + 2
    <3>1. CASE now = seen /\ last = now + 1
      <4>1. tx[t].seq = <<seen + 1>>
        BY <1>1, <2>2, <3>1
      <4>2. raced[u] = <<>>
        BY <2>2, <2>3, <3>1
      <4> QED BY <2>1, <3>1, <4>1, <4>2
    <3>2. CASE ~(now = seen /\ last = now + 1)
      <4> HIDE DEF last, now, seen
      <4> QED BY <1>1, <2>2, <2>3, <3>2
    <3> QED BY <3>1, <3>2
  <2> QED BY <2>1, <2>2, <2>4 DEF RaceCounts
<1>6. \A u \in Tasks : pc'[u] = "sent" => TxFromSnap(u)'
  BY <1>3 DEF IInv, TxFromSnap, NextSequenceNumber
<1> QED
  BY <1>4, <1>5, <1>6 DEF IInv

\* Landing a write keeps the invariant.
LEMMA LandsKeep ==
  ASSUME IInv, NEW t \in Tasks, LandUpdate(t) \/ LandMid(t) \/ LandClear(t)
  PROVE  IInv'
<1>1. Stamped(book) /\ slot \in Nat /\ quoted \in Nat /\ book.last_updated_slot = quoted
  BY DEF IInv, Shapes, SlotIsQuoted
<1>2. CASE LandUpdate(t)
  <2> DEFINE levels == WithLevels(book, tx[t].update.mid, tx[t].update.bids, tx[t].update.asks)
             nb == [levels EXCEPT !.last_updated_slot = slot]
  <2>1. Stamped(levels)
    BY <1>1, WithLevelsStamps
  <2>2. Stamped(nb) /\ nb.last_updated_slot = slot
    <3> HIDE DEF levels
    <3> QED BY <1>1, <2>1 DEF Stamped, Stamps
  <2>3. pc[t] = "sent" /\ tx[t].kind # "drain" /\ quoted' = slot
        /\ SeqsOk(book.last_updated_sequence_number, tx[t].seq) /\ Landed(t, tx[t].seq, nb)
    BY <1>2 DEF LandUpdate
  <2> HIDE DEF nb
  <2> QED BY <1>1, <2>2, <2>3, LandedKeeps
<1>3. CASE LandMid(t)
  <2> DEFINE nb == [book EXCEPT !.mid_price_ticks = tx[t].mid, !.last_updated_slot = slot,
                      !.mid_at_last_sync = IF @ = 0 THEN book.mid_price_ticks ELSE @]
  <2>1. Stamped(nb) /\ nb.last_updated_slot = slot
    BY <1>1 DEF Stamped, Stamps
  <2>2. pc[t] = "sent" /\ tx[t].kind # "drain" /\ quoted' = slot
        /\ SeqsOk(book.last_updated_sequence_number, tx[t].seq) /\ Landed(t, tx[t].seq, nb)
    BY <1>3 DEF LandMid
  <2> HIDE DEF nb
  <2> QED BY <1>1, <2>1, <2>2, LandedKeeps
<1>4. CASE LandClear(t)
  <2> DEFINE nb == WithLevels(book, book.mid_price_ticks, <<>>, <<>>)
  <2>1. Stamped(nb) /\ nb.last_updated_slot = quoted
    BY <1>1, WithLevelsStamps DEF Stamps
  <2>2. pc[t] = "sent" /\ tx[t].kind # "drain" /\ quoted' = quoted
        /\ SeqsOk(book.last_updated_sequence_number, tx[t].seq) /\ Landed(t, tx[t].seq, nb)
    BY <1>4 DEF LandClear
  <2> HIDE DEF nb
  <2> QED BY <1>1, <2>1, <2>2, LandedKeeps
<1> QED
  BY <1>2, <1>3, <1>4

\* The initial state satisfies the invariant.
LEMMA InitKeeps ==
  ASSUME Init
  PROVE  IInv
<1>1. Stamped(book) /\ book.last_updated_slot = 0
  BY EmptyBookStamped DEF Init, EmptyBook
<1>2. Shapes /\ SlotIsQuoted /\ \A t \in Tasks : pc[t] = "idle"
  BY <1>1, EmptyBookStamped DEF Init, Shapes, SlotIsQuoted
<1> QED
  BY <1>2 DEF IInv

\* Every step keeps the invariant.
LEMMA NextKeeps ==
  ASSUME IInv, [Next]_vars
  PROVE  IInv'
<1>1. CASE UNCHANGED vars
  <2>1. Quiet /\ UNCHANGED processes /\ slot' \in Nat /\ restart' \in Nat
    BY <1>1 DEF vars, IInv, Shapes, Quiet
  <2> QED BY <2>1, QuietKeeps
<1>2. CASE Next
  BY <1>2, OthersKeep, ReadBookKeeps, BuildsKeep, RejectKeeps, LandsKeep, LandDrainKeeps
     DEF Next
<1> QED
  BY <1>1, <1>2

\* The stamps, the races counted by sequence number and the origin of every
\* transaction in flight are as IInv says in every state.
THEOREM Invariance == Spec => []IInv
<1>1. Init => IInv
  BY InitKeeps
<1>2. IInv /\ [Next]_vars => IInv'
  BY NextKeeps
<1> QED
  BY <1>1, <1>2, PTL DEF Spec

-----------------------------------------------------------------------------
(* The balances and the quotes behind the updates in flight *)

\* A book whose quote side is made of numbers.
Priced(b) ==
  /\ b = [f \in DOMAIN b |-> b[f]]
  /\ {"mid_price_ticks", "mid_at_last_sync", "quote_locked", "quote_free", "bid_levels",
      "ask_levels"} \subseteq DOMAIN b
  /\ b.mid_price_ticks \in Int /\ b.quote_locked \in Int /\ b.quote_free \in Int
  /\ LevelsOk(b.bid_levels) /\ LevelsOk(b.ask_levels)

\* What a transaction in flight was made from.
TxBuilt(t) ==
  /\ tx[t].kind \in {"update", "update_book"} =>
       \E q \in TwoSidedQuotes :
         BookUpdateFits(q) /\ tx[t].update = BookUpdate(q, snap[t].mid_price_ticks)
  /\ tx[t].kind = "mid" => tx[t].mid \in Mids
  /\ tx[t].kind = "drain" => /\ tx[t].fee \in Int
                             /\ tx[t].lots = WithdrawableQuote(snap[t], tx[t].fee)

\* The invariant behind the properties of balances and prices.
FundsInv ==
  /\ fee \in Int /\ config \in Int
  /\ Priced(book)
  /\ \A t \in Tasks : Priced(snap[t])
  /\ \A t \in Tasks : pc[t] = "sent" => TxBuilt(t)

\* The prices, balances and levels of a new book have their types.
LEMMA EmptyBookPriced == Priced(EmptyBook)
<1>1. IsFiniteSet(DOMAIN <<>>)
  BY FS_EmptySet
<1> QED
  BY <1>1 DEF EmptyBook, Priced, LevelsOk

\* Prices in ticks, and the mid between them.
LEMMA PriceToTicksNat ==
  ASSUME NEW p \in Nat
  PROVE  PriceToTicks(p) \in Nat
<1>1. SUBTICKS \in Nat \ {0}
  BY ScaleAssumption
<1>2. 2 * p + SUBTICKS \in Int /\ 2 * SUBTICKS \in Nat \ {0} /\ (2 * SUBTICKS) * 0 <= 2 * p + SUBTICKS
  BY <1>1
<1> DEFINE x == (2 * p + SUBTICKS) \div (2 * SUBTICKS)
<1>3. x \in Int /\ 0 <= x
  BY <1>2, DivFacts, DivAtLeast
<1> QED
  BY <1>3 DEF PriceToTicks, RoundTicks

\* The types of the quotes.
LEMMA QuoteTypes ==
  ASSUME NEW q \in TwoSidedQuotes
  PROVE  /\ Len(q.bids) \in Nat /\ DOMAIN q.bids = 1..Len(q.bids)
         /\ Len(q.asks) \in Nat /\ DOMAIN q.asks = 1..Len(q.asks)
         /\ \A i \in DOMAIN q.bids : q.bids[i].price \in Nat /\ q.bids[i].size \in Nat
         /\ \A i \in DOMAIN q.asks : q.asks[i].price \in Nat /\ q.asks[i].size \in Nat
         /\ q.bids # <<>> => 1 \in DOMAIN q.bids
         /\ q.asks # <<>> => 1 \in DOMAIN q.asks
<1>1. q.bids \in Seq([price : Nat, size : Nat]) /\ q.asks \in Seq([price : Nat, size : Nat])
  BY QuotingAssumption
<1>2. ASSUME NEW s \in Seq([price : Nat, size : Nat])
      PROVE  /\ Len(s) \in Nat /\ DOMAIN s = 1..Len(s)
             /\ \A i \in DOMAIN s : s[i].price \in Nat /\ s[i].size \in Nat
             /\ s # <<>> => 1 \in DOMAIN s
  <2>1. Len(s) \in Nat /\ DOMAIN s = 1..Len(s)
    OBVIOUS
  <2> DEFINE R == [price : Nat, size : Nat]
  <2>2. \A i \in DOMAIN s : s[i] \in R
    <3>1. s \in Seq(R)
      OBVIOUS
    <3> HIDE DEF R
    <3> QED BY <2>1, <3>1
  <2>3. s # <<>> => Len(s) # 0
    OBVIOUS
  <2>4. s # <<>> => 1 \in 1..Len(s)
    BY <2>1, <2>3
  <2>5. \A i \in DOMAIN s : s[i].price \in Nat /\ s[i].size \in Nat
    BY <2>2
  <2> QED BY <2>1, <2>4, <2>5
<1> QED
  BY <1>1, <1>2

\* The mid price of a quote is an integer.
LEMMA MidInt ==
  ASSUME NEW q \in TwoSidedQuotes, BookUpdateFits(q)
  PROVE  ComputeMidPrice(q) \in Int
<1>1. q.bids # <<>> \/ q.asks # <<>>
  BY DEF BookUpdateFits
<1>2. CASE q.bids # <<>> /\ q.asks # <<>>
  <2> DEFINE s == q.bids[1].price + q.asks[1].price
             d == 2 * SUBTICKS
  <2>1. s \in Nat /\ d \in Nat \ {0}
    BY <1>2, QuoteTypes, ScaleAssumption
  <2>2. ComputeMidPrice(q) = RoundTicks(s, d)
    BY <1>2 DEF ComputeMidPrice
  <2> HIDE DEF s, d
  <2>3. 2 * s + d \in Int /\ 2 * d \in Nat \ {0}
    BY <2>1
  <2> QED BY <2>2, <2>3, DivFacts DEF RoundTicks
<1>3. CASE ~(q.bids # <<>> /\ q.asks # <<>>)
  BY <1>1, <1>3, QuoteTypes, PriceToTicksNat DEF ComputeMidPrice
<1> QED
  BY <1>2, <1>3

\* Quotes turn into levels at a price in ticks each.
LEMMA LevelsOfOk ==
  ASSUME NEW quotes, NEW n \in Nat, DOMAIN quotes = 1..n, NEW mid \in Int,
         \A i \in DOMAIN quotes : quotes[i].price \in Nat /\ quotes[i].size \in Nat
  PROVE  /\ LevelsOk(LevelsOf(quotes, mid))
         /\ DOMAIN LevelsOf(quotes, mid) = DOMAIN quotes
         /\ \A i \in DOMAIN quotes :
              mid + LevelsOf(quotes, mid)[i].offset = PriceToTicks(quotes[i].price)
<1>1. IsFiniteSet(1..n)
  BY FS_Interval
<1>2. ASSUME NEW i \in DOMAIN quotes
      PROVE  /\ PriceToTicks(quotes[i].price) \in Nat
             /\ BaseAmountToLots(quotes[i].size) \in Nat
  <2>1. quotes[i].size \div SUBLOTS \in Nat
    BY ScaleAssumption, DivFacts, DivAtLeast
  <2> QED BY <2>1, PriceToTicksNat DEF BaseAmountToLots
<1>3. DOMAIN LevelsOf(quotes, mid) = DOMAIN quotes
  BY DEF LevelsOf
<1>4. \A i \in DOMAIN quotes : /\ LevelsOf(quotes, mid)[i].size = BaseAmountToLots(quotes[i].size)
                               /\ LevelsOf(quotes, mid)[i].offset = PriceToTicks(quotes[i].price) - mid
  BY DEF LevelsOf
<1>5. \A i \in DOMAIN quotes : LevelsOf(quotes, mid)[i] \in [offset : Int, size : Nat]
  BY <1>2 DEF LevelsOf
<1>6. LevelsOk(LevelsOf(quotes, mid))
  BY <1>1, <1>3, <1>5 DEF LevelsOk
<1> QED
  BY <1>2, <1>3, <1>4, <1>6

\* The parts of a built update.
LEMMA UpdateParts ==
  ASSUME NEW q \in TwoSidedQuotes, BookUpdateFits(q), NEW m
  PROVE  LET u == BookUpdate(q, m)
         IN  /\ u.mid = ComputeMidPrice(q) /\ u.mid \in Int
             /\ u.bids = LevelsOf(q.bids, u.mid) /\ u.asks = LevelsOf(q.asks, u.mid)
             /\ LevelsOk(u.bids) /\ LevelsOk(u.asks)
             /\ DOMAIN u.bids = DOMAIN q.bids /\ DOMAIN u.asks = DOMAIN q.asks
             /\ \A i \in DOMAIN u.bids : u.mid + u.bids[i].offset = PriceToTicks(q.bids[i].price)
             /\ u.estimated_quote = SumFunction([i \in DOMAIN u.bids |->
                  QuoteLotsCeil(TheMarket, u.bids[i].size, u.mid + u.bids[i].offset)])
<1> DEFINE mid == ComputeMidPrice(q)
<1>1. mid \in Int
  BY MidInt
<1>2. /\ LevelsOk(LevelsOf(q.bids, mid)) /\ LevelsOk(LevelsOf(q.asks, mid))
      /\ DOMAIN LevelsOf(q.bids, mid) = DOMAIN q.bids
      /\ DOMAIN LevelsOf(q.asks, mid) = DOMAIN q.asks
      /\ \A i \in DOMAIN q.bids : mid + LevelsOf(q.bids, mid)[i].offset = PriceToTicks(q.bids[i].price)
  <2> HIDE DEF mid
  <2> QED BY <1>1, QuoteTypes, LevelsOfOk
<1> QED
  BY <1>1, <1>2 DEF BookUpdate

\* The quote lots a book's functions derive are integers.
LEMMA ProjectedInt ==
  ASSUME NEW b, Priced(b), NEW f \in Int
  PROVE  /\ ProjectedLocked(b, f) \in Int /\ ProjectedFree(b, f) \in Int
         /\ WithdrawableQuote(b, f) \in Int
<1>1. Reserve(b, f) \in Int
  BY ReserveInt DEF Priced, Reserve
<1>2. ProjectedLocked(b, f) \in Int
  BY <1>1 DEF Priced, ProjectedLocked
<1>3. ProjectedFree(b, f) \in Int
  BY <1>2 DEF Priced, ProjectedFree, QuoteLotsTotal
<1> QED
  BY <1>2, <1>3 DEF Priced, WithdrawableQuote

\* They keep their types when the levels are rewritten.
LEMMA WithLevelsPriced ==
  ASSUME NEW b, Priced(b), NEW mid \in Int, fee \in Int,
         NEW bids, LevelsOk(bids), NEW asks, LevelsOk(asks)
  PROVE  Priced(WithLevels(b, mid, bids, asks))
<1> DEFINE locked == RequiredQuoteReserve(bids, mid, fee)
           free == QuoteLotsTotal(b) - locked
<1>1. locked \in Int
  BY ReserveInt
<1>2. free \in Int
  BY <1>1 DEF Priced, QuoteLotsTotal
<1>3. PICK base, base_free :
        WithLevels(b, mid, bids, asks) =
          [b EXCEPT !.mid_price_ticks = mid, !.mid_at_last_sync = mid,
                    !.bid_levels = bids, !.ask_levels = asks,
                    !.quote_locked = locked, !.quote_free = free,
                    !.base_locked = base, !.base_free = base_free]
  BY DEF WithLevels
<1> HIDE DEF locked, free
<1> QED
  BY <1>1, <1>2, <1>3 DEF Priced

\* Applying a pending rebalance keeps the levels, the mid and their types.
LEMMA SyncedPriced ==
  ASSUME NEW b, Priced(b), fee \in Int
  PROVE  Priced(Synced(b)) /\ Synced(b).bid_levels = b.bid_levels
                           /\ Synced(b).ask_levels = b.ask_levels
                           /\ Synced(b).mid_price_ticks = b.mid_price_ticks
<1>1. ProjectedLocked(b, fee) \in Int /\ ProjectedFree(b, fee) \in Int
  BY ProjectedInt
<1> QED
  BY <1>1 DEF Priced, Synced

\* The processes stand still.
LEMMA QuietFunds ==
  ASSUME FundsInv, UNCHANGED processes, Priced(book'), fee' \in Int, config' \in Int
  PROVE  FundsInv'
  BY DEF FundsInv, TxBuilt, processes

\* A process is done.
LEMMA FinishFunds ==
  ASSUME Shapes, FundsInv, NEW t \in Tasks, Finish(t), Priced(book'), UNCHANGED <<fee, config>>
  PROVE  FundsInv'
<1>1. /\ \A u \in Tasks : u # t => pc'[u] = pc[u] /\ snap'[u] = snap[u] /\ tx'[u] = tx[u]
      /\ pc'[t] = "idle" /\ snap'[t] = EmptyBook
  BY DEF Shapes, Finish
<1>2. \A u \in Tasks : Priced(snap'[u])
  BY <1>1, EmptyBookPriced DEF FundsInv
<1>3. \A u \in Tasks : pc'[u] = "sent" => TxBuilt(u)'
  BY <1>1 DEF FundsInv, TxBuilt
<1> QED
  BY <1>2, <1>3 DEF FundsInv

\* Reading the book keeps the balances' invariant.
LEMMA ReadFunds ==
  ASSUME Shapes, FundsInv, NEW t \in Tasks, ReadBook(t)
  PROVE  FundsInv'
<1>1. /\ \A u \in Tasks : u # t => pc'[u] = pc[u] /\ snap'[u] = snap[u]
      /\ pc'[t] = "ready" /\ snap'[t] = book /\ tx' = tx
      /\ book' = book /\ fee' = fee /\ config' = config
  BY DEF Shapes, ReadBook
<1>2. \A u \in Tasks : pc'[u] = "sent" => TxBuilt(u)'
  BY <1>1 DEF FundsInv, TxBuilt
<1> QED
  BY <1>1, <1>2 DEF FundsInv

\* So does sending what was built from the snapshot.
LEMMA SendFunds ==
  ASSUME Shapes, FundsInv, NEW t \in Tasks, NEW x, Send(t, x),
         x.kind \in {"update", "update_book"} =>
           \E q \in TwoSidedQuotes :
             BookUpdateFits(q) /\ x.update = BookUpdate(q, snap[t].mid_price_ticks),
         x.kind = "mid" => x.mid \in Mids,
         x.kind = "drain" => x.fee \in Int /\ x.lots = WithdrawableQuote(snap[t], x.fee)
  PROVE  FundsInv'
<1>1. /\ \A u \in Tasks : u # t => pc'[u] = pc[u] /\ tx'[u] = tx[u]
      /\ tx'[t] = x /\ snap' = snap
      /\ book' = book /\ fee' = fee /\ config' = config
  BY DEF Shapes, Send
<1>2. TxBuilt(t)'
  BY <1>1 DEF TxBuilt
<1>3. \A u \in Tasks : pc'[u] = "sent" => TxBuilt(u)'
  BY <1>1, <1>2 DEF FundsInv, TxBuilt
<1> QED
  BY <1>1, <1>3 DEF FundsInv

\* So does every build.
LEMMA BuildsFunds ==
  ASSUME Shapes, FundsInv, NEW t \in Tasks,
         \/ BuildClear(t) \/ BuildDrain(t)
         \/ \E q \in TwoSidedQuotes : BuildUpdate(t, q) \/ BuildUpdateBook(t, q)
         \/ \E m \in Mids : BuildMid(t, m)
  PROVE  FundsInv'
<1>1. CASE BuildClear(t)
  BY <1>1, SendFunds DEF BuildClear
<1>2. CASE BuildDrain(t)
  BY <1>2, SendFunds DEF BuildDrain, FundsInv
<1>3. ASSUME NEW q \in TwoSidedQuotes, BuildUpdate(t, q) PROVE FundsInv'
  BY <1>3, SendFunds DEF BuildUpdate
<1>4. ASSUME NEW q \in TwoSidedQuotes, BuildUpdateBook(t, q) PROVE FundsInv'
  BY <1>4, SendFunds DEF BuildUpdateBook
<1>5. ASSUME NEW m \in Mids, BuildMid(t, m) PROVE FundsInv'
  BY <1>5, SendFunds DEF BuildMid
<1> QED
  BY <1>1, <1>2, <1>3, <1>4, <1>5

\* So does landing or losing a transaction.
LEMMA LandsFunds ==
  ASSUME Shapes, FundsInv, NEW t \in Tasks,
         LandUpdate(t) \/ LandMid(t) \/ LandClear(t) \/ LandDrain(t) \/ Reject(t)
  PROVE  FundsInv'
<1>1. Priced(book) /\ fee \in Int /\ (pc[t] = "sent" => TxBuilt(t)) /\ Priced(snap[t])
  BY DEF FundsInv
<1>2. ASSUME NEW nb, Priced(nb), NEW n, book' = [nb EXCEPT !.last_updated_sequence_number = n]
      PROVE  Priced(book')
  BY <1>2 DEF Priced
<1>3. CASE LandUpdate(t)
  <2> DEFINE u == tx[t].update
             levels == WithLevels(book, u.mid, u.bids, u.asks)
             nb == [levels EXCEPT !.last_updated_slot = slot]
  <2>1. u.mid \in Int /\ LevelsOk(u.bids) /\ LevelsOk(u.asks)
    <3>1. PICK q \in TwoSidedQuotes :
            BookUpdateFits(q) /\ u = BookUpdate(q, snap[t].mid_price_ticks)
      BY <1>1, <1>3 DEF LandUpdate, TxBuilt
    <3> QED BY <3>1, UpdateParts
  <2>2. Priced(levels)
    BY <1>1, <2>1, WithLevelsPriced
  <2>3. Priced(nb)
    <3> HIDE DEF levels
    <3> QED BY <2>2 DEF Priced
  <2>4. Landed(t, tx[t].seq, nb)
    BY <1>3 DEF LandUpdate
  <2> HIDE DEF nb
  <2> QED BY <1>2, <2>3, <2>4, FinishFunds DEF Landed
<1>4. CASE LandMid(t)
  <2> DEFINE nb == [book EXCEPT !.mid_price_ticks = tx[t].mid, !.last_updated_slot = slot,
                      !.mid_at_last_sync = IF @ = 0 THEN book.mid_price_ticks ELSE @]
  <2>1. tx[t].mid \in Int
    BY <1>1, <1>4, QuotingAssumption DEF LandMid, TxBuilt
  <2>2. Priced(nb)
    BY <1>1, <2>1 DEF Priced
  <2>3. Landed(t, tx[t].seq, nb)
    BY <1>4 DEF LandMid
  <2> HIDE DEF nb
  <2> QED BY <1>2, <2>2, <2>3, FinishFunds DEF Landed
<1>5. CASE LandClear(t)
  <2> DEFINE nb == WithLevels(book, book.mid_price_ticks, <<>>, <<>>)
  <2>1. LevelsOk(<<>>)
    BY EmptyBookPriced DEF Priced, EmptyBook
  <2>2. Priced(nb)
    BY <1>1, <2>1, WithLevelsPriced DEF Priced
  <2>3. Landed(t, tx[t].seq, nb)
    BY <1>5 DEF LandClear
  <2> HIDE DEF nb
  <2> QED BY <1>2, <2>2, <2>3, FinishFunds DEF Landed
<1>6. CASE LandDrain(t)
  <2> DEFINE b == Synced(book)
             lots == tx[t].lots
  <2>1. lots \in Int
    BY <1>1, <1>6, ProjectedInt DEF LandDrain, TxBuilt
  <2>2. Priced(b)
    BY <1>1, SyncedPriced
  <2>3. book' = [b EXCEPT !.quote_free = @ - lots]
    BY <1>6 DEF LandDrain
  <2> HIDE DEF b, lots
  <2>4. Priced(book')
    BY <2>1, <2>2, <2>3 DEF Priced
  <2> QED BY <1>6, <2>4, FinishFunds DEF LandDrain
<1>7. CASE Reject(t)
  <2>1. Priced(book')
    BY <1>1, <1>7 DEF Reject
  <2> QED BY <1>7, <2>1, FinishFunds DEF Reject
<1> QED
  BY <1>3, <1>4, <1>5, <1>6, <1>7

\* Fewer lots at one level.
LEMMA FilledLevels ==
  ASSUME NEW levels, LevelsOk(levels), NEW i \in DOMAIN levels, NEW n \in 1..levels[i].size
  PROVE  LevelsOk([levels EXCEPT ![i].size = @ - n])
<1> DEFINE new == [levels EXCEPT ![i].size = @ - n]
<1>1. DOMAIN new = DOMAIN levels
  OBVIOUS
<1>2. \A j \in DOMAIN levels : j # i => new[j] = levels[j]
  OBVIOUS
<1>3. new[i] = [levels[i] EXCEPT !.size = @ - n]
  OBVIOUS
<1>4. levels[i] \in [offset : Int, size : Nat]
  BY DEF LevelsOk
<1>5. new[i] \in [offset : Int, size : Nat]
  BY <1>3, <1>4
<1> HIDE DEF new
<1>7. LevelsOk(new)
  BY <1>1, <1>2, <1>5 DEF LevelsOk
<1> QED
  BY <1>7 DEF new

\* What a taker pays or is paid is an integer.
LEMMA MatchInt ==
  ASSUME NEW n \in Nat, NEW p \in Int, p > 0, NEW side, NEW f \in Int
  PROVE  /\ BaseToQuoteLots(TheMarket, n, p, side) \in Nat
         /\ CalculateFee(BaseToQuoteLots(TheMarket, n, p, side), f) \in Int
<1>1. BaseToQuoteLots(TheMarket, n, p, side) \in Nat
  BY BookAssumption, MatchLotsNat
<1> QED
  BY <1>1, FeeType

\* So does a fill.
LEMMA FillsFunds ==
  ASSUME FundsInv, NEW i \in 1..MAX_LEVELS, NEW n \in 1..MaxSize, FillBid(i, n) \/ FillAsk(i, n)
  PROVE  FundsInv'
<1> DEFINE b == Synced(book)
<1>1. fee \in Int /\ config \in Int /\ Priced(b)
      /\ b.bid_levels = book.bid_levels /\ b.ask_levels = book.ask_levels
      /\ b.mid_price_ticks \in Int /\ b.quote_locked \in Int /\ b.quote_free \in Int
  BY SyncedPriced DEF FundsInv, Priced
<1>2. n \in Nat
  BY QuotingAssumption
<1>3. CASE FillBid(i, n)
  <2> DEFINE price == b.mid_price_ticks + b.bid_levels[i].offset
             quote == BaseToQuoteLots(TheMarket, n, price, "Ask")
             cost == quote + CalculateFee(quote, fee)
             locked == SaturatingSub(b.quote_locked, cost)
             free == b.quote_free - SaturatingSub(cost, b.quote_locked)
  <2>1. /\ i \in DOMAIN b.bid_levels /\ n \in 1..b.bid_levels[i].size /\ price > 0
        /\ UNCHANGED <<fee, config, processes>>
    BY <1>1, <1>3 DEF FillBid, Active
  <2>2. price \in Int
    BY <1>1, <2>1 DEF Priced, LevelsOk
  <2>3. cost \in Int
    <3> HIDE DEF price
    <3> QED BY <1>1, <1>2, <2>1, <2>2, MatchInt
  <2>4. PICK base :
          book' = [b EXCEPT !.bid_levels[i].size = @ - n, !.quote_locked = locked,
                            !.quote_free = free, !.base_free = base]
    BY <1>3 DEF FillBid
  <2> HIDE DEF cost
  <2>5. locked \in Int /\ free \in Int
    BY <1>1, <2>3 DEF SaturatingSub
  <2> HIDE DEF locked, free, b
  <2>6. LevelsOk([b.bid_levels EXCEPT ![i].size = @ - n])
    BY <1>1, <2>1, FilledLevels DEF Priced
  <2>7. Priced(book')
    BY <1>1, <2>4, <2>5, <2>6 DEF Priced
  <2> QED BY <1>1, <2>1, <2>7, QuietFunds
<1>4. CASE FillAsk(i, n)
  <2> DEFINE price == b.mid_price_ticks + b.ask_levels[i].offset
             quote == BaseToQuoteLots(TheMarket, n, price, "Bid")
             free == b.quote_free + quote - CalculateFee(quote, fee)
  <2>1. /\ i \in DOMAIN b.ask_levels /\ n \in 1..b.ask_levels[i].size /\ price > 0
        /\ UNCHANGED <<fee, config, processes>>
    BY <1>1, <1>4 DEF FillAsk, Active
  <2>2. price \in Int
    BY <1>1, <2>1 DEF Priced, LevelsOk
  <2>3. free \in Int
    <3> HIDE DEF price
    <3> QED BY <1>1, <1>2, <2>1, <2>2, MatchInt
  <2>4. PICK base :
          book' = [b EXCEPT !.ask_levels[i].size = @ - n, !.base_locked = base, !.quote_free = free]
    BY <1>4 DEF FillAsk
  <2> HIDE DEF free, b
  <2>5. LevelsOk([b.ask_levels EXCEPT ![i].size = @ - n])
    BY <1>1, <2>1, FilledLevels DEF Priced
  <2>6. Priced(book')
    BY <1>1, <2>3, <2>4, <2>5 DEF Priced
  <2> QED BY <1>1, <2>1, <2>6, QuietFunds
<1> QED
  BY <1>3, <1>4

\* So do deposits, the admin's settings and the clock.
LEMMA OthersFunds ==
  ASSUME FundsInv,
         \/ \E lots \in Deposits : Deposit(lots)
         \/ \E q \in TwoSidedQuotes : Rescale(q)
         \/ \E e \in Expiries : UpdateExpiry(e)
         \/ \E f \in Fees : UpdateFee(f)
         \/ ToggleSuspension \/ Tick \/ Restart \/ RefreshConfig \/ UNCHANGED vars
  PROVE  FundsInv'
<1>1. Priced(book) /\ fee \in Int /\ config \in Int
  BY DEF FundsInv
<1>2. ASSUME NEW lots \in Deposits, Deposit(lots) PROVE FundsInv'
  <2>1. Priced(book')
    BY <1>1, <1>2, QuotingAssumption DEF Deposit, Priced
  <2> QED BY <1>1, <1>2, <2>1, QuietFunds DEF Deposit
<1>3. ASSUME NEW q \in TwoSidedQuotes, Rescale(q) PROVE FundsInv'
  <2> DEFINE u == BookUpdate(q, book.mid_price_ticks)
  <2>1. u.mid \in Int /\ LevelsOk(u.bids) /\ LevelsOk(u.asks)
    BY <1>3, UpdateParts DEF Rescale
  <2>2. book' = WithLevels(book, u.mid, u.bids, u.asks)
    BY <1>3 DEF Rescale
  <2> HIDE DEF u
  <2>3. Priced(book')
    BY <1>1, <2>1, <2>2, WithLevelsPriced
  <2> QED BY <1>1, <1>3, <2>3, QuietFunds DEF Rescale
<1>4. ASSUME NEW e \in Expiries, UpdateExpiry(e) PROVE FundsInv'
  <2>1. Priced(book')
    BY <1>1, <1>4 DEF UpdateExpiry, Priced
  <2> QED BY <1>1, <1>4, <2>1, QuietFunds DEF UpdateExpiry
<1>5. CASE ToggleSuspension
  <2>1. Priced(book')
    BY <1>1, <1>5 DEF ToggleSuspension, Priced
  <2> QED BY <1>1, <1>5, <2>1, QuietFunds DEF ToggleSuspension
<1>6. CASE (\E f \in Fees : UpdateFee(f)) \/ Tick \/ Restart \/ RefreshConfig \/ UNCHANGED vars
  <2>1. UNCHANGED <<book, processes>> /\ fee' \in Int /\ config' \in Int
    BY <1>1, <1>6, QuotingAssumption DEF UpdateFee, Tick, Restart, RefreshConfig, vars
  <2> QED BY <1>1, <2>1, QuietFunds
<1> QED
  BY <1>2, <1>3, <1>4, <1>5, <1>6

\* The balances are numbers, and every transaction in flight is what its
\* builder made of the process's read, in every state.
THEOREM FundsInvariance == Spec => []FundsInv
<1>1. Init => FundsInv
  <2> SUFFICES ASSUME Init PROVE FundsInv
    OBVIOUS
  <2>1. /\ book = EmptyBook /\ fee \in Fees /\ config = fee
        /\ \A t \in Tasks : pc[t] = "idle" /\ snap[t] = EmptyBook
    BY DEF Init
  <2> QED BY <2>1, EmptyBookPriced, QuotingAssumption DEF FundsInv
<1>2. IInv /\ FundsInv /\ [Next]_vars => FundsInv'
  <2> SUFFICES ASSUME IInv, FundsInv, [Next]_vars PROVE FundsInv'
    OBVIOUS
  <2>1. Shapes
    BY DEF IInv
  <2> QED BY <2>1, OthersFunds, FillsFunds, ReadFunds, BuildsFunds, LandsFunds DEF Next
<1> QED
  BY <1>1, <1>2, Invariance, PTL DEF Spec

-----------------------------------------------------------------------------
(* The theorems *)

\* A stale write lands over at most one other, and only an update without a
\* mid move does: RaceCounts says what has landed since the read while the
\* number is less than two above it, and beyond that no write built from the
\* read finds a fresh number.
THEOREM OverwritesBounded == Spec => OverwritesAtMostOne
<1>1. ASSUME IInv, NEW t \in Tasks, Lands(t), raced[t] # <<>>
      PROVE  /\ tx[t].kind = "update" /\ ~tx[t].update.mid_price_changed
             /\ raced[t] = << <<NextSequenceNumber(t)>> >>
  <2> DEFINE seen == snap[t].last_updated_sequence_number
             now == book.last_updated_sequence_number
  <2>1. pc[t] = "sent" /\ tx[t].kind # "drain" /\ SeqsOk(now, tx[t].seq)
    BY <1>1 DEF Lands, LandUpdate, LandMid, LandClear
  <2>2. seen \in Nat /\ now \in Nat
    BY <1>1 DEF IInv, Shapes, Stamped
  <2>3. (now = seen + 1 /\ raced[t] = << <<seen + 1>> >>) \/ now >= seen + 2
    BY <1>1, <2>1 DEF IInv, RaceCounts
  <2>4. tx[t].seq[1] > now
    BY <2>1, <2>2, SeqShapes, <1>1 DEF SeqsOk, SeqOk, SeqShape
  <2>5. TxFromSnap(t)
    BY <1>1, <2>1 DEF IInv
  <2>6. tx[t].seq[1] # seen + 1
    BY <2>2, <2>3, <2>4
  <2>7. tx[t].kind \notin {"update_book", "mid", "clear"}
    BY <2>2, <2>5, <2>6 DEF TxFromSnap, NextSequenceNumber
  <2>8. tx[t].kind = "update"
    BY <2>1, <2>5, <2>7 DEF TxFromSnap, Kinds
  <2>9. ~tx[t].update.mid_price_changed
    BY <2>5, <2>6, <2>8 DEF TxFromSnap, UpdateSequence, NextSequenceNumber
  <2>10. tx[t].seq[1] = seen + 2
    BY <2>2, <2>5, <2>8, <2>9 DEF TxFromSnap, UpdateSequence, NextSequenceNumber
  <2> QED
    BY <2>2, <2>3, <2>4, <2>8, <2>9, <2>10 DEF NextSequenceNumber
<1>2. IInv /\ [Next]_vars =>
        [\A t \in Tasks :
           (Lands(t) /\ raced[t] # <<>>) =>
             /\ tx[t].kind = "update" /\ ~tx[t].update.mid_price_changed
             /\ raced[t] = << <<NextSequenceNumber(t)>> >>]_vars
  BY <1>1
<1> QED
  BY <1>2, Invariance, PTL DEF Spec, OverwritesAtMostOne

\* Only a quote signed since the last restart and within the expiry is
\* filled: the account's slot is that of the maker's last quote.
THEOREM DeadQuotesUnfilled == Spec => NoFillOfDeadQuotes
<1>1. ASSUME IInv, Fills
      PROVE  /\ restart > 0 => quoted > restart
             /\ book.expiry_in_slots > 0 => slot - quoted < book.expiry_in_slots
  <2>1. IsFillable(book, slot, restart, fee)
    BY <1>1 DEF Fills, FillBid, FillAsk
  <2>2. /\ slot \in Nat /\ restart \in Nat /\ quoted \in Nat /\ book.last_updated_slot = quoted
        /\ book.expiry_in_slots \in Nat
    BY <1>1 DEF IInv, Shapes, SlotIsQuoted, Stamped
  <2> QED
    BY <2>1, <2>2 DEF IsFillable, IsStale, IsPreRestart, SaturatingSub
<1>2. IInv /\ [Next]_vars =>
        [Fills => /\ restart > 0 => quoted > restart
                  /\ book.expiry_in_slots > 0 => slot - quoted < book.expiry_in_slots]_vars
  BY <1>1
<1> QED
  BY <1>2, Invariance, PTL DEF Spec, NoFillOfDeadQuotes

\* A book judged ineligible from an older slot and an older restart slot is
\* not fillable at the current ones: both tests only turn false to true.
THEOREM HiddenIsUnfillable == Spec => []HiddenStaysHidden
<1>1. IInv => HiddenStaysHidden
  <2> SUFFICES ASSUME IInv, NEW s \in 0..slot, NEW r \in {0, restart},
                      IsFillable(book, slot, restart, fee)
               PROVE  IsFillable(book, s, r, fee)
    BY DEF HiddenStaysHidden
  <2>1. slot \in Nat /\ restart \in Nat /\ book.last_updated_slot \in Nat
        /\ book.expiry_in_slots \in Nat
    BY DEF IInv, Shapes, Stamped
  <2> QED
    BY <2>1 DEF IsFillable, IsStale, IsPreRestart, SaturatingSub
<1> QED
  BY <1>1, Invariance, PTL

\* A drain of a book as it was read asks for exactly what the program lets go:
\* its lots are withdrawable_lots of the read at the fee of the cached
\* configuration, and both are what the program sees.
THEOREM DrainLands == Spec => []FreshDrainLands
<1>1. FundsInv => FreshDrainLands
  <2> SUFFICES ASSUME FundsInv, NEW t \in Tasks, pc[t] = "sent", tx[t].kind = "drain",
                      snap[t] = book, tx[t].fee = fee, IsQuoteSyncFundable(book, fee)
               PROVE  DrainAccepted(tx[t].lots) /\ tx[t].lots = ProjectedFree(book, fee)
    BY DEF FreshDrainLands
  <2>1. tx[t].lots = WithdrawableQuote(book, fee)
    BY DEF FundsInv, TxBuilt
  <2>2. tx[t].lots = ProjectedFree(book, fee)
    BY <2>1 DEF WithdrawableQuote
  <2>3. ProjectedFree(book, fee) \in Int
    BY ProjectedInt DEF FundsInv
  <2> QED BY <2>2, <2>3 DEF DrainAccepted
<1> QED
  BY <1>1, FundsInvariance, PTL

\* The estimate of build_book_update is what the book locks, fee buffer apart:
\* an update lands only if its reserve fits a u64, where the estimate's
\* conversion does not saturate, and the closed form of the reserve is the sum
\* of the per-level ceilings.
THEOREM EstimateExact == Spec => EstimateIsLocked
<1>1. ASSUME FundsInv, NEW t \in Tasks, LandUpdate(t)
      PROVE  book'.quote_locked =
               tx[t].update.estimated_quote
                 + (IF fee > 0 THEN CeilDiv(tx[t].update.estimated_quote * fee, PPM_DIVISOR) ELSE 0)
  <2> DEFINE u == tx[t].update
             D == DOMAIN u.bids
             exact == LotsAt(u.bids, u.mid)
             n == SumFunctionOnSet(exact, D)
             guess == [i \in D |-> QuoteLotsCeil(TheMarket, u.bids[i].size, u.mid + u.bids[i].offset)]
  <2>1. PICK q \in TwoSidedQuotes :
          BookUpdateFits(q) /\ u = BookUpdate(q, snap[t].mid_price_ticks)
    BY <1>1 DEF LandUpdate, FundsInv, TxBuilt
  <2>2. /\ u.mid \in Int /\ LevelsOk(u.bids) /\ u.estimated_quote = SumFunction(guess)
        /\ D = DOMAIN q.bids
        /\ \A i \in D : u.mid + u.bids[i].offset = PriceToTicks(q.bids[i].price)
    BY <2>1, UpdateParts
  <2>3. /\ RequiredQuoteReserve(u.bids, u.mid, fee) <= U64_MAX
        /\ \A i \in Active(u.bids) : u.mid + u.bids[i].offset >= 0
    <3>1. ReserveFits(u.bids, u.mid, fee)
      BY <1>1 DEF LandUpdate, Solvent
    <3>2. \A i \in Active(u.bids) : i \in D
      BY DEF Active
    <3>3. \A i \in D : u.mid + u.bids[i].offset \in Nat
      BY <2>1, <2>2, QuoteTypes, PriceToTicksNat
    <3> QED BY <3>1, <3>2, <3>3 DEF ReserveFits
  <2>4. fee \in Int
    BY <1>1 DEF FundsInv
  <2>5. n \in Nat /\ FeeBuffer(n, fee) \in Nat
        /\ RequiredQuoteReserve(u.bids, u.mid, fee) = n + FeeBuffer(n, fee)
    BY <2>2, <2>3, <2>4, ReserveIs
  <2>6. IsFiniteSet(D) /\ \A i \in D : exact[i] \in Nat
    BY <2>2, <2>3, RemainingNat DEF LevelsOk
  <2>7. ASSUME NEW i \in D PROVE guess[i] = exact[i]
    <3> DEFINE s == u.bids[i].size
               p == u.mid + u.bids[i].offset
    <3>1. s \in Nat /\ p \in Nat
      BY <2>1, <2>2, QuoteTypes, PriceToTicksNat DEF LevelsOk
    <3>2. exact[i] = LotsCeil(s, p) /\ guess[i] = QuoteLotsCeil(TheMarket, s, p)
      BY DEF LotsAt
    <3>3. exact[i] <= n
      <4> HIDE DEF exact, D
      <4> QED BY <2>6, SumTerm
    <3>4. exact[i] \in Nat /\ U64_MAX \in Nat
      BY <2>6, WordAssumption
    <3> HIDE DEF exact, guess, n, s, p
    <3>5. LotsCeil(s, p) <= U64_MAX
      BY <2>3, <2>5, <3>2, <3>3, <3>4
    <3> QED BY <3>1, <3>2, <3>5, QuoteLotsCeilExact
  <2>8. u.estimated_quote = n
    <3>1. DOMAIN guess = D
      OBVIOUS
    <3>2. SumFunctionOnSet(guess, D) = n
      <4> HIDE DEF guess, exact, D
      <4> QED BY <2>6, <2>7, SumSame
    <3> QED BY <2>2, <3>1, <3>2 DEF SumFunction
  <2>9. book'.quote_locked = RequiredQuoteReserve(u.bids, u.mid, fee)
    <3> DEFINE levels == WithLevels(book, u.mid, u.bids, u.asks)
               locked == RequiredQuoteReserve(u.bids, u.mid, fee)
    <3>1. Priced(book)
      BY <1>1 DEF FundsInv
    <3>2. levels.quote_locked = locked /\ "quote_locked" \in DOMAIN levels
          /\ levels = [f \in DOMAIN levels |-> levels[f]]
      <4> HIDE DEF locked
      <4> QED BY <3>1 DEF WithLevels, Priced, locked
    <3>3. book' = [[levels EXCEPT !.last_updated_slot = slot]
                     EXCEPT !.last_updated_sequence_number = tx[t].seq[Len(tx[t].seq)]]
      BY <1>1 DEF LandUpdate, Landed
    <3> HIDE DEF levels, locked
    <3> QED BY <3>2, <3>3 DEF locked
  <2> HIDE DEF n
  <2> QED BY <2>5, <2>8, <2>9 DEF FeeBuffer
<1>2. FundsInv /\ [Next]_vars =>
        [\A t \in Tasks :
           LandUpdate(t) =>
             LET estimate == tx[t].update.estimated_quote
             IN  book'.quote_locked =
                   estimate + (IF fee > 0 THEN CeilDiv(estimate * fee, PPM_DIVISOR) ELSE 0)]_vars
  BY <1>1
<1> QED
  BY <1>2, FundsInvariance, PTL DEF Spec, EstimateIsLocked

\* A number of ticks to the nearest grows with the price.
LEMMA TicksMonotone ==
  ASSUME NEW a \in Nat, NEW b \in Nat, a <= b
  PROVE  PriceToTicks(a) <= PriceToTicks(b)
<1>1. 2 * a + SUBTICKS \in Int /\ 2 * b + SUBTICKS \in Int /\ 2 * SUBTICKS \in Nat \ {0}
      /\ 2 * a + SUBTICKS <= 2 * b + SUBTICKS
  BY ScaleAssumption
<1> QED
  BY <1>1, DivMonotone DEF PriceToTicks, RoundTicks

\* The midpoint of two prices lies between their ticks.
LEMMA MidBetween ==
  ASSUME NEW a \in Nat, NEW b \in Nat, a <= b
  PROVE  LET mid == RoundTicks(a + b, 2 * SUBTICKS)
         IN  PriceToTicks(a) <= mid /\ mid <= PriceToTicks(b)
<1> DEFINE S == SUBTICKS
           x == PriceToTicks(a)
           y == PriceToTicks(b)
           z == RoundTicks(a + b, 2 * S)
<1>1. S \in Nat \ {0}
  BY ScaleAssumption
<1>2. 2 * a + S \in Int /\ 2 * b + S \in Int /\ 2 * S \in Nat \ {0}
  BY <1>1
<1>3. 2 * (a + b) + 2 * S \in Int /\ 2 * (2 * S) \in Nat \ {0}
  BY <1>1
<1>4. x \in Int /\ (2 * S) * x <= 2 * a + S
  BY <1>2, DivFacts DEF PriceToTicks, RoundTicks
<1>5. y \in Int /\ 2 * b + S < (2 * S) * y + 2 * S
  BY <1>2, DivFacts DEF PriceToTicks, RoundTicks
<1>6. z = (2 * (a + b) + 2 * S) \div (2 * (2 * S))
  BY DEF RoundTicks
<1> HIDE DEF x, y, z, S
<1>7. (2 * (2 * S)) * x <= 2 * (a + b) + 2 * S
  BY <1>1, <1>4, Z3
<1>8. 2 * (a + b) + 2 * S < (2 * (2 * S)) * y + 2 * (2 * S)
  BY <1>1, <1>5, Z3
<1>9. x <= z
  BY <1>3, <1>4, <1>6, <1>7, DivAtLeast
<1>10. z <= y
  BY <1>3, <1>5, <1>6, <1>8, DivAtMost
<1> QED
  BY <1>9, <1>10 DEF x, y, z, S

\* The first price of a side in order is its best: bids fall, asks rise.
LEMMA BestFirst ==
  ASSUME NEW n \in Nat, NEW price, \A i \in 1..n : price[i] \in Nat
  PROVE  /\ (\A i \in 2..n : price[i] < price[i - 1]) => \A i \in 1..n : price[i] <= price[1]
         /\ (\A i \in 2..n : price[i] > price[i - 1]) => \A i \in 1..n : price[i] >= price[1]
<1>1. ASSUME \A i \in 2..n : price[i] < price[i - 1]
      PROVE  \A i \in 1..n : price[i] <= price[1]
  <2> DEFINE T == {k \in Nat : k + 1 \in 1..n => price[k + 1] <= price[1]}
  <2>1. 0 \in T
    OBVIOUS
  <2>2. ASSUME NEW k \in T PROVE k + 1 \in T
    <3> SUFFICES ASSUME (k + 1) + 1 \in 1..n PROVE price[(k + 1) + 1] <= price[1]
      OBVIOUS
    <3>1. k \in Nat /\ k + 1 \in 1..n /\ (k + 1) + 1 \in 2..n /\ ((k + 1) + 1) - 1 = k + 1 /\ 1 \in 1..n
      OBVIOUS
    <3>2. price[k + 1] <= price[1]
      BY <3>1
    <3>3. price[(k + 1) + 1] < price[k + 1]
      BY <1>1, <3>1
    <3> QED BY <3>1, <3>2, <3>3
  <2>3. T = Nat
    <3> HIDE DEF T
    <3> QED BY <2>1, <2>2, NatSetInduction DEF T
  <2>4. \A i \in 1..n : i - 1 \in Nat /\ (i - 1) + 1 = i
    OBVIOUS
  <2> QED BY <2>3, <2>4
<1>2. ASSUME \A i \in 2..n : price[i] > price[i - 1]
      PROVE  \A i \in 1..n : price[i] >= price[1]
  <2> DEFINE T == {k \in Nat : k + 1 \in 1..n => price[k + 1] >= price[1]}
  <2>1. 0 \in T
    OBVIOUS
  <2>2. ASSUME NEW k \in T PROVE k + 1 \in T
    <3> SUFFICES ASSUME (k + 1) + 1 \in 1..n PROVE price[(k + 1) + 1] >= price[1]
      OBVIOUS
    <3>1. k \in Nat /\ k + 1 \in 1..n /\ (k + 1) + 1 \in 2..n /\ ((k + 1) + 1) - 1 = k + 1 /\ 1 \in 1..n
      OBVIOUS
    <3>2. price[k + 1] >= price[1]
      BY <3>1
    <3>3. price[(k + 1) + 1] > price[k + 1]
      BY <1>2, <3>1
    <3> QED BY <3>1, <3>2, <3>3
  <2>3. T = Nat
    <3> HIDE DEF T
    <3> QED BY <2>1, <2>2, NatSetInduction DEF T
  <2>4. \A i \in 1..n : i - 1 \in Nat /\ (i - 1) + 1 = i
    OBVIOUS
  <2> QED BY <2>3, <2>4
<1> QED
  BY <1>1, <1>2

\* The mid price of a quote lies between its bids and its asks.
LEMMA SidesOfMid ==
  ASSUME NEW q \in TwoSidedQuotes, BookUpdateFits(q)
  PROVE  /\ \A i \in DOMAIN q.bids : PriceToTicks(q.bids[i].price) <= ComputeMidPrice(q)
         /\ \A i \in DOMAIN q.asks : PriceToTicks(q.asks[i].price) >= ComputeMidPrice(q)
<1> DEFINE nb == Len(q.bids)
           na == Len(q.asks)
           bid == [i \in 1..nb |-> q.bids[i].price]
           ask == [i \in 1..na |-> q.asks[i].price]
           mid == ComputeMidPrice(q)
<1>1. /\ nb \in Nat /\ DOMAIN q.bids = 1..nb /\ \A i \in 1..nb : bid[i] \in Nat
      /\ na \in Nat /\ DOMAIN q.asks = 1..na /\ \A i \in 1..na : ask[i] \in Nat
      /\ q.bids # <<>> => 1 \in 1..nb
      /\ q.asks # <<>> => 1 \in 1..na
  BY QuoteTypes
<1>2. \A i \in 2..nb : bid[i] < bid[i - 1]
  <2>1. \A i \in 2..nb : i \in 1..nb /\ i - 1 \in 1..nb
    BY <1>1
  <2>2. \A i \in 2..nb : q.bids[i].price < q.bids[i - 1].price
    BY DEF BookUpdateFits, ValidQuoteStructure
  <2> QED BY <2>1, <2>2
<1>3. \A i \in 2..na : ask[i] > ask[i - 1]
  <2>1. \A i \in 2..na : i \in 1..na /\ i - 1 \in 1..na
    BY <1>1
  <2>2. \A i \in 2..na : q.asks[i].price > q.asks[i - 1].price
    BY DEF BookUpdateFits, ValidQuoteStructure
  <2> QED BY <2>1, <2>2
<1>4. /\ \A i \in 1..nb : bid[i] <= bid[1]
      /\ \A i \in 1..na : ask[i] >= ask[1]
  <2> HIDE DEF bid, ask, nb, na
  <2> QED BY <1>1, <1>2, <1>3, BestFirst
<1>5. /\ \A i \in 1..nb : q.bids[i].price = bid[i]
      /\ \A i \in 1..na : q.asks[i].price = ask[i]
  OBVIOUS
<1>6. mid \in Int /\ (q.bids # <<>> => PriceToTicks(bid[1]) <= mid)
                  /\ (q.asks # <<>> => PriceToTicks(ask[1]) >= mid)
  <2>1. mid \in Int
    BY MidInt
  <2>2. CASE q.bids # <<>> /\ q.asks # <<>>
    <3>1. q.bids[1].price < q.asks[1].price
      BY <2>2 DEF BookUpdateFits, ValidQuoteStructure
    <3>2. mid = RoundTicks(q.bids[1].price + q.asks[1].price, 2 * SUBTICKS)
      BY <2>2 DEF ComputeMidPrice
    <3>3. /\ bid[1] \in Nat /\ ask[1] \in Nat
          /\ bid[1] = q.bids[1].price /\ ask[1] = q.asks[1].price
      BY <1>1, <1>5, <2>2
    <3> HIDE DEF bid, ask, mid
    <3>4. bid[1] <= ask[1] /\ mid = RoundTicks(bid[1] + ask[1], 2 * SUBTICKS)
      BY <3>1, <3>2, <3>3
    <3>5. PriceToTicks(bid[1]) <= mid /\ mid <= PriceToTicks(ask[1])
      BY <3>3, <3>4, MidBetween
    <3>6. PriceToTicks(ask[1]) \in Nat
      BY <3>3, PriceToTicksNat
    <3> QED BY <2>1, <3>5, <3>6
  <2>3. CASE q.bids # <<>> /\ q.asks = <<>>
    <3>1. mid = PriceToTicks(bid[1])
      BY <1>1, <1>5, <2>3 DEF ComputeMidPrice
    <3> QED BY <2>1, <2>3, <3>1
  <2>4. CASE q.bids = <<>>
    <3>1. q.asks # <<>>
      BY <2>4 DEF BookUpdateFits
    <3>2. mid = PriceToTicks(ask[1])
      BY <1>1, <1>5, <2>4, <3>1 DEF ComputeMidPrice
    <3> QED BY <2>1, <2>4, <3>2
  <2> QED BY <2>2, <2>3, <2>4
<1> HIDE DEF mid, bid, ask, nb, na
<1>7. ASSUME NEW i \in 1..nb PROVE PriceToTicks(q.bids[i].price) <= mid
  <2>1. 1 \in 1..nb /\ q.bids # <<>>
    BY <1>1, <1>7
  <2>2. PriceToTicks(bid[i]) <= PriceToTicks(bid[1])
    BY <1>1, <1>4, <2>1, TicksMonotone
  <2>3. PriceToTicks(bid[i]) \in Nat /\ PriceToTicks(bid[1]) \in Nat
    BY <1>1, <2>1, PriceToTicksNat
  <2> QED BY <1>5, <1>6, <2>1, <2>2, <2>3
<1>8. ASSUME NEW i \in 1..na PROVE PriceToTicks(q.asks[i].price) >= mid
  <2>1. 1 \in 1..na /\ q.asks # <<>>
    BY <1>1, <1>8
  <2>2. PriceToTicks(ask[1]) <= PriceToTicks(ask[i])
    BY <1>1, <1>4, <2>1, TicksMonotone
  <2>3. PriceToTicks(ask[i]) \in Nat /\ PriceToTicks(ask[1]) \in Nat
    BY <1>1, <2>1, PriceToTicksNat
  <2> QED BY <1>5, <1>6, <2>1, <2>2, <2>3
<1> QED
  BY <1>1, <1>7, <1>8 DEF mid

\* In every update in flight the bids rest at or below the mid and the asks at
\* or above it: rounding to a tick is monotone, the midpoint is rounded on a
\* scale twice as fine, and the best price of a side comes first.
THEOREM MidBetweenSides == Spec => []MidSplitsQuote
<1>1. FundsInv => MidSplitsQuote
  <2> SUFFICES ASSUME FundsInv, NEW t \in Tasks, pc[t] = "sent",
                      tx[t].kind \in {"update", "update_book"}
               PROVE  /\ \A i \in DOMAIN tx[t].update.bids : tx[t].update.bids[i].offset <= 0
                      /\ \A i \in DOMAIN tx[t].update.asks : tx[t].update.asks[i].offset >= 0
    BY DEF MidSplitsQuote
  <2> DEFINE u == tx[t].update
  <2>1. PICK q \in TwoSidedQuotes :
          BookUpdateFits(q) /\ u = BookUpdate(q, snap[t].mid_price_ticks)
    BY DEF FundsInv, TxBuilt
  <2>2. /\ u.mid = ComputeMidPrice(q) /\ u.mid \in Int
        /\ u.bids = LevelsOf(q.bids, u.mid) /\ u.asks = LevelsOf(q.asks, u.mid)
        /\ DOMAIN u.bids = DOMAIN q.bids /\ DOMAIN u.asks = DOMAIN q.asks
    <3> DEFINE m == snap[t].mid_price_ticks
    <3> HIDE DEF u, m
    <3> QED BY <2>1, UpdateParts DEF m
  <2> HIDE DEF u
  <2>3. ASSUME NEW i \in DOMAIN u.bids PROVE u.bids[i].offset <= 0
    <3>1. u.bids[i].offset = PriceToTicks(q.bids[i].price) - u.mid
      BY <2>2 DEF LevelsOf
    <3>2. PriceToTicks(q.bids[i].price) \in Nat
      BY <2>2, QuoteTypes, PriceToTicksNat
    <3>3. PriceToTicks(q.bids[i].price) <= u.mid
      BY <2>1, <2>2, SidesOfMid
    <3> QED BY <2>2, <3>1, <3>2, <3>3
  <2>4. ASSUME NEW i \in DOMAIN u.asks PROVE u.asks[i].offset >= 0
    <3>1. u.asks[i].offset = PriceToTicks(q.asks[i].price) - u.mid
      BY <2>2 DEF LevelsOf
    <3>2. PriceToTicks(q.asks[i].price) \in Nat
      BY <2>2, QuoteTypes, PriceToTicksNat
    <3>3. PriceToTicks(q.asks[i].price) >= u.mid
      BY <2>1, <2>2, SidesOfMid
    <3> QED BY <2>2, <3>1, <3>2, <3>3
  <2> QED BY <2>3, <2>4 DEF u
<1> QED
  BY <1>1, FundsInvariance, PTL
=============================================================================
