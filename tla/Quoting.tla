------------------------------- MODULE Quoting -------------------------------
(***************************************************************************)
(* The quote cycle of a market maker (MM) book: several processes of the   *)
(* maker and its delegate read the book, build a write with                *)
(* ix_builder/maker.rs from what they read and send it; the write lands    *)
(* later or never.  Meanwhile takers fill, the slot advances, the cluster  *)
(* may restart, the vault may rescale the book, and the authority may      *)
(* suspend it or change the maker fee.                                     *)
(*                                                                         *)
(* The program is external: what it does with UpdateMidPrice, UpdateBook,  *)
(* ClearBook, UpdateBookRescale, MakerDepositFunds, MakerWithdrawFunds,    *)
(* UpdateExpiryInSlots and Swap is taken from instruction.rs and from the  *)
(* functions of maker_book.rs that transcribe its rules.                   *)
(***************************************************************************)
EXTENDS MakerBook

CONSTANTS
  Tasks,             \* quoting processes
  Ops,               \* the operations in use
  TwoSidedQuotes,    \* the quotes they try
  Mids,              \* the mid prices they try
  Deposits,          \* quote lots deposited at a time
  Fees,              \* maker fees (ppm) the authority sets
  Expiries,          \* expiry_in_slots settings
  BaseFunds,         \* base lots the maker deposited at the start
  MAX_SEQUENCE_JUMP, \* 65535
  MaxSize,           \* bound: lots one fill takes
  MaxSeq,            \* bound: sequence number of the book
  MaxSlot,           \* bound: slots
  MaxFunds,          \* bound: quote lots in the book
  MaxBase            \* bound: base lots in the book

ASSUME QuotingAssumption ==
  /\ MAX_SEQUENCE_JUMP \in Nat /\ MaxSeq \in Nat /\ MaxSlot \in Nat
  /\ MaxFunds \in Nat /\ MaxBase \in Nat /\ MaxSize \in Nat /\ BaseFunds \in Nat
  /\ Fees \subseteq Int /\ Mids \subseteq Nat /\ Expiries \subseteq Nat
  /\ Deposits \subseteq Nat
  /\ TwoSidedQuotes \subseteq [bids : Seq([price : Nat, size : Nat]),
                              asks : Seq([price : Nat, size : Nat])]

VARIABLES
  book,     \* the MakerBook account
  slot,     \* the cluster's slot
  restart,  \* the LastRestartSlot sysvar, 0 before any restart
  fee,      \* the market's maker_fee_ppm
  config,   \* maker_fee_ppm in the client's cached MarketConfig
  pc,       \* where each process stands
  snap,     \* the book each process read
  tx,       \* the transaction each process sent
  raced,    \* history: sequence numbers of the writes landed since that read
  quoted    \* history: slot of the last write of a quote by the maker

processes == <<pc, snap, tx, raced>>
vars == <<book, slot, restart, fee, config, processes, quoted>>

NoTx == [kind |-> "none"]

EmptyBook ==
  [mid_price_ticks |-> 0, mid_at_last_sync |-> 0, quote_locked |-> 0, quote_free |-> 0,
   base_locked |-> 0, base_free |-> BaseFunds, status |-> "Active",
   bid_levels |-> <<>>, ask_levels |-> <<>>, last_updated_sequence_number |-> 0,
   last_updated_slot |-> 0, expiry_in_slots |-> 0]

Init ==
  /\ book = EmptyBook
  /\ slot = 1 /\ restart = 0
  /\ fee \in Fees /\ config = fee
  /\ pc = [t \in Tasks |-> "idle"]
  /\ snap = [t \in Tasks |-> EmptyBook]
  /\ tx = [t \in Tasks |-> NoTx]
  /\ raced = [t \in Tasks |-> <<>>]
  /\ quoted = 0

-----------------------------------------------------------------------------
(* The maker's processes *)

\* get_maker_book.
ReadBook(t) ==
  /\ pc[t] = "idle"
  /\ pc' = [pc EXCEPT ![t] = "ready"]
  /\ snap' = [snap EXCEPT ![t] = book]
  /\ raced' = [raced EXCEPT ![t] = <<>>]
  /\ UNCHANGED <<book, slot, restart, fee, config, tx, quoted>>

\* Mutant: the number of the book as it is when the write is built.
NextSequenceNumberRefetched(t) == book.last_updated_sequence_number + 1

\* next_sequence_number of the book read.
NextSequenceNumber(t) == snap[t].last_updated_sequence_number + 1

Send(t, transaction) ==
  /\ pc[t] = "ready"
  /\ pc' = [pc EXCEPT ![t] = "sent"]
  /\ tx' = [tx EXCEPT ![t] = transaction]
  /\ UNCHANGED <<book, slot, restart, fee, config, snap, raced, quoted>>

\* The sequence number of each instruction of build_update_instructions:
\* UpdateMidPrice when the mid moved, then UpdateBook one above it.
UpdateSequence(changed, seq) == IF changed THEN <<seq, seq + 1>> ELSE <<seq + 1>>

\* build_book_update and build_update_instructions.
BuildUpdate(t, q) ==
  LET update == BookUpdate(q, snap[t].mid_price_ticks)
  IN  /\ "update" \in Ops
      /\ BookUpdateFits(q)
      /\ NextSequenceNumber(t) + 1 <= MaxSeq
      /\ Send(t, [kind |-> "update", update |-> update,
                  seq |-> UpdateSequence(update.mid_price_changed, NextSequenceNumber(t))])

\* build_update_book_ix: UpdateBook alone.
BuildUpdateBook(t, q) ==
  /\ "update_book" \in Ops
  /\ BookUpdateFits(q)
  /\ NextSequenceNumber(t) <= MaxSeq
  /\ Send(t, [kind |-> "update_book", update |-> BookUpdate(q, snap[t].mid_price_ticks),
              seq |-> <<NextSequenceNumber(t)>>])

\* build_update_mid_price_ix.
BuildMid(t, m) ==
  /\ "mid" \in Ops
  /\ NextSequenceNumber(t) <= MaxSeq
  /\ Send(t, [kind |-> "mid", mid |-> m, seq |-> <<NextSequenceNumber(t)>>])

\* build_clear_book_ix.
BuildClear(t) ==
  /\ "clear" \in Ops
  /\ NextSequenceNumber(t) <= MaxSeq
  /\ Send(t, [kind |-> "clear", seq |-> <<NextSequenceNumber(t)>>])

\* ArcherClient::build_withdraw of all the free quote: the lots are read off
\* the book, with the fee of the cached configuration.
BuildDrain(t) ==
  /\ "drain" \in Ops
  /\ Send(t, [kind |-> "drain", lots |-> WithdrawableQuote(snap[t], config), fee |-> config])

\* A builder's error, or the end of the cycle.
Finish(t) ==
  /\ pc' = [pc EXCEPT ![t] = "idle"]
  /\ snap' = [snap EXCEPT ![t] = EmptyBook]
  /\ tx' = [tx EXCEPT ![t] = NoTx]

\* The transaction fails, or expires unlanded (external).
Reject(t) ==
  /\ pc[t] = "sent"
  /\ Finish(t)
  /\ raced' = [raced EXCEPT ![t] = <<>>]
  /\ UNCHANGED <<book, slot, restart, fee, config, quoted>>

\* invalidate_market and a new fetch: see MarketConfigCache.
RefreshConfig ==
  /\ config # fee
  /\ config' = fee
  /\ UNCHANGED <<book, slot, restart, fee, processes, quoted>>

-----------------------------------------------------------------------------
(* The program (external) *)

SeqOk(current, s) == current < s /\ s <= current + MAX_SEQUENCE_JUMP

\* Every instruction of a transaction finds a fresh number.
SeqsOk(current, seqs) ==
  /\ SeqOk(current, seqs[1])
  /\ \A i \in 2..Len(seqs) : SeqOk(seqs[i - 1], seqs[i])

\* The levels replaced and the collateral recomputed.
WithLevels(b, mid, bids, asks) ==
  LET locked == RequiredQuoteReserve(bids, mid, fee)
  IN  [b EXCEPT !.mid_price_ticks = mid, !.mid_at_last_sync = mid,
                !.bid_levels = bids, !.ask_levels = asks,
                !.quote_locked = locked, !.quote_free = QuoteLotsTotal(b) - locked,
                !.base_locked = SizeOf(asks),
                !.base_free = b.base_free + b.base_locked - SizeOf(asks)]

Solvent(b, mid, bids, asks) ==
  /\ ReserveFits(bids, mid, fee) /\ PricesOk(asks, mid)
  /\ RequiredQuoteReserve(bids, mid, fee) <= QuoteLotsTotal(b)
  /\ SizeOf(asks) <= b.base_free + b.base_locked

\* A write of the maker landed with these numbers.
Landed(t, seqs, new_book) ==
  /\ book' = [new_book EXCEPT !.last_updated_sequence_number = seqs[Len(seqs)]]
  /\ raced' = [u \in Tasks |->
       IF u = t \/ pc[u] = "idle" THEN <<>> ELSE Append(raced[u], seqs)]
  /\ Finish(t)
  /\ UNCHANGED <<slot, restart, fee, config>>

\* [UpdateMidPrice,] UpdateBook.
LandUpdate(t) ==
  /\ pc[t] = "sent" /\ tx[t].kind \in {"update", "update_book"}
  /\ SeqsOk(book.last_updated_sequence_number, tx[t].seq)
  /\ LET u == tx[t].update
     IN  /\ Solvent(book, u.mid, u.bids, u.asks)
         /\ Landed(t, tx[t].seq,
              [WithLevels(book, u.mid, u.bids, u.asks) EXCEPT !.last_updated_slot = slot])
  /\ quoted' = slot

\* UpdateMidPrice alone: the rebalance of the quote lots is deferred.
LandMid(t) ==
  /\ pc[t] = "sent" /\ tx[t].kind = "mid"
  /\ SeqsOk(book.last_updated_sequence_number, tx[t].seq)
  /\ Landed(t, tx[t].seq,
       [book EXCEPT !.mid_price_ticks = tx[t].mid, !.last_updated_slot = slot,
          !.mid_at_last_sync = IF @ = 0 THEN book.mid_price_ticks ELSE @])
  /\ quoted' = slot

\* ClearBook: every lot is free again.
LandClear(t) ==
  /\ pc[t] = "sent" /\ tx[t].kind = "clear"
  /\ SeqsOk(book.last_updated_sequence_number, tx[t].seq)
  /\ Landed(t, tx[t].seq, WithLevels(book, book.mid_price_ticks, <<>>, <<>>))
  /\ UNCHANGED quoted

\* The balances once a pending rebalance is applied.
Synced(b) ==
  [b EXCEPT !.quote_locked = ProjectedLocked(b, fee), !.quote_free = ProjectedFree(b, fee),
            !.mid_at_last_sync = b.mid_price_ticks]

DrainAccepted(lots) ==
  IsQuoteSyncFundable(book, fee) /\ lots <= ProjectedFree(book, fee)

\* MakerWithdrawFunds of quote lots.
LandDrain(t) ==
  /\ pc[t] = "sent" /\ tx[t].kind = "drain"
  /\ DrainAccepted(tx[t].lots)
  /\ book' = [Synced(book) EXCEPT !.quote_free = @ - tx[t].lots]
  /\ Finish(t)
  /\ raced' = [raced EXCEPT ![t] = <<>>]
  /\ UNCHANGED <<slot, restart, fee, config, quoted>>

\* MakerDepositFunds.
Deposit(lots) ==
  /\ QuoteLotsTotal(book) + lots <= MaxFunds
  /\ book' = [book EXCEPT !.quote_free = @ + lots]
  /\ UNCHANGED <<slot, restart, fee, config, processes, quoted>>

\* A swap fills n lots of bid level i: the maker pays the quote lots and its
\* fee, out of what is locked as far as that goes.
FillBid(i, n) ==
  /\ "fill" \in Ops
  /\ IsFillable(book, slot, restart, fee)
  /\ i \in Active(book.bid_levels) /\ n \in 1..book.bid_levels[i].size
  /\ LET b == Synced(book)
         price == b.mid_price_ticks + b.bid_levels[i].offset
         quote == BaseToQuoteLots(TheMarket, n, price, "Ask")
         cost == quote + CalculateFee(quote, fee)
     IN  /\ price > 0
         /\ cost <= QuoteLotsTotal(b)
         /\ b.base_free + b.base_locked + n <= MaxBase
         /\ book' = [b EXCEPT !.bid_levels[i].size = @ - n,
                              !.quote_locked = SaturatingSub(@, cost),
                              !.quote_free = @ - SaturatingSub(cost, b.quote_locked),
                              !.base_free = @ + n]
  /\ UNCHANGED <<slot, restart, fee, config, processes, quoted>>

\* A swap fills n lots of ask level i: the maker is paid, less its fee.
FillAsk(i, n) ==
  /\ "fill" \in Ops
  /\ IsFillable(book, slot, restart, fee)
  /\ i \in Active(book.ask_levels) /\ n \in 1..book.ask_levels[i].size
  /\ LET b == Synced(book)
         price == b.mid_price_ticks + b.ask_levels[i].offset
         quote == BaseToQuoteLots(TheMarket, n, price, "Bid")
     IN  /\ price > 0
         /\ QuoteLotsTotal(b) + quote - CalculateFee(quote, fee) \in 0..MaxFunds
         /\ book' = [b EXCEPT !.ask_levels[i].size = @ - n, !.base_locked = @ - n,
                              !.quote_free = @ + quote - CalculateFee(quote, fee)]
  /\ UNCHANGED <<slot, restart, fee, config, processes, quoted>>

\* The vault sends build_update_book_rescale_ix: new levels, but neither the
\* sequence number nor the last-updated slot moves.
Rescale(q) ==
  LET u == BookUpdate(q, book.mid_price_ticks)
  IN  /\ "rescale" \in Ops
      /\ BookUpdateFits(q) /\ Solvent(book, u.mid, u.bids, u.asks)
      /\ book' = WithLevels(book, u.mid, u.bids, u.asks)
      /\ UNCHANGED <<slot, restart, fee, config, processes, quoted>>

\* ToggleBookSuspension and UpdateExpiryInSlots.
ToggleSuspension ==
  /\ "suspend" \in Ops
  /\ book' = [book EXCEPT !.status = IF @ = "Active" THEN "Suspended" ELSE "Active"]
  /\ UNCHANGED <<slot, restart, fee, config, processes, quoted>>

UpdateExpiry(e) ==
  /\ book' = [book EXCEPT !.expiry_in_slots = e]
  /\ UNCHANGED <<slot, restart, fee, config, processes, quoted>>

\* UpdateMakerFee.
UpdateFee(f) ==
  /\ fee' = f
  /\ UNCHANGED <<book, slot, restart, config, processes, quoted>>

Tick ==
  /\ slot < MaxSlot
  /\ slot' = slot + 1
  /\ UNCHANGED <<book, restart, fee, config, processes, quoted>>

\* The cluster halts and resumes: the hard fork is at the current slot, and no
\* time seems to have passed.
Restart ==
  /\ "restart" \in Ops
  /\ restart' = slot
  /\ UNCHANGED <<book, slot, fee, config, processes, quoted>>

Next ==
  \/ \E t \in Tasks :
       \/ ReadBook(t) \/ BuildClear(t) \/ BuildDrain(t) \/ Reject(t)
       \/ LandUpdate(t) \/ LandMid(t) \/ LandClear(t) \/ LandDrain(t)
       \/ \E q \in TwoSidedQuotes : BuildUpdate(t, q) \/ BuildUpdateBook(t, q)
       \/ \E m \in Mids : BuildMid(t, m)
  \/ \E lots \in Deposits : Deposit(lots)
  \/ \E i \in 1..MAX_LEVELS, n \in 1..MaxSize : FillBid(i, n) \/ FillAsk(i, n)
  \/ \E q \in TwoSidedQuotes : Rescale(q)
  \/ \E e \in Expiries : UpdateExpiry(e)
  \/ \E f \in Fees : UpdateFee(f)
  \/ ToggleSuspension \/ Tick \/ Restart \/ RefreshConfig

Spec == Init /\ [][Next]_vars

-----------------------------------------------------------------------------
(* Properties *)

Lands(t) == LandUpdate(t) \/ LandMid(t) \/ LandClear(t)
Fills == \E i \in 1..MAX_LEVELS, n \in 1..MaxSize : FillBid(i, n) \/ FillAsk(i, n)

\* What the "monotonically increasing sequence number to avoid stale updates"
\* does prevent.  A write built before another one landed can
\* itself only land if it is an update whose mid did not move (which leaves
\* out the first of its two numbers), and then over exactly one write, which
\* took that number alone; never over two, nor over another full update.
OverwritesAtMostOne ==
  [][\A t \in Tasks :
       (Lands(t) /\ raced[t] # <<>>) =>
         /\ tx[t].kind = "update" /\ ~tx[t].update.mid_price_changed
         /\ raced[t] = << <<NextSequenceNumber(t)>> >>]_vars

\* The mid of a built update never falls on the wrong side of its levels,
\* although mid, bids and asks are each rounded to a tick on their own: bids
\* rest at or below it, asks at or above it.
MidSplitsQuote ==
  \A t \in Tasks :
    (pc[t] = "sent" /\ tx[t].kind \in {"update", "update_book"}) =>
      /\ \A i \in DOMAIN tx[t].update.bids : tx[t].update.bids[i].offset <= 0
      /\ \A i \in DOMAIN tx[t].update.asks : tx[t].update.asks[i].offset >= 0

\* No fill of a dead quote: the maker has signed a quote since the cluster
\* last restarted, and fewer than expiry_in_slots slots ago, whatever the vault
\* rescaled or the authority toggled since.
NoFillOfDeadQuotes ==
  [][Fills => /\ restart > 0 => quoted > restart
              /\ book.expiry_in_slots > 0 => slot - quoted < book.expiry_in_slots]_vars

\* A quoter that filters with is_auction_eligible hides nothing the program
\* would fill, although get_slot and get_last_restart_slot are reads of their
\* own: a book judged ineligible at a slot and a restart slot older than the
\* book itself (other nodes, an earlier refresh) is not fillable now.
HiddenStaysHidden ==
  \A s \in 0..slot, r \in {0, restart} :
    ~IsFillable(book, s, r, fee) => ~IsFillable(book, slot, restart, fee)

\* The collateral build_book_update estimates, with the fee buffer
\* required_quote_reserve adds, is what the book locks when the update lands.
EstimateIsLocked ==
  [][\A t \in Tasks :
       LandUpdate(t) =>
         LET estimate == tx[t].update.estimated_quote
         IN  book'.quote_locked =
               estimate + (IF fee > 0 THEN CeilDiv(estimate * fee, PPM_DIVISOR) ELSE 0)]_vars

\* A drain built from a read that is still current puts on the wire exactly
\* what the program will let go, even when a reprice is yet to be rebalanced.
FreshDrainLands ==
  \A t \in Tasks :
    (/\ pc[t] = "sent" /\ tx[t].kind = "drain"
     /\ snap[t] = book /\ tx[t].fee = fee /\ IsQuoteSyncFundable(book, fee)) =>
      DrainAccepted(tx[t].lots) /\ tx[t].lots = ProjectedFree(book, fee)
=============================================================================
