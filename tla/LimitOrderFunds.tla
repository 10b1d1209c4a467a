--------------------------- MODULE LimitOrderFunds ---------------------------
(***************************************************************************)
(* The money of a limit-order book: the deposits and withdrawals the       *)
(* limit-order builders bundle with their level ops (limit_order/          *)
(* actions.rs: CollateralArgs, append_deposit, append_withdraw) and        *)
(* compute_required_collateral, which tells a caller what to deposit.      *)
(*                                                                         *)
(* A call reads the book, takes the cached market configuration, builds    *)
(* one list of instructions and sends it; the program runs the list as one *)
(* transaction, later or never.  Takers fill orders, and the market        *)
(* authority changes the maker fee, in between.  Levels, their ops and     *)
(* their guards are those of LocalBook; post-only, the registry and chunks *)
(* are in LimitOrders.                                                     *)
(***************************************************************************)
EXTENDS MakerBook, FiniteSets

CONSTANTS
  Ids,               \* LimitOrderId: records [side, price_ticks]
  MaxSize,           \* largest size of an order
  Tasks,             \* concurrent calls of one owner
  Fees,              \* maker fees the authority may set
  Modes,             \* the cancel modes the callers use
  Pads,              \* quote lots a caller deposits on top
  WalletBase, WalletQuote, \* the owner's lots before the first deposit
  MAX_SEQUENCE_JUMP, \* how far a sequence number may run ahead (65535)
  OrderSets,         \* the orders callers ask for: functions from Ids to sizes
  MaxSeq,            \* bound: sequence numbers written to a book
  MaxOpen            \* bound: times the book is initialized

ASSUME FundsAssumption ==
  /\ IsFiniteSet(Ids) /\ Ids \subseteq [side : {"Bid", "Ask"}, price_ticks : Nat]
  /\ MaxSize \in Nat /\ MaxSize < U64_MAX
  /\ Fees \subseteq MIN_FEE_PPM .. MAX_FEE_PPM /\ MAX_FEE_PPM <= PPM_DIVISOR
  /\ OrderSets \subseteq [Ids -> 0..MaxSize]
  /\ Pads \subseteq Nat /\ Modes \subseteq {"Any", "Strict"}
  /\ WalletBase \in Nat /\ WalletQuote \in Nat
  /\ MAX_SEQUENCE_JUMP \in Nat \ {0} /\ MaxSeq \in Nat /\ MaxOpen \in Nat

LB == INSTANCE LocalBook WITH MAX_LEVEL_OPS <- 32, MAX_SEATED_MAKERS <- 48, Books <- {}

VARIABLES
  book,    \* the MakerBook account
  wallet,  \* the owner's token accounts
  fee,     \* the market's maker fee
  config,  \* the maker fee in the client's cached configuration
  pc,      \* where each call stands
  snap,    \* the book each call read
  tx,      \* the transaction each call sent
  steady,  \* history: the fee has not changed since the book's last write
  opened,  \* history: times the book was initialized
  fills    \* history: fills of bids since the book's last write

chain == <<book, wallet, fee, steady, opened, fills>>
calls == <<pc, snap, tx>>
vars == <<chain, config, calls>>

EmptyAccount ==
  [open |-> FALSE, levels |-> LB!EmptyBook, seq |-> 0,
   quote_free |-> 0, quote_locked |-> 0, base_free |-> 0, base_locked |-> 0]

NoTx == [kind |-> "none", ixs |-> <<>>]

\* The type of the state: no balance goes below zero.
TypeOK ==
  /\ book \in [open : BOOLEAN, levels : LB!Levels, seq : Nat,
               quote_free : Nat, quote_locked : Nat, base_free : Nat, base_locked : Nat]
  /\ wallet \in [base : Nat, quote : Nat]
  /\ fee \in Fees /\ config \in Fees /\ steady \in BOOLEAN
  /\ opened \in Nat /\ fills \in Nat
  /\ pc \in [Tasks -> {"idle", "ready", "sent"}]

Init ==
  /\ book = EmptyAccount
  /\ wallet = [base |-> WalletBase, quote |-> WalletQuote]
  /\ fee \in Fees /\ config = fee
  /\ pc = [t \in Tasks |-> "idle"]
  /\ snap = [t \in Tasks |-> EmptyAccount]
  /\ tx = [t \in Tasks |-> NoTx]
  /\ steady = TRUE /\ opened = 0 /\ fills = 0

-----------------------------------------------------------------------------
(* Collateral *)

\* Levels of a book, mid price 0, as MakerBook's functions take them.
SideLevels(levels, side) ==
  [id \in {i \in Ids : i.side = side} |-> [offset |-> id.price_ticks, size |-> levels[id]]]

\* Mutant: the buffer rounded down.
BufferFloored(quote, f) == IF f > 0 THEN (quote * f) \div PPM_DIVISOR ELSE 0

\* The maker-fee buffer of compute_required_collateral.
Buffer(quote, f) == IF f > 0 THEN CeilDiv(quote * f, PPM_DIVISOR) ELSE 0

\* The bids' quote lots, each rounded up on its own, saturating.
Notional(want) ==
  Least(U64_MAX, SumFunction([id \in {i \in Ids : i.side = "Bid"} |->
                    QuoteLotsCeil(TheMarket, want[id], id.price_ticks)]))

\* compute_required_collateral(orders, config), and where it does not overflow.
RequiredCollateral(want, f) ==
  [base |-> Least(U64_MAX, SizeOf(SideLevels(want, "Ask"))),
   quote |-> Notional(want) + Buffer(Notional(want), f)]
CollateralFits(want, f) == RequiredCollateral(want, f).quote <= U64_MAX

\* No caller asks for orders worth more than a u64 of lots, where the sums of
\* compute_required_collateral would saturate: no wallet holds that many.
ASSUME OrdersAssumption ==
  \A want \in OrderSets :
    /\ RemainingBidQuoteLots(SideLevels(want, "Bid"), 0) <= U64_MAX
    /\ SizeOf(SideLevels(want, "Ask")) <= U64_MAX

Total(b) == [base |-> b.base_free + b.base_locked, quote |-> b.quote_free + b.quote_locked]

-----------------------------------------------------------------------------
(* The program (external): one instruction on a book and a wallet.  A      *)
(* failure leaves ok FALSE, and the whole transaction has no effect.       *)

Reserved(levels) == RequiredQuoteReserve(SideLevels(levels, "Bid"), 0, fee)

\* The levels replaced and the collateral recomputed from all of them.
Relocked(b, levels, seq) ==
  LET base == SizeOf(SideLevels(levels, "Ask"))
  IN  [b EXCEPT !.levels = levels, !.seq = seq,
                !.quote_locked = Reserved(levels), !.quote_free = Total(b).quote - Reserved(levels),
                !.base_locked = base, !.base_free = Total(b).base - base]

Solvent(b, levels) ==
  /\ Reserved(levels) <= Total(b).quote
  /\ SizeOf(SideLevels(levels, "Ask")) <= Total(b).base

SeqOk(current, s) == current < s /\ s <= current + MAX_SEQUENCE_JUMP

OpsMatch(levels, ops) ==
  \A i \in DOMAIN ops :
    ops[i].expected \in
      {LB!LEVEL_OP_EXPECTED_ANY, LB!AfterOps(levels, ops, i - 1)[ops[i].id]}

\* Does the program accept this instruction in this state?
Accepts(s, ix) ==
  CASE ix.name = "InitializeMakerBook" -> ~s.book.open
    [] ix.name = "MakerDepositFunds" ->
         s.book.open /\ ix.base <= s.wallet.base /\ ix.quote <= s.wallet.quote
    [] ix.name = "UpdateBookLimit" ->
         LET after == LB!AfterOps(s.book.levels, ix.ops, Len(ix.ops))
         IN  /\ s.book.open /\ SeqOk(s.book.seq, ix.seq)
             /\ OpsMatch(s.book.levels, ix.ops)
             /\ LB!WithinSides(after) /\ ~LB!Crossed(after)
             /\ Solvent(s.book, after)
    [] ix.name = "ClearBook" -> s.book.open /\ SeqOk(s.book.seq, ix.seq)
    [] ix.name = "MakerWithdrawFunds" ->
         s.book.open /\ ix.base <= s.book.base_free /\ ix.quote <= s.book.quote_free
    [] ix.name = "CloseMakerBook" ->
         s.book.open /\ Total(s.book) = [base |-> 0, quote |-> 0]

\* What an accepted instruction does to the account.
BookAfter(b, ix) ==
  CASE ix.name = "InitializeMakerBook" -> [EmptyAccount EXCEPT !.open = TRUE]
    [] ix.name = "MakerDepositFunds" ->
         [b EXCEPT !.base_free = @ + ix.base, !.quote_free = @ + ix.quote]
    [] ix.name = "UpdateBookLimit" ->
         Relocked(b, LB!AfterOps(b.levels, ix.ops, Len(ix.ops)), ix.seq)
    [] ix.name = "ClearBook" -> Relocked(b, LB!EmptyBook, ix.seq)
    [] ix.name = "MakerWithdrawFunds" ->
         [b EXCEPT !.base_free = @ - ix.base, !.quote_free = @ - ix.quote]
    [] ix.name = "CloseMakerBook" -> EmptyAccount

WalletAfter(w, ix) ==
  CASE ix.name = "MakerDepositFunds" -> [base |-> w.base - ix.base, quote |-> w.quote - ix.quote]
    [] ix.name = "MakerWithdrawFunds" -> [base |-> w.base + ix.base, quote |-> w.quote + ix.quote]
    [] OTHER -> w

\* A transaction: its instructions in order, all or nothing.
Run(ixs) ==
  LET after[i \in 0..Len(ixs)] ==
        IF i = 0 THEN [ok |-> TRUE, book |-> book, wallet |-> wallet]
        ELSE IF ~after[i - 1].ok \/ ~Accepts(after[i - 1], ixs[i])
          THEN [after[i - 1] EXCEPT !.ok = FALSE]
        ELSE [ok |-> TRUE, book |-> BookAfter(after[i - 1].book, ixs[i]),
              wallet |-> WalletAfter(after[i - 1].wallet, ixs[i])]
  IN  after[Len(ixs)]

-----------------------------------------------------------------------------
(* The builders *)

\* append_deposit and append_withdraw: no instruction for no lots.
Move(name, lots) ==
  IF lots.base = 0 /\ lots.quote = 0 THEN <<>>
  ELSE <<[name |-> name, base |-> lots.base, quote |-> lots.quote]>>

Nothing == [base |-> 0, quote |-> 0]
Padded(lots, pad) == [lots EXCEPT !.quote = @ + pad]

\* get_maker_book_optional.
ReadBook(t) ==
  /\ pc[t] = "idle"
  /\ pc' = [pc EXCEPT ![t] = "ready"]
  /\ snap' = [snap EXCEPT ![t] = book]
  /\ UNCHANGED <<chain, config, tx>>

Send(t, transaction) ==
  /\ pc[t] = "ready" /\ snap[t].seq < MaxSeq
  /\ snap[t].open \/ opened < MaxOpen
  /\ pc' = [pc EXCEPT ![t] = "sent"]
  /\ tx' = [tx EXCEPT ![t] = transaction]
  /\ UNCHANGED <<chain, config, snap>>

\* push_level_ops, in one chunk: see LimitOrders.
UpdateIx(b, ops) == <<[name |-> "UpdateBookLimit", seq |-> b.seq + 1, ops |-> ops]>>

\* [InitializeMakerBook,] [MakerDepositFunds,] UpdateBookLimit.
WriteIxs(b, deposit, ops) ==
  (IF b.open THEN <<>> ELSE <<[name |-> "InitializeMakerBook"]>>)
    \o Move("MakerDepositFunds", deposit)
    \o (IF ops = <<>> THEN <<>> ELSE UpdateIx(b, ops))

\* The orders of a call, in one order: the funds do not depend on which.
ListOf(S) == CHOOSE list \in LB!Arrangements(S) : TRUE

\* build_place, with no deposit or with what compute_required_collateral says
\* and a pad.
BuildPlace(t, want, deposits, pad) ==
  LET ops == LB!PlaceOps(ListOf(LB!Resting(want)), want)
      lots == IF deposits THEN Padded(RequiredCollateral(want, config), pad) ELSE Nothing
  IN  /\ LB!Resting(want) # {}
      /\ LB!PlacesOk(snap[t].levels, ListOf(LB!Resting(want)), want)
      /\ ~LB!Crossed(LB!AfterOps(snap[t].levels, ops, Len(ops)))
      /\ deposits => CollateralFits(want, config)
      /\ Send(t, [kind |-> IF deposits THEN "place" ELSE "bare", fee |-> config, want |-> want,
                  pad |-> pad, ixs |-> WriteIxs(snap[t], lots, ops)])

\* build_replace_all, depositing the collateral of the whole desired set.
BuildReplaceAll(t, want, mode) ==
  LET from == snap[t].levels
      places == ListOf(LB!ToPlace(from, want))
      ops == LB!DiffOps(from, want, mode, ListOf(LB!ToCancel(from, want)),
                        ListOf(LB!ToResize(from, want)), places)
  IN  /\ LB!Resting(want) # {}
      /\ LB!DiffOk(from, want, places) /\ ~LB!Crossed(want)
      /\ CollateralFits(want, config)
      /\ Send(t, [kind |-> "replace", fee |-> config, want |-> want, pad |-> 0,
                  ixs |-> WriteIxs(snap[t], RequiredCollateral(want, config), ops)])

\* Mutant: the withdrawal ahead of the cancel that frees the lots.
CancelIxsWithdrawingFirst(b, ops, lots) == Move("MakerWithdrawFunds", lots) \o UpdateIx(b, ops)

\* build_cancel's list.
CancelIxs(b, ops, lots) == UpdateIx(b, ops) \o Move("MakerWithdrawFunds", lots)

\* build_cancel of a batch, withdrawing what compute_required_collateral says
\* of it, less some lots.
BuildCancel(t, S, mode, less) ==
  LET cancelled == [id \in Ids |-> IF id \in S THEN snap[t].levels[id] ELSE 0]
      lots == RequiredCollateral(cancelled, config)
  IN  /\ S # {} /\ S \subseteq LB!Resting(snap[t].levels)
      /\ Send(t, [kind |-> "cancel", fee |-> config, want |-> cancelled, pad |-> less,
                  ixs |-> CancelIxs(snap[t], LB!CancelOps(snap[t].levels, ListOf(S), mode),
                                    [lots EXCEPT !.quote = SaturatingSub(@, less)])])

ClearIx(b) == <<[name |-> "ClearBook", seq |-> b.seq + 1]>>

\* build_cancel_all, withdrawing all the book was read to hold, or nothing.
BuildCancelAll(t, lots) ==
  /\ snap[t].open
  /\ Send(t, [kind |-> "cancel_all", ixs |->
       ClearIx(snap[t]) \o Move("MakerWithdrawFunds", lots)])

\* Mutant: the withdrawal ahead of the ClearBook that frees the lots.
CloseIxsWithdrawingFirst(b, lots) ==
  Move("MakerWithdrawFunds", lots) \o ClearIx(b) \o <<[name |-> "CloseMakerBook"]>>

\* build_close_book's list.
CloseIxs(b, lots) ==
  ClearIx(b) \o Move("MakerWithdrawFunds", lots) \o <<[name |-> "CloseMakerBook"]>>

BuildClose(t, lots) ==
  /\ snap[t].open
  /\ Send(t, [kind |-> "close", ixs |-> CloseIxs(snap[t], lots)])

\* CollateralArgs as a withdrawal: nothing, all that was read, or the
\* u64::MAX its comment takes for "drain all free balance".
Withdrawals(t) == {Nothing, Total(snap[t]), [base |-> U64_MAX, quote |-> U64_MAX]}

Finish(t) ==
  /\ pc' = [pc EXCEPT ![t] = "idle"]
  /\ snap' = [snap EXCEPT ![t] = EmptyAccount]
  /\ tx' = [tx EXCEPT ![t] = NoTx]

\* Does the transaction rewrite the book's levels, and so its locked lots?
Relocks(ixs) == \E i \in DOMAIN ixs : ixs[i].name \in {"UpdateBookLimit", "ClearBook"}

Land(t) ==
  /\ pc[t] = "sent"
  /\ LET end == Run(tx[t].ixs)
     IN  end.ok /\ book' = end.book /\ wallet' = end.wallet
  /\ steady' = (steady \/ Relocks(tx[t].ixs))
  /\ opened' = IF tx[t].ixs[1].name = "InitializeMakerBook" THEN opened + 1 ELSE opened
  /\ fills' = IF Relocks(tx[t].ixs) THEN 0 ELSE fills
  /\ Finish(t)
  /\ UNCHANGED <<fee, config>>

\* A builder's error, a rejection, or a blockhash that expired.
GiveUp(t) ==
  /\ pc[t] # "idle"
  /\ Finish(t)
  /\ UNCHANGED <<chain, config>>

-----------------------------------------------------------------------------
(* The others (external) *)

\* A taker sells n lots into a bid: the maker pays and is charged its fee,
\* out of what is locked as far as that goes.
FillBid(id, n) ==
  LET quote == BaseToQuoteLots(TheMarket, n, id.price_ticks, "Ask")
      cost == quote + CalculateFee(quote, fee)
  IN  /\ id.side = "Bid" /\ n \in 1..book.levels[id]
      /\ cost <= Total(book).quote
      /\ book' = [book EXCEPT !.levels[id] = @ - n,
                              !.quote_locked = SaturatingSub(@, cost),
                              !.quote_free = @ - SaturatingSub(cost, book.quote_locked),
                              !.base_free = @ + n]
      /\ fills' = fills + 1
      /\ UNCHANGED <<wallet, fee, steady, opened, config, calls>>

\* A taker buys n lots of an ask: the maker is paid, less its fee.
FillAsk(id, n) ==
  LET quote == BaseToQuoteLots(TheMarket, n, id.price_ticks, "Bid")
  IN  /\ id.side = "Ask" /\ n \in 1..book.levels[id]
      /\ book' = [book EXCEPT !.levels[id] = @ - n, !.base_locked = @ - n,
                              !.quote_free = @ + quote - CalculateFee(quote, fee)]
      /\ UNCHANGED <<wallet, fee, steady, opened, fills, config, calls>>

\* UpdateMakerFee; the locked lots stay as the last write left them.
ChangeFee(f) ==
  /\ f # fee
  /\ fee' = f /\ steady' = FALSE
  /\ UNCHANGED <<book, wallet, opened, fills, config, calls>>

\* invalidate_market and a new fetch: see MarketConfigCache.
RefreshConfig ==
  /\ config # fee
  /\ config' = fee
  /\ UNCHANGED <<chain, calls>>

Next ==
  \/ \E t \in Tasks :
       \/ ReadBook(t) \/ Land(t) \/ GiveUp(t)
       \/ \E want \in OrderSets , pad \in Pads : BuildPlace(t, want, TRUE, pad)
       \/ \E want \in OrderSets : BuildPlace(t, want, FALSE, 0)
       \/ \E want \in OrderSets, mode \in Modes : BuildReplaceAll(t, want, mode)
       \/ \E S \in SUBSET Ids, mode \in Modes, less \in Pads : BuildCancel(t, S, mode, less)
       \/ \E lots \in Withdrawals(t) : BuildCancelAll(t, lots) \/ BuildClose(t, lots)
  \/ \E id \in Ids, n \in 1..MaxSize : FillBid(id, n) \/ FillAsk(id, n)
  \/ \E f \in Fees : ChangeFee(f)
  \/ RefreshConfig

Spec == Init /\ [][Next]_vars

-----------------------------------------------------------------------------
(* Properties *)

\* The instruction of the call's transaction that rewrites levels, if any,
\* finds the book as the call's snapshot left it, but for fills, and the wallet
\* can pay.  (A book closed and opened again since may be back at the number
\* read with other orders on it.)
UpdateOps(t) == {i \in DOMAIN tx[t].ixs : tx[t].ixs[i].name = "UpdateBookLimit"}
Current(t) ==
  /\ book.open = snap[t].open /\ book.seq = snap[t].seq
  /\ \A id \in Ids : book.levels[id] <= snap[t].levels[id]
  /\ \A i \in UpdateOps(t) : OpsMatch(book.levels, tx[t].ixs[i].ops)
  /\ \A i \in DOMAIN tx[t].ixs : tx[t].ixs[i].name = "MakerDepositFunds" =>
       tx[t].ixs[i].base <= wallet.base /\ tx[t].ixs[i].quote <= wallet.quote

\* How much higher the fee buffer of the orders is under the market's fee than
\* under the configuration's.
FeeShort(t) == SaturatingSub(Buffer(Notional(tx[t].want), fee), Buffer(Notional(tx[t].want), tx[t].fee))

\* compute_required_collateral against the program's solvency check.  A place
\* that deposits what it says lands if the market's fee has stood since the
\* book's last write and the pad covers one lot for each fill of a bid since
\* then, and what a stale configuration leaves out of the buffer; with neither,
\* no pad is needed ("depositing exactly this amount is sufficient").  A
\* replace-all that deposits it for the whole set lands whatever happened to
\* the fee and the resting orders before, if the configuration is current.
DepositSuffices ==
  \A t \in Tasks : (pc[t] = "sent" /\ Current(t)) =>
    /\ (tx[t].kind = "place" /\ steady /\ tx[t].pad >= fills + FeeShort(t))
         => Run(tx[t].ixs).ok
    /\ (tx[t].kind = "replace" /\ tx[t].fee >= fee) => Run(tx[t].ixs).ok

\* A cancel frees what compute_required_collateral says of the cancelled
\* orders but for the rounding of the buffer (one lot) and of the fills, so the
\* withdrawal bundled after it finds the lots.
CancelFreesCollateral ==
  \A t \in Tasks :
    (pc[t] = "sent" /\ tx[t].kind = "cancel" /\ Current(t) /\ steady /\ tx[t].fee <= fee
       /\ book.levels = snap[t].levels
       /\ fills + 1 <= tx[t].pad /\ tx[t].pad <= RequiredCollateral(tx[t].want, tx[t].fee).quote)
      => Run(tx[t].ixs).ok

\* build_close_book: ClearBook frees every lot before the withdrawal moves it
\* and CloseMakerBook asks for none to be left, so a teardown that withdraws
\* all the book was read to hold lands while the book is what was read,
\* whatever rested on it.
FreshCloseLands ==
  \A t \in Tasks :
    (pc[t] = "sent" /\ tx[t].kind = "close" /\ book = snap[t]
       /\ tx[t].ixs = CloseIxs(snap[t], Total(snap[t]))) => Run(tx[t].ixs).ok
=============================================================================
