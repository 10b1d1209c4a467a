------------------------------ MODULE MakerBook ------------------------------
(***************************************************************************)
(* The arithmetic of a market maker's book: the MakerBook account's own    *)
(* functions (onchain/state/maker_book.rs), the balances accounts.rs       *)
(* derives from it, and the conversion of a two-sided quote into levels    *)
(* around a mid price (math/levels.rs, math/ticks.rs, math/lots.rs).       *)
(*                                                                         *)
(* A book is a record with the account's fields; a level is an offset from *)
(* the mid and a size.  Human prices and sizes are f64 in the code; here a *)
(* price is an integer number of subticks and a size one of sublots, so    *)
(* that rounding to a tick or a lot is visible.                            *)
(***************************************************************************)
EXTENDS Engine, Sequences, Functions

CONSTANTS
  TheMarket,   \* the parameters of the market the book is on
  SUBTICKS,    \* subticks to the tick: how fine a quoted price is
  SUBLOTS,     \* sublots to the base lot: how fine a quoted size is
  MAX_LEVELS   \* levels to a side (16)

ASSUME ScaleAssumption ==
  /\ SUBTICKS \in Nat \ {0} /\ SUBLOTS \in Nat \ {0} /\ MAX_LEVELS \in Nat

\* tick_conversion_num and tick_conversion_den.
TickConversionNum == TheMarket.tick_size * TheMarket.base_lot
TickConversionDen == BaseAtomsPerBaseUnit(TheMarket) * TheMarket.quote_lot

\* The account's conversion fields are u64 and the sizes of a market positive;
\* a u128 holds the product of two u64.
ASSUME BookAssumption ==
  /\ TheMarket.tick_size \in Nat \ {0} /\ TheMarket.base_lot \in Nat \ {0}
  /\ TheMarket.quote_lot \in Nat \ {0} /\ BaseAtomsPerBaseUnit(TheMarket) \in Nat \ {0}
  /\ TickConversionDen <= U64_MAX
  /\ U128_MAX = (U64_MAX + 1) * (U64_MAX + 1) - 1

-----------------------------------------------------------------------------
(* MakerBook *)

\* The levels with a size, and the price each rests at; a price that is not
\* positive is none.
Active(levels) == {i \in DOMAIN levels : levels[i].size > 0}
PricesOk(levels, mid) == \A i \in Active(levels) : mid + levels[i].offset > 0

SizeOf(levels) == SumFunction([i \in DOMAIN levels |-> levels[i].size])

\* Mutant: the closed form whatever the conversion.
RemainingBidQuoteLotsClosedForm(levels, mid) ==
  (TickConversionNum \div TickConversionDen) *
    SumFunction([i \in DOMAIN levels |-> levels[i].size * (mid + levels[i].offset)])

\* remaining_bid_quote_lots: k * (sum of size * price) where a lot-tick is a
\* whole number k of quote lots, else the sum of the per-level ceilings.
RemainingBidQuoteLots(levels, mid) ==
  LET price(i) == mid + levels[i].offset
  IN  IF TickConversionNum % TickConversionDen = 0
        THEN (TickConversionNum \div TickConversionDen) *
               SumFunction([i \in DOMAIN levels |-> levels[i].size * price(i)])
        ELSE SumFunction([i \in DOMAIN levels |->
               CeilDiv(levels[i].size * price(i) * TickConversionNum, TickConversionDen)])

\* required_quote_reserve: the notional and, if the maker pays a fee, the fee
\* on all of it, rounded up once.
RequiredQuoteReserve(levels, mid, fee) ==
  LET notional == RemainingBidQuoteLots(levels, mid)
  IN  notional + (IF fee > 0 THEN CeilDiv(notional * fee, PPM_DIVISOR) ELSE 0)

ReserveFits(levels, mid, fee) ==
  PricesOk(levels, mid) /\ RequiredQuoteReserve(levels, mid, fee) <= U64_MAX

QuoteLotsTotal(b) == b.quote_locked + b.quote_free

\* The balances are accurate at the current mid.
QuoteSynced(b) == b.mid_at_last_sync \in {0, b.mid_price_ticks}

Reserve(b, fee) == RequiredQuoteReserve(b.bid_levels, b.mid_price_ticks, fee)

\* is_quote_sync_fundable: projected_quote_balances returns a value.
IsQuoteSyncFundable(b, fee) ==
  \/ QuoteSynced(b)
  \/ /\ ReserveFits(b.bid_levels, b.mid_price_ticks, fee)
     /\ Reserve(b, fee) <= QuoteLotsTotal(b)

\* projected_quote_balances: what a pending rebalance will lock.
ProjectedLocked(b, fee) == IF QuoteSynced(b) THEN b.quote_locked ELSE Reserve(b, fee)
ProjectedFree(b, fee) == QuoteLotsTotal(b) - ProjectedLocked(b, fee)

\* Mutant: the pending rebalance ignored.
WithdrawableQuoteRaw(b, fee) == b.quote_free

\* accounts.rs withdrawable_lots, quote side (the base side is base_free).
WithdrawableQuote(b, fee) ==
  IF IsQuoteSyncFundable(b, fee) THEN ProjectedFree(b, fee) ELSE b.quote_free

\* Mutant: a plain subtraction.
PlainSub(a, b) == a - b

SaturatingSub(a, b) == IF a >= b THEN a - b ELSE 0

\* Mutant: a slot read from a lagging node wraps below zero.
IsStaleWrapping(b, current_slot) ==
  /\ b.expiry_in_slots > 0
  /\ (current_slot - b.last_updated_slot) % (U64_MAX + 1) >= b.expiry_in_slots

IsStale(b, current_slot) ==
  /\ b.expiry_in_slots > 0
  /\ SaturatingSub(current_slot, b.last_updated_slot) >= b.expiry_in_slots

\* Mutant: the restart slot itself taken for the resumed chain.
IsPreRestartStrict(b, last_restart_slot) ==
  last_restart_slot > 0 /\ b.last_updated_slot < last_restart_slot

IsPreRestart(b, last_restart_slot) ==
  last_restart_slot > 0 /\ b.last_updated_slot <= last_restart_slot

\* is_fillable, which is_auction_eligible is for a known status.
IsFillable(b, current_slot, last_restart_slot, fee) ==
  /\ b.status = "Active"
  /\ ~IsPreRestart(b, last_restart_slot)
  /\ ~IsStale(b, current_slot)
  /\ IsQuoteSyncFundable(b, fee)

-----------------------------------------------------------------------------
(* Quotes into levels *)

\* num / den ticks, to the nearest.
RoundTicks(num, den) == (2 * num + den) \div (2 * den)

\* price_to_ticks; below half a tick is an error.
PriceToTicks(price) == RoundTicks(price, SUBTICKS)
PriceFits(price) == 2 * price >= SUBTICKS /\ PriceToTicks(price) <= U64_MAX

\* base_amount_to_lots, rounding down; between zero and one lot is an error.
BaseAmountToLots(size) == size \div SUBLOTS
SizeFits(size) == (size = 0 \/ size >= SUBLOTS) /\ BaseAmountToLots(size) <= U64_MAX

\* validate_quote_structure: each side in order and best bid below best ask.
ValidQuoteStructure(q) ==
  /\ Len(q.bids) <= MAX_LEVELS /\ Len(q.asks) <= MAX_LEVELS
  /\ \A i \in 2..Len(q.bids) : q.bids[i].price < q.bids[i - 1].price
  /\ \A i \in 2..Len(q.asks) : q.asks[i].price > q.asks[i - 1].price
  /\ (q.bids # <<>> /\ q.asks # <<>>) => q.bids[1].price < q.asks[1].price
  /\ \A i \in DOMAIN q.bids : q.bids[i].price > 0
  /\ \A i \in DOMAIN q.asks : q.asks[i].price > 0

\* Mutant: the midpoint truncated to a tick.
ComputeMidPriceFloored(q) ==
  IF q.bids # <<>> /\ q.asks # <<>>
    THEN (q.bids[1].price + q.asks[1].price) \div (2 * SUBTICKS)
  ELSE IF q.bids # <<>> THEN PriceToTicks(q.bids[1].price)
  ELSE PriceToTicks(q.asks[1].price)

\* compute_mid_price: the midpoint of the best prices, or the only best price.
ComputeMidPrice(q) ==
  IF q.bids # <<>> /\ q.asks # <<>>
    THEN RoundTicks(q.bids[1].price + q.asks[1].price, 2 * SUBTICKS)
  ELSE IF q.bids # <<>> THEN PriceToTicks(q.bids[1].price)
  ELSE PriceToTicks(q.asks[1].price)

\* Each quote as an offset from the mid and a number of lots.
LevelsOf(quotes, mid) ==
  [i \in DOMAIN quotes |-> [offset |-> PriceToTicks(quotes[i].price) - mid,
                            size |-> BaseAmountToLots(quotes[i].size)]]

\* build_book_update returns an update: every price and size converts, and no
\* two levels of a side fall on one tick.
BookUpdateFits(q) ==
  LET mid == ComputeMidPrice(q)
      bids == LevelsOf(q.bids, mid)
      asks == LevelsOf(q.asks, mid)
  IN  /\ ValidQuoteStructure(q)
      /\ q.bids # <<>> \/ q.asks # <<>>
      /\ \A i \in DOMAIN q.bids : PriceFits(q.bids[i].price) /\ SizeFits(q.bids[i].size)
      /\ \A i \in DOMAIN q.asks : PriceFits(q.asks[i].price) /\ SizeFits(q.asks[i].size)
      /\ \A i \in 2..Len(bids) : bids[i].offset < bids[i - 1].offset
      /\ \A i \in 2..Len(asks) : asks[i].offset > asks[i - 1].offset

\* build_book_update, with its estimate of what the bids will lock.
BookUpdate(q, current_mid) ==
  LET mid == ComputeMidPrice(q)
      bids == LevelsOf(q.bids, mid)
  IN  [mid |-> mid, bids |-> bids, asks |-> LevelsOf(q.asks, mid),
       mid_price_changed |-> mid # current_mid,
       estimated_quote |-> SumFunction([i \in DOMAIN bids |->
          QuoteLotsCeil(TheMarket, bids[i].size, mid + bids[i].offset)])]
=============================================================================
