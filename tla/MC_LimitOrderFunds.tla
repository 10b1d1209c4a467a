------------------------- MODULE MC_LimitOrderFunds -------------------------
(***************************************************************************)
(* A small instance of LimitOrderFunds: two bids and an ask on a market    *)
(* with one quote lot to the lot-tick, and a fee of a few tenths so that   *)
(* every rounding of the fee buffer shows.                                 *)
(***************************************************************************)
EXTENDS LimitOrderFunds

MinFee == -2
Bid1 == [side |-> "Bid", price_ticks |-> 1]
Bid2 == [side |-> "Bid", price_ticks |-> 2]
Ask3 == [side |-> "Ask", price_ticks |-> 3]
TwoBidsOneAsk == {Bid1, Bid2, Ask3}

\* Sizes at the two bids and the ask.
Orders(b1, b2, a3) ==
  [id \in TwoBidsOneAsk |-> IF id = Bid1 THEN b1 ELSE IF id = Bid2 THEN b2 ELSE a3]
FewOrders == {Orders(2, 0, 0), Orders(0, 2, 0), Orders(0, 1, 1), Orders(1, 2, 0)}

\* One quote lot to the lot-tick.
UnitMarket == [base_decimals |-> 1, base_lot |-> 2, quote_decimals |-> 1,
               quote_lot |-> 2, tick_size |-> 10, raw_base_units |-> 1]
=============================================================================
