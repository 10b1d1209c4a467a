----------------------------- MODULE MC_Market -----------------------------
(***************************************************************************)
(* Instances of Market.  Words of 5 and 25 bits and 10 "ppm" to the unit   *)
(* make rounding, fees and overflow all visible on small amounts.          *)
(***************************************************************************)
EXTENDS Market

P(base_decimals, base_lot, quote_decimals, quote_lot, tick_size, raw) ==
  [base_decimals |-> base_decimals, base_lot |-> base_lot,
   quote_decimals |-> quote_decimals, quote_lot |-> quote_lot,
   tick_size |-> tick_size, raw_base_units |-> raw]

\* Two markets the builder accepts, with 2 and 3 quote lots to the lot-tick,
\* and for each check a market it refuses.
SomeParams ==
  { P(1, 2, 1, 2, 20, 1),       \* accepted: 2*20 / (10*2) = 2
    P(1, 5, 0, 3, 18, 1),       \* accepted: 5*18 / (10*3) = 3
    P(1, 3, 1, 2, 20, 1),       \* base lot 3 does not fit a unit of 10
    P(1, 2, 1, 3, 30, 1),       \* quote lot 3 does not fit a unit of 10
    P(0, 300, 0, 300, 401, 1),  \* tick and quote lot have no common divisor
    P(1, 2, 1, 2, 60, 3),       \* raw base units not a power of ten
    P(0, 500, 0, 500, 500, 1),  \* overflows at the highest price
    P(1, 2, 1, 2, 3, 1),        \* a lot-tick below one quote atom
    P(1, 2, 1, 2, 15, 1) }      \* a lot-tick of one and a half quote lots

MinFee == -5
SomeFees == {-3, 0, 3, 4}

\* Nothing, a quarter of an atom, amounts around one and two lots, and the
\* exact cost of small fills with and without their fees, and an overflow.
SomeAmounts == {0, 1, 9, 16, 24, 58, 96, 130}
=============================================================================
