----------------------------- MODULE MC_Quoting -----------------------------
(***************************************************************************)
(* Instances of Quoting.  Prices are in quarter ticks and sizes in half    *)
(* lots; the fees are in tenths.                                           *)
(***************************************************************************)
EXTENDS Quoting

Q(price, size) == [price |-> price, size |-> size]
TwoSided(bids, asks) == [bids |-> bids, asks |-> asks]

\* Two quote lots to the lot-tick, and three halves of one.
WholeMarket == [base_decimals |-> 1, base_lot |-> 2, quote_decimals |-> 1,
                quote_lot |-> 2, tick_size |-> 20, raw_base_units |-> 1]
FractionalMarket == [WholeMarket EXCEPT !.tick_size = 15]

MinFee == -5

\* Around 2 and around 3 ticks, one-sided, and one quote for each error: out
\* of order, crossed, two levels on one tick, a size below a lot and a price
\* below half a tick.
RaceQuotes ==
  { TwoSided(<<Q(8, 2)>>, <<Q(12, 2)>>),
    TwoSided(<<Q(6, 2), Q(2, 2)>>, <<Q(9, 2)>>),
    TwoSided(<<Q(10, 2)>>, <<>>),
    TwoSided(<<>>, <<Q(7, 2), Q(13, 2)>>),
    TwoSided(<<Q(4, 2), Q(8, 2)>>, <<>>),
    TwoSided(<<Q(12, 2)>>, <<Q(8, 2)>>),
    TwoSided(<<Q(9, 2), Q(8, 2)>>, <<>>),
    TwoSided(<<Q(8, 1)>>, <<>>),
    TwoSided(<<Q(1, 2)>>, <<>>),
    TwoSided(<<>>, <<>>) }

LiveQuotes == {TwoSided(<<Q(4, 2)>>, <<Q(12, 2)>>), TwoSided(<<Q(8, 2)>>, <<>>)}

FundQuotes == {TwoSided(<<Q(8, 6), Q(4, 4)>>, <<>>), TwoSided(<<Q(8, 3)>>, <<Q(12, 2)>>)}
=============================================================================
