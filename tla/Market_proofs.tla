--------------------------- MODULE Market_proofs ---------------------------
(***************************************************************************)
(* What Market promises, for every choice of parameters, fees and amounts: *)
(* a taker's bounds hold whatever fees are in force when the swap executes *)
(* (TakerProtected), the net fee of a fill is never a payout               *)
(* (ProtocolSolvent), and on a validated market the conversions of         *)
(* matching and of collateral agree exactly (MatchingExact).               *)
(*                                                                         *)
(* The first lemmas are about the rounding of fees, budgets, lots and      *)
(* prices; then comes one lemma per action.                                *)
(***************************************************************************)
EXTENDS Market, MakerBook_proofs

\* Rounding never turns a sound pair of fees into a payout: the rebate
\* truncates, the fee rounds up.
LEMMA FeeNet ==
  ASSUME NEW q \in Nat, NEW t \in Int, NEW m \in Int, t >= 0, m + t >= 0
  PROVE  CalculateFee(q, t) + CalculateFee(q, m) >= 0
<1> USE WordAssumption
<1>1. ASSUME NEW f \in Int, f >= 0 PROVE CalculateFee(q, f) >= 0 /\ (q * f) \div PPM_DIVISOR <= CalculateFee(q, f)
  <2>1. q * f \in Nat
    BY <1>1, Z3
  <2>2. CASE f > 0
    <3>1. CalculateFee(q, f) = CeilDiv(q * f, PPM_DIVISOR)
      BY <2>2 DEF CalculateFee
    <3>2. CalculateFee(q, f) = (q * f + PPM_DIVISOR - 1) \div PPM_DIVISOR
      BY <3>1 DEF CeilDiv
    <3>3. (q * f) \div PPM_DIVISOR <= (q * f + PPM_DIVISOR - 1) \div PPM_DIVISOR
      BY <2>1, DivMonotone
    <3>4. 0 <= (q * f) \div PPM_DIVISOR
      BY <2>1, DivAtLeast
    <3>5. (q * f) \div PPM_DIVISOR \in Int /\ CalculateFee(q, f) \in Int
      BY <2>1, DivFacts, FeeType, <1>1
    <3> QED BY <3>2, <3>3, <3>4, <3>5
  <2>3. CASE f = 0
    <3>1. CalculateFee(q, f) = 0 
      <4>1. 0 \div PPM_DIVISOR = 0
        BY DivUnique
      <4>2. q * (-f) = 0
        BY <2>3
      <4> QED BY <2>3, <4>1, <4>2 DEF CalculateFee
    <3>2. (q * f) \div PPM_DIVISOR = 0
      <4>1. 0 \div PPM_DIVISOR = 0
        BY DivUnique
      <4>2. q * f = 0
        BY <2>3
      <4> QED BY <4>1, <4>2
    <3> QED BY <3>1, <3>2
  <2> QED BY <1>1, <2>2, <2>3
<1>2. CASE m >= 0
  <2>1. CalculateFee(q, t) >= 0 /\ CalculateFee(q, m) >= 0
    BY <1>1, <1>2
  <2> QED BY <2>1, FeeType
<1>3. CASE m < 0
  <2> DEFINE r == -m
  <2>1. r \in Nat /\ r <= t
    BY <1>3
  <2>2. CalculateFee(q, m) = -((q * r) \div PPM_DIVISOR)
    BY <1>3 DEF CalculateFee
  <2> HIDE DEF r
  <2>3. q * r \in Int /\ q * t \in Int /\ q * r <= q * t
    BY <2>1, Z3
  <2>4. (q * r) \div PPM_DIVISOR <= (q * t) \div PPM_DIVISOR
    BY <2>3, DivMonotone
  <2>5. (q * t) \div PPM_DIVISOR <= CalculateFee(q, t)
    BY <1>1
  <2>6. (q * r) \div PPM_DIVISOR \in Int /\ (q * t) \div PPM_DIVISOR \in Int
    BY <2>3, DivFacts
  <2> QED BY <2>2, <2>4, <2>5, <2>6, FeeType
<1> QED BY <1>2, <1>3

\* A match within max_amount_in_bid_budget leaves room for the taker fee,
\* rounded up, and the builder fee, so the whole cost fits the amount.
LEMMA BudgetCovers ==
  ASSUME NEW a \in Nat, NEW t \in Nat, NEW b \in Nat, NEW q \in Nat,
         q <= MaxAmountInBidBudget(a, t, b)
  PROVE  q + CalculateFee(q, t) + BuilderFee(q, b) <= a
<1> USE WordAssumption
<1> DEFINE P == PPM_DIVISOR
           d == P + t + b
           x == BuilderFee(q, b)
           f == CalculateFee(q, t)
<1>1. d \in Nat \ {0} /\ a * P \in Int
  OBVIOUS
<1>2. MaxAmountInBidBudget(a, t, b) = (a * P) \div d
  <2>1. CASE t > 0
    BY <2>1 DEF MaxAmountInBidBudget
  <2>2. CASE t = 0
    BY <2>2 DEF MaxAmountInBidBudget
  <2> QED BY <2>1, <2>2
<1>3. d * q <= a * P
  <2> DEFINE z == (a * P) \div d
  <2>1. z \in Int /\ d * z <= a * P /\ q <= z
    BY <1>1, <1>2, DivFacts
  <2> HIDE DEF z
  <2>2. d * q <= d * z
    BY <1>1, <2>1, Z3
  <2>3. d * q \in Int /\ d * z \in Int
    BY <1>1, <2>1
  <2> QED BY <1>1, <2>1, <2>2, <2>3
<1>4. q * P + q * t + q * b <= a * P
  BY <1>1, <1>3, Z3
<1>5. x \in Int /\ P * x <= q * b
  <2>1. q * b \in Int
    OBVIOUS
  <2> QED BY <2>1, DivFacts DEF BuilderFee
<1>6. f \in Int /\ P * f < q * t + P
  <2>1. CASE t > 0
    <3>1. q * t \in Int
      OBVIOUS
    <3> QED BY <2>1, <3>1, CeilDivFacts DEF CalculateFee
  <2>2. CASE t = 0
    <3>1. 0 \div P = 0
      BY DivUnique
    <3>2. q * (-t) = 0 /\ q * t = 0
      BY <2>2
    <3>3. f = 0
      BY <2>2, <3>1, <3>2 DEF CalculateFee
    <3> QED BY <3>2, <3>3
  <2> QED BY <2>1, <2>2
<1> HIDE DEF x, f
<1>7. P * (q + f + x - a) < P
  BY <1>4, <1>5, <1>6, Z3
<1>8. q + f + x - a < 1
  BY <1>5, <1>6, <1>7, Z3
<1>9. q + f + x <= a
  BY <1>5, <1>6, <1>8
<1> QED BY <1>9 DEF f, x

\* Atoms are natural numbers.
LEMMA ToAtomsType ==
  ASSUME NEW x \in Nat
  PROVE  ToAtoms(x) \in Nat
BY DEF ToAtoms

\* to_lots rounds on the safe side: a maximum input is worth no more atoms
\* than asked, a minimum output no fewer.
LEMMA ToLotsBounds ==
  ASSUME NEW x \in Nat, NEW l \in Nat \ {0}
  PROVE  /\ ToLots(x, l, "MaxInput") \in Nat
         /\ ToLots(x, l, "MaxInput") * l <= ToAtoms(x)
         /\ ToLots(x, l, "MinOutput") \in Nat
         /\ ToLots(x, l, "MinOutput") * l >= ToAtoms(x)
<1> DEFINE a == ToAtoms(x)
<1>1. a \in Nat /\ (x = 0 => a = 0)
  BY ToAtomsType DEF ToAtoms
<1> HIDE DEF a
<1>2. CASE x = 0
  BY <1>1, <1>2 DEF ToLots, a
<1>3. CASE x # 0
  <2>1. a \div l \in Int /\ l * (a \div l) <= a /\ 0 <= a \div l
    BY <1>1, DivFacts, DivAtLeast
  <2>2. ToLots(x, l, "MaxInput") = a \div l
    BY <1>3 DEF ToLots, a
  <2>3. (a \div l) * l <= a
    BY <1>1, <2>1, Z3
  <2>4. CASE a = 0
    BY <1>3, <1>1, <2>1, <2>2, <2>3, <2>4 DEF ToLots, a
  <2>5. CASE a # 0
    <3>1. CeilDiv(a, l) \in Int /\ a <= l * CeilDiv(a, l)
      BY <1>1, CeilDivFacts
    <3> DEFINE c == CeilDiv(a, l)
    <3> HIDE DEF c
    <3>2. c \in Nat /\ c * l >= a
      BY <1>1, <2>5, <3>1, Z3 DEF c
    <3>3. ToLots(x, l, "MinOutput") = c
      BY <1>3, <2>5 DEF ToLots, a, c
    <3> QED BY <2>1, <2>2, <2>3, <3>2, <3>3 DEF a
  <2> QED BY <2>4, <2>5
<1> QED BY <1>2, <1>3

\* The sizes of a validated market are positive.
LEMMA ValidLots ==
  ASSUME NEW m \in MarketParams, ValidParams(m)
  PROVE  /\ m.base_lot \in Nat \ {0} /\ m.quote_lot \in Nat \ {0}
         /\ m.tick_size \in Nat \ {0}
         /\ BaseAtomsPerBaseUnit(m) \in Nat \ {0}
<1>1. /\ m.base_lot \in Nat \ {0} /\ m.quote_lot \in Nat \ {0}
      /\ m.tick_size \in Nat \ {0}
  BY DecimalsAssumption DEF ValidParams, ValidLotSize, ValidTickSize
<1>2. m.base_decimals \in 0..MAX_DECIMALS
  BY DEF MarketParams
<1>3. PICK d \in 0..m.base_decimals : m.raw_base_units = 10^d
  BY DEF ValidParams, ValidRawBaseUnits
<1>4. d \in 0..MAX_DECIMALS
  BY <1>2, <1>3, DecimalsAssumption
<1>5. 10^d \in Nat \ {0} /\ 10^m.base_decimals \in Nat \ {0}
  BY <1>2, <1>4, DecimalsAssumption
<1>6. \A u, v \in Nat \ {0} : u * v \in Nat \ {0}
  BY Z3
<1> QED BY <1>1, <1>3, <1>5, <1>6 DEF BaseAtomsPerBaseUnit

\* base_to_quote_lots returns a natural number.
LEMMA QuoteLotsType ==
  ASSUME NEW m \in MarketParams, ValidParams(m), NEW b \in Nat, NEW p \in Nat, NEW side
  PROVE  BaseToQuoteLots(m, b, p, side) \in Nat
  BY ValidLots, MatchLotsNat

\* validate_market_invariants makes a lot-tick a whole, positive number of
\* quote lots.
LEMMA LotTickWhole ==
  ASSUME NEW m \in MarketParams, ValidParams(m)
  PROVE  \E k \in Nat \ {0} :
           m.base_lot * m.tick_size = k * (BaseAtomsPerBaseUnit(m) * m.quote_lot)
<1> DEFINE num == m.base_lot * m.tick_size
           u == BaseAtomsPerBaseUnit(m)
           den == u * m.quote_lot
           k == num \div den
<1>1. /\ m.base_lot \in Nat \ {0} /\ m.quote_lot \in Nat \ {0}
      /\ m.tick_size \in Nat \ {0} /\ u \in Nat \ {0}
  BY ValidLots
<1>2. \A x, y \in Nat \ {0} : x * y \in Nat \ {0}
  BY Z3
<1>3. num \in Nat \ {0} /\ den \in Nat \ {0}
  BY <1>1, <1>2
<1>4. num % den = 0
  BY DEF ValidParams, ValidMarketInvariants
<1> HIDE DEF num, den, u
<1>5. num = den * k
  BY <1>3, <1>4, ModZero
<1>6. k \in Int
  BY <1>3, DivFacts
<1> HIDE DEF k
<1>7. k \in Nat \ {0} /\ num = k * den
  BY <1>3, <1>5, <1>6, Z3
<1> QED BY <1>7 DEF num, den, u

\* Hence the conversions of matching and of collateral agree on a validated
\* market, and quote_to_base_lots inverts base_to_quote_lots.
LEMMA ExactConversion ==
  ASSUME NEW m \in MarketParams, ValidParams(m),
         NEW b \in Nat, NEW p \in Nat \ {0}, QuoteAtomsFits(m, b, p)
  PROVE  LET q == BaseToQuoteLots(m, b, p, "Bid")
         IN  /\ BaseToQuoteLots(m, b, p, "Ask") = q
             /\ QuoteLotsCeil(m, b, p) = q
             /\ \A up \in BOOLEAN : QuoteToBaseLots(m, q, p, up) = b
<1> DEFINE u == BaseAtomsPerBaseUnit(m)
           l == m.quote_lot
           den == u * l
           num == b * m.base_lot * p * m.tick_size
<1>1. /\ m.base_lot \in Nat \ {0} /\ l \in Nat \ {0}
      /\ m.tick_size \in Nat \ {0} /\ u \in Nat \ {0}
  BY ValidLots
<1>2. PICK k \in Nat \ {0} : m.base_lot * m.tick_size = k * den
  BY LotTickWhole
<1> DEFINE q == b * p * k
           bl == m.base_lot
           ts == m.tick_size
<1>3. den \in Nat \ {0} /\ q \in Nat /\ q * l \in Nat
  <2>1. \A x, y \in Nat : x * y \in Nat
    BY Z3
  <2>2. \A x, y \in Nat \ {0} : x * y \in Nat \ {0}
    BY Z3
  <2> QED BY <1>1, <1>2, <2>1, <2>2
<1> HIDE DEF u, l, bl, ts
<1>4. num = q * l * u
  <2>1. num = b * bl * p * ts
    BY DEF bl, ts
  <2>2. bl * ts = k * (u * l)
    BY <1>2 DEF bl, ts
  <2>3. bl \in Nat /\ ts \in Nat
    BY <1>1 DEF bl, ts
  <2>4. b * bl * p * ts = b * p * (bl * ts)
    BY <2>3, Z3
  <2>5. b * p * (k * (u * l)) = b * p * k * l * u
    BY <1>1, Z3
  <2> QED BY <2>1, <2>2, <2>4, <2>5
<1>5. num = q * den
  BY <1>1, <1>3, <1>4, Z3
<1>6. num \in Int
  BY <1>3, <1>5
<1> HIDE DEF num, q
<1>7. QuoteAtoms(m, b, p) = q * l
  <2>1. QuoteAtoms(m, b, p) = num \div u
    BY DEF QuoteAtoms, num, u
  <2> QED BY <1>1, <1>3, <1>4, <1>6, <2>1, DivExact
<1>8. BaseToQuoteLots(m, b, p, "Ask") = q /\ BaseToQuoteLots(m, b, p, "Bid") = q
  <2>1. (q * l) \div l = q /\ CeilDiv(q * l, l) = q
    BY <1>1, <1>3, DivExact
  <2> QED BY <1>7, <2>1 DEF BaseToQuoteLots, l
<1>9. num <= U128_MAX /\ q <= U64_MAX
  <2>1. q * l <= U64_MAX
    BY <1>7 DEF QuoteAtomsFits
  <2>2. q <= q * l
    BY <1>1, <1>3, Z3
  <2>3. num <= U128_MAX
    BY DEF QuoteAtomsFits, num
  <2> QED BY <1>1, <1>3, <2>1, <2>2, <2>3, WordAssumption
<1>10. QuoteLotsCeil(m, b, p) = q
  <2>1. b * p * m.tick_size * m.base_lot = num
    BY <1>1, Z3 DEF num
  <2> DEFINE w == Least(num + den - 1, U128_MAX)
  <2> HIDE DEF den
  <2>2. w \in Int /\ num <= w /\ w < num + den
    BY <1>3, <1>6, <1>9, WordAssumption DEF Least
  <2> HIDE DEF w
  <2>3. den * q <= w /\ w < den * q + den
    BY <1>3, <1>5, <2>2, Z3
  <2>4. w \div den = q
    BY <1>3, <2>2, <2>3, DivUnique
  <2>5. Least(num, U128_MAX) = num
    BY <1>9 DEF Least
  <2>6. QuoteLotsCeil(m, b, p) =
          Least(Least(Least(b * p * m.tick_size * m.base_lot, U128_MAX) + den - 1, U128_MAX)
                  \div den, U64_MAX)
    BY DEF QuoteLotsCeil, den, u, l
  <2>7. QuoteLotsCeil(m, b, p) = Least(w \div den, U64_MAX)
    BY <2>1, <2>5, <2>6 DEF w
  <2> QED BY <1>9, <2>4, <2>7 DEF Least
<1>11. ASSUME NEW up \in BOOLEAN PROVE QuoteToBaseLots(m, q, p, up) = b
  <2> DEFINE d == p * ts * bl
             n == q * l * u
  <2>1. bl \in Nat \ {0} /\ ts \in Nat \ {0}
    BY <1>1 DEF bl, ts
  <2>2. d \in Nat \ {0}
    <3>1. \A x, y \in Nat \ {0} : x * y \in Nat \ {0}
      BY Z3
    <3>2. p * ts \in Nat \ {0}
      BY <2>1, <3>1
    <3> QED BY <2>1, <3>1, <3>2
  <2>3. n = b * d
    <3>1. n = b * bl * p * ts
      BY <1>4 DEF num, bl, ts
    <3>2. b * bl * p * ts = b * (p * ts * bl)
      BY <2>1, Z3
    <3> QED BY <3>1, <3>2
  <2>4. n \in Int
    BY <1>4, <1>6
  <2> HIDE DEF n, d
  <2>5. n \div d = b /\ CeilDiv(n, d) = b
    BY <2>2, <2>3, <2>4, DivExact
  <2> QED BY <2>5 DEF QuoteToBaseLots, n, d, u, l, bl, ts
<1> QED BY <1>8, <1>10, <1>11

\* The invariant holds before the market exists.
LEMMA MarketInit == Init => IInv
<1> SUFFICES ASSUME Init PROVE IInv
  OBVIOUS
<1>1. market \in MarketParams
  BY DecimalsAssumption DEF Init, NoMarket, MarketParams
<1> QED
  BY <1>1 DEF Init, IInv, TypeOK, FeesSound, SwapFromRequest, TakerBoundsHold,
       ProtocolNeverPaysOut, MarketStatus, Swaps, NoSwap, Exists

\* Administration leaves a swap in flight and its fill alone; once the market
\* exists its parameters are fixed.
LEMMA AdminStep ==
  ASSUME IInv,
         \/ \E m \in Params : InitializeMarket(m)
         \/ \E new \in MarketStatus : ChangeMarketStatus(new)
         \/ \E fee \in FeeChoices : UpdateMakerFee(fee) \/ UpdateTakerFee(fee)
  PROVE  IInv'
<1>1. CASE \E m \in Params : InitializeMarket(m)
  <2>1. PICK m \in Params : InitializeMarket(m)
    BY <1>1
  <2>2. m \in MarketParams /\ request = NoRequest /\ fill = NoFill
    BY <2>1, ChoicesAssumption DEF IInv, SwapFromRequest, InitializeMarket
  <2> QED
    BY <2>1, <2>2 DEF InitializeMarket, IInv, TypeOK, FeesSound, SwapFromRequest,
         TakerBoundsHold, ProtocolNeverPaysOut, Exists
<1>2. CASE UNCHANGED <<market, request, swap, fill>> /\ TypeOK' /\ FeesSound'
  BY <1>2 DEF IInv, SwapFromRequest, TakerBoundsHold, ProtocolNeverPaysOut, Exists,
       AmountLot, ThresholdLot, AtomsIn, AtomsOut
<1>3. CASE \E new \in MarketStatus : ChangeMarketStatus(new)
  <2>1. UNCHANGED <<market, request, swap, fill>> /\ TypeOK' /\ FeesSound'
    BY <1>3 DEF ChangeMarketStatus, IInv, TypeOK, FeesSound
  <2> QED BY <1>2, <2>1
<1>4. CASE \E fee \in FeeChoices : UpdateMakerFee(fee) \/ UpdateTakerFee(fee)
  <2>1. UNCHANGED <<market, request, swap, fill>> /\ TypeOK' /\ FeesSound'
    BY <1>4, ChoicesAssumption DEF UpdateMakerFee, UpdateTakerFee, IInv, TypeOK,
         FeesSound, ValidTakerFeePpm
  <2> QED BY <1>2, <2>1
<1> QED BY <1>1, <1>3, <1>4

\* What resolve_swap_amounts puts in the instruction is on the safe side of
\* what was asked.
LEMMA LotsOfRequest ==
  ASSUME NEW r \in Requests, market \in MarketParams, ValidParams(market)
  PROVE  /\ AmountLot(r) \in Nat \ {0} /\ ThresholdLot(r) \in Nat \ {0}
         /\ ToLots(r.amount, AmountLot(r), AmountBound(r)) \in Nat
         /\ ToLots(r.threshold, ThresholdLot(r), ThresholdBound(r)) \in Nat
<1>1. r.amount \in Nat /\ r.threshold \in Nat
  BY ChoicesAssumption DEF Requests
<1>2. AmountLot(r) \in Nat \ {0} /\ ThresholdLot(r) \in Nat \ {0}
  BY ValidLots DEF AmountLot, ThresholdLot
<1> QED
  BY <1>1, <1>2, ToLotsBounds DEF AmountBound, ThresholdBound

\* build_swap_ix establishes what the invariant says of a swap in flight.
LEMMA BuildStep ==
  ASSUME IInv, NEW r \in Requests, BuildSwap(r)
  PROVE  IInv'
<1>1. /\ market \in MarketParams /\ ValidParams(market) /\ fill = NoFill
  BY DEF IInv, TypeOK, SwapFromRequest, BuildSwap
<1>2. swap' \in Swaps
  BY <1>1, LotsOfRequest DEF BuildSwap, Swaps
<1>3. UNCHANGED <<market, status, maker_fee, taker_fee, fill>> /\ request' = r /\ Exists
  BY DEF BuildSwap, admin
<1>4. TypeOK' /\ FeesSound'
  BY <1>2, <1>3 DEF IInv, TypeOK, FeesSound
<1>5. SwapFromRequest'
  BY <1>1, <1>3 DEF BuildSwap, SwapFromRequest, Exists, AmountLot, ThresholdLot
<1>6. TakerBoundsHold' /\ ProtocolNeverPaysOut'
  BY <1>1, <1>3 DEF TakerBoundsHold, ProtocolNeverPaysOut
<1> QED BY <1>4, <1>5, <1>6 DEF IInv

\* Ending a swap forgets it.
LEMMA EndStep ==
  ASSUME IInv, EndSwap
  PROVE  IInv'
BY DEF EndSwap, admin, IInv, TypeOK, FeesSound, SwapFromRequest, TakerBoundsHold,
     ProtocolNeverPaysOut, Swaps, NoSwap, Exists

\* A fill the program accepts respects the bounds in atoms, whatever the fees
\* of the moment.
LEMMA ExecuteStep ==
  ASSUME IInv, NEW base \in 1..MaxBase, NEW ticks \in 1..MaxTicks,
         ExecuteSwap(base, ticks)
  PROVE  IInv'
<1> DEFINE q == BaseToQuoteLots(market, base, ticks, request.side)
           f == FillOf(base, q)
           bl == market.base_lot
           ql == market.quote_lot
<1>1. /\ request \in Requests /\ market \in MarketParams /\ ValidParams(market)
      /\ swap \in Swaps /\ maker_fee \in Int /\ taker_fee \in Nat
      /\ maker_fee + taker_fee >= 0
  BY DEF ExecuteSwap, IInv, TypeOK, FeesSound, SwapFromRequest
<1>2. /\ fill' = f /\ Accepts(f)
      /\ UNCHANGED <<market, status, maker_fee, taker_fee, request, swap>>
  BY DEF ExecuteSwap, admin
<1>3. base \in Nat /\ ticks \in Nat
  BY ChoicesAssumption
<1>4. q \in Nat
  BY <1>1, <1>3, QuoteLotsType
<1>5. /\ request.builder_fee_ppm \in Nat /\ request.amount \in Nat
      /\ request.threshold \in Nat /\ request.side \in Sides /\ request.mode \in SwapModes
  BY <1>1, ChoicesAssumption DEF Requests
<1>6. BuilderFee(q, request.builder_fee_ppm) \in Nat
  <2>1. q * request.builder_fee_ppm \in Nat
    BY <1>4, <1>5, Z3
  <2> QED BY <2>1, DivFacts, DivAtLeast, WordAssumption DEF BuilderFee
<1> HIDE DEF q
<1>7. f \in Fills
  BY <1>1, <1>3, <1>4, <1>6, FeeType DEF FillOf, Fills
<1>8. /\ f.base = base /\ f.quote = q
      /\ f.taker_fee = CalculateFee(q, taker_fee)
      /\ f.maker_fee = CalculateFee(q, maker_fee)
      /\ f.builder_fee = BuilderFee(q, request.builder_fee_ppm)
  BY DEF FillOf
<1> HIDE DEF f
<1>9. TypeOK' /\ FeesSound' /\ SwapFromRequest'
  BY <1>2, <1>7 DEF IInv, TypeOK, FeesSound, SwapFromRequest, Exists, AmountLot,
       ThresholdLot, ExecuteSwap
<1>10. ProtocolNeverPaysOut'
  <2>1. CalculateFee(q, taker_fee) + CalculateFee(q, maker_fee) >= 0
    BY <1>1, <1>4, FeeNet
  <2>2. fill'.taker_fee + fill'.maker_fee >= 0
    BY <1>2, <1>8, <2>1
  <2> QED BY <2>2 DEF ProtocolNeverPaysOut
<1>11. TakerBoundsHold'
  <2>1. bl \in Nat \ {0} /\ ql \in Nat \ {0}
    BY <1>1, ValidLots
  <2>2. /\ QuotePaid(f) \in Int /\ QuoteReceived(f) \in Int
    BY <1>7 DEF Fills, QuotePaid, QuoteReceived
  <2> DEFINE most == IF request.mode = "MaxAmountIn" THEN request.amount ELSE request.threshold
             least == IF request.mode = "MaxAmountIn" THEN request.threshold ELSE request.amount
  <2> DEFINE sm == IF request.mode = "MaxAmountIn" THEN swap.amount ELSE swap.threshold
             sl == IF request.mode = "MaxAmountIn" THEN swap.threshold ELSE swap.amount
             lin == IF request.side = "Bid" THEN ql ELSE bl
             lout == IF request.side = "Bid" THEN bl ELSE ql
             in == IF request.side = "Bid" THEN QuotePaid(f) ELSE f.base
             out == IF request.side = "Bid" THEN f.base ELSE QuoteReceived(f)
  <2>3. swap.amount = ToLots(request.amount, AmountLot(request), AmountBound(request))
        /\ swap.threshold = ToLots(request.threshold, ThresholdLot(request), ThresholdBound(request))
    BY DEF ExecuteSwap, IInv, SwapFromRequest
  <2>4. sm = ToLots(most, lin, "MaxInput") /\ sl = ToLots(least, lout, "MinOutput")
    BY <1>5, <2>3 DEF AmountLot, ThresholdLot, AmountBound, ThresholdBound, AmountInQuote,
         Sides, SwapModes
  <2>5. most \in Nat /\ least \in Nat /\ lin \in Nat \ {0} /\ lout \in Nat \ {0}
    BY <1>5, <2>1
  <2>6. sm * lin <= ToAtoms(most) /\ sl * lout >= ToAtoms(least) /\ sm \in Nat /\ sl \in Nat
    BY <2>4, <2>5, ToLotsBounds
  <2>7. in <= sm /\ out >= sl
    <3>1. CASE request.side = "Bid" /\ request.mode = "MaxAmountIn"
      <4>1. q <= MaxAmountInBidBudget(swap.amount, taker_fee, request.builder_fee_ppm)
            /\ base >= swap.threshold
        BY <1>2, <1>8, <3>1 DEF Accepts
      <4>2. swap.amount \in Nat
        BY <1>1 DEF Swaps
      <4>3. q + CalculateFee(q, taker_fee) + BuilderFee(q, request.builder_fee_ppm) <= swap.amount
        BY <1>1, <1>4, <1>5, <4>1, <4>2, BudgetCovers
      <4> QED BY <1>8, <3>1, <4>1, <4>3 DEF QuotePaid
    <3>2. CASE request.side = "Bid" /\ request.mode = "MinAmountOut"
      BY <1>2, <1>8, <3>2 DEF Accepts
    <3>3. CASE request.side = "Ask" /\ request.mode = "MaxAmountIn"
      BY <1>2, <1>8, <3>3 DEF Accepts
    <3>4. CASE request.side = "Ask" /\ request.mode = "MinAmountOut"
      BY <1>2, <1>8, <3>4 DEF Accepts
    <3> QED BY <1>5, <3>1, <3>2, <3>3, <3>4 DEF Sides, SwapModes
  <2>8. in \in Int /\ out \in Int
    BY <1>3, <1>8, <2>2
  <2> HIDE DEF in, out, lin, lout, sm, sl, most, least
  <2>10. in * lin <= sm * lin /\ sl * lout <= out * lout
    BY <2>5, <2>6, <2>7, <2>8, Z3
  <2>11. in * lin \in Int /\ sm * lin \in Int /\ sl * lout \in Int /\ out * lout \in Int
    BY <2>5, <2>6, <2>8
  <2>12. ToAtoms(most) \in Nat /\ ToAtoms(least) \in Nat
    BY <2>5, ToAtomsType
  <2>13. in * lin <= ToAtoms(most) /\ out * lout >= ToAtoms(least)
    BY <2>6, <2>10, <2>11, <2>12
  <2>14. AtomsIn(fill)' = in * lin /\ AtomsOut(fill)' = out * lout
    BY <1>2 DEF AtomsIn, AtomsOut, QuotePaid, QuoteReceived, in, out, lin, lout
  <2> QED
    BY <1>2, <2>13, <2>14 DEF TakerBoundsHold, most, least
<1> QED BY <1>9, <1>10, <1>11 DEF IInv

\* The inductive invariant: a swap in flight is what its request rounds to,
\* fees never net to a rebate, and a fill respects both.
THEOREM MarketInv == Spec => []IInv
<1>1. IInv /\ [Next]_vars => IInv'
  <2> SUFFICES ASSUME IInv, [Next]_vars PROVE IInv'
    OBVIOUS
  <2>1. CASE Next
    BY <2>1, AdminStep, BuildStep, ExecuteStep, EndStep DEF Next
  <2>2. CASE UNCHANGED vars
    BY <2>2 DEF vars, admin, IInv, TypeOK, FeesSound, SwapFromRequest, TakerBoundsHold,
         ProtocolNeverPaysOut, Exists, AmountLot, ThresholdLot, AtomsIn, AtomsOut
  <2> QED BY <2>1, <2>2
<1> QED BY MarketInit, <1>1, PTL DEF Spec

\* Rounding in to_lots, max_amount_in_bid_budget and the fees never works
\* against the taker.
THEOREM TakerProtected == Spec => []TakerBoundsHold
<1>1. IInv => TakerBoundsHold
  BY DEF IInv
<1> QED BY MarketInv, <1>1, PTL

\* The fee checks of build_update_maker_fee_ix and build_update_taker_fee_ix,
\* with calculate_fee's rounding, keep every fill's net fee at zero or more.
THEOREM ProtocolSolvent == Spec => []ProtocolNeverPaysOut
<1>1. IInv => ProtocolNeverPaysOut
  BY DEF IInv
<1> QED BY MarketInv, <1>1, PTL

\* A market that passed validate_market_invariants has exact conversions.
THEOREM MatchingExact == Spec => []ConversionsExact
<1>1. IInv => ConversionsExact
  <2> SUFFICES ASSUME IInv, Exists,
                      NEW b \in 0..MaxBase, NEW p \in 1..MaxTicks,
                      QuoteAtomsFits(market, b, p)
               PROVE  LET q == BaseToQuoteLots(market, b, p, "Bid")
                      IN  /\ BaseToQuoteLots(market, b, p, "Ask") = q
                          /\ QuoteLotsCeil(market, b, p) = q
                          /\ QuoteToBaseFits(market, q, p) =>
                               \A up \in BOOLEAN : QuoteToBaseLots(market, q, p, up) = b
    BY DEF ConversionsExact
  <2>1. market \in MarketParams /\ ValidParams(market)
    BY DEF IInv, TypeOK, SwapFromRequest
  <2>2. b \in Nat /\ p \in Nat \ {0}
    BY ChoicesAssumption
  <2> QED BY <2>1, <2>2, ExactConversion
<1> QED BY MarketInv, <1>1, PTL
=============================================================================
