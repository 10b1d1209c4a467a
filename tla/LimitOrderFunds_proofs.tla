----------------------- MODULE LimitOrderFunds_proofs -----------------------
(***************************************************************************)
(* Proofs about LimitOrderFunds, for any ids, order sets, fees, number of  *)
(* calls and bounds: no balance goes below zero, the deposit and the       *)
(* withdrawal that compute_required_collateral names are accepted, and a   *)
(* teardown of an unchanged book lands.                                    *)
(***************************************************************************)
EXTENDS LimitOrderFunds, MakerBook_proofs

-----------------------------------------------------------------------------
(* Ids, sizes and arrangements *)

\* The library operators LocalBook's instance uses are the ones used here.
LEMMA SameCardinality == \A S : LB!Cardinality(S) = Cardinality(S)
  BY DEF LB!Cardinality, Cardinality

\* Arrangements are injections.
LEMMA ArrangementsAre == \A S : LB!Arrangements(S) = Injection(1..Cardinality(S), S)
<1>1. \A S, T : LB!Injection(S, T) = Injection(S, T)
  BY DEF LB!Injection, Injection, LB!IsInjective, IsInjective
<1> QED
  BY <1>1, SameCardinality DEF LB!Arrangements

\* How many orders rest on a side.
LEMMA SideCountIs ==
  \A b, s : LB!SideCount(b, s) = Cardinality({id \in LB!Resting(b) : id.side = s})
  BY SameCardinality DEF LB!SideCount

\* What is known of an id and of the sizes of a book.
LEMMA IdFacts ==
  /\ IsFiniteSet(Ids)
  /\ \A id \in Ids : id.side \in {"Bid", "Ask"} /\ id.price_ticks \in Nat
  BY FundsAssumption

\* The sizes of a book are natural numbers.
LEMMA LevelsNat ==
  ASSUME NEW b \in LB!Levels
  PROVE  DOMAIN b = Ids /\ \A id \in Ids : b[id] \in Nat /\ b[id] \in LB!Size
  BY FundsAssumption DEF LB!Levels, LB!Size

\* The empty book is a book.
LEMMA EmptyBookType == LB!EmptyBook \in LB!Levels
  BY FundsAssumption DEF LB!EmptyBook, LB!Levels, LB!Size

\* So is every set of orders a caller asks for.
LEMMA OrderSetsType == OrderSets \subseteq LB!Levels
  BY FundsAssumption DEF LB!Levels, LB!Size

\* ListOf names each id of a set once.
LEMMA ListOfSet ==
  ASSUME NEW S \in SUBSET Ids
  PROVE  /\ ListOf(S) \in Seq(Ids)
         /\ \A i \in DOMAIN ListOf(S) : ListOf(S)[i] \in S
         /\ \A i, j \in DOMAIN ListOf(S) : ListOf(S)[i] = ListOf(S)[j] => i = j
         /\ \A id \in S : \E i \in DOMAIN ListOf(S) : ListOf(S)[i] = id
         /\ DOMAIN ListOf(S) = 1..Len(ListOf(S)) /\ Len(ListOf(S)) \in Nat
<1> DEFINE n == Cardinality(S)
           list == ListOf(S)
<1>1. IsFiniteSet(S)
  BY IdFacts, FS_Subset
<1>2. n \in Nat /\ ExistsBijection(1..n, S)
  BY <1>1, FS_CardinalityType
<1>3. \E l : l \in Injection(1..n, S)
  BY <1>2 DEF ExistsBijection, Bijection
<1>4. list \in Injection(1..n, S)
  BY <1>3, ArrangementsAre DEF ListOf
<1> HIDE DEF list
<1>5. list \in Surjection(1..n, S)
  <2>1. IsFiniteSet(1..n) /\ Cardinality(1..n) = n
    BY <1>2, FS_Interval
  <2> QED BY <1>1, <1>4, <2>1, FS_Injection
<1>6. /\ list \in [1..n -> S]
      /\ \A i, j \in 1..n : list[i] = list[j] => i = j
  BY <1>4 DEF Injection, IsInjective
<1>7. \A id \in S : \E i \in 1..n : list[i] = id
  BY <1>5 DEF Surjection
<1>8. DOMAIN list = 1..n /\ list \in Seq(Ids)
  BY <1>2, <1>6
<1> QED
  BY <1>6, <1>7, <1>8 DEF list

-----------------------------------------------------------------------------
(* What a set of orders locks *)

\* The ids of each side.
BidIds == {i \in Ids : i.side = "Bid"}
AskIds == {i \in Ids : i.side = "Ask"}

\* The lots of the bids, each rounded up, and of the asks.
BidTerms(levels) == [id \in BidIds |-> LotsCeil(levels[id], id.price_ticks)]
AskTerms(levels) == [id \in AskIds |-> levels[id]]
BidLots(levels) == SumFunctionOnSet(BidTerms(levels), BidIds)
AskLots(levels) == SumFunctionOnSet(AskTerms(levels), AskIds)

\* Both are sums of natural numbers.
LEMMA LotsNat ==
  ASSUME NEW b \in LB!Levels
  PROVE  /\ IsFiniteSet(BidIds) /\ IsFiniteSet(AskIds)
         /\ \A id \in BidIds : BidTerms(b)[id] \in Nat
         /\ \A id \in AskIds : AskTerms(b)[id] \in Nat
         /\ BidLots(b) \in Nat /\ AskLots(b) \in Nat
<1>1. IsFiniteSet(BidIds) /\ IsFiniteSet(AskIds)
  BY IdFacts, FS_Subset DEF BidIds, AskIds
<1>2. \A id \in BidIds : BidTerms(b)[id] \in Nat
  BY LevelsNat, IdFacts, LotsCeilNat DEF BidTerms, BidIds
<1>3. \A id \in AskIds : AskTerms(b)[id] \in Nat
  BY LevelsNat DEF AskTerms, AskIds
<1> QED
  BY <1>1, <1>2, <1>3, SumNat DEF BidLots, AskLots

\* required_quote_reserve of a book's bids.
LEMMA ReserveOfBids ==
  ASSUME NEW b \in LB!Levels, NEW f \in Int
  PROVE  /\ RemainingBidQuoteLots(SideLevels(b, "Bid"), 0) = BidLots(b)
         /\ RequiredQuoteReserve(SideLevels(b, "Bid"), 0, f) = BidLots(b) + FeeBuffer(BidLots(b), f)
         /\ FeeBuffer(BidLots(b), f) \in Nat
<1> DEFINE levels == SideLevels(b, "Bid")
<1>1. /\ DOMAIN levels = BidIds
      /\ \A id \in BidIds : levels[id] = [offset |-> id.price_ticks, size |-> b[id]]
  BY DEF SideLevels, BidIds
<1>2. \A id \in BidIds : id.price_ticks \in Nat /\ b[id] \in Nat
  BY IdFacts, LevelsNat DEF BidIds
<1> HIDE DEF levels
<1>3. LevelsOk(levels)
  BY <1>1, <1>2, LotsNat DEF LevelsOk
<1>4. \A i \in Active(levels) : 0 + levels[i].offset >= 0
  BY <1>1, <1>2 DEF Active
<1>5. LotsAt(levels, 0) = BidTerms(b)
  <2>1. \A id \in BidIds : 0 + levels[id].offset = id.price_ticks /\ levels[id].size = b[id]
    BY <1>1, <1>2
  <2> QED BY <1>1, <2>1 DEF LotsAt, BidTerms
<1>6. SumFunctionOnSet(LotsAt(levels, 0), DOMAIN levels) = BidLots(b)
  BY <1>1, <1>5 DEF BidLots
<1>7. RemainingBidQuoteLots(levels, 0) = BidLots(b)
  <2>1. DOMAIN LotsAt(levels, 0) = DOMAIN levels
    BY DEF LotsAt
  <2> QED BY <1>3, <1>6, <2>1, RemainingIsSum DEF SumFunction
<1>8. /\ FeeBuffer(BidLots(b), f) \in Nat
      /\ RequiredQuoteReserve(levels, 0, f) = BidLots(b) + FeeBuffer(BidLots(b), f)
  BY <1>3, <1>4, <1>6, ReserveIs
<1> QED
  BY <1>7, <1>8 DEF levels

\* The size of the asks.
LEMMA SizeOfAsks ==
  ASSUME NEW b \in LB!Levels
  PROVE  SizeOf(SideLevels(b, "Ask")) = AskLots(b)
<1> DEFINE f == [id \in DOMAIN SideLevels(b, "Ask") |-> SideLevels(b, "Ask")[id].size]
<1>1. f = AskTerms(b)
  BY DEF SideLevels, AskTerms, AskIds
<1>2. SizeOf(SideLevels(b, "Ask")) = SumFunctionOnSet(f, DOMAIN f)
  BY DEF SizeOf, SumFunction
<1>3. DOMAIN AskTerms(b) = AskIds
  BY DEF AskTerms
<1> HIDE DEF f
<1> QED
  BY <1>1, <1>2, <1>3 DEF AskLots

\* LotsCeil grows with the size and is nothing for nothing.
LEMMA LotsCeilMonotone ==
  ASSUME NEW m \in Nat, NEW n \in Nat, NEW p \in Nat, m <= n
  PROVE  LotsCeil(m, p) <= LotsCeil(n, p) /\ LotsCeil(0, p) = 0
<1>1. m * p \in Nat /\ n * p \in Nat /\ m * p <= n * p /\ 0 * p = 0
  BY Z3
<1>2. /\ m * p * TickConversionNum \in Nat /\ n * p * TickConversionNum \in Nat
      /\ m * p * TickConversionNum <= n * p * TickConversionNum
  BY <1>1, ConversionPositive, Z3
<1>3. 0 * p * TickConversionNum = 0
  BY <1>1, ConversionPositive, Z3
<1>4. CeilDiv(0, TickConversionDen) = 0
  <2>1. 0 = 0 * TickConversionDen
    BY ConversionPositive, Z3
  <2> QED BY <2>1, ConversionPositive, DivExact
<1> QED
  BY <1>2, <1>3, <1>4, ConversionPositive, CeilDivMonotone DEF LotsCeil

\* Fewer orders lock less.
LEMMA LotsMonotone ==
  ASSUME NEW a \in LB!Levels, NEW b \in LB!Levels, \A id \in Ids : a[id] <= b[id]
  PROVE  BidLots(a) <= BidLots(b) /\ AskLots(a) <= AskLots(b)
<1>1. \A id \in BidIds : BidTerms(a)[id] <= BidTerms(b)[id]
  BY LevelsNat, IdFacts, LotsCeilMonotone DEF BidTerms, BidIds
<1>2. \A id \in AskIds : AskTerms(a)[id] <= AskTerms(b)[id]
  BY DEF AskTerms, AskIds
<1>3. BidLots(a) <= BidLots(b)
  BY <1>1, LotsNat, SumLe DEF BidLots
<1>4. AskLots(a) <= AskLots(b)
  BY <1>2, LotsNat, SumLe DEF AskLots
<1> QED
  BY <1>3, <1>4

\* The lots of two disjoint sets of orders add up.
LEMMA LotsAdd ==
  ASSUME NEW a \in LB!Levels, NEW b \in LB!Levels, NEW c \in LB!Levels,
         \A id \in Ids : (a[id] = 0 /\ c[id] = b[id]) \/ (b[id] = 0 /\ c[id] = a[id])
  PROVE  BidLots(c) = BidLots(a) + BidLots(b) /\ AskLots(c) = AskLots(a) + AskLots(b)
<1>1. ASSUME NEW id \in BidIds
      PROVE  BidTerms(c)[id] = BidTerms(a)[id] + BidTerms(b)[id]
  <2>1. id \in Ids /\ id.price_ticks \in Nat /\ a[id] \in Nat /\ b[id] \in Nat
    BY IdFacts, LevelsNat DEF BidIds
  <2>2. LotsCeil(0, id.price_ticks) = 0
    BY <2>1, LotsCeilMonotone
  <2>3. LotsCeil(a[id], id.price_ticks) \in Nat /\ LotsCeil(b[id], id.price_ticks) \in Nat
    BY <2>1, LotsCeilNat
  <2>4. LotsCeil(c[id], id.price_ticks) = LotsCeil(a[id], id.price_ticks) + LotsCeil(b[id], id.price_ticks)
    BY <2>1, <2>2, <2>3
  <2> QED BY <2>4 DEF BidTerms
<1>2. \A id \in AskIds : AskTerms(c)[id] = AskTerms(a)[id] + AskTerms(b)[id]
  BY LevelsNat DEF AskTerms, AskIds
<1>3. BidLots(c) = BidLots(a) + BidLots(b)
  BY <1>1, LotsNat, SumAdd DEF BidLots
<1>4. AskLots(c) = AskLots(a) + AskLots(b)
  BY <1>2, LotsNat, SumAdd DEF AskLots
<1> QED
  BY <1>3, <1>4

\* Nothing rests on an empty book, and nothing is locked.
LEMMA EmptyLots == BidLots(LB!EmptyBook) = 0 /\ AskLots(LB!EmptyBook) = 0
<1> DEFINE e == LB!EmptyBook
<1>1. e \in LB!Levels /\ \A id \in Ids : e[id] = 0
  BY EmptyBookType DEF LB!EmptyBook
<1>2. BidLots(e) = BidLots(e) + BidLots(e) /\ AskLots(e) = AskLots(e) + AskLots(e)
  BY <1>1, LotsAdd
<1> QED
  BY <1>1, <1>2, LotsNat

-----------------------------------------------------------------------------
(* compute_required_collateral *)

\* quote_lots_ceil saturates, so it never says more than the lots.
LEMMA QuoteLotsCeilAtMost ==
  ASSUME NEW n \in Nat, NEW p \in Nat
  PROVE  /\ QuoteLotsCeil(TheMarket, n, p) \in Nat
         /\ QuoteLotsCeil(TheMarket, n, p) <= LotsCeil(n, p)
<1> DEFINE num == n * p * TickConversionNum
           den == TickConversionDen
           num2 == Least(num, U128_MAX)
           top == Least(num2 + den - 1, U128_MAX)
           q == top \div den
<1>1. n * p \in Nat
  BY Z3
<1>2. num \in Nat /\ den \in Nat \ {0}
  BY <1>1, ConversionPositive, Z3
<1>3. n * p * TheMarket.tick_size * TheMarket.base_lot = num
  <2>1. n * p * TheMarket.tick_size * TheMarket.base_lot
          = n * p * (TheMarket.tick_size * TheMarket.base_lot)
    BY <1>1, BookAssumption, Z3
  <2> QED BY <2>1 DEF TickConversionNum
<1>4. QuoteLotsCeil(TheMarket, n, p) = Least(q, U64_MAX)
  BY <1>3 DEF QuoteLotsCeil, TickConversionDen
<1>5. U128_MAX \in Nat /\ U64_MAX \in Nat
  BY WordAssumption
<1>6. LotsCeil(n, p) = (num + den - 1) \div den
  BY DEF LotsCeil, CeilDiv
<1> HIDE DEF num, den
<1>7. num2 \in Nat /\ num2 <= num
  BY <1>2, <1>5 DEF Least
<1> HIDE DEF num2
<1>8. top \in Nat /\ top <= num + den - 1
  BY <1>2, <1>5, <1>7 DEF Least
<1> HIDE DEF top
<1>9. q \in Int /\ q <= (num + den - 1) \div den
  BY <1>2, <1>8, DivFacts, DivMonotone
<1>10. q >= 0
  BY <1>2, <1>8, DivAtLeast
<1> HIDE DEF q
<1>11. (num + den - 1) \div den \in Int
  BY <1>2, DivFacts
<1> QED
  BY <1>4, <1>5, <1>6, <1>9, <1>10, <1>11 DEF Least

\* The terms of Notional.
NotionalTerms(want) == [id \in BidIds |-> QuoteLotsCeil(TheMarket, want[id], id.price_ticks)]

\* What replace_all prices the desired bids at, as a saturating sum.
LEMMA NotionalIs ==
  ASSUME NEW want
  PROVE  Notional(want) = Least(U64_MAX, SumFunctionOnSet(NotionalTerms(want), BidIds))
<1>1. DOMAIN NotionalTerms(want) = BidIds
  BY DEF NotionalTerms
<1> QED
  BY <1>1, Zenon DEF Notional, SumFunction, NotionalTerms, BidIds

\* Never more than the orders lock.
LEMMA CollateralAtMost ==
  ASSUME NEW want \in LB!Levels, NEW f \in Int
  PROVE  /\ Notional(want) \in Nat /\ Notional(want) <= BidLots(want)
         /\ RequiredCollateral(want, f).base \in Nat
         /\ RequiredCollateral(want, f).base <= AskLots(want)
         /\ RequiredCollateral(want, f).quote = Notional(want) + FeeBuffer(Notional(want), f)
         /\ RequiredCollateral(want, f).quote \in Nat
         /\ RequiredCollateral(want, f) = [base |-> RequiredCollateral(want, f).base,
                                           quote |-> RequiredCollateral(want, f).quote]
<1> DEFINE terms == NotionalTerms(want)
           sum == SumFunctionOnSet(terms, BidIds)
<1>1. \A id \in BidIds : terms[id] \in Nat /\ terms[id] <= BidTerms(want)[id]
  BY LevelsNat, IdFacts, QuoteLotsCeilAtMost DEF NotionalTerms, BidTerms, BidIds
<1> HIDE DEF terms
<1>2. sum \in Nat /\ sum <= BidLots(want)
  BY <1>1, LotsNat, SumNat, SumLe DEF BidLots
<1>3. Notional(want) = Least(U64_MAX, sum)
  BY NotionalIs DEF terms
<1> HIDE DEF sum
<1>4. Notional(want) \in Nat /\ Notional(want) <= BidLots(want)
  BY <1>2, <1>3, WordAssumption, LotsNat DEF Least
<1>5. RequiredCollateral(want, f) = [base |-> Least(U64_MAX, AskLots(want)),
                                     quote |-> Notional(want) + FeeBuffer(Notional(want), f)]
  BY SizeOfAsks DEF RequiredCollateral, Buffer, FeeBuffer
<1>6. Least(U64_MAX, AskLots(want)) \in Nat /\ Least(U64_MAX, AskLots(want)) <= AskLots(want)
  BY LotsNat, WordAssumption DEF Least
<1>7. FeeBuffer(Notional(want), f) \in Nat
  BY <1>4, BufferFacts
<1> QED
  BY <1>4, <1>5, <1>6, <1>7

\* Exactly what they lock, for the orders a caller asks for.
LEMMA CollateralExact ==
  ASSUME NEW want \in OrderSets, NEW f \in Int
  PROVE  /\ Notional(want) = BidLots(want)
         /\ RequiredCollateral(want, f).base = AskLots(want)
<1>1. want \in LB!Levels
  BY OrderSetsType
<1>2. BidLots(want) <= U64_MAX /\ AskLots(want) <= U64_MAX
  BY <1>1, OrdersAssumption, ReserveOfBids, SizeOfAsks
<1>3. \A id \in BidIds : NotionalTerms(want)[id] = BidTerms(want)[id]
  <2> SUFFICES ASSUME NEW id \in BidIds
               PROVE  NotionalTerms(want)[id] = BidTerms(want)[id]
    OBVIOUS
  <2>1. id.price_ticks \in Nat /\ want[id] \in Nat
    BY <1>1, IdFacts, LevelsNat DEF BidIds
  <2>2. BidTerms(want)[id] <= BidLots(want)
    BY <1>1, LotsNat, SumTerm DEF BidLots
  <2>3. BidTerms(want)[id] = LotsCeil(want[id], id.price_ticks)
    BY DEF BidTerms
  <2>4. BidTerms(want)[id] \in Nat /\ BidLots(want) \in Nat /\ U64_MAX \in Nat
    BY <1>1, LotsNat, WordAssumption
  <2>5. LotsCeil(want[id], id.price_ticks) <= U64_MAX
    BY <1>2, <2>2, <2>3, <2>4
  <2> QED
    BY <2>1, <2>3, <2>5, QuoteLotsCeilExact DEF NotionalTerms
<1>4. SumFunctionOnSet(NotionalTerms(want), BidIds) = BidLots(want)
  BY <1>1, <1>3, LotsNat, SumSame DEF BidLots
<1>5. Notional(want) = BidLots(want)
  BY <1>1, <1>2, <1>4, NotionalIs, LotsNat, WordAssumption DEF Least
<1>6. RequiredCollateral(want, f).base = AskLots(want)
  BY <1>1, <1>2, SizeOfAsks, LotsNat, WordAssumption DEF RequiredCollateral, Least
<1> QED
  BY <1>5, <1>6

-----------------------------------------------------------------------------
(* Fills *)

\* What a taker is paid for lots of a bid is no more than they locked.
LEMMA FillWithinLock ==
  ASSUME NEW m \in Nat, NEW n \in Nat, NEW p \in Nat, n <= m
  PROVE  LET q == BaseToQuoteLots(TheMarket, n, p, "Ask")
         IN  q \in Nat /\ LotsCeil(m - n, p) + q <= LotsCeil(m, p)
<1> DEFINE q == BaseToQuoteLots(TheMarket, n, p, "Ask")
           z == LotsCeil(m, p)
           unit == BaseAtomsPerBaseUnit(TheMarket)
           ql == TheMarket.quote_lot
           num == TickConversionNum
           den == TickConversionDen
           raw == n * TheMarket.base_lot * p * TheMarket.tick_size
           at == raw \div unit
<1>1. unit \in Nat \ {0} /\ ql \in Nat \ {0} /\ num \in Nat \ {0} /\ den \in Nat \ {0} /\ den = unit * ql
  BY BookAssumption, ConversionPositive DEF TickConversionDen
<1>2. q \in Nat /\ z \in Nat
  BY BookAssumption, MatchLotsNat, LotsCeilNat
<1>3. q = at \div ql
  BY DEF BaseToQuoteLots, QuoteAtoms
<1>4. raw = n * p * num /\ raw \in Nat
  <2> DEFINE bl == TheMarket.base_lot
             ts == TheMarket.tick_size
  <2>1. bl \in Nat /\ ts \in Nat /\ num = ts * bl
    BY BookAssumption DEF TickConversionNum
  <2> HIDE DEF bl, ts
  <2>2. n * bl * p * ts = n * p * (ts * bl) /\ n * bl \in Nat
    BY <2>1, Z3
  <2>3. n * bl * p \in Nat
    BY <2>2, Z3
  <2>4. n * bl * p * ts \in Nat
    BY <2>1, <2>3, Z3
  <2> QED BY <2>1, <2>2, <2>4 DEF bl, ts
<1>5. (m - n) * p * num \in Nat /\ m * p * num \in Nat
      /\ m * p * num = (m - n) * p * num + n * p * num
  <2>1. m * p = (m - n) * p + n * p /\ m * p \in Nat /\ (m - n) * p \in Nat /\ n * p \in Nat
    BY Z3
  <2> HIDE DEF num
  <2>2. \A x, y \in Nat : (x + y) * num = x * num + y * num /\ x * num \in Nat
    BY <1>1, Z3
  <2>3. ((m - n) * p + n * p) * num = (m - n) * p * num + n * p * num
    BY <2>1, <2>2
  <2> QED BY <2>1, <2>2, <2>3
<1>6. m * p * num <= den * z
  <2>1. z = CeilDiv(m * p * num, den)
    BY DEF LotsCeil
  <2>2. m * p * num <= den * CeilDiv(m * p * num, den)
    <3> DEFINE x == m * p * num
    <3>1. x \in Int
      BY <1>5
    <3> HIDE DEF x
    <3>2. x <= den * CeilDiv(x, den)
      BY <1>1, <3>1, CeilDivFacts, Zenon
    <3> QED BY <3>2 DEF x
  <2> QED BY <2>1, <2>2
<1>7. LotsCeil(m - n, p) = CeilDiv((m - n) * p * num, den)
  BY DEF LotsCeil
<1> HIDE DEF q, z, unit, ql, num, den, raw
<1>8. at \in Int /\ unit * at <= raw
  BY <1>1, <1>4, DivFacts
<1> HIDE DEF at
<1>9. ql * q <= at
  BY <1>1, <1>3, <1>8, DivFacts
<1>10. unit * (ql * q) <= unit * at
  BY <1>1, <1>2, <1>8, <1>9, Z3
<1>11. den * q = unit * (ql * q)
  BY <1>1, <1>2, Z3
<1>12. den * q <= n * p * num
  <2>1. n * p * num \in Nat /\ den * q \in Int /\ unit * at \in Int
    BY <1>1, <1>2, <1>4, <1>8
  <2> QED BY <1>4, <1>8, <1>10, <1>11, <2>1
<1>13. den * (z - q) = den * z - den * q
  BY <1>1, <1>2, Z3
<1>14. (m - n) * p * num <= den * (z - q)
  <2> DEFINE x == (m - n) * p * num
             y == n * p * num
             w == m * p * num
             dz == den * z
             dq == den * q
  <2>1. x \in Nat /\ y \in Nat /\ w \in Nat /\ w = x + y /\ dz \in Int /\ dq \in Int
        /\ w <= dz /\ dq <= y
    BY <1>1, <1>2, <1>4, <1>5, <1>6, <1>12
  <2> HIDE DEF x, y, w, dz, dq
  <2>2. x <= dz - dq
    BY <2>1
  <2> QED BY <2>2, <1>13 DEF x, dz, dq
<1>15. CeilDiv((m - n) * p * num, den) <= z - q
  BY <1>1, <1>2, <1>5, <1>14, CeilDivAtMost
<1>16. LotsCeil(m - n, p) \in Nat
  BY LotsCeilNat
<1>17. q \in Nat /\ LotsCeil(m - n, p) + q <= z
  BY <1>2, <1>7, <1>15, <1>16
<1> QED
  BY <1>17 DEF q, z

\* A fee is no more than what it is charged on.
LEMMA FeeAtMost ==
  ASSUME NEW q \in Nat, NEW f \in Int, f <= PPM_DIVISOR
  PROVE  CalculateFee(q, f) \in Int /\ CalculateFee(q, f) <= q
         /\ CalculateFee(q, f) <= FeeBuffer(q, f)
<1>1. PPM_DIVISOR \in Nat \ {0}
  BY WordAssumption
<1>2. CASE f > 0
  <2>1. q * f \in Nat /\ q * f <= PPM_DIVISOR * q
    BY <1>1, <1>2, Z3
  <2>2. CeilDiv(q * f, PPM_DIVISOR) <= q
    BY <1>1, <2>1, CeilDivAtMost
  <2> QED BY <1>2, <2>2, FeeType DEF CalculateFee, FeeBuffer
<1>3. CASE ~(f > 0)
  <2>1. q * (-f) \in Nat
    BY <1>3, Z3
  <2>2. (q * (-f)) \div PPM_DIVISOR \in Int /\ (q * (-f)) \div PPM_DIVISOR >= 0
    BY <1>1, <2>1, DivFacts, DivAtLeast
  <2> QED BY <1>3, <2>2, FeeType DEF CalculateFee, FeeBuffer
<1> QED
  BY <1>2, <1>3

\* A fill of a bid frees what it costs, but for one lot of rounding.
LEMMA FillBidLots ==
  ASSUME NEW b \in LB!Levels, NEW id \in BidIds, NEW n \in Nat, n <= b[id],
         NEW f \in Int, f <= PPM_DIVISOR,
         NEW c, c = [b EXCEPT ![id] = b[id] - n]
  PROVE  LET q == BaseToQuoteLots(TheMarket, n, id.price_ticks, "Ask")
         IN  /\ c \in LB!Levels /\ AskLots(c) = AskLots(b)
             /\ q \in Nat /\ CalculateFee(q, f) \in Int
             /\ BidLots(c) + FeeBuffer(BidLots(c), f) + (q + CalculateFee(q, f))
                  <= BidLots(b) + FeeBuffer(BidLots(b), f) + 1
<1> DEFINE q == BaseToQuoteLots(TheMarket, n, id.price_ticks, "Ask")
<1>1. id \in Ids /\ id.side = "Bid" /\ id.price_ticks \in Nat /\ b[id] \in Nat
  BY IdFacts, LevelsNat DEF BidIds
<1>2. /\ c \in LB!Levels /\ c[id] = b[id] - n
      /\ \A i \in Ids \ {id} : c[i] = b[i]
  <2>1. b[id] - n \in 0..MaxSize
    BY <1>1, LevelsNat, FundsAssumption DEF LB!Size
  <2> QED BY <1>1, <2>1 DEF LB!Levels, LB!Size
<1>3. q \in Nat /\ LotsCeil(b[id] - n, id.price_ticks) + q <= LotsCeil(b[id], id.price_ticks)
  BY <1>1, FillWithinLock
<1> HIDE DEF q
<1>4. AskLots(c) = AskLots(b)
  <2>1. \A i \in AskIds : AskTerms(c)[i] = AskTerms(b)[i]
    BY <1>1, <1>2 DEF AskTerms, AskIds
  <2> QED BY <2>1, LotsNat, SumSame DEF AskLots
<1>5. BidLots(c) = BidLots(b) - BidTerms(b)[id] + BidTerms(c)[id]
  <2>1. \A i \in BidIds \ {id} : BidTerms(c)[i] = BidTerms(b)[i]
    BY <1>2 DEF BidTerms, BidIds
  <2>2. \A i \in BidIds : BidTerms(b)[i] \in Int /\ BidTerms(c)[i] \in Int
    BY <1>2, LotsNat
  <2>3. IsFiniteSet(BidIds)
    BY LotsNat
  <2> DEFINE h == BidTerms(b)
             k == BidTerms(c)
             S == BidIds
  <2>4. /\ IsFiniteSet(S) /\ id \in S
        /\ \A x \in S : h[x] \in Int /\ k[x] \in Int
        /\ \A x \in S \ {id} : k[x] = h[x]
    BY <2>1, <2>2, <2>3
  <2> HIDE DEF h, k, S
  <2>5. SumFunctionOnSet(k, S) = SumFunctionOnSet(h, S) - h[id] + k[id]
    BY <2>4, SumChange
  <2> QED BY <2>5 DEF BidLots, h, k, S
<1>6. BidTerms(b)[id] = LotsCeil(b[id], id.price_ticks) /\ BidTerms(c)[id] = LotsCeil(b[id] - n, id.price_ticks)
  BY <1>2 DEF BidTerms
<1> DEFINE Nb == BidLots(b)
           Nc == BidLots(c)
<1>7. Nb \in Nat /\ Nc \in Nat /\ BidTerms(b)[id] \in Nat /\ BidTerms(c)[id] \in Nat
  BY <1>2, LotsNat
<1>8. Nc + q <= Nb
  BY <1>3, <1>5, <1>6, <1>7
<1>9. CalculateFee(q, f) \in Int /\ CalculateFee(q, f) <= FeeBuffer(q, f)
  BY <1>3, FeeAtMost
<1> HIDE DEF Nb, Nc
<1>10. /\ FeeBuffer(Nc, f) \in Nat /\ FeeBuffer(q, f) \in Nat /\ FeeBuffer(Nb, f) \in Nat
       /\ FeeBuffer(Nc + q, f) \in Nat
       /\ FeeBuffer(Nc, f) + FeeBuffer(q, f) <= FeeBuffer(Nc + q, f) + 1
       /\ FeeBuffer(Nc + q, f) <= FeeBuffer(Nb, f)
  <2>1. Nc + q \in Nat
    BY <1>3, <1>7
  <2>2. FeeBuffer(Nc + q, f) \in Nat /\ FeeBuffer(Nc + q, f) <= FeeBuffer(Nb, f)
    BY <1>7, <1>8, <2>1, BufferFacts
  <2>3. /\ FeeBuffer(Nc, f) \in Nat /\ FeeBuffer(q, f) \in Nat /\ FeeBuffer(Nb, f) \in Nat
        /\ FeeBuffer(Nc, f) + FeeBuffer(q, f) <= FeeBuffer(Nc + q, f) + 1
    BY <1>3, <1>7, BufferFacts
  <2> QED BY <2>2, <2>3
<1>11. Nc + FeeBuffer(Nc, f) + (q + CalculateFee(q, f)) <= Nb + FeeBuffer(Nb, f) + 1
  BY <1>3, <1>7, <1>8, <1>9, <1>10
<1> QED
  BY <1>2, <1>3, <1>4, <1>9, <1>11 DEF q, Nb, Nc

\* A fill of an ask takes its lots from the locked ones.
LEMMA FillAskLots ==
  ASSUME NEW b \in LB!Levels, NEW id \in AskIds, NEW n \in Nat, n <= b[id],
         NEW c, c = [b EXCEPT ![id] = b[id] - n]
  PROVE  /\ c \in LB!Levels /\ BidLots(c) = BidLots(b)
         /\ n <= AskLots(b) /\ AskLots(c) = AskLots(b) - n
<1>1. id \in Ids /\ id.side = "Ask" /\ b[id] \in Nat
  BY LevelsNat DEF AskIds
<1>2. /\ c \in LB!Levels /\ c[id] = b[id] - n
      /\ \A i \in Ids \ {id} : c[i] = b[i]
  <2>1. b[id] - n \in 0..MaxSize
    BY <1>1, LevelsNat, FundsAssumption DEF LB!Size
  <2> QED BY <1>1, <2>1 DEF LB!Levels, LB!Size
<1>3. BidLots(c) = BidLots(b)
  <2>1. \A i \in BidIds : BidTerms(c)[i] = BidTerms(b)[i]
    BY <1>1, <1>2 DEF BidTerms, BidIds
  <2> QED BY <2>1, LotsNat, SumSame DEF BidLots
<1>4. AskLots(c) = AskLots(b) - AskTerms(b)[id] + AskTerms(c)[id]
  <2>1. \A i \in AskIds \ {id} : AskTerms(c)[i] = AskTerms(b)[i]
    BY <1>2 DEF AskTerms, AskIds
  <2>2. \A i \in AskIds : AskTerms(b)[i] \in Int /\ AskTerms(c)[i] \in Int
    BY <1>2, LotsNat
  <2>3. IsFiniteSet(AskIds)
    BY LotsNat
  <2> DEFINE h == AskTerms(b)
             k == AskTerms(c)
             S == AskIds
  <2>4. /\ IsFiniteSet(S) /\ id \in S
        /\ \A x \in S : h[x] \in Int /\ k[x] \in Int
        /\ \A x \in S \ {id} : k[x] = h[x]
    BY <2>1, <2>2, <2>3
  <2> HIDE DEF h, k, S
  <2>5. SumFunctionOnSet(k, S) = SumFunctionOnSet(h, S) - h[id] + k[id]
    BY <2>4, SumChange
  <2> QED BY <2>5 DEF AskLots, h, k, S
<1>5. AskTerms(b)[id] = b[id] /\ AskTerms(c)[id] = b[id] - n
  BY <1>2 DEF AskTerms
<1>6. b[id] <= AskLots(b)
  BY <1>5, LotsNat, SumTerm DEF AskLots
<1> QED
  BY <1>1, <1>2, <1>3, <1>4, <1>5, <1>6, LotsNat

-----------------------------------------------------------------------------
(* Lists of level ops *)

\* A nonempty set of positions has a last one.
LEMMA LastOf ==
  ASSUME NEW n \in Nat, NEW S \in SUBSET (1..n), S # {}
  PROVE  \E i \in S : \A j \in S : j <= i
<1> DEFINE above(k) == \A j \in S : j <= n - k
           T == {k \in Nat : above(k)}
<1>1. SUFFICES ASSUME ~ \E i \in S : \A j \in S : j <= i
               PROVE  FALSE
  OBVIOUS
<1>2. 0 \in T
  OBVIOUS
<1>3. ASSUME NEW k \in T PROVE k + 1 \in T
  <2>1. n - k \notin S
    BY <1>1, <1>3
  <2>2. \A j \in S : j \in Int /\ j <= n - k /\ j # n - k
    BY <1>3, <2>1
  <2>3. \A j \in S : j <= n - (k + 1)
    BY <2>2, <1>3
  <2> QED BY <2>3, <1>3
<1>4. T = Nat
  <2>1. T \in SUBSET Nat
    OBVIOUS
  <2> HIDE DEF T
  <2> QED BY <1>2, <1>3, <2>1, NatSetInduction
<1>5. PICK j \in S : TRUE
  OBVIOUS
<1>6. j \in 1..n /\ j <= n - n
  BY <1>4
<1> QED
  BY <1>6

\* An op naming each id of S, and no other, and setting it to its size in w.
Names(ops, S, w) ==
  /\ ops \in Seq(LB!LevelOp)
  /\ \A i \in 1..Len(ops) : ops[i].id \in S /\ ops[i].new = w[ops[i].id]
  /\ \A id \in S : \E i \in 1..Len(ops) : ops[i].id = id

\* A book with the sizes of w at the ids of S.
Merge(b, S, w) == [id \in Ids |-> IF id \in S THEN w[id] ELSE b[id]]

\* Overwriting part of a book with sizes leaves a book.
LEMMA MergeType ==
  ASSUME NEW b \in LB!Levels, NEW w \in LB!Levels, NEW S
  PROVE  Merge(b, S, w) \in LB!Levels
  BY DEF Merge, LB!Levels

\* Ops that agree on every id they name: what they leave does not depend on
\* their order, nor on which of two ops of an id comes last.
LEMMA AfterUniform ==
  ASSUME NEW b, NEW w, NEW ops, NEW n \in Nat,
         \A i \in 1..n : ops[i].new = w[ops[i].id]
  PROVE  LB!AfterOps(b, ops, n) = Merge(b, {ops[i].id : i \in 1..n}, w)
<1> DEFINE named == {ops[i].id : i \in 1..n}
           P(id, i) == ops[i].id = id /\ \A j \in 1..n : ops[j].id = id => j <= i
           last(id) == CHOOSE i \in 1..n : P(id, i)
<1>1. ASSUME NEW id \in Ids, \E i \in 1..n : ops[i].id = id
      PROVE  ops[last(id)].new = w[id]
  <2>1. \E i \in 1..n : P(id, i)
    <3> DEFINE S == {i \in 1..n : ops[i].id = id}
    <3>1. S \in SUBSET (1..n) /\ S # {}
      BY <1>1
    <3>2. \E i \in S : \A j \in S : j <= i
      <4> HIDE DEF S
      <4> QED BY <3>1, LastOf
    <3> QED BY <3>2
  <2>2. last(id) \in 1..n /\ P(id, last(id))
    BY <2>1
  <2> HIDE DEF last
  <2> QED BY <2>2
<1>2. LB!AfterOps(b, ops, n) =
        [id \in Ids |-> IF \E i \in 1..n : ops[i].id = id THEN ops[last(id)].new ELSE b[id]]
  BY Zenon DEF LB!AfterOps
<1> HIDE DEF last
<1>3. \A id \in Ids : (\E i \in 1..n : ops[i].id = id) <=> id \in named
  OBVIOUS
<1> HIDE DEF named
<1>4. LB!AfterOps(b, ops, n) = Merge(b, named, w)
  BY <1>1, <1>2, <1>3 DEF Merge
<1> QED
  BY <1>4 DEF named

\* Ops that name a set once each overwrite the book on that set.
LEMMA AfterNames ==
  ASSUME NEW b, NEW w, NEW S, NEW ops, Names(ops, S, w)
  PROVE  LB!AfterOps(b, ops, Len(ops)) = Merge(b, S, w)
<1>1. Len(ops) \in Nat /\ \A i \in 1..Len(ops) : ops[i].new = w[ops[i].id]
  BY DEF Names
<1>2. {ops[i].id : i \in 1..Len(ops)} = S
  BY DEF Names
<1> QED
  BY <1>1, <1>2, AfterUniform

\* Any list of ops leaves sizes on the book.
LEMMA AfterType ==
  ASSUME NEW b \in LB!Levels, NEW ops \in Seq(LB!LevelOp)
  PROVE  LB!AfterOps(b, ops, Len(ops)) \in LB!Levels
<1> DEFINE n == Len(ops)
           P(id, i) == ops[i].id = id /\ \A j \in 1..n : ops[j].id = id => j <= i
           last(id) == CHOOSE i \in 1..n : P(id, i)
<1>0. n \in Nat
  OBVIOUS
<1>1. ASSUME NEW id \in Ids, \E i \in 1..n : ops[i].id = id
      PROVE  ops[last(id)].new \in LB!Size
  <2>1. \E i \in 1..n : P(id, i)
    <3> DEFINE S == {i \in 1..n : ops[i].id = id}
    <3>1. S \in SUBSET (1..n) /\ S # {}
      BY <1>1
    <3>2. \E i \in S : \A j \in S : j <= i
      <4> HIDE DEF S, n
      <4> QED BY <1>0, <3>1, LastOf
    <3> QED BY <3>2
  <2>2. last(id) \in 1..n
    BY <2>1
  <2> HIDE DEF last
  <2>3. ops[last(id)] \in LB!LevelOp
    BY <2>2
  <2> QED BY <2>3 DEF LB!LevelOp
<1>2. LB!AfterOps(b, ops, n) =
        [id \in Ids |-> IF \E i \in 1..n : ops[i].id = id THEN ops[last(id)].new ELSE b[id]]
  BY Zenon DEF LB!AfterOps
<1> HIDE DEF last, n
<1>3. LB!AfterOps(b, ops, n) \in LB!Levels
  BY <1>1, <1>2 DEF LB!Levels
<1> QED
  BY <1>3 DEF n

\* One list after another.
LEMMA ConcatNames ==
  ASSUME NEW S, NEW T, NEW w, NEW f, NEW g, Names(f, S, w), Names(g, T, w)
  PROVE  Names(f \o g, S \cup T, w)
<1> DEFINE h == f \o g
<1>1. /\ f \in Seq(LB!LevelOp) /\ g \in Seq(LB!LevelOp)
      /\ \A i \in 1..Len(f) : f[i].id \in S /\ f[i].new = w[f[i].id]
      /\ \A i \in 1..Len(g) : g[i].id \in T /\ g[i].new = w[g[i].id]
      /\ \A id \in S : \E i \in 1..Len(f) : f[i].id = id
      /\ \A id \in T : \E i \in 1..Len(g) : g[i].id = id
  BY DEF Names
<1>2. /\ h \in Seq(LB!LevelOp) /\ Len(f) \in Nat /\ Len(g) \in Nat
      /\ Len(h) = Len(f) + Len(g)
      /\ \A i \in 1..Len(h) : h[i] = IF i <= Len(f) THEN f[i] ELSE g[i - Len(f)]
  BY <1>1
<1> HIDE DEF h
<1>3. \A i \in 1..Len(h) : h[i].id \in S \cup T /\ h[i].new = w[h[i].id]
  <2> SUFFICES ASSUME NEW i \in 1..Len(h)
               PROVE  h[i].id \in S \cup T /\ h[i].new = w[h[i].id]
    OBVIOUS
  <2>1. CASE i <= Len(f)
    <3>1. i \in 1..Len(f) /\ h[i] = f[i]
      BY <1>2, <2>1
    <3> QED BY <1>1, <3>1
  <2>2. CASE ~(i <= Len(f))
    <3>1. i - Len(f) \in 1..Len(g) /\ h[i] = g[i - Len(f)]
      BY <1>2, <2>2
    <3> QED BY <1>1, <3>1
  <2> QED BY <2>1, <2>2
<1>4. ASSUME NEW id \in S \cup T PROVE \E i \in 1..Len(h) : h[i].id = id
  <2>1. CASE id \in S
    <3>1. PICK i \in 1..Len(f) : f[i].id = id
      BY <1>1, <2>1
    <3>2. i \in 1..Len(h) /\ h[i] = f[i]
      BY <1>2
    <3> QED BY <3>1, <3>2
  <2>2. CASE id \in T
    <3>1. PICK i \in 1..Len(g) : g[i].id = id
      BY <1>1, <2>2
    <3>2. i + Len(f) \in 1..Len(h) /\ h[i + Len(f)] = g[i]
      BY <1>2
    <3> QED BY <3>1, <3>2
  <2> QED BY <1>4, <2>1, <2>2
<1> QED
  BY <1>2, <1>3, <1>4 DEF Names, h

\* A book of ids of S sized as in want, as LocalBook's loops emit them.
LEMMA PlaceNames ==
  ASSUME NEW S \in SUBSET Ids, NEW want \in LB!Levels
  PROVE  /\ Names(LB!PlaceOps(ListOf(S), want), S, want)
         /\ S # {} => LB!PlaceOps(ListOf(S), want) # <<>>
<1> DEFINE list == ListOf(S)
           ops == LB!PlaceOps(list, want)
<1>1. /\ list \in Seq(Ids) /\ DOMAIN list = 1..Len(list) /\ Len(list) \in Nat
      /\ \A i \in DOMAIN list : list[i] \in S
      /\ \A id \in S : \E i \in DOMAIN list : list[i] = id
  BY ListOfSet
<1> HIDE DEF list
<1>2. \A id \in Ids : LB!PlaceOp(id, want[id]) \in LB!LevelOp
  BY LevelsNat, FundsAssumption DEF LB!PlaceOp, LB!LevelOp, LB!Size
<1>3. /\ ops = [i \in 1..Len(list) |-> LB!PlaceOp(list[i], want[list[i]])]
      /\ \A i \in 1..Len(list) : LB!PlaceOp(list[i], want[list[i]]) \in LB!LevelOp
  BY <1>1, <1>2 DEF LB!PlaceOps
<1>4. ops \in Seq(LB!LevelOp) /\ Len(ops) = Len(list)
  BY <1>1, <1>3
<1>5. \A i \in 1..Len(list) : ops[i].id = list[i] /\ ops[i].new = want[list[i]]
  BY <1>3 DEF LB!PlaceOp
<1>6. S # {} => Len(list) # 0
  BY <1>1
<1> HIDE DEF ops
<1>7. S # {} => ops # <<>>
  BY <1>4, <1>6
<1> QED
  BY <1>1, <1>4, <1>5, <1>7 DEF Names, list, ops

\* A cancel loop names its ids and leaves nothing on them.
LEMMA CancelNames ==
  ASSUME NEW S \in SUBSET Ids, NEW b \in LB!Levels, NEW mode, NEW w \in LB!Levels,
         \A id \in S : w[id] = 0
  PROVE  Names(LB!CancelOps(b, ListOf(S), mode), S, w)
<1> DEFINE list == ListOf(S)
           ops == LB!CancelOps(b, list, mode)
<1>1. /\ list \in Seq(Ids) /\ DOMAIN list = 1..Len(list) /\ Len(list) \in Nat
      /\ \A i \in DOMAIN list : list[i] \in S
      /\ \A id \in S : \E i \in DOMAIN list : list[i] = id
  BY ListOfSet
<1> HIDE DEF list
<1>2. \A id \in Ids : /\ LB!CancelOp(b, id, mode) \in LB!LevelOp
                      /\ LB!CancelOp(b, id, mode).id = id /\ LB!CancelOp(b, id, mode).new = 0
  BY LevelsNat, FundsAssumption
    DEF LB!CancelOp, LB!CancelAnyOp, LB!ResizeOp, LB!LevelOp, LB!Size, LB!LEVEL_OP_EXPECTED_ANY
<1>3. /\ ops = [i \in 1..Len(list) |-> LB!CancelOp(b, list[i], mode)]
      /\ \A i \in 1..Len(list) : /\ LB!CancelOp(b, list[i], mode) \in LB!LevelOp
                                 /\ LB!CancelOp(b, list[i], mode).id = list[i]
                                 /\ LB!CancelOp(b, list[i], mode).new = 0
  BY <1>1, <1>2 DEF LB!CancelOps
<1>4. ops \in Seq(LB!LevelOp) /\ Len(ops) = Len(list)
  BY <1>1, <1>3
<1>5. \A i \in 1..Len(list) : ops[i].id = list[i] /\ ops[i].new = 0
  BY <1>3
<1> HIDE DEF ops
<1> QED
  BY <1>1, <1>4, <1>5 DEF Names, list, ops

\* A resize loop names its ids and leaves the wanted sizes.
LEMMA ResizeNames ==
  ASSUME NEW S \in SUBSET Ids, NEW b \in LB!Levels, NEW want \in LB!Levels
  PROVE  Names(LB!ResizeOps(b, ListOf(S), want), S, want)
<1> DEFINE list == ListOf(S)
           ops == LB!ResizeOps(b, list, want)
<1>1. /\ list \in Seq(Ids) /\ DOMAIN list = 1..Len(list) /\ Len(list) \in Nat
      /\ \A i \in DOMAIN list : list[i] \in S
      /\ \A id \in S : \E i \in DOMAIN list : list[i] = id
  BY ListOfSet
<1> HIDE DEF list
<1>2. \A id \in Ids : LB!ResizeOp(id, b[id], want[id]) \in LB!LevelOp
  BY LevelsNat DEF LB!ResizeOp, LB!LevelOp
<1>3. /\ ops = [i \in 1..Len(list) |-> LB!ResizeOp(list[i], b[list[i]], want[list[i]])]
      /\ \A i \in 1..Len(list) : LB!ResizeOp(list[i], b[list[i]], want[list[i]]) \in LB!LevelOp
  BY <1>1, <1>2 DEF LB!ResizeOps
<1>4. ops \in Seq(LB!LevelOp) /\ Len(ops) = Len(list)
  BY <1>1, <1>3
<1>5. \A i \in 1..Len(list) : ops[i].id = list[i] /\ ops[i].new = want[list[i]]
  BY <1>3 DEF LB!ResizeOp
<1> HIDE DEF ops
<1> QED
  BY <1>1, <1>4, <1>5 DEF Names, list, ops

\* diff_to names what differs.
Differing(from, want) ==
  LB!ToCancel(from, want) \cup LB!ToResize(from, want) \cup LB!ToPlace(from, want)

\* diff_to names the ids at which the two books differ.
LEMMA DiffNames ==
  ASSUME NEW from \in LB!Levels, NEW want \in LB!Levels, NEW mode
  PROVE  Names(LB!DiffOps(from, want, mode, ListOf(LB!ToCancel(from, want)),
                          ListOf(LB!ToResize(from, want)), ListOf(LB!ToPlace(from, want))),
               Differing(from, want), want)
<1> DEFINE C == LB!ToCancel(from, want)
           R == LB!ToResize(from, want)
           P == LB!ToPlace(from, want)
           c == LB!CancelOps(from, ListOf(C), mode)
           r == LB!ResizeOps(from, ListOf(R), want)
           p == LB!PlaceOps(ListOf(P), want)
<1>1. C \in SUBSET Ids /\ R \in SUBSET Ids /\ P \in SUBSET Ids /\ \A id \in C : want[id] = 0
  BY DEF LB!ToCancel, LB!ToResize, LB!ToPlace, LB!Resting
<1> HIDE DEF C, R, P
<1>2. Names(c, C, want) /\ Names(r, R, want) /\ Names(p, P, want)
  BY <1>1, CancelNames, ResizeNames, PlaceNames
<1> HIDE DEF c, r, p
<1>3. Names(c \o r \o p, C \cup R \cup P, want)
  BY <1>2, ConcatNames
<1> QED
  BY <1>3 DEF LB!DiffOps, Differing, C, R, P, c, r, p

-----------------------------------------------------------------------------
(* The level limit and the crossing check *)

\* Both checks pass on a book with fewer orders.
LEMMA FewerOrders ==
  ASSUME NEW a, NEW b, LB!Resting(a) \subseteq LB!Resting(b)
  PROVE  /\ LB!WithinSides(b) => LB!WithinSides(a)
         /\ ~LB!Crossed(b) => ~LB!Crossed(a)
<1>1. ASSUME LB!WithinSides(b), NEW s \in LB!Sides
      PROVE  LB!SideCount(a, s) <= MAX_LEVELS
  <2> DEFINE A == {id \in LB!Resting(a) : id.side = s}
             B == {id \in LB!Resting(b) : id.side = s}
  <2>1. A \subseteq B /\ B \subseteq Ids
    BY DEF LB!Resting
  <2>2. LB!SideCount(a, s) = Cardinality(A) /\ LB!SideCount(b, s) = Cardinality(B)
    BY SideCountIs
  <2>3. Cardinality(B) <= MAX_LEVELS
    BY <1>1, <2>2 DEF LB!WithinSides
  <2> HIDE DEF A, B
  <2>4. IsFiniteSet(B) /\ IsFiniteSet(A)
    BY <2>1, IdFacts, FS_Subset
  <2>5. Cardinality(A) <= Cardinality(B) /\ Cardinality(A) \in Nat /\ Cardinality(B) \in Nat
    BY <2>1, <2>4, FS_Subset, FS_CardinalityType
  <2> QED BY <2>2, <2>3, <2>5, ScaleAssumption
<1>2. ~LB!Crossed(b) => ~LB!Crossed(a)
  BY DEF LB!Crossed
<1> QED
  BY <1>1, <1>2 DEF LB!WithinSides

\* The book after the first k places of a list.
LEMMA AfterPlaces ==
  ASSUME NEW S \in SUBSET Ids, NEW b \in LB!Levels, NEW want \in LB!Levels,
         NEW k \in 0..Len(ListOf(S))
  PROVE  LB!AfterOps(b, LB!PlaceOps(ListOf(S), want), k)
           = Merge(b, {ListOf(S)[i] : i \in 1..k}, want)
<1> DEFINE list == ListOf(S)
           ops == LB!PlaceOps(list, want)
<1>1. DOMAIN list = 1..Len(list) /\ Len(list) \in Nat
  BY ListOfSet
<1> HIDE DEF list
<1>2. k \in Nat /\ \A i \in 1..k : i \in DOMAIN list
  BY <1>1 DEF list
<1>3. \A i \in 1..k : ops[i].id = list[i] /\ ops[i].new = want[list[i]]
  BY <1>2 DEF LB!PlaceOps, LB!PlaceOp
<1> HIDE DEF ops
<1>4. \A i \in 1..k : ops[i].new = want[ops[i].id]
  BY <1>3
<1>5. {ops[i].id : i \in 1..k} = {list[i] : i \in 1..k}
  BY <1>3
<1>6. LB!AfterOps(b, ops, k) = Merge(b, {ops[i].id : i \in 1..k}, want)
  BY <1>2, <1>4, AfterUniform
<1> QED
  BY <1>5, <1>6 DEF list, ops

\* LocalBook::place checks the side's count before each order, and that
\* nothing rests where it goes: a list of places keeps to the limit.
LEMMA PlacesWithin ==
  ASSUME NEW S \in SUBSET Ids, NEW b \in LB!Levels, NEW want \in LB!Levels,
         LB!PlacesOk(b, ListOf(S), want), LB!WithinSides(b)
  PROVE  /\ LB!WithinSides(Merge(b, S, want))
         /\ \A id \in S : b[id] = 0
<1> DEFINE list == ListOf(S)
           n == Len(list)
           upto(k) == {list[i] : i \in 1..k}
           at(k) == Merge(b, upto(k), want)
<1>1. /\ n \in Nat /\ DOMAIN list = 1..n
      /\ \A i \in 1..n : list[i] \in S
      /\ \A i, j \in 1..n : list[i] = list[j] => i = j
      /\ \A id \in S : \E i \in 1..n : list[i] = id
  BY ListOfSet
<1>2. ASSUME NEW i \in 1..n
      PROVE  at(i - 1)[list[i]] = 0 /\ LB!SideCount(at(i - 1), list[i].side) < MAX_LEVELS
  <2>1. LB!CanPlace(LB!AfterOps(b, LB!PlaceOps(list, want), i - 1), list[i], want[list[i]])
    BY <1>1 DEF LB!PlacesOk
  <2>2. i - 1 \in 0..n
    BY <1>1
  <2>3. LB!AfterOps(b, LB!PlaceOps(list, want), i - 1) = at(i - 1)
    BY <2>2, AfterPlaces
  <2> HIDE DEF at, list
  <2> QED BY <2>1, <2>3 DEF LB!CanPlace
<1> HIDE DEF list, n
<1>3. ASSUME NEW id \in S PROVE b[id] = 0
  <2>1. PICK i \in 1..n : list[i] = id
    BY <1>1
  <2>2. \A j \in 1..(i - 1) : list[j] # id
    <3> SUFFICES ASSUME NEW j \in 1..(i - 1), list[j] = id PROVE FALSE
      OBVIOUS
    <3>1. j \in 1..n /\ j # i
      BY <1>1, <2>1
    <3> QED BY <1>1, <2>1, <3>1
  <2>3. at(i - 1)[id] = b[id]
    BY <2>2 DEF Merge
  <2> QED BY <1>2, <2>1, <2>3
<1>4. ASSUME NEW s \in LB!Sides
      PROVE  LB!SideCount(Merge(b, S, want), s) <= MAX_LEVELS
  <2> DEFINE K == {i \in 1..n : list[i].side = s}
             E == {id \in LB!Resting(Merge(b, S, want)) : id.side = s}
  <2>1. LB!SideCount(Merge(b, S, want), s) = Cardinality(E) /\ E \subseteq Ids
    BY SideCountIs DEF LB!Resting
  <2>2. CASE K = {}
    <3> DEFINE B == {id \in LB!Resting(b) : id.side = s}
    <3>1. \A id \in S : id.side # s
      BY <1>1, <2>2
    <3>2. E = B
      BY <3>1 DEF LB!Resting, Merge
    <3>3. LB!SideCount(b, s) = Cardinality(B)
      BY SideCountIs
    <3> QED BY <2>1, <3>2, <3>3 DEF LB!WithinSides
  <2>3. CASE K # {}
    <3>1. K \in SUBSET (1..n)
      OBVIOUS
    <3>2. \E i \in K : \A j \in K : j <= i
      <4> HIDE DEF K
      <4> QED BY <1>1, <2>3, <3>1, LastOf
    <3>3. PICK i \in K : \A j \in K : j <= i
      BY <3>2
    <3> DEFINE B == {id \in LB!Resting(at(i - 1)) : id.side = s}
    <3>4. LB!SideCount(at(i - 1), s) = Cardinality(B) /\ B \subseteq Ids
      BY SideCountIs DEF LB!Resting
    <3>5. Cardinality(B) < MAX_LEVELS
      BY <1>2, <3>3, <3>4
    <3>6. E \subseteq B \cup {list[i]}
      <4> SUFFICES ASSUME NEW id \in E, id # list[i]
                   PROVE  id \in B
        OBVIOUS
      <4>1. id \in Ids /\ id.side = s /\ Merge(b, S, want)[id] > 0
        BY DEF LB!Resting
      <4>2. CASE id \in S
        <5>1. PICK j \in 1..n : list[j] = id
          BY <1>1, <4>2
        <5>2. j \in K /\ j <= i /\ j # i
          BY <3>3, <4>1, <5>1
        <5>3. j \in 1..(i - 1) /\ id \in upto(i - 1)
          BY <3>3, <5>1, <5>2
        <5>4. at(i - 1)[id] = Merge(b, S, want)[id]
          BY <4>1, <4>2, <5>3 DEF Merge
        <5> QED BY <4>1, <5>4 DEF LB!Resting
      <4>3. CASE id \notin S
        <5>1. id \notin upto(i - 1)
          BY <1>1, <3>3, <4>3
        <5>2. at(i - 1)[id] = Merge(b, S, want)[id]
          BY <4>1, <4>3, <5>1 DEF Merge
        <5> QED BY <4>1, <5>2 DEF LB!Resting
      <4> QED BY <4>2, <4>3
    <3> HIDE DEF B, E
    <3>7. IsFiniteSet(B) /\ IsFiniteSet(B \cup {list[i]}) /\ Cardinality(B) \in Nat
          /\ Cardinality(B \cup {list[i]}) <= Cardinality(B) + 1
      <4>1. IsFiniteSet(B)
        BY <3>4, IdFacts, FS_Subset
      <4>2. Cardinality(B) \in Nat
        BY <4>1, FS_CardinalityType
      <4>3. /\ IsFiniteSet(B \cup {list[i]})
            /\ Cardinality(B \cup {list[i]}) =
                 IF list[i] \in B THEN Cardinality(B) ELSE Cardinality(B) + 1
        BY <4>1, FS_AddElement, Zenon
      <4> QED BY <4>1, <4>2, <4>3
    <3>8. /\ Cardinality(E) <= Cardinality(B \cup {list[i]})
          /\ Cardinality(E) \in Nat /\ Cardinality(B \cup {list[i]}) \in Nat
      BY <3>6, <3>7, FS_Subset, FS_CardinalityType
    <3> QED BY <2>1, <3>5, <3>7, <3>8, ScaleAssumption
  <2> QED BY <2>2, <2>3
<1> QED
  BY <1>3, <1>4 DEF LB!WithinSides

-----------------------------------------------------------------------------
(* A transaction, one instruction after the other *)

\* The state a transaction starts from.
Start == [ok |-> TRUE, book |-> book, wallet |-> wallet]

\* One instruction of a transaction; a failed one fails the rest.
RunStep(s, ix) ==
  IF ~s.ok \/ ~Accepts(s, ix) THEN [s EXCEPT !.ok = FALSE]
  ELSE [ok |-> TRUE, book |-> BookAfter(s.book, ix), wallet |-> WalletAfter(s.wallet, ix)]

\* The states after each instruction.
Trace(g, ixs, n) == g = [i \in 0..n |-> IF i = 0 THEN Start ELSE RunStep(g[i - 1], ixs[i])]

\* There is such a function, for a list of any length.
LEMMA TraceExists ==
  ASSUME NEW ixs, NEW n \in Nat
  PROVE  \E g : Trace(g, ixs, n)
<1> DEFINE T == {k \in Nat : \E g : Trace(g, ixs, k)}
<1>1. 0 \in T
  <2> DEFINE g == [i \in 0..0 |-> Start]
  <2>1. g = [i \in 0..0 |-> IF i = 0 THEN Start ELSE RunStep(g[i - 1], ixs[i])]
    OBVIOUS
  <2> HIDE DEF g
  <2> QED BY <2>1 DEF Trace
<1>2. ASSUME NEW k \in T PROVE k + 1 \in T
  <2>1. PICK g : Trace(g, ixs, k)
    OBVIOUS
  <2> DEFINE h == [i \in 0..(k + 1) |-> IF i <= k THEN g[i] ELSE RunStep(g[k], ixs[k + 1])]
  <2>2. \A i \in 0..k : g[i] = IF i = 0 THEN Start ELSE RunStep(g[i - 1], ixs[i])
    BY <2>1, Zenon DEF Trace
  <2>3. /\ \A i \in 0..k : h[i] = g[i]
        /\ h[k + 1] = RunStep(g[k], ixs[k + 1])
        /\ DOMAIN h = 0..(k + 1) /\ h = [i \in 0..(k + 1) |-> h[i]]
    OBVIOUS
  <2> HIDE DEF h
  <2>4. ASSUME NEW i \in 0..(k + 1)
        PROVE  h[i] = IF i = 0 THEN Start ELSE RunStep(h[i - 1], ixs[i])
    <3>1. CASE i = 0
      <4>1. 0 \in 0..k
        BY <1>2
      <4> QED BY <2>2, <2>3, <3>1, <4>1
    <3>2. CASE i # 0 /\ i <= k
      <4>1. i \in 0..k /\ i - 1 \in 0..k
        BY <3>2
      <4> QED BY <2>2, <2>3, <3>2, <4>1
    <3>3. CASE i = k + 1
      <4>1. i - 1 = k /\ k \in 0..k /\ i # 0
        BY <3>3
      <4> QED BY <2>3, <3>3, <4>1
    <3> QED BY <3>1, <3>2, <3>3
  <2>5. Trace(h, ixs, k + 1)
    BY <2>3, <2>4, Zenon DEF Trace
  <2> QED BY <2>5
<1>3. T = Nat
  <2>1. T \in SUBSET Nat
    OBVIOUS
  <2> HIDE DEF T
  <2> QED BY <1>1, <1>2, <2>1, NatSetInduction
<1> QED
  BY <1>3

\* Run is the last of those states.
LEMMA RunIs ==
  ASSUME NEW ixs, Len(ixs) \in Nat
  PROVE  \E g : /\ g[0] = Start
                /\ \A i \in 1..Len(ixs) : g[i] = RunStep(g[i - 1], ixs[i])
                /\ Run(ixs) = g[Len(ixs)]
<1> DEFINE n == Len(ixs)
           g == CHOOSE h : Trace(h, ixs, n)
<1>1. Run(ixs) = g[n]
  BY Zenon DEF Run, Trace, RunStep, Start
<1>2. Trace(g, ixs, n)
  BY TraceExists
<1> HIDE DEF g, n
<1>3. n \in Nat
  BY DEF n
<1>4. g = [i \in 0..n |-> IF i = 0 THEN Start ELSE RunStep(g[i - 1], ixs[i])]
  BY <1>2, Zenon DEF Trace
<1> DEFINE G == 0..n
<1>5. \A i \in G : g[i] = IF i = 0 THEN Start ELSE RunStep(g[i - 1], ixs[i])
  BY <1>4, Zenon
<1>6. 0 \in G /\ \A i \in 1..n : i \in G /\ i # 0
  BY <1>3
<1> HIDE DEF G
<1>7. g[0] = Start /\ \A i \in 1..n : g[i] = RunStep(g[i - 1], ixs[i])
  BY <1>5, <1>6
<1> QED
  BY <1>1, <1>7, Zenon DEF n

-----------------------------------------------------------------------------
(* What an accepted instruction keeps *)

\* The types of the account and of the owner's token accounts.
Account ==
  [open : BOOLEAN, levels : LB!Levels, seq : Nat,
   quote_free : Nat, quote_locked : Nat, base_free : Nat, base_locked : Nat]
Wallet == [base : Nat, quote : Nat]

\* The instructions the builders emit.
Ix ==
  [name : {"InitializeMakerBook", "CloseMakerBook"}]
    \cup [name : {"MakerDepositFunds", "MakerWithdrawFunds"}, base : Nat, quote : Nat]
    \cup [name : {"UpdateBookLimit"}, seq : Nat, ops : Seq(LB!LevelOp)]
    \cup [name : {"ClearBook"}, seq : Nat]

\* The instructions that move tokens and those that rewrite the levels.
Moves == {"MakerDepositFunds", "MakerWithdrawFunds"}
Rewrites == {"UpdateBookLimit", "ClearBook"}

\* A book the program leaves: a closed one is empty, the asks are locked to the
\* lot, and the level limit and the crossing check hold.
BookOk(b) ==
  /\ b \in Account
  /\ ~b.open => b = EmptyAccount
  /\ b.base_locked = AskLots(b.levels)
  /\ LB!WithinSides(b.levels) /\ ~LB!Crossed(b.levels)

\* The kinds of instructions and their fields.
LEMMA IxFacts ==
  ASSUME NEW ix \in Ix
  PROVE  /\ ix.name \in {"InitializeMakerBook", "CloseMakerBook"} \cup Moves \cup Rewrites
         /\ ix.name \in Moves => ix.base \in Nat /\ ix.quote \in Nat
         /\ ix.name = "UpdateBookLimit" => ix.seq \in Nat /\ ix.ops \in Seq(LB!LevelOp)
         /\ ix.name = "ClearBook" => ix.seq \in Nat
<1>1. CASE ix \in [name : {"InitializeMakerBook", "CloseMakerBook"}]
  BY <1>1 DEF Moves, Rewrites
<1>2. CASE ix \in [name : {"MakerDepositFunds", "MakerWithdrawFunds"}, base : Nat, quote : Nat]
  BY <1>2 DEF Moves, Rewrites
<1>3. CASE ix \in [name : {"UpdateBookLimit"}, seq : Nat, ops : Seq(LB!LevelOp)]
  BY <1>3 DEF Moves, Rewrites
<1>4. CASE ix \in [name : {"ClearBook"}, seq : Nat]
  BY <1>4 DEF Moves, Rewrites
<1> QED
  BY <1>1, <1>2, <1>3, <1>4 DEF Ix

\* What a set of levels locks under the market's fee.
LEMMA ReservedIs ==
  ASSUME fee \in Fees, NEW b \in LB!Levels
  PROVE  /\ fee \in Int /\ fee <= PPM_DIVISOR
         /\ Reserved(b) = BidLots(b) + FeeBuffer(BidLots(b), fee)
         /\ Reserved(b) \in Nat /\ FeeBuffer(BidLots(b), fee) \in Nat
<1>1. fee \in Int /\ fee <= PPM_DIVISOR
  BY FundsAssumption, FeeAssumption, WordAssumption
<1> QED
  BY <1>1, ReserveOfBids, LotsNat DEF Reserved

\* An empty book locks nothing and passes every check.
LEMMA EmptyOk ==
  /\ EmptyAccount \in Account /\ BookOk(EmptyAccount)
  /\ LB!WithinSides(LB!EmptyBook) /\ ~LB!Crossed(LB!EmptyBook)
  /\ fee \in Fees => Reserved(LB!EmptyBook) = 0
<1>1. LB!Resting(LB!EmptyBook) = {}
  BY DEF LB!Resting, LB!EmptyBook
<1>2. ~LB!Crossed(LB!EmptyBook)
  BY <1>1 DEF LB!Crossed
<1>3. LB!WithinSides(LB!EmptyBook)
  <2>1. \A s : {id \in LB!Resting(LB!EmptyBook) : id.side = s} = {}
    BY <1>1
  <2>2. Cardinality({}) = 0
    BY FS_EmptySet
  <2>3. \A s : LB!SideCount(LB!EmptyBook, s) = 0
    BY <2>1, <2>2, SideCountIs
  <2> QED BY <2>3, ScaleAssumption DEF LB!WithinSides
<1>4. EmptyAccount \in Account
  BY EmptyBookType DEF EmptyAccount, Account
<1>5. EmptyAccount.base_locked = 0 /\ EmptyAccount.levels = LB!EmptyBook
  BY DEF EmptyAccount
<1>6. BookOk(EmptyAccount)
  BY <1>2, <1>3, <1>4, <1>5, EmptyLots DEF BookOk
<1>7. fee \in Fees => Reserved(LB!EmptyBook) = 0
  <2> SUFFICES ASSUME fee \in Fees PROVE Reserved(LB!EmptyBook) = 0
    OBVIOUS
  <2>1. fee \in Int
    BY ReservedIs, EmptyBookType
  <2>2. FeeBuffer(0, fee) = 0
    <3>1. 0 * fee = 0 /\ 0 = 0 * PPM_DIVISOR /\ PPM_DIVISOR \in Nat \ {0}
      BY <2>1, WordAssumption, Z3
    <3> QED BY <3>1, DivExact DEF FeeBuffer
  <2> QED BY <2>2, ReservedIs, EmptyBookType, EmptyLots
<1> QED
  BY <1>2, <1>3, <1>4, <1>6, <1>7

\* The fields of a rewritten book.
LEMMA RelockedIs ==
  ASSUME fee \in Fees, NEW b \in Account, NEW levels \in LB!Levels, NEW seq \in Nat,
         Reserved(levels) <= b.quote_free + b.quote_locked,
         AskLots(levels) <= b.base_free + b.base_locked
  PROVE  /\ Relocked(b, levels, seq) \in Account
         /\ Relocked(b, levels, seq) =
              [open |-> b.open, levels |-> levels, seq |-> seq,
               quote_free |-> b.quote_free + b.quote_locked - Reserved(levels),
               quote_locked |-> Reserved(levels),
               base_free |-> b.base_free + b.base_locked - AskLots(levels),
               base_locked |-> AskLots(levels)]
<1>1. /\ b.quote_free \in Nat /\ b.quote_locked \in Nat /\ b.base_free \in Nat /\ b.base_locked \in Nat
      /\ b.open \in BOOLEAN
  BY DEF Account
<1>2. Reserved(levels) \in Nat /\ AskLots(levels) \in Nat
  BY ReservedIs, LotsNat
<1>3. /\ b.quote_free + b.quote_locked - Reserved(levels) \in Nat
      /\ b.base_free + b.base_locked - AskLots(levels) \in Nat
  BY <1>1, <1>2
<1> DEFINE qf == Total(b).quote - Reserved(levels)
           ql == Reserved(levels)
           bl == SizeOf(SideLevels(levels, "Ask"))
           bf == Total(b).base - bl
<1>4. /\ qf = b.quote_free + b.quote_locked - Reserved(levels)
      /\ bf = b.base_free + b.base_locked - AskLots(levels) /\ bl = AskLots(levels)
  <2>1. bl = AskLots(levels)
    BY SizeOfAsks
  <2>2. Total(b).quote = b.quote_free + b.quote_locked /\ Total(b).base = b.base_free + b.base_locked
    BY DEF Total
  <2>3. qf = b.quote_free + b.quote_locked - Reserved(levels)
    BY <1>1, <1>2, <2>2
  <2>4. bf = b.base_free + b.base_locked - AskLots(levels)
    BY <1>1, <1>2, <2>1, <2>2
  <2> QED BY <2>1, <2>3, <2>4
<1>5. qf \in Nat /\ bf \in Nat /\ ql \in Nat /\ bl \in Nat
  BY <1>2, <1>3, <1>4
<1>6. Relocked(b, levels, seq) =
        [b EXCEPT !.levels = levels, !.seq = seq, !.quote_locked = ql, !.quote_free = qf,
                  !.base_locked = bl, !.base_free = bf]
  BY Zenon DEF Relocked
<1> HIDE DEF qf, bf, ql, bl
<1>7. Relocked(b, levels, seq) =
        [open |-> b.open, levels |-> levels, seq |-> seq, quote_free |-> qf, quote_locked |-> ql,
         base_free |-> bf, base_locked |-> bl]
  BY <1>6 DEF Account
<1>8. Relocked(b, levels, seq) \in Account
  BY <1>1, <1>5, <1>7 DEF Account
<1>9. ql = Reserved(levels)
  BY DEF ql
<1> QED
  BY <1>4, <1>7, <1>8, <1>9

\* What each instruction asks for.
LEMMA AcceptsIs ==
  ASSUME NEW s, NEW ix
  PROVE  /\ ix.name = "InitializeMakerBook" => (Accepts(s, ix) <=> ~s.book.open)
         /\ ix.name = "MakerDepositFunds" =>
              (Accepts(s, ix) <=> s.book.open /\ ix.base <= s.wallet.base /\ ix.quote <= s.wallet.quote)
         /\ ix.name = "UpdateBookLimit" =>
              (Accepts(s, ix) <=>
                 /\ s.book.open /\ SeqOk(s.book.seq, ix.seq)
                 /\ OpsMatch(s.book.levels, ix.ops)
                 /\ LB!WithinSides(LB!AfterOps(s.book.levels, ix.ops, Len(ix.ops)))
                 /\ ~LB!Crossed(LB!AfterOps(s.book.levels, ix.ops, Len(ix.ops)))
                 /\ Solvent(s.book, LB!AfterOps(s.book.levels, ix.ops, Len(ix.ops))))
         /\ ix.name = "ClearBook" => (Accepts(s, ix) <=> s.book.open /\ SeqOk(s.book.seq, ix.seq))
         /\ ix.name = "MakerWithdrawFunds" =>
              (Accepts(s, ix) <=>
                 s.book.open /\ ix.base <= s.book.base_free /\ ix.quote <= s.book.quote_free)
         /\ ix.name = "CloseMakerBook" =>
              (Accepts(s, ix) <=> s.book.open /\ Total(s.book) = [base |-> 0, quote |-> 0])
  BY DEF Accepts

\* What each does to the account.
LEMMA BookAfterIs ==
  ASSUME NEW b, NEW ix
  PROVE  /\ ix.name = "InitializeMakerBook" => BookAfter(b, ix) = [EmptyAccount EXCEPT !.open = TRUE]
         /\ ix.name = "MakerDepositFunds" =>
              BookAfter(b, ix) = [b EXCEPT !.base_free = b.base_free + ix.base,
                                           !.quote_free = b.quote_free + ix.quote]
         /\ ix.name = "UpdateBookLimit" =>
              BookAfter(b, ix) = Relocked(b, LB!AfterOps(b.levels, ix.ops, Len(ix.ops)), ix.seq)
         /\ ix.name = "ClearBook" => BookAfter(b, ix) = Relocked(b, LB!EmptyBook, ix.seq)
         /\ ix.name = "MakerWithdrawFunds" =>
              BookAfter(b, ix) = [b EXCEPT !.base_free = b.base_free - ix.base,
                                           !.quote_free = b.quote_free - ix.quote]
         /\ ix.name = "CloseMakerBook" => BookAfter(b, ix) = EmptyAccount
  BY DEF BookAfter

\* What each instruction does to the owner's token accounts.
LEMMA WalletAfterIs ==
  ASSUME NEW w, NEW ix
  PROVE  /\ ix.name = "MakerDepositFunds" =>
              WalletAfter(w, ix) = [base |-> w.base - ix.base, quote |-> w.quote - ix.quote]
         /\ ix.name = "MakerWithdrawFunds" =>
              WalletAfter(w, ix) = [base |-> w.base + ix.base, quote |-> w.quote + ix.quote]
         /\ ix.name \notin Moves => WalletAfter(w, ix) = w
  BY DEF WalletAfter, Moves

\* Whatever the program accepts leaves a book and a wallet in order, and locks
\* what the levels it writes ask for.
LEMMA InstructionKeeps ==
  ASSUME fee \in Fees, NEW s, s.wallet \in Wallet, BookOk(s.book), NEW ix \in Ix, Accepts(s, ix)
  PROVE  LET c == BookAfter(s.book, ix)
         IN  /\ BookOk(c) /\ WalletAfter(s.wallet, ix) \in Wallet
             /\ ix.name \notin Moves => c.quote_locked = Reserved(c.levels)
             /\ ix.name \in Moves => c.levels = s.book.levels /\ c.quote_locked = s.book.quote_locked
<1> DEFINE b == s.book
           w == s.wallet
           c == BookAfter(b, ix)
<1>1. b \in Account /\ w.base \in Nat /\ w.quote \in Nat
      /\ b.quote_free \in Nat /\ b.quote_locked \in Nat /\ b.base_free \in Nat /\ b.base_locked \in Nat
      /\ b.levels \in LB!Levels
  BY DEF BookOk, Account, Wallet
<1> SUFFICES /\ BookOk(c) /\ WalletAfter(w, ix) \in Wallet
             /\ ix.name \notin Moves => c.quote_locked = Reserved(c.levels)
             /\ ix.name \in Moves => c.levels = b.levels /\ c.quote_locked = b.quote_locked
  OBVIOUS
<1>2. CASE ix.name = "InitializeMakerBook"
  <2>1. c = [EmptyAccount EXCEPT !.open = TRUE]
    BY <1>2, BookAfterIs
  <2> HIDE DEF c
  <2>2. c = [open |-> TRUE, levels |-> LB!EmptyBook, seq |-> 0, quote_free |-> 0,
             quote_locked |-> 0, base_free |-> 0, base_locked |-> 0]
    BY <2>1 DEF EmptyAccount
  <2>3. c \in Account
    BY <2>2, EmptyBookType DEF Account
  <2>4. BookOk(c) /\ c.quote_locked = Reserved(c.levels)
    BY <2>2, <2>3, EmptyOk, EmptyLots DEF BookOk
  <2> QED BY <1>2, <2>4, WalletAfterIs DEF Moves
<1>3. CASE ix.name = "CloseMakerBook"
  <2>1. c = EmptyAccount
    BY <1>3, BookAfterIs
  <2> HIDE DEF c
  <2>2. c.quote_locked = 0 /\ c.levels = LB!EmptyBook
    BY <2>1 DEF EmptyAccount
  <2>3. BookOk(c) /\ c.quote_locked = Reserved(c.levels)
    BY <2>1, <2>2, EmptyOk
  <2> QED BY <1>3, <2>3, WalletAfterIs DEF Moves
<1>4. CASE ix.name = "MakerDepositFunds"
  <2>1. b.open /\ ix.base <= w.base /\ ix.quote <= w.quote
    BY <1>4, AcceptsIs
  <2>2. ix.base \in Nat /\ ix.quote \in Nat
    BY <1>4, IxFacts DEF Moves
  <2>3. c = [b EXCEPT !.base_free = b.base_free + ix.base, !.quote_free = b.quote_free + ix.quote]
    BY <1>4, BookAfterIs
  <2>4. WalletAfter(w, ix) = [base |-> w.base - ix.base, quote |-> w.quote - ix.quote]
    BY <1>4, WalletAfterIs
  <2> DEFINE x == b.base_free + ix.base
             y == b.quote_free + ix.quote
  <2>5. x \in Nat /\ y \in Nat /\ w.base - ix.base \in Nat /\ w.quote - ix.quote \in Nat
    BY <1>1, <2>1, <2>2
  <2>6. WalletAfter(w, ix) \in Wallet
    BY <2>4, <2>5 DEF Wallet
  <2> HIDE DEF b, c, x, y
  <2>7. BookOk(b)
    BY DEF b
  <2>8. BookOk(c) /\ c.levels = b.levels /\ c.quote_locked = b.quote_locked
    <3>1. c = [b EXCEPT !.base_free = x, !.quote_free = y]
      BY <2>3 DEF x, y
    <3>2. /\ c \in Account /\ c.open = b.open /\ c.levels = b.levels
          /\ c.quote_locked = b.quote_locked /\ c.base_locked = b.base_locked
      BY <1>1, <2>5, <3>1 DEF Account
    <3> QED BY <2>1, <2>7, <3>2 DEF BookOk
  <2> QED BY <1>4, <2>6, <2>8 DEF Moves
<1>5. CASE ix.name = "MakerWithdrawFunds"
  <2>1. b.open /\ ix.base <= b.base_free /\ ix.quote <= b.quote_free
    BY <1>5, AcceptsIs
  <2>2. ix.base \in Nat /\ ix.quote \in Nat
    BY <1>5, IxFacts DEF Moves
  <2>3. c = [b EXCEPT !.base_free = b.base_free - ix.base, !.quote_free = b.quote_free - ix.quote]
    BY <1>5, BookAfterIs
  <2>4. WalletAfter(w, ix) = [base |-> w.base + ix.base, quote |-> w.quote + ix.quote]
    BY <1>5, WalletAfterIs
  <2> DEFINE x == b.base_free - ix.base
             y == b.quote_free - ix.quote
  <2>5. x \in Nat /\ y \in Nat /\ w.base + ix.base \in Nat /\ w.quote + ix.quote \in Nat
    BY <1>1, <2>1, <2>2
  <2>6. WalletAfter(w, ix) \in Wallet
    BY <2>4, <2>5 DEF Wallet
  <2> HIDE DEF b, c, x, y
  <2>7. BookOk(b)
    BY DEF b
  <2>8. BookOk(c) /\ c.levels = b.levels /\ c.quote_locked = b.quote_locked
    <3>1. c = [b EXCEPT !.base_free = x, !.quote_free = y]
      BY <2>3 DEF x, y
    <3>2. /\ c \in Account /\ c.open = b.open /\ c.levels = b.levels
          /\ c.quote_locked = b.quote_locked /\ c.base_locked = b.base_locked
      BY <1>1, <2>5, <3>1 DEF Account
    <3> QED BY <2>1, <2>7, <3>2 DEF BookOk
  <2> QED BY <1>5, <2>6, <2>8 DEF Moves
<1>6. ASSUME NEW levels \in LB!Levels, b.open, LB!WithinSides(levels), ~LB!Crossed(levels),
             ix.name \in Rewrites, ix.seq \in Nat,
             Reserved(levels) <= b.quote_free + b.quote_locked,
             AskLots(levels) <= b.base_free + b.base_locked,
             c = Relocked(b, levels, ix.seq)
      PROVE  /\ BookOk(c) /\ WalletAfter(w, ix) \in Wallet
             /\ ix.name \notin Moves => c.quote_locked = Reserved(c.levels)
             /\ ix.name \in Moves => c.levels = b.levels /\ c.quote_locked = b.quote_locked
  <2> HIDE DEF b, c
  <2>1. c \in Account /\ c = [open |-> b.open, levels |-> levels, seq |-> ix.seq,
               quote_free |-> b.quote_free + b.quote_locked - Reserved(levels),
               quote_locked |-> Reserved(levels),
               base_free |-> b.base_free + b.base_locked - AskLots(levels),
               base_locked |-> AskLots(levels)]
    BY <1>1, <1>6, RelockedIs
  <2>2. c.open /\ c.levels = levels /\ c.quote_locked = Reserved(levels) /\ c.base_locked = AskLots(levels)
    BY <2>1, <1>6
  <2>3. ix.name \notin Moves
    BY <1>6 DEF Moves, Rewrites
  <2>4. WalletAfter(w, ix) \in Wallet
    BY <2>3, WalletAfterIs
  <2>5. BookOk(c)
    BY <1>6, <2>1, <2>2 DEF BookOk
  <2> QED BY <2>2, <2>3, <2>4, <2>5
<1>7. CASE ix.name = "UpdateBookLimit"
  <2> DEFINE after == LB!AfterOps(b.levels, ix.ops, Len(ix.ops))
  <2>1. ix.seq \in Nat /\ ix.ops \in Seq(LB!LevelOp)
    BY <1>7, IxFacts
  <2>2. after \in LB!Levels
    BY <1>1, <2>1, AfterType
  <2>3. b.open /\ LB!WithinSides(after) /\ ~LB!Crossed(after) /\ Solvent(b, after)
    BY <1>7, AcceptsIs
  <2>4. c = Relocked(b, after, ix.seq)
    BY <1>7, BookAfterIs
  <2> HIDE DEF after, b, c
  <2>5. Reserved(after) <= b.quote_free + b.quote_locked /\ AskLots(after) <= b.base_free + b.base_locked
    BY <2>2, <2>3, SizeOfAsks DEF Solvent, Total
  <2>6. ix.name \in Rewrites
    BY <1>7 DEF Rewrites
  <2> QED BY <1>6, <2>1, <2>2, <2>3, <2>4, <2>5, <2>6
<1>8. CASE ix.name = "ClearBook"
  <2> DEFINE after == LB!EmptyBook
  <2>1. ix.seq \in Nat
    BY <1>8, IxFacts
  <2>2. after \in LB!Levels /\ LB!WithinSides(after) /\ ~LB!Crossed(after)
        /\ Reserved(after) = 0 /\ AskLots(after) = 0
    BY EmptyBookType, EmptyOk, EmptyLots
  <2>3. b.open
    BY <1>8, AcceptsIs
  <2>4. c = Relocked(b, after, ix.seq)
    BY <1>8, BookAfterIs
  <2> HIDE DEF after, b, c
  <2>5. Reserved(after) <= b.quote_free + b.quote_locked /\ AskLots(after) <= b.base_free + b.base_locked
    BY <1>1, <2>2
  <2>6. ix.name \in Rewrites
    BY <1>8 DEF Rewrites
  <2> QED BY <1>6, <2>1, <2>2, <2>3, <2>4, <2>5, <2>6
<1> HIDE DEF b, c, w
<1> QED
  BY <1>2, <1>3, <1>4, <1>5, <1>7, <1>8, IxFacts DEF Moves, Rewrites

\* The fields of the state between two instructions.
Shape(s) == s = [ok |-> s.ok, book |-> s.book, wallet |-> s.wallet]

\* A step goes on only from an accepted instruction.
LEMMA StepIs ==
  ASSUME NEW s, Shape(s), NEW ix
  PROVE  /\ Shape(RunStep(s, ix))
         /\ RunStep(s, ix).ok <=> (s.ok /\ Accepts(s, ix))
         /\ RunStep(s, ix).ok => /\ RunStep(s, ix).book = BookAfter(s.book, ix)
                                 /\ RunStep(s, ix).wallet = WalletAfter(s.wallet, ix)
<1>1. CASE s.ok /\ Accepts(s, ix)
  <2>1. RunStep(s, ix) = [ok |-> TRUE, book |-> BookAfter(s.book, ix), wallet |-> WalletAfter(s.wallet, ix)]
    BY <1>1 DEF RunStep
  <2> QED BY <1>1, <2>1 DEF Shape
<1>2. CASE ~(s.ok /\ Accepts(s, ix))
  <2>1. RunStep(s, ix) = [s EXCEPT !.ok = FALSE]
    BY <1>2 DEF RunStep
  <2>2. RunStep(s, ix) = [ok |-> FALSE, book |-> s.book, wallet |-> s.wallet]
    BY <2>1 DEF Shape
  <2> QED BY <1>2, <2>2 DEF Shape
<1> QED
  BY <1>1, <1>2

\* A book locks what its levels ask for, but for c lots.
Locks(b, c) == b.quote_locked + c >= Reserved(b.levels)

\* A transaction that lands leaves a book and a wallet in order; if it rewrites
\* the levels the new ones are fully locked, and if it does not no lot is
\* missing that was not missing before.
LEMMA RunKeeps ==
  ASSUME fee \in Fees, BookOk(book), wallet \in Wallet, NEW ixs \in Seq(Ix), Run(ixs).ok
  PROVE  /\ BookOk(Run(ixs).book) /\ Run(ixs).wallet \in Wallet
         /\ Relocks(ixs) => Locks(Run(ixs).book, 0)
         /\ \A c \in Nat : Locks(book, c) => Locks(Run(ixs).book, c)
<1> DEFINE n == Len(ixs)
<1>1. n \in Nat /\ DOMAIN ixs = 1..n /\ \A i \in 1..n : ixs[i] \in Ix
  OBVIOUS
<1>2. PICK g : /\ g[0] = Start
               /\ \A i \in 1..n : g[i] = RunStep(g[i - 1], ixs[i])
               /\ Run(ixs) = g[n]
  BY <1>1, RunIs
<1> HIDE DEF n
<1> DEFINE wrote(i) == \E j \in 1..i : ixs[j].name \in Rewrites
           P(i) == /\ Shape(g[i])
                   /\ g[i].ok => /\ BookOk(g[i].book) /\ g[i].wallet \in Wallet
                                 /\ wrote(i) => Locks(g[i].book, 0)
                                 /\ \A c \in Nat : Locks(book, c) => Locks(g[i].book, c)
           T == {i \in Nat : i <= n => P(i)}
<1>3. 0 \in T
  <2>1. g[0] = [ok |-> TRUE, book |-> book, wallet |-> wallet]
    BY <1>2 DEF Start
  <2>2. Shape(g[0]) /\ g[0].book = book /\ g[0].wallet = wallet
    BY <2>1 DEF Shape
  <2>3. ~wrote(0)
    OBVIOUS
  <2> HIDE DEF wrote
  <2> QED BY <2>2, <2>3
<1>4. ASSUME NEW k \in T PROVE k + 1 \in T
  <2> SUFFICES ASSUME k + 1 <= n PROVE P(k + 1)
    BY <1>4
  <2> DEFINE s == g[k]
             ix == ixs[k + 1]
             r == g[k + 1]
  <2>1. k \in Nat /\ k <= n /\ k + 1 \in 1..n
    BY <1>1, <1>4
  <2>2. P(k) /\ ix \in Ix
    BY <1>1, <1>4, <2>1
  <2>3. r = RunStep(s, ix)
    <3>1. (k + 1) - 1 = k
      BY <2>1
    <3> QED BY <1>2, <2>1, <3>1
  <2>4. wrote(k + 1) => wrote(k) \/ ix.name \in Rewrites
    <3> SUFFICES ASSUME NEW j \in 1..(k + 1), ixs[j].name \in Rewrites
                 PROVE  wrote(k) \/ ix.name \in Rewrites
      OBVIOUS
    <3>1. CASE j = k + 1
      BY <3>1
    <3>2. CASE j # k + 1
      <4>1. j \in 1..k
        BY <2>1, <3>2
      <4> QED BY <4>1
    <3> QED BY <3>1, <3>2
  <2>5. /\ Shape(s)
        /\ s.ok => /\ BookOk(s.book) /\ s.wallet \in Wallet
                   /\ wrote(k) => Locks(s.book, 0)
                   /\ \A c \in Nat : Locks(book, c) => Locks(s.book, c)
    BY <2>2
  <2> HIDE DEF s, ix, r, wrote
  <2>6. /\ Shape(r)
        /\ r.ok => (s.ok /\ Accepts(s, ix))
        /\ r.ok => r.book = BookAfter(s.book, ix) /\ r.wallet = WalletAfter(s.wallet, ix)
    BY <2>3, <2>5, StepIs
  <2>7. ASSUME r.ok
        PROVE  /\ BookOk(r.book) /\ r.wallet \in Wallet
               /\ wrote(k + 1) => Locks(r.book, 0)
               /\ \A c \in Nat : Locks(book, c) => Locks(r.book, c)
    <3>1. BookOk(s.book) /\ s.wallet \in Wallet /\ Accepts(s, ix)
      BY <2>5, <2>6, <2>7
    <3>2. /\ BookOk(r.book) /\ r.wallet \in Wallet
          /\ ix.name \notin Moves => r.book.quote_locked = Reserved(r.book.levels)
          /\ ix.name \in Moves => /\ r.book.levels = s.book.levels
                                  /\ r.book.quote_locked = s.book.quote_locked
      BY <2>2, <2>6, <2>7, <3>1, InstructionKeeps DEF ix
    <3>3. CASE ix.name \in Moves
      <4>1. ix.name \notin Rewrites
        BY <3>3 DEF Moves, Rewrites
      <4>2. \A c : Locks(s.book, c) <=> Locks(r.book, c)
        BY <3>2, <3>3 DEF Locks
      <4> QED BY <2>4, <2>5, <2>6, <2>7, <3>2, <4>1, <4>2
    <3>4. CASE ix.name \notin Moves
      <4>1. r.book.quote_locked \in Nat /\ Reserved(r.book.levels) \in Nat
        BY <3>2, ReservedIs DEF BookOk, Account
      <4>2. \A c \in Nat : Locks(r.book, c)
        BY <3>2, <3>4, <4>1 DEF Locks
      <4> QED BY <3>2, <4>2
    <3> QED BY <3>3, <3>4
  <2> QED BY <2>6, <2>7 DEF r
<1>5. T = Nat
  <2>1. T \in SUBSET Nat
    OBVIOUS
  <2> HIDE DEF T
  <2> QED BY <1>3, <1>4, <2>1, NatSetInduction
<1>6. P(n)
  BY <1>1, <1>5
<1>7. Relocks(ixs) => wrote(n)
  BY <1>1 DEF Relocks, Rewrites
<1> HIDE DEF wrote
<1> QED
  BY <1>2, <1>6, <1>7

-----------------------------------------------------------------------------
(* The inductive invariant *)

\* What a transaction r built on a snapshot b is: the builder's checks passed,
\* and its instructions are the builder's list.
TxOk(b, r) ==
  /\ r.ixs \in Seq(Ix)
  /\ r.kind = "place" =>
       /\ r.want \in OrderSets /\ r.fee \in Fees /\ r.pad \in Nat /\ LB!Resting(r.want) # {}
       /\ LET ops == LB!PlaceOps(ListOf(LB!Resting(r.want)), r.want)
          IN  /\ LB!PlacesOk(b.levels, ListOf(LB!Resting(r.want)), r.want)
              /\ ~LB!Crossed(LB!AfterOps(b.levels, ops, Len(ops)))
              /\ r.ixs = WriteIxs(b, Padded(RequiredCollateral(r.want, r.fee), r.pad), ops)
  /\ r.kind = "replace" =>
       /\ r.want \in OrderSets /\ r.fee \in Fees /\ LB!Resting(r.want) # {}
       /\ LB!DiffOk(b.levels, r.want, ListOf(LB!ToPlace(b.levels, r.want))) /\ ~LB!Crossed(r.want)
       /\ \E mode \in Modes :
            r.ixs = WriteIxs(b, RequiredCollateral(r.want, r.fee),
                      LB!DiffOps(b.levels, r.want, mode, ListOf(LB!ToCancel(b.levels, r.want)),
                        ListOf(LB!ToResize(b.levels, r.want)), ListOf(LB!ToPlace(b.levels, r.want))))
  /\ r.kind = "cancel" =>
       /\ r.fee \in Fees /\ r.pad \in Nat
       /\ \E S \in SUBSET Ids, mode \in Modes :
            /\ S # {} /\ S \subseteq LB!Resting(b.levels)
            /\ r.want = [id \in Ids |-> IF id \in S THEN b.levels[id] ELSE 0]
            /\ r.ixs = CancelIxs(b, LB!CancelOps(b.levels, ListOf(S), mode),
                         [RequiredCollateral(r.want, r.fee) EXCEPT !.quote = SaturatingSub(@, r.pad)])
  /\ r.kind = "close" => b.open

\* The book locks what its bids ask for under the market's fee, short of one
\* lot for each fill since it was written: the missing lots are why
\* DepositSuffices asks for a pad.
Inv ==
  /\ fee \in Fees /\ config \in Fees /\ steady \in BOOLEAN /\ opened \in Nat /\ fills \in Nat
  /\ pc \in [Tasks -> {"idle", "ready", "sent"}]
  /\ DOMAIN snap = Tasks /\ DOMAIN tx = Tasks
  /\ BookOk(book) /\ wallet \in Wallet
  /\ \A t \in Tasks : BookOk(snap[t])
  /\ steady => Locks(book, fills)
  /\ \A t \in Tasks : pc[t] = "sent" => TxOk(snap[t], tx[t])

\* append_deposit and append_withdraw emit at most one instruction.
LEMMA MoveType ==
  ASSUME NEW name \in Moves, NEW lots, lots.base \in Nat, lots.quote \in Nat
  PROVE  Move(name, lots) \in Seq(Ix)
<1> DEFINE ix == [name |-> name, base |-> lots.base, quote |-> lots.quote]
<1>1. ix \in Ix
  BY DEF Ix, Moves
<1>2. Move(name, lots) = <<>> \/ Move(name, lots) = <<ix>>
  BY DEF Move
<1> HIDE DEF ix
<1>3. <<>> \in Seq(Ix) /\ <<ix>> \in Seq(Ix)
  BY <1>1
<1> QED
  BY <1>2, <1>3, Zenon

\* An UpdateBookLimit is an instruction list.
LEMMA UpdateType ==
  ASSUME NEW b, b.seq \in Nat, NEW ops \in Seq(LB!LevelOp)
  PROVE  UpdateIx(b, ops) \in Seq(Ix)
<1> DEFINE ix == [name |-> "UpdateBookLimit", seq |-> b.seq + 1, ops |-> ops]
<1>1. ix \in Ix
  BY DEF Ix
<1>2. UpdateIx(b, ops) = <<ix>>
  BY DEF UpdateIx
<1> HIDE DEF ix
<1> QED
  BY <1>1, <1>2

\* So is a ClearBook.
LEMMA ClearType ==
  ASSUME NEW b, b.seq \in Nat
  PROVE  ClearIx(b) \in Seq(Ix)
<1> DEFINE ix == [name |-> "ClearBook", seq |-> b.seq + 1]
<1>1. ix \in Ix
  BY DEF Ix
<1>2. ClearIx(b) = <<ix>>
  BY DEF ClearIx
<1> HIDE DEF ix
<1> QED
  BY <1>1, <1>2

\* So is a deposit followed by a write.
LEMMA WriteType ==
  ASSUME NEW b, b.seq \in Nat, NEW ops \in Seq(LB!LevelOp),
         NEW lots, lots.base \in Nat, lots.quote \in Nat
  PROVE  WriteIxs(b, lots, ops) \in Seq(Ix)
<1> DEFINE ix == [name |-> "InitializeMakerBook"]
           i == IF b.open THEN <<>> ELSE <<ix>>
           m == Move("MakerDepositFunds", lots)
           u == IF ops = <<>> THEN <<>> ELSE UpdateIx(b, ops)
<1>1. ix \in Ix
  BY DEF Ix
<1> HIDE DEF ix
<1>2. i \in Seq(Ix)
  BY <1>1
<1>3. m \in Seq(Ix)
  BY MoveType DEF Moves
<1>4. u \in Seq(Ix)
  BY UpdateType
<1>5. WriteIxs(b, lots, ops) = i \o m \o u
  BY DEF WriteIxs, ix
<1> HIDE DEF i, m, u
<1> QED
  BY <1>2, <1>3, <1>4, <1>5

\* So are the teardowns of cancel_all and close.
LEMMA CloseType ==
  ASSUME NEW b, b.seq \in Nat, NEW lots, lots.base \in Nat, lots.quote \in Nat
  PROVE  CloseIxs(b, lots) \in Seq(Ix) /\ ClearIx(b) \o Move("MakerWithdrawFunds", lots) \in Seq(Ix)
<1> DEFINE ix == [name |-> "CloseMakerBook"]
           m == Move("MakerWithdrawFunds", lots)
           c == ClearIx(b)
<1>1. ix \in Ix
  BY DEF Ix
<1>2. m \in Seq(Ix) /\ c \in Seq(Ix)
  BY MoveType, ClearType DEF Moves
<1>3. CloseIxs(b, lots) = c \o m \o <<ix>>
  BY DEF CloseIxs
<1> HIDE DEF ix, m, c
<1>4. c \o m \in Seq(Ix) /\ c \o m \o <<ix>> \in Seq(Ix)
  BY <1>1, <1>2
<1> QED
  BY <1>3, <1>4 DEF m, c

\* Each builder's transaction is what its call promises.
LEMMA PlaceTx ==
  ASSUME Inv, NEW t \in Tasks, NEW want \in OrderSets, NEW deposits \in BOOLEAN, NEW pad \in Nat,
         BuildPlace(t, want, deposits, pad)
  PROVE  \E r : TxOk(snap[t], r) /\ Send(t, r)
<1> DEFINE b == snap[t]
           list == ListOf(LB!Resting(want))
           ops == LB!PlaceOps(list, want)
           lots == IF deposits THEN Padded(RequiredCollateral(want, config), pad) ELSE Nothing
           kind == IF deposits THEN "place" ELSE "bare"
           ixs == WriteIxs(b, lots, ops)
           r == [kind |-> kind, fee |-> config, want |-> want, pad |-> pad, ixs |-> ixs]
<1>1. /\ LB!Resting(want) # {} /\ LB!PlacesOk(b.levels, list, want)
      /\ ~LB!Crossed(LB!AfterOps(b.levels, ops, Len(ops))) /\ Send(t, r)
  BY DEF BuildPlace
<1>2. want \in LB!Levels /\ LB!Resting(want) \subseteq Ids
  BY OrderSetsType DEF LB!Resting
<1>3. ops \in Seq(LB!LevelOp)
  BY <1>2, PlaceNames DEF Names
<1>4. b.seq \in Nat /\ config \in Fees /\ config \in Int
  BY FundsAssumption, FeeAssumption DEF Inv, BookOk, Account
<1>5. lots.base \in Nat /\ lots.quote \in Nat
  <2> DEFINE q == RequiredCollateral(want, config)
  <2>1. q = [base |-> q.base, quote |-> q.quote] /\ q.base \in Nat /\ q.quote \in Nat
    BY <1>2, <1>4, CollateralAtMost
  <2> HIDE DEF q
  <2>2. Padded(q, pad).base \in Nat /\ Padded(q, pad).quote \in Nat
    BY <2>1 DEF Padded
  <2> QED BY <2>2 DEF Nothing, q
<1>6. ixs \in Seq(Ix)
  <2> HIDE DEF b, ops, lots
  <2> QED BY <1>3, <1>4, <1>5, WriteType
<1>7. kind = "place" => deposits
  OBVIOUS
<1>8. kind \notin {"replace", "cancel", "close"}
  OBVIOUS
<1>9. deposits => ixs = WriteIxs(b, Padded(RequiredCollateral(want, config), pad), ops)
  OBVIOUS
<1> HIDE DEF b, list, ops, lots, kind, ixs
<1>10. r.kind = kind /\ r.fee = config /\ r.want = want /\ r.pad = pad /\ r.ixs = ixs
  OBVIOUS
<1> HIDE DEF r
<1>11. TxOk(b, r)
  BY <1>1, <1>4, <1>6, <1>7, <1>8, <1>9, <1>10 DEF TxOk, list, ops
<1> QED
  BY <1>1, <1>11 DEF b

\* replace_all sends a transaction that its snapshot accounts for.
LEMMA ReplaceTx ==
  ASSUME Inv, NEW t \in Tasks, NEW want \in OrderSets, NEW mode \in Modes,
         BuildReplaceAll(t, want, mode)
  PROVE  \E r : TxOk(snap[t], r) /\ Send(t, r)
<1> DEFINE b == snap[t]
           from == b.levels
           places == ListOf(LB!ToPlace(from, want))
           ops == LB!DiffOps(from, want, mode, ListOf(LB!ToCancel(from, want)),
                             ListOf(LB!ToResize(from, want)), places)
           lots == RequiredCollateral(want, config)
           ixs == WriteIxs(b, lots, ops)
           r == [kind |-> "replace", fee |-> config, want |-> want, pad |-> 0, ixs |-> ixs]
<1>1. /\ LB!Resting(want) # {} /\ LB!DiffOk(from, want, places)
      /\ ~LB!Crossed(want) /\ Send(t, r)
  BY DEF BuildReplaceAll
<1>2. want \in LB!Levels /\ from \in LB!Levels
  BY OrderSetsType DEF Inv, BookOk, Account
<1>3. ops \in Seq(LB!LevelOp)
  BY <1>2, DiffNames DEF Names
<1>4. b.seq \in Nat /\ config \in Fees /\ config \in Int
  BY FundsAssumption, FeeAssumption DEF Inv, BookOk, Account
<1>5. lots.base \in Nat /\ lots.quote \in Nat
  BY <1>2, <1>4, CollateralAtMost
<1>6. ixs \in Seq(Ix)
  <2> HIDE DEF b, ops, lots
  <2> QED BY <1>3, <1>4, <1>5, WriteType
<1>7. r.kind = "replace" /\ r.fee = config /\ r.want = want /\ r.pad = 0 /\ r.ixs = ixs
  <2> HIDE DEF ixs
  <2> QED OBVIOUS
<1>8. ixs = WriteIxs(b, RequiredCollateral(want, config),
              LB!DiffOps(b.levels, want, mode, ListOf(LB!ToCancel(b.levels, want)),
                         ListOf(LB!ToResize(b.levels, want)), ListOf(LB!ToPlace(b.levels, want))))
  OBVIOUS
<1>9. LB!DiffOk(b.levels, want, ListOf(LB!ToPlace(b.levels, want)))
  BY <1>1
<1> HIDE DEF b, ops, lots, ixs, r
<1>10. TxOk(b, r)
  BY <1>1, <1>4, <1>6, <1>7, <1>8, <1>9 DEF TxOk
<1> QED
  BY <1>1, <1>10 DEF b

\* So does cancel.
LEMMA CancelTx ==
  ASSUME Inv, NEW t \in Tasks, NEW S \in SUBSET Ids, NEW mode \in Modes, NEW less \in Nat,
         BuildCancel(t, S, mode, less)
  PROVE  \E r : TxOk(snap[t], r) /\ Send(t, r)
<1> DEFINE b == snap[t]
           want == [id \in Ids |-> IF id \in S THEN b.levels[id] ELSE 0]
           req == RequiredCollateral(want, config)
           lots == [req EXCEPT !.quote = SaturatingSub(@, less)]
           ops == LB!CancelOps(b.levels, ListOf(S), mode)
           ixs == CancelIxs(b, ops, lots)
           r == [kind |-> "cancel", fee |-> config, want |-> want, pad |-> less, ixs |-> ixs]
<1>1. S # {} /\ S \subseteq LB!Resting(b.levels) /\ Send(t, r)
  BY DEF BuildCancel
<1>2. b.levels \in LB!Levels /\ want \in LB!Levels
  <2>1. b.levels \in LB!Levels
    BY DEF Inv, BookOk, Account
  <2> HIDE DEF b
  <2>2. 0 \in LB!Size
    BY FundsAssumption DEF LB!Size
  <2> QED BY <2>1, <2>2 DEF LB!Levels
<1>3. ops \in Seq(LB!LevelOp)
  <2> HIDE DEF b
  <2>1. LB!EmptyBook \in LB!Levels /\ \A id \in S : LB!EmptyBook[id] = 0
    BY EmptyBookType DEF LB!EmptyBook
  <2>2. Names(ops, S, LB!EmptyBook)
    BY <1>2, <2>1, CancelNames
  <2> QED BY <2>2 DEF Names
<1>4. b.seq \in Nat /\ config \in Fees /\ config \in Int
  BY FundsAssumption, FeeAssumption DEF Inv, BookOk, Account
<1>5. lots.base \in Nat /\ lots.quote \in Nat
  <2>1. req = [base |-> req.base, quote |-> req.quote] /\ req.base \in Nat /\ req.quote \in Nat
    BY <1>2, <1>4, CollateralAtMost
  <2> HIDE DEF req
  <2> QED BY <2>1 DEF SaturatingSub
<1>6. ixs \in Seq(Ix)
  <2> HIDE DEF b, ops, lots
  <2>1. UpdateIx(b, ops) \in Seq(Ix) /\ Move("MakerWithdrawFunds", lots) \in Seq(Ix)
    BY <1>3, <1>4, <1>5, UpdateType, MoveType DEF Moves
  <2> QED BY <2>1 DEF CancelIxs
<1>7. r.kind = "cancel" /\ r.fee = config /\ r.want = want /\ r.pad = less /\ r.ixs = ixs
  <2> HIDE DEF ixs, want
  <2> QED OBVIOUS
<1>8. ixs = CancelIxs(b, LB!CancelOps(b.levels, ListOf(S), mode),
              [RequiredCollateral(want, config) EXCEPT !.quote = SaturatingSub(@, less)])
  OBVIOUS
<1>9. want = [id \in Ids |-> IF id \in S THEN b.levels[id] ELSE 0]
  OBVIOUS
<1> HIDE DEF b, ops, lots, ixs, r, want, req
<1>10. TxOk(b, r)
  <2>1. r.ixs \in Seq(Ix) /\ r.fee \in Fees /\ r.pad \in Nat
    BY <1>4, <1>6, <1>7
  <2>2. r.want = [id \in Ids |-> IF id \in S THEN b.levels[id] ELSE 0]
    BY <1>7, <1>9, Zenon
  <2>3. r.ixs = CancelIxs(b, LB!CancelOps(b.levels, ListOf(S), mode),
              [RequiredCollateral(r.want, r.fee) EXCEPT !.quote = SaturatingSub(@, r.pad)])
    BY <1>7, <1>8, Zenon
  <2>4. r.kind # "place" /\ r.kind # "replace" /\ r.kind # "close"
    BY <1>7
  <2> QED BY <1>1, <2>1, <2>2, <2>3, <2>4, Zenon DEF TxOk
<1> QED
  BY <1>1, <1>10 DEF b

\* So do cancel_all and close.
LEMMA TeardownTx ==
  ASSUME Inv, NEW t \in Tasks, NEW lots \in Withdrawals(t),
         BuildCancelAll(t, lots) \/ BuildClose(t, lots)
  PROVE  \E r : TxOk(snap[t], r) /\ Send(t, r)
<1> DEFINE b == snap[t]
           all == ClearIx(b) \o Move("MakerWithdrawFunds", lots)
           close == CloseIxs(b, lots)
           ra == [kind |-> "cancel_all", ixs |-> all]
           rc == [kind |-> "close", ixs |-> close]
<1>1. lots.base \in Nat /\ lots.quote \in Nat /\ b.seq \in Nat
  BY WordAssumption DEF Withdrawals, Nothing, Total, Inv, BookOk, Account
<1>2. all \in Seq(Ix) /\ close \in Seq(Ix)
  <2> HIDE DEF b
  <2> QED BY <1>1, CloseType
<1>3. b.open /\ (Send(t, ra) \/ Send(t, rc))
  BY DEF BuildCancelAll, BuildClose
<1> HIDE DEF b, all, close
<1>4. ra.kind = "cancel_all" /\ ra.ixs = all /\ rc.kind = "close" /\ rc.ixs = close
  OBVIOUS
<1> HIDE DEF ra, rc
<1>5. TxOk(b, ra) /\ TxOk(b, rc)
  BY <1>2, <1>3, <1>4 DEF TxOk
<1> QED
  BY <1>3, <1>5 DEF b

\* Sending a built transaction keeps the invariant.
LEMMA SendKeeps ==
  ASSUME Inv, NEW t \in Tasks, NEW r, TxOk(snap[t], r), Send(t, r)
  PROVE  Inv'
<1>1. /\ pc' = [pc EXCEPT ![t] = "sent"] /\ tx' = [tx EXCEPT ![t] = r]
      /\ UNCHANGED <<book, wallet, fee, steady, opened, fills, config, snap>>
  BY DEF Send, chain
<1>2. /\ pc' \in [Tasks -> {"idle", "ready", "sent"}]
      /\ DOMAIN snap' = Tasks /\ DOMAIN tx' = Tasks
  BY <1>1 DEF Inv
<1>3. ASSUME NEW u \in Tasks, pc'[u] = "sent" PROVE TxOk(snap'[u], tx'[u])
  <2>1. CASE u = t
    <3>1. tx'[u] = r /\ snap'[u] = snap[t]
      BY <1>1, <2>1 DEF Inv
    <3> QED BY <3>1
  <2>2. CASE u # t
    <3>1. tx'[u] = tx[u] /\ snap'[u] = snap[u] /\ pc[u] = "sent"
      BY <1>1, <1>3, <2>2 DEF Inv
    <3> QED BY <3>1 DEF Inv
  <2> QED BY <2>1, <2>2
<1>4. (steady => Locks(book, fills))'
  BY <1>1 DEF Inv, Locks, Reserved
<1>5. /\ fee' \in Fees /\ config' \in Fees /\ steady' \in BOOLEAN /\ opened' \in Nat /\ fills' \in Nat
      /\ BookOk(book') /\ wallet' \in Wallet /\ \A u \in Tasks : BookOk(snap'[u])
  BY <1>1 DEF Inv
<1> QED
  BY <1>2, <1>3, <1>4, <1>5 DEF Inv

\* So does a call that ends.
LEMMA FinishKeeps ==
  ASSUME Inv, NEW t \in Tasks, Finish(t)
  PROVE  /\ pc' \in [Tasks -> {"idle", "ready", "sent"}]
         /\ DOMAIN snap' = Tasks /\ DOMAIN tx' = Tasks
         /\ \A u \in Tasks : BookOk(snap'[u])
         /\ \A u \in Tasks : pc'[u] = "sent" => TxOk(snap'[u], tx'[u])
<1>1. /\ pc' = [pc EXCEPT ![t] = "idle"] /\ snap' = [snap EXCEPT ![t] = EmptyAccount]
      /\ tx' = [tx EXCEPT ![t] = NoTx]
  BY DEF Finish
<1>2. /\ pc' \in [Tasks -> {"idle", "ready", "sent"}]
      /\ DOMAIN snap' = Tasks /\ DOMAIN tx' = Tasks
  BY <1>1 DEF Inv
<1>3. \A u \in Tasks : snap'[u] = IF u = t THEN EmptyAccount ELSE snap[u]
  BY <1>1 DEF Inv
<1>4. \A u \in Tasks : BookOk(snap'[u])
  BY <1>3, EmptyOk DEF Inv
<1>5. ASSUME NEW u \in Tasks, pc'[u] = "sent" PROVE TxOk(snap'[u], tx'[u])
  <2>1. u # t /\ pc[u] = "sent" /\ tx'[u] = tx[u]
    BY <1>1, <1>5 DEF Inv
  <2> QED BY <1>3, <2>1 DEF Inv
<1> QED
  BY <1>2, <1>4, <1>5

\* Nothing but the chain changed.
LEMMA CallsKept ==
  ASSUME Inv, UNCHANGED calls
  PROVE  /\ pc' \in [Tasks -> {"idle", "ready", "sent"}]
         /\ DOMAIN snap' = Tasks /\ DOMAIN tx' = Tasks
         /\ \A u \in Tasks : BookOk(snap'[u])
         /\ \A u \in Tasks : pc'[u] = "sent" => TxOk(snap'[u], tx'[u])
<1>1. pc' = pc /\ snap' = snap /\ tx' = tx
  BY DEF calls
<1> QED
  BY <1>1 DEF Inv

\* Reading the book keeps the invariant.
LEMMA ReadKeeps ==
  ASSUME Inv, NEW t \in Tasks, ReadBook(t)
  PROVE  Inv'
<1>1. /\ pc' = [pc EXCEPT ![t] = "ready"] /\ snap' = [snap EXCEPT ![t] = book] /\ tx' = tx
      /\ UNCHANGED <<book, wallet, fee, steady, opened, fills, config>>
  BY DEF ReadBook, chain
<1>2. /\ pc' \in [Tasks -> {"idle", "ready", "sent"}]
      /\ DOMAIN snap' = Tasks /\ DOMAIN tx' = Tasks
  BY <1>1 DEF Inv
<1>3. \A u \in Tasks : snap'[u] = IF u = t THEN book ELSE snap[u]
  BY <1>1 DEF Inv
<1>4. \A u \in Tasks : BookOk(snap'[u])
  BY <1>3 DEF Inv
<1>5. ASSUME NEW u \in Tasks, pc'[u] = "sent" PROVE TxOk(snap'[u], tx'[u])
  <2>1. u # t /\ pc[u] = "sent" /\ tx'[u] = tx[u]
    BY <1>1, <1>5 DEF Inv
  <2> QED BY <1>3, <2>1 DEF Inv
<1>6. (steady => Locks(book, fills))'
  BY <1>1 DEF Inv, Locks, Reserved
<1>7. /\ fee' \in Fees /\ config' \in Fees /\ steady' \in BOOLEAN /\ opened' \in Nat /\ fills' \in Nat
      /\ BookOk(book') /\ wallet' \in Wallet
  BY <1>1 DEF Inv
<1> QED
  BY <1>2, <1>4, <1>5, <1>6, <1>7 DEF Inv

\* Landing a transaction keeps it.
LEMMA LandKeeps ==
  ASSUME Inv, NEW t \in Tasks, Land(t)
  PROVE  Inv'
<1> DEFINE ixs == tx[t].ixs
           end == Run(ixs)
<1>1. /\ pc[t] = "sent" /\ end.ok /\ book' = end.book /\ wallet' = end.wallet
      /\ steady' = (steady \/ Relocks(ixs))
      /\ opened' \in {opened, opened + 1}
      /\ fills' = IF Relocks(ixs) THEN 0 ELSE fills
      /\ Finish(t) /\ fee' = fee /\ config' = config
  BY DEF Land
<1>2. ixs \in Seq(Ix) /\ fee \in Fees /\ BookOk(book) /\ wallet \in Wallet
  BY <1>1 DEF Inv, TxOk
<1>3. /\ BookOk(end.book) /\ end.wallet \in Wallet
      /\ Relocks(ixs) => Locks(end.book, 0)
      /\ \A c \in Nat : Locks(book, c) => Locks(end.book, c)
  <2> HIDE DEF ixs
  <2> QED BY <1>1, <1>2, RunKeeps
<1>4. /\ fee' \in Fees /\ config' \in Fees /\ steady' \in BOOLEAN /\ opened' \in Nat /\ fills' \in Nat
  <2>1. Relocks(ixs) \in BOOLEAN
    BY DEF Relocks
  <2> QED BY <1>1, <2>1 DEF Inv
<1> HIDE DEF ixs, end
<1>5. steady' => Locks(end.book, fills')
  <2>1. CASE Relocks(ixs)
    BY <1>1, <1>3, <2>1
  <2>2. CASE ~Relocks(ixs)
    BY <1>1, <1>3, <2>2 DEF Inv
  <2> QED BY <2>1, <2>2
<1>6. (steady => Locks(book, fills))'
  BY <1>1, <1>5 DEF Locks, Reserved
<1>7. BookOk(book') /\ wallet' \in Wallet
  BY <1>1, <1>3
<1> QED
  BY <1>1, <1>4, <1>6, <1>7, FinishKeeps DEF Inv

\* A fill of a bid keeps it.
LEMMA FillBidKeeps ==
  ASSUME Inv, NEW id \in Ids, NEW n \in 1..MaxSize, FillBid(id, n)
  PROVE  Inv'
<1> DEFINE b == book
           q == BaseToQuoteLots(TheMarket, n, id.price_ticks, "Ask")
           cost == q + CalculateFee(q, fee)
           c == [b.levels EXCEPT ![id] = b.levels[id] - n]
           ql == SaturatingSub(b.quote_locked, cost)
           qf == b.quote_free - SaturatingSub(cost, b.quote_locked)
           bf == b.base_free + n
<1>1. /\ id.side = "Bid" /\ n \in 1..b.levels[id] /\ cost <= Total(b).quote
      /\ fills' = fills + 1
      /\ UNCHANGED <<wallet, fee, steady, opened, config, calls>>
  BY DEF FillBid
<1>2. book' = [b EXCEPT !.levels = c, !.quote_locked = ql, !.quote_free = qf, !.base_free = bf]
  BY DEF FillBid
<1>3. /\ b \in Account /\ b.levels \in LB!Levels /\ b.quote_free \in Nat /\ b.quote_locked \in Nat
      /\ b.base_free \in Nat /\ b.base_locked = AskLots(b.levels) /\ b.base_locked \in Nat
      /\ b.open \in BOOLEAN /\ fee \in Fees /\ fills \in Nat
  BY DEF Inv, BookOk, Account
<1>4. fee \in Int /\ fee <= PPM_DIVISOR
  BY <1>3, ReservedIs
<1>5. id \in BidIds /\ b.levels[id] \in Nat /\ n \in Nat /\ n <= b.levels[id]
  BY <1>1, <1>3, LevelsNat, FundsAssumption DEF BidIds
<1> DEFINE lv == b.levels
<1>6. /\ c \in LB!Levels /\ AskLots(c) = AskLots(lv) /\ q \in Nat /\ CalculateFee(q, fee) \in Int
      /\ BidLots(c) + FeeBuffer(BidLots(c), fee) + cost <= BidLots(lv) + FeeBuffer(BidLots(lv), fee) + 1
  <2> HIDE DEF b
  <2> QED BY <1>3, <1>4, <1>5, FillBidLots
<1>7. cost \in Int /\ cost <= b.quote_free + b.quote_locked
  <2>1. Total(b).quote = b.quote_free + b.quote_locked
    BY DEF Total
  <2> QED BY <1>1, <1>6, <2>1
<1>8. Reserved(c) \in Nat /\ Reserved(lv) \in Nat /\ Reserved(c) + cost <= Reserved(lv) + 1
  <2> HIDE DEF c, lv, cost
  <2>1. /\ Reserved(c) = BidLots(c) + FeeBuffer(BidLots(c), fee) /\ Reserved(c) \in Nat
        /\ Reserved(lv) = BidLots(lv) + FeeBuffer(BidLots(lv), fee) /\ Reserved(lv) \in Nat
    BY <1>3, <1>6, ReservedIs DEF lv
  <2> QED BY <1>6, <2>1
<1>9. ql \in Nat /\ qf \in Nat /\ bf \in Nat
  <2> HIDE DEF cost
  <2> QED BY <1>3, <1>5, <1>7 DEF SaturatingSub
<1>10. ASSUME steady PROVE ql + (fills + 1) >= Reserved(c)
  <2>1. b.quote_locked + fills >= Reserved(lv)
    BY <1>10 DEF Inv, Locks
  <2> HIDE DEF cost, c, lv, b
  <2> QED BY <1>3, <1>7, <1>8, <2>1 DEF SaturatingSub
<1>11. LB!Resting(c) \subseteq LB!Resting(lv)
  <2>1. \A i \in Ids : c[i] > 0 => lv[i] > 0
    BY <1>3, <1>5, LevelsNat DEF LB!Levels
  <2> HIDE DEF c, lv
  <2> QED BY <2>1 DEF LB!Resting
<1>12. LB!WithinSides(c) /\ ~LB!Crossed(c)
  <2>1. LB!WithinSides(lv) /\ ~LB!Crossed(lv)
    BY DEF Inv, BookOk
  <2> HIDE DEF c, lv
  <2> QED BY <1>11, <2>1, FewerOrders
<1>13. b.open
  <2> SUFFICES ASSUME ~b.open PROVE FALSE
    OBVIOUS
  <2>1. b.levels[id] = 0
    BY DEF Inv, BookOk, EmptyAccount, LB!EmptyBook
  <2> QED BY <1>5, <1>1, <2>1
<1> HIDE DEF b, c, ql, qf, bf, cost, lv
<1>14. /\ book' \in Account /\ book'.open = b.open /\ book'.levels = c
       /\ book'.quote_locked = ql /\ book'.base_locked = b.base_locked
  BY <1>2, <1>3, <1>6, <1>9 DEF Account
<1>15. BookOk(book')
  BY <1>3, <1>6, <1>12, <1>13, <1>14 DEF BookOk, lv
<1>16. (steady => Locks(book, fills))'
  BY <1>1, <1>10, <1>14 DEF Locks, Reserved
<1>17. /\ fee' \in Fees /\ config' \in Fees /\ steady' \in BOOLEAN /\ opened' \in Nat /\ fills' \in Nat
       /\ wallet' \in Wallet /\ UNCHANGED calls
  BY <1>1 DEF Inv
<1> QED
  BY <1>15, <1>16, <1>17, CallsKept DEF Inv

\* A fill of an ask keeps it.
LEMMA FillAskKeeps ==
  ASSUME Inv, NEW id \in Ids, NEW n \in 1..MaxSize, FillAsk(id, n)
  PROVE  Inv'
<1> DEFINE b == book
           q == BaseToQuoteLots(TheMarket, n, id.price_ticks, "Bid")
           c == [b.levels EXCEPT ![id] = b.levels[id] - n]
           bl == b.base_locked - n
           qf == b.quote_free + q - CalculateFee(q, fee)
<1>1. /\ id.side = "Ask" /\ n \in 1..b.levels[id]
      /\ UNCHANGED <<wallet, fee, steady, opened, fills, config, calls>>
  BY DEF FillAsk
<1>2. book' = [b EXCEPT !.levels = c, !.base_locked = bl, !.quote_free = qf]
  BY DEF FillAsk
<1>3. /\ b \in Account /\ b.levels \in LB!Levels /\ b.quote_free \in Nat /\ b.quote_locked \in Nat
      /\ b.base_free \in Nat /\ b.base_locked = AskLots(b.levels) /\ b.base_locked \in Nat
      /\ b.open \in BOOLEAN /\ fee \in Fees /\ fills \in Nat
  BY DEF Inv, BookOk, Account
<1>4. fee \in Int /\ fee <= PPM_DIVISOR
  BY <1>3, ReservedIs
<1>5. id \in AskIds /\ b.levels[id] \in Nat /\ n \in Nat /\ n <= b.levels[id] /\ id.price_ticks \in Nat
  BY <1>1, <1>3, LevelsNat, FundsAssumption, IdFacts DEF AskIds
<1> DEFINE lv == b.levels
<1>6. /\ c \in LB!Levels /\ BidLots(c) = BidLots(lv)
      /\ n <= AskLots(lv) /\ AskLots(c) = AskLots(lv) - n
  <2> HIDE DEF b
  <2> QED BY <1>3, <1>5, FillAskLots
<1>7. q \in Nat
  BY <1>5, BookAssumption, MatchLotsNat
<1> HIDE DEF q
<1>8. CalculateFee(q, fee) \in Int /\ CalculateFee(q, fee) <= q
  BY <1>4, <1>7, FeeAtMost
<1>9. bl \in Nat /\ qf \in Nat /\ bl = AskLots(c)
  BY <1>3, <1>5, <1>6, <1>7, <1>8
<1>10. LB!Resting(c) \subseteq LB!Resting(lv)
  <2>1. \A i \in Ids : c[i] > 0 => lv[i] > 0
    BY <1>3, <1>5, LevelsNat DEF LB!Levels
  <2> HIDE DEF c, lv
  <2> QED BY <2>1 DEF LB!Resting
<1>11. LB!WithinSides(c) /\ ~LB!Crossed(c)
  <2>1. LB!WithinSides(lv) /\ ~LB!Crossed(lv)
    BY DEF Inv, BookOk
  <2> HIDE DEF c, lv
  <2> QED BY <1>10, <2>1, FewerOrders
<1>12. b.open
  <2> SUFFICES ASSUME ~b.open PROVE FALSE
    OBVIOUS
  <2>1. b.levels[id] = 0
    BY DEF Inv, BookOk, EmptyAccount, LB!EmptyBook
  <2> QED BY <1>5, <1>1, <2>1
<1>13. steady => Locks(b, fills)
  BY DEF Inv
<1> HIDE DEF b, c, bl, qf, lv
<1>14. Reserved(c) = Reserved(lv)
  BY <1>3, <1>6, ReservedIs DEF lv
<1>15. /\ book' \in Account /\ book'.open = b.open /\ book'.levels = c
       /\ book'.quote_locked = b.quote_locked /\ book'.base_locked = bl
  BY <1>2, <1>3, <1>6, <1>9 DEF Account
<1>16. BookOk(book')
  BY <1>9, <1>11, <1>12, <1>15 DEF BookOk
<1>17. (steady => Locks(book, fills))'
  <2>1. steady => b.quote_locked + fills >= Reserved(c)
    BY <1>13, <1>14 DEF Locks, lv
  <2> QED BY <1>1, <1>15, <2>1 DEF Locks, Reserved
<1>18. /\ fee' \in Fees /\ config' \in Fees /\ steady' \in BOOLEAN /\ opened' \in Nat /\ fills' \in Nat
       /\ wallet' \in Wallet /\ UNCHANGED calls
  BY <1>1 DEF Inv
<1> QED
  BY <1>16, <1>17, <1>18, CallsKept DEF Inv

\* The market authority and the cache: the book keeps what it had.
LEMMA FeeKeeps ==
  ASSUME Inv, (\E f \in Fees : ChangeFee(f)) \/ RefreshConfig
  PROVE  Inv'
<1>1. CASE \E f \in Fees : ChangeFee(f)
  <2>1. PICK f \in Fees : ChangeFee(f)
    BY <1>1
  <2>2. /\ fee' = f /\ steady' = FALSE
        /\ UNCHANGED <<book, wallet, opened, fills, config, calls>>
    BY <2>1 DEF ChangeFee
  <2>3. /\ fee' \in Fees /\ config' \in Fees /\ steady' \in BOOLEAN /\ opened' \in Nat /\ fills' \in Nat
        /\ wallet' \in Wallet /\ BookOk(book') /\ UNCHANGED calls /\ (steady => Locks(book, fills))'
    BY <2>2 DEF Inv
  <2> QED BY <2>3, CallsKept DEF Inv
<1>2. CASE RefreshConfig
  <2>1. config' = fee /\ UNCHANGED <<book, wallet, fee, steady, opened, fills, calls>>
    BY <1>2 DEF RefreshConfig, chain
  <2>2. (steady => Locks(book, fills))'
    BY <2>1 DEF Inv, Locks, Reserved
  <2>3. /\ fee' \in Fees /\ config' \in Fees /\ steady' \in BOOLEAN /\ opened' \in Nat /\ fills' \in Nat
        /\ wallet' \in Wallet /\ BookOk(book') /\ UNCHANGED calls
    BY <2>1 DEF Inv
  <2> QED BY <2>2, <2>3, CallsKept DEF Inv
<1> QED
  BY <1>1, <1>2

\* Giving up a call keeps it.
LEMMA GiveUpKeeps ==
  ASSUME Inv, NEW t \in Tasks, GiveUp(t)
  PROVE  Inv'
<1>1. Finish(t) /\ UNCHANGED <<book, wallet, fee, steady, opened, fills, config>>
  BY DEF GiveUp, chain
<1>2. (steady => Locks(book, fills))'
  BY <1>1 DEF Inv, Locks, Reserved
<1>3. /\ fee' \in Fees /\ config' \in Fees /\ steady' \in BOOLEAN /\ opened' \in Nat /\ fills' \in Nat
      /\ wallet' \in Wallet /\ BookOk(book')
  BY <1>1 DEF Inv
<1> QED
  BY <1>1, <1>2, <1>3, FinishKeeps DEF Inv

\* Inv holds at the start.
LEMMA InitInv ==
  ASSUME Init
  PROVE  Inv
<1>1. /\ book = EmptyAccount /\ wallet = [base |-> WalletBase, quote |-> WalletQuote]
      /\ fee \in Fees /\ config = fee /\ pc = [t \in Tasks |-> "idle"]
      /\ snap = [t \in Tasks |-> EmptyAccount] /\ tx = [t \in Tasks |-> NoTx]
      /\ steady = TRUE /\ opened = 0 /\ fills = 0
  BY DEF Init
<1>2. EmptyAccount.quote_locked = 0 /\ EmptyAccount.levels = LB!EmptyBook
  BY DEF EmptyAccount
<1>3. Locks(book, fills)
  BY <1>1, <1>2, EmptyOk DEF Locks
<1>4. wallet \in Wallet /\ BookOk(book) /\ \A t \in Tasks : BookOk(snap[t])
  BY <1>1, EmptyOk, FundsAssumption DEF Wallet
<1>5. /\ pc \in [Tasks -> {"idle", "ready", "sent"}] /\ DOMAIN snap = Tasks /\ DOMAIN tx = Tasks
      /\ \A t \in Tasks : pc[t] # "sent"
  BY <1>1
<1> QED
  BY <1>1, <1>3, <1>4, <1>5 DEF Inv

\* Every step keeps it.
LEMMA NextInv ==
  ASSUME Inv, [Next]_vars
  PROVE  Inv'
<1>1. ASSUME NEW t \in Tasks,
             \/ ReadBook(t) \/ Land(t) \/ GiveUp(t)
             \/ \E want \in OrderSets, pad \in Pads : BuildPlace(t, want, TRUE, pad)
             \/ \E want \in OrderSets : BuildPlace(t, want, FALSE, 0)
             \/ \E want \in OrderSets, mode \in Modes : BuildReplaceAll(t, want, mode)
             \/ \E S \in SUBSET Ids, mode \in Modes, less \in Pads : BuildCancel(t, S, mode, less)
             \/ \E lots \in Withdrawals(t) : BuildCancelAll(t, lots) \/ BuildClose(t, lots)
      PROVE  Inv'
  <2>1. CASE ReadBook(t)
    BY <2>1, ReadKeeps
  <2>2. CASE Land(t)
    BY <2>2, LandKeeps
  <2>3. CASE GiveUp(t)
    BY <2>3, GiveUpKeeps
  <2>4. CASE \E want \in OrderSets, pad \in Pads : BuildPlace(t, want, TRUE, pad)
    <3>1. PICK want \in OrderSets, pad \in Nat : BuildPlace(t, want, TRUE, pad)
      BY <2>4, FundsAssumption
    <3>2. \E r : TxOk(snap[t], r) /\ Send(t, r)
      BY <3>1, PlaceTx
    <3> QED BY <3>2, SendKeeps
  <2>5. CASE \E want \in OrderSets : BuildPlace(t, want, FALSE, 0)
    <3>1. PICK want \in OrderSets : BuildPlace(t, want, FALSE, 0)
      BY <2>5
    <3>2. \E r : TxOk(snap[t], r) /\ Send(t, r)
      BY <3>1, PlaceTx
    <3> QED BY <3>2, SendKeeps
  <2>6. CASE \E want \in OrderSets, mode \in Modes : BuildReplaceAll(t, want, mode)
    <3>1. \E r : TxOk(snap[t], r) /\ Send(t, r)
      BY <2>6, ReplaceTx
    <3> QED BY <3>1, SendKeeps
  <2>7. CASE \E S \in SUBSET Ids, mode \in Modes, less \in Pads : BuildCancel(t, S, mode, less)
    <3>1. PICK S \in SUBSET Ids, mode \in Modes, less \in Nat : BuildCancel(t, S, mode, less)
      BY <2>7, FundsAssumption
    <3>2. \E r : TxOk(snap[t], r) /\ Send(t, r)
      BY <3>1, CancelTx
    <3> QED BY <3>2, SendKeeps
  <2>8. CASE \E lots \in Withdrawals(t) : BuildCancelAll(t, lots) \/ BuildClose(t, lots)
    <3>1. \E r : TxOk(snap[t], r) /\ Send(t, r)
      BY <2>8, TeardownTx
    <3> QED BY <3>1, SendKeeps
  <2> QED BY <1>1, <2>1, <2>2, <2>3, <2>4, <2>5, <2>6, <2>7, <2>8
<1>2. CASE \E id \in Ids, n \in 1..MaxSize : FillBid(id, n) \/ FillAsk(id, n)
  BY <1>2, FillBidKeeps, FillAskKeeps
<1>3. CASE (\E f \in Fees : ChangeFee(f)) \/ RefreshConfig
  BY <1>3, FeeKeeps
<1>4. CASE UNCHANGED vars
  <2>1. UNCHANGED <<book, wallet, fee, steady, opened, fills, config, calls>>
    BY <1>4 DEF vars, chain
  <2>2. (steady => Locks(book, fills))'
    BY <2>1 DEF Inv, Locks, Reserved
  <2>3. /\ fee' \in Fees /\ config' \in Fees /\ steady' \in BOOLEAN /\ opened' \in Nat /\ fills' \in Nat
        /\ wallet' \in Wallet /\ BookOk(book')
    BY <2>1 DEF Inv
  <2> QED BY <2>1, <2>2, <2>3, CallsKept DEF Inv
<1> QED
  BY <1>1, <1>2, <1>3, <1>4 DEF Next

\* The inductive invariant holds in every reachable state.
THEOREM Invariance == Spec => []Inv
<1>1. Init => Inv
  BY InitInv
<1>2. Inv /\ [Next]_vars => Inv'
  BY NextInv
<1> QED
  BY <1>1, <1>2, PTL DEF Spec

\* No deposit, withdrawal, rewrite, fill or fee takes a balance of the book or
\* the wallet below zero.
THEOREM TypeCorrect == Spec => []TypeOK
<1>1. Inv => TypeOK
  BY DEF Inv, TypeOK, BookOk, Account, Wallet
<1> QED
  BY <1>1, Invariance, PTL

-----------------------------------------------------------------------------
(* Transactions of up to three instructions *)

\* Run of a short list, unfolded.
LEMMA RunShort ==
  ASSUME NEW l
  PROVE  /\ Len(l) = 1 => Run(l) = RunStep(Start, l[1])
         /\ Len(l) = 2 => Run(l) = RunStep(RunStep(Start, l[1]), l[2])
         /\ Len(l) = 3 => Run(l) = RunStep(RunStep(RunStep(Start, l[1]), l[2]), l[3])
<1> DEFINE n == Len(l)
<1> SUFFICES ASSUME n \in {1, 2, 3}
             PROVE  /\ n = 1 => Run(l) = RunStep(Start, l[1])
                    /\ n = 2 => Run(l) = RunStep(RunStep(Start, l[1]), l[2])
                    /\ n = 3 => Run(l) = RunStep(RunStep(RunStep(Start, l[1]), l[2]), l[3])
  OBVIOUS
<1>1. PICK g : /\ g[0] = Start
               /\ \A i \in 1..n : g[i] = RunStep(g[i - 1], l[i])
               /\ Run(l) = g[n]
  BY RunIs
<1> HIDE DEF n
<1>2. 1 - 1 = 0 /\ 2 - 1 = 1 /\ 3 - 1 = 2
  OBVIOUS
<1>3. g[1] = RunStep(Start, l[1])
  BY <1>1, <1>2
<1>4. n \in {2, 3} => g[2] = RunStep(g[1], l[2])
  BY <1>1, <1>2
<1>5. n = 3 => g[3] = RunStep(g[2], l[3])
  BY <1>1, <1>2
<1> QED
  BY <1>1, <1>3, <1>4, <1>5

\* Lists of up to three instructions, put together.
LEMMA ConcatShort ==
  ASSUME NEW x, NEW y, NEW z
  PROVE  /\ <<x>> \o <<>> = <<x>> /\ <<>> \o <<x>> = <<x>>
         /\ Len(<<x>>) = 1 /\ <<x>>[1] = x
         /\ LET l == <<x>> \o <<y>> IN Len(l) = 2 /\ l[1] = x /\ l[2] = y
         /\ LET l == <<x>> \o <<y>> \o <<z>> IN Len(l) = 3 /\ l[1] = x /\ l[2] = y /\ l[3] = z
  OBVIOUS

\* Where a transaction starts.
LEMMA StartIs == Shape(Start) /\ Start.ok /\ Start.book = book /\ Start.wallet = wallet
  BY DEF Start, Shape

\* A ClearBook one number on from what was read is accepted on an unchanged
\* book, and frees every lot.
LEMMA ClearLands ==
  ASSUME Inv, book.open, NEW ix, ix = [name |-> "ClearBook", seq |-> book.seq + 1]
  PROVE  LET s == RunStep(Start, ix)
         IN  /\ s.ok /\ Shape(s) /\ s.book \in Account /\ s.book.open
             /\ s.book.quote_locked = 0 /\ s.book.base_locked = 0
             /\ s.book.quote_free = book.quote_free + book.quote_locked
             /\ s.book.base_free = book.base_free + book.base_locked
<1> DEFINE s == RunStep(Start, ix)
<1>1. /\ book \in Account /\ book.seq \in Nat /\ book.quote_free \in Nat /\ book.quote_locked \in Nat
      /\ book.base_free \in Nat /\ book.base_locked \in Nat /\ fee \in Fees
  BY DEF Inv, BookOk, Account
<1>2. ix.name = "ClearBook" /\ ix.seq = book.seq + 1
  OBVIOUS
<1>3. SeqOk(book.seq, ix.seq)
  BY <1>1, <1>2, FundsAssumption DEF SeqOk
<1>4. Accepts(Start, ix)
  BY <1>2, <1>3, StartIs, AcceptsIs
<1>5. s.ok /\ Shape(s) /\ s.book = BookAfter(book, ix)
  BY <1>4, StartIs, StepIs
<1>6. BookAfter(book, ix) = Relocked(book, LB!EmptyBook, ix.seq)
  BY <1>2 DEF BookAfter
<1>7. Reserved(LB!EmptyBook) = 0 /\ AskLots(LB!EmptyBook) = 0 /\ LB!EmptyBook \in LB!Levels
  BY <1>1, EmptyOk, EmptyLots, EmptyBookType
<1>8. ix.seq \in Nat
  BY <1>1, <1>2
<1>9. /\ Relocked(book, LB!EmptyBook, ix.seq) \in Account
      /\ Relocked(book, LB!EmptyBook, ix.seq) =
           [open |-> book.open, levels |-> LB!EmptyBook, seq |-> ix.seq,
            quote_free |-> book.quote_free + book.quote_locked - Reserved(LB!EmptyBook),
            quote_locked |-> Reserved(LB!EmptyBook),
            base_free |-> book.base_free + book.base_locked - AskLots(LB!EmptyBook),
            base_locked |-> AskLots(LB!EmptyBook)]
  <2>1. Reserved(LB!EmptyBook) <= book.quote_free + book.quote_locked
        /\ AskLots(LB!EmptyBook) <= book.base_free + book.base_locked
    BY <1>1, <1>7
  <2> QED BY <1>1, <1>7, <1>8, <2>1, RelockedIs
<1> HIDE DEF s
<1>10. /\ s.book \in Account /\ s.book.open /\ s.book.quote_locked = 0 /\ s.book.base_locked = 0
       /\ s.book.quote_free = book.quote_free + book.quote_locked
       /\ s.book.base_free = book.base_free + book.base_locked
  BY <1>1, <1>5, <1>6, <1>7, <1>9
<1> QED
  BY <1>5, <1>10 DEF s

\* A fresh close of the whole balance lands, in any state of the invariant.
LEMMA CloseLandsInv ==
  ASSUME Inv, NEW t \in Tasks, pc[t] = "sent", tx[t].kind = "close", book = snap[t],
         tx[t].ixs = CloseIxs(snap[t], Total(snap[t]))
  PROVE  Run(tx[t].ixs).ok
<1> DEFINE lots == Total(book)
           clear == [name |-> "ClearBook", seq |-> book.seq + 1]
           move == [name |-> "MakerWithdrawFunds", base |-> lots.base, quote |-> lots.quote]
           close == [name |-> "CloseMakerBook"]
           s1 == RunStep(Start, clear)
<1>1. book.open
  BY DEF Inv, TxOk
<1>2. lots.base = book.base_free + book.base_locked /\ lots.quote = book.quote_free + book.quote_locked
  BY DEF Total
<1>3. /\ book.quote_free \in Nat /\ book.quote_locked \in Nat
      /\ book.base_free \in Nat /\ book.base_locked \in Nat
  BY DEF Inv, BookOk, Account
<1>4. lots.base \in Nat /\ lots.quote \in Nat
  BY <1>2, <1>3
<1>5. /\ s1.ok /\ Shape(s1) /\ s1.book \in Account /\ s1.book.open
      /\ s1.book.quote_locked = 0 /\ s1.book.base_locked = 0
      /\ s1.book.quote_free = lots.quote /\ s1.book.base_free = lots.base
  BY <1>1, <1>2, ClearLands
<1>6. move.name = "MakerWithdrawFunds" /\ move.base = lots.base /\ move.quote = lots.quote
      /\ close.name = "CloseMakerBook"
  OBVIOUS
<1>7. tx[t].ixs = ClearIx(book) \o Move("MakerWithdrawFunds", lots) \o <<close>>
  BY DEF CloseIxs
<1>8. ClearIx(book) = <<clear>>
  BY DEF ClearIx
<1>9. CASE lots.base = 0 /\ lots.quote = 0
  <2>1. Move("MakerWithdrawFunds", lots) = <<>>
    BY <1>9 DEF Move
  <2> HIDE DEF clear, close, lots
  <2>a. <<clear>> \o <<>> = <<clear>>
    BY ConcatShort
  <2>2. tx[t].ixs = <<clear>> \o <<close>>
    BY <1>7, <1>8, <2>1, <2>a, Zenon
  <2>3. Run(tx[t].ixs) = RunStep(s1, close)
    <3> DEFINE l == <<clear>> \o <<close>>
    <3>1. Len(l) = 2 /\ l[1] = clear /\ l[2] = close
      BY ConcatShort
    <3> HIDE DEF l
    <3> QED BY <2>2, <3>1, RunShort DEF l
  <2> HIDE DEF s1
  <2>4. Total(s1.book) = [base |-> 0, quote |-> 0]
    BY <1>5, <1>9 DEF Total
  <2>5. Accepts(s1, close)
    BY <1>5, <1>6, <2>4, AcceptsIs
  <2> QED BY <1>5, <2>3, <2>5, StepIs
<1>10. CASE ~(lots.base = 0 /\ lots.quote = 0)
  <2>1. Move("MakerWithdrawFunds", lots) = <<move>>
    BY <1>10 DEF Move
  <2> DEFINE s2 == RunStep(s1, move)
  <2> HIDE DEF clear, close, lots, move
  <2>2. tx[t].ixs = <<clear>> \o <<move>> \o <<close>>
    BY <1>7, <1>8, <2>1, Zenon
  <2>3. Run(tx[t].ixs) = RunStep(s2, close)
    <3> DEFINE l == <<clear>> \o <<move>> \o <<close>>
    <3>1. Len(l) = 3 /\ l[1] = clear /\ l[2] = move /\ l[3] = close
      BY ConcatShort
    <3> HIDE DEF l
    <3> QED BY <2>2, <3>1, RunShort DEF l
  <2> HIDE DEF s1
  <2>4. Accepts(s1, move)
    BY <1>4, <1>5, <1>6, AcceptsIs
  <2>5. s2.ok /\ Shape(s2) /\ s2.book = BookAfter(s1.book, move)
    BY <1>5, <2>4, StepIs
  <2>6. BookAfter(s1.book, move) = [s1.book EXCEPT !.base_free = s1.book.base_free - move.base,
                                                   !.quote_free = s1.book.quote_free - move.quote]
    BY <1>6, BookAfterIs
  <2>7. s1.book.base_free - move.base = 0 /\ s1.book.quote_free - move.quote = 0
    BY <1>4, <1>5, <1>6
  <2> HIDE DEF s2
  <2>8. s2.book = [s1.book EXCEPT !.base_free = 0, !.quote_free = 0]
    BY <2>5, <2>6, <2>7
  <2>9. /\ s2.book.open /\ s2.book.base_free = 0 /\ s2.book.quote_free = 0
        /\ s2.book.base_locked = 0 /\ s2.book.quote_locked = 0
    BY <1>5, <2>8 DEF Account
  <2>10. Total(s2.book) = [base |-> 0, quote |-> 0]
    BY <2>9 DEF Total
  <2>11. Accepts(s2, close)
    BY <1>6, <2>9, <2>10, AcceptsIs
  <2> QED BY <2>3, <2>5, <2>11, StepIs
<1> QED
  BY <1>9, <1>10

\* build_close_book: ClearBook frees every lot, the withdrawal takes them all
\* and CloseMakerBook finds none, whatever rested on the book.
THEOREM CloseLands == Spec => []FreshCloseLands
<1>1. Inv => FreshCloseLands
  BY CloseLandsInv DEF FreshCloseLands
<1> QED
  BY <1>1, Invariance, PTL

-----------------------------------------------------------------------------
(* Rewriting levels: UpdateBookLimit at the number after the book's *)

\* An UpdateBookLimit whose guards match, and whose levels the account can
\* back, is accepted, and leaves free what the new levels do not lock.
LEMMA UpdateLands ==
  ASSUME fee \in Fees, NEW s, Shape(s), s.ok, s.book \in Account, s.book.open,
         NEW ix, ix.name = "UpdateBookLimit", ix.seq = s.book.seq + 1,
         OpsMatch(s.book.levels, ix.ops),
         NEW levels \in LB!Levels, LB!AfterOps(s.book.levels, ix.ops, Len(ix.ops)) = levels,
         LB!WithinSides(levels), ~LB!Crossed(levels),
         Reserved(levels) <= s.book.quote_free + s.book.quote_locked,
         AskLots(levels) <= s.book.base_free + s.book.base_locked
  PROVE  LET u == RunStep(s, ix)
         IN  /\ u.ok /\ Shape(u) /\ u.book.open
             /\ u.book.quote_free = s.book.quote_free + s.book.quote_locked - Reserved(levels)
             /\ u.book.base_free = s.book.base_free + s.book.base_locked - AskLots(levels)
<1> DEFINE u == RunStep(s, ix)
<1>1. s.book.seq \in Nat /\ ix.seq \in Nat
  BY DEF Account
<1>2. SeqOk(s.book.seq, ix.seq)
  BY <1>1, FundsAssumption DEF SeqOk
<1>3. Total(s.book).quote = s.book.quote_free + s.book.quote_locked
      /\ Total(s.book).base = s.book.base_free + s.book.base_locked
  <2>1. /\ s.book.quote_free \in Nat /\ s.book.quote_locked \in Nat
        /\ s.book.base_free \in Nat /\ s.book.base_locked \in Nat
    BY DEF Account
  <2> QED BY <2>1 DEF Total
<1>4. Solvent(s.book, levels)
  BY <1>3, SizeOfAsks DEF Solvent
<1>5. Accepts(s, ix)
  BY <1>2, <1>4, AcceptsIs
<1>6. u.ok /\ Shape(u) /\ u.book = BookAfter(s.book, ix)
  BY <1>5, StepIs
<1>7. u.book = Relocked(s.book, levels, ix.seq)
  BY <1>6, BookAfterIs
<1>8. Relocked(s.book, levels, ix.seq) =
        [open |-> s.book.open, levels |-> levels, seq |-> ix.seq,
         quote_free |-> s.book.quote_free + s.book.quote_locked - Reserved(levels),
         quote_locked |-> Reserved(levels),
         base_free |-> s.book.base_free + s.book.base_locked - AskLots(levels),
         base_locked |-> AskLots(levels)]
  BY <1>1, RelockedIs
<1> HIDE DEF u
<1>9. /\ u.book.open
      /\ u.book.quote_free = s.book.quote_free + s.book.quote_locked - Reserved(levels)
      /\ u.book.base_free = s.book.base_free + s.book.base_locked - AskLots(levels)
  BY <1>7, <1>8
<1> QED
  BY <1>6, <1>9 DEF u

\* What cancelling part of the levels frees: the lots of the cancelled orders
\* under the fee they were locked for, but for one lot for each fill and one
\* for the rounding of the buffer.
LEMMA CancelFrees ==
  ASSUME Inv, steady, NEW a \in LB!Levels, NEW want \in LB!Levels, NEW f \in Int, f <= fee,
         NEW pad \in Nat, fills + 1 <= pad, pad <= RequiredCollateral(want, f).quote,
         \A id \in Ids : (a[id] = 0 /\ book.levels[id] = want[id])
                           \/ (want[id] = 0 /\ book.levels[id] = a[id])
  PROVE  /\ Reserved(a) <= book.quote_free + book.quote_locked
         /\ AskLots(a) <= book.base_free + book.base_locked
         /\ RequiredCollateral(want, f).quote - pad
              <= book.quote_free + book.quote_locked - Reserved(a)
         /\ RequiredCollateral(want, f).base
              <= book.base_free + book.base_locked - AskLots(a)
<1> DEFINE b == book.levels
           na == BidLots(a)
           nc == BidLots(want)
           m == Notional(want)
           q == RequiredCollateral(want, f).quote
           base == RequiredCollateral(want, f).base
<1>1. /\ b \in LB!Levels /\ fee \in Fees /\ fills \in Nat
      /\ book.quote_free \in Nat /\ book.quote_locked \in Nat
      /\ book.base_free \in Nat /\ book.base_locked \in Nat /\ book.base_locked = AskLots(b)
      /\ book.quote_locked + fills >= Reserved(b)
  BY DEF Inv, BookOk, Account, Locks
<1> HIDE DEF b
<1>2. BidLots(b) = na + nc /\ AskLots(b) = AskLots(a) + AskLots(want)
  <2>1. \A id \in Ids : (a[id] = 0 /\ b[id] = want[id]) \/ (want[id] = 0 /\ b[id] = a[id])
    BY DEF b
  <2> QED BY <1>1, <2>1, LotsAdd
<1>3. /\ na \in Nat /\ nc \in Nat /\ AskLots(a) \in Nat /\ AskLots(want) \in Nat
  BY LotsNat
<1>4. /\ fee \in Int /\ Reserved(b) = BidLots(b) + FeeBuffer(BidLots(b), fee)
      /\ Reserved(a) = na + FeeBuffer(na, fee)
  BY <1>1, ReservedIs
<1>5. /\ m \in Nat /\ m <= nc /\ q = m + FeeBuffer(m, f)
      /\ base \in Nat /\ base <= AskLots(want)
  BY CollateralAtMost
<1>6. /\ FeeBuffer(na, fee) \in Nat /\ FeeBuffer(nc, fee) \in Nat /\ FeeBuffer(na + nc, fee) \in Nat
      /\ FeeBuffer(na, fee) + FeeBuffer(nc, fee) <= FeeBuffer(na + nc, fee) + 1
  <2>1. na + nc \in Nat
    BY <1>3
  <2> HIDE DEF na, nc
  <2> QED BY <1>3, <1>4, <2>1, BufferFacts
<1>7. /\ FeeBuffer(m, f) \in Nat /\ FeeBuffer(m, f) <= FeeBuffer(m, fee)
      /\ FeeBuffer(m, fee) \in Nat /\ FeeBuffer(m, fee) <= FeeBuffer(nc, fee)
  BY <1>3, <1>4, <1>5, BufferFacts, BufferFeeMonotone
<1> DEFINE Ba == FeeBuffer(na, fee)
           Bc == FeeBuffer(nc, fee)
           Bn == FeeBuffer(na + nc, fee)
           Bm == FeeBuffer(m, f)
           Rb == Reserved(b)
           Ra == Reserved(a)
<1>8. Rb = na + nc + Bn /\ Ra = na + Ba /\ Ba + Bc <= Bn + 1 /\ Bm <= Bc
  BY <1>2, <1>4, <1>6, <1>7, <1>3
<1>9. Ba \in Nat /\ Bc \in Nat /\ Bn \in Nat /\ Bm \in Nat
  BY <1>6, <1>7
<1> HIDE DEF na, nc, m, q, base, Ba, Bc, Bn, Bm, Rb, Ra
<1>10. q <= nc + Bc
  BY <1>3, <1>5, <1>8, <1>9 DEF Bm
<1>11. book.quote_locked + fills >= Rb
  BY <1>1 DEF Rb
<1>12. q \in Nat
  BY <1>5, <1>7
<1>13. Ra + (nc + Bc) <= book.quote_locked + fills + 1
  BY <1>1, <1>3, <1>8, <1>9, <1>11
<1>14. pad <= q
  BY DEF q
<1>15. Ra \in Nat
  BY <1>3, <1>8, <1>9
<1>16. Ra <= book.quote_free + book.quote_locked /\ q - pad <= book.quote_free + book.quote_locked - Ra
  BY <1>1, <1>3, <1>9, <1>10, <1>12, <1>13, <1>14, <1>15
<1>17. /\ AskLots(a) <= book.base_free + book.base_locked
       /\ base <= book.base_free + book.base_locked - AskLots(a)
  BY <1>1, <1>2, <1>3, <1>5
<1> QED
  BY <1>16, <1>17 DEF Ra, q, base

\* A cancel and the withdrawal bundled with it, on a book no order of which
\* was filled since it was read.
LEMMA CancelLandsInv ==
  ASSUME Inv, NEW t \in Tasks, pc[t] = "sent", tx[t].kind = "cancel", Current(t), steady,
         tx[t].fee <= fee, book.levels = snap[t].levels,
         fills + 1 <= tx[t].pad, tx[t].pad <= RequiredCollateral(tx[t].want, tx[t].fee).quote
  PROVE  Run(tx[t].ixs).ok
<1> DEFINE b == snap[t]
           want == tx[t].want
           f == tx[t].fee
           pad == tx[t].pad
           req == RequiredCollateral(want, f)
           lots == [req EXCEPT !.quote = SaturatingSub(@, pad)]
<1>1. TxOk(b, tx[t]) /\ BookOk(b) /\ BookOk(book) /\ fee \in Fees /\ f \in Fees /\ pad \in Nat
  BY DEF Inv, TxOk
<1>2. PICK S \in SUBSET Ids, mode \in Modes :
        /\ S # {} /\ S \subseteq LB!Resting(b.levels)
        /\ want = [id \in Ids |-> IF id \in S THEN b.levels[id] ELSE 0]
        /\ tx[t].ixs = CancelIxs(b, LB!CancelOps(b.levels, ListOf(S), mode), lots)
  BY <1>1 DEF TxOk
<1> DEFINE ops == LB!CancelOps(b.levels, ListOf(S), mode)
           up == [name |-> "UpdateBookLimit", seq |-> b.seq + 1, ops |-> ops]
           move == [name |-> "MakerWithdrawFunds", base |-> lots.base, quote |-> lots.quote]
           after == Merge(b.levels, S, LB!EmptyBook)
           s1 == RunStep(Start, up)
<1>3. b.levels \in LB!Levels /\ b.seq \in Nat /\ book \in Account /\ f \in Int
  <2>1. f \in Int
    <3> HIDE DEF f
    <3> QED BY <1>1, FundsAssumption, FeeAssumption
  <2> HIDE DEF b
  <2> QED BY <1>1, <2>1 DEF BookOk, Account
<1>4. want \in LB!Levels
  <2> HIDE DEF b, want
  <2>1. 0 \in LB!Size
    BY FundsAssumption DEF LB!Size
  <2> QED BY <1>2, <1>3, <2>1 DEF LB!Levels
<1>5. after \in LB!Levels
  BY <1>3, EmptyBookType, MergeType
<1>6. ops \in Seq(LB!LevelOp) /\ LB!AfterOps(b.levels, ops, Len(ops)) = after
  <2> HIDE DEF b
  <2>1. \A id \in S : LB!EmptyBook[id] = 0
    BY DEF LB!EmptyBook
  <2>2. Names(ops, S, LB!EmptyBook)
    BY <1>3, <2>1, EmptyBookType, CancelNames
  <2> HIDE DEF ops
  <2> QED BY <2>2, AfterNames DEF Names
<1>7. b.open /\ book.open /\ book.seq = b.seq
  <2>1. b.open
    <3>1. SUFFICES ASSUME ~b.open PROVE FALSE
      OBVIOUS
    <3>2. b.levels = LB!EmptyBook
      BY <1>1, <3>1 DEF BookOk, EmptyAccount
    <3> QED BY <1>2, <3>2 DEF LB!Resting, LB!EmptyBook
  <2> QED BY <2>1 DEF Current
<1>8. \A id \in Ids : (after[id] = 0 /\ b.levels[id] = want[id])
                        \/ (want[id] = 0 /\ b.levels[id] = after[id])
  <2> HIDE DEF b, want
  <2> QED BY <1>2 DEF Merge, LB!EmptyBook
<1>9. /\ Reserved(after) <= book.quote_free + book.quote_locked
      /\ AskLots(after) <= book.base_free + book.base_locked
      /\ req.quote - pad <= book.quote_free + book.quote_locked - Reserved(after)
      /\ req.base <= book.base_free + book.base_locked - AskLots(after)
  <2>1. \A id \in Ids : (after[id] = 0 /\ book.levels[id] = want[id])
                        \/ (want[id] = 0 /\ book.levels[id] = after[id])
    BY <1>8
  <2> HIDE DEF after, want, f, pad, b
  <2>2. fills + 1 <= pad /\ pad <= RequiredCollateral(want, f).quote /\ f <= fee
    BY DEF want, f, pad
  <2> QED BY <1>1, <1>3, <1>4, <1>5, <2>1, <2>2, CancelFrees
<1>10. LB!WithinSides(after) /\ ~LB!Crossed(after)
  <2>1. LB!WithinSides(b.levels) /\ ~LB!Crossed(b.levels)
    BY <1>1 DEF BookOk
  <2> HIDE DEF b
  <2>2. LB!Resting(after) \subseteq LB!Resting(b.levels)
    BY DEF Merge, LB!EmptyBook, LB!Resting
  <2> HIDE DEF after
  <2> QED BY <2>1, <2>2, FewerOrders
<1>11. lots.base = req.base /\ lots.quote = req.quote - pad /\ lots.base \in Nat /\ lots.quote \in Nat
  <2>1. req = [base |-> req.base, quote |-> req.quote] /\ req.base \in Nat /\ req.quote \in Nat
    BY <1>3, <1>4, CollateralAtMost
  <2>2. pad <= req.quote
    OBVIOUS
  <2> HIDE DEF req, pad
  <2> QED BY <1>1, <2>1, <2>2 DEF SaturatingSub
<1>12. tx[t].ixs = <<up>> \o Move("MakerWithdrawFunds", lots)
  BY <1>2 DEF CancelIxs, UpdateIx
<1>13. Move("MakerWithdrawFunds", lots) = <<>> \/ Move("MakerWithdrawFunds", lots) = <<move>>
  BY DEF Move
<1>14. up.name = "UpdateBookLimit" /\ up.seq = book.seq + 1 /\ up.ops = ops
       /\ move.name = "MakerWithdrawFunds" /\ move.base = lots.base /\ move.quote = lots.quote
  BY <1>7
<1> HIDE DEF up, move, lots, ops, after, want, f, pad, req
<1>15. tx[t].ixs = <<up>> \/ tx[t].ixs = <<up>> \o <<move>>
  <2>1. <<up>> \o <<>> = <<up>>
    BY ConcatShort
  <2> QED BY <1>12, <1>13, <2>1, Zenon
<1>16. 1 \in UpdateOps(t) /\ tx[t].ixs[1] = up
  <2> DEFINE l == <<up>> \o <<move>>
             l1 == <<up>>
  <2>1. l \in Seq({up, move}) /\ l1 \in Seq({up, move})
    OBVIOUS
  <2>2. Len(l) = 2 /\ l[1] = up /\ Len(l1) = 1 /\ l1[1] = up
    BY ConcatShort
  <2>3. tx[t].ixs \in {l, l1}
    BY <1>15
  <2> HIDE DEF l, l1
  <2>4. 1 \in DOMAIN l /\ 1 \in DOMAIN l1
    BY <2>1, <2>2
  <2> QED BY <1>14, <2>2, <2>3, <2>4 DEF UpdateOps
<1>17. OpsMatch(book.levels, up.ops)
  BY <1>16 DEF Current
<1>18. /\ s1.ok /\ Shape(s1) /\ s1.book.open
       /\ s1.book.quote_free = book.quote_free + book.quote_locked - Reserved(after)
       /\ s1.book.base_free = book.base_free + book.base_locked - AskLots(after)
  <2>1. LB!AfterOps(Start.book.levels, up.ops, Len(up.ops)) = after
    BY <1>6, <1>14, StartIs
  <2> QED BY <1>1, <1>3, <1>5, <1>7, <1>9, <1>10, <1>14, <1>17, <2>1, StartIs, UpdateLands
<1>19. CASE tx[t].ixs = <<up>>
  <2>1. Run(tx[t].ixs) = s1
    BY <1>19, RunShort, ConcatShort
  <2> QED BY <1>18, <2>1
<1>20. CASE tx[t].ixs = <<up>> \o <<move>>
  <2>1. Run(tx[t].ixs) = RunStep(s1, move)
    <3> DEFINE l == <<up>> \o <<move>>
    <3>1. Len(l) = 2 /\ l[1] = up /\ l[2] = move
      BY ConcatShort
    <3> HIDE DEF l
    <3> QED BY <1>20, <3>1, RunShort DEF l
  <2> HIDE DEF s1
  <2>2. Accepts(s1, move)
    BY <1>9, <1>11, <1>14, <1>18, AcceptsIs
  <2> QED BY <1>18, <2>1, <2>2, StepIs
<1> QED
  BY <1>15, <1>19, <1>20

\* The collateral compute_required_collateral says the cancelled orders had
\* is there for the withdrawal bundled after the cancel, whatever else rests
\* and whatever the orders were: the book's lots are locked side by side, and
\* only the rounding of the fee buffer and of the fills can be missing.
THEOREM CancelLands == Spec => []CancelFreesCollateral
<1>1. Inv => CancelFreesCollateral
  BY CancelLandsInv DEF CancelFreesCollateral
<1> QED
  BY <1>1, Invariance, PTL

-----------------------------------------------------------------------------
(* Writes: an optional InitializeMakerBook, an optional deposit, the ops *)

\* One instruction more.
LEMMA RunAppend ==
  ASSUME NEW l \in Seq(Ix), NEW x \in Ix
  PROVE  Run(l \o <<x>>) = RunStep(Run(l), x)
<1> DEFINE n == Len(l)
           l2 == l \o <<x>>
<1>1. n \in Nat /\ Len(l2) = n + 1 /\ l2[n + 1] = x /\ \A i \in 1..n : l2[i] = l[i]
  OBVIOUS
<1> HIDE DEF l2
<1>2. PICK g : g[0] = Start /\ (\A i \in 1..n : g[i] = RunStep(g[i - 1], l[i])) /\ Run(l) = g[n]
  BY <1>1, RunIs
<1>3. PICK h : /\ h[0] = Start
               /\ \A i \in 1..Len(l2) : h[i] = RunStep(h[i - 1], l2[i])
               /\ Run(l2) = h[Len(l2)]
  <2>1. Len(l2) \in Nat
    BY <1>1
  <2> QED BY <2>1, RunIs
<1> HIDE DEF n
<1> DEFINE T == {i \in Nat : i <= n => g[i] = h[i]}
<1>4. T = Nat
  <2>1. 0 \in T
    BY <1>2, <1>3
  <2>2. ASSUME NEW i \in T PROVE i + 1 \in T
    <3> SUFFICES ASSUME i + 1 <= n PROVE g[i + 1] = h[i + 1]
      BY <2>2
    <3>1. i \in Nat /\ i + 1 \in 1..n /\ (i + 1) - 1 = i /\ i + 1 \in 1..Len(l2) /\ g[i] = h[i]
      BY <1>1, <2>2
    <3> DEFINE j == i + 1
    <3>2. g[j] = RunStep(g[j - 1], l[j]) /\ h[j] = RunStep(h[j - 1], l2[j]) /\ l2[j] = l[j]
      BY <1>1, <1>2, <1>3, <3>1
    <3>3. g[j - 1] = h[j - 1]
      BY <3>1
    <3> HIDE DEF j
    <3> QED BY <3>2, <3>3 DEF j
  <2> HIDE DEF T
  <2> QED BY <2>1, <2>2, NatSetInduction DEF T
<1>5. g[n] = h[n]
  BY <1>1, <1>4
<1>6. h[n + 1] = RunStep(h[n], x)
  <2>1. n + 1 \in 1..Len(l2) /\ (n + 1) - 1 = n
    BY <1>1
  <2> QED BY <1>1, <1>3, <2>1
<1> QED
  BY <1>1, <1>2, <1>3, <1>5, <1>6 DEF l2

\* No instruction: nothing happens.
LEMMA RunNothing == Run(<<>>) = Start
<1>1. Len(<<>>) = 0
  OBVIOUS
<1> QED
  BY <1>1, RunIs

\* The instructions of a list are those of its parts.
LEMMA InConcat ==
  ASSUME NEW l \in Seq(Ix), NEW k \in Seq(Ix)
  PROVE  /\ \A i \in DOMAIN l : i \in DOMAIN (l \o k) /\ (l \o k)[i] = l[i]
         /\ \A i \in DOMAIN k : Len(l) + i \in DOMAIN (l \o k) /\ (l \o k)[Len(l) + i] = k[i]
  OBVIOUS

\* A write lands if its deposit can be paid, its guards match and what the
\* account then holds backs the levels it leaves.
LEMMA WriteLands ==
  ASSUME Inv, NEW b, b.open = book.open, b.seq = book.seq,
         NEW lots, lots.base \in Nat, lots.quote \in Nat, NEW ops \in Seq(LB!LevelOp),
         NEW ixs, ixs = WriteIxs(b, lots, ops),
         \A i \in DOMAIN ixs : ixs[i].name = "MakerDepositFunds" =>
           ixs[i].base <= wallet.base /\ ixs[i].quote <= wallet.quote,
         \A i \in DOMAIN ixs : ixs[i].name = "UpdateBookLimit" => OpsMatch(book.levels, ixs[i].ops),
         NEW levels \in LB!Levels, LB!AfterOps(book.levels, ops, Len(ops)) = levels,
         LB!WithinSides(levels), ~LB!Crossed(levels),
         Reserved(levels) <= book.quote_free + book.quote_locked + lots.quote,
         AskLots(levels) <= book.base_free + book.base_locked + lots.base
  PROVE  Run(ixs).ok
<1> DEFINE init == [name |-> "InitializeMakerBook"]
           dep == [name |-> "MakerDepositFunds", base |-> lots.base, quote |-> lots.quote]
           up == [name |-> "UpdateBookLimit", seq |-> b.seq + 1, ops |-> ops]
           I == IF b.open THEN <<>> ELSE <<init>>
           D == Move("MakerDepositFunds", lots)
           U == IF ops = <<>> THEN <<>> ELSE <<up>>
           s1 == Run(I)
           s2 == Run(I \o D)
<1>1. /\ BookOk(book) /\ book \in Account /\ book.seq \in Nat /\ fee \in Fees
      /\ book.open \in BOOLEAN /\ book.levels \in LB!Levels
      /\ book.quote_free \in Nat /\ book.quote_locked \in Nat
      /\ book.base_free \in Nat /\ book.base_locked \in Nat
      /\ book = [open |-> book.open, levels |-> book.levels, seq |-> book.seq,
                 quote_free |-> book.quote_free, quote_locked |-> book.quote_locked,
                 base_free |-> book.base_free, base_locked |-> book.base_locked]
  BY DEF Inv, BookOk, Account
<1>2. ixs = (I \o D) \o U
  BY DEF WriteIxs, UpdateIx
<1>3. init \in Ix /\ dep \in Ix /\ up \in Ix
  <2>1. b.seq + 1 \in Nat
    BY <1>1
  <2> QED BY <2>1 DEF Ix
<1>4. init.name = "InitializeMakerBook"
      /\ dep.name = "MakerDepositFunds" /\ dep.base = lots.base /\ dep.quote = lots.quote
      /\ up.name = "UpdateBookLimit" /\ up.seq = book.seq + 1 /\ up.ops = ops
  OBVIOUS
<1>5. D = (IF lots.base = 0 /\ lots.quote = 0 THEN <<>> ELSE <<dep>>)
  BY DEF Move
<1> HIDE DEF init, dep, up, D
<1>6. I \in Seq(Ix) /\ D \in Seq(Ix) /\ U \in Seq(Ix) /\ I \o D \in Seq(Ix)
  BY <1>3, <1>5
<1>7. /\ s1.ok /\ Shape(s1) /\ s1.wallet = wallet /\ s1.book \in Account
      /\ s1.book.open /\ s1.book.levels = book.levels /\ s1.book.seq = book.seq
      /\ s1.book.quote_free = book.quote_free /\ s1.book.quote_locked = book.quote_locked
      /\ s1.book.base_free = book.base_free /\ s1.book.base_locked = book.base_locked
  <2>1. CASE b.open
    <3>1. s1 = Start
      BY <2>1, RunNothing
    <3> HIDE DEF s1
    <3> QED BY <1>1, <2>1, <3>1, StartIs
  <2>2. CASE ~b.open
    <3>1. s1 = RunStep(Start, init)
      <4>1. I = <<init>>
        BY <2>2
      <4> HIDE DEF I
      <4> QED BY <4>1, RunShort, ConcatShort
    <3> HIDE DEF s1
    <3>2. Accepts(Start, init)
      BY <1>4, <2>2, StartIs, AcceptsIs
    <3>3. s1.ok /\ Shape(s1) /\ s1.book = BookAfter(book, init) /\ s1.wallet = WalletAfter(wallet, init)
      BY <3>1, <3>2, StartIs, StepIs
    <3>4. s1.book = [EmptyAccount EXCEPT !.open = TRUE] /\ s1.wallet = wallet
      <4>1. init.name \notin Moves
        BY <1>4 DEF Moves
      <4>2. WalletAfter(wallet, init) = wallet
        BY <4>1, WalletAfterIs
      <4>3. BookAfter(book, init) = [EmptyAccount EXCEPT !.open = TRUE]
        <5> DEFINE e == [EmptyAccount EXCEPT !.open = TRUE]
        <5>1. init.name = "InitializeMakerBook"
          BY <1>4
        <5>2. \A ix : ix.name = "InitializeMakerBook" => BookAfter(book, ix) = e
          BY BookAfterIs
        <5> HIDE DEF e
        <5>3. BookAfter(book, init) = e
          BY <5>1, <5>2
        <5> QED BY <5>3 DEF e
      <4> QED BY <3>3, <4>2, <4>3, Zenon
    <3>5. book = EmptyAccount
      BY <1>1, <2>2 DEF BookOk
    <3>6. s1.book = [open |-> TRUE, levels |-> book.levels, seq |-> book.seq,
                     quote_free |-> book.quote_free, quote_locked |-> book.quote_locked,
                     base_free |-> book.base_free, base_locked |-> book.base_locked]
      BY <3>4, <3>5 DEF EmptyAccount
    <3>7. s1.book \in Account
      BY <1>1, <3>6 DEF Account
    <3> QED BY <3>3, <3>4, <3>6, <3>7
  <2> QED BY <2>1, <2>2
<1> HIDE DEF I, U
<1>8. /\ s2.ok /\ Shape(s2) /\ s2.book \in Account
      /\ s2.book.open /\ s2.book.levels = book.levels /\ s2.book.seq = book.seq
      /\ s2.book.quote_free = book.quote_free + lots.quote /\ s2.book.quote_locked = book.quote_locked
      /\ s2.book.base_free = book.base_free + lots.base /\ s2.book.base_locked = book.base_locked
  <2>1. CASE lots.base = 0 /\ lots.quote = 0
    <3>1. I \o D = I
      <4>1. D = <<>>
        BY <1>5, <2>1
      <4> QED BY <1>6, <4>1
    <3>2. s2 = s1
      BY <3>1
    <3> HIDE DEF s1, s2
    <3> QED BY <1>1, <1>7, <2>1, <3>2
  <2>2. CASE ~(lots.base = 0 /\ lots.quote = 0)
    <3>1. D = <<dep>>
      BY <1>5, <2>2
    <3>2. s2 = RunStep(s1, dep)
      BY <1>3, <1>6, <3>1, RunAppend
    <3>3. lots.base <= wallet.base /\ lots.quote <= wallet.quote
      <4>1. 1 \in DOMAIN D /\ D[1] = dep
        BY <3>1
      <4> DEFINE i == Len(I) + 1
      <4>2. i \in DOMAIN (I \o D) /\ (I \o D)[i] = dep
        BY <1>6, <4>1, InConcat
      <4> HIDE DEF i
      <4>3. i \in DOMAIN ixs /\ ixs[i] = dep
        BY <1>2, <1>6, <4>2, InConcat
      <4> QED BY <1>4, <4>3
    <3> HIDE DEF s1, s2
    <3>4. Accepts(s1, dep)
      BY <1>4, <1>7, <3>3, AcceptsIs
    <3>5. s2.ok /\ Shape(s2) /\ s2.book = BookAfter(s1.book, dep)
      BY <1>7, <3>2, <3>4, StepIs
    <3>6. s2.book = [s1.book EXCEPT !.base_free = s1.book.base_free + dep.base,
                                    !.quote_free = s1.book.quote_free + dep.quote]
      BY <1>4, <3>5, BookAfterIs
    <3> DEFINE bf == s1.book.base_free + dep.base
               qf == s1.book.quote_free + dep.quote
    <3>7. bf \in Nat /\ qf \in Nat /\ bf = book.base_free + lots.base /\ qf = book.quote_free + lots.quote
      BY <1>1, <1>4, <1>7
    <3> HIDE DEF bf, qf
    <3>8. s2.book = [s1.book EXCEPT !.base_free = bf, !.quote_free = qf]
      BY <3>6 DEF bf, qf
    <3>9. s2.book \in Account /\ s2.book.base_free = bf /\ s2.book.quote_free = qf
          /\ s2.book.open = s1.book.open /\ s2.book.levels = s1.book.levels /\ s2.book.seq = s1.book.seq
          /\ s2.book.quote_locked = s1.book.quote_locked /\ s2.book.base_locked = s1.book.base_locked
      BY <1>7, <3>7, <3>8 DEF Account
    <3> QED BY <1>7, <3>5, <3>7, <3>9
  <2> QED BY <2>1, <2>2
<1>9. CASE ops = <<>>
  <2>1. U = <<>>
    BY <1>9 DEF U
  <2>2. ixs = I \o D
    BY <1>2, <1>6, <2>1
  <2> QED BY <1>8, <2>2
<1>10. CASE ops # <<>>
  <2>1. U = <<up>>
    BY <1>10 DEF U
  <2>2. Run(ixs) = RunStep(s2, up)
    BY <1>2, <1>3, <1>6, <2>1, RunAppend
  <2>3. OpsMatch(book.levels, ops)
    <3>1. 1 \in DOMAIN U /\ U[1] = up
      BY <2>1
    <3> DEFINE i == Len(I \o D) + 1
    <3>2. i \in DOMAIN ixs /\ ixs[i] = up
      BY <1>2, <1>6, <3>1, InConcat
    <3> HIDE DEF i
    <3> QED BY <1>4, <3>2
  <2> HIDE DEF s2
  <2>4. /\ Reserved(levels) <= s2.book.quote_free + s2.book.quote_locked
        /\ AskLots(levels) <= s2.book.base_free + s2.book.base_locked
    <3>1. Reserved(levels) \in Nat /\ AskLots(levels) \in Nat
      BY <1>1, ReservedIs, LotsNat
    <3> QED BY <1>1, <1>8, <3>1
  <2>5. /\ up.seq = s2.book.seq + 1 /\ OpsMatch(s2.book.levels, up.ops)
        /\ LB!AfterOps(s2.book.levels, up.ops, Len(up.ops)) = levels
    BY <1>4, <1>8, <2>3
  <2> QED BY <1>1, <1>4, <1>8, <2>2, <2>4, <2>5, UpdateLands
<1> QED
  BY <1>9, <1>10

\* A place that deposits what compute_required_collateral says of its orders,
\* one lot for each fill since the last write and what a fee set since lacks.
LEMMA PlaceLandsInv ==
  ASSUME Inv, NEW t \in Tasks, pc[t] = "sent", Current(t), tx[t].kind = "place", steady,
         tx[t].pad >= fills + FeeShort(t)
  PROVE  Run(tx[t].ixs).ok
<1> DEFINE b == snap[t]
           want == tx[t].want
           f == tx[t].fee
           pad == tx[t].pad
           S == LB!Resting(want)
           ops == LB!PlaceOps(ListOf(S), want)
           req == RequiredCollateral(want, f)
           lots == Padded(req, pad)
           after == Merge(book.levels, S, want)
           read == Merge(b.levels, S, want)
<1>1. /\ TxOk(b, tx[t]) /\ BookOk(b) /\ BookOk(book) /\ fee \in Fees /\ fills \in Nat
      /\ b.levels \in LB!Levels /\ book.levels \in LB!Levels /\ book \in Account
      /\ LB!WithinSides(b.levels) /\ Locks(book, fills)
  BY DEF Inv, BookOk, Account
<1>2. /\ want \in OrderSets /\ f \in Fees /\ pad \in Nat
      /\ LB!PlacesOk(b.levels, ListOf(S), want)
      /\ ~LB!Crossed(LB!AfterOps(b.levels, ops, Len(ops)))
      /\ tx[t].ixs = WriteIxs(b, lots, ops)
  BY <1>1 DEF TxOk
<1>3. /\ b.open = book.open /\ b.seq = book.seq
      /\ \A id \in Ids : book.levels[id] <= b.levels[id]
      /\ \A i \in DOMAIN tx[t].ixs : tx[t].ixs[i].name = "MakerDepositFunds" =>
           tx[t].ixs[i].base <= wallet.base /\ tx[t].ixs[i].quote <= wallet.quote
      /\ \A i \in DOMAIN tx[t].ixs : tx[t].ixs[i].name = "UpdateBookLimit" =>
           OpsMatch(book.levels, tx[t].ixs[i].ops)
  BY DEF Current, UpdateOps
<1>4. pad >= fills + SaturatingSub(Buffer(Notional(want), fee), Buffer(Notional(want), f))
  BY DEF FeeShort
<1> HIDE DEF b, want, f, pad
<1>5. want \in LB!Levels /\ S \in SUBSET Ids
  BY <1>2, OrderSetsType DEF LB!Resting
<1>6. Names(ops, S, want)
  BY <1>5, PlaceNames
<1>7. LB!WithinSides(read) /\ \A id \in S : b.levels[id] = 0
  <2> HIDE DEF S
  <2> QED BY <1>1, <1>2, <1>5, PlacesWithin
<1>8. LB!AfterOps(book.levels, ops, Len(ops)) = after /\ ~LB!Crossed(read) /\ ops \in Seq(LB!LevelOp)
  <2> HIDE DEF S, ops
  <2>1. LB!AfterOps(book.levels, ops, Len(ops)) = after /\ LB!AfterOps(b.levels, ops, Len(ops)) = read
    BY <1>6, AfterNames
  <2> HIDE DEF read
  <2> QED BY <1>2, <1>6, <2>1 DEF Names
<1>9. \A id \in Ids : /\ book.levels[id] \in Nat /\ b.levels[id] \in Nat /\ want[id] \in Nat
  BY <1>1, <1>5, LevelsNat
<1>10. \A id \in S : book.levels[id] = 0
  BY <1>3, <1>5, <1>7, <1>9
<1>11. LB!WithinSides(after) /\ ~LB!Crossed(after) /\ after \in LB!Levels
  <2>1. LB!Resting(after) \subseteq LB!Resting(read)
    <3> HIDE DEF S
    <3> QED BY <1>3, <1>9 DEF LB!Resting, Merge
  <2>2. after \in LB!Levels
    BY <1>1, <1>5, MergeType
  <2> HIDE DEF after, read
  <2> QED BY <1>7, <1>8, <2>1, <2>2, FewerOrders
<1>12. /\ BidLots(after) = BidLots(book.levels) + BidLots(want)
       /\ AskLots(after) = AskLots(book.levels) + AskLots(want)
  <2>1. \A id \in Ids : (book.levels[id] = 0 /\ after[id] = want[id])
                          \/ (want[id] = 0 /\ after[id] = book.levels[id])
    BY <1>9, <1>10 DEF Merge, LB!Resting
  <2> HIDE DEF after
  <2> QED BY <1>1, <1>5, <1>11, <2>1, LotsAdd
<1>13. f \in Int /\ fee \in Int
  BY <1>1, <1>2, FundsAssumption, FeeAssumption
<1> DEFINE n == BidLots(book.levels)
           w == BidLots(want)
<1>14. /\ Notional(want) = w /\ req.base = AskLots(want) /\ req.quote = w + FeeBuffer(w, f)
       /\ req = [base |-> req.base, quote |-> req.quote]
  BY <1>2, <1>5, <1>13, CollateralExact, CollateralAtMost
<1>15. n \in Nat /\ w \in Nat /\ AskLots(want) \in Nat /\ AskLots(book.levels) \in Nat
  BY <1>1, <1>5, LotsNat
<1> HIDE DEF n, w
<1>16. FeeBuffer(w, f) \in Nat /\ FeeBuffer(w, fee) \in Nat /\ FeeBuffer(n, fee) \in Nat
       /\ FeeBuffer(n + w, fee) \in Nat
       /\ FeeBuffer(n + w, fee) <= FeeBuffer(n, fee) + FeeBuffer(w, fee)
  <2>1. n + w \in Nat
    BY <1>15
  <2> QED BY <1>13, <1>15, <2>1, BufferFacts
<1>17. pad >= fills + SaturatingSub(FeeBuffer(w, fee), FeeBuffer(w, f))
  BY <1>4, <1>14 DEF Buffer, FeeBuffer
<1>18. lots.base = AskLots(want) /\ lots.quote = w + FeeBuffer(w, f) + pad
       /\ lots.base \in Nat /\ lots.quote \in Nat
  <2> HIDE DEF req
  <2>1. lots = [base |-> req.base, quote |-> req.quote + pad]
    BY <1>14 DEF Padded
  <2> QED BY <1>2, <1>14, <1>15, <1>16, <2>1
<1>19. pad + FeeBuffer(w, f) >= fills + FeeBuffer(w, fee)
  BY <1>1, <1>2, <1>16, <1>17 DEF SaturatingSub
<1>20. /\ book.quote_free \in Nat /\ book.quote_locked \in Nat
       /\ book.base_free \in Nat /\ book.base_locked \in Nat
       /\ book.base_locked = AskLots(book.levels)
  BY <1>1 DEF BookOk, Account
<1>21. Reserved(after) = n + w + FeeBuffer(n + w, fee) /\ Reserved(book.levels) = n + FeeBuffer(n, fee)
       /\ Reserved(after) \in Nat
  BY <1>1, <1>11, <1>12, ReservedIs DEF n, w
<1>22. book.quote_locked + fills >= n + FeeBuffer(n, fee)
  BY <1>1, <1>21 DEF Locks
<1> HIDE DEF after, lots, ops, S, read, req
<1>23. Reserved(after) <= book.quote_free + book.quote_locked + lots.quote
  <2> DEFINE Bn == FeeBuffer(n, fee)
             Bw == FeeBuffer(w, fee)
             Bf == FeeBuffer(w, f)
             Bs == FeeBuffer(n + w, fee)
  <2>1. /\ Bn \in Nat /\ Bw \in Nat /\ Bf \in Nat /\ Bs \in Nat /\ Bs <= Bn + Bw
        /\ pad + Bf >= fills + Bw /\ book.quote_locked + fills >= n + Bn
        /\ lots.quote = w + Bf + pad /\ Reserved(after) = n + w + Bs
    BY <1>16, <1>18, <1>19, <1>21, <1>22
  <2> HIDE DEF Bn, Bw, Bf, Bs
  <2>2. Reserved(after) <= n + w + Bn + Bw
    BY <1>15, <2>1
  <2>3. n + Bn + fills + Bw <= book.quote_locked + fills + pad + Bf
    BY <1>1, <1>2, <1>15, <1>20, <2>1
  <2>4. n + w + Bn + Bw <= book.quote_locked + (w + Bf + pad)
    BY <1>1, <1>2, <1>15, <1>20, <2>1, <2>3
  <2> DEFINE r == Reserved(after)
             d == lots.quote
  <2>5. r \in Nat /\ d \in Nat /\ d = w + Bf + pad /\ r <= n + w + Bn + Bw
    BY <1>18, <1>21, <2>1, <2>2
  <2> HIDE DEF r, d
  <2>6. r <= book.quote_locked + d
    BY <1>2, <1>15, <1>20, <2>1, <2>4, <2>5
  <2>7. r <= book.quote_free + book.quote_locked + d
    BY <1>20, <2>5, <2>6
  <2> QED BY <2>7 DEF r, d
<1>24. AskLots(after) <= book.base_free + book.base_locked + lots.base
  BY <1>12, <1>15, <1>18, <1>20
<1> QED
  BY <1>2, <1>3, <1>8, <1>11, <1>18, <1>23, <1>24, WriteLands

\* A replace-all that deposits what compute_required_collateral says of the
\* whole set it asks for.
LEMMA ReplaceLandsInv ==
  ASSUME Inv, NEW t \in Tasks, pc[t] = "sent", Current(t), tx[t].kind = "replace", tx[t].fee >= fee
  PROVE  Run(tx[t].ixs).ok
<1> DEFINE b == snap[t]
           from == b.levels
           want == tx[t].want
           f == tx[t].fee
           P == LB!ToPlace(from, want)
           S == Differing(from, want)
           lots == RequiredCollateral(want, f)
           after == Merge(book.levels, S, want)
<1>1. /\ TxOk(b, tx[t]) /\ BookOk(book) /\ fee \in Fees
      /\ from \in LB!Levels /\ book.levels \in LB!Levels /\ book \in Account
      /\ LB!WithinSides(from)
  BY DEF Inv, BookOk, Account
<1>2. /\ want \in OrderSets /\ f \in Fees /\ ~LB!Crossed(want)
      /\ LB!DiffOk(from, want, ListOf(P))
  BY <1>1 DEF TxOk
<1>3. PICK mode \in Modes :
        tx[t].ixs = WriteIxs(b, lots,
                      LB!DiffOps(from, want, mode, ListOf(LB!ToCancel(from, want)),
                                 ListOf(LB!ToResize(from, want)), ListOf(P)))
  BY <1>1 DEF TxOk
<1> DEFINE ops == LB!DiffOps(from, want, mode, ListOf(LB!ToCancel(from, want)),
                             ListOf(LB!ToResize(from, want)), ListOf(P))
<1>4. /\ b.open = book.open /\ b.seq = book.seq
      /\ \A id \in Ids : book.levels[id] <= from[id]
      /\ \A i \in DOMAIN tx[t].ixs : tx[t].ixs[i].name = "MakerDepositFunds" =>
           tx[t].ixs[i].base <= wallet.base /\ tx[t].ixs[i].quote <= wallet.quote
      /\ \A i \in DOMAIN tx[t].ixs : tx[t].ixs[i].name = "UpdateBookLimit" =>
           OpsMatch(book.levels, tx[t].ixs[i].ops)
  BY DEF Current, UpdateOps
<1>5. f >= fee
  OBVIOUS
<1>6. tx[t].ixs = WriteIxs(b, lots, ops)
  BY <1>3
<1> HIDE DEF from, want, f
<1>7. want \in LB!Levels
  BY <1>2, OrderSetsType
<1>8. \A id \in Ids : book.levels[id] \in Nat /\ from[id] \in Nat /\ want[id] \in Nat
  BY <1>1, <1>7, LevelsNat
<1>9. \A id \in Ids \ S : from[id] = want[id]
  BY <1>8 DEF Differing, LB!ToCancel, LB!ToResize, LB!ToPlace, LB!Resting
<1>10. ops \in Seq(LB!LevelOp) /\ LB!AfterOps(book.levels, ops, Len(ops)) = after
  <2>1. Names(ops, S, want)
    BY <1>1, <1>7, DiffNames
  <2> HIDE DEF ops, S
  <2> QED BY <2>1, AfterNames DEF Names
<1> HIDE DEF ops, b
<1>11. after \in LB!Levels /\ \A id \in Ids : after[id] <= want[id]
  <2>1. after \in LB!Levels
    BY <1>1, <1>7, MergeType
  <2> HIDE DEF S
  <2> QED BY <1>4, <1>8, <1>9, <2>1 DEF Merge
<1>12. LB!WithinSides(want)
  <2> DEFINE kept == [id \in Ids |-> IF from[id] > 0 THEN want[id] ELSE 0]
             reached == Merge(kept, P, want)
  <2>1. LB!PlacesOk(kept, ListOf(P), want)
    BY <1>2 DEF LB!DiffOk
  <2>2. kept \in LB!Levels
    <3>1. 0 \in LB!Size
      BY FundsAssumption DEF LB!Size
    <3> QED BY <1>7, <3>1 DEF LB!Levels
  <2>3. LB!Resting(kept) \subseteq LB!Resting(from)
    BY DEF LB!Resting
  <2>4. P \in SUBSET Ids
    BY DEF LB!ToPlace
  <2>5. LB!Resting(want) \subseteq LB!Resting(reached)
    BY <1>8 DEF LB!Resting, LB!ToPlace, Merge
  <2> HIDE DEF kept, P
  <2>6. LB!WithinSides(kept)
    BY <1>1, <2>3, FewerOrders
  <2>7. LB!WithinSides(reached)
    BY <1>7, <2>1, <2>2, <2>4, <2>6, PlacesWithin
  <2> HIDE DEF reached
  <2> QED BY <2>5, <2>7, FewerOrders
<1> HIDE DEF after, P, S
<1>13. LB!WithinSides(after) /\ ~LB!Crossed(after)
  <2>1. \A id \in Ids : after[id] \in Nat
    BY <1>11, LevelsNat
  <2>2. LB!Resting(after) \subseteq LB!Resting(want)
    BY <1>8, <1>11, <2>1 DEF LB!Resting
  <2> QED BY <1>2, <1>12, <2>2, FewerOrders
<1>14. f \in Int /\ fee \in Int
  BY <1>1, <1>2, FundsAssumption, FeeAssumption
<1> DEFINE n == BidLots(after)
           w == BidLots(want)
<1>15. /\ n <= w /\ AskLots(after) <= AskLots(want) /\ n \in Nat /\ w \in Nat
       /\ AskLots(after) \in Nat /\ AskLots(want) \in Nat
  BY <1>7, <1>11, LotsMonotone, LotsNat
<1>16. lots.base = AskLots(want) /\ lots.quote = w + FeeBuffer(w, f)
  BY <1>2, <1>7, <1>14, CollateralExact, CollateralAtMost
<1>17. Reserved(after) = n + FeeBuffer(n, fee)
  BY <1>1, <1>11, ReservedIs
<1> HIDE DEF n, w, lots
<1>18. /\ FeeBuffer(n, fee) \in Nat /\ FeeBuffer(w, fee) \in Nat /\ FeeBuffer(w, f) \in Nat
       /\ FeeBuffer(n, fee) <= FeeBuffer(w, fee) /\ FeeBuffer(w, fee) <= FeeBuffer(w, f)
  BY <1>5, <1>14, <1>15, BufferFacts, BufferFeeMonotone
<1>19. /\ book.quote_free \in Nat /\ book.quote_locked \in Nat
       /\ book.base_free \in Nat /\ book.base_locked \in Nat
  BY <1>1 DEF Account
<1>20. /\ Reserved(after) <= book.quote_free + book.quote_locked + lots.quote
       /\ AskLots(after) <= book.base_free + book.base_locked + lots.base
       /\ lots.base \in Nat /\ lots.quote \in Nat
  BY <1>15, <1>16, <1>17, <1>18, <1>19
<1> QED
  BY <1>4, <1>6, <1>10, <1>11, <1>13, <1>20, WriteLands

\* compute_required_collateral: what it says of the orders of a place or of
\* the whole set of a replace-all, deposited in the same transaction, passes
\* the program's solvency check, for every market, every list of orders and
\* every history of fills, fees and other calls.
THEOREM DepositLands == Spec => []DepositSuffices
<1>1. Inv => DepositSuffices
  BY PlaceLandsInv, ReplaceLandsInv DEF DepositSuffices
<1> QED
  BY <1>1, Invariance, PTL
=============================================================================
