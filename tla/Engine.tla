------------------------------- MODULE Engine -------------------------------
(***************************************************************************)
(* The integer arithmetic of the SDK: market parameters and their          *)
(* validation (onchain/state/market_state.rs, onchain/params.rs), the      *)
(* matching engine's conversions and fees (math/engine.rs,                 *)
(* onchain/swap_types.rs), the collateral conversion of config.rs and the  *)
(* rounding of human amounts into lots (ix_builder/swap.rs).               *)
(*                                                                         *)
(* Checked arithmetic is a formula and a Fits predicate: the code returns  *)
(* an error exactly when the predicate fails.  The word sizes, the ppm     *)
(* divisor and the limits are parameters.                                  *)
(***************************************************************************)
EXTENDS Integers

CONSTANTS
  U64_MAX, U128_MAX,        \* word sizes
  PPM_DIVISOR,              \* 1_000_000
  MIN_FEE_PPM, MAX_FEE_PPM, \* -50_000 and 100_000
  MAX_BUILDER_FEE_PPM,      \* 10_000
  MAX_DECIMALS,             \* 18
  MAX_PARAM,                \* 10^15, the ceiling of lot and tick sizes
  MAX_TICKS                 \* 10^18, the highest price a market must carry

ASSUME WordAssumption ==
  /\ U64_MAX \in Nat \ {0} /\ U128_MAX \in Nat /\ U64_MAX <= U128_MAX
  /\ PPM_DIVISOR \in Nat \ {0}

ASSUME FeeAssumption ==
  /\ MIN_FEE_PPM \in Int /\ MAX_FEE_PPM \in Nat
  /\ MIN_FEE_PPM <= 0
  /\ MAX_BUILDER_FEE_PPM \in Nat

\* 10^d is a positive number: what the proofs need to know of exponentiation.
ASSUME DecimalsAssumption ==
  /\ MAX_DECIMALS \in Nat /\ MAX_PARAM \in Nat /\ MAX_TICKS \in Nat \ {0}
  /\ \A d \in 0..MAX_DECIMALS : 10^d \in Nat \ {0}

CeilDiv(a, b) == (a + b - 1) \div b
Least(a, b) == IF a <= b THEN a ELSE b

-----------------------------------------------------------------------------
(* Market parameters *)

MarketParams ==
  [base_decimals : 0..MAX_DECIMALS, base_lot : 0..MAX_PARAM, quote_decimals : 0..MAX_DECIMALS,
   quote_lot : 0..MAX_PARAM, tick_size : 0..MAX_PARAM, raw_base_units : Nat]

\* The greatest common divisor, which the code computes by Euclid's algorithm.
Gcd(a, b) ==
  CHOOSE d \in 1..a : /\ a % d = 0 /\ b % d = 0
                      /\ \A e \in (d + 1)..a : a % e # 0 \/ b % e # 0

\* validate_base_lot_size and validate_quote_lot_size.
ValidLotSize(lot, decimals) ==
  /\ lot \in 1..MAX_PARAM
  /\ \/ (10^decimals) % lot = 0
     \/ lot % (10^decimals) = 0
     \/ Gcd(10^decimals, lot) # 1

ValidTickSize(tick, quote_lot) ==
  /\ tick \in 1..MAX_PARAM
  /\ \/ tick % quote_lot = 0
     \/ quote_lot % tick = 0
     \/ Gcd(tick, quote_lot) >= Least(tick, quote_lot) \div 100
     \/ Gcd(tick, quote_lot) >= 1000

\* A power of ten no larger than one base unit.
ValidRawBaseUnits(raw, decimals) == \E d \in 0..decimals : raw = 10^d

BaseAtomsPerBaseUnit(m) == 10^m.base_decimals * m.raw_base_units

\* Mutant: a lot-tick may be worth a fraction of a quote lot.
ValidMarketInvariantsFractional(m) ==
  /\ m.base_lot * m.tick_size * MAX_TICKS <= U128_MAX
  /\ (m.base_lot * m.tick_size) \div BaseAtomsPerBaseUnit(m) # 0

\* validate_market_invariants: one lot at one tick is a whole, positive number
\* of quote lots, and no product overflows up to the highest price.  (Its last
\* check, that MAX_FEE_PPM of u64::MAX fits an i64, is about constants only.)
ValidMarketInvariants(m) ==
  LET num == m.base_lot * m.tick_size
      unit == BaseAtomsPerBaseUnit(m)
  IN  /\ num * MAX_TICKS <= U128_MAX /\ unit * m.quote_lot <= U128_MAX
      /\ num \div unit # 0
      /\ num % (unit * m.quote_lot) = 0

\* InitializeMarketParams::validate and build_initialize_market_ix, fees apart.
ValidParams(m) ==
  /\ ValidLotSize(m.base_lot, m.base_decimals)
  /\ ValidLotSize(m.quote_lot, m.quote_decimals)
  /\ ValidTickSize(m.tick_size, m.quote_lot)
  /\ ValidRawBaseUnits(m.raw_base_units, m.base_decimals)
  /\ ValidMarketInvariants(m)

ValidFeePpm(fee) == fee \in MIN_FEE_PPM .. MAX_FEE_PPM
ValidTakerFeePpm(fee) == ValidFeePpm(fee) /\ fee >= 0

-----------------------------------------------------------------------------
(* Conversions *)

\* MarketStateHeader::base_lots_to_quote_atoms.
QuoteAtoms(m, base, ticks) ==
  (base * m.base_lot * ticks * m.tick_size) \div BaseAtomsPerBaseUnit(m)

QuoteAtomsFits(m, base, ticks) ==
  /\ base * m.base_lot * ticks * m.tick_size <= U128_MAX
  /\ QuoteAtoms(m, base, ticks) <= U64_MAX

\* engine.rs base_to_quote_lots: a bid pays the ceiling, an ask gets the floor.
BaseToQuoteLots(m, base, ticks, side) ==
  IF side = "Bid" THEN CeilDiv(QuoteAtoms(m, base, ticks), m.quote_lot)
  ELSE QuoteAtoms(m, base, ticks) \div m.quote_lot

\* engine.rs quote_to_base_lots.
QuoteToBaseLots(m, quote, ticks, round_up) ==
  LET num == quote * m.quote_lot * BaseAtomsPerBaseUnit(m)
      den == ticks * m.tick_size * m.base_lot
  IN  IF round_up THEN CeilDiv(num, den) ELSE num \div den

QuoteToBaseFits(m, quote, ticks) ==
  /\ ticks > 0
  /\ quote * m.quote_lot * BaseAtomsPerBaseUnit(m) <= U128_MAX
  /\ ticks * m.tick_size * m.base_lot <= U128_MAX

\* MarketConfig::quote_lots_ceil, the collateral of a bid: one division, and
\* saturating instead of failing.
QuoteLotsCeil(m, base, ticks) ==
  LET num == Least(base * ticks * m.tick_size * m.base_lot, U128_MAX)
      den == BaseAtomsPerBaseUnit(m) * m.quote_lot
  IN  Least(Least(num + den - 1, U128_MAX) \div den, U64_MAX)

-----------------------------------------------------------------------------
(* Fees, in quote lots *)

\* Mutant: rounding toward minus infinity on both sides.
CalculateFeeFloored(quote, fee_ppm) == (quote * fee_ppm) \div PPM_DIVISOR

\* engine.rs calculate_fee: a fee rounds up, a rebate truncates toward zero.
CalculateFee(quote, fee_ppm) ==
  IF fee_ppm > 0 THEN CeilDiv(quote * fee_ppm, PPM_DIVISOR)
  ELSE -((quote * (-fee_ppm)) \div PPM_DIVISOR)

\* swap_types.rs calculate_builder_fee_quote_lots: floored.
BuilderFee(quote, fee_ppm) == (quote * fee_ppm) \div PPM_DIVISOR

\* Mutant: the builder fee left out of the denominator.
MaxAmountInBidBudgetWithoutBuilder(amount, taker_fee_ppm, builder_fee_ppm) ==
  LET add_on == IF taker_fee_ppm > 0 THEN taker_fee_ppm ELSE 0
  IN  (amount * PPM_DIVISOR) \div (PPM_DIVISOR + add_on)

\* engine.rs max_amount_in_bid_budget: what a bid that may spend amount can
\* match for, leaving room for both fees.
MaxAmountInBidBudget(amount, taker_fee_ppm, builder_fee_ppm) ==
  LET add_on == (IF taker_fee_ppm > 0 THEN taker_fee_ppm ELSE 0) + builder_fee_ppm
  IN  (amount * PPM_DIVISOR) \div (PPM_DIVISOR + add_on)

-----------------------------------------------------------------------------
(* Human amounts into lots.  An f64 amount is modelled in quarter atoms, so *)
(* that rounding to the nearest atom is visible.                            *)

ToAtoms(quarters) == (quarters + 2) \div 4

\* ix_builder/swap.rs to_lots: a maximum input rounds down, a minimum output
\* up, and to one lot at least.
ToLots(quarters, per_lot, bound) ==
  IF quarters = 0 THEN 0
  ELSE IF bound = "MaxInput" THEN ToAtoms(quarters) \div per_lot
  ELSE IF ToAtoms(quarters) = 0 THEN 1
  ELSE CeilDiv(ToAtoms(quarters), per_lot)

\* A positive maximum input below one lot is an error, as is an overflow.
ToLotsFits(quarters, per_lot, bound) ==
  /\ ToAtoms(quarters) <= U64_MAX
  /\ (bound = "MaxInput" /\ quarters > 0) => ToLots(quarters, per_lot, bound) > 0
=============================================================================
