------------------------------- MODULE Market -------------------------------
(***************************************************************************)
(* A market from its creation to its close, and a taker's swaps on it.     *)
(*                                                                         *)
(* The SDK builds every instruction: InitializeMarket, ChangeMarketStatus, *)
(* UpdateMakerFee and UpdateTakerFee (ix_builder/market.rs) and Swap       *)
(* (ix_builder/swap.rs).  The program that executes them is external; what *)
(* it does with an instruction is taken from onchain/instruction.rs and    *)
(* from the functions of math/engine.rs and onchain/params.rs that mirror  *)
(* it.  A swap is built against one state of the market and executed       *)
(* against a later one: fees may change in between.                        *)
(***************************************************************************)
EXTENDS Engine

CONSTANTS
  Params,       \* the market parameters callers try
  FeeChoices,   \* the fees (ppm) the authority tries
  BuilderFees,  \* the builder fees (ppm) takers try
  Amounts,      \* the amounts takers ask for, in quarter atoms
  MaxBase,      \* bound: base lots one swap fills
  MaxTicks      \* bound: its price

ASSUME ChoicesAssumption ==
  /\ Params \subseteq MarketParams
  /\ FeeChoices \subseteq Int /\ BuilderFees \subseteq Nat
  /\ Amounts \subseteq Nat /\ MaxBase \in Nat /\ MaxTicks \in Nat

VARIABLES
  market,    \* the parameters, NoMarket before InitializeMarket
  status,    \* MarketStatus
  maker_fee, \* maker_fee_ppm
  taker_fee, \* taker_fee_ppm
  request,   \* what the taker asked for: amounts in quarter atoms
  swap,      \* the SwapParams built from it: amounts in lots
  fill       \* what the program made of it

admin == <<market, status, maker_fee, taker_fee>>
vars == <<admin, request, swap, fill>>

MarketStatus == {"Active", "Paused", "Closed", "Frozen"}
Sides == {"Bid", "Ask"}
SwapModes == {"MaxAmountIn", "MinAmountOut"}

NoMarket == [base_decimals |-> 0, base_lot |-> 0, quote_decimals |-> 0,
             quote_lot |-> 0, tick_size |-> 0, raw_base_units |-> 0]

Requests == [side : Sides, mode : SwapModes, amount : Amounts,
             threshold : Amounts, builder_fee_ppm : BuilderFees]
Swaps == [amount : Nat, threshold : Nat]
Fills == [base : Nat, quote : Nat, taker_fee : Int, maker_fee : Int, builder_fee : Nat]

NoRequest == [side |-> "none"]
NoSwap == [amount |-> 0, threshold |-> 0]
NoFill == [quote |-> -1]

Exists == market # NoMarket

\* The type of the state.
TypeOK ==
  /\ market \in MarketParams
  /\ status \in MarketStatus
  /\ maker_fee \in Int /\ taker_fee \in Int
  /\ request \in Requests \cup {NoRequest}
  /\ swap \in Swaps
  /\ fill \in Fills \cup {NoFill}

Init ==
  /\ market = NoMarket /\ status = "Active"
  /\ maker_fee = 0 /\ taker_fee = 0
  /\ request = NoRequest /\ swap = NoSwap /\ fill = NoFill

-----------------------------------------------------------------------------
(* The administration of the market *)

\* build_initialize_market_ix: validated parameters, and the fixed
\* permissionless fees, which are zero.
InitializeMarket(m) ==
  /\ ~Exists
  /\ ValidParams(m)
  /\ market' = m
  /\ UNCHANGED <<status, maker_fee, taker_fee, request, swap, fill>>

\* ChangeMarketStatusParams::validate: closed is final and a frozen market can
\* only be paused; every other change is let through, the idle one included.
ValidTransition(current, new) ==
  /\ current # "Closed"
  /\ current = "Frozen" => new = "Paused"

ChangeMarketStatus(new) ==
  /\ Exists
  /\ ValidTransition(status, new)
  /\ status' = new
  /\ UNCHANGED <<market, maker_fee, taker_fee, request, swap, fill>>

\* build_update_maker_fee_ix, given the market's current taker fee; the
\* program requires a paused market.
UpdateMakerFee(fee) ==
  /\ Exists /\ status = "Paused"
  /\ ValidFeePpm(fee)
  /\ fee + taker_fee >= 0
  /\ maker_fee' = fee
  /\ UNCHANGED <<market, status, taker_fee, request, swap, fill>>

\* build_update_taker_fee_ix, given the market's current maker fee.
UpdateTakerFee(fee) ==
  /\ Exists /\ status = "Paused"
  /\ ValidTakerFeePpm(fee)
  /\ maker_fee + fee >= 0
  /\ taker_fee' = fee
  /\ UNCHANGED <<market, status, maker_fee, request, swap, fill>>

-----------------------------------------------------------------------------
(* Swaps *)

\* What a request's two amounts bound, and the lot each converts with
\* (resolve_swap_amounts).
AmountBound(r) == IF r.mode = "MaxAmountIn" THEN "MaxInput" ELSE "MinOutput"
ThresholdBound(r) == IF r.mode = "MaxAmountIn" THEN "MinOutput" ELSE "MaxInput"
AmountInQuote(r) == (r.side = "Bid") <=> (r.mode = "MaxAmountIn")
AmountLot(r) == IF AmountInQuote(r) THEN market.quote_lot ELSE market.base_lot
ThresholdLot(r) == IF AmountInQuote(r) THEN market.base_lot ELSE market.quote_lot

\* build_swap_ix and the four wrappers around it.
BuildSwap(r) ==
  /\ Exists /\ request = NoRequest
  /\ r.builder_fee_ppm <= MAX_BUILDER_FEE_PPM
  /\ ToLotsFits(r.amount, AmountLot(r), AmountBound(r))
  /\ ToLotsFits(r.threshold, ThresholdLot(r), ThresholdBound(r))
  /\ request' = r
  /\ swap' = [amount |-> ToLots(r.amount, AmountLot(r), AmountBound(r)),
              threshold |-> ToLots(r.threshold, ThresholdLot(r), ThresholdBound(r))]
  /\ UNCHANGED <<admin, fill>>

\* SwapParams::validate.
SwapValid ==
  /\ swap.amount > 0
  /\ request.mode = "MinAmountOut" => swap.threshold > 0
  /\ request.builder_fee_ppm <= MAX_BUILDER_FEE_PPM

\* A fill of base lots worth quote lots, with the market's fees of the moment.
FillOf(base, quote) ==
  [base |-> base, quote |-> quote,
   taker_fee |-> CalculateFee(quote, taker_fee),
   maker_fee |-> CalculateFee(quote, maker_fee),
   builder_fee |-> BuilderFee(quote, request.builder_fee_ppm)]

\* Quote lots the taker pays for a bid, or receives for an ask.
QuotePaid(f) == f.quote + f.taker_fee + f.builder_fee
QuoteReceived(f) == f.quote - f.taker_fee - f.builder_fee

\* The program's acceptance of a fill (external): a bid that names what it
\* spends is matched within its budget; every other bound is compared with
\* what the taker pays or receives, fees included.
Accepts(f) ==
  LET buy == request.side = "Bid"
  IN  IF request.mode = "MaxAmountIn"
        THEN IF buy
          THEN /\ f.quote <= MaxAmountInBidBudget(swap.amount, taker_fee,
                                                  request.builder_fee_ppm)
               /\ f.base >= swap.threshold
          ELSE f.base <= swap.amount /\ QuoteReceived(f) >= swap.threshold
        ELSE IF buy
          THEN f.base >= swap.amount /\ QuotePaid(f) <= swap.threshold
          ELSE QuoteReceived(f) >= swap.amount /\ f.base <= swap.threshold

\* The program executes the swap (external), all of it at one price.
ExecuteSwap(base, ticks) ==
  /\ request # NoRequest /\ fill = NoFill
  /\ status = "Active"
  /\ SwapValid
  /\ QuoteAtomsFits(market, base, ticks)
  /\ LET f == FillOf(base, BaseToQuoteLots(market, base, ticks, request.side))
     IN  Accepts(f) /\ fill' = f
  /\ UNCHANGED <<admin, request, swap>>

\* The swap is over: the taker saw it settle or fail (external).
EndSwap ==
  /\ request # NoRequest
  /\ request' = NoRequest /\ swap' = NoSwap /\ fill' = NoFill
  /\ UNCHANGED admin

Next ==
  \/ \E m \in Params : InitializeMarket(m)
  \/ \E new \in MarketStatus : ChangeMarketStatus(new)
  \/ \E fee \in FeeChoices : UpdateMakerFee(fee) \/ UpdateTakerFee(fee)
  \/ \E r \in Requests : BuildSwap(r)
  \/ \E base \in 1..MaxBase, ticks \in 1..MaxTicks : ExecuteSwap(base, ticks)
  \/ EndSwap

Spec == Init /\ [][Next]_vars

-----------------------------------------------------------------------------
(* Properties *)

\* What the taker put in and got out, in atoms.
AtomsIn(f) == IF request.side = "Bid" THEN QuotePaid(f) * market.quote_lot
              ELSE f.base * market.base_lot
AtomsOut(f) == IF request.side = "Bid" THEN f.base * market.base_lot
               ELSE QuoteReceived(f) * market.quote_lot

\* "Rounding can never work against the taker": whatever was filled, and
\* whichever fees were in force by then, the taker spent at most the maximum
\* input asked for and got at least the minimum output, both to the nearest
\* atom and with the taker and builder fees counted.
TakerBoundsHold ==
  fill # NoFill =>
    LET most  == IF request.mode = "MaxAmountIn" THEN request.amount ELSE request.threshold
        least == IF request.mode = "MaxAmountIn" THEN request.threshold ELSE request.amount
    IN  AtomsIn(fill) <= ToAtoms(most) /\ AtomsOut(fill) >= ToAtoms(least)

\* The protocol never pays for a fill: the maker's rebate, rounded toward
\* zero, is covered by the taker's fee, rounded up.
ProtocolNeverPaysOut == fill # NoFill => fill.taker_fee + fill.maker_fee >= 0

\* On a market the builder lets through, matching and collateral agree to the
\* lot: a bid and an ask of the same size and price are worth the same, the
\* collateral config.rs computes for a bid is what filling it costs, and
\* converting back loses nothing.
ConversionsExact ==
  Exists =>
    \A base \in 0..MaxBase, ticks \in 1..MaxTicks :
      QuoteAtomsFits(market, base, ticks) =>
        LET quote == BaseToQuoteLots(market, base, ticks, "Bid")
        IN  /\ BaseToQuoteLots(market, base, ticks, "Ask") = quote
            /\ QuoteLotsCeil(market, base, ticks) = quote
            /\ QuoteToBaseFits(market, quote, ticks) =>
                 \A up \in BOOLEAN : QuoteToBaseLots(market, quote, ticks, up) = base

-----------------------------------------------------------------------------
(* The inductive invariant *)

\* The fees the authority may have set never net to a rebate.
FeesSound == taker_fee >= 0 /\ maker_fee + taker_fee >= 0

\* A swap in flight is what build_swap_ix made of the request, on a market
\* that passed validation.
SwapFromRequest ==
  /\ Exists => ValidParams(market)
  /\ request = NoRequest => fill = NoFill
  /\ request # NoRequest =>
       /\ Exists
       /\ swap = [amount |-> ToLots(request.amount, AmountLot(request), AmountBound(request)),
                  threshold |-> ToLots(request.threshold, ThresholdLot(request),
                                       ThresholdBound(request))]

IInv == TypeOK /\ FeesSound /\ SwapFromRequest /\ TakerBoundsHold /\ ProtocolNeverPaysOut
=============================================================================
