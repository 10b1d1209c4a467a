SPECIFICATION Spec
CONSTANTS
  U64_MAX = 31
  U128_MAX = 33554431
  PPM_DIVISOR = 10
  MIN_FEE_PPM <- MinFee
  MAX_FEE_PPM = 10
  MAX_BUILDER_FEE_PPM = 3
  MAX_DECIMALS = 2
  MAX_PARAM = 500
  MAX_TICKS = 200
  Params <- SomeParams
  FeeChoices <- SomeFees
  BuilderFees = {0, 3, 4}
  Amounts <- SomeAmounts
  MaxBase = 3
  MaxTicks = 3
INVARIANTS TakerBoundsHold ProtocolNeverPaysOut ConversionsExact
