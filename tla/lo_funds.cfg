SPECIFICATION Spec
CONSTANTS
  U64_MAX = 1000
  U128_MAX = 1002000
  PPM_DIVISOR = 10
  MIN_FEE_PPM <- MinFee
  MAX_FEE_PPM = 10
  MAX_BUILDER_FEE_PPM = 3
  MAX_DECIMALS = 2
  MAX_PARAM = 500
  MAX_TICKS = 200
  SUBTICKS = 1
  SUBLOTS = 1
  MAX_LEVELS = 2
  MAX_SEQUENCE_JUMP = 3
  TheMarket <- UnitMarket
  Ids <- TwoBidsOneAsk
  MaxSize = 2
  Tasks = {t1}
  Fees = {0, 4}
  Pads = {0, 1, 2}
  Modes = {"Any"}
  WalletBase = 1
  WalletQuote = 8
  OrderSets <- FewOrders
  MaxSeq = 2
  MaxOpen = 1
INVARIANTS TypeOK DepositSuffices CancelFreesCollateral FreshCloseLands
