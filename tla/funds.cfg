SPECIFICATION Spec
CONSTANTS
  U64_MAX = 1000
  U128_MAX = 1002000
  PPM_DIVISOR = 10
  MIN_FEE_PPM <- MinFee
  MAX_FEE_PPM = 10
  MAX_BUILDER_FEE_PPM = 3
  MAX_DECIMALS = 2
  MAX_PARAM = 500
  MAX_TICKS = 200
  SUBTICKS = 4
  SUBLOTS = 2
  MAX_LEVELS = 2
  MAX_SEQUENCE_JUMP = 3
  TheMarket <- FractionalMarket
  Tasks = {t1}
  Ops = {"update", "mid", "drain", "fill"}
  TwoSidedQuotes <- FundQuotes
  Mids = {1, 3}
  Deposits = {8}
  Fees = {0, 3}
  Expiries = {}
  BaseFunds = 1
  MaxSize = 2
  MaxSeq = 4
  MaxSlot = 1
  MaxFunds = 18
  MaxBase = 6
PROPERTIES EstimateIsLocked
INVARIANTS FreshDrainLands
