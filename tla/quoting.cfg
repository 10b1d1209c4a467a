SPECIFICATION Spec
CONSTANTS
  U64_MAX = 1000
  U128_MAX = 1002000
  PPM_DIVISOR = 10
  MIN_FEE_PPM <- MinFee
  MAX_FEE_PPM = 10
  MAX_BUILDER_FEE_PPM = 3
  MAX_DECIMALS = 2
  MAX_PARAM = 500
  MAX_TICKS = 200
  SUBTICKS = 4
  SUBLOTS = 2
  MAX_LEVELS = 2
  MAX_SEQUENCE_JUMP = 3
  TheMarket <- WholeMarket
  Tasks = {t1, t2}
  Ops = {"update", "update_book", "mid", "clear"}
  TwoSidedQuotes <- RaceQuotes
  Mids = {2, 3}
  Deposits = {12}
  Fees = {0}
  Expiries = {0}
  BaseFunds = 2
  MaxSize = 1
  MaxSeq = 4
  MaxSlot = 1
  MaxFunds = 12
  MaxBase = 2
PROPERTIES OverwritesAtMostOne
INVARIANTS MidSplitsQuote
