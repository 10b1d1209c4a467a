SPECIFICATION Spec
CONSTANTS
  U64_MAX = 1000
  U128_MAX = 1002000
  PPM_DIVISOR = 10
  MIN_FEE_PPM <- MinFee
  MAX_FEE_PPM = 10
  MAX_BUILDER_FEE_PPM = 10
  MAX_DECIMALS = 2
  MAX_PARAM = 500
  MAX_TICKS = 200
  Owner = owner
  Platforms = {d1, d2}
  Callers = {owner, d1}
  Account = acct
  NoKey = none
  BuilderPpms = {0, 10}
  Notional = 1
  MaxTokens = 1
  MaxSol = 1
INVARIANTS TypeOK LockedOutOnlyByRotation CheckedTxLands
PROPERTIES FeesWithinGrant
