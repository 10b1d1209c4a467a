SPECIFICATION RetrySpec
CONSTANTS
  Ids <- TwoBidsOneAsk
  MaxSize = 2
  U64_MAX = 9
  MAX_LEVELS = 2
  MAX_LEVEL_OPS = 1
  MAX_SEATED_MAKERS = 1
  MAX_SEQUENCE_JUMP = 5
  Me = me
  Books = {me, o1}
  MMBooks = {}
  Tasks = {t1}
  Calls = {"cancel"}
  Modes = {"Any"}
  MaxBatch = 2
  MaxSeq = 6
  MaxEpoch = 1
PROPERTIES CancelGetsThrough
