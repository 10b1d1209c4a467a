SPECIFICATION Spec
CONSTANTS
  Ids <- TwoBidsTwoAsks
  MaxSize = 2
  U64_MAX = 9
  MAX_LEVELS = 1
  MAX_LEVEL_OPS = 1
  MAX_SEATED_MAKERS = 2
  MAX_SEQUENCE_JUMP = 5
  Me = me
  Books = {me, o1, mm}
  MMBooks = {mm}
  Tasks = {t1}
  Calls <- AllCalls
  Modes = {"Any", "Strict"}
  MaxBatch = 2
  MaxSeq = 4
  MaxEpoch = 1
INVARIANTS FreshTxLands
