SPECIFICATION Spec
CONSTANTS
  Ids <- TwoBids
  MaxSize = 2
  U64_MAX = 9
  MAX_LEVELS = 2
  MAX_LEVEL_OPS = 2
  MAX_SEATED_MAKERS = 0
  MAX_SEQUENCE_JUMP = 5
  Me = me
  Books = {me}
  MMBooks = {}
  Tasks = {t1, t2}
  Calls <- ReadWriteCalls
  Modes = {"Any", "Strict"}
  MaxBatch = 1
  MaxSeq = 2
  MaxEpoch = 2
SYMMETRY Symmetry
INVARIANTS TypeOK ReadsAreHistory
PROPERTIES NoLostUpdate GuardedWriteSeesNoFill LandedBookIsPlanned ImplementsLedger
