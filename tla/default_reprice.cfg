SPECIFICATION Spec
CONSTANTS
  Ids <- TwoBidsOneAsk
  MaxSize = 2
  U64_MAX = 9
  MAX_LEVELS = 2
  MAX_LEVEL_OPS = 2
  MAX_SEATED_MAKERS = 1
  MAX_SEQUENCE_JUMP = 5
  Me = me
  Books = {me}
  MMBooks = {}
  Tasks = {t1}
  Calls = {"place", "modify", "replace_all"}
  Modes = {"Any"}
  MaxBatch = 2
  MaxSeq = 3
  MaxEpoch = 1
PROPERTIES FillFailsTheWrite
