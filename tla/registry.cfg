SPECIFICATION Spec
CONSTANTS
  Books = {mm, lo1, lo2}
  MMBooks = {mm}
  MMQuotes <- TheMMQuotes
  LOQuotes <- TheLOQuotes
  Suspendable = {mm}
  Updaters = {u1}
  MAX_SEATED_MAKERS = 2
  MAX_MAKER_BOOKS_PER_AUCTION = 2
  MaxVersion = 2
SYMMETRY Symmetry
INVARIANTS SteadySeatsReported CapKeepsBest OnlyClosingFailsRoute
PROPERTIES NoSeatOverwritten
