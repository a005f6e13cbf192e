\* Two processes that write up to two blocks per call, crashes at every point,
\* under fair scheduling.
CONSTANTS
  p1 = p1  p2 = p2
  b1 = b1  b2 = b2
  v1 = v1  v2 = v2
  NoVal = NoVal
  Proc = {p1, p2}
  Block = {b1, b2}
  Val = {v1, v2}
  MAXOPBLOCKS = 3
  LOGSIZE = 6
  NLOG = 7
  OPBLOCKS = 2
SPECIFICATION FairSpec
INVARIANTS Reservation 
PROPERTIES TxRefinement WriteAhead LogProgress
