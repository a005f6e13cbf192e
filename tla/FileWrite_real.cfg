\* The sizes of param.h and fs.h; two processes share the open file.
CONSTANTS
  p1 = p1  p2 = p2
  Proc = {p1, p2}
  BSIZE = 512
  NDIRECT = 12
  NINDIRECT = 128
  LOGSIZE = 30
  MAXOPBLOCKS = 10
  Lengths <- RealLengths
  InitSizes <- RealSizes
  MaxCalls = 3
SPECIFICATION Spec
INVARIANTS BlocksMatchSize SpansDisjoint
