\* More sectors than buffers, and the log may pin every buffer; a process that
\* then needs one panics and the machine stops.
CONSTANTS
  p1 = p1  p2 = p2  p3 = p3
  s1 = s1  s2 = s2  s3 = s3  s4 = s4
  v1 = v1  v2 = v2
  NoSector = NoSector  NoBuf = NoBuf  NoProc = NoProc
  Proc = {p1, p2, p3}
  Sector = {s1, s2, s3}
  Val = {v1, v2}
  NBUF = 2
  MaxPinned = 2
  ReadErrors = FALSE
SYMMETRY Sym
SPECIFICATION Spec
INVARIANTS ExclusiveOwner QueueSound BuffersAccounted NoLostWakeup
PROPERTIES StoreRefinement
CHECK_DEADLOCK FALSE
