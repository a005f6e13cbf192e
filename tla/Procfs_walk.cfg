CONSTANTS
  NPROC = 6
  NOFILE = 2
  NINODE = 7
  Caller = {0, 2}
  FirstPids = {1, 91}
  Walks <- MCWalks
  MaxForks = 1
  MaxCalls = 2
  OFFS = 11
SPECIFICATION Spec
INVARIANTS RefsExact 
PROPERTY LookupEnds
CHECK_DEADLOCK FALSE
