CONSTANTS
  NPROC = 6
  NOFILE = 2
  NINODE = 7
  Caller = {0, 2}
  FirstPids = {1}
  Walks <- MCUp
  MaxForks = 0
  MaxCalls = 3
  OFFS = 11
SPECIFICATION Spec
INVARIANT RefsExact
CHECK_DEADLOCK FALSE
