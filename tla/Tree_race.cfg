\* Two processes race on one directory.
CONSTANTS
  p1 = p1  p2 = p2
  Proc = {p1, p2}
  NINODES = 5
  FileName = {"a", "b"}
  Image <- OneDir
  Calls <- RaceCalls
  MaxCalls = 4
\* The machine stops when the calls are used up; CallsReturn finds deadlocks.
CHECK_DEADLOCK FALSE
SPECIFICATION FairSpec
INVARIANTS RefsExact LinksCovered UnlinkedFreed CacheCurrent
PROPERTIES CallsReturn
