\* One CPU, two processes, a tick counter that wraps.
CONSTANTS
  NCPU = 1
  NPROC = 2
  TICKMOD = 3
  Delays = {1, 2}
SPECIFICATION FairSpec
 
PROPERTIES EventuallyRuns
