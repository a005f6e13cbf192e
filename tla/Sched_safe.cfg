\* Two CPUs, two processes.
CONSTANTS
  NCPU = 2
  NPROC = 2
  TICKMOD = 2
  Delays = {1}
SPECIFICATION Spec
INVARIANTS MutualExclusion OneCpuPerProcess NoLostWakeup 
