\* Four slots that are reused; kills of the shell and of its first child.
CONSTANTS
  NPROC = 4
  MaxPid = 5
  KillPids = {2, 3}
\* init may run out of processes and exit, which stops the machine.
CHECK_DEADLOCK FALSE
SPECIFICATION FairSpec
INVARIANTS ParentAlive EmbryoOwned NoMissedChild
PROPERTIES KilledExits OrphansReaped
