------------------------------- MODULE TxDisk -------------------------------
(***************************************************************************)
(* What the logging layer (log.c) promises the file system, without saying *)
(* how: a disk whose durable contents change only by whole groups of       *)
(* system calls.  Processes run FS operations between begin_op and end_op; *)
(* their writes go to a volatile image; the image becomes durable in one   *)
(* step, only when no operation is in progress; a crash drops the volatile *)
(* image back to the durable one.                                          *)
(***************************************************************************)
CONSTANTS Proc,      \* processes that run FS system calls
          Block,     \* disk blocks outside the log area
          Val        \* block contents

VARIABLES durable,   \* what a recovery would leave on the disk
          pending,   \* what the running system reads
          active     \* processes between begin_op and end_op

txvars == <<durable, pending, active>>

Init ==
  /\ durable \in [Block -> Val]
  /\ pending = durable
  /\ active = {}

Begin(p) ==
  /\ p \notin active
  /\ active' = active \union {p}
  /\ UNCHANGED <<durable, pending>>

Write(p, b, v) ==
  /\ p \in active
  /\ pending' = [pending EXCEPT ![b] = v]
  /\ UNCHANGED <<durable, active>>

End(p) ==
  /\ p \in active
  /\ active' = active \ {p}
  /\ UNCHANGED <<durable, pending>>

(***************************************************************************)
(* The only step that changes the durable contents.  It takes all of the   *)
(* volatile image, so no system call is ever half on the disk.             *)
(***************************************************************************)
Commit ==
  /\ active = {}
  /\ durable' = pending
  /\ UNCHANGED <<pending, active>>

Crash ==
  /\ pending' = durable
  /\ active' = {}
  /\ UNCHANGED durable

Next ==
  \/ \E p \in Proc : Begin(p) \/ End(p)
  \/ \E p \in Proc, b \in Block, v \in Val : Write(p, b, v)
  \/ Commit
  \/ Crash

Spec == Init /\ [][Next]_txvars
=============================================================================
