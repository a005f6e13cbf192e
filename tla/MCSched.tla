------------------------------ MODULE MCSched -------------------------------
(* Finite instances of the scheduler and sleep/wakeup. *)
EXTENDS Sched
=============================================================================
