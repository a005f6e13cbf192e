------------------------------- MODULE MCProc -------------------------------
(* Finite instances of the process table. *)
EXTENDS Proc
=============================================================================
