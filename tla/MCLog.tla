-------------------------------- MODULE MCLog --------------------------------
(* Finite instances of the logging layer. *)
EXTENDS Log

CONSTANTS p1, p2, b1, b2, v1, v2
=============================================================================
