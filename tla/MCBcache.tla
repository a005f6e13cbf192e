------------------------------ MODULE MCBcache ------------------------------
(* Finite instances of the buffer cache and its driver. *)
EXTENDS Bcache, TLC

CONSTANTS p1, p2, p3, s1, s2, s3, s4, v1, v2

Sym == Permutations(Proc) \union Permutations(Sector)
=============================================================================
