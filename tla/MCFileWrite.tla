---------------------------- MODULE MCFileWrite -----------------------------
(* Finite instances of filewrite. *)
EXTENDS FileWrite

CONSTANTS p1, p2

\* Lengths and sizes at and around block, chunk and file boundaries.
RealLengths == {0, 1, 512, 6655, 6656, 6657, 65000}
RealSizes == {0, 511, 6144, 6145, 65024, 71680}
=============================================================================
