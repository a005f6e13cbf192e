------------------------------- MODULE MCTree -------------------------------
(* Finite instances of the directory tree. *)
EXTENDS Tree

CONSTANTS p1, p2

C(op, path, new) == [op |-> op, path |-> path, new |-> new]

OneDir == [n \in FileName |-> IF n = "a" THEN 2 ELSE 0]

\* A directory a and files in it and beside it, named, renamed and removed.
RaceCalls ==
  {C("mkdir", <<"a">>, <<>>), C("creat", <<"a", "b">>, <<>>), C("unlink", <<"a">>, <<>>),
   C("unlink", <<"a", "b">>, <<>>), C("link", <<"a", "b">>, <<"b">>), C("chdir", <<"a">>, <<>>),
   C("chdir", <<"/">>, <<>>), C("open", <<"b">>, <<>>)}

\* Nested directories, one of which is somebody's current directory.
DotDotCalls ==
  {C("mkdir", <<"/", "a">>, <<>>), C("mkdir", <<"/", "a", "a">>, <<>>),
   C("chdir", <<"/", "a", "a">>, <<>>), C("unlink", <<"/", "a", "a">>, <<>>),
   C("unlink", <<"/", "a">>, <<>>)}
=============================================================================
