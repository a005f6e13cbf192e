----------------------------- MODULE MCConsole ------------------------------
(* Control (left, and right with its E0 prefix, down and up), shift, caps lock *)
(* and d on the keyboard; ^D, backspace, return and ^U on the serial line.     *)
EXTENDS ConsoleLine

E(code, ext, up) == [code |-> code, ext |-> ext, up |-> up]
MCKeys == {E(29, 0, 0), E(29, 1, 0), E(29, 1, 1), E(42, 0, 0), E(58, 0, 0), E(32, 0, 0)}
MCChars == {4, 8, 13, 21}

=============================================================================
