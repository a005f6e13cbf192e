------------------------------ MODULE MCShell -------------------------------
(* Lines that use every construct, and more processes, files and pages than   *)
(* there are; the parser on all short token sequences.                        *)
EXTENDS Shell

Typed(tokens) == [tokens |-> tokens, kills |-> 0]
MCLines == {[tokens |-> <<"c", "<", "f", "|", "c">>, kills |-> 1],
            [tokens |-> <<"c", "f", "|", "e", "f">>, kills |-> 1],
            Typed(<<"c", "<", "f", "|", "c", "|", "x">>),
            Typed(<<"(", "e", "f", ";", "c", "f", ")", "|", "(", "c", ";", "x", ")">>),
            Typed(<<"e", "f", "|", "c", "&">>),
            Typed(<<"(", "x", ">", "f", ";">>), Typed(<<"cd", "f">>)}
MCTexts == BoundedSeq({"c", "|", ";", "&", "(", ")", "<"}, 5)

=============================================================================
