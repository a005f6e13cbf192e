------------------------------ MODULE MCProcfs ------------------------------
(* Paths down /proc to processes that come and go, and, for the run that lets  *)
(* a reference be lost, up again.                                              *)
EXTENDS Procfs

Down(op, names) == [op |-> op, abs |-> 1, names |-> names]
Proc == Word("proc")
MCWalks == {Down("open", <<Proc, Word("blockstat")>>),
            Down("open", <<Proc, Pid(2), Word("fdinfo"), FdName(1)>>),
            Down("open", <<Proc, Pid(93), Word("fdinfo"), FdName(0)>>),
            Down("chdir", <<Proc, Pid(3)>>),
            Down("chdir", <<Proc, Word("blockstat"), Word("..")>>)}
MCUp == {Down("open", <<Proc>>), Down("chdir", <<Proc, Pid(1)>>),
         [op |-> "open", abs |-> 0, names |-> <<Word("..")>>]}

=============================================================================
