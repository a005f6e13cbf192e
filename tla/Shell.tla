------------------------------- MODULE Shell --------------------------------
(***************************************************************************)
(* The shell (sh.c) and the programs it runs, over Files: what a command   *)
(* line makes processes, descriptors and pipes do.                         *)
(*                                                                         *)
(* runcmd of a tree is the sequence of system calls that the process       *)
(* makes; what a forked child does is part of the operation Fork.  The     *)
(* programs are cat ("c") and echo ("e"); any other name fails in exec.    *)
(***************************************************************************)
EXTENDS Files, ShParser

CONSTANTS Lines,       \* the lines typed: tokens, and kills, how many kill calls meet them
          MaxLines,    \* bound on their number
          Texts        \* lines on which the parser is compared with the grammar

VARIABLE lines         \* how many lines were read

allvars == <<vars, lines>>

ASSUME ShellAssumption == MAXARGS \in Nat \ {0} /\ MaxLines \in Nat

-----------------------------------------------------------------------------
(* runcmd *)

RECURSIVE runcmd(_)
\* Fault variant: the runner keeps the write end while it waits.
runpipe_OpenEnd(left, right) ==
  <<Pipe,
    Fork(<<Close(1), Dup(P1), Close(P0), Close(P1)>> \o left),
    Fork(<<Close(0), Dup(P0), Close(P0), Close(P1)>> \o right),
    Close(P0), Wait, Wait, Exit>>
\* The two sides of a pipe, with their ends as descriptors 1 and 0.
runpipe(left, right) ==
  <<Pipe,
    Fork(<<Close(1), Dup(P1), Close(P0), Close(P1)>> \o left),
    Fork(<<Close(0), Dup(P0), Close(P0), Close(P1)>> \o right),
    Close(P0), Close(P1), Wait, Wait, Exit>>

\* Execute cmd.  Never returns.
runcmd(cmd) ==
  CASE cmd.type = "EXEC" -> IF cmd.argv = <<>> THEN <<Exit>> ELSE <<Exec(cmd.argv), Exit>>
    [] cmd.type = "REDIR" -> <<Close(cmd.fd), Open(cmd.mode)>> \o runcmd(cmd.cmd)
    [] cmd.type = "LIST" -> <<Fork(runcmd(cmd.left)), Wait>> \o runcmd(cmd.right)
    [] cmd.type = "PIPE" -> runpipe(runcmd(cmd.left), runcmd(cmd.right))
    [] cmd.type = "BACK" -> <<Fork(runcmd(cmd.cmd)), Exit>>

-----------------------------------------------------------------------------
(* Programs *)

\* cat: standard input, or each file in turn.
cat(argv) ==
  (IF Len(argv) = 1 THEN <<Read(0)>>
   ELSE FlattenSeq([i \in 1 .. Len(argv) - 1 |-> <<Open("r"), Read(FD), Close(FD)>>]))
  \o <<Exit>>
\* echo: printf writes byte by byte, at least two for each argument.
echo(argv) == [i \in 1 .. 2 * (Len(argv) - 1) |-> Write(1, <<i>>)] \o <<Exit>>

\* A new image keeps the descriptors; an unknown name returns to runcmd.
exec(p) ==
  /\ At(p, "exec")
  /\ LET argv == Op(p).argv IN
     Continue(p, CASE argv[1] = "c" -> cat(argv)
                   [] argv[1] = "e" -> echo(argv)
                   [] OTHER -> Rest(p))
  /\ UNCHANGED <<ftable, pipes, state, chan, family, killed, kills>>

-----------------------------------------------------------------------------
(* main *)

\* One turn of main's loop.  The child of the shell parses the line, and a panic
\* of the parser ends that child; cd is done by the shell itself.
MainLoop(s) ==
  IF s # <<>> /\ gettoken(s, 1) = "cd" THEN <<>>
  ELSE LET r == parsecmd(s)
       IN  <<Fork(IF r.i = 0 THEN <<Exit>> ELSE runcmd(r.cmd)), Wait>>

\* getcmd returns a line.
Prompt ==
  /\ todo[Sh] = <<>> /\ state[Sh] = "run" /\ lines < MaxLines
  /\ \E s \in Lines : Continue(Sh, MainLoop(s.tokens)) /\ kills' = s.kills
  /\ lines' = lines + 1
  /\ UNCHANGED <<ftable, pipes, state, chan, family, killed>>

Init == FilesInit /\ lines = 0

Step(p) == (FilesStep(p) \/ exec(p)) /\ UNCHANGED lines

Next == \/ Prompt
        \/ \E p \in Proc : Step(p)
        \/ \E p \in Proc : (InitWait(p) \/ kill(p)) /\ UNCHANGED lines

\* While some process can run, one is scheduled (Sched); nobody has to type or
\* to kill.
Fairness == WF_allvars(\E p \in Proc : Step(p))

Spec == Init /\ [][Next]_allvars /\ Fairness

-----------------------------------------------------------------------------
(* Properties *)

\* References to f: descriptors, and the locals of a pipealloc in progress.
Locals(p) == IF todo[p] = <<>> THEN {}
             ELSE CASE Op(p).do = "pipe1" -> {Op(p).f0}
                    [] Op(p).do = "pipe2" -> {Op(p).f0, Op(p).f1}
                    [] OTHER -> {}
References(f) == Cardinality({<<p, d>> \in (Proc \union {initproc}) \X Fd : ofile[p][d] = f})
                 + Cardinality({p \in Proc : f \in Locals(p)})
\* The ends of pipe pp that are referred to, and those being closed.
Ends(pp) == {e \in {"r", "w"} : \E f \in File : /\ ref[f] > 0 /\ file[f].pipe = pp
                                               /\ file[f].writable = (IF e = "w" THEN 1 ELSE 0)}
Closing(pp) == {e \in {"r", "w"} : \E p \in Proc : /\ todo[p] # <<>> /\ Op(p).do = "pipeclose"
                                                  /\ Op(p).pp = pp
                                                  /\ Op(p).writable = (IF e = "w" THEN 1 ELSE 0)}

\* The count that decides when fileclose gives up a file is the number of
\* descriptors and pointers to it, through fork, dup, exit and the failures of
\* pipealloc; an end of a pipe is open as long as a file refers to it or its
\* pipeclose is under way, and the page is kept exactly that long.
RefsExact ==
  /\ \A f \in File : ref[f] = References(f)
  /\ \A pp \in Page :
       /\ "r" \in Ends(pp) \union Closing(pp) <=> pipe[pp].readopen = 1
       /\ "w" \in Ends(pp) \union Closing(pp) <=> pipe[pp].writeopen = 1
       /\ pipe[pp].used = 1 <=> Ends(pp) \union Closing(pp) # {}

\* pipewrite and piperead with their wrapping counters implement a stream:
\* every read returns the oldest unread bytes, and returns none only when the
\* last reference to the write end is gone.
Contents(pp) ==
  IF Ends(pp) = {} THEN <<>>
  ELSE [i \in 1 .. (pipe[pp].nwrite - pipe[pp].nread) % WRAP
          |-> pipe[pp].data[(pipe[pp].nread + i - 1) % PIPESIZE]]
S == INSTANCE Stream WITH ends <- [pp \in Page |-> Ends(pp)],
                          queue <- [pp \in Page |-> Contents(pp)]
StreamRefinement == S!Spec

\* Whatever the line, the shell prompts again: readers get the end of their
\* input, writers without readers fail, and every wait is answered, also when
\* files, pages or processes run out or a process is killed.
PromptReturns == []<>(todo[Sh] = <<>>)

\* The recursive descent of sh.c accepts exactly the lines of the grammar, with
\* the tree the grammar gives them (evaluated once, before the first line).
ParserRight ==
  lines = 0 => \A s \in Texts :
                 LET r == parsecmd(s) IN Grammar(s) = IF r.i = 0 THEN Bad ELSE r.cmd

=============================================================================
