------------------------------ MODULE ShParser ------------------------------
(***************************************************************************)
(* The parser of the shell (sh.c), and the grammar it is meant to accept.  *)
(*                                                                         *)
(* A line is a sequence of tokens, as gettoken cuts them; a word is any    *)
(* token that is not a symbol.  parsecmd and the functions below it are    *)
(* the recursive descent of the code: each takes the line and the position *)
(* *ps, and returns a tree and the new position.  Position 0 is a panic,   *)
(* which ends the process that parses.                                     *)
(***************************************************************************)
EXTENDS Integers, SequencesExt

CONSTANT MAXARGS

Symbol == {"|", "&", ";", "(", ")", "<", ">", ">>"}
End == ""

\* The token at i, as gettoken and peek see it.
gettoken(s, i) == IF i > Len(s) THEN End ELSE s[i]
IsWord(t) == t \notin Symbol \union {End}

-----------------------------------------------------------------------------
(* Trees *)

execcmd(argv) == [type |-> "EXEC", argv |-> argv]
redircmd(c, r) == [type |-> "REDIR", cmd |-> c, fd |-> r.fd, mode |-> r.mode]
pipecmd(l, r) == [type |-> "PIPE", left |-> l, right |-> r]
listcmd(l, r) == [type |-> "LIST", left |-> l, right |-> r]
backcmd(c) == [type |-> "BACK", cmd |-> c]

Redirection(t) == IF t = "<" THEN [fd |-> 0, mode |-> "r"] ELSE [fd |-> 1, mode |-> "w"]
\* Each redirection goes around what is there: the last one is outermost.
Wrap(c, rs) == FoldLeft(redircmd, c, rs)

-----------------------------------------------------------------------------
(* Recursive descent *)

Panic == [cmd |-> execcmd(<<>>), rs |-> <<>>, argv |-> <<>>, i |-> 0]
Parsed(c, i) == [cmd |-> c, i |-> i]

RECURSIVE parseredirs(_, _), parseargs(_, _, _), parsepipe(_, _), parseback(_, _), parseline(_, _)

\* while(peek(ps, es, "<>")): the redirections from i on.
AddRedir(t, r) == IF r.i = 0 THEN Panic ELSE [rs |-> <<Redirection(t)>> \o r.rs, i |-> r.i]
parseredirs(s, i) ==
  IF gettoken(s, i) \notin {"<", ">", ">>"} THEN [rs |-> <<>>, i |-> i]
  ELSE IF ~IsWord(gettoken(s, i + 1)) THEN Panic    \* missing file for redirection
  ELSE AddRedir(s[i], parseredirs(s, i + 2))

\* Fault variant: the slot of the terminating 0 is given to an argument.
TooMany_OffByOne(argv) == Len(argv) > MAXARGS
\* argc >= MAXARGS.
TooMany(argv) == Len(argv) >= MAXARGS

MoreRedirs(rs, r) == [rs |-> rs \o r.rs, i |-> r.i]
\* while(!peek(ps, es, "|)&;")): the arguments, each followed by redirections
\* (redirs are those so far).
parseargs(s, argv, redirs) ==
  LET i == redirs.i IN
  IF i = 0 \/ TooMany(argv) THEN Panic
  ELSE IF gettoken(s, i) \in {"|", ")", "&", ";", End} THEN Parsed(Wrap(execcmd(argv), redirs.rs), i)
  ELSE IF ~IsWord(s[i]) THEN Panic                  \* syntax
  ELSE parseargs(s, Append(argv, s[i]), MoreRedirs(redirs.rs, parseredirs(s, i + 1)))

\* parseblock: a line between parentheses, then redirections.
WrapBlock(c, r) == IF r.i = 0 THEN Panic ELSE Parsed(Wrap(c, r.rs), r.i)
CloseBlock(s, r) == IF r.i = 0 \/ gettoken(s, r.i) # ")" THEN Panic   \* missing )
                    ELSE WrapBlock(r.cmd, parseredirs(s, r.i + 1))
parseblock(s, i) == CloseBlock(s, parseline(s, i + 1))

parseexec(s, i) == IF gettoken(s, i) = "(" THEN parseblock(s, i)
                   ELSE parseargs(s, <<>>, parseredirs(s, i))

\* After the left side: the rest of the pipe, if there is one.
Join(tree(_, _), left, right) == IF right.i = 0 THEN Panic
                                 ELSE Parsed(tree(left.cmd, right.cmd), right.i)
RightOfPipe(s, left) == IF left.i = 0 \/ gettoken(s, left.i) # "|" THEN left
                        ELSE Join(pipecmd, left, parsepipe(s, left.i + 1))
parsepipe(s, i) == RightOfPipe(s, parseexec(s, i))

\* while(peek(ps, es, "&")), around the tree parsed so far.
parseback(s, r) ==
  IF r.i = 0 \/ gettoken(s, r.i) # "&" THEN r
  ELSE parseback(s, Parsed(backcmd(r.cmd), r.i + 1))

RightOfList(s, left) == IF left.i = 0 \/ gettoken(s, left.i) # ";" THEN left
                        ELSE Join(listcmd, left, parseline(s, left.i + 1))
parseline(s, i) == RightOfList(s, parseback(s, parsepipe(s, i)))

\* The whole line must be consumed.
Consumed(s, r) == IF r.i # 0 /\ gettoken(s, r.i) # End THEN Panic ELSE r
parsecmd(s) == Consumed(s, parseline(s, 1))

-----------------------------------------------------------------------------
(* The grammar, by cutting the line at the symbols outside parentheses:    *)
(* ";" binds least, then "&", then "|"; Bad is a line that is in error.    *)

Bad == [type |-> "BAD"]

Count(s, t) == Len(SelectSeq(s, LAMBDA x : x = t))
Depth(s, i) == Count(SubSeq(s, 1, i), "(") - Count(SubSeq(s, 1, i), ")")
\* The places of t outside parentheses.
Cuts(s, t) == {i \in 1 .. Len(s) : s[i] = t /\ Depth(s, i) = 0}
Before(s, i) == SubSeq(s, 1, i - 1)
After(s, i) == SubSeq(s, i + 1, Len(s))

\* Redirections only, each with its file.
IsRedirs(s) == /\ Len(s) % 2 = 0
               /\ \A i \in 1 .. Len(s) : IF i % 2 = 1 THEN s[i] \in {"<", ">", ">>"}
                                                      ELSE IsWord(s[i])
Operators(s) == SelectSeq(s, LAMBDA t : t \in {"<", ">", ">>"})
Redirs(s) == [i \in 1 .. Len(Operators(s)) |-> Redirection(Operators(s)[i])]
\* A word is the file of the operator before it, or else an argument.
IsArgument(s, i) == IsWord(s[i]) /\ (i = 1 \/ IsWord(s[i - 1]))
Arguments(s) ==
  LET places == SelectSeq([i \in 1 .. Len(s) |-> i], LAMBDA i : IsArgument(s, i))
  IN  [k \in 1 .. Len(places) |-> s[places[k]]]

RECURSIVE Grammar(_)
Tree(make(_, _), l, r) == IF l = Bad \/ r = Bad THEN Bad ELSE make(l, r)
First(S) == CHOOSE i \in S : \A j \in S : i <= j

\* A command without ; & | : a block, or words and redirections.
Block(inner, tail) == IF inner = Bad \/ ~IsRedirs(tail) THEN Bad ELSE Wrap(inner, Redirs(tail))
BlockTo(s, j) == Block(Grammar(SubSeq(s, 2, j - 1)), After(s, j))
IsWords(s) == /\ \A i \in 1 .. Len(s) : s[i] \notin {"|", "&", ";", "(", ")"}
              /\ \A i \in 1 .. Len(s) : IsWord(s[i]) \/ IsWord(gettoken(s, i + 1))
              /\ Len(Arguments(s)) < MAXARGS
Simple(s) ==
  LET closing == {i \in 2 .. Len(s) : s[i] = ")" /\ Depth(s, i) = 0} IN
  IF s = <<>> \/ gettoken(s, 1) # "("
  THEN IF IsWords(s) THEN Wrap(execcmd(Arguments(s)), Redirs(s)) ELSE Bad
  ELSE IF closing = {} THEN Bad ELSE BlockTo(s, First(closing))

\* The tree of a line: cut at the first ";", then before a last "&", then at
\* the first "|".
ListAt(s, i) == Tree(listcmd, Grammar(Before(s, i)), Grammar(After(s, i)))
Back(c) == IF c = Bad THEN Bad ELSE backcmd(c)
PipeAt(s, i) == IF Cuts(s, "&") # {} THEN Bad
                ELSE Tree(pipecmd, Simple(Before(s, i)), Grammar(After(s, i)))
Grammar(s) ==
  IF Cuts(s, ";") # {} THEN ListAt(s, First(Cuts(s, ";")))
  ELSE IF s # <<>> /\ s[Len(s)] = "&" THEN Back(Grammar(Front(s)))
  ELSE IF Cuts(s, "|") # {} THEN PipeAt(s, First(Cuts(s, "|")))
  ELSE Simple(s)

=============================================================================
