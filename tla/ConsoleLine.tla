---------------------------- MODULE ConsoleLine -----------------------------
(* The console, seen as the line input that it promises to its readers.      *)
EXTENDS Console

\* A key by its meaning.
Meaning(ev) ==
  [up |-> ev.up,
   mod |-> CASE ev.code = 29 -> "CTL" [] ev.code = 42 -> "SHIFT" [] ev.code = 58 -> "CAPSLOCK"
             [] OTHER -> "none",
   letter |-> CASE ev.code = 28 -> 10 [] ev.code = 32 -> 100 [] OTHER -> 0]
Between(a, z) == [i \in 1 .. Minus(z, a) |-> At(a + i - 1)]

\* The ring with its three wrapping indices, the scan code decoder and the two
\* interrupt handlers implement an editable line: consoleintr never changes what
\* is committed, consoleread returns it in order, ends reads where it should, and
\* a full buffer is committed.
L == INSTANCE LineInput WITH
       SIZE <- INPUT_BUF, keys <- [i \in DOMAIN keys |-> Meaning(keys[i])],
       mods <- shift \ {"E0ESC"}, committed <- Between(r, w), editing <- Between(w, e),
       reading <- [p \in Reader |-> pc[p] # "user"], want <- n
LineRefinement == L!Spec

=============================================================================
