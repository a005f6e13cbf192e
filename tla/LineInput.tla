----------------------------- MODULE LineInput ------------------------------
(***************************************************************************)
(* What the console promises to those who read from it: the line being     *)
(* typed can be edited until it is committed, by its end, by ^D or because *)
(* there is no room for more; committed characters are read once each, in  *)
(* order; a read ends at the end of a line, and ^D ends it early or, at    *)
(* its start, gives an empty read.                                         *)
(***************************************************************************)
EXTENDS Integers, SequencesExt

CONSTANTS Reader,
          SIZE         \* how many characters fit

VARIABLES keys, serial,        \* key events and serial characters to come
          mods,                \* modifiers that are on
          committed, editing,  \* characters that can be read, and edited
          reading, want, got   \* reads: under way or not, length, characters so far

vars == <<keys, serial, mods, committed, editing, reading, want, got>>
input == <<keys, serial, mods, editing>>
reads == <<reading, want, got>>

NL == 10
EOF == 4

Init == /\ keys = <<>> /\ serial = <<>> /\ mods = {} /\ committed = <<>> /\ editing = <<>>
        /\ reading = [p \in Reader |-> FALSE] /\ want = [p \in Reader |-> 0]
        /\ got = [p \in Reader |-> <<>>]

Arrive == /\ \/ /\ IsPrefix(keys, keys') /\ UNCHANGED serial
             \/ /\ IsPrefix(serial, serial') /\ UNCHANGED keys
          /\ UNCHANGED <<mods, committed, editing, reads>>

\* A character is typed.  Where there is no room it is dropped.
Insert(c) ==
  LET line == Append(editing, c) IN
  IF Len(committed) + Len(editing) = SIZE THEN UNCHANGED <<committed, editing>>
  ELSE IF c \in {NL, EOF} \/ Len(committed \o line) = SIZE
  THEN committed' = committed \o line /\ editing' = <<>>
  ELSE editing' = line /\ UNCHANGED committed
Edit(c) ==
  CASE c \in {0, 16} -> UNCHANGED <<committed, editing>>
    [] c = 21 -> editing' = <<>> /\ UNCHANGED committed
    [] c \in {8, 127} -> editing' = (IF editing = <<>> THEN <<>> ELSE Front(editing)) /\ UNCHANGED committed
    [] OTHER -> Insert(IF c = 13 THEN NL ELSE c)

\* A key event is a modifier, a lock, or a letter in its case (or control).
Letter(ev) == IF "CTL" \in mods THEN ev.letter - 96
              ELSE IF ("SHIFT" \in mods) # ("CAPSLOCK" \in mods) THEN ev.letter - 32 ELSE ev.letter
KeyEvent ==
  /\ keys # <<>>
  /\ LET ev == Head(keys) IN
     IF ev.mod # "none"
     THEN /\ mods' = IF ev.up = 1 THEN (IF ev.mod = "CAPSLOCK" THEN mods ELSE mods \ {ev.mod})
                     ELSE IF ev.mod = "CAPSLOCK" THEN SymDiff(mods, {"CAPSLOCK"})
                     ELSE mods \union {ev.mod}
          /\ UNCHANGED <<committed, editing>>
     ELSE /\ IF ev.up = 1 THEN UNCHANGED <<committed, editing>>
             ELSE Edit(IF ev.letter = NL THEN NL ELSE Letter(ev))
          /\ UNCHANGED mods
  /\ keys' = Tail(keys) /\ UNCHANGED <<serial, reads>>

SerialChar == /\ serial # <<>> /\ Edit(Head(serial)) /\ serial' = Tail(serial)
              /\ UNCHANGED <<keys, mods, reads>>

Start(p) == /\ ~reading[p]
            /\ reading' = [reading EXCEPT ![p] = TRUE]
            /\ want' = [want EXCEPT ![p] = want'[p]]
            /\ UNCHANGED <<input, committed, got>>
Ended(p) == Len(got[p]) = want[p] \/ (got[p] # <<>> /\ Last(got[p]) = NL)
Take(p) == /\ reading[p] /\ ~Ended(p) /\ committed # <<>> /\ Head(committed) # EOF
           /\ got' = [got EXCEPT ![p] = Append(@, Head(committed))]
           /\ committed' = Tail(committed)
           /\ UNCHANGED <<input, reading, want>>
Reset(p) == /\ reading' = [reading EXCEPT ![p] = FALSE]
            /\ want' = [want EXCEPT ![p] = 0] /\ got' = [got EXCEPT ![p] = <<>>]
Return(p) == /\ reading[p]
             /\ \/ Ended(p) /\ UNCHANGED committed
                \/ /\ ~Ended(p) /\ committed # <<>> /\ Head(committed) = EOF
                   /\ committed' = IF got[p] = <<>> THEN Tail(committed) ELSE committed
             /\ Reset(p) /\ UNCHANGED input
\* A killed reader gives up when there is nothing to read.
Fail(p) == /\ reading[p] /\ committed = <<>>
           /\ Reset(p) /\ UNCHANGED <<input, committed>>

Next == \/ Arrive \/ KeyEvent \/ SerialChar
        \/ \E p \in Reader : Start(p) \/ Take(p) \/ Return(p) \/ Fail(p)

Spec == Init /\ [][Next]_vars

=============================================================================
