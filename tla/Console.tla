------------------------------ MODULE Console -------------------------------
(***************************************************************************)
(* Console input: the keyboard (kbd.c) and the serial line (uart.c) feed   *)
(* consoleintr, which edits a line in the ring input.buf (console.c), and  *)
(* consoleread takes committed characters out of it.                       *)
(*                                                                         *)
(* Characters and scan codes are the numbers the code uses.  input.lock is *)
(* a variable, since the handler and a reader hold it over several         *)
(* characters; a reader goes to sleep and releases it at once (Sched).     *)
(* Echo and output go to devices and are left out.                         *)
(***************************************************************************)
EXTENDS Integers, Sequences, FiniteSetsExt

CONSTANTS NREADER,     \* processes that read
          INPUT_BUF,
          WRAP,        \* range of the indices (2^32)
          START,       \* the indices at first: they grow for ever
          Keys,        \* key events: scan code, whether it has the E0 prefix, down or up
          Chars,       \* characters on the serial line
          Sizes,       \* lengths of reads
          MaxTyped,    \* bound on key events and serial characters
          MaxPending   \* bound on those that wait in the devices

Reader == 1 .. NREADER
Free == 0
KBD == -1
UART == -2

ASSUME ConsoleAssumption ==
  /\ NREADER \in Nat /\ INPUT_BUF \in Nat \ {0}
  /\ WRAP \in Nat /\ WRAP > INPUT_BUF /\ WRAP % INPUT_BUF = 0
  /\ START \in 0 .. WRAP - 1
  /\ Sizes \subseteq Nat /\ MaxTyped \in Nat /\ MaxPending \in Nat

VARIABLES buf, r, w, e,     \* input
          lock,             \* who holds input.lock
          shift,            \* kbdgetc's static shift
          keys, half,       \* key events not yet read; the head's E0 has been read
          serial,           \* characters not yet read
          pc, n, got,       \* readers: where they are, n, and what they copied to dst
          killed, typed

ring == <<buf, r, w, e>>
devices == <<shift, keys, half, serial, typed>>
readers == <<pc, n, got, killed>>
vars == <<ring, lock, devices, readers>>

Init ==
  /\ buf = [i \in 0 .. INPUT_BUF - 1 |-> 0] /\ r = START /\ w = START /\ e = START /\ lock = Free
  /\ shift = {} /\ keys = <<>> /\ half = 0 /\ serial = <<>> /\ typed = 0
  /\ pc = [p \in Reader |-> "user"] /\ n = [p \in Reader |-> 0]
  /\ got = [p \in Reader |-> <<>>] /\ killed = [p \in Reader |-> 0]

-----------------------------------------------------------------------------
(* The devices *)

Arrives == typed < MaxTyped /\ typed' = typed + 1 /\ Len(keys) + Len(serial) < MaxPending
Press ==
  /\ Arrives /\ \E k \in Keys : keys' = Append(keys, k)
  /\ UNCHANGED <<ring, lock, shift, half, serial, readers>>
Receive ==
  /\ Arrives /\ \E c \in Chars : serial' = Append(serial, c)
  /\ UNCHANGED <<ring, lock, shift, keys, half, readers>>

\* The next byte of the keyboard controller.
E0 == 224
data == LET ev == Head(keys) IN IF ev.ext = 1 /\ half = 0 THEN E0 ELSE ev.code + 128 * ev.up
InBuffer(d) == IF d = KBD THEN keys # <<>> ELSE serial # <<>>

-----------------------------------------------------------------------------
(* kbd.c *)

shiftcode(d) == CASE d \in {29, 157} -> {"CTL"} [] d \in {42, 54} -> {"SHIFT"}
                  [] d \in {56, 184} -> {"ALT"} [] OTHER -> {}
togglecode(d) == CASE d = 58 -> {"CAPSLOCK"} [] d = 69 -> {"NUMLOCK"}
                   [] d = 70 -> {"SCROLLLOCK"} [] OTHER -> {}

\* The rows of letters, and Enter; other keys that print are left out.
NO == 0
letter(d) == CASE d \in 16 .. 25 -> <<113, 119, 101, 114, 116, 121, 117, 105, 111, 112>>[d - 15]
               [] d \in 30 .. 38 -> <<97, 115, 100, 102, 103, 104, 106, 107, 108>>[d - 29]
               [] d \in 44 .. 50 -> <<122, 120, 99, 118, 98, 110, 109>>[d - 43]
               [] OTHER -> NO
charcode(s, d) ==
  IF d \in {28, 156} THEN (IF "CTL" \in s THEN 13 ELSE 10)
  ELSE IF letter(d) = NO THEN NO
  ELSE IF "CTL" \in s THEN letter(d) - 96 ELSE IF "SHIFT" \in s THEN letter(d) - 32 ELSE letter(d)
capslock(s, c) == IF "CAPSLOCK" \notin s THEN c
                  ELSE IF c \in 97 .. 122 THEN c - 32 ELSE IF c \in 65 .. 90 THEN c + 32 ELSE c

\* Fault variant: a released key leaves the E0 escape on.
Released_Esc(s, d) == s \ shiftcode(IF "E0ESC" \in s THEN d ELSE d - 128)
Released(s, d) == s \ (shiftcode(IF "E0ESC" \in s THEN d ELSE d - 128) \union {"E0ESC"})
Pressed(s, d) == SymDiff((s \ {"E0ESC"}) \union shiftcode(d), togglecode(d))
\* A key after E0 is looked up with its high bit set.
Looked(s, d) == IF "E0ESC" \in s THEN d + 128 ELSE d

\* kbdgetc: the new shift, and the character (0 is none).
Key(s, c) == [shift |-> s, c |-> c]
Down(s, d) == Key(Pressed(s, d), capslock(Pressed(s, d), charcode(Pressed(s, d), d)))
kbdgetc(s, d) == IF d = E0 THEN Key(s \union {"E0ESC"}, 0)
                 ELSE IF d >= 128 THEN Key(Released(s, d), 0)
                 ELSE Down(s, Looked(s, d))

-----------------------------------------------------------------------------
(* console.c: the interrupt handler *)

Minus(a, b) == (a - b) % WRAP
At(i) == buf[i % INPUT_BUF]

\* ^U: back to w or to after the last newline.
Erasable == {k \in 0 .. Minus(e, w) : \A i \in 1 .. k : At(Minus(e, i)) # 10}
Wake == pc' = [p \in Reader |-> IF pc[p] = "asleep" THEN "woken" ELSE pc[p]]

\* Fault variant: the reader is woken by a newline or ^D only.
Commit_Newline(c, e2) == IF c \in {10, 4} THEN w' = e2 /\ Wake
                         ELSE IF e2 = (r + INPUT_BUF) % WRAP THEN w' = e2 /\ UNCHANGED pc
                         ELSE UNCHANGED <<w, pc>>
Commit(c, e2) == IF c \in {10, 4} \/ e2 = (r + INPUT_BUF) % WRAP THEN w' = e2 /\ Wake
                 ELSE UNCHANGED <<w, pc>>
Store(c) ==
  /\ buf' = [buf EXCEPT ![e % INPUT_BUF] = c]
  /\ e' = (e + 1) % WRAP
  /\ Commit(c, (e + 1) % WRAP)

\* The switch of consoleintr (^P prints a listing of processes).
Switch(c) ==
  /\ CASE c = 16 -> UNCHANGED <<buf, w, e, pc>>
       [] c = 21 -> e' = Minus(e, Max(Erasable)) /\ UNCHANGED <<buf, w, pc>>
       [] c \in {8, 127} -> e' = (IF e # w THEN Minus(e, 1) ELSE e) /\ UNCHANGED <<buf, w, pc>>
       [] OTHER -> IF c # 0 /\ Minus(e, r) < INPUT_BUF THEN Store(IF c = 13 THEN 10 ELSE c)
                   ELSE UNCHANGED <<buf, w, e, pc>>
  /\ UNCHANGED <<r, n, got, killed>>

consoleintr(d) == /\ lock = Free /\ InBuffer(d) /\ lock' = d
                  /\ UNCHANGED <<ring, devices, readers>>

kbdintr ==
  /\ lock = KBD /\ keys # <<>>
  /\ LET k == kbdgetc(shift, data) IN shift' = k.shift /\ Switch(k.c)
  /\ IF data = E0 THEN half' = 1 /\ UNCHANGED keys ELSE half' = 0 /\ keys' = Tail(keys)
  /\ UNCHANGED <<lock, serial, typed>>

uartintr ==
  /\ lock = UART /\ serial # <<>>
  /\ Switch(Head(serial))
  /\ serial' = Tail(serial)
  /\ UNCHANGED <<lock, shift, keys, half, typed>>

\* getc returns -1; the byte after E0 may still be on its way.
IntrReturn(d) == /\ lock = d /\ (~InBuffer(d) \/ (d = KBD /\ half = 1)) /\ lock' = Free
                 /\ UNCHANGED <<ring, devices, readers>>

-----------------------------------------------------------------------------
(* console.c: consoleread *)

consoleread(p) ==
  /\ pc[p] = "user" /\ killed[p] = 0 /\ lock = Free
  /\ \E k \in Sizes : n' = [n EXCEPT ![p] = k]
  /\ lock' = p /\ pc' = [pc EXCEPT ![p] = "loop"]
  /\ UNCHANGED <<ring, devices, got, killed>>

\* sleep takes the lock again.
Woken(p) ==
  /\ pc[p] = "woken" /\ lock = Free
  /\ lock' = p /\ pc' = [pc EXCEPT ![p] = "loop"]
  /\ UNCHANGED <<ring, devices, n, got, killed>>

Return(p) == /\ lock' = Free /\ pc' = [pc EXCEPT ![p] = "user"]
             /\ n' = [n EXCEPT ![p] = 0] /\ got' = [got EXCEPT ![p] = <<>>]

\* ^D: saved for next time if there is something to return now.
EndOfFile(p) == /\ r' = IF got[p] # <<>> THEN r ELSE (r + 1) % WRAP
                /\ Return(p)
Copy(p) == /\ r' = (r + 1) % WRAP
           /\ got' = [got EXCEPT ![p] = Append(@, At(r))]
           /\ UNCHANGED <<lock, pc, n>>

\* n is used up, or the last character was a newline.
Done(p) == Len(got[p]) = n[p] \/ (got[p] # <<>> /\ got[p][Len(got[p])] = 10)
\* One turn of the loops: the end, an empty buffer, or a character.
Turn(p) ==
  /\ pc[p] = "loop"
  /\ IF Done(p) \/ (r = w /\ killed[p] = 1) THEN Return(p) /\ UNCHANGED r
     ELSE IF r = w THEN pc' = [pc EXCEPT ![p] = "sleep"] /\ UNCHANGED <<r, lock, n, got>>
     ELSE IF At(r) = 4 THEN EndOfFile(p)
     ELSE Copy(p)
  /\ UNCHANGED <<buf, w, e, devices, killed>>

Sleep(p) == /\ pc[p] = "sleep"
            /\ lock' = Free /\ pc' = [pc EXCEPT ![p] = "asleep"]
            /\ UNCHANGED <<ring, devices, n, got, killed>>

\* kill needs only ptable.lock, so it may come between the test and the sleep.
kill(p) == /\ killed[p] = 0 /\ killed' = [killed EXCEPT ![p] = 1]
           /\ pc' = [pc EXCEPT ![p] = IF @ = "asleep" THEN "woken" ELSE @]
           /\ UNCHANGED <<ring, lock, devices, n, got>>

Next == \/ Press \/ Receive \/ kbdintr \/ uartintr
        \/ \E d \in {KBD, UART} : consoleintr(d) \/ IntrReturn(d)
        \/ \E p \in Reader : consoleread(p) \/ Woken(p) \/ Turn(p) \/ Sleep(p) \/ kill(p)

Spec == Init /\ [][Next]_vars

-----------------------------------------------------------------------------
(* Properties *)

\* Nobody sleeps in consoleread while there is something to read: whoever commits
\* characters wakes all readers, and a saved ^D is seen by the next one.
NoLostInput == \A p \in Reader : pc[p] = "asleep" => r = w

=============================================================================
