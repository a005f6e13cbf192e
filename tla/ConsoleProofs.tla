--------------------------- MODULE ConsoleProofs ----------------------------
(***************************************************************************)
(* Proofs about the console's ring of input, for any ring size, any range  *)
(* of the indices that the size divides, any keys and characters and any   *)
(* number of readers.                                                      *)
(***************************************************************************)
EXTENDS Console, WellFoundedInduction, TLAPS

Index == 0 .. WRAP - 1

TypeOK ==
  /\ DOMAIN buf = 0 .. INPUT_BUF - 1 /\ r \in Index /\ w \in Index /\ e \in Index
  /\ lock \in {Free, KBD, UART} \union Reader
  /\ pc \in [Reader -> {"user", "loop", "sleep", "asleep", "woken"}]

\* From r the ring leads to w, then to e, and holds no more than fits.
RingInv == Minus(w, r) <= Minus(e, r) /\ Minus(e, r) <= INPUT_BUF

\* A reader inside consoleread's loops has input.lock, and nobody else.
LockInv == \A p \in Reader : pc[p] \in {"loop", "sleep"} <=> lock = p

\* A reader that found nothing to read keeps the lock until it is asleep.
SleepInv == \A p \in Reader : pc[p] \in {"sleep", "asleep"} => r = w

IInv == TypeOK /\ RingInv /\ LockInv /\ SleepInv

-----------------------------------------------------------------------------
(* Arithmetic *)

LEMMA Sizes_ == WRAP \in Nat \ {0} /\ INPUT_BUF \in Nat \ {0} /\ INPUT_BUF < WRAP
BY ConsoleAssumption

\* The difference of two indices that wrap.
LEMMA MinusValue ==
  ASSUME NEW a \in Index, NEW b \in Index
  PROVE  Minus(a, b) = IF a >= b THEN a - b ELSE a - b + WRAP
BY Sizes_ DEF Minus, Index

\* An index that is moved on.
LEMMA PlusValue ==
  ASSUME NEW a \in Index, NEW k \in 0 .. WRAP
  PROVE  (a + k) % WRAP = IF a + k < WRAP THEN a + k ELSE a + k - WRAP
BY Sizes_ DEF Index

LEMMA NextIndex ==
  ASSUME NEW a \in Index
  PROVE  /\ (a + 1) % WRAP \in Index
         /\ (a + 1) % WRAP = IF a + 1 < WRAP THEN a + 1 ELSE 0
BY Sizes_ DEF Index

\* A character is stored where there is room.
LEMMA StoreIndex ==
  ASSUME NEW a \in Index, NEW z \in Index, Minus(z, a) < INPUT_BUF
  PROVE  Minus((z + 1) % WRAP, a) = Minus(z, a) + 1
<1> DEFINE z1 == (z + 1) % WRAP
<1>1. z1 \in Index /\ z1 = IF z + 1 < WRAP THEN z + 1 ELSE 0
  BY NextIndex
<1> HIDE DEF z1
<1>2. Minus(z1, a) = IF z1 >= a THEN z1 - a ELSE z1 - a + WRAP
  BY <1>1, MinusValue
<1>3. Minus(z, a) = IF z >= a THEN z - a ELSE z - a + WRAP
  BY MinusValue
<1>4. Minus(z1, a) = Minus(z, a) + 1
  BY <1>1, <1>2, <1>3, Sizes_ DEF Index
<1> QED
  BY <1>4 DEF z1

\* k characters of the line are erased.
LEMMA EraseIndex ==
  ASSUME NEW a \in Index, NEW m \in Index, NEW z \in Index, Minus(m, a) <= Minus(z, a),
         NEW k \in 0 .. Minus(z, m)
  PROVE  /\ Minus(z, k) \in Index
         /\ Minus(Minus(z, k), a) = Minus(z, a) - k
         /\ Minus(m, a) <= Minus(z, a) - k
<1>1. Minus(z, m) \in Index /\ k \in Index
  BY Sizes_, MinusValue DEF Index
<1>2. Minus(z, k) \in Index /\ Minus(z, k) = IF z >= k THEN z - k ELSE z - k + WRAP
  BY <1>1, Sizes_, MinusValue DEF Index
<1>3. Minus(Minus(z, k), a) = IF Minus(z, k) >= a THEN Minus(z, k) - a ELSE Minus(z, k) - a + WRAP
  BY <1>2, MinusValue
<1>4. /\ Minus(z, a) = IF z >= a THEN z - a ELSE z - a + WRAP
      /\ Minus(m, a) = IF m >= a THEN m - a ELSE m - a + WRAP
      /\ Minus(z, m) = IF z >= m THEN z - m ELSE z - m + WRAP
  BY MinusValue
<1> QED
  BY <1>1, <1>2, <1>3, <1>4, Sizes_ DEF Index

\* A character is taken out.
LEMMA ReadIndex ==
  ASSUME NEW a \in Index, NEW z \in Index, a # z
  PROVE  Minus(z, (a + 1) % WRAP) = Minus(z, a) - 1 /\ Minus(z, a) >= 1
<1> DEFINE a1 == (a + 1) % WRAP
<1>1. a1 \in Index /\ a1 = IF a + 1 < WRAP THEN a + 1 ELSE 0
  BY NextIndex
<1> HIDE DEF a1
<1>2. Minus(z, a1) = IF z >= a1 THEN z - a1 ELSE z - a1 + WRAP
  BY <1>1, MinusValue
<1>3. Minus(z, a) = IF z >= a THEN z - a ELSE z - a + WRAP
  BY MinusValue
<1>4. Minus(z, a1) = Minus(z, a) - 1 /\ Minus(z, a) >= 1
  BY <1>1, <1>2, <1>3, Sizes_ DEF Index
<1> QED
  BY <1>4 DEF a1

LEMMA ModUnique ==
  ASSUME NEW b \in Nat \ {0}, NEW d \in Int, NEW m \in 0 .. b - 1
  PROVE  (b * d + m) % b = m
<1> DEFINE a == b * d + m
           d2 == a \div b
           m2 == a % b
<1>1. a \in Int /\ d2 \in Int /\ m2 \in 0 .. b - 1 /\ a = b * d2 + m2
  OBVIOUS
<1>2. b * (d - d2) = m2 - m
  BY <1>1
<1>3. d - d2 <= 0
  <2> SUFFICES ASSUME d - d2 >= 1 PROVE FALSE
    BY <1>1
  <2>1. b * (d - d2) >= b
    BY <1>1
  <2> QED
    BY <1>1, <1>2, <2>1
<1>4. d - d2 >= 0
  <2> SUFFICES ASSUME d - d2 <= -1 PROVE FALSE
    BY <1>1
  <2>1. b * (d - d2) <= -b
    BY <1>1
  <2> QED
    BY <1>1, <1>2, <2>1
<1> QED
  BY <1>1, <1>2, <1>3, <1>4

\* Subtracting a multiple of b does not change the remainder.
LEMMA ModSub ==
  ASSUME NEW a \in Int, NEW b \in Nat \ {0}, NEW q \in Int
  PROVE  (a - q * b) % b = a % b
<1> DEFINE d == a \div b
           m == a % b
<1>1. d \in Int /\ m \in 0 .. b - 1 /\ a = b * d + m
  OBVIOUS
<1>2. a - q * b = b * (d - q) + m
  BY <1>1
<1>3. d - q \in Int
  BY <1>1
<1> HIDE DEF d, m
<1>4. (a - q * b) % b = m
  BY <1>1, <1>2, <1>3, ModUnique
<1> QED
  BY <1>4 DEF m

\* Fewer than b steps on, the remainder is another.
LEMMA ModDistinct ==
  ASSUME NEW a \in Int, NEW b \in Nat \ {0}, NEW j \in 1 .. b - 1
  PROVE  (a + j) % b # a % b
<1> DEFINE d == a \div b
           m == a % b
<1>1. d \in Int /\ m \in 0 .. b - 1 /\ a = b * d + m
  OBVIOUS
<1> HIDE DEF d, m
<1>2. CASE m + j < b
  <2>1. a + j = b * d + (m + j) /\ m + j \in 0 .. b - 1
    BY <1>1, <1>2
  <2>2. (a + j) % b = m + j
    BY <1>1, <2>1, ModUnique, Zenon
  <2> QED
    BY <1>1, <2>2 DEF m
<1>3. CASE m + j >= b
  <2>1. a + j = b * (d + 1) + (m + j - b) /\ m + j - b \in 0 .. b - 1 /\ d + 1 \in Int
    BY <1>1, <1>3
  <2>2. (a + j) % b = m + j - b
    BY <1>1, <2>1, ModUnique, Zenon
  <2> QED
    BY <1>1, <2>2 DEF m
<1> QED
  BY <1>1, <1>2, <1>3

\* Wrapping an index does not move it to another slot: INPUT_BUF divides 2^32.
LEMMA SlotOf ==
  ASSUME NEW a \in Index, NEW k \in 0 .. WRAP
  PROVE  ((a + k) % WRAP) % INPUT_BUF = (a + k) % INPUT_BUF
<1> DEFINE q == WRAP \div INPUT_BUF
<1>1. q \in Int /\ WRAP = q * INPUT_BUF
  BY Sizes_, ConsoleAssumption
<1>2. a + k \in Int
  BY Sizes_ DEF Index
<1>3. CASE a + k < WRAP
  BY <1>3, PlusValue
<1>4. CASE ~(a + k < WRAP)
  <2> HIDE DEF q
  <2>1. (a + k) % WRAP = (a + k) - WRAP
    <3>1. (a + k) % WRAP = IF a + k < WRAP THEN a + k ELSE a + k - WRAP
      BY PlusValue
    <3> QED
      BY <1>2, <1>4, <3>1, Sizes_ DEF Index
  <2>2. ((a + k) - q * INPUT_BUF) % INPUT_BUF = (a + k) % INPUT_BUF
    BY <1>1, <1>2, Sizes_, ModSub, Zenon
  <2> QED
    BY <1>1, <2>1, <2>2, Zenon
<1> QED
  BY <1>3, <1>4

\* The slot at the end of the ring is none of those before it.
LEMMA SlotFree ==
  ASSUME NEW a \in Index, NEW z \in Index, Minus(z, a) < INPUT_BUF,
         NEW k \in 0 .. Minus(z, a) - 1
  PROVE  (a + k) % INPUT_BUF # z % INPUT_BUF
<1> DEFINE d == Minus(z, a)
<1>0. d = IF z >= a THEN z - a ELSE z - a + WRAP
  BY MinusValue
<1> HIDE DEF d
<1>1. d \in 0 .. WRAP /\ (a + d) % WRAP = z /\ d \in Int /\ k \in Int
  <2>1. d \in 0 .. WRAP /\ a + d = (IF z >= a THEN z ELSE z + WRAP)
    BY <1>0, Sizes_ DEF Index
  <2>2. (a + d) % WRAP = IF a + d < WRAP THEN a + d ELSE a + d - WRAP
    BY <2>1, PlusValue
  <2> QED
    BY <2>1, <2>2, Sizes_ DEF Index
<1>2. z % INPUT_BUF = (a + d) % INPUT_BUF
  BY <1>1, SlotOf
<1>3. d - k \in 1 .. INPUT_BUF - 1 /\ a + k \in Int /\ (a + k) + (d - k) = a + d
  BY <1>1, Sizes_ DEF d, Index
<1>4. ((a + k) + (d - k)) % INPUT_BUF # (a + k) % INPUT_BUF
  BY <1>3, Sizes_, ModDistinct
<1> QED
  BY <1>2, <1>3, <1>4

-----------------------------------------------------------------------------
(* ^U erases back to a place that there is *)

LEMMA NatMin ==
  ASSUME NEW T, T \subseteq Nat, T # {}
  PROVE  \E x \in T : \A y \in T : x <= y
<1>1. \E x \in T : \A y \in T : ~ (<<y, x>> \in OpToRel(<, Nat))
  BY WFMin, NatLessThanWellFounded, Zenon
<1>2. PICK x \in T : \A y \in T : ~ (<<y, x>> \in OpToRel(<, Nat))
  BY <1>1, Zenon
<1>3. ASSUME NEW y \in T PROVE x <= y
  <2>1. x \in Nat /\ y \in Nat
    OBVIOUS
  <2>2. y < x => <<y, x>> \in OpToRel(<, Nat)
    BY <2>1 DEF OpToRel
  <2>3. ~(y < x)
    BY <1>2, <2>2, Zenon
  <2> QED
    BY <2>1, <2>3
<1> QED
  BY <1>3, Zenon

LEMMA MaxBelow ==
  ASSUME NEW N \in Nat, NEW S, S \subseteq 0 .. N, 0 \in S
  PROVE  Max(S) \in S
<1> DEFINE T == {N - k : k \in S}
<1>1. T \subseteq Nat
  OBVIOUS
<1>2. N - 0 \in T
  OBVIOUS
<1>3. PICK x \in T : \A y \in T : x <= y
  BY <1>1, <1>2, NatMin, Zenon
<1>4. PICK m \in S : x = N - m
  OBVIOUS
<1>5. ASSUME NEW y \in S PROVE m >= y
  <2>1. N - y \in T
    OBVIOUS
  <2>2. N - m <= N - y
    BY <1>3, <1>4, <2>1, Zenon
  <2>3. m \in Int /\ y \in Int
    OBVIOUS
  <2> QED
    BY <2>2, <2>3
<1>6. \E x1 \in S : \A y \in S : x1 >= y
  BY <1>5, Zenon
<1> QED
  BY <1>6, Zenon DEF Max

LEMMA ErasableMax ==
  ASSUME TypeOK
  PROVE  Max(Erasable) \in 0 .. Minus(e, w)
<1>1. Minus(e, w) \in Nat
  <2>1. Minus(e, w) = IF e >= w THEN e - w ELSE e - w + WRAP
    BY MinusValue DEF TypeOK
  <2> QED
    BY <2>1, Sizes_ DEF TypeOK, Index
<1>2. Erasable \subseteq 0 .. Minus(e, w) /\ 0 \in Erasable
  BY <1>1 DEF Erasable
<1> QED
  BY <1>1, <1>2, MaxBelow, Zenon

-----------------------------------------------------------------------------
(* The steps *)

LEMMA ConsoleInit == Init => IInv
<1> SUFFICES ASSUME Init PROVE IInv
  OBVIOUS
<1>1. START \in Index
  BY ConsoleAssumption DEF Index
<1>2. TypeOK
  BY <1>1 DEF Init, TypeOK, Free
<1>3. RingInv
  <2>1. Minus(START, START) = 0
    BY <1>1, Sizes_, MinusValue DEF Index
  <2> QED
    BY <2>1, Sizes_ DEF Init, RingInv
<1>4. LockInv /\ SleepInv
  BY DEF Init, LockInv, SleepInv, Free, Reader
<1> QED
  BY <1>2, <1>3, <1>4 DEF IInv

\* Waking leaves no reader asleep and none inside the loops or out of them.
LEMMA WakeReaders ==
  ASSUME TypeOK, LockInv, Wake, lock' = lock
  PROVE  /\ pc' \in [Reader -> {"user", "loop", "sleep", "asleep", "woken"}]
         /\ LockInv'
         /\ \A p \in Reader : pc'[p] # "asleep" /\ (pc'[p] = "sleep" => pc[p] = "sleep")
BY DEF TypeOK, LockInv, Wake

\* The ring after a character of the interrupt handler; c is any character.
LEMMA SwitchStep ==
  ASSUME IInv, NEW c, Switch(c), lock \in {KBD, UART}, lock' = lock
  PROVE  IInv'
<1>1. \A p \in Reader : lock # p /\ pc[p] # "loop" /\ pc[p] # "sleep"
  BY DEF IInv, LockInv, Reader, KBD, UART
<1>2. r' = r
  BY DEF Switch
<1>3. CASE UNCHANGED <<buf, w, e, pc>>
  BY <1>2, <1>3 DEF IInv, TypeOK, RingInv, LockInv, SleepInv, Minus
<1>4. ASSUME NEW k \in 0 .. Minus(e, w), e' = Minus(e, k), UNCHANGED <<buf, w, pc>>
      PROVE  IInv'
  <2>1. /\ r \in Index /\ w \in Index /\ e \in Index
        /\ Minus(w, r) <= Minus(e, r) /\ Minus(e, r) <= INPUT_BUF
    BY DEF IInv, TypeOK, RingInv
  <2>2. /\ e' \in Index /\ Minus(e', r) = Minus(e, r) - k
        /\ Minus(w, r) <= Minus(e, r) - k
    BY <1>4, <2>1, EraseIndex
  <2>3. Minus(e, r) \in Int /\ Minus(e, w) \in Int
    BY <2>1, Sizes_ DEF Minus, Index
  <2>4. RingInv'
    <3>1. Minus(w', r') <= Minus(e', r') /\ Minus(e', r') <= INPUT_BUF
      BY <1>2, <1>4, <2>1, <2>2, <2>3, Sizes_
    <3> QED
      BY <3>1 DEF RingInv, Minus
  <2>5. TypeOK' /\ LockInv' /\ SleepInv'
    BY <1>2, <1>4, <2>2 DEF IInv, TypeOK, LockInv, SleepInv
  <2> QED
    BY <2>4, <2>5 DEF IInv
<1>5. ASSUME NEW d, Minus(e, r) < INPUT_BUF, Store(d)
      PROVE  IInv'
  <2> DEFINE e2 == (e + 1) % WRAP
  <2>1. /\ r \in Index /\ w \in Index /\ e \in Index
        /\ Minus(w, r) <= Minus(e, r) /\ Minus(e, r) <= INPUT_BUF
    BY DEF IInv, TypeOK, RingInv
  <2>2. e2 \in Index /\ Minus(e2, r) = Minus(e, r) + 1
    BY <1>5, <2>1, NextIndex, StoreIndex
  <2>3. Minus(e, r) \in Int /\ Minus(w, r) \in Int
    BY <2>1, Sizes_ DEF Minus, Index
  <2>4. /\ DOMAIN buf' = DOMAIN buf /\ e' = e2
        /\ \/ w' = e2 /\ Wake
           \/ UNCHANGED <<w, pc>>
    BY <1>5 DEF Store, Commit
  <2> HIDE DEF e2
  <2>5. RingInv'
    <3>1. Minus(w', r') <= Minus(e', r') /\ Minus(e', r') <= INPUT_BUF
      BY <1>2, <1>5, <2>1, <2>2, <2>3, <2>4, Sizes_
    <3> QED
      BY <3>1 DEF RingInv, Minus
  <2>6. CASE w' = e2 /\ Wake
    <3>1. /\ pc' \in [Reader -> {"user", "loop", "sleep", "asleep", "woken"}]
          /\ LockInv'
          /\ \A p \in Reader : pc'[p] # "asleep" /\ (pc'[p] = "sleep" => pc[p] = "sleep")
      BY <2>6, WakeReaders DEF IInv
    <3>2. TypeOK'
      BY <1>2, <2>2, <2>4, <2>6, <3>1 DEF IInv, TypeOK
    <3>3. SleepInv'
      BY <1>1, <3>1 DEF SleepInv
    <3> QED
      BY <2>5, <3>1, <3>2, <3>3 DEF IInv
  <2>7. CASE UNCHANGED <<w, pc>>
    BY <1>2, <2>2, <2>4, <2>5, <2>7 DEF IInv, TypeOK, LockInv, SleepInv
  <2> QED
    BY <2>4, <2>6, <2>7
<1>6. CASE c = 16
  BY <1>3, <1>6 DEF Switch
<1>7. CASE c = 21
  BY <1>4, <1>7, ErasableMax DEF Switch, IInv
<1>8. CASE c \in {8, 127}
  <2>1. CASE e = w
    BY <1>3, <1>8, <2>1 DEF Switch
  <2>2. CASE e # w
    <3>1. 1 \in 0 .. Minus(e, w)
      <4>1. w \in Index /\ e \in Index
        BY DEF IInv, TypeOK
      <4>2. Minus(e, w) >= 1 /\ Minus(e, w) \in Int
        BY <2>2, <4>1, ReadIndex, Sizes_ DEF Minus, Index
      <4> QED
        BY <4>2
    <3> QED
      BY <1>4, <1>8, <2>2, <3>1 DEF Switch
  <2> QED
    BY <2>1, <2>2
<1>9. CASE c \notin {16, 21, 8, 127}
  BY <1>3, <1>5, <1>9 DEF Switch
<1> QED
  BY <1>6, <1>7, <1>8, <1>9

LEMMA TurnStep ==
  ASSUME IInv, NEW p \in Reader, Turn(p)
  PROVE  IInv'
<1>1. /\ pc[p] = "loop" /\ lock = p /\ w' = w /\ e' = e /\ buf' = buf
      /\ r \in Index /\ w \in Index /\ e \in Index
      /\ Minus(w, r) <= Minus(e, r) /\ Minus(e, r) <= INPUT_BUF
  BY DEF Turn, IInv, TypeOK, RingInv, LockInv
<1>2. \A q \in Reader : q # p => pc[q] # "loop" /\ pc[q] # "sleep"
  BY <1>1 DEF IInv, LockInv
<1>3. \A q \in Reader : q # Free
  BY DEF Reader, Free
<1>4. /\ \/ r' = r
         \/ r # w /\ r' = (r + 1) % WRAP
      /\ \/ UNCHANGED <<lock, pc>>
         \/ lock' = Free /\ pc' = [pc EXCEPT ![p] = "user"]
         \/ r = w /\ r' = r /\ lock' = lock /\ pc' = [pc EXCEPT ![p] = "sleep"]
  BY DEF Turn, Return, EndOfFile, Copy
<1>5. RingInv' /\ r' \in Index
  <2>1. CASE r' = r
    BY <1>1, <2>1 DEF RingInv, Minus
  <2>2. CASE r # w /\ r' = (r + 1) % WRAP
    <3>1. Minus(w, r') = Minus(w, r) - 1 /\ Minus(w, r) >= 1 /\ r' \in Index
      BY <1>1, <2>2, ReadIndex, NextIndex
    <3>2. r # e
      <4>1. Minus(w, r) \in Int
        BY <1>1, Sizes_ DEF Minus, Index
      <4>2. Minus(r, r) = 0
        BY <1>1, MinusValue, Sizes_ DEF Index
      <4> QED
        BY <1>1, <3>1, <4>1, <4>2
    <3>3. Minus(e, r') = Minus(e, r) - 1
      BY <1>1, <2>2, <3>2, ReadIndex
    <3>4. Minus(e, r) \in Int /\ Minus(w, r) \in Int
      BY <1>1, Sizes_ DEF Minus, Index
    <3>5. Minus(w', r') <= Minus(e', r') /\ Minus(e', r') <= INPUT_BUF
      BY <1>1, <3>1, <3>3, <3>4, Sizes_
    <3> QED
      BY <3>1, <3>5 DEF RingInv, Minus
  <2> QED
    BY <1>4, <2>1, <2>2
<1>6. TypeOK'
  BY <1>1, <1>4, <1>5 DEF IInv, TypeOK
<1>7. LockInv'
  BY <1>1, <1>2, <1>3, <1>4 DEF IInv, TypeOK, LockInv
<1>8. SleepInv'
  BY <1>1, <1>2, <1>4 DEF IInv, TypeOK, SleepInv
<1> QED
  BY <1>5, <1>6, <1>7, <1>8 DEF IInv

LEMMA ConsoleNext == IInv /\ [Next]_vars => IInv'
<1> SUFFICES ASSUME IInv, [Next]_vars PROVE IInv'
  OBVIOUS
<1> USE DEF ring, devices, readers
<1>0. ASSUME UNCHANGED <<ring, lock, pc>>
      PROVE  IInv'
  BY <1>0 DEF IInv, TypeOK, RingInv, LockInv, SleepInv, Minus
<1>1. CASE Press \/ Receive \/ UNCHANGED vars
  BY <1>0, <1>1 DEF Press, Receive, vars
<1>2. CASE kbdintr
  BY <1>2, SwitchStep DEF kbdintr
<1>3. CASE uartintr
  BY <1>3, SwitchStep DEF uartintr
<1>4. ASSUME NEW d \in {KBD, UART}, consoleintr(d) \/ IntrReturn(d)
      PROVE  IInv'
  <2>1. /\ UNCHANGED <<ring, pc>> /\ lock \in {Free, KBD, UART} /\ lock' \in {Free, KBD, UART}
    BY <1>4 DEF consoleintr, IntrReturn
  <2>2. TypeOK' /\ RingInv' /\ SleepInv'
    BY <2>1 DEF IInv, TypeOK, RingInv, SleepInv, Minus
  <2>3. LockInv'
    BY <2>1 DEF IInv, LockInv, Reader, Free, KBD, UART
  <2> QED
    BY <2>2, <2>3 DEF IInv
<1>5. ASSUME NEW p \in Reader, consoleread(p) \/ Woken(p)
      PROVE  IInv'
  <2>1. /\ UNCHANGED ring /\ lock = Free /\ lock' = p /\ pc' = [pc EXCEPT ![p] = "loop"]
    BY <1>5 DEF consoleread, Woken
  <2>2. \A q \in Reader : pc[q] # "loop" /\ pc[q] # "sleep"
    BY <2>1 DEF IInv, LockInv, Reader, Free
  <2>3. TypeOK' /\ RingInv' /\ SleepInv'
    BY <2>1 DEF IInv, TypeOK, RingInv, SleepInv, Minus
  <2>4. LockInv'
    BY <2>1, <2>2 DEF IInv, TypeOK, LockInv
  <2> QED
    BY <2>3, <2>4 DEF IInv
<1>6. ASSUME NEW p \in Reader, Turn(p)
      PROVE  IInv'
  BY <1>6, TurnStep
<1>7. ASSUME NEW p \in Reader, Sleep(p)
      PROVE  IInv'
  <2>1. /\ UNCHANGED ring /\ pc[p] = "sleep" /\ lock' = Free /\ pc' = [pc EXCEPT ![p] = "asleep"]
    BY <1>7 DEF Sleep
  <2>2. lock = p /\ \A q \in Reader : q # p => pc[q] # "loop" /\ pc[q] # "sleep"
    BY <2>1 DEF IInv, LockInv
  <2>3. TypeOK' /\ RingInv' /\ SleepInv'
    BY <2>1 DEF IInv, TypeOK, RingInv, SleepInv, Minus
  <2>4. LockInv'
    BY <2>1, <2>2 DEF IInv, TypeOK, LockInv, Reader, Free
  <2> QED
    BY <2>3, <2>4 DEF IInv
<1>8. ASSUME NEW p \in Reader, kill(p)
      PROVE  IInv'
  BY <1>8 DEF kill, IInv, TypeOK, RingInv, LockInv, SleepInv, Minus
<1> QED
  BY <1>1, <1>2, <1>3, <1>4, <1>5, <1>6, <1>7, <1>8 DEF Next

\* The inductive invariant of the console: the ring never holds more than
\* INPUT_BUF characters and w stays between r and e, across the wrap of the
\* indices; input.lock is held by whoever works on the ring.
THEOREM ConsoleInvariant == Spec => []IInv
BY ConsoleInit, ConsoleNext, PTL DEF Spec

\* However many readers there are and whatever is typed, no reader sleeps
\* while there is something to read (console.c:216-218, 237-243).
THEOREM InputNeverLost == Spec => []NoLostInput
<1>1. IInv => NoLostInput
  BY DEF IInv, SleepInv, NoLostInput
<1> QED
  BY <1>1, ConsoleInvariant, PTL

\* What is committed stays committed and is not overwritten until it is read,
\* whatever is typed or erased behind it (console.c:197-218); and a reader never
\* reads past it (console.c:237-251).
Kept == /\ \A k \in 0 .. Minus(w, r) - 1 : buf'[(r + k) % INPUT_BUF] = buf[(r + k) % INPUT_BUF]
        /\ Minus(w, r) <= Minus(w', r)
        /\ Minus(r', r) <= Minus(w, r)
CommittedKept == [][Kept]_vars

LEMMA SwitchKeeps ==
  ASSUME IInv, NEW c, Switch(c)
  PROVE  Kept
<1>1. /\ r \in Index /\ w \in Index /\ e \in Index /\ DOMAIN buf = 0 .. INPUT_BUF - 1
      /\ Minus(w, r) <= Minus(e, r) /\ Minus(e, r) <= INPUT_BUF /\ r' = r
  BY DEF IInv, TypeOK, RingInv, Switch
<1>2. /\ Minus(e, r) \in Nat /\ Minus(w, r) \in Nat /\ Minus(r, r) = 0
  BY <1>1, Sizes_ DEF Minus, Index
<1>3. CASE UNCHANGED <<buf, w>>
  BY <1>1, <1>2, <1>3 DEF Kept
<1>4. ASSUME NEW d, Minus(e, r) < INPUT_BUF, Store(d)
      PROVE  Kept
  <2>1. ASSUME NEW k \in 0 .. Minus(w, r) - 1
        PROVE  buf'[(r + k) % INPUT_BUF] = buf[(r + k) % INPUT_BUF]
    <3>1. k \in 0 .. Minus(e, r) - 1
      BY <1>1, <1>2
    <3>2. (r + k) % INPUT_BUF # e % INPUT_BUF
      BY <1>1, <1>4, <3>1, SlotFree
    <3>3. (r + k) % INPUT_BUF \in DOMAIN buf
      BY <1>1, <3>1, Sizes_ DEF Index
    <3>4. buf' = [buf EXCEPT ![e % INPUT_BUF] = d]
      BY <1>4 DEF Store
    <3> QED
      BY <3>2, <3>3, <3>4
  <2>2. Minus(w, r) <= Minus(w', r)
    <3>1. w' = w \/ w' = (e + 1) % WRAP
      BY <1>4 DEF Store, Commit
    <3>2. Minus((e + 1) % WRAP, r) = Minus(e, r) + 1
      BY <1>1, <1>4, StoreIndex
    <3> QED
      BY <1>1, <1>2, <3>1, <3>2
  <2> QED
    BY <1>1, <1>2, <2>1, <2>2 DEF Kept
<1>5. CASE c \in {16, 21, 8, 127}
  BY <1>3, <1>5 DEF Switch
<1>6. CASE c \notin {16, 21, 8, 127}
  BY <1>3, <1>4, <1>6 DEF Switch
<1> QED
  BY <1>5, <1>6

\* No step of a handler or a reader loses a committed character, although the
\* three indices wrap and share one ring.
THEOREM CommittedAlwaysKept == Spec => CommittedKept
<1>1. IInv /\ [Next]_vars => [Kept]_vars
  <2> SUFFICES ASSUME IInv, Next PROVE Kept \/ UNCHANGED vars
    BY DEF vars
  <2> USE DEF ring, devices, readers
  <2>1. /\ r \in Index /\ w \in Index
        /\ Minus(w, r) \in Nat /\ Minus(r, r) = 0
    BY Sizes_ DEF IInv, TypeOK, Minus, Index
  <2>2. CASE UNCHANGED <<buf, r, w>>
    BY <2>1, <2>2 DEF Kept
  <2>3. CASE kbdintr \/ uartintr
    BY <2>3, SwitchKeeps DEF kbdintr, uartintr
  <2>4. ASSUME NEW p \in Reader, Turn(p)
        PROVE  Kept
    <3>1. /\ buf' = buf /\ w' = w
          /\ \/ r' = r
             \/ r # w /\ r' = (r + 1) % WRAP
      BY <2>4 DEF Turn, Return, EndOfFile, Copy
    <3>2. CASE r' = r
      BY <2>1, <3>1, <3>2 DEF Kept
    <3>3. CASE r # w /\ r' = (r + 1) % WRAP
      <4>1. Minus(w, r) >= 1
        BY <2>1, <3>3, ReadIndex
      <4>2. Minus(r', r) = 1
        BY <2>1, <3>3, Sizes_, StoreIndex
      <4> QED
        BY <2>1, <3>1, <4>1, <4>2 DEF Kept
    <3> QED
      BY <3>1, <3>2, <3>3
  <2> QED
    BY <2>2, <2>3, <2>4
       DEF Next, Press, Receive, consoleintr, IntrReturn, consoleread, Woken, Sleep, kill
<1> QED
  BY <1>1, ConsoleInvariant, PTL DEF Spec, CommittedKept

=============================================================================
