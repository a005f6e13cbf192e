---------------------------- MODULE BcacheProofs ----------------------------
(***************************************************************************)
(* The steps of the driver keep the invariant of BcacheOwners, which       *)
(* therefore holds for any processes, any sectors and any number of buffers.*)
(***************************************************************************)
EXTENDS BcacheOwners

USE DEF Place, Command

\* What a step that leaves the buffers and their owners alone keeps.
LEMMA OwnersKept ==
  ASSUME BcacheInv, UNCHANGED <<sector, busy, free_block_number, want, buf, panicked>>, panicked = 0,
         \A q \in Proc : Owns(q)' <=> Owns(q),
         \A q \in Proc : pc'[q] = "idle" <=> pc[q] = "idle"
  PROVE  Wants' /\ ExclusiveOwner' /\ BuffersAccounted'
BY DEF BcacheInv, Wants, ExclusiveOwner, BuffersAccounted

\* The drive obeys its command and raises the interrupt; the queue is as before.
LEMMA DriveDoneInv ==
  ASSUME BcacheInv, DriveDone
  PROVE  BcacheInv'
<1>1. /\ panicked = 0 /\ drive.op \in {"read", "write"}
      /\ UNCHANGED <<sector, busy, free_block_number, valid, dirty, data, idequeue, pc, want, buf, panicked>>
  BY DEF DriveDone, Alive, lists
<1>2. idequeue # <<>> /\ drive.sec \in Sector
  <2>1. idequeue # <<>> /\ drive.sec = sector[Head(idequeue)]
    BY <1>1 DEF BcacheInv, QueueSound
  <2>2. Head(idequeue) \in Range(idequeue)
    BY <2>1 DEF BcacheInv, Types, Range
  <2>3. PICK q \in Proc : pc[q] = "iosleep" /\ buf[q] = Head(idequeue)
    BY <2>2 DEF BcacheInv, QueueSound
  <2>4. Owns(q) /\ want[q] \in Sector
    BY <2>3 DEF BcacheInv, Owns, Wants
  <2> QED BY <2>1, <2>3, <2>4 DEF BcacheInv, ExclusiveOwner
<1>3. /\ drive' \in Command
      /\ drive'.op = "irq" /\ drive'.sec = drive.sec
  BY <1>1, <1>2, Zenon DEF DriveDone, BcacheInv, Types
<1>4. disk' \in [Sector -> Val]
  BY <1>2 DEF DriveDone, BcacheInv, Types
<1>5. Types' /\ Requests' /\ NoLostWakeup'
  BY <1>1, <1>3, <1>4 DEF BcacheInv, Types, Requests, NoLostWakeup
<1>6. QueueSound'
  BY <1>1, <1>2, <1>3 DEF BcacheInv, QueueSound
<1>7. \A q \in Proc : Owns(q)' <=> Owns(q)
  BY <1>1 DEF Owns
<1> QED BY <1>1, <1>5, <1>6, <1>7, OwnersKept DEF BcacheInv

\* A buffer in the queue has an owner who sleeps in iderw, and so a sector.
LEMMA Queued ==
  ASSUME BcacheInv, NEW b \in Range(idequeue)
  PROVE  /\ b \in busy /\ sector[b] \in Sector
         /\ \A q \in Proc : Owns(q) /\ buf[q] = b => pc[q] = "iosleep"
<1>1. PICK p \in Proc : pc[p] = "iosleep" /\ buf[p] = b
  BY DEF BcacheInv, QueueSound
<1>2. Owns(p) /\ want[p] \in Sector
  BY <1>1 DEF BcacheInv, Owns, Wants
<1> QED BY <1>1, <1>2 DEF BcacheInv, ExclusiveOwner

\* What idestart tells the drive about a buffer with a sector.
LEMMA IdestartFacts ==
  ASSUME Types, NEW b \in Buf, sector[b] \in Sector
  PROVE  idestart(b) \in Command /\ idestart(b).op # "none" /\ idestart(b).sec = sector[b]
BY DEF idestart, Types

\* iderw finds its buffer B_BUSY and with something to do, and queues it behind
\* the others, where it is not yet (ide.c:126-152).
LEMMA IderwInv ==
  ASSUME BcacheInv, NEW p \in Proc, Iderw(p)
  PROVE  BcacheInv'
<1> USE BufFacts
<1> DEFINE b == buf[p]
           n == Len(idequeue)
<1>1. /\ panicked = 0 /\ pc[p] = "iderw" /\ pc' = [pc EXCEPT ![p] = "iosleep"]
      /\ idequeue' = Append(idequeue, b)
      /\ drive' = IF idequeue = <<>> THEN idestart(b) ELSE drive
      /\ UNCHANGED <<sector, busy, free_block_number, valid, dirty, data, disk, want, buf>>
  BY DEF Iderw, Alive, Enqueued, DriveAfterAppend, lists
<1>2. Owns(p) /\ b \in busy /\ b \in Buf /\ b \notin valid \ dirty
  BY <1>1 DEF BcacheInv, Types, Owns, ExclusiveOwner, Requests
<1>3. panicked' = panicked
  BY <1>1, <1>2 DEF Iderw
<1>4. sector[b] \in Sector
  BY <1>1, <1>2 DEF BcacheInv, Wants, ExclusiveOwner
<1>5. b \notin Range(idequeue)
  BY <1>1, <1>2, Queued
<1>6. Types
  BY DEF BcacheInv
<1>7. idestart(b) \in Command /\ idestart(b).op # "none" /\ idestart(b).sec = sector[b]
  BY <1>2, <1>4, <1>6, IdestartFacts
<1> HIDE DEF b
<1>8. Types'
  <2>1. idequeue' \in Seq(Buf)
    BY <1>1, <1>2, <1>6 DEF Types
  <2>2. drive' \in Command /\ pc' \in [Proc -> Place]
    BY <1>1, <1>6, <1>7 DEF Types
  <2>3. UNCHANGED <<sector, busy, free_block_number, valid, dirty, data, disk, want, buf, panicked>>
    BY <1>1, <1>3
  <2> QED BY <1>6, <2>1, <2>2, <2>3 DEF Types
<1>9. pc'[p] = "iosleep" /\ \A q \in Proc : q # p => pc'[q] = pc[q]
  BY <1>1, <1>6 DEF Types
<1>10. Requests'
  BY <1>1, <1>9 DEF BcacheInv, Requests
<1>11. Wants' /\ ExclusiveOwner' /\ BuffersAccounted'
  <2>1. \A q \in Proc : /\ Owns(q)' <=> Owns(q)
                        /\ pc'[q] = "idle" <=> pc[q] = "idle"
    BY <1>1, <1>9 DEF Owns
  <2> QED BY <1>1, <1>3, <2>1, OwnersKept
<1>12. /\ n \in Nat /\ Len(idequeue') = n + 1 /\ idequeue'[n + 1] = b
       /\ \A i \in 1 .. n : idequeue'[i] = idequeue[i]
       /\ DOMAIN idequeue = 1 .. n /\ DOMAIN idequeue' = 1 .. n + 1
  BY <1>1, <1>2, <1>6 DEF Types
<1>13. Range(idequeue') = Range(idequeue) \union {b}
  <2>1. \A i \in 1 .. n + 1 : i \in 1 .. n \/ i = n + 1
    BY <1>12
  <2>2. \A c \in Range(idequeue') : c \in Range(idequeue) \union {b}
    BY <1>12, <2>1 DEF Range
  <2>3. \A c \in Range(idequeue) \union {b} : c \in Range(idequeue')
    BY <1>12 DEF Range
  <2> QED BY <2>2, <2>3
<1>14. QueueSound'
  <2>1. \A i, j \in DOMAIN idequeue' : idequeue'[i] = idequeue'[j] => i = j
    <3>1. \A i \in 1 .. n : idequeue[i] # b
      BY <1>5, <1>12 DEF Range
    <3>2. \A i \in 1 .. n + 1 : i \in 1 .. n \/ i = n + 1
      BY <1>12
    <3> QED BY <1>12, <3>1, <3>2 DEF BcacheInv, QueueSound
  <2>2. \A c \in Range(idequeue') : \E q \in Proc : pc'[q] = "iosleep" /\ buf'[q] = c
    <3>1. \A c \in Range(idequeue) : \E q \in Proc : pc'[q] = "iosleep" /\ buf'[q] = c
      BY <1>1, <1>9 DEF BcacheInv, QueueSound
    <3> QED BY <1>1, <1>9, <1>13, <3>1 DEF b
  <2>3. idequeue' # <<>> /\ drive'.op # "none" /\ drive'.sec = sector'[Head(idequeue')]
    <3>1. idequeue' # <<>> /\ Head(idequeue') = idequeue'[1]
      BY <1>8, <1>12 DEF Types
    <3>2. CASE idequeue = <<>>
      BY <1>1, <1>7, <1>12, <3>1, <3>2
    <3>3. CASE idequeue # <<>>
      <4>1. 1 \in 1 .. n /\ Head(idequeue) = idequeue[1]
        BY <1>6, <3>3 DEF Types
      <4> QED BY <1>1, <1>12, <3>1, <3>3, <4>1 DEF BcacheInv, QueueSound
    <3> QED BY <3>2, <3>3
  <2> QED BY <2>1, <2>2, <2>3 DEF QueueSound
<1>15. NoLostWakeup'
  BY <1>1, <1>9, <1>13 DEF BcacheInv, NoLostWakeup, b
<1> QED BY <1>8, <1>10, <1>11, <1>14, <1>15 DEF BcacheInv

\* The interrupt handler serves the head of the queue, wakes its owner and gives
\* the drive the next request (ide.c:93-117), whether or not the read failed.
LEMMA IdeintrInv ==
  ASSUME BcacheInv, NEW err \in BOOLEAN, Ideintr(err)
  PROVE  BcacheInv'
<1> USE BufFacts
<1> DEFINE b == Head(idequeue)
           rest == Tail(idequeue)
           n == Len(idequeue)
<1>1. /\ panicked = 0 /\ idequeue # <<>>
      /\ data' = IF b \notin dirty /\ ~err THEN [data EXCEPT ![b] = drive.val] ELSE data
      /\ valid' = valid \union {b} /\ dirty' = dirty \ {b} /\ pc' = Wakeup(b, pc)
      /\ idequeue' = rest
      /\ drive' = IF rest = <<>> THEN IdleDrive ELSE idestart(Head(rest))
      /\ UNCHANGED <<sector, busy, free_block_number, disk, want, buf, panicked>>
  BY DEF Ideintr, Alive, lists
<1>2. Types
  BY DEF BcacheInv
<1>3. /\ n \in Nat \ {0} /\ DOMAIN idequeue = 1 .. n /\ b = idequeue[1] /\ b \in Buf
      /\ rest \in Seq(Buf) /\ Len(rest) = n - 1 /\ DOMAIN rest = 1 .. n - 1
      /\ \A i \in 1 .. n - 1 : rest[i] = idequeue[i + 1]
  BY <1>1, <1>2 DEF Types
<1> HIDE DEF b, rest, n
<1>4. b \in Range(idequeue) /\ Range(rest) = Range(idequeue) \ {b}
  <2>1. b \in Range(idequeue)
    BY <1>3 DEF Range
  <2>2. \A c \in Range(rest) : c \in Range(idequeue) /\ c # b
    <3> TAKE c \in Range(rest)
    <3>1. PICK i \in 1 .. n - 1 : rest[i] = c
      BY <1>3 DEF Range
    <3>2. i + 1 \in 1 .. n /\ 1 \in 1 .. n /\ i + 1 # 1 /\ idequeue[i + 1] = c
      BY <1>3, <3>1
    <3> QED BY <1>3, <3>2, Zenon DEF BcacheInv, QueueSound, Range
  <2>3. \A c \in Range(idequeue) \ {b} : c \in Range(rest)
    <3> TAKE c \in Range(idequeue) \ {b}
    <3>1. PICK i \in 1 .. n : idequeue[i] = c
      BY <1>3 DEF Range
    <3>2. i - 1 \in 1 .. n - 1 /\ rest[i - 1] = c
      BY <1>3, <3>1
    <3> QED BY <1>3, <3>2, SMTT(30) DEF Range
  <2> QED BY <2>1, <2>2, <2>3
<1>5. \A q \in Proc : Owns(q) /\ buf[q] = b => pc[q] = "iosleep"
  BY <1>4, Queued
<1>6. /\ pc' \in [Proc -> Place]
      /\ \A q \in Proc : /\ buf[q] # b => pc'[q] = pc[q]
                         /\ buf[q] = b => pc'[q] = CASE pc[q] = "bsleep" -> "bget"
                                                     [] pc[q] = "iosleep" -> "iowake"
                                                     [] OTHER -> pc[q]
  <2>1. pc \in [Proc -> Place]
    BY <1>2 DEF Types
  <2> QED BY <1>1, <1>2, <1>3, <2>1, WakeupFacts
<1>7. rest # <<>> => /\ Head(rest) = rest[1] /\ Head(rest) \in Buf
                     /\ idestart(Head(rest)) \in Command /\ idestart(Head(rest)).op # "none"
                     /\ idestart(Head(rest)).sec = sector[Head(rest)]
  <2> SUFFICES ASSUME rest # <<>>
               PROVE  /\ Head(rest) = rest[1] /\ Head(rest) \in Buf
                      /\ idestart(Head(rest)) \in Command /\ idestart(Head(rest)).op # "none"
                      /\ idestart(Head(rest)).sec = sector[Head(rest)]
    OBVIOUS
  <2>1. 1 \in 1 .. n - 1 /\ Head(rest) = rest[1] /\ Head(rest) \in Buf
    BY <1>3
  <2>2. Head(rest) \in Range(idequeue)
    BY <1>3, <1>4, <2>1, SMTT(30) DEF Range
  <2> QED BY <1>2, <2>1, <2>2, Queued, IdestartFacts
<1>8. IdleDrive \in Command /\ IdleDrive.op = "none"
  BY DEF IdleDrive
<1>9. Types'
  <2>1. drive' \in Command /\ idequeue' \in Seq(Buf)
    BY <1>1, <1>3, <1>7, <1>8
  <2>2. data' \in [Buf -> Val] /\ valid' \subseteq Buf /\ dirty' \subseteq Buf
    BY <1>1, <1>2, <1>3 DEF Types
  <2> QED BY <1>1, <1>2, <1>6, <2>1, <2>2 DEF Types
<1>10. Requests'
  <2>1. \A q \in Proc : pc'[q] = "iderw" => pc[q] = "iderw" /\ buf[q] # b
    BY <1>5, <1>6 DEF Owns
  <2>2. \A q \in Proc : pc'[q] = "iowake" => buf[q] = b \/ pc[q] = "iowake"
    BY <1>6
  <2> QED BY <1>1, <1>3, <2>1, <2>2 DEF BcacheInv, Requests
<1>11. Wants' /\ ExclusiveOwner' /\ BuffersAccounted'
  <2>1. \A q \in Proc : /\ Owns(q)' <=> Owns(q)
                        /\ pc'[q] = "idle" <=> pc[q] = "idle"
    BY <1>6 DEF Owns
  <2> QED BY <1>1, <2>1, OwnersKept
<1>12. QueueSound'
  <2>1. \A i, j \in DOMAIN rest : rest[i] = rest[j] => i = j
    <3> TAKE i, j \in DOMAIN rest
    <3>1. /\ i \in Int /\ j \in Int /\ i + 1 \in 1 .. n /\ j + 1 \in 1 .. n
          /\ rest[i] = idequeue[i + 1] /\ rest[j] = idequeue[j + 1]
      BY <1>3
    <3>2. rest[i] = rest[j] => i + 1 = j + 1
      BY <1>3, <3>1 DEF BcacheInv, QueueSound
    <3> QED BY <3>1, <3>2
  <2>2. \A c \in Range(rest) : \E q \in Proc : pc'[q] = "iosleep" /\ buf'[q] = c
    BY <1>1, <1>4, <1>6 DEF BcacheInv, QueueSound
  <2>3. IF rest = <<>> THEN drive'.op = "none"
        ELSE drive'.op # "none" /\ drive'.sec = sector'[Head(rest)]
    BY <1>1, <1>7, <1>8, SMTT(30)
  <2> QED BY <1>1, <2>1, <2>2, <2>3 DEF QueueSound
<1>13. NoLostWakeup'
  <2>1. \A q \in Proc : /\ pc'[q] = "bsleep" => pc[q] = "bsleep"
                        /\ pc'[q] = "iosleep" => pc[q] = "iosleep" /\ buf[q] # b
    BY <1>6
  <2> QED BY <1>1, <1>4, <2>1 DEF BcacheInv, NoLostWakeup
<1> QED BY <1>9, <1>10, <1>11, <1>12, <1>13 DEF BcacheInv

\* Every step keeps the invariant.
LEMMA NextInv == BcacheInv /\ [Next]_vars => BcacheInv'
<1> SUFFICES ASSUME BcacheInv, [Next]_vars PROVE BcacheInv'
  OBVIOUS
<1>1. ASSUME NEW p \in Proc, Step(p) PROVE BcacheInv'
  BY <1>1, BgetHitInv, BgetSleepInv, BgetRecycleInv, BgetPanicInv, BreadCheckInv, IderwInv,
     IderwTestInv DEF Step, BgetStep
<1>2. ASSUME Interrupt PROVE BcacheInv'
  <2>1. PICK err \in {FALSE, ReadErrors} : Ideintr(err)
    BY <1>2, Zenon DEF Interrupt
  <2>2. err \in BOOLEAN
    BY BcacheAssumption, Zenon DEF BcacheAssumption
  <2> QED BY <2>1, <2>2, IdeintrInv
<1>3. CASE UNCHANGED vars
  <2>1. UNCHANGED <<sector, busy, free_block_number, valid, dirty, data, idequeue, drive, disk,
                    pc, want, buf, panicked>>
    BY <1>3 DEF vars, lists, io
  <2>2. Types'
    BY <2>1 DEF BcacheInv, Types
  <2>3. Wants' /\ Requests' /\ NoLostWakeup'
    BY <2>1 DEF BcacheInv, Wants, Requests, NoLostWakeup
  <2>4. QueueSound'
    BY <2>1 DEF BcacheInv, QueueSound
  <2>5. \A q \in Proc : Owns(q)' <=> Owns(q)
    BY <2>1 DEF Owns
  <2>6. ExclusiveOwner'
    BY <2>1, <2>5 DEF BcacheInv, ExclusiveOwner
  <2>7. BuffersAccounted'
    BY <2>1, <2>5 DEF BcacheInv, BuffersAccounted
  <2> QED BY <2>2, <2>3, <2>4, <2>6, <2>7 DEF BcacheInv
<1> QED BY <1>1, <1>2, <1>3, BreadInv, BrelseInv, LogWriteInv, BwriteInv, DriveDoneInv DEF Next

\* The invariant of the cache holds in every reachable state.
THEOREM BcacheInvariant == Spec => []BcacheInv
<1>1. BcacheInv /\ [Next]_vars => BcacheInv'
  BY NextInv
<1> QED BY <1>1, InitInv, PTL DEF Spec

\* "Only one process at a time can use a buffer" (bio.c:13), a sector is never in
\* two buffers, and B_BUSY says that somebody has the buffer.
THEOREM OwnersExclusive == Spec => []ExclusiveOwner
<1>1. BcacheInv => ExclusiveOwner
  BY DEF BcacheInv
<1> QED BY <1>1, BcacheInvariant, PTL

\* The queue of ide.c holds each request once, each with its owner asleep in
\* iderw, and the drive works for the first.
THEOREM QueueAlwaysSound == Spec => []QueueSound
<1>1. BcacheInv => QueueSound
  BY DEF BcacheInv
<1> QED BY <1>1, BcacheInvariant, PTL

\* No process sleeps on a buffer that nobody has, or in iderw without a request:
\* brelse and ideintr wake whoever waits.
THEOREM NoWakeupLost == Spec => []NoLostWakeup
<1>1. BcacheInv => NoLostWakeup
  BY DEF BcacheInv
<1> QED BY <1>1, BcacheInvariant, PTL

\* free_block_number counts the buffers without B_BUSY, and only a cache with
\* all its buffers pinned or owned makes bget panic; iderw, bwrite and brelse never do.
THEOREM BuffersAlwaysAccounted == Spec => []BuffersAccounted
<1>1. BcacheInv => BuffersAccounted
  BY DEF BcacheInv
<1> QED BY <1>1, BcacheInvariant, PTL

=============================================================================
