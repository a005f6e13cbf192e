--------------------------- MODULE BcacheContents ---------------------------
(***************************************************************************)
(* What the buffers, the drive and the disk hold, when no read fails.      *)
(***************************************************************************)
EXTENDS BcacheProofs

USE DEF Place, Command

\* The drive works for the head of the queue with its data; once it is done, the
\* buffer and the disk, or the answer and the disk, agree.
DriveSound ==
  idequeue # <<>> =>
    LET b == Head(idequeue)
    IN  /\ drive.op = "read" => b \notin dirty
        /\ drive.op = "write" => b \in dirty /\ drive.val = data[b]
        /\ drive.op = "irq" => disk[sector[b]] = IF b \in dirty THEN data[b] ELSE drive.val

\* Contents belong to a sector.
ValidHasSector == \A b \in valid : sector[b] \in Sector

ContentsInv == DriveSound /\ ValidHasSector /\ CleanIsDisk

\* What a step keeps that changes neither buffers in use nor the driver.
LEMMA ContentsKept ==
  ASSUME BcacheInv, ContentsInv, UNCHANGED <<dirty, data, io>>, valid' \subseteq valid,
         \A b \in valid' \union Range(idequeue) : sector'[b] = sector[b]
  PROVE  ContentsInv'
<1>1. UNCHANGED <<disk, idequeue, drive>>
  BY DEF io
<1>2. idequeue # <<>> => Head(idequeue) \in Range(idequeue)
  BY DEF BcacheInv, Types, Range
<1>3. DriveSound'
  BY <1>1, <1>2 DEF ContentsInv, DriveSound
<1>4. ValidHasSector' /\ CleanIsDisk'
  BY <1>1 DEF ContentsInv, ValidHasSector, CleanIsDisk
<1> QED BY <1>3, <1>4 DEF ContentsInv

\* A recycled buffer is not queued and its old contents are not meant any more.
LEMMA RecycleContents ==
  ASSUME BcacheInv, ContentsInv, NEW p \in Proc, BgetRecycle(p)
  PROVE  ContentsInv'
<1> PICK i \in 1 .. NBUF : IsVictim(i) /\ Recycle(p, lru[i])
  BY DEF BgetRecycle
<1> DEFINE b == lru[i]
<1>1. /\ b \in Buf /\ b \notin busy
      /\ sector' = [sector EXCEPT ![b] = want[p]] /\ valid' = valid \ {b}
      /\ UNCHANGED <<dirty, data, io>>
  BY Zenon DEF IsVictim, Recyclable, Recycle, BgetRecycle
<1> HIDE DEF b
<1>2. \A c \in Range(idequeue) : c # b
  BY <1>1, Queued
<1>3. \A c \in Buf : c # b => sector'[c] = sector[c]
  BY <1>1 DEF BcacheInv, Types
<1>4. Range(idequeue) \subseteq Buf /\ valid \subseteq Buf
  BY Queued DEF BcacheInv, Types
<1> QED BY <1>1, <1>2, <1>3, <1>4, ContentsKept

\* The owner writes to a buffer that is not queued, and makes it B_DIRTY.
LEMMA OwnerContents ==
  ASSUME BcacheInv, ContentsInv, NEW p \in Proc, NEW v \in Val, pc[p] = "own",
         data' = [data EXCEPT ![buf[p]] = v], dirty' = dirty \union {buf[p]},
         UNCHANGED <<sector, valid, io>>
  PROVE  ContentsInv'
<1>1. Owns(p) /\ buf[p] \in Buf
  BY DEF BcacheInv, Types, Owns, ExclusiveOwner
<1>2. buf[p] \notin Range(idequeue)
  BY <1>1, Queued
<1>3. UNCHANGED <<disk, idequeue, drive>>
  BY DEF io
<1>4. idequeue # <<>> => Head(idequeue) \in Range(idequeue) /\ Head(idequeue) \in Buf
  BY DEF BcacheInv, Types, Range
<1>5. \A c \in Buf : c # buf[p] => data'[c] = data[c] /\ (c \in dirty' <=> c \in dirty)
  BY DEF BcacheInv, Types
<1>6. DriveSound'
  BY <1>2, <1>3, <1>4, <1>5 DEF ContentsInv, DriveSound
<1>7. ValidHasSector' /\ CleanIsDisk'
  BY <1>3, <1>5 DEF BcacheInv, Types, ContentsInv, ValidHasSector, CleanIsDisk
<1> QED BY <1>6, <1>7 DEF ContentsInv

\* iderw gives an idle drive the data of its own buffer.
LEMMA IderwContents ==
  ASSUME BcacheInv, ContentsInv, NEW p \in Proc, Iderw(p)
  PROVE  ContentsInv'
<1>1. /\ pc[p] = "iderw" /\ idequeue' = Append(idequeue, buf[p])
      /\ drive' = IF idequeue = <<>> THEN idestart(buf[p]) ELSE drive
      /\ UNCHANGED <<sector, valid, dirty, data, disk>>
  BY DEF Iderw, Enqueued, DriveAfterAppend, lists
<1>2. buf[p] \in Buf
  BY <1>1 DEF BcacheInv, Types, Owns, ExclusiveOwner
<1>3. Head(idequeue') = IF idequeue = <<>> THEN buf[p] ELSE Head(idequeue)
  BY <1>1, <1>2 DEF BcacheInv, Types
<1>4. DriveSound'
  BY <1>1, <1>3 DEF ContentsInv, DriveSound, idestart
<1>5. ValidHasSector' /\ CleanIsDisk'
  BY <1>1 DEF ContentsInv, ValidHasSector, CleanIsDisk
<1> QED BY <1>4, <1>5 DEF ContentsInv

\* A write changes one sector, whose only buffer is B_DIRTY until the interrupt.
LEMMA DriveDoneContents ==
  ASSUME BcacheInv, ContentsInv, DriveDone
  PROVE  ContentsInv'
<1> DEFINE b == Head(idequeue)
<1>1. /\ drive.op \in {"read", "write"}
      /\ UNCHANGED <<sector, valid, dirty, data, idequeue>>
      /\ disk' = IF drive.op = "write" THEN [disk EXCEPT ![drive.sec] = drive.val] ELSE disk
      /\ drive' = [drive EXCEPT !.op = "irq", !.val = IF drive.op = "read" THEN disk[drive.sec] ELSE @]
  BY DEF DriveDone, lists
<1>2. idequeue # <<>> /\ drive.sec = sector[b] /\ b \in Buf
  BY <1>1 DEF BcacheInv, QueueSound, Types
<1>3. b \in Range(idequeue)
  BY <1>2 DEF BcacheInv, Types, Range
<1>4. sector[b] \in Sector
  BY <1>3, Queued
<1> HIDE DEF b
<1>5. /\ drive.op = "read" => drive'.val = disk[sector[b]]
      /\ drive.op = "write" => disk'[sector[b]] = drive.val
      /\ \A s \in Sector : s # sector[b] => disk'[s] = disk[s]
      /\ drive.op = "read" => disk' = disk
  BY <1>1, <1>2, <1>4 DEF BcacheInv, Types
<1>6. drive'.op = "irq"
  BY <1>1 DEF BcacheInv, Types
<1>7. DriveSound'
  <2>1. disk'[sector[b]] = IF b \in dirty THEN data[b] ELSE drive'.val
    BY <1>1, <1>2, <1>5, <1>6 DEF ContentsInv, DriveSound, b
  <2> QED BY <1>1, <1>6, <2>1 DEF DriveSound, b
<1>8. CleanIsDisk'
  <2> SUFFICES ASSUME NEW c \in valid \ dirty PROVE data[c] = disk'[sector[c]]
    BY <1>1 DEF CleanIsDisk
  <2>1. c \in Buf /\ sector[c] \in Sector /\ data[c] = disk[sector[c]]
    BY DEF BcacheInv, Types, ContentsInv, ValidHasSector, CleanIsDisk
  <2>2. drive.op = "write" => sector[c] # sector[b]
    <3>1. drive.op = "write" => c # b
      BY <1>2 DEF ContentsInv, DriveSound, b
    <3> QED BY <1>2, <2>1, <3>1, BufFacts DEF BcacheInv, ExclusiveOwner
  <2> QED BY <1>1, <1>5, <2>1, <2>2
<1> QED BY <1>1, <1>7, <1>8 DEF ContentsInv, ValidHasSector

\* The interrupt makes the buffer and its sector equal: by the copy after a read,
\* because the drive is done after a write.
LEMMA IdeintrContents ==
  ASSUME BcacheInv, ContentsInv, Ideintr(FALSE)
  PROVE  ContentsInv'
<1> DEFINE b == Head(idequeue)
           rest == Tail(idequeue)
<1>1. /\ drive.op = "irq" /\ idequeue # <<>>
      /\ data' = IF b \notin dirty THEN [data EXCEPT ![b] = drive.val] ELSE data
      /\ valid' = valid \union {b} /\ dirty' = dirty \ {b}
      /\ idequeue' = rest
      /\ drive' = IF rest = <<>> THEN IdleDrive ELSE idestart(Head(rest))
      /\ UNCHANGED <<sector, disk>>
  BY DEF Ideintr, lists
<1>2. /\ b = idequeue[1] /\ b \in Buf /\ b \in Range(idequeue)
      /\ rest # <<>> => Head(rest) = idequeue[2] /\ Head(rest) \in Buf /\ 1 \in DOMAIN idequeue /\ 2 \in DOMAIN idequeue
  BY <1>1 DEF BcacheInv, Types, Range
<1>3. sector[b] \in Sector
  BY <1>2, Queued
<1>4. rest # <<>> => Head(rest) # b
  BY <1>2 DEF BcacheInv, QueueSound
<1>5. /\ \A c \in Buf : c # b => data'[c] = data[c] /\ (c \in dirty' <=> c \in dirty)
      /\ data'[b] = IF b \in dirty THEN data[b] ELSE drive.val
  BY <1>1, <1>2 DEF BcacheInv, Types
<1>6. disk[sector[b]] = data'[b]
  BY <1>1, <1>5 DEF ContentsInv, DriveSound
<1> HIDE DEF b, rest
<1>7. DriveSound'
  BY <1>1, <1>2, <1>4, <1>5 DEF DriveSound, idestart
<1>8. ValidHasSector'
  BY <1>1, <1>3 DEF ContentsInv, ValidHasSector
<1>9. CleanIsDisk'
  BY <1>1, <1>2, <1>5, <1>6 DEF BcacheInv, Types, ContentsInv, CleanIsDisk
<1> QED BY <1>7, <1>8, <1>9 DEF ContentsInv

\* Every step keeps the contents right.
LEMMA NextContents ==
  ASSUME ReadErrors = FALSE
  PROVE  BcacheInv /\ ContentsInv /\ [Next]_vars => ContentsInv'
<1> SUFFICES ASSUME BcacheInv, ContentsInv, [Next]_vars PROVE ContentsInv'
  OBVIOUS
<1>1. ASSUME UNCHANGED <<sector, valid, dirty, data, io>> PROVE ContentsInv'
  BY <1>1, ContentsKept
<1>2. ASSUME NEW p \in Proc, Step(p) PROVE ContentsInv'
  <2>1. CASE BgetHit(p) \/ BgetSleep(p) \/ BgetPanic(p) \/ BreadCheck(p) \/ IderwTest(p)
    BY <1>1, <2>1 DEF BgetHit, BgetSleep, BgetPanic, BreadCheck, IderwTest, lists
  <2> QED BY <1>2, <2>1, RecycleContents, IderwContents DEF Step, BgetStep
<1>3. ASSUME NEW p \in Proc, NEW v \in Val, LogWrite(p, v) \/ Bwrite(p, v) PROVE ContentsInv'
  BY <1>3, OwnerContents DEF LogWrite, Bwrite, lists
<1>4. ASSUME NEW p \in Proc, NEW s \in Sector, Bread(p, s) PROVE ContentsInv'
  BY <1>1, <1>4 DEF Bread, lists
<1>5. ASSUME NEW p \in Proc, Brelse(p) PROVE ContentsInv'
  BY <1>1, <1>5 DEF Brelse
<1>6. ASSUME Interrupt PROVE ContentsInv'
  BY <1>6, IdeintrContents, Zenon DEF Interrupt
<1>7. CASE UNCHANGED vars
  BY <1>1, <1>7 DEF vars, lists
<1> QED BY <1>2, <1>3, <1>4, <1>5, <1>6, <1>7, DriveDoneContents DEF Next

\* When no read fails, a buffer with B_VALID and without B_DIRTY has the contents
\* of its sector (bio.c:119), whatever is queued and whoever waits.
THEOREM ContentsInvariant ==
  ASSUME ReadErrors = FALSE
  PROVE  Spec => []ContentsInv
<1>1. Init => ContentsInv
  BY DEF Init, ContentsInv, DriveSound, ValidHasSector, CleanIsDisk
<1>2. BcacheInv /\ ContentsInv /\ [Next]_vars => ContentsInv'
  BY NextContents, Zenon
<1> QED BY <1>1, <1>2, BcacheInvariant, PTL DEF Spec

=============================================================================
