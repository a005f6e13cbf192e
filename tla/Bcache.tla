------------------------------- MODULE Bcache -------------------------------
(***************************************************************************)
(* The buffer cache (bio.c) and the IDE driver below it (ide.c).           *)
(*                                                                         *)
(* Processes bread a sector, use the buffer, may bwrite it or leave it     *)
(* pinned for the log (log_write's B_DIRTY), and brelse it.  A step is one *)
(* section under bcache.lock or idelock, an unlocked step of the process   *)
(* that owns the buffer, or a step of the drive.  A sector here is a       *)
(* (dev, sector) pair of the code; a process holds one buffer at a time.   *)
(* The statistics number_of_hits and number_of_block_acsses, which no      *)
(* decision of the code reads, are left out; free_block_number is kept.    *)
(***************************************************************************)
EXTENDS Integers, Sequences, FiniteSets, Functions

CONSTANTS Proc,        \* processes
          Sector,      \* disk sectors
          Val,         \* sector contents
          NoSector,    \* dev = -1 of an unused buffer
          NoBuf,       \* "no buffer"
          NoProc,      \* "no owner" of the abstract store
          NBUF,        \* number of buffers
          MaxPinned,   \* how many buffers the log pins at once
          ReadErrors   \* whether the drive may report a failed read

ASSUME BcacheAssumption ==
  /\ NBUF \in Nat \ {0} /\ MaxPinned \in Nat
  /\ NoSector \notin Sector /\ NoProc \notin Proc /\ NoBuf \notin 1 .. NBUF
  /\ Val # {} /\ ReadErrors \in BOOLEAN

Buf == 1 .. NBUF

VARIABLES
  lru,        \* bcache.head list, most recently used first
  sector,     \* b->dev, b->sector
  busy, valid, dirty,    \* buffers with B_BUSY, B_VALID, B_DIRTY
  data,       \* b->data
  free_block_number,
  idequeue,   \* buffers waiting for the drive, the active one first
  drive,      \* command given to the drive: op, sec, val
  disk,       \* what is on the disk
  pc,         \* where each process is
  want,       \* the sector it asked bread for
  buf,        \* the buffer it owns or sleeps on
  panicked    \* 1 once the kernel called panic()

lists == <<lru, sector, busy, free_block_number>>
io == <<idequeue, drive, disk>>
vars == <<lists, valid, dirty, data, io, pc, want, buf, panicked>>

(***************************************************************************)
(* Values of pc: "idle"; "bget" (at bget's loop label); "bsleep" (asleep   *)
(* on a busy buffer in bget); "got" (bget returned); "iderw" (calling      *)
(* iderw); "iosleep" (asleep in iderw); "iowake" (woken in iderw, about to *)
(* test the flags again); "own" (the caller of bread owns the buffer).     *)
(***************************************************************************)
IdleDrive == [op |-> "none", sec |-> NoSector, val |-> CHOOSE v \in Val : TRUE]

Alive == panicked = 0

\* Fault variant: a busy buffer does not count as caching its sector.
Cached_NotBusy(s) == {b \in Buf \ busy : sector[b] = s}
\* The buffer caching sector s, if any (bget's first loop).
Cached(s) == {b \in Buf : sector[b] = s}

Init ==
  /\ lru = [i \in 1 .. NBUF |-> NBUF + 1 - i]
  /\ sector = [b \in Buf |-> NoSector]
  /\ busy = {} /\ valid = {} /\ dirty = {}
  /\ \E v \in Val : data = [b \in Buf |-> v]
  /\ free_block_number = NBUF
  /\ idequeue = <<>> /\ drive = IdleDrive
  /\ disk \in [Sector -> Val]
  /\ pc = [p \in Proc |-> "idle"]
  /\ want = [p \in Proc |-> NoSector]
  /\ buf = [p \in Proc |-> NoBuf]
  /\ panicked = 0

-----------------------------------------------------------------------------
(* bread and bget *)

Bread(p, s) ==
  /\ Alive
  /\ pc[p] = "idle"
  /\ pc' = [pc EXCEPT ![p] = "bget"]
  /\ want' = [want EXCEPT ![p] = s]
  /\ UNCHANGED <<lists, valid, dirty, data, io, buf, panicked>>

\* Cached and not busy.
BgetHit(p) ==
  /\ Alive
  /\ pc[p] = "bget"
  /\ \E b \in Cached(want[p]) :
       /\ b \notin busy
       /\ busy' = busy \union {b}
       /\ buf' = [buf EXCEPT ![p] = b]
  /\ free_block_number' = free_block_number - 1
  /\ pc' = [pc EXCEPT ![p] = "got"]
  /\ UNCHANGED <<lru, sector, valid, dirty, data, io, want, panicked>>

\* Cached and busy: sleep(b, &bcache.lock), then search again.
BgetSleep(p) ==
  /\ Alive
  /\ pc[p] = "bget"
  /\ \E b \in Cached(want[p]) : b \in busy /\ buf' = [buf EXCEPT ![p] = b]
  /\ pc' = [pc EXCEPT ![p] = "bsleep"]
  /\ UNCHANGED <<lists, valid, dirty, data, io, want, panicked>>

\* Fault variant: B_DIRTY buffers are recycled too.
Recyclable_Dirty == Buf \ busy
\* Fault variant: the search stops before the head of the list.
Recyclable_NotMRU == Buf \ (busy \union dirty \union {lru[1]})
Recyclable == Buf \ (busy \union dirty)

\* The least recently used buffer that may be recycled (second loop of bget).
IsVictim(i) == /\ lru[i] \in Recyclable
               /\ \A j \in i + 1 .. NBUF : lru[j] \notin Recyclable

\* b->flags = B_BUSY clears the other flags.
Recycle(p, b) ==
  /\ sector' = [sector EXCEPT ![b] = want[p]]
  /\ busy' = busy \union {b}
  /\ valid' = valid \ {b}
  /\ buf' = [buf EXCEPT ![p] = b]

\* Not cached: take over a buffer.
BgetRecycle(p) ==
  /\ Alive
  /\ pc[p] = "bget"
  /\ Cached(want[p]) = {}
  /\ \E i \in 1 .. NBUF : IsVictim(i) /\ Recycle(p, lru[i])
  /\ free_block_number' = free_block_number - 1
  /\ pc' = [pc EXCEPT ![p] = "got"]
  /\ UNCHANGED <<lru, dirty, data, io, want, panicked>>

\* panic("bget: no buffers").
BgetPanic(p) ==
  /\ Alive
  /\ pc[p] = "bget"
  /\ Cached(want[p]) = {} /\ Recyclable = {}
  /\ panicked' = 1
  /\ UNCHANGED <<lists, valid, dirty, data, io, pc, want, buf>>

\* bread after bget: a buffer that is not B_VALID is read from the disk.
BreadCheck(p) ==
  /\ Alive
  /\ pc[p] = "got"
  /\ pc' = [pc EXCEPT ![p] = IF buf[p] \in valid THEN "own" ELSE "iderw"]
  /\ UNCHANGED <<lists, valid, dirty, data, io, want, buf, panicked>>

-----------------------------------------------------------------------------
(* The owner *)

\* Change the block and log_write it: pinned until the commit writes it.
LogWrite(p, v) ==
  /\ Alive
  /\ pc[p] = "own"
  /\ Cardinality(dirty \union {buf[p]}) <= MaxPinned
  /\ data' = [data EXCEPT ![buf[p]] = v]
  /\ dirty' = dirty \union {buf[p]}
  /\ UNCHANGED <<lists, valid, io, pc, want, buf, panicked>>

\* Change the block (or not) and bwrite it; also how the log unpins a block.
Bwrite(p, v) ==
  /\ Alive
  /\ pc[p] = "own"
  /\ data' = [data EXCEPT ![buf[p]] = v]
  /\ dirty' = dirty \union {buf[p]}
  /\ pc' = [pc EXCEPT ![p] = "iderw"]
  /\ panicked' = IF buf[p] \notin busy THEN 1 ELSE 0
  /\ UNCHANGED <<lists, valid, io, want, buf>>

\* Fault variant: wakes the process in iderw, not those in bget.
Wakeup_IoOnly(b, f) ==
  [p \in Proc |-> IF buf[p] = b /\ f[p] = "iosleep" THEN "iowake" ELSE f[p]]
\* wakeup(b): sleepers in bget and in iderw share the channel.
Wakeup(b, f) ==
  [p \in Proc |->
     IF buf[p] # b THEN f[p]
     ELSE CASE f[p] = "bsleep" -> "bget"
            [] f[p] = "iosleep" -> "iowake"
            [] OTHER -> f[p]]

Released == free_block_number + 1

Brelse(p) ==
  /\ Alive
  /\ pc[p] = "own"
  /\ lru' = <<buf[p]>> \o SelectSeq(lru, LAMBDA b : b # buf[p])
  /\ busy' = busy \ {buf[p]}
  /\ free_block_number' = Released
  /\ pc' = Wakeup(buf[p], [pc EXCEPT ![p] = "idle"])
  /\ want' = [want EXCEPT ![p] = NoSector]
  /\ buf' = [buf EXCEPT ![p] = NoBuf]
  /\ panicked' = IF buf[p] \notin busy THEN 1 ELSE 0
  /\ UNCHANGED <<sector, valid, dirty, data, io>>

-----------------------------------------------------------------------------
(* ide.c *)

\* The command idestart gives the drive; a write sends the data with it.
idestart(b) == [op |-> IF b \in dirty THEN "write" ELSE "read",
                sec |-> sector[b], val |-> data[b]]

\* Fault variant: starts the drive for every request.
DriveAfterAppend_Always(b) == idestart(b)
DriveAfterAppend(b) == IF idequeue = <<>> THEN idestart(b) ELSE drive

Enqueued(b) == Append(idequeue, b)

\* Queue the request, start an idle drive, and sleep until it is served.
Iderw(p) ==
  /\ Alive
  /\ pc[p] = "iderw"
  /\ panicked' = IF buf[p] \notin busy \/ buf[p] \in valid \ dirty THEN 1 ELSE 0
  /\ idequeue' = Enqueued(buf[p])
  /\ drive' = DriveAfterAppend(buf[p])
  /\ pc' = [pc EXCEPT ![p] = "iosleep"]
  /\ UNCHANGED <<lists, valid, dirty, data, disk, want, buf>>

\* The drive executes its command and raises IRQ_IDE.
DriveDone ==
  /\ Alive
  /\ drive.op \in {"read", "write"}
  /\ disk' = IF drive.op = "write" THEN [disk EXCEPT ![drive.sec] = drive.val]
             ELSE disk
  /\ drive' = [drive EXCEPT !.op = "irq",
                            !.val = IF drive.op = "read" THEN disk[drive.sec] ELSE @]
  /\ UNCHANGED <<lists, valid, dirty, data, idequeue, pc, want, buf, panicked>>

\* The interrupt handler; err is what idewait(1) reports after a read.
Ideintr(err) ==
  /\ Alive
  /\ drive.op = "irq" /\ idequeue # <<>>
  /\ LET b == Head(idequeue)
     IN  /\ data' = IF b \notin dirty /\ ~err
                    THEN [data EXCEPT ![b] = drive.val] ELSE data
         /\ valid' = valid \union {b}
         /\ dirty' = dirty \ {b}
         /\ pc' = Wakeup(b, pc)
  /\ idequeue' = Tail(idequeue)
  /\ drive' = IF Tail(idequeue) = <<>> THEN IdleDrive
              ELSE idestart(Head(Tail(idequeue)))
  /\ UNCHANGED <<lists, disk, want, buf, panicked>>

\* iderw's while loop after a wake-up.
IderwTest(p) ==
  /\ Alive
  /\ pc[p] = "iowake"
  /\ pc' = [pc EXCEPT ![p] = IF buf[p] \in valid \ dirty THEN "own" ELSE "iosleep"]
  /\ UNCHANGED <<lists, valid, dirty, data, io, want, buf, panicked>>

-----------------------------------------------------------------------------
BgetStep(p) == BgetHit(p) \/ BgetSleep(p) \/ BgetRecycle(p) \/ BgetPanic(p)
Step(p) == BgetStep(p) \/ BreadCheck(p) \/ Iderw(p) \/ IderwTest(p)
Interrupt == \E err \in {FALSE, ReadErrors} : Ideintr(err)

Next ==
  \/ \E p \in Proc, s \in Sector : Bread(p, s)
  \/ \E p \in Proc : Step(p) \/ Brelse(p)
  \/ \E p \in Proc, v \in Val : LogWrite(p, v) \/ Bwrite(p, v)
  \/ DriveDone
  \/ Interrupt

Spec == Init /\ [][Next]_vars

(***************************************************************************)
(* Processes are scheduled, the drive answers, and an owner releases its   *)
(* buffer after finitely many uses of it (strong fairness on brelse).      *)
(***************************************************************************)
FairSpec == /\ Spec
            /\ \A p \in Proc : WF_vars(Step(p)) /\ SF_vars(Brelse(p))
            /\ WF_vars(DriveDone) /\ WF_vars(Interrupt)

-----------------------------------------------------------------------------
(* Properties *)

\* A process owns its buffer from bget to brelse, sleeping in iderw included.
Owns(p) == pc[p] \in {"got", "iderw", "iosleep", "iowake", "own"}

\* "Only one process at a time can use a buffer" (bio.c:13), and bread returns
\* the sector it was asked for: B_BUSY buffers and owners correspond one to one.
\* However processes race in bget, which sleeps with bcache.lock released (96) and
\* must search again, a sector is never in two buffers.
ExclusiveOwner ==
  /\ \A b, c \in Buf : sector[b] = sector[c] /\ sector[b] # NoSector => b = c
  /\ \A p \in Proc : Owns(p) => buf[p] \in busy /\ sector[buf[p]] = want[p]
  /\ \A p, q \in Proc : Owns(p) /\ Owns(q) /\ buf[p] = buf[q] => p = q
  /\ \A b \in busy : \E p \in Proc : Owns(p) /\ buf[p] = b

\* Every queued request is of a buffer whose owner sleeps in iderw, is queued
\* once, and the drive always works for the head of the queue (ide.c:96-116).
QueueSound ==
  /\ \A i, j \in DOMAIN idequeue : idequeue[i] = idequeue[j] => i = j
  /\ \A b \in Range(idequeue) :
       \E p \in Proc : pc[p] = "iosleep" /\ buf[p] = b
  /\ IF idequeue = <<>> THEN drive.op = "none"
     ELSE drive.op # "none" /\ drive.sec = sector[Head(idequeue)]

\* A buffer with B_VALID and without B_DIRTY has the contents of its sector, so
\* that dropping it loses nothing ("Return a B_BUSY buf with the contents of
\* the indicated disk sector", bio.c:119).
CleanIsDisk ==
  \A b \in valid \ dirty : data[b] = disk[sector[b]]

\* No buffer is ever lost to the cache: free_block_number, which blockstat reports,
\* is the number of buffers that are not B_BUSY (bio.c:91, 110, 160), and bget
\* gives up ("no buffers", 116) only when every buffer is pinned by the log or in
\* the hands of a process.
BuffersAccounted ==
  /\ free_block_number = NBUF - Cardinality(busy)
  /\ panicked = 1 => Buf = dirty \union {buf[p] : p \in {q \in Proc : Owns(q)}}

\* bget and iderw sleep on one channel (bio.c:96, ide.c:151): whoever sleeps in
\* bget waits for a buffer that somebody has, whoever sleeps in iderw for a request
\* that is still queued, so that a brelse or an interrupt is yet to come.
NoLostWakeup ==
  \A p \in Proc : /\ pc[p] = "bsleep" => buf[p] \in busy
                  /\ pc[p] = "iosleep" => buf[p] \in Range(idequeue)

\* A process that waits for a buffer in bget is woken (bio.c:96, 162).
BgetWoken == \A p \in Proc : pc[p] = "bsleep" ~> pc[p] # "bsleep"

\* A request to the disk is served and its process returns from iderw.
IderwReturns == \A p \in Proc : pc[p] = "iderw" ~> pc[p] = "own"

(***************************************************************************)
(* Refinement of BlockStore: the contents of a sector are those of its     *)
(* buffer once they are meaningful there, otherwise those on the disk.     *)
(***************************************************************************)
content == [s \in Sector |->
              IF \E b \in Cached(s) : b \in valid \union dirty
              THEN data[CHOOSE b \in Cached(s) : TRUE]
              ELSE disk[s]]
owner == [s \in Sector |->
            IF \E p \in Proc : Owns(p) /\ want[p] = s
            THEN CHOOSE p \in Proc : Owns(p) /\ want[p] = s
            ELSE NoProc]

Store == INSTANCE BlockStore

\* The cache and the driver together are a store of exclusively owned blocks.
StoreRefinement == Store!Spec
=============================================================================
