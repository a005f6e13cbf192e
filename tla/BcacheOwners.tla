---------------------------- MODULE BcacheOwners ----------------------------
(***************************************************************************)
(* The inductive invariant of the buffer cache, and that the steps of the  *)
(* processes in bio.c keep it.                                             *)
(***************************************************************************)
EXTENDS Bcache, FiniteSetTheorems, TLAPS

\* Where a process can be, and what the drive can be told.
Place == {"idle", "bget", "bsleep", "got", "iderw", "iosleep", "iowake", "own"}
Command == [op : {"none", "read", "write", "irq"}, sec : Sector \union {NoSector}, val : Val]

Types ==
  /\ sector \in [Buf -> Sector \union {NoSector}]
  /\ busy \subseteq Buf /\ valid \subseteq Buf /\ dirty \subseteq Buf
  /\ data \in [Buf -> Val] /\ disk \in [Sector -> Val]
  /\ free_block_number \in Int
  /\ idequeue \in Seq(Buf)
  /\ drive \in Command
  /\ pc \in [Proc -> Place]
  /\ want \in [Proc -> Sector \union {NoSector}]
  /\ buf \in [Proc -> Buf \union {NoBuf}]
  /\ panicked \in {0, 1}

\* Whoever is in bread or owns a buffer asked for a sector.
Wants == \A p \in Proc : pc[p] # "idle" => want[p] \in Sector

\* What iderw is called for has to be done, and is done when it returns.
Requests ==
  /\ \A p \in Proc : pc[p] = "iderw" => buf[p] \notin valid \ dirty
  /\ \A p \in Proc : pc[p] = "iowake" => buf[p] \in valid \ dirty

\* The inductive invariant.
BcacheInv == /\ Types /\ Wants /\ Requests
             /\ ExclusiveOwner /\ QueueSound /\ NoLostWakeup /\ BuffersAccounted

USE DEF Place, Command

\* There is no buffer NoBuf, and the buffers are finitely many.
LEMMA BufFacts == /\ NBUF \in Nat \ {0} /\ NoBuf \notin Buf /\ NoSector \notin Sector /\ Val # {}
                  /\ IsFiniteSet(Buf) /\ Cardinality(Buf) = NBUF
<1>1. NBUF \in Nat \ {0} /\ NoBuf \notin Buf /\ NoSector \notin Sector /\ Val # {}
  BY BcacheAssumption DEF BcacheAssumption, Buf
<1>2. IsFiniteSet(Buf) /\ Cardinality(Buf) = NBUF
  BY <1>1, FS_Interval DEF Buf
<1> QED BY <1>1, <1>2

\* One more busy buffer, or one less, is one less free, or one more.
LEMMA Counting ==
  ASSUME Types, NEW b \in Buf
  PROVE  /\ Cardinality(busy) \in Nat
         /\ b \notin busy => Cardinality(busy \union {b}) = Cardinality(busy) + 1
         /\ b \in busy => Cardinality(busy \ {b}) = Cardinality(busy) - 1
<1>1. IsFiniteSet(busy)
  BY BufFacts, FS_Subset DEF Types
<1>2. Cardinality(busy) \in Nat
  BY <1>1, FS_CardinalityType
<1>3. b \notin busy => Cardinality(busy \union {b}) = Cardinality(busy) + 1
  BY <1>1, FS_AddElement
<1>4. b \in busy => Cardinality(busy \ {b}) = Cardinality(busy) - 1
  BY <1>1, FS_RemoveElement
<1> QED BY <1>2, <1>3, <1>4

\* At first all buffers are free and nobody waits.
LEMMA InitInv == Init => BcacheInv
<1> SUFFICES ASSUME Init PROVE BcacheInv
  OBVIOUS
<1>1. IdleDrive \in Command
  BY BufFacts DEF IdleDrive
<1>2. Types /\ Wants /\ Requests
  BY <1>1, BufFacts DEF Init, Types, Wants, Requests
<1>3. ExclusiveOwner /\ NoLostWakeup
  BY DEF Init, ExclusiveOwner, NoLostWakeup, Owns
<1>4. QueueSound
  BY DEF Init, QueueSound, IdleDrive, Range
<1>5. BuffersAccounted
  BY BufFacts, FS_EmptySet DEF Init, BuffersAccounted
<1> QED BY <1>2, <1>3, <1>4, <1>5 DEF BcacheInv

\* What the actions before the ownership of a buffer have in common: the driver
\* is not involved, so that its part of the invariant stays.
LEMMA DriverKept ==
  ASSUME BcacheInv, Types', io' = io,
         \A p \in Proc : pc[p] = "iosleep" <=> pc'[p] = "iosleep",
         \A p \in Proc : pc[p] = "iosleep" => buf'[p] = buf[p],
         \A b \in busy : sector'[b] = sector[b]
  PROVE  QueueSound' /\ \A p \in Proc : pc'[p] = "iosleep" => buf'[p] \in Range(idequeue')
<1>1. idequeue' = idequeue /\ drive' = drive
  BY DEF io
<1>2. \A p \in Proc : pc'[p] = "iosleep" => buf'[p] \in Range(idequeue')
  BY <1>1 DEF BcacheInv, NoLostWakeup
<1>3. idequeue # <<>> => Head(idequeue) \in Range(idequeue)
  BY DEF BcacheInv, Types, Range
<1>4. \A b \in Range(idequeue) : b \in busy
  BY DEF BcacheInv, QueueSound, ExclusiveOwner, Owns
<1>5. QueueSound'
  <2>1. \A b \in Range(idequeue) : \E p \in Proc : pc'[p] = "iosleep" /\ buf'[p] = b
    BY DEF BcacheInv, QueueSound
  <2>2. idequeue # <<>> => sector'[Head(idequeue)] = sector[Head(idequeue)]
    BY <1>3, <1>4
  <2> QED BY <1>1, <2>1, <2>2 DEF BcacheInv, QueueSound
<1> QED BY <1>2, <1>5

\* bget finds the sector in a buffer nobody has, and takes it (bio.c:83-94).
LEMMA BgetHitInv ==
  ASSUME BcacheInv, NEW p \in Proc, BgetHit(p)
  PROVE  BcacheInv'
<1> USE BufFacts
<1> PICK b \in Cached(want[p]) :
      b \notin busy /\ busy' = busy \union {b} /\ buf' = [buf EXCEPT ![p] = b]
  BY Zenon DEF BgetHit
<1>1. b \in Buf /\ sector[b] = want[p]
  BY DEF Cached
<1>2. /\ pc[p] = "bget" /\ pc' = [pc EXCEPT ![p] = "got"]
      /\ free_block_number' = free_block_number - 1
      /\ UNCHANGED <<sector, valid, dirty, data, disk, idequeue, drive, want, panicked>>
  BY DEF BgetHit, io
<1>3. Types'
  BY <1>1, <1>2 DEF BcacheInv, Types
<1>4. Wants' /\ Requests'
  BY <1>2 DEF BcacheInv, Types, Wants, Requests
<1>5. ExclusiveOwner'
  <2>1. \A q \in Proc : Owns(q)' <=> q = p \/ Owns(q)
    BY <1>2 DEF BcacheInv, Types, Owns
  <2>2. buf'[p] = b /\ \A q \in Proc : q # p => buf'[q] = buf[q]
    BY DEF BcacheInv, Types
  <2>3. ~Owns(p) /\ \A q \in Proc : Owns(q) => buf[q] # b
    BY <1>2 DEF BcacheInv, ExclusiveOwner, Owns
  <2> QED BY <1>1, <1>2, <2>1, <2>2, <2>3 DEF BcacheInv, ExclusiveOwner
<1>6. QueueSound' /\ NoLostWakeup'
  BY <1>2, <1>3, DriverKept DEF BcacheInv, Types, NoLostWakeup, io
<1>7. BuffersAccounted'
  <2>1. panicked' = 0
    BY <1>2 DEF BgetHit, Alive
  <2> QED BY <1>1, <1>2, <2>1, Counting DEF BcacheInv, Types, BuffersAccounted
<1> QED BY <1>3, <1>4, <1>5, <1>6, <1>7 DEF BcacheInv

\* bget takes over a buffer nobody has, and the sector is in no other (bio.c:104-112).
LEMMA BgetRecycleInv ==
  ASSUME BcacheInv, NEW p \in Proc, BgetRecycle(p)
  PROVE  BcacheInv'
<1> USE BufFacts
<1> PICK i \in 1 .. NBUF : IsVictim(i) /\ Recycle(p, lru[i])
  BY DEF BgetRecycle
<1> DEFINE b == lru[i]
<1>1. b \in Buf /\ b \notin busy /\ b \notin dirty
  BY DEF IsVictim, Recyclable
<1>2. /\ sector' = [sector EXCEPT ![b] = want[p]] /\ busy' = busy \union {b}
      /\ valid' = valid \ {b} /\ buf' = [buf EXCEPT ![p] = b]
  BY DEF Recycle
<1>3. /\ pc[p] = "bget" /\ pc' = [pc EXCEPT ![p] = "got"]
      /\ free_block_number' = free_block_number - 1
      /\ UNCHANGED <<dirty, data, disk, idequeue, drive, want, panicked>>
      /\ Cached(want[p]) = {} /\ panicked = 0
  BY DEF BgetRecycle, io, Alive
<1> HIDE DEF b
<1>4. Types'
  BY <1>1, <1>2, <1>3 DEF BcacheInv, Types
<1>5. \A q \in Proc : Owns(q)' <=> q = p \/ Owns(q)
  BY <1>3 DEF BcacheInv, Types, Owns
<1>6. buf'[p] = b /\ \A q \in Proc : q # p => buf'[q] = buf[q]
  BY <1>2 DEF BcacheInv, Types
<1>7. ~Owns(p) /\ \A q \in Proc : Owns(q) => buf[q] # b
  BY <1>1, <1>3, SMTT(30) DEF BcacheInv, ExclusiveOwner, Owns
<1>8. Wants' /\ Requests'
  <2>1. Wants'
    BY <1>3 DEF BcacheInv, Types, Wants
  <2>2. \A q \in Proc : pc'[q] \in {"iderw", "iowake"} => q # p /\ pc[q] = pc'[q] /\ Owns(q)
    BY <1>3 DEF BcacheInv, Types, Owns
  <2> QED BY <1>2, <1>3, <1>6, <1>7, <2>1, <2>2 DEF BcacheInv, Requests
<1>9. ExclusiveOwner'
  <2>1. sector'[b] = want[p] /\ \A c \in Buf : c # b => sector'[c] = sector[c] /\ sector[c] # want[p]
    BY <1>1, <1>2, <1>3 DEF BcacheInv, Types, Cached
  <2>2. \A c, d \in Buf : sector'[c] = sector'[d] /\ sector'[c] # NoSector => c = d
    BY <2>1 DEF BcacheInv, ExclusiveOwner
  <2>3. \A q \in Proc : Owns(q)' => buf'[q] \in busy' /\ sector'[buf'[q]] = want'[q]
    BY <1>1, <1>2, <1>3, <1>5, <1>6, <1>7, <2>1, SMTT(30) DEF BcacheInv, Types, ExclusiveOwner
  <2>4. \A q, r \in Proc : Owns(q)' /\ Owns(r)' /\ buf'[q] = buf'[r] => q = r
    BY <1>5, <1>6, <1>7 DEF BcacheInv, ExclusiveOwner
  <2>5. \A c \in busy' : \E q \in Proc : Owns(q)' /\ buf'[q] = c
    BY <1>2, <1>5, <1>6, <1>7 DEF BcacheInv, ExclusiveOwner
  <2> QED BY <2>2, <2>3, <2>4, <2>5 DEF ExclusiveOwner
<1>10. QueueSound' /\ NoLostWakeup'
  <2>1. \A c \in busy : sector'[c] = sector[c]
    BY <1>1, <1>2 DEF BcacheInv, Types
  <2> QED BY <1>2, <1>3, <1>4, <1>6, <2>1, DriverKept DEF BcacheInv, Types, NoLostWakeup, io
<1>11. BuffersAccounted'
  BY <1>1, <1>2, <1>3, Counting, SMTT(30) DEF BcacheInv, Types, BuffersAccounted
<1> QED BY <1>4, <1>8, <1>9, <1>10, <1>11 DEF BcacheInv

\* A process that only moves, and does not get or lose a buffer.
LEMMA MoveInv ==
  ASSUME BcacheInv, NEW p \in Proc, NEW here,
         here \in {"bget", "bsleep", "iderw", "own"},
         pc' = [pc EXCEPT ![p] = here], pc[p] # "iosleep", panicked = 0,
         UNCHANGED <<lists, valid, dirty, data, io, panicked>>,
         want' \in [Proc -> Sector \union {NoSector}], want'[p] \in Sector,
         buf' \in [Proc -> Buf \union {NoBuf}],
         \A q \in Proc : q # p => want'[q] = want[q] /\ buf'[q] = buf[q],
         Owns(p) <=> here \in {"iderw", "own"},
         Owns(p) => want'[p] = want[p] /\ buf'[p] = buf[p],
         here = "bsleep" => buf'[p] \in busy,
         here = "iderw" => buf'[p] \notin valid \ dirty
  PROVE  BcacheInv'
<1> USE BufFacts
<1>1. UNCHANGED <<sector, busy, free_block_number, disk, idequeue, drive>>
  BY DEF lists, io
<1>2. Types'
  BY <1>1, Zenon DEF BcacheInv, Types
<1>3. pc'[p] = here /\ \A q \in Proc : q # p => pc'[q] = pc[q]
  BY DEF BcacheInv, Types
<1>4. Wants' /\ Requests'
  BY <1>3 DEF BcacheInv, Wants, Requests
<1>5. \A q \in Proc : Owns(q)' <=> Owns(q)
  BY <1>3 DEF Owns
<1>6. ExclusiveOwner'
  BY <1>1, <1>5 DEF BcacheInv, ExclusiveOwner
<1>7. QueueSound' /\ NoLostWakeup'
  BY <1>1, <1>2, <1>3, DriverKept DEF BcacheInv, NoLostWakeup
<1>8. BuffersAccounted'
  BY <1>1 DEF BcacheInv, BuffersAccounted
<1> QED BY <1>2, <1>4, <1>6, <1>7, <1>8 DEF BcacheInv

\* bread is called (bio.c:120-125).
LEMMA BreadInv ==
  ASSUME BcacheInv, NEW p \in Proc, NEW s \in Sector, Bread(p, s)
  PROVE  BcacheInv'
<1>1. /\ pc[p] = "idle" /\ panicked = 0 /\ pc' = [pc EXCEPT ![p] = "bget"]
      /\ want' = [want EXCEPT ![p] = s] /\ buf' = buf
      /\ UNCHANGED <<lists, valid, dirty, data, io, panicked>>
  BY DEF Bread, Alive
<1>2. ~Owns(p)
  BY <1>1 DEF Owns
<1> QED BY <1>1, <1>2, MoveInv, Zenon DEF BcacheInv, Types

\* bget sleeps only on a buffer that somebody has (bio.c:96).
LEMMA BgetSleepInv ==
  ASSUME BcacheInv, NEW p \in Proc, BgetSleep(p)
  PROVE  BcacheInv'
<1> PICK b \in Cached(want[p]) : b \in busy /\ buf' = [buf EXCEPT ![p] = b]
  BY Zenon DEF BgetSleep
<1>1. /\ pc[p] = "bget" /\ panicked = 0 /\ pc' = [pc EXCEPT ![p] = "bsleep"] /\ want' = want
      /\ UNCHANGED <<lists, valid, dirty, data, io, panicked>>
  BY DEF BgetSleep, Alive
<1>2. ~Owns(p) /\ want[p] \in Sector /\ b \in Buf
  BY <1>1 DEF BcacheInv, Owns, Wants, Cached
<1> QED BY <1>1, <1>2, MoveInv, Zenon DEF BcacheInv, Types

\* bread calls iderw only for a buffer that is not B_VALID (bio.c:126-127).
LEMMA BreadCheckInv ==
  ASSUME BcacheInv, NEW p \in Proc, BreadCheck(p)
  PROVE  BcacheInv'
<1> DEFINE here == IF buf[p] \in valid THEN "own" ELSE "iderw"
<1>1. /\ pc[p] = "got" /\ panicked = 0 /\ pc' = [pc EXCEPT ![p] = here] /\ want' = want /\ buf' = buf
      /\ UNCHANGED <<lists, valid, dirty, data, io, panicked>>
  BY DEF BreadCheck, Alive
<1>2. Owns(p) /\ want[p] \in Sector /\ here \in {"iderw", "own"}
  BY <1>1 DEF BcacheInv, Owns, Wants
<1> QED BY <1>1, <1>2, MoveInv, Zenon DEF BcacheInv, Types

\* iderw's loop ends at the first wake-up: nobody else wakes who waits there.
LEMMA IderwTestInv ==
  ASSUME BcacheInv, NEW p \in Proc, IderwTest(p)
  PROVE  BcacheInv'
<1>1. pc[p] = "iowake" /\ buf[p] \in valid \ dirty
  BY DEF IderwTest, BcacheInv, Requests
<1>2. /\ panicked = 0 /\ pc' = [pc EXCEPT ![p] = "own"] /\ want' = want /\ buf' = buf
      /\ UNCHANGED <<lists, valid, dirty, data, io, panicked>>
  BY <1>1 DEF IderwTest, Alive
<1>3. Owns(p) /\ want[p] \in Sector
  BY <1>1 DEF BcacheInv, Owns, Wants
<1> QED BY <1>1, <1>2, <1>3, MoveInv, Zenon DEF BcacheInv, Types

\* The kernel stops only when no buffer is left to take (bio.c:116).
LEMMA BgetPanicInv ==
  ASSUME BcacheInv, NEW p \in Proc, BgetPanic(p)
  PROVE  BcacheInv'
<1>1. /\ panicked' = 1 /\ Buf = busy \union dirty
      /\ UNCHANGED <<sector, busy, free_block_number, valid, dirty, data,
                     idequeue, drive, disk, pc, want, buf>>
  BY DEF BgetPanic, Recyclable, lists, io, BcacheInv, Types
<1>2. Types' /\ Wants' /\ Requests' /\ NoLostWakeup'
  BY <1>1 DEF BcacheInv, Types, Wants, Requests, NoLostWakeup
<1>3. ExclusiveOwner'
  BY <1>1, SMTT(30) DEF BcacheInv, ExclusiveOwner, Owns
<1>4. QueueSound'
  BY <1>1 DEF BcacheInv, QueueSound
<1>5. BuffersAccounted'
  <2>1. \A b \in busy : b \in {buf[q] : q \in {r \in Proc : Owns(r)}}
    BY DEF BcacheInv, ExclusiveOwner
  <2>2. {buf[q] : q \in {r \in Proc : Owns(r)}} \subseteq Buf
    BY DEF BcacheInv, ExclusiveOwner, Types
  <2>3. Buf = dirty \union {buf[q] : q \in {r \in Proc : Owns(r)}}
    BY <1>1, <2>1, <2>2
  <2>4. \A q \in Proc : Owns(q)' <=> Owns(q)
    BY <1>1, SMTT(30) DEF Owns
  <2> QED BY <1>1, <2>3, <2>4 DEF BcacheInv, BuffersAccounted
<1> QED BY <1>2, <1>3, <1>4, <1>5 DEF BcacheInv

\* Only the owner of a buffer changes it: nobody else's request is affected.
LEMMA OwnerWrites ==
  ASSUME BcacheInv, NEW p \in Proc, NEW v \in Val, NEW here \in {"own", "iderw"},
         panicked = 0, pc[p] = "own", pc' = [pc EXCEPT ![p] = here],
         data' = [data EXCEPT ![buf[p]] = v], dirty' = dirty \union {buf[p]},
         UNCHANGED <<lists, valid, io, want, buf, panicked>>
  PROVE  BcacheInv'
<1> USE BufFacts
<1>1. UNCHANGED <<sector, busy, free_block_number, disk, idequeue, drive>>
  BY DEF lists, io
<1>2. Owns(p) /\ buf[p] \in busy /\ buf[p] \in Buf
  BY DEF BcacheInv, Types, Owns, ExclusiveOwner
<1>3. Types'
  BY <1>1, <1>2 DEF BcacheInv, Types
<1>4. pc'[p] = here /\ \A q \in Proc : q # p => pc'[q] = pc[q]
  BY DEF BcacheInv, Types
<1>5. \A q \in Proc : Owns(q)' <=> Owns(q)
  BY <1>4 DEF Owns
<1>6. Wants'
  BY <1>4 DEF BcacheInv, Wants
<1>7. Requests'
  <2>1. \A q \in Proc : q # p /\ Owns(q) => buf[q] # buf[p]
    BY <1>2 DEF BcacheInv, ExclusiveOwner
  <2>2. \A q \in Proc : pc[q] \in {"iderw", "iowake"} => Owns(q)
    BY DEF Owns
  <2> QED BY <1>4, <2>1, <2>2 DEF BcacheInv, Requests
<1>8. ExclusiveOwner'
  BY <1>1, <1>5 DEF BcacheInv, ExclusiveOwner
<1>9. QueueSound' /\ NoLostWakeup'
  BY <1>1, <1>3, <1>4, DriverKept DEF BcacheInv, NoLostWakeup, io
<1>10. BuffersAccounted'
  BY <1>1 DEF BcacheInv, BuffersAccounted
<1> QED BY <1>3, <1>6, <1>7, <1>8, <1>9, <1>10, SMTT(30) DEF BcacheInv

\* log_write pins the buffer of its caller (log.c:224).
LEMMA LogWriteInv ==
  ASSUME BcacheInv, NEW p \in Proc, NEW v \in Val, LogWrite(p, v)
  PROVE  BcacheInv'
<1>1. /\ panicked = 0 /\ pc[p] = "own" /\ pc' = pc
      /\ data' = [data EXCEPT ![buf[p]] = v] /\ dirty' = dirty \union {buf[p]}
      /\ UNCHANGED <<lists, valid, io, want, buf, panicked>>
  BY DEF LogWrite, Alive
<1>2. pc' = [pc EXCEPT ![p] = "own"]
  BY <1>1 DEF BcacheInv, Types
<1> QED BY <1>1, <1>2, OwnerWrites, Zenon

\* bwrite finds its buffer B_BUSY, and what it asks iderw for is to be done
\* (bio.c:133-139).
LEMMA BwriteInv ==
  ASSUME BcacheInv, NEW p \in Proc, NEW v \in Val, Bwrite(p, v)
  PROVE  BcacheInv'
<1>1. /\ panicked = 0 /\ pc[p] = "own" /\ pc' = [pc EXCEPT ![p] = "iderw"]
      /\ data' = [data EXCEPT ![buf[p]] = v] /\ dirty' = dirty \union {buf[p]}
      /\ UNCHANGED <<lists, valid, io, want, buf>>
  BY DEF Bwrite, Alive
<1>2. buf[p] \in busy
  BY <1>1 DEF BcacheInv, ExclusiveOwner, Owns
<1>3. panicked' = panicked
  BY <1>1, <1>2 DEF Bwrite
<1> QED BY <1>1, <1>3, OwnerWrites, Zenon

\* wakeup(b) changes who sleeps on b and nobody else (proc.c:389-398).
LEMMA WakeupFacts ==
  ASSUME Types, NEW b \in Buf, NEW f \in [Proc -> Place]
  PROVE  /\ Wakeup(b, f) \in [Proc -> Place]
         /\ \A q \in Proc : /\ buf[q] # b \/ f[q] \notin {"bsleep", "iosleep"} => Wakeup(b, f)[q] = f[q]
                            /\ buf[q] = b /\ f[q] = "bsleep" => Wakeup(b, f)[q] = "bget"
                            /\ buf[q] = b /\ f[q] = "iosleep" => Wakeup(b, f)[q] = "iowake"
<1>1. \A q \in Proc : Wakeup(b, f)[q] = IF buf[q] # b THEN f[q]
                                        ELSE IF f[q] = "bsleep" THEN "bget"
                                        ELSE IF f[q] = "iosleep" THEN "iowake" ELSE f[q]
  BY DEF Wakeup
<1>2. Wakeup(b, f) = [q \in Proc |-> Wakeup(b, f)[q]]
  BY DEF Wakeup
<1> HIDE DEF Wakeup
<1>3. \A q \in Proc : Wakeup(b, f)[q] \in Place
  BY <1>1
<1> QED BY <1>1, <1>2, <1>3

\* brelse gives the buffer back and wakes all who wait for it in bget
\* (bio.c:143-165).
LEMMA BrelseInv ==
  ASSUME BcacheInv, NEW p \in Proc, Brelse(p)
  PROVE  BcacheInv'
<1> USE BufFacts
<1> DEFINE b == buf[p]
           f == [pc EXCEPT ![p] = "idle"]
<1>1. /\ panicked = 0 /\ pc[p] = "own" /\ busy' = busy \ {b} /\ pc' = Wakeup(b, f)
      /\ free_block_number' = free_block_number + 1
      /\ want' = [want EXCEPT ![p] = NoSector] /\ buf' = [buf EXCEPT ![p] = NoBuf]
      /\ UNCHANGED <<sector, valid, dirty, data, disk, idequeue, drive>>
  BY DEF Brelse, Alive, Released, io
<1>2. Owns(p) /\ b \in busy /\ b \in Buf
  BY <1>1 DEF BcacheInv, Types, Owns, ExclusiveOwner
<1>3. panicked' = 0
  BY <1>1, <1>2 DEF Brelse
<1>4. /\ f \in [Proc -> Place]
      /\ f[p] = "idle" /\ \A q \in Proc : q # p => f[q] = pc[q]
  BY DEF BcacheInv, Types
<1>5. /\ buf'[p] = NoBuf /\ \A q \in Proc : q # p => buf'[q] = buf[q]
      /\ \A q \in Proc : q # p => want'[q] = want[q]
  BY <1>1, SMTT(30) DEF BcacheInv, Types
<1>6. \A q \in Proc : q # p /\ Owns(q) => buf[q] # b
  BY <1>2 DEF BcacheInv, ExclusiveOwner
<1> HIDE DEF b, f
<1>7. Types
  BY DEF BcacheInv
<1>8. /\ pc' \in [Proc -> Place]
      /\ pc'[p] = "idle"
      /\ \A q \in Proc : q # p => pc'[q] = IF pc[q] = "bsleep" /\ buf[q] = b THEN "bget" ELSE pc[q]
  <2>1. \A q \in Proc : q # p /\ pc[q] = "iosleep" => buf[q] # b
    BY <1>6 DEF Owns
  <2> QED BY <1>1, <1>2, <1>4, <1>7, <2>1, WakeupFacts
<1>9. Types'
  <2>1. busy' \subseteq Buf /\ free_block_number' \in Int /\ panicked' \in {0, 1}
    BY <1>1, <1>3, <1>7 DEF Types
  <2>2. want' \in [Proc -> Sector \union {NoSector}] /\ buf' \in [Proc -> Buf \union {NoBuf}]
    BY <1>1, <1>7 DEF Types
  <2>3. UNCHANGED <<sector, valid, dirty, data, disk, idequeue, drive>> /\ pc' \in [Proc -> Place]
    BY <1>1, <1>8
  <2> QED BY <1>7, <2>1, <2>2, <2>3 DEF Types
<1>10. \A q \in Proc : Owns(q)' <=> q # p /\ Owns(q)
  BY <1>8 DEF Owns
<1>11. Wants' /\ Requests'
  BY <1>1, <1>5, <1>8 DEF BcacheInv, Wants, Requests
<1>12. ExclusiveOwner'
  <2>1. \A q \in Proc : Owns(q)' => buf'[q] \in busy' /\ sector'[buf'[q]] = want'[q]
    BY <1>1, <1>5, <1>6, <1>10, SMTT(30) DEF BcacheInv, ExclusiveOwner
  <2>2. \A q, r \in Proc : Owns(q)' /\ Owns(r)' /\ buf'[q] = buf'[r] => q = r
    BY <1>5, <1>10 DEF BcacheInv, ExclusiveOwner
  <2>3. \A c \in busy' : \E q \in Proc : Owns(q)' /\ buf'[q] = c
    <3> TAKE c \in busy'
    <3>1. c \in busy /\ c # b
      BY <1>1, SMTT(30)
    <3>2. PICK q \in Proc : Owns(q) /\ buf[q] = c
      BY <3>1 DEF BcacheInv, ExclusiveOwner
    <3>3. q # p
      BY <3>1, <3>2, SMTT(30) DEF b
    <3> QED BY <1>5, <1>10, <3>2, <3>3
  <2> QED BY <1>1, <2>1, <2>2, <2>3 DEF BcacheInv, ExclusiveOwner
<1>13. QueueSound' /\ NoLostWakeup'
  <2>1. \A q \in Proc : pc'[q] = "bsleep" => buf'[q] \in busy'
    BY <1>1, <1>5, <1>8 DEF BcacheInv, NoLostWakeup
  <2>2. \A q \in Proc : /\ pc[q] = "iosleep" <=> pc'[q] = "iosleep"
                        /\ pc[q] = "iosleep" => buf'[q] = buf[q]
    BY <1>1, <1>5, <1>8, SMTT(30)
  <2> QED BY <1>1, <1>9, <2>1, <2>2, DriverKept DEF NoLostWakeup, io
<1>14. BuffersAccounted'
  BY <1>1, <1>2, <1>3, <1>7, Counting DEF BcacheInv, Types, BuffersAccounted
<1> QED BY <1>9, <1>11, <1>12, <1>13, <1>14 DEF BcacheInv

=============================================================================
