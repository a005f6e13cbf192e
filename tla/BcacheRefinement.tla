-------------------------- MODULE BcacheRefinement --------------------------
(***************************************************************************)
(* The buffer cache and its driver implement BlockStore, when no read      *)
(* fails.                                                                  *)
(***************************************************************************)
EXTENDS BcacheContents

USE DEF Place, Command

\* What the CHOOSEs of the refinement mapping pick.
ContentFacts ==
  /\ content = [s \in Sector |-> content[s]]
  /\ \A s \in Sector : Cached(s) = {} => content[s] = disk[s]
  /\ \A b \in Buf : sector[b] \in Sector =>
       content[sector[b]] = IF b \in valid \union dirty THEN data[b] ELSE disk[sector[b]]

OwnerFacts ==
  /\ owner = [s \in Sector |-> owner[s]]
  /\ \A p \in Proc : Owns(p) => owner[want[p]] = p
  /\ \A s \in Sector : (\A p \in Proc : Owns(p) => want[p] # s) => owner[s] = NoProc

\* A sector is in one buffer at most.
LEMMA ContentMapping == BcacheInv => ContentFacts
<1> SUFFICES ASSUME BcacheInv PROVE ContentFacts
  OBVIOUS
<1>1. content = [s \in Sector |-> content[s]]
  BY DEF content
<1>2. ASSUME NEW s \in Sector, Cached(s) = {} PROVE content[s] = disk[s]
  BY <1>2 DEF content
<1>3. ASSUME NEW b \in Buf, sector[b] \in Sector
      PROVE  content[sector[b]] = IF b \in valid \union dirty THEN data[b] ELSE disk[sector[b]]
  <2>1. Cached(sector[b]) = {b}
    BY <1>3, BufFacts DEF BcacheInv, ExclusiveOwner, Cached
  <2>2. (CHOOSE c \in Cached(sector[b]) : TRUE) = b
    BY <2>1
  <2> QED BY <1>3, <2>1, <2>2 DEF content
<1> QED BY <1>1, <1>2, <1>3 DEF ContentFacts

\* A sector has one owner at most.
LEMMA OwnerMapping == BcacheInv => OwnerFacts
<1> SUFFICES ASSUME BcacheInv PROVE OwnerFacts
  OBVIOUS
<1>1. owner = [s \in Sector |-> owner[s]]
  BY DEF owner
<1>2. ASSUME NEW p \in Proc, Owns(p) PROVE owner[want[p]] = p
  <2>1. want[p] \in Sector
    BY <1>2 DEF BcacheInv, Wants, Owns
  <2>2. \A q \in Proc : Owns(q) /\ want[q] = want[p] => q = p
    <3>1. \A q \in Proc : Owns(q) => buf[q] \in Buf /\ sector[buf[q]] = want[q]
      BY DEF BcacheInv, Types, ExclusiveOwner
    <3>2. \A q \in Proc : Owns(q) /\ want[q] = want[p] => buf[q] = buf[p]
      BY <1>2, <2>1, <3>1, BufFacts DEF BcacheInv, ExclusiveOwner
    <3> QED BY <1>2, <3>2 DEF BcacheInv, ExclusiveOwner
  <2>3. (CHOOSE q \in Proc : Owns(q) /\ want[q] = want[p]) = p
    BY <1>2, <2>2
  <2> QED BY <1>2, <2>1, <2>3 DEF owner
<1>3. ASSUME NEW s \in Sector, \A p \in Proc : Owns(p) => want[p] # s PROVE owner[s] = NoProc
  BY <1>3 DEF owner
<1> QED BY <1>1, <1>2, <1>3 DEF OwnerFacts

\* The mapping before and after a step.
LEMMA Mapping == BcacheInv /\ BcacheInv' => ContentFacts /\ ContentFacts' /\ OwnerFacts /\ OwnerFacts'
BY ContentMapping, OwnerMapping, PTL

\* Who owns what does not change: the abstract owner does not.
LEMMA SameOwner ==
  ASSUME BcacheInv, BcacheInv', \A q \in Proc : Owns(q)' <=> Owns(q),
         \A q \in Proc : Owns(q) => want'[q] = want[q]
  PROVE  owner' = owner
<1> DEFINE Had(s) == \E q \in Proc : Owns(q) /\ want[q] = s
<1>1. OwnerFacts /\ OwnerFacts'
  BY Mapping
<1>2. ASSUME NEW s \in Sector PROVE owner'[s] = owner[s]
  <2>1. CASE Had(s)
    BY <1>1, <2>1 DEF OwnerFacts
  <2>2. CASE ~Had(s)
    BY <1>1, <2>2 DEF OwnerFacts
  <2> QED BY <2>1, <2>2
<1> QED BY <1>1, <1>2 DEF OwnerFacts

\* A process that gets a buffer acquires a block that nobody had.
LEMMA Acquires ==
  ASSUME BcacheInv, BcacheInv', NEW p \in Proc, pc[p] = "bget", want' = want,
         \A q \in Proc : Owns(q)' <=> q = p \/ Owns(q),
         \A q \in Proc : Owns(q) => want[q] # want[p]
  PROVE  /\ want[p] \in Sector /\ owner[want[p]] = NoProc
         /\ owner' = [owner EXCEPT ![want[p]] = p]
<1>1. OwnerFacts /\ OwnerFacts'
  BY Mapping
<1>2. want[p] \in Sector
  BY DEF BcacheInv, Wants
<1>3. owner[want[p]] = NoProc /\ owner'[want[p]] = p
  BY <1>1, <1>2 DEF OwnerFacts
<1>4. ASSUME NEW s \in Sector, s # want[p] PROVE owner'[s] = owner[s]
  <2>1. CASE \E q \in Proc : Owns(q) /\ want[q] = s
    BY <1>1, <2>1 DEF OwnerFacts
  <2>2. CASE ~\E q \in Proc : Owns(q) /\ want[q] = s
    BY <1>1, <1>4, <2>2 DEF OwnerFacts
  <2> QED BY <2>1, <2>2
<1> QED BY <1>1, <1>2, <1>3, <1>4 DEF OwnerFacts

\* Buffers and disk are as before: so are the contents.
LEMMA SameContent ==
  ASSUME UNCHANGED <<sector, valid, dirty, data, disk>>
  PROVE  content' = content
BY DEF content, Cached

\* bget returns a buffer with the sector in it: the block is acquired.
LEMMA BgetHitRefines ==
  ASSUME BcacheInv, BcacheInv', NEW p \in Proc, BgetHit(p)
  PROVE  Store!Acquire(p, want[p]) /\ want[p] \in Sector
<1> PICK b \in Cached(want[p]) : b \notin busy
  BY DEF BgetHit
<1>1. /\ pc[p] = "bget" /\ want' = want /\ pc' = [pc EXCEPT ![p] = "got"]
      /\ UNCHANGED <<sector, valid, dirty, data, disk>>
  BY DEF BgetHit, io
<1>2. \A q \in Proc : Owns(q)' <=> q = p \/ Owns(q)
  BY <1>1 DEF BcacheInv, Types, Owns
<1>3. \A q \in Proc : Owns(q) => want[q] # want[p]
  <2>1. b \in Buf /\ sector[b] = want[p] /\ want[p] \in Sector
    BY <1>1, Zenon DEF Cached, BcacheInv, Wants
  <2>2. \A q \in Proc : Owns(q) => buf[q] \in Buf /\ buf[q] # b
    BY DEF BcacheInv, Types, ExclusiveOwner
  <2> QED BY <2>1, <2>2, BufFacts DEF BcacheInv, ExclusiveOwner
<1> QED BY <1>1, <1>2, <1>3, Acquires, SameContent DEF Store!Acquire

\* bget takes over a buffer: what was in it is on the disk, and what is asked for
\* is on the disk as well, so that no contents change.
LEMMA BgetRecycleRefines ==
  ASSUME BcacheInv, BcacheInv', ContentsInv, NEW p \in Proc, BgetRecycle(p)
  PROVE  Store!Acquire(p, want[p]) /\ want[p] \in Sector
<1> PICK i \in 1 .. NBUF : IsVictim(i) /\ Recycle(p, lru[i])
  BY DEF BgetRecycle
<1> DEFINE b == lru[i]
<1>1. /\ b \in Buf /\ b \notin busy /\ b \notin dirty
      /\ sector' = [sector EXCEPT ![b] = want[p]] /\ valid' = valid \ {b}
      /\ UNCHANGED <<dirty, data, disk, want>>
      /\ pc[p] = "bget" /\ pc' = [pc EXCEPT ![p] = "got"] /\ Cached(want[p]) = {}
  BY Zenon DEF IsVictim, Recyclable, Recycle, BgetRecycle, io
<1> HIDE DEF b
<1>2. \A q \in Proc : Owns(q)' <=> q = p \/ Owns(q)
  BY <1>1 DEF BcacheInv, Types, Owns
<1>3. \A q \in Proc : Owns(q) => want[q] # want[p]
  BY <1>1 DEF BcacheInv, Types, ExclusiveOwner, Cached
<1>4. want[p] \in Sector
  BY <1>1 DEF BcacheInv, Wants
<1>5. sector'[b] = want[p] /\ \A c \in Buf : c # b => sector'[c] = sector[c] /\ sector[c] # want[p]
  BY <1>1 DEF BcacheInv, Types, Cached
<1>6. ContentFacts /\ ContentFacts'
  BY Mapping
<1>7. ASSUME NEW s \in Sector PROVE content'[s] = content[s]
  <2>1. CASE s = want[p]
    <3>1. content[s] = disk[s]
      BY <1>1, <1>6, <2>1 DEF ContentFacts
    <3>2. content'[s] = disk[s]
      BY <1>1, <1>5, <1>6, <2>1 DEF ContentFacts
    <3> QED BY <3>1, <3>2
  <2>2. CASE s = sector[b] /\ s # want[p]
    <3>1. content[s] = disk[s]
      BY <1>1, <1>6, <2>2, SMTT(30) DEF ContentFacts, ContentsInv, CleanIsDisk
    <3>2. Cached(s)' = {}
      BY <1>1, <1>5, <2>2, BufFacts DEF BcacheInv, ExclusiveOwner, Cached
    <3> QED BY <1>1, <1>6, <3>1, <3>2 DEF ContentFacts
  <2>3. CASE s # sector[b] /\ s # want[p] /\ \E c \in Buf : sector[c] = s
    <3>1. PICK c \in Buf : sector[c] = s
      BY <2>3
    <3>2. c # b /\ sector'[c] = s
      BY <1>5, <2>3, <3>1
    <3>3. content[s] = IF c \in valid \union dirty THEN data[c] ELSE disk[s]
      BY <1>6, <3>1 DEF ContentFacts
    <3>4. content'[s] = IF c \in valid' \union dirty' THEN data'[c] ELSE disk'[s]
      BY <1>6, <3>2 DEF ContentFacts
    <3> QED BY <1>1, <3>2, <3>3, <3>4, Zenon
  <2>4. CASE s # want[p] /\ ~\E c \in Buf : sector[c] = s
    <3>1. Cached(s) = {} /\ Cached(s)' = {}
      BY <1>5, <2>4 DEF Cached
    <3> QED BY <1>1, <1>6, <3>1 DEF ContentFacts
  <2> QED BY <2>1, <2>2, <2>3, <2>4
<1>8. content' = content
  BY <1>6, <1>7 DEF ContentFacts
<1> QED BY <1>1, <1>2, <1>3, <1>8, Acquires DEF Store!Acquire

\* The owner's writes are updates of its block.
LEMMA OwnerRefines ==
  ASSUME BcacheInv, BcacheInv', NEW p \in Proc, NEW v \in Val, LogWrite(p, v) \/ Bwrite(p, v)
  PROVE  Store!Update(p, want[p], v) /\ want[p] \in Sector
<1> DEFINE b == buf[p]
<1>1. /\ pc[p] = "own" /\ want' = want /\ pc' \in {pc, [pc EXCEPT ![p] = "iderw"]}
      /\ data' = [data EXCEPT ![b] = v] /\ dirty' = dirty \union {b}
      /\ UNCHANGED <<sector, valid, disk>>
  BY DEF LogWrite, Bwrite, lists, io
<1>2. Owns(p)
  BY <1>1 DEF Owns
<1>3. b \in Buf /\ sector[b] = want[p] /\ want[p] \in Sector
  BY <1>1, <1>2 DEF BcacheInv, Types, Wants, ExclusiveOwner
<1> HIDE DEF b
<1>4. ContentFacts /\ ContentFacts' /\ OwnerFacts
  BY Mapping
<1>5. \A q \in Proc : Owns(q)' <=> Owns(q)
  BY <1>1 DEF BcacheInv, Types, Owns
<1>6. owner' = owner /\ owner[want[p]] = p
  BY <1>1, <1>2, <1>4, <1>5, SameOwner DEF OwnerFacts
<1>7. /\ data'[b] = v /\ b \in dirty'
      /\ \A c \in Buf : c # b => data'[c] = data[c] /\ (c \in dirty' <=> c \in dirty)
  BY <1>1, <1>3 DEF BcacheInv, Types
<1>8. content'[want[p]] = v
  BY <1>1, <1>3, <1>4, <1>7 DEF ContentFacts
<1>9. ASSUME NEW s \in Sector, s # want[p] PROVE content'[s] = content[s]
  <2>1. CASE \E c \in Buf : sector[c] = s
    <3>1. PICK c \in Buf : sector[c] = s
      BY <2>1
    <3>2. c # b
      BY <1>3, <1>9, <3>1
    <3>3. content[s] = IF c \in valid \union dirty THEN data[c] ELSE disk[s]
      BY <1>4, <3>1 DEF ContentFacts
    <3>4. content'[s] = IF c \in valid' \union dirty' THEN data'[c] ELSE disk'[s]
      BY <1>1, <1>4, <3>1 DEF ContentFacts
    <3> QED BY <1>1, <1>7, <3>2, <3>3, <3>4
  <2>2. CASE ~\E c \in Buf : sector[c] = s
    <3>1. Cached(s) = {} /\ Cached(s)' = {}
      BY <1>1, <2>2 DEF Cached
    <3> QED BY <1>1, <1>4, <3>1 DEF ContentFacts
  <2> QED BY <2>1, <2>2
<1>10. content' = [content EXCEPT ![want[p]] = v]
  BY <1>3, <1>4, <1>8, <1>9 DEF ContentFacts
<1> QED BY <1>3, <1>6, <1>10 DEF Store!Update

\* brelse releases the block.
LEMMA BrelseRefines ==
  ASSUME BcacheInv, BcacheInv', NEW p \in Proc, Brelse(p)
  PROVE  Store!Release(p, want[p]) /\ want[p] \in Sector
<1> DEFINE f == [pc EXCEPT ![p] = "idle"]
<1>1. /\ pc[p] = "own" /\ pc' = Wakeup(buf[p], f) /\ want' = [want EXCEPT ![p] = NoSector]
      /\ UNCHANGED <<sector, valid, dirty, data, disk>>
  BY DEF Brelse, io
<1>2. Owns(p) /\ buf[p] \in Buf /\ want[p] \in Sector
  BY <1>1 DEF BcacheInv, Types, Wants, ExclusiveOwner, Owns
<1>3. Types /\ f \in [Proc -> Place] /\ f[p] = "idle" /\ \A q \in Proc : q # p => f[q] = pc[q]
  BY DEF BcacheInv, Types
<1> HIDE DEF f
<1>4. \A q \in Proc : Owns(q)' <=> q # p /\ Owns(q)
  BY <1>1, <1>2, <1>3, WakeupFacts DEF Owns
<1>5. \A q \in Proc : q # p => want'[q] = want[q]
  BY <1>1, <1>3 DEF Types
<1>6. OwnerFacts /\ OwnerFacts'
  BY Mapping
<1>7. owner[want[p]] = p /\ owner'[want[p]] = NoProc
  <2>1. \A q \in Proc : Owns(q) /\ want[q] = want[p] => q = p
    BY <1>2, <1>6 DEF OwnerFacts
  <2> QED BY <1>2, <1>4, <1>5, <1>6, <2>1 DEF OwnerFacts
<1>8. ASSUME NEW s \in Sector, s # want[p] PROVE owner'[s] = owner[s]
  <2>1. CASE \E q \in Proc : Owns(q) /\ want[q] = s
    <3>1. PICK q \in Proc : Owns(q) /\ want[q] = s
      BY <2>1
    <3>2. q # p
      BY <1>8, <3>1
    <3> QED BY <1>4, <1>5, <1>6, <3>1, <3>2 DEF OwnerFacts
  <2>2. CASE ~\E q \in Proc : Owns(q) /\ want[q] = s
    BY <1>4, <1>5, <1>6, <2>2 DEF OwnerFacts
  <2> QED BY <2>1, <2>2
<1>9. owner' = [owner EXCEPT ![want[p]] = NoProc]
  BY <1>2, <1>6, <1>7, <1>8 DEF OwnerFacts
<1> QED BY <1>1, <1>2, <1>7, <1>9, SameContent DEF Store!Release

\* The drive and its interrupt are not seen: each moves contents between a
\* buffer and its sector, and changes neither's meaning.
LEMMA DriverRefines ==
  ASSUME BcacheInv, BcacheInv', ContentsInv, ContentsInv', DriveDone \/ Ideintr(FALSE)
  PROVE  UNCHANGED <<content, owner>>
<1> DEFINE b == Head(idequeue)
<1>1. idequeue # <<>> /\ UNCHANGED <<sector, want, buf>>
  BY DEF DriveDone, Ideintr, BcacheInv, QueueSound, lists
<1>2. b \in Buf /\ b \in Range(idequeue)
  BY <1>1 DEF BcacheInv, Types, Range
<1>3. sector[b] \in Sector
  BY <1>2, Queued
<1>4. \A q \in Proc : Owns(q)' <=> Owns(q)
  <2>1. CASE DriveDone
    BY <2>1 DEF DriveDone, Owns
  <2>2. CASE Ideintr(FALSE)
    <3>1. pc' = Wakeup(b, pc) /\ pc \in [Proc -> Place] /\ Types
      BY <2>2 DEF Ideintr, BcacheInv, Types
    <3> HIDE DEF b
    <3> QED BY <1>2, <3>1, WakeupFacts DEF Owns
  <2> QED BY <2>1, <2>2, Zenon
<1>5. owner' = owner
  BY <1>1, <1>4, SameOwner
<1>6. ContentFacts /\ ContentFacts'
  BY Mapping
<1>7. content'[sector[b]] = content[sector[b]]
  <2>1. CASE DriveDone
    <3>1. /\ drive.op \in {"read", "write"} /\ UNCHANGED <<sector, valid, dirty, data>>
          /\ drive.op = "write" => b \in dirty
          /\ drive.op = "read" => disk' = disk
      BY <1>1, <2>1 DEF DriveDone, lists, ContentsInv, DriveSound
    <3> QED BY <1>2, <1>3, <1>6, <3>1 DEF ContentFacts
  <2>2. CASE Ideintr(FALSE)
    <3>1. /\ drive.op = "irq" /\ disk' = disk /\ valid' = valid \union {b}
          /\ data' = IF b \notin dirty THEN [data EXCEPT ![b] = drive.val] ELSE data
      BY <2>2 DEF Ideintr
    <3>2. disk[sector[b]] = IF b \in dirty THEN data[b] ELSE drive.val
      BY <1>1, <3>1 DEF ContentsInv, DriveSound
    <3>3. content'[sector[b]] = IF b \in dirty THEN data[b] ELSE drive.val
      BY <1>1, <1>2, <1>3, <1>6, <3>1 DEF ContentFacts, BcacheInv, Types
    <3>4. content[sector[b]] = IF b \in dirty THEN data[b] ELSE disk[sector[b]]
      BY <1>2, <1>3, <1>6 DEF ContentFacts, ContentsInv, CleanIsDisk
    <3> QED BY <3>2, <3>3, <3>4
  <2> QED BY <2>1, <2>2, Zenon
<1>8. /\ \A c \in Buf : c # b => /\ data'[c] = data[c]
                                 /\ c \in valid' \union dirty' <=> c \in valid \union dirty
      /\ \A s \in Sector : s # sector[b] => disk'[s] = disk[s]
  <2>1. CASE DriveDone
    <3>1. drive.sec = sector[b]
      BY <1>1 DEF BcacheInv, QueueSound
    <3> QED BY <1>3, <2>1, <3>1 DEF DriveDone, BcacheInv, Types
  <2>2. CASE Ideintr(FALSE)
    <3>1. /\ valid' = valid \union {b} /\ dirty' = dirty \ {b} /\ disk' = disk
          /\ data' = IF b \notin dirty THEN [data EXCEPT ![b] = drive.val] ELSE data
      BY <2>2 DEF Ideintr
    <3> QED BY <1>2, <3>1 DEF BcacheInv, Types
  <2> QED BY <2>1, <2>2, Zenon
<1> HIDE DEF b
<1>9. ASSUME NEW s \in Sector, s # sector[b] PROVE content'[s] = content[s]
  <2>1. CASE \E c \in Buf : sector[c] = s
    <3>1. PICK c \in Buf : sector[c] = s
      BY <2>1
    <3>2. content[s] = IF c \in valid \union dirty THEN data[c] ELSE disk[s]
      BY <1>6, <3>1 DEF ContentFacts
    <3>3. content'[s] = IF c \in valid' \union dirty' THEN data'[c] ELSE disk'[s]
      BY <1>1, <1>6, <3>1 DEF ContentFacts
    <3> QED BY <1>8, <1>9, <3>1, <3>2, <3>3
  <2>2. CASE ~\E c \in Buf : sector[c] = s
    <3>1. Cached(s) = {} /\ Cached(s)' = {}
      BY <1>1, <2>2 DEF Cached
    <3> QED BY <1>6, <1>8, <1>9, <3>1 DEF ContentFacts
  <2> QED BY <2>1, <2>2
<1>10. content' = content
  BY <1>6, <1>7, <1>9 DEF ContentFacts
<1> QED BY <1>5, <1>10

\* A process that only moves is not seen.
LEMMA MovesHidden ==
  ASSUME BcacheInv, BcacheInv', NEW p \in Proc, NEW here \in Place,
         pc' = [pc EXCEPT ![p] = here],
         UNCHANGED <<sector, valid, dirty, data, disk>>,
         Owns(p) <=> here \in {"got", "iderw", "iosleep", "iowake", "own"},
         \A q \in Proc : Owns(q) => want'[q] = want[q]
  PROVE  UNCHANGED <<content, owner>>
<1>1. \A q \in Proc : Owns(q)' <=> Owns(q)
  BY DEF BcacheInv, Types, Owns
<1> QED BY <1>1, SameContent, SameOwner

\* Every step of the cache is a step of the store, or is not seen there.
LEMMA StepRefines ==
  ASSUME ReadErrors = FALSE
  PROVE  /\ BcacheInv /\ BcacheInv' /\ ContentsInv /\ ContentsInv' /\ [Next]_vars
         => [Store!Next]_<<content, owner>>
<1> SUFFICES ASSUME BcacheInv, BcacheInv', ContentsInv, ContentsInv', [Next]_vars
             PROVE  Store!Next \/ UNCHANGED <<content, owner>>
  OBVIOUS
<1>1. ASSUME NEW p \in Proc, BgetHit(p) \/ BgetRecycle(p) PROVE Store!Next
  BY <1>1, BgetHitRefines, BgetRecycleRefines DEF Store!Next
<1>2. ASSUME NEW p \in Proc, NEW v \in Val, LogWrite(p, v) \/ Bwrite(p, v) PROVE Store!Next
  BY <1>2, OwnerRefines DEF Store!Next
<1>3. ASSUME NEW p \in Proc, Brelse(p) PROVE Store!Next
  BY <1>3, BrelseRefines DEF Store!Next
<1>4. ASSUME DriveDone \/ Interrupt PROVE UNCHANGED <<content, owner>>
  BY <1>4, DriverRefines, Zenon DEF Interrupt
<1>5. ASSUME NEW p \in Proc, NEW s \in Sector, Bread(p, s) PROVE UNCHANGED <<content, owner>>
  <2>1. /\ pc[p] = "idle" /\ pc' = [pc EXCEPT ![p] = "bget"] /\ want' = [want EXCEPT ![p] = s]
        /\ UNCHANGED <<sector, valid, dirty, data, disk>>
    BY <1>5 DEF Bread, lists, io
  <2>2. ~Owns(p) /\ \A q \in Proc : Owns(q) => want'[q] = want[q]
    BY <2>1 DEF Owns, BcacheInv, Types
  <2> QED BY <2>1, <2>2, MovesHidden, Zenon
<1>6. ASSUME NEW p \in Proc, BgetSleep(p) \/ BreadCheck(p) \/ Iderw(p) \/ IderwTest(p)
      PROVE  UNCHANGED <<content, owner>>
  <2>1. want' = want /\ UNCHANGED <<sector, valid, dirty, data, disk>>
    BY <1>6 DEF BgetSleep, BreadCheck, Iderw, IderwTest, lists, io
  <2>2. CASE BgetSleep(p)
    <3>1. pc' = [pc EXCEPT ![p] = "bsleep"] /\ ~Owns(p)
      BY <2>2 DEF BgetSleep, Owns
    <3> QED BY <2>1, <3>1, MovesHidden, Zenon
  <2>3. CASE BreadCheck(p) \/ Iderw(p) \/ IderwTest(p)
    <3>1. Owns(p)
      BY <2>3 DEF BreadCheck, Iderw, IderwTest, Owns
    <3>2. \E here \in {"own", "iderw", "iosleep"} : pc' = [pc EXCEPT ![p] = here]
      BY <2>3 DEF BreadCheck, Iderw, IderwTest
    <3> QED BY <2>1, <3>1, <3>2, MovesHidden, ZenonT(30)
  <2> QED BY <1>6, <2>2, <2>3, SMTT(30)
<1>7. ASSUME NEW p \in Proc, BgetPanic(p) PROVE UNCHANGED <<content, owner>>
  <2>1. UNCHANGED <<sector, valid, dirty, data, disk, pc, want>>
    BY <1>7 DEF BgetPanic, lists, io
  <2>2. \A q \in Proc : Owns(q)' <=> Owns(q)
    BY <2>1 DEF Owns
  <2> QED BY <2>1, <2>2, SameContent, SameOwner
<1>8. ASSUME UNCHANGED vars PROVE UNCHANGED <<content, owner>>
  <2>1. UNCHANGED <<sector, valid, dirty, data, disk, pc, want>>
    BY <1>8 DEF vars, lists, io
  <2>2. \A q \in Proc : Owns(q)' <=> Owns(q)
    BY <2>1 DEF Owns
  <2> QED BY <2>1, <2>2, SameContent, SameOwner
<1> QED BY <1>1, <1>2, <1>3, <1>4, <1>5, <1>6, <1>7, <1>8 DEF Next, Step, BgetStep

\* At first nothing is cached and nothing owned.
LEMMA InitRefines == Init => Store!Init
<1> SUFFICES ASSUME Init PROVE Store!Init
  OBVIOUS
<1>1. \A s \in Sector : Cached(s) = {}
  BY BufFacts DEF Init, Cached
<1>2. \A s \in Sector : content[s] = disk[s]
  BY <1>1 DEF content
<1>3. content \in [Sector -> Val]
  <2>1. content = [s \in Sector |-> content[s]]
    BY DEF content
  <2>2. \A s \in Sector : disk[s] \in Val
    BY DEF Init
  <2> QED BY <1>2, <2>1, <2>2
<1>4. owner = [s \in Sector |-> NoProc]
  <2>1. \A p \in Proc : ~Owns(p)
    BY DEF Init, Owns
  <2> QED BY <2>1 DEF owner
<1> QED BY <1>3, <1>4 DEF Store!Init

\* The cache and its driver implement a store of exclusively owned blocks: when no
\* read fails, bread returns the last contents its sector was given, whatever was
\* recycled, queued or written back in between.
THEOREM CacheImplementsStore ==
  ASSUME ReadErrors = FALSE
  PROVE  Spec => StoreRefinement
<1>1. /\ BcacheInv /\ BcacheInv' /\ ContentsInv /\ ContentsInv' /\ [Next]_vars
      => [Store!Next]_<<content, owner>>
  BY StepRefines, Zenon
<1>2. Spec => []ContentsInv
  BY ContentsInvariant, Zenon
<1> QED BY <1>1, <1>2, InitRefines, BcacheInvariant, PTL DEF Spec, StoreRefinement, Store!Spec

=============================================================================
