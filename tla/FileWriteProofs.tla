-------------------------- MODULE FileWriteProofs ---------------------------
(***************************************************************************)
(* Proofs about write() on a shared open file, for any block size, any     *)
(* numbers of direct and indirect blocks and any number of processes.      *)
(***************************************************************************)
EXTENDS FileWrite, FiniteSetTheorems, TLAPS

\* What the variables hold.  A file is never longer than its blocks can be.
TypeOK ==
  /\ size \in 0 .. MAXFILE * BSIZE /\ off \in Nat
  /\ n \in [Proc -> Nat] /\ i \in [Proc -> Nat] /\ pc \in [Proc -> {"idle", "loop"}]
  /\ spans \subseteq Proc \X Nat \X Nat \X Nat
  /\ DOMAIN logged = Proc

\* Every span written so far is not empty and lies below f->off.
SpansBelowOff == \A s \in spans : s[3] < s[4] /\ s[4] <= off

IInv == TypeOK /\ BlocksMatchSize /\ SpansBelowOff /\ SpansDisjoint

-----------------------------------------------------------------------------
(* Arithmetic *)

LEMMA MinPair ==
  ASSUME NEW a \in Int, NEW b \in Int
  PROVE  Min({a, b}) = IF a <= b THEN a ELSE b
<1>1. \E x \in {a, b} : \A y \in {a, b} : x <= y
  BY SMT
<1> QED
  BY <1>1 DEF Min

LEMMA DivNat ==
  ASSUME NEW a \in Nat, NEW b \in Nat \ {0}
  PROVE  a \div b \in Nat
BY SMT

LEMMA DivMonotone ==
  ASSUME NEW a \in Nat, NEW c \in Nat, NEW b \in Nat \ {0}, a <= c
  PROVE  a \div b <= c \div b
BY SMT

LEMMA DivAdd ==
  ASSUME NEW a \in Nat, NEW b \in Nat \ {0}
  PROVE  (a + b) \div b = a \div b + 1
BY SMT

LEMMA DivSmall ==
  ASSUME NEW b \in Nat \ {0}
  PROVE  (b - 1) \div b = 0 /\ 0 \div b = 0
BY SMT

\* The blocks of a file that is not empty end with that of its last byte.
LEMMA BlocksForLast ==
  ASSUME NEW k \in Nat
  PROVE  BlocksFor(k) = IF k = 0 THEN {} ELSE 0 .. (k - 1) \div BSIZE
<1>1. BSIZE \in Nat \ {0}
  BY FileWriteAssumption
<1>2. CASE k = 0
  BY <1>1, <1>2, DivSmall DEF BlocksFor
<1>3. CASE k # 0
  <2>1. k - 1 \in Nat /\ k + BSIZE - 1 = (k - 1) + BSIZE
    BY <1>1, <1>3
  <2>2. (k + BSIZE - 1) \div BSIZE = (k - 1) \div BSIZE + 1
    BY <1>1, <2>1, DivAdd, Zenon
  <2>3. (k - 1) \div BSIZE \in Nat
    BY <1>1, <2>1, DivNat
  <2> QED
    BY <1>3, <2>2, <2>3 DEF BlocksFor
<1> QED
  BY <1>2, <1>3

\* writei that starts within the file or at its end leaves no hole and
\* allocates no block beyond the new size (fs.c:476, 490).
LEMMA TouchedExtends ==
  ASSUME NEW s \in Nat, NEW o \in Nat, NEW m \in Nat \ {0}, o <= s
  PROVE  BlocksFor(s) \union Touched(o, m) = BlocksFor(IF o + m > s THEN o + m ELSE s)
<1> DEFINE D(k) == k \div BSIZE
<1>1. BSIZE \in Nat \ {0}
  BY FileWriteAssumption
<1>2. /\ D(o) \in Nat /\ D(o + m - 1) \in Nat /\ D(o) <= D(o + m - 1)
  BY <1>1, DivNat, DivMonotone
<1>3. BlocksFor(o + m) = 0 .. D(o + m - 1)
  BY BlocksForLast
<1>4. CASE s = 0
  <2>1. o = 0 /\ D(o) = 0
    BY <1>1, <1>4, DivSmall
  <2>2. BlocksFor(s) = {}
    BY <1>4, BlocksForLast
  <2> HIDE DEF D
  <2>3. Touched(o, m) = D(o) .. D(o + m - 1)
    BY DEF Touched, D
  <2> QED
    BY <1>3, <1>4, <2>1, <2>2, <2>3
<1>5. CASE s # 0
  <2>1. s - 1 \in Nat /\ D(s - 1) \in Nat
    BY <1>1, <1>5, DivNat
  <2>2. BlocksFor(s) = 0 .. D(s - 1)
    BY <1>5, BlocksForLast
  <2>3. D(o) <= D(s - 1) + 1
    <3>1. (s - 1) + BSIZE \in Nat /\ o <= (s - 1) + BSIZE
      BY <1>1, <2>1
    <3>2. D(o) <= ((s - 1) + BSIZE) \div BSIZE
      BY <1>1, <3>1, DivMonotone
    <3> QED
      BY <1>1, <2>1, <3>2, DivAdd
  <2>4. IF o + m > s THEN D(s - 1) <= D(o + m - 1) ELSE D(o + m - 1) <= D(s - 1)
    <3>1. o + m - 1 \in Nat
      OBVIOUS
    <3>2. CASE o + m > s
      BY <1>1, <2>1, <3>1, <3>2, DivMonotone
    <3>3. CASE ~(o + m > s)
      <4>1. o + m - 1 <= s - 1
        BY <3>3
      <4> QED
        BY <1>1, <2>1, <3>1, <3>3, <4>1, DivMonotone
    <3> QED
      BY <3>2, <3>3
  <2> HIDE DEF D
  <2>5. Touched(o, m) = D(o) .. D(o + m - 1)
    BY DEF Touched, D
  <2> QED
    BY SMTT(30), <1>2, <1>3, <2>1, <2>2, <2>3, <2>4, <2>5
<1> QED
  BY <1>4, <1>5

-----------------------------------------------------------------------------
(* The invariant *)

\* A chunk is at least one byte and at most a transaction's worth.
LEMMA ChunkSize ==
  ASSUME TypeOK, NEW p \in Proc, i[p] < n[p]
  PROVE  n1(p) \in Nat \ {0} /\ n1(p) <= max /\ n1(p) <= n[p] - i[p]
<1>1. (LOGSIZE - 1 - 1 - 2) \div 2 \in Nat \ {0} /\ BSIZE \in Nat \ {0}
  BY FileWriteAssumption
<1>2. max \in Nat \ {0}
  BY <1>1 DEF max
<1>3. n[p] - i[p] \in Nat \ {0}
  BY DEF TypeOK
<1>4. n1(p) = IF n[p] - i[p] <= max THEN n[p] - i[p] ELSE max
  BY <1>2, <1>3, MinPair DEF n1
<1> QED
  BY <1>2, <1>3, <1>4

LEMMA FileWriteInit == Init => IInv
<1> SUFFICES ASSUME Init PROVE IInv
  OBVIOUS
<1>1. InitSizes \subseteq 0 .. MAXFILE * BSIZE
  BY FileWriteAssumption DEF MAXFILE
<1>2. TypeOK
  BY <1>1 DEF Init, TypeOK
<1> QED
  BY <1>2 DEF Init, IInv, BlocksMatchSize, SpansBelowOff, SpansDisjoint

\* A read moves f->off forward, or leaves it where it is.
LEMMA FilereadStep ==
  ASSUME IInv, NEW p \in Proc, NEW k \in Lengths, Fileread(p, k)
  PROVE  IInv'
<1>1. size \in Nat /\ off \in Nat /\ k \in Nat
  BY FileWriteAssumption DEF IInv, TypeOK, MAXFILE
<1>2. off' \in Nat /\ off <= off'
  <2>1. CASE off > size
    BY <1>1, <2>1 DEF Fileread
  <2>2. CASE ~(off > size)
    <3>1. Min({k, size - off}) = IF k <= size - off THEN k ELSE size - off
      BY <1>1, MinPair
    <3> QED
      BY <1>1, <2>2, <3>1 DEF Fileread
  <2> QED
    BY <2>1, <2>2
<1>3. TypeOK'
  BY <1>2 DEF IInv, TypeOK, Fileread, inode
<1>4. BlocksMatchSize'
  BY DEF IInv, BlocksMatchSize, BlocksFor, Fileread, inode
<1>5. SpansBelowOff'
  <2> SUFFICES ASSUME NEW s \in spans PROVE s[3] < s[4] /\ s[4] <= off'
    BY DEF SpansBelowOff, Fileread
  <2>1. s[3] \in Nat /\ s[4] \in Nat /\ s[3] < s[4] /\ s[4] <= off
    BY DEF IInv, TypeOK, SpansBelowOff
  <2> QED
    BY <1>1, <1>2, <2>1
<1>6. SpansDisjoint'
  BY DEF IInv, SpansDisjoint, Fileread
<1> QED
  BY <1>3, <1>4, <1>5, <1>6 DEF IInv

\* A chunk allocates the blocks up to the new size, and its span begins
\* where the last one ended.
LEMMA WriteChunkStep ==
  ASSUME IInv, NEW p \in Proc, WriteChunk(p)
  PROVE  IInv'
<1> DEFINE m == n1(p)
<1>1. /\ size \in Nat /\ off \in Nat /\ i[p] \in Nat
      /\ MAXFILE \in Nat /\ BSIZE \in Nat \ {0} /\ MAXFILE * BSIZE \in Nat
  BY FileWriteAssumption DEF IInv, TypeOK, MAXFILE
<1>2. m \in Nat \ {0}
  BY ChunkSize DEF IInv, WriteChunk
<1>3. /\ off <= size /\ off + m <= MAXFILE * BSIZE
      /\ alloc' = alloc \union Touched(off, m)
      /\ size' = IF off + m > size THEN off + m ELSE size
      /\ ialloc' = IF off + m > size THEN alloc' ELSE ialloc
      /\ spans' = spans \union {<<p, i[p], off, off + m>>}
      /\ off' = off + m
      /\ i' = [i EXCEPT ![p] = @ + m] /\ n' = n /\ pc' = pc
      /\ logged' = [logged EXCEPT ![p] = Logs(off, m)]
  BY DEF WriteChunk, Writable, Grows, Advance
<1> HIDE DEF m
<1>4. TypeOK'
  <2>1. size' \in 0 .. MAXFILE * BSIZE /\ off' \in Nat
    BY <1>1, <1>2, <1>3 DEF IInv, TypeOK
  <2>2. i' \in [Proc -> Nat] /\ n' \in [Proc -> Nat] /\ pc' \in [Proc -> {"idle", "loop"}]
    BY <1>1, <1>2, <1>3 DEF IInv, TypeOK
  <2>3. spans' \subseteq Proc \X Nat \X Nat \X Nat
    BY <1>1, <1>2, <1>3 DEF IInv, TypeOK
  <2>4. DOMAIN logged' = Proc
    BY <1>3 DEF IInv, TypeOK
  <2> QED
    BY <2>1, <2>2, <2>3, <2>4 DEF TypeOK
<1>5. BlocksMatchSize'
  <2>1. alloc = BlocksFor(size) /\ ialloc = alloc
    BY DEF IInv, BlocksMatchSize
  <2>2. alloc' = BlocksFor(size')
    BY <1>1, <1>2, <1>3, <2>1, TouchedExtends
  <2>3. BlocksFor(size') = BlocksFor(size)'
    BY DEF BlocksFor
  <2>4. ialloc' = alloc'
    BY <1>3, <2>1, <2>2
  <2> QED
    BY <2>2, <2>3, <2>4 DEF BlocksMatchSize
<1>6. SpansBelowOff'
  <2> SUFFICES ASSUME NEW s \in spans' PROVE s[3] < s[4] /\ s[4] <= off'
    BY DEF SpansBelowOff
  <2>1. CASE s \in spans
    <3>1. s[3] \in Nat /\ s[4] \in Nat /\ s[3] < s[4] /\ s[4] <= off
      BY <2>1 DEF IInv, TypeOK, SpansBelowOff
    <3> QED
      BY <1>1, <1>2, <1>3, <3>1
  <2>2. CASE s = <<p, i[p], off, off + m>>
    BY <1>1, <1>2, <1>3, <2>2
  <2> QED
    BY <1>3, <2>1, <2>2
<1>7. SpansDisjoint'
  <2> DEFINE new == <<p, i[p], off, off + m>>
  <2>1. \A s \in spans : s[4] <= new[3]
    BY DEF IInv, SpansBelowOff
  <2>2. \A s, t \in spans : s # t => s[4] <= t[3] \/ t[4] <= s[3]
    BY DEF IInv, SpansDisjoint
  <2>3. spans' = spans \union {new}
    BY <1>3
  <2> HIDE DEF new
  <2> QED
    BY <2>1, <2>2, <2>3 DEF SpansDisjoint
<1> QED
  BY <1>4, <1>5, <1>6, <1>7 DEF IInv

LEMMA FileWriteNext == IInv /\ [Next]_vars => IInv'
<1> SUFFICES ASSUME IInv, [Next]_vars PROVE IInv'
  OBVIOUS
<1>1. CASE Open
  BY <1>1 DEF IInv, TypeOK, BlocksMatchSize, BlocksFor, SpansBelowOff, SpansDisjoint, Open, inode
<1>2. ASSUME NEW p \in Proc, NEW k \in Lengths, Fileread(p, k)
      PROVE  IInv'
  BY <1>2, FilereadStep
<1>3. ASSUME NEW p \in Proc, NEW k \in Lengths, Filewrite(p, k)
      PROVE  IInv'
  <2>1. k \in Nat
    BY FileWriteAssumption
  <2> QED
    BY <1>3, <2>1 DEF IInv, TypeOK, BlocksMatchSize, BlocksFor, SpansBelowOff, SpansDisjoint,
                      Filewrite, inode
<1>4. ASSUME NEW p \in Proc, WriteChunk(p)
      PROVE  IInv'
  BY <1>4, WriteChunkStep
<1>5. ASSUME NEW p \in Proc, Return(p)
      PROVE  IInv'
  BY <1>5 DEF IInv, TypeOK, BlocksMatchSize, BlocksFor, SpansBelowOff, SpansDisjoint,
              Return, inode
<1>6. CASE UNCHANGED vars
  BY <1>6 DEF IInv, TypeOK, BlocksMatchSize, BlocksFor, SpansBelowOff, SpansDisjoint, vars, inode
<1> QED
  BY <1>1, <1>2, <1>3, <1>4, <1>5, <1>6 DEF Next

\* The inductive invariant of write() and read() on a shared file.
THEOREM FileWriteInvariant == Spec => []IInv
BY FileWriteInit, FileWriteNext, PTL DEF Spec

\* Whatever the block size and however writes of any length are cut into
\* chunks and interleaved, the file has exactly the blocks that its size
\* needs, in memory and in the inode last logged (fs.c:490).
THEOREM BlocksAlwaysMatchSize == Spec => []BlocksMatchSize
<1>1. IInv => BlocksMatchSize
  BY DEF IInv
<1> QED
  BY <1>1, FileWriteInvariant, PTL

\* Any number of processes that share f->off write to different bytes
\* (file.c:139-144).
THEOREM SpansAlwaysDisjoint == Spec => []SpansDisjoint
<1>1. IInv => SpansDisjoint
  BY DEF IInv
<1> QED
  BY <1>1, FileWriteInvariant, PTL

-----------------------------------------------------------------------------
(* What a chunk logs *)

\* filewrite cuts writes "to avoid exceeding the maximum log transaction size,
\* including i-node, indirect block, allocation blocks, and 2 blocks of slop
\* for non-aligned writes" (file.c:125-128): a chunk on its own always fits
\* the log, which has room for LOGSIZE - 1 blocks (log.c:215).
ChunkFitsLog == \A p \in Proc : IsFiniteSet(logged[p]) /\ Cardinality(logged[p]) < LOGSIZE

LEMMA DivAddMany ==
  ASSUME NEW a \in Nat, NEW b \in Nat \ {0}, NEW k \in Nat
  PROVE  (a + k * b) \div b = a \div b + k
BY SMTT(30)

\* A chunk of k blocks' worth of bytes touches at most k + 1 blocks.
LEMMA TouchedBound ==
  ASSUME NEW o \in Nat, NEW m \in Nat \ {0}, NEW k \in Nat, m <= k * BSIZE
  PROVE  IsFiniteSet(Touched(o, m)) /\ Cardinality(Touched(o, m)) <= k + 1
<1>1. BSIZE \in Nat \ {0} /\ k * BSIZE \in Nat
  BY FileWriteAssumption
<1>2. o + m - 1 \in Nat /\ o + k * BSIZE \in Nat /\ o + m - 1 <= o + k * BSIZE /\ o <= o + m - 1
  BY <1>1
<1>3. (o + m - 1) \div BSIZE <= (o + k * BSIZE) \div BSIZE
  BY <1>1, <1>2, DivMonotone
<1>4. (o + k * BSIZE) \div BSIZE = o \div BSIZE + k
  BY <1>1, DivAddMany, Zenon
<1>5. o \div BSIZE \in Nat /\ (o + m - 1) \div BSIZE \in Nat
  BY <1>1, <1>2, DivNat
<1>6. o \div BSIZE <= (o + m - 1) \div BSIZE
  BY <1>1, <1>2, DivMonotone
<1> DEFINE lo == o \div BSIZE
           hi == (o + m - 1) \div BSIZE
<1>7. lo \in Int /\ hi \in Int /\ lo <= hi /\ hi <= lo + k
  BY <1>3, <1>4, <1>5, <1>6
<1> HIDE DEF lo, hi
<1>8. IsFiniteSet(lo .. hi) /\ Cardinality(lo .. hi) = hi - lo + 1
  BY <1>7, FS_Interval
<1>9. Touched(o, m) = lo .. hi
  BY DEF Touched, lo, hi
<1> QED
  BY <1>7, <1>8, <1>9

LEMMA AddOne ==
  ASSUME NEW S, NEW x, IsFiniteSet(S)
  PROVE  IsFiniteSet(S \union {x}) /\ Cardinality(S \union {x}) <= Cardinality(S) + 1
<1>1. Cardinality(S) \in Nat
  BY FS_CardinalityType
<1>2. /\ IsFiniteSet(S \union {x})
      /\ Cardinality(S \union {x}) = IF x \in S THEN Cardinality(S) ELSE Cardinality(S) + 1
  BY FS_AddElement, Zenon
<1> QED
  BY <1>1, <1>2

\* The data blocks, and at most one bitmap, indirect and inode block.
LEMMA LogsBound ==
  ASSUME NEW o \in Nat, NEW m \in Nat \ {0}, NEW k \in Nat, m <= k * BSIZE
  PROVE  IsFiniteSet(Logs(o, m)) /\ Cardinality(Logs(o, m)) <= k + 4
<1> DEFINE I == Touched(o, m)
           data == {<<"data", b>> : b \in I}
           f == [b \in I |-> <<"data", b>>]
           all == ((data \union {<<"bitmap", 0>>}) \union {<<"indirect", 0>>})
                    \union {<<"inode", 0>>}
<1>1. IsFiniteSet(I) /\ Cardinality(I) \in Nat /\ Cardinality(I) <= k + 1
  BY TouchedBound, FS_CardinalityType
<1>2. f \in Surjection(I, data)
  BY DEF Surjection
<1>3. IsFiniteSet(data) /\ Cardinality(data) <= Cardinality(I)
  <2> HIDE DEF I, data, f
  <2> QED
    BY <1>1, <1>2, FS_Surjection
<1>4. Logs(o, m) \subseteq all
  BY DEF Logs
<1> HIDE DEF I, data, f
<1> DEFINE two == data \union {<<"bitmap", 0>>}
           three == two \union {<<"indirect", 0>>}
<1>5. IsFiniteSet(two) /\ Cardinality(two) <= Cardinality(data) + 1
  BY <1>3, AddOne, Zenon
<1>6. IsFiniteSet(three) /\ Cardinality(three) <= Cardinality(two) + 1
  <2> HIDE DEF two
  <2> QED
    BY <1>5, AddOne, Zenon
<1>7. IsFiniteSet(all) /\ Cardinality(all) <= Cardinality(three) + 1
  <2> HIDE DEF three
  <2>1. all = three \union {<<"inode", 0>>}
    BY DEF three
  <2> QED
    BY <1>6, <2>1, AddOne, Zenon
<1>8. IsFiniteSet(all) /\ Cardinality(all) <= k + 4
  <2>1. /\ Cardinality(data) \in Nat /\ Cardinality(two) \in Nat
        /\ Cardinality(three) \in Nat /\ Cardinality(all) \in Nat
    BY <1>3, <1>5, <1>6, <1>7, FS_CardinalityType
  <2> HIDE DEF two, three, all
  <2> QED
    BY <1>1, <1>3, <1>5, <1>6, <1>7, <2>1
<1>9. IsFiniteSet(Logs(o, m)) /\ Cardinality(Logs(o, m)) <= Cardinality(all)
  <2> HIDE DEF all
  <2> QED
    BY <1>4, <1>8, FS_Subset
<1> QED
  <2>1. Cardinality(Logs(o, m)) \in Nat /\ Cardinality(all) \in Nat
    BY <1>8, <1>9, FS_CardinalityType
  <2> QED
    BY <1>8, <1>9, <2>1

\* The chunks of filewrite stay below the log's size for every LOGSIZE, block
\* size and length of a write, wherever in a block f->off is.
THEOREM ChunksAlwaysFitLog == Spec => []ChunkFitsLog
<1>1. Init => ChunkFitsLog
  BY FileWriteAssumption, FS_EmptySet DEF Init, ChunkFitsLog
<1>2. IInv /\ ChunkFitsLog /\ [Next]_vars => ChunkFitsLog'
  <2> SUFFICES ASSUME IInv, ChunkFitsLog, [Next]_vars PROVE ChunkFitsLog'
    OBVIOUS
  <2>1. ASSUME NEW p \in Proc, WriteChunk(p)
        PROVE  ChunkFitsLog'
    <3> DEFINE k == (LOGSIZE - 1 - 1 - 2) \div 2
    <3>1. k \in Nat /\ k + 4 < LOGSIZE
      BY FileWriteAssumption
    <3>2. n1(p) \in Nat \ {0} /\ n1(p) <= k * BSIZE
      BY <2>1, ChunkSize DEF IInv, WriteChunk, max
    <3>3. off \in Nat
      BY DEF IInv, TypeOK
    <3> HIDE DEF k
    <3>4. IsFiniteSet(Logs(off, n1(p))) /\ Cardinality(Logs(off, n1(p))) <= k + 4
      BY <3>1, <3>2, <3>3, LogsBound
    <3>5. Cardinality(Logs(off, n1(p))) \in Nat
      BY <3>4, FS_CardinalityType
    <3>6. Cardinality(Logs(off, n1(p))) < LOGSIZE
      BY <3>1, <3>4, <3>5, FileWriteAssumption
    <3>7. logged' = [logged EXCEPT ![p] = Logs(off, n1(p))] /\ DOMAIN logged = Proc
      BY <2>1 DEF WriteChunk, IInv, TypeOK
    <3> QED
      BY <3>4, <3>6, <3>7 DEF ChunkFitsLog
  <2>2. ASSUME NEW p \in Proc, Return(p)
        PROVE  ChunkFitsLog'
    <3>1. logged' = [logged EXCEPT ![p] = {}] /\ DOMAIN logged = Proc
      BY <2>2 DEF Return, IInv, TypeOK
    <3> QED
      BY <3>1, FileWriteAssumption, FS_EmptySet DEF ChunkFitsLog
  <2>3. CASE UNCHANGED logged
    BY <2>3 DEF ChunkFitsLog
  <2> QED
    BY <2>1, <2>2, <2>3, Zenon DEF Next, Open, Fileread, Filewrite, vars
<1> QED
  BY <1>1, <1>2, FileWriteInvariant, PTL DEF Spec

=============================================================================
