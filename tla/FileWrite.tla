------------------------------ MODULE FileWrite ------------------------------
(***************************************************************************)
(* write() and read() on an open file of an on-disk inode: filewrite cuts  *)
(* a write into chunks, one log transaction each (file.c); writei and bmap *)
(* write a chunk block by block and allocate what is missing (fs.c).       *)
(*                                                                         *)
(* Processes that inherited the same struct file share f->off.  A chunk    *)
(* runs under ilock inside one transaction, so it is one step.  Blocks are *)
(* numbered within the file; what a transaction logs is recorded as the    *)
(* set of distinct blocks passed to log_write.  One bitmap block covers    *)
(* the file system (mkfs makes 1024 blocks, a bitmap block has BPB = 4096  *)
(* bits).  Offsets stay far below 2^32, so off + n < off never holds.      *)
(***************************************************************************)
EXTENDS Integers, FiniteSets, FiniteSetsExt

CONSTANTS Proc,          \* processes sharing the open file
          BSIZE, NDIRECT, NINDIRECT,
          LOGSIZE, MAXOPBLOCKS,
          Lengths,       \* the lengths that calls ask for
          InitSizes,     \* possible sizes of the file when it is first opened
          MaxCalls       \* bound: read and write calls made

ASSUME FileWriteAssumption ==
  /\ BSIZE \in Nat \ {0} /\ NDIRECT \in Nat /\ NINDIRECT \in Nat
  /\ LOGSIZE \in Nat /\ LOGSIZE >= 6              \* room for a chunk of one block
  /\ MAXOPBLOCKS \in Nat /\ MaxCalls \in Nat
  /\ Lengths \subseteq Nat /\ InitSizes \subseteq 0 .. (NDIRECT + NINDIRECT) * BSIZE

VARIABLES
  size,      \* ip->size
  alloc,     \* file blocks that ip->addrs[] and the indirect block map
  ialloc,    \* the same in the inode that iupdate last logged
  off,       \* f->off
  n, i,      \* per process: length and progress of its filewrite
  pc,        \* "idle" or "loop"
  logged,    \* blocks that the last transaction of the call logged
  spans,     \* history: byte ranges written since the file was opened
  calls      \* read and write calls made

inode == <<size, alloc, ialloc>>
vars == <<inode, off, n, i, pc, logged, spans, calls>>

MAXFILE == NDIRECT + NINDIRECT

\* The blocks that hold the first k bytes of a file.
BlocksFor(k) == 0 .. (k + BSIZE - 1) \div BSIZE - 1

Init ==
  /\ size \in InitSizes
  /\ alloc = BlocksFor(size) /\ ialloc = alloc
  /\ off = 0
  /\ n = [p \in Proc |-> 0] /\ i = [p \in Proc |-> 0]
  /\ pc = [p \in Proc |-> "idle"]
  /\ logged = [p \in Proc |-> {}]
  /\ spans = {} /\ calls = 0

\* The file is opened again: a struct file with f->off = 0.
Open ==
  /\ \A p \in Proc : pc[p] = "idle"
  /\ off' = 0 /\ spans' = {}
  /\ UNCHANGED <<inode, n, i, pc, logged, calls>>

\* read(): one readi under ilock; readi cuts k at the end of the file.
Fileread(p, k) ==
  /\ pc[p] = "idle" /\ calls < MaxCalls
  /\ off' = IF off > size THEN off ELSE off + Min({k, size - off})
  /\ calls' = calls + 1
  /\ UNCHANGED <<inode, n, i, pc, logged, spans>>

\* write() enters filewrite.
Filewrite(p, k) ==
  /\ pc[p] = "idle" /\ calls < MaxCalls
  /\ n' = [n EXCEPT ![p] = k] /\ i' = [i EXCEPT ![p] = 0]
  /\ pc' = [pc EXCEPT ![p] = "loop"]
  /\ calls' = calls + 1
  /\ UNCHANGED <<inode, off, logged, spans>>

\* The largest chunk of one transaction.
max == ((LOGSIZE - 1 - 1 - 2) \div 2) * BSIZE

\* The file blocks that m bytes from offset o fall into (writei's loop).
Touched(o, m) == o \div BSIZE .. (o + m - 1) \div BSIZE

\* Fault variant: looks at the offset the chunk started from.
Grows_FromStart(o, m) == o > size
\* writei ends at an offset beyond the size: the inode is updated.
Grows(o, m) == o + m > size

(***************************************************************************)
(* What writei logs for m bytes at o: each data block (bzero's log_write   *)
(* of a new block is absorbed by it), the bitmap block if balloc ran, the  *)
(* indirect block if an entry of it was filled, the inode if it grew.      *)
(***************************************************************************)
Logs(o, m) ==
  LET new == Touched(o, m) \ alloc
  IN  {<<"data", b>> : b \in Touched(o, m)}
        \union {<<"bitmap", 0>> : b \in new}
        \union {<<"indirect", 0>> : b \in {c \in new : c >= NDIRECT}}
        \union {<<"inode", 0>> : x \in {y \in {0} : Grows(o, m)}}

\* Fault variant: f->off moves only after the last chunk of a call.
Advance_Late(p, m) == IF i[p] + m = n[p] THEN off + n[p] ELSE off
\* f->off += r after every chunk.
Advance(p, m) == off + m

n1(p) == Min({n[p] - i[p], max})
Writable(p) == off <= size /\ off + n1(p) <= MAXFILE * BSIZE

\* One chunk: begin_op, ilock, writei, iunlock, end_op.
WriteChunk(p) ==
  /\ pc[p] = "loop" /\ i[p] < n[p]
  /\ Writable(p)
  /\ alloc' = alloc \union Touched(off, n1(p))
  /\ size' = IF Grows(off, n1(p)) THEN off + n1(p) ELSE size
  /\ ialloc' = IF Grows(off, n1(p)) THEN alloc' ELSE ialloc
  /\ logged' = [logged EXCEPT ![p] = Logs(off, n1(p))]
  /\ spans' = spans \union {<<p, i[p], off, off + n1(p)>>}
  /\ off' = Advance(p, n1(p))
  /\ i' = [i EXCEPT ![p] = @ + n1(p)]
  /\ UNCHANGED <<n, pc, calls>>

\* writei refuses a chunk, which ends the call with -1, or all is written.
Return(p) ==
  /\ pc[p] = "loop"
  /\ i[p] >= n[p] \/ ~Writable(p)
  /\ pc' = [pc EXCEPT ![p] = "idle"]
  /\ n' = [n EXCEPT ![p] = 0] /\ i' = [i EXCEPT ![p] = 0]
  /\ logged' = [logged EXCEPT ![p] = {}]
  /\ UNCHANGED <<inode, off, spans, calls>>

Next == \/ Open
        \/ \E p \in Proc, k \in Lengths : Fileread(p, k) \/ Filewrite(p, k)
        \/ \E p \in Proc : WriteChunk(p) \/ Return(p)

Spec == Init /\ [][Next]_vars

\* "max # of blocks any FS op writes" (param.h:10), what begin_op reserves.
ChunkFitsReservation == \A p \in Proc : Cardinality(logged[p]) <= MAXOPBLOCKS

\* A file has a block for each of its bytes and no other, in memory and in the
\* inode that the same transaction logged: bmap's allocations never escape
\* writei's conditional iupdate (fs.c:490).
BlocksMatchSize == alloc = BlocksFor(size) /\ ialloc = alloc

\* Processes that share f->off never write the same bytes, however their
\* chunks interleave (file.c:139-144).
SpansDisjoint ==
  \A s, t \in spans : s # t => s[4] <= t[3] \/ t[4] <= s[3]
=============================================================================
