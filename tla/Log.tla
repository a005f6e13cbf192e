--------------------------------- MODULE Log ---------------------------------
(***************************************************************************)
(* The logging layer of log.c: begin_op, log_write, end_op, commit and     *)
(* recover_from_log, over a disk that survives crashes and a block cache   *)
(* that does not.                                                          *)
(*                                                                         *)
(* A step of the model is a section of code under log.lock, or one disk    *)
(* write (bwrite returns when the sector is on the disk; a sector write is *)
(* atomic).  log_write is two steps because its checks (log.c:215-218) run *)
(* before log.lock is taken.  sleep and wakeup on &log are atomic with     *)
(* log.lock.  Cached copies of the header and log data blocks always equal *)
(* the disk (every change of one is a bwrite made before brelse), so only  *)
(* blocks outside the log area have a cache entry here.                    *)
(***************************************************************************)
EXTENDS Integers, Sequences, FiniteSets, Functions

CONSTANTS Proc,         \* processes that run FS system calls
          Block,        \* disk blocks outside the log area
          Val,          \* block contents
          NoVal,        \* "not in the cache"
          MAXOPBLOCKS,  \* param.h: what begin_op reserves for one FS call
          LOGSIZE,      \* param.h: slots in the log header
          NLOG,         \* log.size, the sb.nlog that mkfs wrote
          OPBLOCKS      \* distinct blocks that one FS call really logs

ASSUME LogAssumption ==
  /\ NoVal \notin Val
  /\ IsFiniteSet(Proc)
  /\ MAXOPBLOCKS \in Nat \ {0}
  /\ LOGSIZE \in Nat /\ LOGSIZE >= MAXOPBLOCKS
  /\ NLOG \in Nat
  /\ OPBLOCKS \in 0 .. MAXOPBLOCKS

VARIABLES
  disk,         \* home locations of the blocks                      (durable)
  logblk,       \* data blocks of the on-disk log                    (durable)
  dhead,        \* sectors listed by the on-disk log header          (durable)
  lh,           \* log.lh: sectors of the transaction in memory
  outstanding,  \* log.outstanding
  committing,   \* log.committing
  data,         \* cached contents of each block, NoVal if not cached
  dirty,        \* cached blocks with B_DIRTY (pinned)
  mode,         \* "up", "panic", or the step recover_from_log is at
  pc,           \* where each process is
  held,         \* the buffer a process holds while inside log_write
  wrote,        \* history: blocks logged so far by the process's FS call
  tail          \* loop index of write_log and install_trans

onDisk == <<disk, logblk, dhead>>
cache == <<data, dirty>>
call == <<held, wrote>>
vars == <<onDisk, lh, outstanding, committing, cache, mode, pc, call, tail>>

PC == {"idle",      \* outside begin_op .. end_op
       "begin",     \* in begin_op, about to test its conditions again
       "sleep",     \* in begin_op, asleep on &log
       "op",        \* between begin_op and end_op
       "write_log", "install", \* in commit()
       "done"}      \* in end_op, commit() returned
Booting == {"read_head", "install"}
MODE == Booting \union {"up", "panic"}

Running == mode = "up"

\* Processes between begin_op and end_op.
Active == {p \in Proc : pc[p] = "op"}

\* A buffer is B_BUSY while a process takes it through log_write.
Busy(b) == \E p \in Proc : b \in held[p]

\* The contents bread returns: the cached copy if there is one.
Contents(b) == IF data[b] # NoVal THEN data[b] ELSE disk[b]

(***************************************************************************)
(* A file system fresh from mkfs: an empty log header; booting runs        *)
(* initlog, which starts with recover_from_log.                            *)
(***************************************************************************)
Init ==
  /\ disk \in [Block -> Val]
  /\ \E v \in Val : logblk = [i \in 1 .. LOGSIZE |-> v]
  /\ dhead = <<>> /\ lh = <<>>
  /\ outstanding = 0 /\ committing = 0
  /\ data = [b \in Block |-> NoVal] /\ dirty = {}
  /\ mode = "read_head"
  /\ pc = [p \in Proc |-> "idle"]
  /\ held = [p \in Proc |-> {}] /\ wrote = [p \in Proc |-> {}]
  /\ tail = 0

-----------------------------------------------------------------------------
(* begin_op *)

\* Fault variant: forgets that the caller itself needs a reservation.
RoomForOp_NoSelf == Len(lh) + outstanding * MAXOPBLOCKS <= LOGSIZE
RoomForOp == Len(lh) + (outstanding + 1) * MAXOPBLOCKS <= LOGSIZE

MayBegin == committing = 0 /\ RoomForOp

BeginOpEnter(p) ==
  /\ Running
  /\ pc[p] \in {"idle", "begin"}
  /\ MayBegin
  /\ outstanding' = outstanding + 1
  /\ pc' = [pc EXCEPT ![p] = "op"]
  /\ UNCHANGED <<onDisk, lh, committing, cache, mode, call, tail>>

BeginOpSleep(p) ==
  /\ Running
  /\ pc[p] \in {"idle", "begin"}
  /\ ~MayBegin
  /\ pc' = [pc EXCEPT ![p] = "sleep"]
  /\ UNCHANGED <<onDisk, lh, outstanding, committing, cache, mode, call, tail>>

-----------------------------------------------------------------------------
(* log_write, and the cache around it *)

(***************************************************************************)
(* A process in an FS call has bread block b, changes it to v and calls    *)
(* log_write, which first makes its two checks without holding log.lock.   *)
(***************************************************************************)
LogWriteCheck(p, b, v) ==
  /\ Running
  /\ pc[p] = "op" /\ held[p] = {}
  /\ ~Busy(b)
  /\ Cardinality(wrote[p] \union {b}) <= OPBLOCKS
  /\ data' = [data EXCEPT ![b] = v]
  /\ held' = [held EXCEPT ![p] = {b}]
  /\ mode' = IF Len(lh) >= LOGSIZE \/ Len(lh) >= NLOG - 1 \/ outstanding < 1
             THEN "panic" ELSE mode
  /\ UNCHANGED <<onDisk, lh, outstanding, committing, dirty, pc, wrote, tail>>

\* Fault variant: no absorption, a block is listed once per log_write.
Absorb_Never(b) == Append(lh, b)
\* The sectors of the header once b is listed in it.
Absorb(b) == IF b \in Range(lh) THEN lh ELSE Append(lh, b)

Pin(b) == dirty \union {b}

(***************************************************************************)
(* The locked half: absorb or append the sector, pin the buffer; the       *)
(* caller then gives the buffer back with brelse.                          *)
(***************************************************************************)
LogWriteRecord(p) ==
  /\ Running
  /\ \E b \in held[p] : /\ lh' = Absorb(b)
                        /\ dirty' = Pin(b)
                        /\ wrote' = [wrote EXCEPT ![p] = @ \union {b}]
  /\ held' = [held EXCEPT ![p] = {}]
  /\ UNCHANGED <<onDisk, outstanding, committing, data, mode, pc, tail>>

\* bread of a block that is not cached, by a process that only reads it.
Bread(b) ==
  /\ Running
  /\ data[b] = NoVal
  /\ data' = [data EXCEPT ![b] = disk[b]]
  /\ UNCHANGED <<onDisk, lh, outstanding, committing, dirty, mode, pc, call,
                 tail>>

\* Fault variant: recycles a pinned buffer.
Recyclable_Dirty(b) == ~Busy(b)
Recyclable(b) == ~Busy(b) /\ b \notin dirty

\* bget takes a clean buffer away for another sector.
Evict(b) ==
  /\ Running
  /\ data[b] # NoVal
  /\ Recyclable(b)
  /\ data' = [data EXCEPT ![b] = NoVal]
  /\ UNCHANGED <<onDisk, lh, outstanding, committing, dirty, mode, pc, call,
                 tail>>

-----------------------------------------------------------------------------
(* end_op and commit *)

\* Fault variant: wakes nobody.
Wakeup_Lost(f) == f
\* wakeup(&log): every sleeper runs begin_op's loop again.
Wakeup(f) == [p \in Proc |-> IF f[p] = "sleep" THEN "begin" ELSE f[p]]

\* Not the last operation: give the reservation back and wake waiters.
EndOpOther(p) ==
  /\ Running
  /\ pc[p] = "op" /\ held[p] = {}
  /\ outstanding # 1
  /\ outstanding' = outstanding - 1
  /\ mode' = IF committing = 1 THEN "panic" ELSE mode
  /\ pc' = Wakeup([pc EXCEPT ![p] = "idle"])
  /\ wrote' = [wrote EXCEPT ![p] = {}]
  /\ UNCHANGED <<onDisk, lh, committing, cache, held, tail>>

\* The last operation: become the committer; commit() skips an empty log.
EndOpLast(p) ==
  /\ Running
  /\ pc[p] = "op" /\ held[p] = {}
  /\ outstanding = 1
  /\ outstanding' = 0
  /\ mode' = IF committing = 1 THEN "panic" ELSE mode
  /\ committing' = 1
  /\ pc' = [pc EXCEPT ![p] = IF lh = <<>> THEN "done" ELSE "write_log"]
  /\ wrote' = [wrote EXCEPT ![p] = {}]
  /\ tail' = 0
  /\ UNCHANGED <<onDisk, lh, cache, held>>

\* The loops of write_log and install_trans end after the last entry.
LoopDone == tail >= Len(lh)

\* One iteration of write_log: cache block -> log block.
WriteLog(p) ==
  /\ Running
  /\ pc[p] = "write_log" /\ ~LoopDone
  /\ logblk' = [logblk EXCEPT ![tail + 1] = Contents(lh[tail + 1])]
  /\ data' = [data EXCEPT ![lh[tail + 1]] = Contents(lh[tail + 1])]
  /\ tail' = tail + 1
  /\ UNCHANGED <<disk, dhead, lh, outstanding, committing, dirty, mode, pc,
                 call>>

\* Fault variant: blocks are installed before the header is on the disk.
WriteHead_Skipped(p) ==
  /\ Running
  /\ pc[p] = "write_log" /\ LoopDone
  /\ tail' = 0
  /\ pc' = [pc EXCEPT ![p] = "install"]
  /\ UNCHANGED <<onDisk, lh, outstanding, committing, cache, mode, call>>

\* The first write_head of commit: the true point of the commit.
WriteHead(p) ==
  /\ Running
  /\ pc[p] = "write_log" /\ LoopDone
  /\ dhead' = lh
  /\ tail' = 0
  /\ pc' = [pc EXCEPT ![p] = "install"]
  /\ UNCHANGED <<disk, logblk, lh, outstanding, committing, cache, mode, call>>

\* One iteration of install_trans: log block -> home block, through the cache.
InstallBlock ==
  /\ ~LoopDone
  /\ disk' = [disk EXCEPT ![lh[tail + 1]] = logblk[tail + 1]]
  /\ data' = [data EXCEPT ![lh[tail + 1]] = logblk[tail + 1]]
  /\ dirty' = dirty \ {lh[tail + 1]}
  /\ tail' = tail + 1
  /\ UNCHANGED <<logblk, dhead, lh>>

\* log.lh.n = 0 and a write_head: erase the transaction from the log.
ClearLog ==
  /\ LoopDone
  /\ lh' = <<>>
  /\ dhead' = <<>>
  /\ tail' = 0
  /\ UNCHANGED <<disk, logblk, cache>>

InstallTrans(p) ==
  /\ Running
  /\ pc[p] = "install"
  /\ InstallBlock
  /\ UNCHANGED <<outstanding, committing, mode, pc, call>>

ClearHead(p) ==
  /\ Running
  /\ pc[p] = "install"
  /\ ClearLog
  /\ pc' = [pc EXCEPT ![p] = "done"]
  /\ UNCHANGED <<outstanding, committing, mode, call>>

\* After commit(): let new operations in and wake those that wait.
EndOpDone(p) ==
  /\ Running
  /\ pc[p] = "done"
  /\ committing' = 0
  /\ pc' = Wakeup([pc EXCEPT ![p] = "idle"])
  /\ UNCHANGED <<onDisk, lh, outstanding, cache, mode, call, tail>>

-----------------------------------------------------------------------------
(* Crash and recovery *)

(***************************************************************************)
(* Power fails, or a panicked machine is reset.  Memory is lost, also in   *)
(* the middle of an earlier recovery; the disk is kept.                    *)
(***************************************************************************)
Crash ==
  /\ lh' = <<>>
  /\ outstanding' = 0 /\ committing' = 0
  /\ data' = [b \in Block |-> NoVal] /\ dirty' = {}
  /\ mode' = "read_head"
  /\ pc' = [p \in Proc |-> "idle"]
  /\ held' = [p \in Proc |-> {}] /\ wrote' = [p \in Proc |-> {}]
  /\ tail' = 0
  /\ UNCHANGED onDisk

\* read_head: the on-disk header becomes the in-memory one.
ReadHead ==
  /\ mode = "read_head"
  /\ lh' = dhead
  /\ tail' = 0
  /\ mode' = "install"
  /\ UNCHANGED <<onDisk, outstanding, committing, cache, pc, call>>

RecoverInstall ==
  /\ mode = "install"
  /\ InstallBlock
  /\ UNCHANGED <<outstanding, committing, mode, pc, call>>

RecoverClear ==
  /\ mode = "install"
  /\ ClearLog
  /\ mode' = "up"
  /\ UNCHANGED <<outstanding, committing, pc, call>>

-----------------------------------------------------------------------------
EndOp(p) == EndOpOther(p) \/ EndOpLast(p)
CommitStep(p) == \/ WriteLog(p) \/ WriteHead(p) \/ InstallTrans(p)
                 \/ ClearHead(p) \/ EndOpDone(p)
Recover == ReadHead \/ RecoverInstall \/ RecoverClear

Next ==
  \/ \E p \in Proc : BeginOpEnter(p) \/ BeginOpSleep(p)
  \/ \E p \in Proc, b \in Block, v \in Val : LogWriteCheck(p, b, v)
  \/ \E p \in Proc : LogWriteRecord(p)
  \/ \E b \in Block : Bread(b) \/ Evict(b)
  \/ \E p \in Proc : EndOp(p) \/ CommitStep(p)
  \/ Crash
  \/ Recover

Spec == Init /\ [][Next]_vars

(***************************************************************************)
(* Every process is scheduled, disk writes complete, and an FS call ends:  *)
(* it calls log_write finitely often (strong fairness on end_op).          *)
(***************************************************************************)
Fairness ==
  /\ \A p \in Proc : /\ WF_vars(LogWriteRecord(p))
                     /\ SF_vars(EndOp(p))
                     /\ WF_vars(CommitStep(p))
  /\ WF_vars(Recover)

FairSpec == Spec /\ Fairness

-----------------------------------------------------------------------------
(* Properties *)

\* log.lh.n counts entries of an array of LOGSIZE sectors, log.outstanding
\* never goes negative, the cache holds blocks and pins only cached ones.
TypeOK ==
  /\ disk \in [Block -> Val]
  /\ logblk \in [1 .. LOGSIZE -> Val]
  /\ dhead \in Seq(Block) /\ lh \in Seq(Block)
  /\ outstanding \in Nat /\ committing \in {0, 1}
  /\ data \in [Block -> Val \union {NoVal}] /\ dirty \subseteq Block
  /\ mode \in MODE
  /\ pc \in [Proc -> PC]
  /\ held \in [Proc -> SUBSET Block] /\ wrote \in [Proc -> SUBSET Block]
  /\ tail \in Nat

\* log.lh.sector[] is never overrun, although log_write tests for room before
\* it takes log.lock (log.c:215): begin_op's reservations keep room for every
\* block that the operations in progress may still log.
LogFits == Len(lh) <= LOGSIZE

\* The log slots promised to the operations in progress: an operation that
\* has logged k blocks may still need slots k+1 .. MAXOPBLOCKS.
Reserved == {t \in Active \X (1 .. MAXOPBLOCKS) : t[2] > Cardinality(wrote[t[1]])}

\* begin_op's test (log.c:131) charges each operation in progress for all of
\* MAXOPBLOCKS on top of what is logged already; what it really protects is
\* that logged blocks and the slots still promised fit in the log together.
Reservation ==
  /\ outstanding = Cardinality(Active)
  /\ Len(lh) + Cardinality(Reserved) <= LOGSIZE

\* No FS call makes the kernel panic in log_write or end_op.
NoPanic == mode # "panic"

\* "There is never any reasoning required about whether a commit might write
\* an uncommitted system call's updates to disk" (log.c:11-14): while a
\* process commits, no FS call is in progress and there is one committer.
CommitAlone ==
  /\ committing = 1 => Active = {}
  /\ \A p, q \in Proc : (/\ pc[p] \in {"write_log", "install", "done"}
                         /\ pc[q] \in {"write_log", "install", "done"}) => p = q

\* Write-ahead rule: a home block changes only while the on-disk header lists
\* it, that is, while a crash would install it again (log.c:189-199).
WriteAhead ==
  [][\A b \in Block : disk'[b] # disk[b] => b \in Range(dhead)]_vars

\* A process asleep in begin_op is woken (log.c:129-133, 158, 168), and a commit
\* ends with the log empty and every buffer it pinned released to bget (166-168,
\* 189-199); a crash during it does so through recovery.
LogProgress ==
  /\ \A p \in Proc : pc[p] = "sleep" ~> pc[p] # "sleep"
  /\ committing = 1 ~> (committing = 0 /\ lh = <<>> /\ dirty = {})

(***************************************************************************)
(* Refinement of TxDisk.  What recovery would leave on the disk is the     *)
(* home blocks overlaid with the log blocks that the on-disk header lists. *)
(***************************************************************************)
durable == [b \in Block |->
              IF b \in Range(dhead)
              THEN logblk[CHOOSE i \in DOMAIN dhead : dhead[i] = b]
              ELSE disk[b]]
pending == IF mode \in Booting THEN durable ELSE [b \in Block |-> Contents(b)]

Tx == INSTANCE TxDisk WITH active <- Active

\* The logging layer is an atomic-transaction disk: FS calls become durable in
\* whole groups, at the write of the header, and survive crashes at any point.
TxRefinement == Tx!Spec
=============================================================================
