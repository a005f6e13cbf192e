# A verification of xv6 with procfs

TLA+ specifications of the kernel in `src/` (xv6 as extended by this
repository with a `/proc` file system), TLC instances that check them, and
TLAPS proofs of the invariants that matter most. `PROJECT.json` lists the
components, the runs, the source lines behind each definition, the hazards the
code is exposed to, and the theorems.

## The system

| Part | Source | Modules | State |
|---|---|---|---|
| Write-ahead log | `log.c` | `Log`, `TxDisk`, `LogProofs` | modelled, proved |
| Buffer cache, IDE driver | `bio.c`, `ide.c` | `Bcache`, `BlockStore`, `BcacheOwners`, `BcacheProofs`, `BcacheContents`, `BcacheRefinement` | modelled, proved |
| File data path | `file.c`, `fs.c` (`writei`, `bmap`) | `FileWrite` | modelled |
| Spin locks, scheduler, sleep/wakeup, clock | `spinlock.c`, `proc.c`, `trap.c`, `sysproc.c` | `Sched` | modelled |
| Process table | `proc.c`, `init.c` | `Proc`, `ProcProofs` | modelled, proved |
| Inode cache, directories | `fs.c`, `sysfile.c` | `Tree` | modelled but for devices |
| File table, pipes | `file.c`, `pipe.c`, `sysfile.c` | `Files`, `Stream` | modelled |
| Shell | `sh.c`, `cat.c`, `echo.c` | `ShParser`, `Shell` | modelled |
| Pages, page tables, exec | `kalloc.c`, `vm.c`, `exec.c` | `Vm` | modelled |
| Procfs, device inodes | `procfs.c`, `fs.c` | `Procfs` | modelled |
| Console input | `console.c`, `kbd.c`, `uart.c` | `Console`, `LineInput` | modelled |
| Boot, device output, system call dispatch, user library, other programs | the rest | | not modelled |

How the parts meet: a system call that changes the file system brackets its
work with `begin_op`/`end_op`; it reads and changes blocks through the buffer
cache and records them with `log_write`, which pins them in the cache (B_DIRTY)
until `commit` has written them to the log and then home. The cache asks the
driver for sectors and sleeps until the interrupt. All sleeping rests on
`sleep`/`wakeup` and `ptable.lock`, which the scheduler hands from thread to
thread. `fork`, `exit`, `wait` and `kill` work on the table under that lock;
`fork` also copies an address space and shares open files, `exec` replaces the
one and keeps the other, which is what the shell builds pipes on. `/proc` is a
device directory: path lookup reads it like any directory, but its entries are
made from the process table at each read, and its inodes exist only in the
cache.

Each module models what lies below it by its promise: `Log` uses a cache of
blocks with exclusive owners and a pin flag (what `Bcache` establishes), `Bcache`
and `Log` take `sleep`/`wakeup` as atomic (what `Sched` shows to be sound:
no wakeup is lost), `FileWrite` treats a transaction as one step (what `Log`
shows), `Proc` lets any RUNNABLE process run (what `Sched` schedules), and the
modules below it in the table do the same. `Shell` is a composition: `Files`
with the shell and its programs as clients, each process running the system
calls that `runcmd` makes of the tree that `ShParser` makes of a line.

## Modules

A definition that ends in `_Something` and is commented "Fault variant" is a
plausible bug. It is not part of the specification; replacing the definition
that follows it by it must violate a property, which shows that the property
depends on the code.

### Log, TxDisk

State: the home blocks `disk`, the log sectors `logblk`, the on-disk header
`dhead`; in memory `lh`, `outstanding`, `committing`, and the cache contents
`data`/`dirty`; per process, where it is in its file-system call and which
blocks it holds. Actions are the sections of `log.c` between two points where
another process or a crash can intervene: `BeginOpEnter`/`BeginOpSleep`,
`LogWriteCheck` (the tests before the lock) and `LogWriteRecord` (under it),
`EndOpOther`/`EndOpLast`, then the commit one sector write at a time
(`WriteLog`, `WriteHead`, `InstallTrans`, `ClearHead`), `EndOpDone`. `Crash`
may happen at any point and keeps only the disk; `ReadHead`,
`RecoverInstall`, `RecoverClear` are `recover_from_log`, itself interruptible
by a crash. Panics are the mode `panic`.

`TxDisk` is the promise: a durable state, a pending group of writes, and a
commit that makes the whole group durable at once; a crash drops the pending
group. `Log` implements it (`TxRefinement`); the durable state is the disk
overlaid with the log when the header is set.

### Bcache, BlockStore

State: the LRU list, each buffer's sector and B_BUSY/B_VALID/B_DIRTY flags and
data, the request queue, the drive, the disk. `bget`'s scan, its sleep and its
recycling are separate actions (`BgetHit`, `BgetSleep`, `BgetRecycle`,
`BgetPanic`), as are `iderw` and its wait loop, the drive and `ideintr`.
`BlockStore` is the promise: each block has one content and at most one owner.

### FileWrite

The file as its size and the set of allocated blocks, in memory and as last
logged; `f->off`, shared by processes; per process, a `filewrite` in progress.
One chunk is one step, since it runs under `ilock` inside one transaction. The
blocks a chunk passes to `log_write` are recorded as a set.

### Sched

Every thread (process or per-CPU scheduler) is the sequence of operations it
still has to perform; a C function is the sequence of its operations, a call
or an interrupt puts operations in front. This gives the real stack discipline
of interrupts, of `sched` switching away in the middle of a function, and of a
process resuming on another CPU. `acquire` is three operations (mask and
check, xchg, record the owner), `release` three (check and clear the owner,
unlock, unmask).

### Proc

The table with state, pid, parent and killed mark; per process, where it is in
`fork`, `exit` or `wait`. Sections under `ptable.lock` are steps; the unlocked
middle of `fork` is a step of its own, with its failures. `init` runs the loop
of `init.c`. RUNNABLE and RUNNING are one state, as `Sched` covers the
difference.

### Tree

The inodes on the disk (type and link count), the directory entries, the inode
cache (references, I_BUSY, I_VALID, the copy of type and link count), and per
process its current directory, an open file, and the rest of its system call
as a sequence of operations, as in `Sched`. What `ilock`, `iput`, `ialloc` and
`namex` do between two releases of `icache.lock` or of a buffer is a step; what
a call does to inodes it has locked is a step. So `iput`'s truncation runs
without `icache.lock`, `ialloc` scans inode by inode, and `namex` drops the
parent that `create`, `link` and `unlink` then lock again. A call runs inside
one transaction, which `Log` makes atomic for crashes.

### Files, Stream

The file table, the pipes (a page each) and, per process, its descriptors and
the operations it still has to perform. `pipealloc` is two steps with its
failures in between (no file, no page), `sys_pipe` gives back what it got;
`fileclose` of the last reference goes on to `pipeclose`. `pipewrite` and
`piperead` go to sleep and wake in steps of their own. A kill marks a
process at any point, also between its test of `killed` and its sleep, where it
does not wake it. `Stream` is the promise of a pipe: bytes come out once and in
order, and an empty read is the end, after which nobody writes.

### ShParser, Shell

`ShParser` has the recursive descent of `sh.c` on tokens, and beside it the
grammar, by cutting a line at its symbols outside parentheses; the two
definitions share only the token classes and the tree constructors. `Shell`
turns a tree into the system calls of `runcmd`, and has the loop of `main`
(with `cd`, and the line that is a syntax error) and the programs `cat` and
`echo`.

### Vm

Pages are numbers; the free list is a set; a page directory and a page table
are functions on their pages, so that a page that is freed and handed out again
shows. Every turn of a loop that calls `kalloc` is a step, and the number of
pages is chosen at the start, so that memory runs out at every turn of
`allocproc`, `setupkvm`, `copyuvm`, `allocuvm` and `mappages`, with another
process in the middle of its own call. `cr3` is the table loaded on the CPU
where a process runs. Sizes are bytes modulo `UINT`, which stands for 2^32.

### Console, LineInput

Key events arrive as scan codes (with the E0 prefix and releases), serial
characters as such; `kbdgetc` keeps its shift state, `consoleintr` edits the
ring under `input.lock`, character by character; readers take characters,
sleep, and are killed. `LineInput` is the promise: a line can be edited until
it is committed, and what is committed is read once, in order, up to its end.

### Procfs

The inode cache (number, references, I_BUSY, I_VALID, type, minor) and, per
caller, where it is in `namex`, `dirlookup` and the call around them. A section
under `icache.lock` is a step; one read of a directory entry is a step, which
makes the listing anew from the process table of that moment; `procfsiread`,
which takes no lock, is a step. Inode numbers are the code's: 700 times the pid
plus the kind, in 16 bits. Where the code uses memory that it has not set (the
pointer that `getProcByPID` does not find, the entry that `initPID` then leaves
unwritten) or memory beyond the table (`getProc` takes the pid for a slot), the
model takes any outcome, a fault included. `fork` stops at as many processes as
the buffer of a listing has room for (procfs.c:16).

## Runs

| Run | Shows | Bounds |
|---|---|---|
| `log_tx` | atomic groups under crashes, write-ahead, reserved space kept, no panic when calls leave slack; sleepers in `begin_op` are woken, commits end | 2 processes, 2 blocks, 2 values; calls of 2 blocks, LOGSIZE 6 |
| `bcache_safe` | exclusive owners and one buffer per sector, sound queue, no lost wakeup, implements `BlockStore` (pinned blocks included), the free count is exact, "no buffers" only when none is left | 3 processes, 2 buffers, 3 sectors; all buffers may be pinned |
| `filewrite_real` | blocks match the size, sharers of an offset never overlap | the shipped sizes; 2 processes; lengths at block, chunk, indirect and file limits; 3 calls |
| `sched_safe` | mutual exclusion without a panic, one CPU per process, no lost wakeup, masking undone | 2 CPUs, 2 processes |
| `sched_live` | sleepers wake and RUNNABLE processes run, `sys_sleep` never returns early | 1 CPU, 2 processes, ticks modulo 3 |
| `proc_table` | living parents, owned embryos, no missed child; killed processes exit, orphans are reaped | 4 slots, 5 pids |
| `tree_race` | exact reference counts, link counts that cover the entries, unlinked inodes freed, current cache; no deadlock, no panic | 2 processes, 5 inodes, 4 calls of 9 kinds on one directory |
| `shell_pipes` | exact reference counts of files through fork, dup, exit and failures; pipes are streams; the shell always prompts again; the parser agrees with the grammar | 7 lines (two- and three-stage pipes, lists, blocks, background, syntax errors), 5 processes, 5 files, 5 descriptors, 1 pipe page of 2 bytes, counters modulo 4, one kill; the parser on all token sequences up to 5 long |
| `vm_pages` | a page has one owner, none is lost while `kalloc` succeeds, a loaded page table is never freed, memory below `proc->sz` is mapped | 2 processes, 8 to 16 pages, page tables of 2 entries, 4 calls |
| `console_line` | the ring implements an editable line; no reader sleeps beside input | 2 readers, ring of 2, indices modulo 4, 4 key events or characters |
| `procfs_walk` | a path leads to the inode and the contents it names, exact reference counts, every lookup ends | 2 callers, a third process that comes and goes, pids from 1 and from 91, 5 paths, 2 lookups and their reads |
| `procfs_refs` | **violated**: two lookups of one inode lose a reference | 2 callers, 3 lookups |

Why the bounds suffice. Log: two processes give every race of `end_op` with
`begin_op`; two blocks give a crash between two installs; absorption needs
one block written twice; one logged block is enough to make the other process
wait for space, and the commit makes it wait for that. The sharp bound is
`Reservation`; that the log is never overrun follows from it for every size,
which is the theorem. Bcache: with three sectors over two buffers and
three processes every kind of recycling happens, also while another process
waits for the recycled buffer, and up to both buffers are pinned.
FileWrite: the run uses the real sizes, so that every boundary is the code's
own. Sched: two CPUs and two processes make migration, simultaneous
`scheduler` scans and a wakeup racing with a sleep; three ticks make the
counter wrap many times. Proc: four slots are a chain
init-shell-parent-child, which inheritance of a zombie needs. Tree: the
directory exists at the start, so that four calls of two processes make, link,
enter and remove a file and its directory in every order; five inodes are as
many as four calls can use. Shell: the lines need more processes, files and
pages than there are, so that `fork`, `pipe` and `open` fail in each place;
a pipe of two bytes is full and empty in turn while a file of three goes
through it. Vm: page tables of two entries make every address space need a
second table; with 8 to 16 pages every call fails at every turn in some run,
and two processes interleave their calls. Console: a ring of two fills before a
line ends, and the indices wrap. Procfs: the third process is born, dies and is
reaped at any turn of a lookup; pids from 91 reach 93, the last whose numbers
fit 16 bits; two descriptors have both decodings, the usual one and that of the
last descriptor.

Fairness. Log and Bcache: steps inside the kernel are weakly fair, since a
RUNNABLE process is scheduled (`EventuallyRuns`) and the drive answers; where
waiters compete for a buffer or for log space the configuration leaves no
endless overtaking or the property only asks to be woken. Sched: CPUs do not
stop; the timer is strongly fair since its interrupt stays pending; and a
thread that is interrupted again and again makes steps of its own in between,
because the timer's period is longer than its handler. Liveness is checked on
one CPU: nothing in `acquire` is fair between CPUs, so nothing is claimed.
Tree, Procfs: a process in a
system call is scheduled. Shell: some process that can go on does (weak fairness
of all steps together, which is less than the scheduler gives); calls are
finite in number, so `PromptReturns` then says that nobody waits for ever.
Procfs: callers read until the end of a file and make finitely many calls, so
that nobody is overtaken for ever at an inode lock, which the code does not
exclude. Vm and Console: no liveness is claimed. Proc: steps in the kernel, the exit of a killed process (the timer brings it
into `trap`), and init's loop.

### Where code and comments disagree

`procfs_refs` is in `PROJECT.json`, which quotes both sides. The instances below
can be run in the same way (`tlc -config X.cfg MCModule`); all but the last one
show a disagreement of the same kind, so that TLC ends with a counterexample.

| Configuration | Property | What happens |
|---|---|---|
| `Tree_dotdot` | `FreedUnnamed` | `unlink` of a current directory keeps its `..` entry but takes back its link (sysfile.c:218-220); the parent can then be removed and freed while `..` names it, against "no directory entries referring to it" (fs.c:391) |
| `Bcache_error` | `CleanIsDisk` | after a failed read `ideintr` marks the buffer valid (ide.c:110); `bread` is to return "the contents of the indicated disk sector" (bio.c:119) |
| `FileWrite_reserve` | `ChunkFitsReservation` | a chunk of 13 blocks (file.c:132) exceeds MAXOPBLOCKS = 10, "max # of blocks any FS op writes" (param.h:10) |
| `Proc_kill` | `KilledAsAsked` | `kill` marks slots that are not in use (proc.c:417); a child is born killed |
| `Vm_hole` | `GrownMapped` | `allocuvm` ignores the result of `mappages` (vm.c:240): when the page table cannot be allocated, `sbrk` succeeds over a hole; it "Returns new size or 0 on error" (vm.c:219) |
| `Bcache_live` | `BgetWoken`, `IderwReturns` | holds: nobody sleeps for ever in `bget` or `iderw` (3 processes, 2 sectors, 3 buffers) |

Also met while modelling `/proc`, and built into the model as they are:
`getProc` takes a pid for a slot of the table, so `status`, `fdinfo` and its
files show the process in that slot; the last descriptor is decoded as -1
(procfs.c:132); a lookup in `/proc` can pass over a living process when another
one exits between two turns of `dirlookup`, since the listing closes up;
`iput` leaves I_VALID set, although fs.c:132 says it is cleared, which `iget`
makes up for.

## Proofs

`LogProofs` proves, for any finite set of processes, any blocks and any log
sizes with `LogAssumption`: the types, `Reservation`, `LogFits`,
`CommitAlone`, `WriteAhead`, and `NoPanic` when operations leave slack. The
property `LogFits` (`lh.n <= LOGSIZE`) is not inductive: a `log_write` that
has passed its test appends later. `Reservation` says that what the log holds
plus what the operations in progress may still append fits LOGSIZE. `LogInv`
adds `Control` (which commit step belongs to which counter values),
`Calls` (an operation uses no more than its reservation) and `Headers` (the
on-disk header is empty or is the log being installed), needed for
`WriteAhead`. There is one lemma per action. `NoPanicWithSlack` needs
OPBLOCKS < MAXOPBLOCKS and enough slack in the log: `log_write` refuses the last
block of those that `begin_op` hands out when `nlog` = LOGSIZE.

The buffer cache has four modules of proofs, each using the one before, for any
processes, any sectors and contents and any number of buffers. `BcacheOwners`
states the inductive invariant and shows that the steps of bio.c keep it;
`BcacheProofs` does so for ide.c and concludes `ExclusiveOwner`, `QueueSound`,
`NoLostWakeup` and `BuffersAccounted`. These four hold each other up: an
interrupt wakes the right process because each request is queued once, which
holds because its owner sleeps until then, which needs one owner per buffer.
`BcacheInv` adds the types, `Wants` (who is in `bread` asked for a sector) and
`Requests` (`iderw` is called only with something to do, and whoever is woken
there finds it done, so that its panics and a second round of its loop never
happen). None of this depends on whether reads fail.

What does is in the other two, which assume `ReadErrors = FALSE` (`Bcache_error`
shows why). `BcacheContents` proves `CleanIsDisk`, with `DriveSound`: between the
command and the interrupt, the drive has the data of the head of the queue.
`BcacheRefinement` proves that every step of `Spec` is a step of `BlockStore` or
is not seen there. Recycling is the case that needs `CleanIsDisk`: the contents
of the old sector pass from the buffer to the disk without changing.

`ProcProofs` proves, for any number of slots and pids: the types with unique
pids, `ParentAlive`, `EmbryoOwned`, `NoMissedChild`. `ProcInv` adds `Pids`
(used pids are older than `nextpid`), `Forking` (a fork under way is RUNNABLE
and its child is an EMBRYO that is its own) and `Waiting` (sleepers are in
`wait`; nobody is their own parent, without which `exit`'s
`wakeup1(proc->parent)` would not reach who waits).

Only model-checked: the other refinements, liveness, everything about the other
modules. Liveness is out of the prover's reach; so are the parser and the
grammar, which are recursive.

## What is left out

Boot and device registers are straight-line I/O; `memide.c` is an alternative
driver that is not linked; programs other than the shell, `cat`, `echo` and
`init` are clients. The second disk of `ide.c` behaves as the first. `trap`'s
unexpected-fault path (mark and exit at once) is the exit of a killed process.
Console output (`cprintf`, `cgaputc`, `uartputc`) goes to devices. `mknod` and
the creation of names below `/proc`, where `dirlink` would write to a device
that takes nothing, are left out, as are the numbers that `blockstat` and
`inodestat` print, but for the count of free blocks, which is in `Bcache`. Pids
above 93, whose inode numbers collide, are beyond the bounds of `Procfs`. What a
crash leaves of link counts is not modelled: `Tree` takes a system call as one
transaction, `Log` shows that transactions are atomic.
