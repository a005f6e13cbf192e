------------------------------- MODULE Files --------------------------------
(***************************************************************************)
(* The file table (file.c), descriptors (sysfile.c), pipes (pipe.c), and   *)
(* what fork, exit and wait (proc.c) do with them.                         *)
(*                                                                         *)
(* todo[p] is what process p still does: system calls, with the operations *)
(* that a call in progress has left put in front.  A section under         *)
(* ftable.lock, p->lock or ptable.lock is one step.  A process that sleeps *)
(* has its call in front of todo with slept = 1 and tries again when woken *)
(* (Sched shows that no wakeup is lost).  A file that is not a pipe is its *)
(* offset: FileWrite and Tree model the rest.                              *)
(***************************************************************************)
EXTENDS Integers, FiniteSets, SequencesExt

CONSTANTS NPROC,       \* processes besides init
          NFILE,       \* entries of the file table
          NOFILE,      \* descriptors of a process
          NPIPE,       \* pages that kalloc has for pipes
          PIPESIZE,
          WRAP,        \* range of the counters nread and nwrite (2^32)
          FILELEN,     \* bytes in a file on disk
          BUFLEN       \* size of the buffer of cat

initproc == 0
Sh == 1
Proc == 1 .. NPROC
File == 1 .. NFILE
Fd == 0 .. NOFILE - 1
Page == 1 .. NPIPE

ASSUME FilesAssumption ==
  /\ NPROC \in Nat \ {0} /\ NFILE \in Nat \ {0} /\ NOFILE \in Nat /\ NOFILE >= 3
  /\ NPIPE \in Nat /\ PIPESIZE \in Nat \ {0} /\ WRAP > PIPESIZE /\ WRAP % PIPESIZE = 0
  /\ FILELEN \in Nat /\ BUFLEN \in Nat \ {0}

VARIABLES ref, file,     \* ftable: references; type, pipe, readable, writable, off
          ofile,         \* descriptors: a file, or 0
          pipe,          \* pages: used, data, nread, nwrite, readopen, writeopen
          taken,         \* the bytes that the last read of a pipe returned
          state, chan,   \* process states, and what a sleeper waits for
          parent, killed,
          todo,          \* what the process still does
          reg,           \* the descriptors that its last pipe and open returned
          kills          \* bound on the calls of kill to come

ftable == <<ref, file, ofile>>
pipes == <<pipe, taken>>
family == <<parent, reg>>
vars == <<ftable, pipes, state, chan, family, killed, todo, kills>>

NoFile == [type |-> "none", pipe |-> 0, readable |-> 0, writable |-> 0, off |-> 0]
\* The console: always at the end of its input.
Console == [NoFile EXCEPT !.type = "inode", !.readable = 1, !.writable = 1, !.off = FILELEN]
FreePage == [used |-> 0, data |-> [i \in 0 .. PIPESIZE - 1 |-> 0],
             nread |-> 0, nwrite |-> 0, readopen |-> 0, writeopen |-> 0]
NoChan == <<>>
Standard == [d \in Fd |-> IF d <= 2 THEN 1 ELSE 0]
None == [d \in Fd |-> 0]

\* init has opened the console three times over and started the shell.
FilesInit ==
  /\ ref = [f \in File |-> IF f = 1 THEN 6 ELSE 0]
  /\ file = [f \in File |-> IF f = 1 THEN Console ELSE NoFile]
  /\ ofile = [p \in Proc \union {initproc} |-> IF p \in {initproc, Sh} THEN Standard ELSE None]
  /\ pipe = [pp \in Page |-> FreePage] /\ taken = [pp \in Page |-> <<>>]
  /\ state = [p \in Proc |-> IF p = Sh THEN "run" ELSE "unused"]
  /\ chan = [p \in Proc |-> NoChan]
  /\ parent = [p \in Proc |-> initproc] /\ killed = [p \in Proc |-> 0]
  /\ todo = [p \in Proc |-> <<>>]
  /\ reg = [p \in Proc |-> [r \in -3 .. -1 |-> 0]] /\ kills = 0

-----------------------------------------------------------------------------
(* Operations.  A descriptor is a number, or a register that holds one.    *)

P0 == -1
P1 == -2
FD == -3

Close(d) == [do |-> "close", fd |-> d]
Dup(d) == [do |-> "dup", fd |-> d]
Open(mode) == [do |-> "open", mode |-> mode]
Read(d) == [do |-> "read", fd |-> d, slept |-> 0]
Write(d, bytes) == [do |-> "write", fd |-> d, bytes |-> bytes, slept |-> 0]
Fork(ops) == [do |-> "fork", child |-> ops]
Exec(argv) == [do |-> "exec", argv |-> argv]
Pipe == [do |-> "pipe"]
Wait == [do |-> "wait", slept |-> 0]
Exit == [do |-> "exit"]

Op(p) == Head(todo[p])
Rest(p) == Tail(todo[p])
Continue(p, ops) == todo' = [todo EXCEPT ![p] = ops]
Arg(p) == IF Op(p).fd < 0 THEN reg[p][Op(p).fd] ELSE Op(p).fd

\* A system call about to be made: trap turns a killed process away here.
AtCall(p) == /\ Op(p).do \in {"close", "dup", "open", "read", "write", "fork", "exec", "pipe", "wait"}
             /\ Op(p).do \in {"read", "write", "wait"} => Op(p).slept = 0
At(p, name) == /\ state[p] = "run" /\ todo[p] # <<>> /\ Op(p).do = name
               /\ ~(AtCall(p) /\ killed[p] = 1)

\* trap: if(proc->killed) exit().
trap(p) ==
  /\ state[p] = "run" /\ todo[p] # <<>> /\ AtCall(p) /\ killed[p] = 1
  /\ Continue(p, <<Exit>>)
  /\ UNCHANGED <<ftable, pipes, state, chan, family, killed, kills>>

Woken(c) == [q \in Proc |-> IF chan[q] = c THEN "run" ELSE state[q]]
Freed(c) == [q \in Proc |-> IF chan[q] = c THEN NoChan ELSE chan[q]]
wakeup(c) == state' = Woken(c) /\ chan' = Freed(c)
sleep(p, c, op) ==
  /\ state' = [state EXCEPT ![p] = "sleep"] /\ chan' = [chan EXCEPT ![p] = c]
  /\ Continue(p, <<[op EXCEPT !.slept = 1]>> \o Rest(p))
\* A writer that goes to sleep wakes the readers first.
wakeupsleep(p, c, d, op) ==
  /\ state' = [Woken(c) EXCEPT ![p] = "sleep"] /\ chan' = [Freed(c) EXCEPT ![p] = d]
  /\ Continue(p, <<[op EXCEPT !.slept = 1]>> \o Rest(p))

-----------------------------------------------------------------------------
(* file.c and the descriptors of sysfile.c *)

FreeFiles == {f \in File : ref[f] = 0}
FreeFds(p) == {d \in Fd : ofile[p][d] = 0}
\* argfd: the file of a descriptor, 0 if there is none.
argfd(p) == ofile[p][Arg(p)]

\* Drop a reference; the last one empties the entry, and leaves the pipe's end
\* to be closed without the lock.
fileclose(p, f, rest) ==
  IF ref[f] > 1
  THEN /\ ref' = [ref EXCEPT ![f] = @ - 1]
       /\ Continue(p, rest)
       /\ UNCHANGED file
  ELSE /\ ref' = [ref EXCEPT ![f] = 0]
       /\ file' = [file EXCEPT ![f] = NoFile]
       /\ Continue(p, IF file[f].type # "pipe" THEN rest
                      ELSE <<[do |-> "pipeclose", pp |-> file[f].pipe,
                              writable |-> file[f].writable]>> \o rest)

sys_close(p) ==
  /\ At(p, "close")
  /\ IF argfd(p) = 0 THEN Continue(p, Rest(p)) /\ UNCHANGED ftable
     ELSE /\ ofile' = [ofile EXCEPT ![p][Arg(p)] = 0]
          /\ fileclose(p, argfd(p), Rest(p))
  /\ UNCHANGED <<pipes, state, chan, family, killed, kills>>

filedup(f) == [ref EXCEPT ![f] = @ + 1]

\* fdalloc takes the lowest free descriptor.
sys_dup(p) ==
  /\ At(p, "dup")
  /\ IF argfd(p) = 0 \/ FreeFds(p) = {} THEN UNCHANGED <<ref, ofile>>
     ELSE /\ ofile' = [ofile EXCEPT ![p][Min(FreeFds(p))] = argfd(p)]
          /\ ref' = filedup(argfd(p))
  /\ Continue(p, Rest(p))
  /\ UNCHANGED <<file, pipes, state, chan, family, killed, kills>>

\* The name may be missing; the caller exits when open fails.
sys_open(p) ==
  /\ At(p, "open")
  /\ \/ /\ Continue(p, <<Exit>>)
        /\ UNCHANGED <<ftable, reg>>
     \/ /\ FreeFiles # {} /\ FreeFds(p) # {}
        /\ LET f == Min(FreeFiles) IN
           /\ ref' = [ref EXCEPT ![f] = 1]
           /\ file' = [file EXCEPT ![f] = [NoFile EXCEPT !.type = "inode",
                         !.readable = IF Op(p).mode = "r" THEN 1 ELSE 0,
                         !.writable = IF Op(p).mode = "w" THEN 1 ELSE 0]]
           /\ ofile' = [ofile EXCEPT ![p][Min(FreeFds(p))] = f]
        /\ reg' = [reg EXCEPT ![p][FD] = Min(FreeFds(p))]
        /\ Continue(p, Rest(p))
  /\ UNCHANGED <<pipes, state, chan, parent, killed, kills>>

-----------------------------------------------------------------------------
(* pipe.c *)

\* pipealloc takes a file, a second one and a page, each under its own lock; if
\* one is missing it gives back the others, and the caller exits.
sys_pipe(p) ==
  /\ At(p, "pipe")
  /\ IF FreeFiles = {} THEN Continue(p, <<Exit>>) /\ UNCHANGED ref
     ELSE /\ ref' = [ref EXCEPT ![Min(FreeFiles)] = 1]
          /\ Continue(p, <<[do |-> "pipe1", f0 |-> Min(FreeFiles)]>> \o Rest(p))
  /\ UNCHANGED <<file, ofile, pipes, state, chan, family, killed, kills>>

pipealloc1(p) ==
  /\ At(p, "pipe1")
  /\ IF FreeFiles = {}
     THEN /\ ref' = [ref EXCEPT ![Op(p).f0] = 0]
          /\ Continue(p, <<Exit>>)
     ELSE /\ ref' = [ref EXCEPT ![Min(FreeFiles)] = 1]
          /\ Continue(p, <<[do |-> "pipe2", f0 |-> Op(p).f0, f1 |-> Min(FreeFiles)]>> \o Rest(p))
  /\ UNCHANGED <<file, ofile, pipes, state, chan, family, killed, kills>>

\* Fault variant: the second file is kept when there is no page.
GiveBack_One(r, f0, f1) == [r EXCEPT ![f0] = 0]
GiveBack(r, f0, f1) == [r EXCEPT ![f0] = 0, ![f1] = 0]

PipeFile(pp, r) == [NoFile EXCEPT !.type = "pipe", !.pipe = pp, !.readable = r, !.writable = 1 - r]

\* kalloc, then fdalloc twice; a pipe without descriptors is closed again.
pipealloc2(p) ==
  /\ At(p, "pipe2")
  /\ LET f0 == Op(p).f0
         f1 == Op(p).f1
         free == {pp \in Page : pipe[pp].used = 0}
         d0 == Min(FreeFds(p))
         d1 == Min(FreeFds(p) \ {d0}) IN
     IF free = {} \/ Cardinality(FreeFds(p)) < 2
     THEN /\ ref' = GiveBack(ref, f0, f1)
          /\ Continue(p, <<Exit>>)
          /\ UNCHANGED <<file, ofile, pipes, reg>>
     ELSE /\ pipe' = [pipe EXCEPT ![Min(free)] = [FreePage EXCEPT !.used = 1, !.readopen = 1,
                                                                  !.writeopen = 1]]
          /\ taken' = [taken EXCEPT ![Min(free)] = <<>>]
          /\ file' = [file EXCEPT ![f0] = PipeFile(Min(free), 1), ![f1] = PipeFile(Min(free), 0)]
          /\ ofile' = [ofile EXCEPT ![p][d0] = f0, ![p][d1] = f1]
          /\ reg' = [reg EXCEPT ![p][P0] = d0, ![p][P1] = d1]
          /\ Continue(p, Rest(p))
          /\ UNCHANGED ref
  /\ UNCHANGED <<state, chan, parent, killed, kills>>

LastEnd(q) == q.readopen = 0 /\ q.writeopen = 0
\* Closing the write end wakes the readers, and the other way round.
Other(w) == IF w = 1 THEN "nread" ELSE "nwrite"

pipeclose(p) ==
  /\ At(p, "pipeclose")
  /\ LET pp == Op(p).pp
         q == IF Op(p).writable = 1 THEN [pipe[pp] EXCEPT !.writeopen = 0]
                                    ELSE [pipe[pp] EXCEPT !.readopen = 0] IN
     /\ pipe' = [pipe EXCEPT ![pp] = IF LastEnd(q) THEN FreePage ELSE q]
     /\ wakeup(<<Other(Op(p).writable), pp>>)
  /\ Continue(p, Rest(p))
  /\ UNCHANGED <<ftable, taken, family, killed, kills>>

\* Fault variant: one byte too many fits.
Full_OffByOne(q) == q.nwrite = (q.nread + PIPESIZE + 1) % WRAP
Full(q) == q.nwrite = (q.nread + PIPESIZE) % WRAP
Empty(q) == q.nread = q.nwrite

\* The loop of pipewrite up to its end or to a full buffer.
RECURSIVE Put(_, _)
Put(q, bytes) ==
  IF bytes = <<>> \/ Full(q) THEN [q |-> q, left |-> bytes]
  ELSE Put([q EXCEPT !.data[q.nwrite % PIPESIZE] = Head(bytes), !.nwrite = (@ + 1) % WRAP],
           Tail(bytes))

\* The loop of piperead: at most n bytes.
RECURSIVE Get(_, _)
Get(q, n) ==
  IF n = 0 \/ Empty(q) THEN [q |-> q, got |-> <<>>]
  ELSE LET r == Get([q EXCEPT !.nread = (@ + 1) % WRAP], n - 1)
       IN  [r EXCEPT !.got = <<q.data[q.nread % PIPESIZE]>> \o @]

\* if(p->readopen == 0 || proc->killed).
GiveUp(p, q) == q.readopen = 0 \/ killed[p] = 1

\* A full buffer: fail, or wake the readers and sleep.
pipewrite(p, pp) ==
  LET r == Put(pipe[pp], Op(p).bytes) IN
  /\ pipe' = [pipe EXCEPT ![pp] = r.q]
  /\ IF r.left = <<>> THEN wakeup(<<"nread", pp>>) /\ Continue(p, Rest(p))
     ELSE IF GiveUp(p, pipe[pp]) THEN Continue(p, Rest(p)) /\ UNCHANGED <<state, chan>>
     ELSE wakeupsleep(p, <<"nread", pp>>, <<"nwrite", pp>>, [Op(p) EXCEPT !.bytes = r.left])
  /\ UNCHANGED taken

\* sys_write, filewrite; what becomes of bytes written to an inode is in FileWrite.
sys_write(p) ==
  /\ At(p, "write")
  /\ LET f == argfd(p) IN
     IF f # 0 /\ file[f].writable = 1 /\ file[f].type = "pipe" THEN pipewrite(p, file[f].pipe)
     ELSE Continue(p, Rest(p)) /\ UNCHANGED <<pipes, state, chan>>
  /\ UNCHANGED <<ftable, family, killed, kills>>

\* What cat does with the bytes: write them and read again; it stops at the end
\* of the file, and exits when the read failed.
Copied(p, got) == IF got = <<>> THEN Rest(p)
                  ELSE <<Write(1, got), [Op(p) EXCEPT !.slept = 0]>> \o Rest(p)

\* while(p->nread == p->nwrite && p->writeopen).
MustWait(q) == Empty(q) /\ q.writeopen = 1

piperead(p, pp) ==
  IF MustWait(pipe[pp])
  THEN /\ IF killed[p] = 1 THEN Continue(p, <<Exit>>) /\ UNCHANGED <<state, chan>>
          ELSE sleep(p, <<"nread", pp>>, Op(p))
       /\ UNCHANGED pipes
  ELSE LET r == Get(pipe[pp], BUFLEN) IN
       /\ pipe' = [pipe EXCEPT ![pp] = r.q]
       /\ taken' = [taken EXCEPT ![pp] = r.got]
       /\ wakeup(<<"nwrite", pp>>)
       /\ Continue(p, Copied(p, r.got))

\* sys_read, fileread; the bytes of a file are its offsets, counted from 1.
sys_read(p) ==
  /\ At(p, "read")
  /\ LET f == argfd(p)
         n == Min({BUFLEN, FILELEN - file[f].off}) IN
     IF f = 0 \/ file[f].readable = 0
     THEN Continue(p, <<Exit>>) /\ UNCHANGED <<file, pipes, state, chan>>
     ELSE IF file[f].type = "pipe" THEN piperead(p, file[f].pipe) /\ UNCHANGED file
     ELSE /\ file' = [file EXCEPT ![f].off = @ + n]
          /\ Continue(p, Copied(p, [i \in 1 .. n |-> file[f].off + i]))
          /\ UNCHANGED <<pipes, state, chan>>
  /\ UNCHANGED <<ref, ofile, family, killed, kills>>

-----------------------------------------------------------------------------
(* proc.c *)

\* fork shares every open file; without a free slot the shell's fork1 exits.
fork(p) ==
  /\ At(p, "fork")
  /\ LET free == {q \in Proc : state[q] = "unused"}
         c == Min(free) IN
     IF free = {}
     THEN Continue(p, <<Exit>>) /\ UNCHANGED <<ref, ofile, state, killed, family>>
     ELSE /\ ref' = [f \in File |-> ref[f] + Quantify(Fd, LAMBDA d : ofile[p][d] = f)]
          /\ ofile' = [ofile EXCEPT ![c] = ofile[p]]
          /\ state' = [state EXCEPT ![c] = "run"]
          /\ parent' = [parent EXCEPT ![c] = p]
          /\ killed' = [killed EXCEPT ![c] = 0]
          /\ reg' = [reg EXCEPT ![c] = reg[p]]
          /\ todo' = [todo EXCEPT ![p] = Rest(p), ![c] = Op(p).child]
  /\ UNCHANGED <<file, pipes, chan, kills>>

\* Close the files one by one, then become a zombie.
exit(p) ==
  /\ At(p, "exit")
  /\ LET d == Min(Fd \ FreeFds(p)) IN
     IF FreeFds(p) # Fd
     THEN /\ ofile' = [ofile EXCEPT ![p][d] = 0]
          /\ fileclose(p, ofile[p][d], todo[p])
          /\ UNCHANGED <<state, chan, parent>>
     ELSE /\ state' = [Woken(<<"child", parent[p]>>) EXCEPT ![p] = "zombie"]
          /\ chan' = Freed(<<"child", parent[p]>>)
          /\ parent' = [q \in Proc |-> IF parent[q] = p THEN initproc ELSE parent[q]]
          /\ Continue(p, <<>>)
          /\ UNCHANGED ftable
  /\ UNCHANGED <<pipes, reg, killed, kills>>

Reap(q) == state' = [state EXCEPT ![q] = "unused"] /\ parent' = [parent EXCEPT ![q] = initproc]

wait(p) ==
  /\ At(p, "wait")
  /\ LET kids == {q \in Proc : parent[q] = p}
         zombies == {q \in kids : state[q] = "zombie"} IN
     IF zombies # {} THEN Reap(Min(zombies)) /\ Continue(p, Rest(p)) /\ UNCHANGED chan
     ELSE IF kids = {} \/ killed[p] = 1
     THEN Continue(p, Rest(p)) /\ UNCHANGED <<state, chan, parent>>
     ELSE sleep(p, <<"child", p>>, Op(p)) /\ UNCHANGED parent
  /\ UNCHANGED <<ftable, pipes, reg, killed, kills>>

\* The loop of init.
InitWait(q) ==
  /\ state[q] = "zombie" /\ parent[q] = initproc
  /\ Reap(q)
  /\ UNCHANGED <<ftable, pipes, chan, reg, killed, todo, kills>>

\* kill, for a process other than the shell itself.  A call that comes between a
\* sleeper's test of killed and its sleep finds nobody to wake, except in wait,
\* which keeps ptable.lock in between.
kill(q) ==
  /\ kills > 0 /\ q # Sh /\ state[q] \in {"run", "sleep"} /\ killed[q] = 0
  /\ killed' = [killed EXCEPT ![q] = 1]
  /\ \/ state' = [state EXCEPT ![q] = "run"] /\ chan' = [chan EXCEPT ![q] = NoChan]
     \/ chan[q] \notin {NoChan, <<"child", q>>} /\ UNCHANGED <<state, chan>>
  /\ kills' = kills - 1
  /\ UNCHANGED <<ftable, pipes, family, todo>>

FilesStep(p) ==
  \/ trap(p) \/ sys_close(p) \/ sys_dup(p) \/ sys_open(p)
  \/ sys_pipe(p) \/ pipealloc1(p) \/ pipealloc2(p) \/ pipeclose(p)
  \/ sys_write(p) \/ sys_read(p) \/ fork(p) \/ exit(p) \/ wait(p)

=============================================================================
