------------------------------- MODULE Procfs -------------------------------
(***************************************************************************)
(* The /proc file system (procfs.c) under the inode cache and the path     *)
(* lookup of fs.c, while the processes it lists come and go.               *)
(*                                                                         *)
(* Callers walk paths, open, read, close and change directory.  A section  *)
(* under icache.lock is a step, and so is one read of a directory entry,   *)
(* which makes the whole listing anew; procfsiread, which takes no lock,   *)
(* is a step of its own.  Listings are sequences of numbers and names, and *)
(* what a file says is the process and the descriptor it is about.         *)
(***************************************************************************)
EXTENDS Integers, FiniteSets, SequencesExt

CONSTANTS NPROC, NOFILE, NINODE,
          Caller,      \* slots of the processes that make the calls
          FirstPids,   \* what the first pid of the table may be
          Walks,       \* open or chdir, with a path from the root or not, and its names
          MaxForks, MaxCalls,   \* bounds
          OFFS         \* range of the offset in dirlookup, in entries

Slot == 0 .. NPROC - 1
Fd == 0 .. NOFILE - 1
USHORT == 65536
ROOTINO == 1
PROCINO == 19

ASSUME ProcfsAssumption == /\ NPROC \in Nat /\ NOFILE \in Nat /\ NINODE \in Nat
                           /\ Caller \subseteq Slot /\ MaxForks \in Nat /\ MaxCalls \in Nat
                           /\ OFFS > NPROC + 4

VARIABLES table,         \* ptable: pid and state
          ofile,         \* the descriptors that are open in a process
          nextpid, forks,
          inode,         \* the cache: inum, ref, I_BUSY, I_VALID, type, minor
          currentInode,
          cwd, file,     \* callers: current directory; open file, read to its end or not
          pc, loc,       \* callers: where they are, and the locals of the call
          shown,         \* callers: what the last read was about
          calls, panicked

processes == <<table, ofile, nextpid, forks>>
held == <<cwd, file, shown>>
vars == <<processes, inode, currentInode, held, pc, loc, calls, panicked>>

Empty == [inum |-> 0, ref |-> 0, busy |-> 0, valid |-> 0, type |-> "none", minor |-> 0]
NoFile == [ip |-> 0, off |-> 0, eof |-> 0, path |-> <<>>]
Nowhere == [op |-> "none", ip |-> 0, next |-> 0, todo |-> <<>>, done |-> <<>>, off |-> 0, inum |-> 0]
Nothing == <<"nothing", 0, 0>>

\* The callers and init are in the root directory; nobody else is listed yet.
Init ==
  /\ \E first \in FirstPids :
       /\ table = [s \in Slot |-> IF s \in Caller
                     THEN [pid |-> first + Cardinality({t \in Caller : t < s}), state |-> "RUNNABLE"]
                     ELSE [pid |-> 0, state |-> "UNUSED"]]
       /\ nextpid = first + Cardinality(Caller)
  /\ ofile = [s \in Slot |-> IF s \in Caller THEN {0} ELSE {}]
  /\ forks = 0 /\ currentInode = USHORT - 1
  /\ inode = [i \in 1 .. NINODE |-> IF i # 1 THEN Empty
                ELSE [Empty EXCEPT !.inum = ROOTINO, !.ref = Cardinality(Caller) + 1,
                                   !.valid = 1, !.type = "dir"]]
  /\ cwd = [c \in Caller |-> 1] /\ file = [c \in Caller |-> NoFile]
  /\ pc = [c \in Caller |-> "user"] /\ loc = [c \in Caller |-> Nowhere]
  /\ shown = [c \in Caller |-> Nothing] /\ calls = 0 /\ panicked = 0

-----------------------------------------------------------------------------
(* The processes that are listed *)

Used == {s \in Slot : table[s].state # "UNUSED"}
\* At most as many processes as the buffer of a listing has room for.
fork ==
  /\ forks < MaxForks /\ Cardinality(Used) < NPROC - 2
  /\ LET s == Min(Slot \ Used) IN
     /\ table' = [table EXCEPT ![s] = [pid |-> nextpid, state |-> "RUNNABLE"]]
     /\ ofile' = [ofile EXCEPT ![s] = {0}]
  /\ nextpid' = nextpid + 1 /\ forks' = forks + 1
  /\ UNCHANGED <<inode, currentInode, held, pc, loc, calls, panicked>>
exit(s) ==
  /\ s \notin Caller /\ table[s].state = "RUNNABLE"
  /\ table' = [table EXCEPT ![s].state = "ZOMBIE"] /\ ofile' = [ofile EXCEPT ![s] = {}]
  /\ UNCHANGED <<nextpid, forks, inode, currentInode, held, pc, loc, calls, panicked>>
wait(s) ==
  /\ table[s].state = "ZOMBIE"
  /\ table' = [table EXCEPT ![s] = [pid |-> 0, state |-> "UNUSED"]]
  /\ UNCHANGED <<ofile, nextpid, forks, inode, currentInode, held, pc, loc, calls, panicked>>

-----------------------------------------------------------------------------
(* procfs.c: listings.  A name is a word and a number. *)

Word(w) == <<w, 0>>
Pid(p) == <<"pid", p>>
FdName(i) == <<"fd", i>>
Entry(n, name) == [inum |-> n % USHORT, name |-> name]
InOrder(S) == SelectSeq([k \in 1 .. NPROC + NOFILE |-> k - 1], LAMBDA x : x \in S)

initProc(inum) ==
  LET slots == InOrder(Used) IN
  <<Entry(inum, Word(".")), Entry(ROOTINO, Word("..")),
    Entry(660, Word("blockstat")), Entry(670, Word("inodestat"))>>
  \o [k \in 1 .. Len(slots) |-> Entry(700 * table[slots[k]].pid, Pid(table[slots[k]].pid))]

\* Whatever was on the stack.
Garbage == {Entry(n, name) : n \in {0} \union {inode[i].inum : i \in DOMAIN inode},
                             name \in {Word(""), Word("cwd")}}
\* The last entry: the directory of a process that has one (the callers move, the
\* others run in the root); without one, or without a process, it is not written.
Dir(s) == IF s \in Caller THEN inode[cwd[s]].inum ELSE ROOTINO
LastEntry(found) == IF \E s \in found : table[s].state = "RUNNABLE"
                    THEN {Entry(Dir(s), Word("cwd")) : s \in found} ELSE Garbage
getProcByPID(pid) == {s \in Slot : table[s].pid = pid}
initPID(inum) ==
  {<<Entry(inum, Word(".")), Entry(currentInode, Word("..")), Entry(10 + inum, Word("status")),
     Entry(20 + inum, Word("fdinfo")), last>> : last \in LastEntry(getProcByPID(inum \div 700))}

\* getProc: the pid is an index of the table; beyond it there is other memory.
OpenFiles(i) == IF i \in Slot THEN {ofile[i]} ELSE SUBSET Fd
\* Fault variant: descriptor numbers begin with the directory's own.
FdInum_Zero(inum, i) == inum + i
FdInum(inum, i) == inum + i + 1
fdinfo(inum) ==
  {LET fds == InOrder(S) IN
   <<Entry(inum, Word(".")), Entry(inum - 20, Word(".."))>>
   \o [k \in 1 .. Len(fds) |-> Entry(FdInum(inum, fds[k]), FdName(fds[k]))]
     : S \in OpenFiles(inum \div 700)}

command(inum) == IF inum % 700 \in 21 .. 36 THEN 21 ELSE inum % 700
\* The listings that a read may find.
Listings(inum) == CASE command(inum) = 19 -> {initProc(inum)} [] command(inum) = 0 -> initPID(inum)
                    [] command(inum) = 20 -> fdinfo(inum) [] OTHER -> {<<>>}

\* status, filesContent, blockstat, inodestat: what the text is about, which for
\* the first two is an entry of the table and a descriptor.
About(inum) ==
  CASE command(inum) = 10 -> <<"status", inum \div 700, 0>>
    [] command(inum) = 21 -> <<"file", inum \div 700, (((inum % 700) - 20) % NOFILE) - 1>>
    [] command(inum) = 660 -> <<"blockstat", 0, 0>>
    [] command(inum) = 670 -> <<"inodestat", 0, 0>>
    [] OTHER -> Nothing

\* A pointer that is followed may be wild: getProcByPID gives initPID an
\* uninitialised one; filesContent takes any slot and descriptor.
NoSuchFile(slot, fd) == ~(slot \in Slot /\ fd \in ofile[slot])
MayFault(inum) == \/ command(inum) = 0 /\ getProcByPID(inum \div 700) = {}
                  \/ command(inum) = 21 /\ NoSuchFile(About(inum)[2], About(inum)[3])

\* Fault variant: the end of the listing is not noticed.
InListing_Always(off, list) == list # <<>>
InListing(off, list) == off < Len(list)

T_DIR == 1
T_FILE == 2
procfsisdir(i) == inode[i].minor \in {0, T_DIR}
IsDir(i) == inode[i].type = "dir" \/ (inode[i].type = "dev" /\ procfsisdir(i))
procfsiread(ip) == [ip EXCEPT !.type = "dev", !.valid = 1, !.busy = 0, !.ref = 1,
                              !.minor = IF ip.inum = 19 \/ ip.inum % 700 \in {0, 20} THEN T_DIR ELSE T_FILE]

-----------------------------------------------------------------------------
(* fs.c: the cache *)

Running(c, here) == pc[c] = here /\ panicked = 0
Goto(c, there) == pc' = [pc EXCEPT ![c] = there]
Panic == panicked' = 1 /\ UNCHANGED <<inode, pc, loc>>
\* What a step of a call leaves alone.
Rest == UNCHANGED <<processes, held, calls>>

\* iget: an entry in use, or else the first one that is free; 0 if there is none.
Cached(n) == {i \in DOMAIN inode : inode[i].ref > 0 /\ inode[i].inum = n}
Unused == {i \in DOMAIN inode : inode[i].ref = 0}
Slots(n) == IF Cached(n) # {} THEN Cached(n) ELSE Unused
Got(n) == IF Cached(n) # {} THEN [inode EXCEPT ![Min(Cached(n))].ref = @ + 1]
          ELSE [inode EXCEPT ![Min(Unused)] = [@ EXCEPT !.inum = n, !.ref = 1, !.busy = 0, !.valid = 0]]

iget(c) ==
  /\ Running(c, "iget")
  /\ IF Slots(loc[c].inum) = {} THEN Panic       \* iget: no inodes
     ELSE /\ inode' = Got(loc[c].inum)
          /\ loc' = [loc EXCEPT ![c].next = Min(Slots(loc[c].inum))]
          /\ Goto(c, "iread") /\ UNCHANGED panicked
  /\ Rest /\ UNCHANGED currentInode

\* Fault variant: an inode that is valid already is set up again.
Fresh_Always(i) == TRUE
Fresh(i) == inode[i].valid = 0

\* The end of dirlookup: an inode found in a device's directory is set up.
iread(c) ==
  /\ Running(c, "iread")
  /\ inode' = IF Fresh(loc[c].next) /\ inode[loc[c].ip].type = "dev"
              THEN [inode EXCEPT ![loc[c].next] = procfsiread(@)] ELSE inode
  /\ Goto(c, "iunlock") /\ UNCHANGED <<loc, currentInode, panicked>> /\ Rest

ilock(c) ==
  /\ Running(c, "ilock")
  /\ LET i == loc[c].ip IN
     IF inode[i].ref < 1 THEN Panic
     ELSE /\ inode[i].busy = 0 /\ inode' = [inode EXCEPT ![i].busy = 1]
          /\ Goto(c, IF inode[i].valid = 1 THEN "locked" ELSE "bread")
          /\ UNCHANGED <<loc, panicked>>
  /\ Rest /\ UNCHANGED currentInode

\* The inodes on disk are the root and /proc; elsewhere there is no inode.
bread(c) ==
  /\ Running(c, "bread")
  /\ LET i == loc[c].ip IN
     IF inode[i].inum \notin {ROOTINO, PROCINO} THEN Panic      \* ilock: no type
     ELSE /\ inode' = [inode EXCEPT ![i].type = IF inode[i].inum = ROOTINO THEN "dir" ELSE "dev",
                                    ![i].minor = 0, ![i].valid = 1]
          /\ Goto(c, "locked") /\ UNCHANGED <<loc, panicked>>
  /\ Rest /\ UNCHANGED currentInode

\* iunlock(ip), on the way to iput(ip).
Unlockable(i) == inode[i].busy = 1 /\ inode[i].ref >= 1
iunlock(c) ==
  /\ Running(c, "iunlock")
  /\ IF ~Unlockable(loc[c].ip) THEN Panic
     ELSE /\ inode' = [inode EXCEPT ![loc[c].ip].busy = 0]
          /\ Goto(c, "iput") /\ UNCHANGED <<loc, panicked>>
  /\ Rest /\ UNCHANGED currentInode

\* iput of a directory on the path, then on to what was found there, if anything.
\* (Links are never 0 here, so nothing is freed.)
Put(i) == [inode EXCEPT ![i].ref = @ - 1]
iput(c) ==
  /\ Running(c, "iput")
  /\ inode' = Put(loc[c].ip)
  /\ IF loc[c].next = 0 THEN Goto(c, "user") /\ loc' = [loc EXCEPT ![c] = Nowhere]
     ELSE /\ loc' = [loc EXCEPT ![c] = [@ EXCEPT !.ip = loc[c].next, !.next = 0, !.off = 0, !.inum = 0,
                                                 !.todo = Tail(@), !.done = Append(@, Head(loc[c].todo))]]
          /\ Goto(c, "ilock")
  /\ Rest /\ UNCHANGED <<currentInode, panicked>>

-----------------------------------------------------------------------------
(* fs.c: lookup *)

\* The root directory; its other entries do not matter.
RootListing == <<Entry(PROCINO, Word("proc"))>>
Read(i) == IF inode[i].type = "dir" THEN {RootListing} ELSE Listings(inode[i].inum)
NowCurrent(i) == IF inode[i].type = "dev" /\ command(inode[i].inum) = 19 THEN inode[i].inum ELSE currentInode

\* One turn of the loop of dirlookup: the end, the entry looked for, or another.
Turn(c, off, list) ==
  IF ~InListing(off, list) THEN Goto(c, "iunlock") /\ UNCHANGED loc
  ELSE LET de == list[(off % Len(list)) + 1] IN
       IF de.inum # 0 /\ de.name = Head(loc[c].todo)
       THEN Goto(c, "iget") /\ loc' = [loc EXCEPT ![c].inum = de.inum]
       ELSE UNCHANGED pc /\ loc' = [loc EXCEPT ![c].off = (off + 1) % OFFS]

\* namex, with ip locked: it may be no directory, or the lookup goes on.
namex(c) ==
  /\ Running(c, "locked") /\ loc[c].todo # <<>>
  /\ LET i == loc[c].ip IN
     \/ /\ ~IsDir(i) /\ Goto(c, "iunlock") /\ UNCHANGED <<inode, loc, currentInode, panicked>>
     \/ /\ IsDir(i) /\ \E list \in Read(i) : Turn(c, loc[c].off, list)
        /\ currentInode' = NowCurrent(i) /\ UNCHANGED <<inode, panicked>>
     \/ inode[i].type = "dev" /\ MayFault(inode[i].inum) /\ Panic /\ UNCHANGED currentInode
  /\ Rest

-----------------------------------------------------------------------------
(* sysfile.c: calls *)

Calling(c) == /\ pc[c] = "user" /\ panicked = 0 /\ calls < MaxCalls /\ calls' = calls + 1
              /\ UNCHANGED <<processes, currentInode, panicked>>

\* open and chdir begin with namei; the root is always in the cache.
namei(c, op) ==
  /\ Calling(c)
  /\ \E walk \in {x \in Walks : x.op = op} :
       LET i == IF walk.abs = 1 THEN Min(Cached(ROOTINO)) ELSE cwd[c] IN
       /\ inode' = [inode EXCEPT ![i].ref = @ + 1]
       /\ loc' = [loc EXCEPT ![c] = [Nowhere EXCEPT !.op = op, !.ip = i, !.todo = walk.names]]
  /\ Goto(c, "ilock") /\ UNCHANGED held
sys_open(c) == file[c].ip = 0 /\ namei(c, "open")
sys_chdir(c) == namei(c, "chdir")
\* Whoever reads stops at the end of the file.
sys_read(c) ==
  /\ file[c].ip # 0 /\ file[c].eof = 0 /\ pc[c] = "user" /\ panicked = 0
  /\ loc' = [loc EXCEPT ![c] = [Nowhere EXCEPT !.op = "read", !.ip = file[c].ip]]
  /\ Goto(c, "ilock") /\ UNCHANGED <<processes, inode, currentInode, held, calls, panicked>>
sys_close(c) ==
  /\ file[c].ip # 0 /\ pc[c] = "user" /\ panicked = 0
  /\ file' = [file EXCEPT ![c] = NoFile] /\ ofile' = [ofile EXCEPT ![c] = {0}]
  /\ inode' = Put(file[c].ip)
  /\ UNCHANGED <<table, nextpid, forks, currentInode, cwd, shown, pc, loc, calls, panicked>>

\* The end of the calls, with ip locked; what they do with it is their own.
Ends(c, op) == Running(c, "locked") /\ loc[c].todo = <<>> /\ loc[c].op = op
Open(c) ==
  /\ Ends(c, "open") /\ Goto(c, "release")
  /\ file' = [file EXCEPT ![c] = [NoFile EXCEPT !.ip = loc[c].ip, !.path = loc[c].done]]
  /\ shown' = [shown EXCEPT ![c] = Nothing]
  /\ ofile' = [ofile EXCEPT ![c] = {0, 1}]
  /\ UNCHANGED <<table, nextpid, forks, inode, currentInode, cwd, loc, calls, panicked>>
\* fileread: a listing gives its entries one by one, a text is read at once.
Size(i, list) == IF About(inode[i].inum) = Nothing THEN Len(list) ELSE 1
ReadOn(f, size) == IF f.off < size THEN [f EXCEPT !.off = @ + 1] ELSE [f EXCEPT !.eof = 1]
FileRead(c) ==
  /\ Ends(c, "read")
  /\ LET i == loc[c].ip IN
     \/ /\ shown' = [shown EXCEPT ![c] = About(inode[i].inum)]
        /\ \E list \in Read(i) : file' = [file EXCEPT ![c] = ReadOn(@, Size(i, list))]
        /\ currentInode' = NowCurrent(i)
        /\ Goto(c, "release") /\ UNCHANGED <<inode, loc, panicked>>
     \/ MayFault(inode[i].inum) /\ Panic /\ UNCHANGED <<file, shown, currentInode>>
  /\ UNCHANGED <<processes, cwd, calls>>
Chdir(c) ==
  /\ Ends(c, "chdir") /\ Goto(c, IF IsDir(loc[c].ip) THEN "release" ELSE "iunlock")
  /\ UNCHANGED <<inode, loc, currentInode, panicked>> /\ Rest

\* iunlock(ip) without iput(ip).
Release(c) ==
  /\ Running(c, "release")
  /\ IF ~Unlockable(loc[c].ip) THEN Panic
     ELSE /\ inode' = [inode EXCEPT ![loc[c].ip].busy = 0] /\ UNCHANGED panicked
          /\ IF loc[c].op = "chdir" THEN Goto(c, "iputcwd") /\ UNCHANGED loc
             ELSE Goto(c, "user") /\ loc' = [loc EXCEPT ![c] = Nowhere]
  /\ Rest /\ UNCHANGED currentInode
ChdirPut(c) ==
  /\ Running(c, "iputcwd") /\ inode' = Put(cwd[c])
  /\ cwd' = [cwd EXCEPT ![c] = loc[c].ip]
  /\ Goto(c, "user") /\ loc' = [loc EXCEPT ![c] = Nowhere]
  /\ UNCHANGED <<processes, currentInode, file, shown, calls, panicked>>

Walk(c) == iget(c) \/ iread(c) \/ ilock(c) \/ bread(c) \/ iunlock(c) \/ iput(c)
           \/ namex(c)
End(c) == Open(c) \/ FileRead(c) \/ Chdir(c) \/ Release(c) \/ ChdirPut(c)
Call(c) == sys_open(c) \/ sys_chdir(c) \/ sys_read(c) \/ sys_close(c)

Next == \/ \E c \in Caller : Walk(c) \/ End(c) \/ Call(c)
        \/ fork \/ \E s \in Slot : exit(s) \/ wait(s)

\* A process in a system call is scheduled; the others need do nothing.
Spec == Init /\ [][Next]_vars /\ \A c \in Caller : WF_vars(Walk(c) \/ End(c))

-----------------------------------------------------------------------------
(* Properties *)

\* The pointers of c's call: to the inode it is at, unless that is its open file,
\* and to the one it has found.
Locals(c) == (IF loc[c].op = "chdir" \/ (loc[c].op = "open" /\ pc[c] # "release") THEN <<loc[c].ip>> ELSE <<>>)
             \o (IF loc[c].next # 0 THEN <<loc[c].next>> ELSE <<>>)
Pointers(c) == <<cwd[c], file[c].ip>> \o Locals(c)

\* "ip->ref tracks the number of in-memory pointers to the entry": procfsiread,
\* which writes ref without icache.lock, may run only while nobody else has found
\* the inode.
RefsExact ==
  panicked = 0 =>
    \A i \in DOMAIN inode :
      inode[i].ref = (IF i = 1 THEN 1 ELSE 0)     \* of init
                     + Cardinality({<<c, k>> \in Caller \X (1 .. 4) :
                                      k <= Len(Pointers(c)) /\ Pointers(c)[k] = i})

\* The number, the kind and the contents that a path stands for.
Number(path) ==
  CASE path = <<>> -> ROOTINO
    [] Len(path) = 1 -> PROCINO
    [] Len(path) = 2 -> (IF path[2][1] = "pid" THEN 700 * path[2][2]
                         ELSE IF path[2][1] = "blockstat" THEN 660 ELSE 670)
    [] Len(path) = 3 -> 700 * path[2][2] + (IF path[3][1] = "status" THEN 10 ELSE 20)
    [] Len(path) = 4 -> 700 * path[2][2] + 21 + path[4][2]
Directory(path) == path = <<>> \/ Last(path)[1] \in {"proc", "pid", "fdinfo"}
Text(path) ==
  CASE Directory(path) -> Nothing
    [] Len(path) = 4 -> <<"file", path[2][2], IF path[4][2] = NOFILE - 1 THEN -1 ELSE path[4][2]>>
    [] Len(path) = 3 -> <<"status", path[2][2], 0>>
    [] OTHER -> <<path[2][1], 0, 0>>

\* A path leads to the inode it names, and a read of it decodes the number of the
\* process and of the descriptor that are in the path, however the listings that
\* dirlookup goes through change under it and cache entries are reused.  (The
\* last descriptor, NOFILE - 1, decodes to -1.)
PathReached ==
  \A c \in Caller : file[c].ip # 0 =>
     LET i == file[c].ip
         path == file[c].path IN
     /\ inode[i].inum = Number(path) /\ inode[i].valid = 1
     /\ IsDir(i) <=> Directory(path)
     /\ shown[c] \in {Nothing, Text(path)}

\* Every call returns: the loop of dirlookup over a device directory, which has
\* no size, ends although the listing changes between its turns, and callers
\* that lock directories on their way down never wait for each other in a circle.
LookupEnds == \A c \in Caller : []<>(pc[c] = "user" \/ panicked = 1)

=============================================================================
