-------------------------------- MODULE Tree --------------------------------
(***************************************************************************)
(* The inode cache (fs.c) and the system calls that change the directory   *)
(* tree (sysfile.c).                                                       *)
(*                                                                         *)
(* todo[p] is what is left of the system call of process p: a sequence of  *)
(* operations, each of which is one step.  A step ends wherever the code   *)
(* releases icache.lock or a buffer that another process may be after;     *)
(* what is done under an inode's I_BUSY is one step.  A local pointer to   *)
(* an inode (cur in namex, dp, ip) is 0 when it owns no reference.         *)
(*                                                                         *)
(* Blocks come from the log and the buffer cache (Log, Bcache), so dinode  *)
(* and ents are what bread returns.  File contents, device inodes and the  *)
(* limit NINODE on cached inodes are left out.                             *)
(***************************************************************************)
EXTENDS Integers, FiniteSets, SequencesExt

CONSTANTS Proc,
          NINODES,     \* inodes of the disk, numbered from 1
          FileName,    \* names in directories other than "." and ".."
          Image,       \* the disk at boot: name -> inum of root's subdirectories
          Calls,       \* the system calls made: [op, path, new] records
          MaxCalls     \* bound on the number of calls

Inum == 1 .. NINODES
ROOTINO == 1
Name == FileName \union {".", ".."}

ASSUME TreeAssumption ==
  /\ IsFiniteSet(Proc) /\ NINODES \in Nat \ {0} /\ MaxCalls \in Nat
  /\ Image \in [FileName -> {0} \union 2 .. NINODES]
  /\ \A m, n \in FileName : Image[m] = Image[n] /\ m # n => Image[m] = 0
  /\ \A c \in Calls : c.op \in {"open", "creat", "mkdir", "unlink", "link", "chdir", "close"}

VARIABLES dinode,      \* on the disk: type (0: free) and nlink
          ents,        \* directory contents: name -> inum, 0 if absent
          inode,       \* icache: ref, busy (I_BUSY), valid (I_VALID), type, nlink
          cwd, open,   \* proc->cwd; the inode of the process's open file, 0 if none
          todo,        \* the rest of the system call
          call,        \* its arguments
          cur, dp, ip, \* local pointers
          panicked,    \* 1 after a panic
          calls        \* system calls made so far

disk == <<dinode, ents>>
locals == <<cur, dp, ip>>
ends == <<cwd, open, calls>>
vars == <<disk, inode, ends, todo, call, locals, panicked>>

NoEntries == [n \in Name |-> 0]
NoCall == [op |-> "none", path |-> <<>>, new |-> <<>>]

\* The image that mkfs made, with the directories that earlier calls left in
\* it; every process starts in the root.
SubDir == Range(Image) \ {0}
Init ==
  /\ dinode = [i \in Inum |->
                 IF i = ROOTINO THEN [type |-> "dir", nlink |-> 1 + Cardinality(SubDir)]
                 ELSE IF i \in SubDir THEN [type |-> "dir", nlink |-> 1]
                 ELSE [type |-> "free", nlink |-> 0]]
  /\ ents = [i \in Inum |->
               [n \in Name |-> IF i \notin SubDir \union {ROOTINO} THEN 0
                               ELSE IF n = "." THEN i
                               ELSE IF n = ".." THEN ROOTINO
                               ELSE IF i = ROOTINO THEN Image[n] ELSE 0]]
  /\ inode = [i \in Inum |-> [ref |-> IF i = ROOTINO THEN Cardinality(Proc) ELSE 0,
                              busy |-> 0, valid |-> 0, type |-> "free", nlink |-> 0]]
  /\ cwd = [p \in Proc |-> ROOTINO] /\ open = [p \in Proc |-> 0]
  /\ todo = [p \in Proc |-> <<>>] /\ call = [p \in Proc |-> NoCall]
  /\ cur = [p \in Proc |-> 0] /\ dp = [p \in Proc |-> 0] /\ ip = [p \in Proc |-> 0]
  /\ panicked = 0 /\ calls = 0

-----------------------------------------------------------------------------
(* Operations *)

Op(name, i, path) == [do |-> name, i |-> i, path |-> path]
Ilock(i) == Op("ilock", i, <<>>)
Iunlock(i) == Op("iunlock", i, <<>>)
Iput(i) == Op("iput", i, <<>>)
Then(name) == <<Op(name, 0, <<>>)>>

\* Fault variant: the lock is not released.
iunlockput_Locked(i) == <<Iput(i)>>
iunlockput(i) == <<Iunlock(i), Iput(i)>>

At(p, name) == panicked = 0 /\ todo[p] # <<>> /\ Head(todo[p]).do = name
Arg(p) == Head(todo[p]).i
Rest(p) == Tail(todo[p])
\* The call goes on with ops, or returns.
Continue(p, ops) ==
  /\ todo' = [todo EXCEPT ![p] = ops]
  /\ call' = IF ops = <<>> THEN [call EXCEPT ![p] = NoCall] ELSE call

Set(ptr, p, i) == [ptr EXCEPT ![p] = i]

panic == panicked' = 1 /\ UNCHANGED <<disk, inode, ends, todo, call, locals>>

\* Fault variant: the reference is not counted when the inode is cached.
iget_Uncounted(i) == IF inode[i].ref > 0 THEN inode
                     ELSE [inode EXCEPT ![i].ref = 1, ![i].busy = 0, ![i].valid = 0]
\* A cached inode gains a reference; otherwise an entry with no flags is made.
iget(i) == IF inode[i].ref > 0 THEN [inode EXCEPT ![i].ref = @ + 1]
           ELSE [inode EXCEPT ![i].ref = 1, ![i].busy = 0, ![i].valid = 0]

\* Copy a modified in-memory inode to the disk.
iupdate(d, ino, i) == [d EXCEPT ![i] = [type |-> ino[i].type, nlink |-> ino[i].nlink]]

\* ip->nlink += k; iupdate(ip).
Relink(i, k) ==
  /\ inode' = [inode EXCEPT ![i].nlink = @ + k]
  /\ dinode' = iupdate(dinode, inode', i)

-----------------------------------------------------------------------------
(* The inode cache *)

\* ilock's "if(!(ip->flags & I_VALID))".
Loaded(i) == IF inode[i].valid = 1 THEN inode[i]
             ELSE [inode[i] EXCEPT !.valid = 1, !.type = dinode[i].type,
                                   !.nlink = dinode[i].nlink]

\* Sleeps while I_BUSY is set; sleep and wakeup are those of Sched.
ilock(p) ==
  /\ At(p, "ilock")
  /\ LET i == Arg(p) IN
     /\ inode[i].ref < 1 \/ inode[i].busy = 0
     /\ IF inode[i].ref < 1 \/ (inode[i].valid = 0 /\ dinode[i].type = "free") THEN panic
        ELSE /\ inode' = [inode EXCEPT ![i] = [Loaded(i) EXCEPT !.busy = 1]]
             /\ Continue(p, Rest(p))
             /\ UNCHANGED <<disk, ends, locals, panicked>>

iunlock(p) ==
  /\ At(p, "iunlock")
  /\ IF inode[Arg(p)].busy = 0 \/ inode[Arg(p)].ref < 1 THEN panic
     ELSE /\ inode' = [inode EXCEPT ![Arg(p)].busy = 0]
          /\ Continue(p, Rest(p))
          /\ UNCHANGED <<disk, ends, locals, panicked>>

\* Fault variant: an unlinked inode is not freed.
LastUse_Never(i) == FALSE
LastUse(i) == inode[i].ref = 1 /\ inode[i].valid = 1 /\ inode[i].nlink = 0

\* iput: the last reference to an unlinked inode locks it to free it.
iput(p) ==
  /\ At(p, "iput")
  /\ LET i == Arg(p) IN
     IF ~LastUse(i)
     THEN /\ inode' = [inode EXCEPT ![i].ref = @ - 1]
          /\ Continue(p, Rest(p))
          /\ UNCHANGED <<disk, ends, locals, panicked>>
     ELSE IF inode[i].busy = 1 THEN panic
     ELSE /\ inode' = [inode EXCEPT ![i].busy = 1]
          /\ Continue(p, <<Op("itrunc", i, <<>>)>> \o Rest(p))
          /\ UNCHANGED <<disk, ends, locals, panicked>>

\* itrunc(ip); ip->type = 0; iupdate(ip): icache.lock is not held.
itrunc(p) ==
  /\ At(p, "itrunc")
  /\ inode' = [inode EXCEPT ![Arg(p)].type = "free"]
  /\ dinode' = iupdate(dinode, inode', Arg(p))
  /\ ents' = [ents EXCEPT ![Arg(p)] = NoEntries]
  /\ Continue(p, <<Op("freed", Arg(p), <<>>)>> \o Rest(p))
  /\ UNCHANGED <<ends, locals, panicked>>

\* Fault variant: the flags are left as they are but for I_BUSY.
FlagsCleared_ButValid(i) == [inode[i] EXCEPT !.busy = 0]
FlagsCleared(i) == [inode[i] EXCEPT !.busy = 0, !.valid = 0]

\* The end of iput: ip->flags = 0; ip->ref--.
IputFreed(p) ==
  /\ At(p, "freed")
  /\ LET i == Arg(p) IN
     inode' = [inode EXCEPT ![i] = [FlagsCleared(i) EXCEPT !.ref = @ - 1]]
  /\ Continue(p, Rest(p))
  /\ UNCHANGED <<disk, ends, locals, panicked>>

\* ialloc looks at one inode after the other; each is tested and marked while
\* its buffer is held.
ialloc(p) ==
  /\ At(p, "ialloc")
  /\ LET i == Arg(p)
         type == IF call[p].op = "mkdir" THEN "dir" ELSE "file" IN
     IF i > NINODES THEN panic
     ELSE IF dinode[i].type # "free"
     THEN /\ Continue(p, <<Op("ialloc", i + 1, <<>>)>>)
          /\ UNCHANGED <<disk, inode, ends, locals, panicked>>
     ELSE /\ dinode' = [dinode EXCEPT ![i] = [type |-> type, nlink |-> 0]]
          /\ ents' = [ents EXCEPT ![i] = NoEntries]
          /\ Continue(p, <<Op("ialloc_iget", i, <<>>)>>)
          /\ UNCHANGED <<inode, ends, locals, panicked>>

\* return iget(dev, inum), and the caller's ilock.
IallocIget(p) ==
  /\ At(p, "ialloc_iget")
  /\ inode' = iget(Arg(p))
  /\ ip' = Set(ip, p, Arg(p))
  /\ Continue(p, <<Ilock(Arg(p))>> \o Then("create2"))
  /\ UNCHANGED <<disk, ends, cur, dp, panicked>>

-----------------------------------------------------------------------------
(* Path names *)

\* Where sys_link goes when the parent of the new name is not found; the
\* other calls return.
NotFound(p) == IF call[p].op = "link" /\ ip[p] # 0
               THEN <<Ilock(ip[p])>> \o Then("bad") ELSE <<>>

IsParent(p) == Head(todo[p]).do = "nameiparent"
Path(p) == Head(todo[p]).path
AtNamex(p) == At(p, "namei") \/ At(p, "nameiparent")
Again(p, path) == <<[Head(todo[p]) EXCEPT !.path = path]>>

\* The start of namex: a reference to the root or to the current directory.
NamexStart(p) ==
  /\ AtNamex(p) /\ cur[p] = 0
  /\ LET abs == Path(p) # <<>> /\ Head(Path(p)) = "/"
         i == IF abs THEN ROOTINO ELSE cwd[p]
         path == IF abs THEN Tail(Path(p)) ELSE Path(p) IN
     /\ inode' = iget(i)
     /\ cur' = Set(cur, p, IF path = <<>> THEN 0 ELSE i)
     /\ ip' = IF path = <<>> /\ ~IsParent(p) THEN Set(ip, p, i) ELSE ip
     /\ Continue(p, IF path = <<>> /\ IsParent(p) THEN <<Iput(i)>> \o NotFound(p)
                    ELSE <<Ilock(i)>> \o (IF path = <<>> THEN <<>> ELSE Again(p, path))
                         \o Rest(p))
  /\ UNCHANGED <<disk, ends, dp, panicked>>

\* The parent is found: namex unlocks it and the caller locks it again.
NamexParent(p) ==
  /\ AtNamex(p) /\ cur[p] # 0
  /\ inode[cur[p]].type = "dir" /\ IsParent(p) /\ Len(Path(p)) = 1
  /\ dp' = Set(dp, p, cur[p]) /\ cur' = Set(cur, p, 0)
  /\ Continue(p, <<Iunlock(cur[p]), Ilock(cur[p])>> \o Rest(p))
  /\ UNCHANGED <<disk, inode, ends, ip, panicked>>

\* One element of the path; the last one is what namei returns, for the
\* caller to lock.
NamexElement(p) ==
  /\ AtNamex(p) /\ cur[p] # 0
  /\ inode[cur[p]].type = "dir" /\ ~(IsParent(p) /\ Len(Path(p)) = 1)
  /\ LET next == ents[cur[p]][Head(Path(p))]
         last == Len(Path(p)) = 1 IN
     /\ next # 0
     /\ inode' = iget(next)
     /\ cur' = Set(cur, p, IF last THEN 0 ELSE next)
     /\ ip' = IF last THEN Set(ip, p, next) ELSE ip
     /\ Continue(p, iunlockput(cur[p]) \o <<Ilock(next)>>
                    \o (IF last THEN <<>> ELSE Again(p, Tail(Path(p)))) \o Rest(p))
  /\ UNCHANGED <<disk, ends, dp, panicked>>

\* Not a directory, or no such entry.
NamexFail(p) ==
  /\ AtNamex(p) /\ cur[p] # 0
  /\ \/ inode[cur[p]].type # "dir"
     \/ ~(IsParent(p) /\ Len(Path(p)) = 1) /\ ents[cur[p]][Head(Path(p))] = 0
  /\ cur' = Set(cur, p, 0)
  /\ Continue(p, iunlockput(cur[p]) \o NotFound(p))
  /\ UNCHANGED <<disk, inode, ends, dp, ip, panicked>>

-----------------------------------------------------------------------------
(* System calls; each step starts with the inodes it works on locked *)

Body(c) ==
  CASE c.op \in {"open", "chdir"} -> <<Op("namei", 0, c.path)>> \o Then(c.op)
    [] c.op = "link" -> <<Op("namei", 0, c.path)>> \o Then("link1")
    [] c.op = "unlink" -> <<Op("nameiparent", 0, c.path)>> \o Then("unlink1")
    [] c.op \in {"creat", "mkdir"} -> <<Op("nameiparent", 0, c.path)>> \o Then("create1")

\* The last element of the path that nameiparent resolved.
name(p) == Last(IF call[p].op = "link" THEN call[p].new ELSE call[p].path)

SysCall(p, c) ==
  /\ panicked = 0 /\ todo[p] = <<>> /\ calls < MaxCalls /\ c.op # "close"
  /\ call' = [call EXCEPT ![p] = c] /\ calls' = calls + 1
  /\ todo' = [todo EXCEPT ![p] = Body(c)]
  /\ UNCHANGED <<disk, inode, cwd, open, locals, panicked>>

\* sys_close and fileclose of the last reference to the file.
sys_close(p) ==
  /\ panicked = 0 /\ todo[p] = <<>> /\ calls < MaxCalls /\ open[p] # 0
  /\ calls' = calls + 1
  /\ open' = Set(open, p, 0)
  /\ Continue(p, <<Iput(open[p])>>)
  /\ UNCHANGED <<disk, inode, cwd, locals, panicked>>

\* The end of a call that gives up ip, which it has locked.
PutIp(p) ==
  /\ ip' = Set(ip, p, 0)
  /\ Continue(p, iunlockput(ip[p]))

\* sys_open from filealloc on: a process has room for one open file.
OpenFile(p) ==
  /\ IF open[p] # 0 THEN PutIp(p) /\ UNCHANGED open
     ELSE /\ open' = Set(open, p, ip[p]) /\ ip' = Set(ip, p, 0)
          /\ Continue(p, <<Iunlock(ip[p])>>)
  /\ UNCHANGED <<disk, inode, cwd, calls, cur, dp, panicked>>

\* sys_open without O_CREATE.  A directory may only be opened for reading;
\* the files of this model are opened for writing.
sys_open(p) ==
  /\ At(p, "open")
  /\ IF inode[ip[p]].type = "dir"
     THEN PutIp(p) /\ UNCHANGED <<disk, inode, ends, cur, dp, panicked>>
     ELSE OpenFile(p)

sys_chdir(p) ==
  /\ At(p, "chdir")
  /\ IF inode[ip[p]].type # "dir" THEN PutIp(p) /\ UNCHANGED cwd
     ELSE /\ cwd' = Set(cwd, p, ip[p]) /\ ip' = Set(ip, p, 0)
          /\ Continue(p, <<Iunlock(ip[p]), Iput(cwd[p])>>)
  /\ UNCHANGED <<disk, inode, open, calls, cur, dp, panicked>>

\* sys_link up to the search for the parent of the new name.
Link1(p) ==
  /\ At(p, "link1")
  /\ IF inode[ip[p]].type = "dir"
     THEN PutIp(p) /\ UNCHANGED <<inode, dinode>>
     ELSE /\ Relink(ip[p], 1)
          /\ Continue(p, <<Iunlock(ip[p]), Op("nameiparent", 0, call[p].new)>> \o Then("link2"))
          /\ UNCHANGED ip
  /\ UNCHANGED <<ents, ends, cur, dp, panicked>>

\* dirlink: an error if the name is present.
Link2(p) ==
  /\ At(p, "link2")
  /\ LET other == ents[dp[p]][name(p)] IN
     IF other # 0
     THEN /\ inode' = iget(other)
          /\ Continue(p, <<Iput(other)>> \o iunlockput(dp[p])
                         \o <<Ilock(ip[p])>> \o Then("bad"))
          /\ UNCHANGED <<ents, ip>>
     ELSE /\ ents' = [ents EXCEPT ![dp[p]][name(p)] = ip[p]]
          /\ ip' = Set(ip, p, 0)
          /\ Continue(p, iunlockput(dp[p]) \o <<Iput(ip[p])>>)
          /\ UNCHANGED inode
  /\ dp' = Set(dp, p, 0)
  /\ UNCHANGED <<dinode, ends, cur, panicked>>

LinkBad(p) ==
  /\ At(p, "bad")
  /\ Relink(ip[p], -1)
  /\ PutIp(p)
  /\ UNCHANGED <<ents, ends, cur, dp, panicked>>

isdirempty(i) == \A n \in FileName : ents[i][n] = 0

\* sys_unlink up to the lock of the inode that is named.
Unlink1(p) ==
  /\ At(p, "unlink1")
  /\ LET i == IF name(p) \in {".", ".."} THEN 0 ELSE ents[dp[p]][name(p)] IN
     IF i = 0
     THEN /\ dp' = Set(dp, p, 0)
          /\ Continue(p, iunlockput(dp[p]))
          /\ UNCHANGED <<inode, ip>>
     ELSE /\ inode' = iget(i)
          /\ ip' = Set(ip, p, i)
          /\ Continue(p, <<Ilock(i)>> \o Then("unlink2"))
          /\ UNCHANGED dp
  /\ UNCHANGED <<disk, ends, cur, panicked>>

\* The entry goes, and for a directory the link of its "..".
Unlink2(p) ==
  /\ At(p, "unlink2")
  /\ LET i == ip[p]
         isdir == inode[i].type = "dir" IN
     IF inode[i].nlink < 1 THEN panic
     ELSE /\ dp' = Set(dp, p, 0)
          /\ \/ /\ isdir /\ ~isdirempty(i)
                /\ ip' = Set(ip, p, 0)
                /\ Continue(p, iunlockput(i) \o iunlockput(dp[p]))
                /\ UNCHANGED <<disk, inode>>
             \/ /\ ~isdir \/ isdirempty(i)
                /\ ents' = [ents EXCEPT ![dp[p]][name(p)] = 0]
                /\ Relink(dp[p], IF isdir THEN -1 ELSE 0)
                /\ Continue(p, iunlockput(dp[p]) \o Then("unlink3"))
                /\ UNCHANGED ip
          /\ UNCHANGED <<ends, cur, panicked>>

Unlink3(p) ==
  /\ At(p, "unlink3")
  /\ Relink(ip[p], -1)
  /\ PutIp(p)
  /\ UNCHANGED <<ents, ends, cur, dp, panicked>>

\* create up to the allocation of the inode.
Create1(p) ==
  /\ At(p, "create1")
  /\ LET i == ents[dp[p]][name(p)] IN
     IF i # 0
     THEN /\ inode' = iget(i)
          /\ ip' = Set(ip, p, i) /\ dp' = Set(dp, p, 0)
          /\ Continue(p, iunlockput(dp[p]) \o <<Ilock(i)>> \o Then("exists"))
     ELSE /\ Continue(p, <<Op("ialloc", 1, <<>>)>>)
          /\ UNCHANGED <<inode, ip, dp>>
  /\ UNCHANGED <<disk, ends, cur, panicked>>

\* The name exists: good for open with O_CREATE of a file only.
CreateExists(p) ==
  /\ At(p, "exists")
  /\ IF call[p].op = "creat" /\ inode[ip[p]].type = "file"
     THEN OpenFile(p)
     ELSE PutIp(p) /\ UNCHANGED <<disk, inode, ends, cur, dp, panicked>>

\* Fault variant: no link is counted for "..".
DotDotLinks_None(c) == 0
DotDotLinks(c) == IF c.op = "mkdir" THEN 1 ELSE 0

\* The new inode is linked into its parent, a directory with its two entries.
Create2(p) ==
  /\ At(p, "create2")
  /\ LET i == ip[p]
         d == dp[p]
         dots == IF call[p].op = "mkdir" THEN [ents[i] EXCEPT !["."] = i, ![".."] = d]
                 ELSE ents[i] IN
     /\ inode' = [inode EXCEPT ![i].nlink = 1, ![d].nlink = @ + DotDotLinks(call[p])]
     /\ dinode' = iupdate(iupdate(dinode, inode', i), inode', d)
     /\ ents' = [ents EXCEPT ![i] = dots, ![d][name(p)] = i]
     /\ dp' = Set(dp, p, 0)
     /\ IF call[p].op = "creat"
        THEN Continue(p, iunlockput(d) \o Then("created")) /\ UNCHANGED ip
        ELSE Continue(p, iunlockput(d) \o iunlockput(i)) /\ ip' = Set(ip, p, 0)
  /\ UNCHANGED <<ends, cur, panicked>>

Created(p) == At(p, "created") /\ OpenFile(p)

-----------------------------------------------------------------------------
Cache(p) == ilock(p) \/ iunlock(p) \/ iput(p) \/ itrunc(p) \/ IputFreed(p)
Namex(p) == NamexStart(p) \/ NamexParent(p) \/ NamexElement(p) \/ NamexFail(p)
create(p) == Create1(p) \/ CreateExists(p) \/ ialloc(p) \/ IallocIget(p) \/ Create2(p) \/ Created(p)
sys_link(p) == Link1(p) \/ Link2(p) \/ LinkBad(p)
sys_unlink(p) == Unlink1(p) \/ Unlink2(p) \/ Unlink3(p)
Step(p) == \/ Cache(p) \/ Namex(p)
           \/ create(p) \/ sys_open(p) \/ sys_chdir(p) \/ sys_link(p) \/ sys_unlink(p)

Idle == \A p \in Proc : todo[p] = <<>>

Next == \E p \in Proc : Step(p) \/ sys_close(p) \/ \E c \in Calls : SysCall(p, c)

Spec == Init /\ [][Next]_vars
\* A process inside a system call is scheduled.
FairSpec == Spec /\ \A p \in Proc : WF_vars(Step(p))

-----------------------------------------------------------------------------
(* Properties *)

\* The pointers of process p to inode i: its directory, its file, its locals,
\* and those it is about to give back.
Pointers(p, i) ==
  Cardinality({ptr \in {<<"cwd", cwd[p]>>, <<"open", open[p]>>, <<"cur", cur[p]>>,
                        <<"dp", dp[p]>>, <<"ip", ip[p]>>} : ptr[2] = i})
  + Cardinality({k \in DOMAIN todo[p] : /\ todo[p][k].do \in {"iput", "itrunc", "freed"}
                                         /\ todo[p][k].i = i})

\* "ip->ref tracks the number of in-memory pointers to the entry" (fs.c:128):
\* on no path through the calls, however they race, is one lost or put twice.
RefsExact ==
  \A i \in Inum : inode[i].ref = FoldSet(LAMBDA p, n : n + Pointers(p, i), 0, Proc)

\* A directory that its parent still names; its ".." is a link to the parent.
Attached(d) == \E n \in FileName : ents[d][".."] # 0 /\ ents[ents[d][".."]][n] = d
Links(i) == {e \in Inum \X FileName : ents[e[1]][e[2]] = i}
            \union {e \in Inum \X {".."} : ents[e[1]][".."] = i
                                           /\ (e[1] = ROOTINO \/ Attached(e[1]))}

\* nlink covers the entries that name an inode, at every step of every call, so
\* that no inode is freed while a directory still leads to it.
LinksCovered ==
  \A i \in Inum : /\ Cardinality(Links(i)) <= dinode[i].nlink
                  /\ Links(i) # {} => dinode[i].type # "free"

\* "iput() frees if the link count has fallen to zero" (fs.c:122): an inode
\* without links stays allocated only while somebody has it.
UnlinkedFreed ==
  \A i \in Inum :
    dinode[i].type # "free" /\ dinode[i].nlink = 0 =>
      \/ inode[i].ref > 0
      \/ \E p \in Proc : todo[p] # <<>> /\ Head(todo[p]) = Op("ialloc_iget", i, <<>>)

\* A valid cached inode that nobody has locked agrees with the disk: it was
\* loaded after the inode was last allocated (fs.c:282, 336).
CacheCurrent ==
  \A i \in Inum : inode[i].ref > 0 /\ inode[i].valid = 1 /\ inode[i].busy = 0 =>
    inode[i].type = dinode[i].type /\ inode[i].nlink = dinode[i].nlink

\* All calls return: they do not deadlock on inode locks (unlink and create hold
\* two of them), and none panics ("ilock: no type", "iput busy"...).
CallsReturn == []<>(Idle /\ panicked = 0)

\* An inode is truncated and freed only when it "has no links to it (no
\* directory entries referring to it)" (fs.c:390).
FreedUnnamed ==
  \A d \in Inum, n \in Name : ents[d][n] # 0 => dinode[ents[d][n]].type # "free"
=============================================================================
