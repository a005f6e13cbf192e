--------------------------------- MODULE Vm ---------------------------------
(***************************************************************************)
(* Physical pages (kalloc.c), page tables (vm.c), and the calls that make, *)
(* copy, grow and replace an address space: fork, wait, growproc (proc.c)  *)
(* and exec (exec.c).                                                      *)
(*                                                                         *)
(* pc[p] says where process p is in its call, loc[p] holds the locals.     *)
(* Each turn of a loop that calls kalloc is a step, so that calls of other *)
(* processes come in between and memory can run out at any turn.  The      *)
(* kernel part of a page table is KPD tables whose entries are not kept;   *)
(* the contents of user pages are left out.                                *)
(***************************************************************************)
EXTENDS Integers, FiniteSets

CONSTANTS NPROC,
          NPAGE,       \* physical pages, numbered from 1
          Lasts,       \* the last page of a machine: NPAGE or less
          PGSIZE,
          NPTENTRIES,  \* entries of a page table
          UPD, KPD,    \* directory entries below and above KERNBASE
          UINT,        \* range of an address (2^32)
          Images,      \* sizes of the programs that exec loads
          Grows,       \* arguments of sbrk
          MaxCalls     \* bound on the calls of fork, exec and sbrk

Proc == 1 .. NPROC
Page == 1 .. NPAGE
KERNBASE == UPD * NPTENTRIES * PGSIZE

ASSUME VmAssumption ==
  /\ {NPROC, NPAGE, PGSIZE, NPTENTRIES, UPD, KPD} \subseteq Nat \ {0}
  /\ Lasts \subseteq 1 .. NPAGE /\ UINT > KERNBASE + PGSIZE
  /\ Images \subseteq Nat \ {0} /\ Grows \subseteq Int /\ MaxCalls \in Nat

VARIABLES last,        \* the last page of this machine (PHYSTOP)
          free,        \* kmem.freelist, as a set
          pd,          \* page directories: index -> page table, or 0
          pt,          \* page tables: index -> page, or 0
          state, pgdir, sz, kstack,
          cr3,         \* the directory loaded where p runs; 0: kpgdir
          pc, loc,
          oom,         \* 1 once kalloc has returned 0
          panicked,
          calls        \* calls made so far

memory == <<free, pd, pt>>
ptable == <<state, pgdir, sz, kstack>>
vars == <<last, memory, ptable, cr3, pc, loc, oom, panicked, calls>>

NoDir == [i \in 0 .. UPD + KPD - 1 |-> 0]
NoTable == [j \in 0 .. NPTENTRIES - 1 |-> 0]
NoLocals == [call |-> "none", c |-> 0, d |-> 0, a |-> 0, old |-> 0, new |-> 0]

PGROUNDUP(x) == ((x + PGSIZE - 1) \div PGSIZE) * PGSIZE
PDX(a) == (a \div PGSIZE) \div NPTENTRIES
PTX(a) == (a \div PGSIZE) % NPTENTRIES

\* walkpgdir: the page table for a, and the page mapped at a; 0 if there is none.
Table(d, a) == pd[d][PDX(a)]
Pte(d, a) == IF Table(d, a) = 0 THEN 0 ELSE pt[Table(d, a)][PTX(a)]

\* userinit: process 1 has one page; 1 is its kernel stack, 2 its directory, then
\* the kernel tables, its page table and its page.
First == 3 + KPD
Init ==
  /\ last \in Lasts /\ free = (First + 2) .. last
  /\ pd = [d \in Page |-> IF d # 2 THEN NoDir
                          ELSE [i \in DOMAIN NoDir |-> IF i = 0 THEN First
                                                       ELSE IF i >= UPD THEN 3 + i - UPD ELSE 0]]
  /\ pt = [t \in Page |-> IF t = First THEN [NoTable EXCEPT ![0] = First + 1] ELSE NoTable]
  /\ state = [p \in Proc |-> IF p = 1 THEN "run" ELSE "unused"]
  /\ pgdir = [p \in Proc |-> IF p = 1 THEN 2 ELSE 0]
  /\ sz = [p \in Proc |-> IF p = 1 THEN PGSIZE ELSE 0]
  /\ kstack = [p \in Proc |-> IF p = 1 THEN 1 ELSE 0]
  /\ cr3 = [p \in Proc |-> IF p = 1 THEN 2 ELSE 0]
  /\ pc = [p \in Proc |-> "user"] /\ loc = [p \in Proc |-> NoLocals]
  /\ oom = 0 /\ panicked = 0 /\ calls = 0

-----------------------------------------------------------------------------
(* kalloc.c, vm.c *)

At(p, where) == panicked = 0 /\ state[p] = "run" /\ cr3[p] # 0 /\ pc[p] = where
Goto(p, where, l) == pc' = [pc EXCEPT ![p] = where] /\ loc' = [loc EXCEPT ![p] = l]
Return(p) == Goto(p, "user", NoLocals)

panic == panicked' = 1 /\ UNCHANGED <<memory, ptable, cr3, pc, loc, oom>>
Fails == oom' = 1

\* Which free page is taken makes no difference.
Least(S) == CHOOSE x \in S : \A y \in S : x <= y
kalloc == Least(free)

\* The addresses that deallocuvm looks at: it skips what has no page table.
RECURSIVE Looked(_, _, _)
Looked(d, a, end) ==
  IF a >= end THEN {}
  ELSE IF Table(d, a) = 0 THEN Looked(d, a + NPTENTRIES * PGSIZE, end)
  ELSE {a} \union Looked(d, a + PGSIZE, end)
\* The addresses whose pages deallocuvm(d, oldsz, newsz) frees.
Dropped(d, oldsz, newsz) ==
  IF newsz >= oldsz THEN {}
  ELSE {a \in Looked(d, PGROUNDUP(newsz), oldsz) : Pte(d, a) # 0}

\* Fault variant: the entry of a freed page stays.
Cleared_Kept(d, A) == pt
\* *pte = 0.
Cleared(d, A) == [t \in Page |-> [j \in DOMAIN NoTable |->
                   IF \E a \in A : Table(d, a) = t /\ PTX(a) = j THEN 0 ELSE pt[t][j]]]

deallocuvm(d, oldsz, newsz) ==
  LET A == Dropped(d, oldsz, newsz) IN
  /\ free' = free \union {Pte(d, a) : a \in A}
  /\ pt' = Cleared(d, A)
  /\ UNCHANGED pd

Tables(d) == {pd[d][i] : i \in DOMAIN NoDir} \ {0}
\* The user pages, the tables (the kernel's too), the directory; more is
\* freed with them when a process is gone (also).
freevm(d, also) ==
  /\ free' = free \union {Pte(d, a) : a \in Dropped(d, KERNBASE, 0)} \union Tables(d)
                  \union {d} \union also
  /\ pd' = [pd EXCEPT ![d] = NoDir]
  /\ pt' = [t \in Page |-> IF t \in Tables(d) THEN NoTable ELSE pt[t]]

\* mappages of page g at a, with a page table if it needs one: Mappable says
\* whether there is a page for that table.
Mappable(d, a, g) == Table(d, a) # 0 \/ free # {g}
mappages(d, a, g) ==
  LET t == IF Table(d, a) # 0 THEN Table(d, a) ELSE Least(free \ {g}) IN
  /\ free' = free \ {g, t}
  /\ pd' = [pd EXCEPT ![d][PDX(a)] = t]
  /\ pt' = [pt EXCEPT ![t][PTX(a)] = g]
\* mappages fails: the page is taken and mapped nowhere.
PageLost(g) == free' = free \ {g} /\ UNCHANGED <<pd, pt>>

\* A directory and its kernel tables, one kalloc at a time (loc.a counts them).
\* When a page is missing, those that were taken are forgotten.
setupkvm(p) ==
  /\ At(p, "setupkvm")
  /\ LET l == loc[p] IN
     IF free = {}
     THEN /\ Fails
          /\ IF l.call = "fork" THEN Goto(p, "undo", l) ELSE Return(p)
          /\ UNCHANGED memory
     ELSE /\ free' = free \ {kalloc}
          /\ IF l.d = 0
             THEN Goto(p, "setupkvm", [l EXCEPT !.d = kalloc]) /\ UNCHANGED pd
             ELSE /\ pd' = [pd EXCEPT ![l.d][UPD + l.a] = kalloc]
                  /\ IF l.a + 1 < KPD THEN Goto(p, "setupkvm", [l EXCEPT !.a = @ + 1])
                     ELSE Goto(p, IF l.call = "fork" THEN "copyuvm" ELSE "allocuvm",
                               [l EXCEPT !.a = 0])
          /\ UNCHANGED <<pt, oom>>
  /\ UNCHANGED <<ptable, cr3, panicked>>

\* What the callers do after allocuvm: exec loads the segment, then makes the
\* stack (old # 0), then pushes the arguments; growproc takes the new size.
Allocated(l) == IF l.call = "sbrk" THEN "grown" ELSE IF l.old = 0 THEN "loaduvm" ELSE "args"
Failed(l) == IF l.call = "sbrk" THEN "user" ELSE "bad"
Dir(p) == IF loc[p].call = "sbrk" THEN pgdir[p] ELSE loc[p].d

\* Fault variant: the last page that was in use is allocated again.
FirstNew_Down(oldsz) == (oldsz \div PGSIZE) * PGSIZE
\* a = PGROUNDUP(oldsz).
FirstNew(oldsz) == PGROUNDUP(oldsz)

\* One turn of the loop; the result of mappages is ignored.
allocuvm(p) ==
  /\ At(p, "allocuvm")
  /\ LET l == loc[p]
         d == Dir(p)
         next == [l EXCEPT !.a = @ + PGSIZE] IN
     IF l.new >= KERNBASE
     THEN Goto(p, Failed(l), l) /\ UNCHANGED <<memory, oom, panicked>>
     ELSE IF l.new < l.old
     THEN Goto(p, Allocated(l), [l EXCEPT !.new = l.old]) /\ UNCHANGED <<memory, oom, panicked>>
     ELSE IF l.a >= l.new
     THEN Goto(p, Allocated(l), l) /\ UNCHANGED <<memory, oom, panicked>>
     ELSE IF free = {}
     THEN deallocuvm(d, l.new, l.old) /\ Fails /\ Goto(p, Failed(l), l) /\ UNCHANGED panicked
     ELSE IF ~Mappable(d, l.a, kalloc)
     THEN PageLost(kalloc) /\ Fails /\ Goto(p, "allocuvm", next) /\ UNCHANGED panicked
     ELSE IF Pte(d, l.a) # 0
     THEN panicked' = 1 /\ UNCHANGED <<memory, pc, loc, oom>>          \* remap
     ELSE mappages(d, l.a, kalloc) /\ Goto(p, "allocuvm", next) /\ UNCHANGED <<oom, panicked>>
  /\ UNCHANGED <<ptable, cr3>>

\* bad: of exec and of copyuvm.
bad(p) ==
  /\ At(p, "bad")
  /\ freevm(loc[p].d, {})
  /\ IF loc[p].call = "fork" THEN Goto(p, "undo", [loc[p] EXCEPT !.d = 0]) ELSE Return(p)
  /\ UNCHANGED <<ptable, cr3, oom, panicked>>

-----------------------------------------------------------------------------
(* growproc *)

sbrk(p, n) ==
  /\ At(p, "user") /\ p # 1
  /\ LET new == (sz[p] + n) % UINT
         l == [NoLocals EXCEPT !.call = "sbrk", !.a = FirstNew(sz[p]), !.old = sz[p], !.new = new] IN
     IF n > 0 THEN Goto(p, "allocuvm", l) /\ UNCHANGED memory
     ELSE /\ deallocuvm(pgdir[p], sz[p], new)
          /\ Goto(p, "grown", [l EXCEPT !.new = IF new >= sz[p] THEN sz[p] ELSE new])
  /\ UNCHANGED <<ptable, cr3, oom, panicked>>

\* A new size of 0 is taken for a failure; the process, without a page left,
\* then faults.
growproc(p) ==
  /\ At(p, "grown")
  /\ IF loc[p].new = 0 THEN Goto(p, "fault", NoLocals) /\ UNCHANGED <<sz, cr3>>
     ELSE /\ sz' = [sz EXCEPT ![p] = loc[p].new]
          /\ cr3' = [cr3 EXCEPT ![p] = pgdir[p]]
          /\ Return(p)
  /\ UNCHANGED <<memory, state, pgdir, kstack, oom, panicked>>

-----------------------------------------------------------------------------
(* fork, exit, wait *)

fork(p) ==
  /\ At(p, "user")
  /\ LET unused == {q \in Proc : state[q] = "unused"} IN
     /\ unused # {}
     /\ state' = [state EXCEPT ![Least(unused)] = "embryo"]
     /\ Goto(p, "allocproc", [NoLocals EXCEPT !.call = "fork", !.c = Least(unused)])
  /\ UNCHANGED <<memory, pgdir, sz, kstack, cr3, oom, panicked>>

\* The kernel stack of the child.
allocproc(p) ==
  /\ At(p, "allocproc")
  /\ LET c == loc[p].c IN
     IF free = {}
     THEN /\ Fails /\ state' = [state EXCEPT ![c] = "unused"]
          /\ Return(p)
          /\ UNCHANGED <<free, kstack>>
     ELSE /\ free' = free \ {kalloc} /\ kstack' = [kstack EXCEPT ![c] = kalloc]
          /\ Goto(p, "setupkvm", loc[p])
          /\ UNCHANGED <<state, oom>>
  /\ UNCHANGED <<pd, pt, pgdir, sz, cr3, panicked>>

\* One turn of the loop, or its end and the rest of fork.
copyuvm(p) ==
  /\ At(p, "copyuvm")
  /\ LET l == loc[p] IN
     IF l.a >= sz[p]
     THEN /\ state' = [state EXCEPT ![l.c] = "run"]
          /\ pgdir' = [pgdir EXCEPT ![l.c] = l.d]
          /\ sz' = [sz EXCEPT ![l.c] = sz[p]]
          /\ Return(p)
          /\ UNCHANGED <<memory, oom, panicked>>
     ELSE /\ IF Pte(pgdir[p], l.a) = 0
             THEN panicked' = 1 /\ UNCHANGED <<memory, pc, loc, oom>>  \* page not present
             ELSE IF free = {}
             THEN Fails /\ Goto(p, "bad", l) /\ UNCHANGED <<memory, panicked>>
             ELSE IF ~Mappable(l.d, l.a, kalloc)
             THEN PageLost(kalloc) /\ Fails /\ Goto(p, "bad", l) /\ UNCHANGED panicked
             ELSE /\ mappages(l.d, l.a, kalloc)
                  /\ Goto(p, "copyuvm", [l EXCEPT !.a = @ + PGSIZE])
                  /\ UNCHANGED <<oom, panicked>>
          /\ UNCHANGED <<state, pgdir, sz>>
  /\ UNCHANGED <<kstack, cr3>>

\* fork gives up the child.
undo(p) ==
  /\ At(p, "undo")
  /\ LET c == loc[p].c IN
     /\ free' = free \union {kstack[c]} /\ kstack' = [kstack EXCEPT ![c] = 0]
     /\ state' = [state EXCEPT ![c] = "unused"]
  /\ Return(p)
  /\ UNCHANGED <<pd, pt, pgdir, sz, cr3, oom, panicked>>

\* The scheduler loads the page table of the process that it runs.
switchuvm(p) ==
  /\ panicked = 0 /\ state[p] = "run" /\ cr3[p] # pgdir[p]
  /\ cr3' = [cr3 EXCEPT ![p] = pgdir[p]]
  /\ UNCHANGED <<memory, ptable, pc, loc, oom, panicked>>

\* Back in the scheduler, which has ptable.lock: switchkvm.
AfterExit(p) == [cr3 EXCEPT ![p] = 0]

exit(p) ==
  /\ p # 1 /\ (At(p, "user") \/ At(p, "fault"))
  /\ state' = [state EXCEPT ![p] = "zombie"]
  /\ cr3' = AfterExit(p)
  /\ Return(p)
  /\ UNCHANGED <<memory, pgdir, sz, kstack, oom, panicked>>

\* Process 1 reaps its children and those it inherits; an unused slot is shown
\* without the stale pointers.
wait(p, q) ==
  /\ p = 1 /\ At(p, "user") /\ state[q] = "zombie"
  /\ freevm(pgdir[q], {kstack[q]})
  /\ state' = [state EXCEPT ![q] = "unused"] /\ pgdir' = [pgdir EXCEPT ![q] = 0]
  /\ sz' = [sz EXCEPT ![q] = 0] /\ kstack' = [kstack EXCEPT ![q] = 0]
  /\ UNCHANGED <<cr3, pc, loc, oom, panicked>>

-----------------------------------------------------------------------------
(* exec *)

\* The file is a program with one segment of size n.
exec(p, n) ==
  /\ At(p, "user")
  /\ Goto(p, "setupkvm", [NoLocals EXCEPT !.call = "exec", !.new = n])
  /\ UNCHANGED <<memory, ptable, cr3, oom, panicked>>

Segment(n) == {a \in 0 .. n - 1 : a % PGSIZE = 0}
\* loaduvm wants a page table for each page, then the file may be short; then
\* the stack begins: two pages at the next page boundary.
loaduvm(p) ==
  /\ At(p, "loaduvm")
  /\ LET l == loc[p]
         base == PGROUNDUP(l.new) IN
     IF \E a \in Segment(l.new) : Table(l.d, a) = 0 THEN panic
     ELSE /\ \/ Goto(p, "bad", l)
             \/ Goto(p, "allocuvm", [l EXCEPT !.a = base, !.old = base, !.new = base + 2 * PGSIZE])
          /\ UNCHANGED <<memory, ptable, cr3, oom, panicked>>

\* clearpteu wants a page table for the first of the two; copyout fails when the
\* second is missing or the arguments do not fit.  (Without a page table uva2ka
\* reads through a null pointer: either may come of it.)
args(p) ==
  /\ At(p, "args")
  /\ LET l == loc[p] IN
     IF Table(l.d, l.new - 2 * PGSIZE) = 0 THEN panic
     ELSE /\ \/ Goto(p, "bad", l)
             \/ /\ Pte(l.d, l.new - PGSIZE) # 0 \/ Table(l.d, l.new - PGSIZE) = 0
                /\ Goto(p, "commit", l)
          /\ UNCHANGED <<memory, ptable, cr3, oom, panicked>>

\* Fault variant: the old page table is freed before the new one is loaded.
After_FreeFirst(where) == CASE where = "commit" -> "freeold"
                            [] where = "freeold" -> "switch" [] where = "switch" -> "user"
\* The order of the last steps.
After(where) == CASE where = "commit" -> "switch"
                  [] where = "switch" -> "freeold" [] where = "freeold" -> "user"

\* proc->pgdir = pgdir; proc->sz = sz; d is then the old directory.
commit(p) ==
  /\ At(p, "commit")
  /\ pgdir' = [pgdir EXCEPT ![p] = loc[p].d]
  /\ sz' = [sz EXCEPT ![p] = loc[p].new]
  /\ Goto(p, After("commit"), [NoLocals EXCEPT !.d = pgdir[p]])
  /\ UNCHANGED <<memory, state, kstack, cr3, oom, panicked>>

ExecSwitch(p) ==
  /\ At(p, "switch")
  /\ cr3' = [cr3 EXCEPT ![p] = pgdir[p]]
  /\ Goto(p, After("switch"), loc[p])
  /\ UNCHANGED <<memory, ptable, oom, panicked>>

FreeOld(p) ==
  /\ At(p, "freeold")
  /\ freevm(loc[p].d, {})
  /\ Goto(p, After("freeold"), NoLocals)
  /\ UNCHANGED <<ptable, cr3, oom, panicked>>

Call(p) == \/ fork(p)
           \/ \E n \in Images : exec(p, n)
           \/ \E n \in Grows : sbrk(p, n)
Step(p) == \/ allocproc(p) \/ setupkvm(p) \/ copyuvm(p) \/ undo(p) \/ bad(p)
           \/ allocuvm(p) \/ loaduvm(p) \/ args(p) \/ commit(p) \/ ExecSwitch(p) \/ FreeOld(p)
           \/ growproc(p) \/ switchuvm(p) \/ exit(p)
           \/ \E q \in Proc : wait(p, q)

Next == \E p \in Proc : \/ Call(p) /\ calls < MaxCalls /\ calls' = calls + 1 /\ UNCHANGED last
                        \/ Step(p) /\ UNCHANGED <<calls, last>>

Spec == Init /\ [][Next]_vars

-----------------------------------------------------------------------------
(* Properties *)

\* How many pointers lead to page g: a process's directory or kernel stack, the
\* directory that fork or exec works on, an entry of a directory or a table.
Pointers(g) ==
  Cardinality({p \in Proc : pgdir[p] = g}) + Cardinality({p \in Proc : kstack[p] = g})
  + Cardinality({p \in Proc : loc[p].d = g})
  + Cardinality({<<d, i>> \in Page \X DOMAIN NoDir : pd[d][i] = g})
  + Cardinality({<<t, j>> \in Page \X DOMAIN NoTable : pt[t][j] = g})

\* A page has one owner: kalloc never hands out a page that is still mapped, no
\* page is freed twice and none is shared, also when fork, exec or sbrk fails in
\* the middle.  As long as kalloc never failed, no page is lost either.
PagesAccounted ==
  \A g \in Page : LET n == Pointers(g) + (IF g \in free THEN 1 ELSE 0)
                  IN  n <= 1 /\ (oom = 0 /\ g <= last => n = 1)

\* The page table in use by a CPU, with its tables, is not on the free list:
\* exec loads the new one before it frees the old, and a zombie's is freed by
\* its parent only after the scheduler has left it.
LoadedTableLive ==
  \A p \in Proc : cr3[p] # 0 => /\ cr3[p] \notin free
                                /\ Tables(cr3[p]) \intersect free = {}
                                /\ Tables(cr3[p]) # {}

Mapped(p) == \A a \in Segment(sz[p]) : Pte(pgdir[p], a) # 0

\* As long as kalloc never failed, every address below proc->sz is mapped (which
\* fork relies on: copyuvm panics otherwise), and nothing panics.
MemoryWhole ==
  oom = 0 => /\ panicked = 0
             /\ \A p \in Proc : state[p] = "run" /\ pc[p] # "fault" => Mapped(p) \/ pc[p] = "grown"

\* allocuvm "Returns new size or 0 on error": when it gives growproc a new size,
\* what was added is mapped.
GrownMapped ==
  \A p \in Proc : pc[p] = "grown" /\ loc[p].old < loc[p].new =>
     \A a \in Segment(loc[p].new) : Pte(pgdir[p], a) # 0

=============================================================================
