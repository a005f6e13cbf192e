-------------------------------- MODULE Proc ---------------------------------
(***************************************************************************)
(* The process table: fork, exit, wait and kill (proc.c), the exit that    *)
(* trap forces on a killed process (trap.c), and the loop of the first     *)
(* user process (init.c), which adopts and reaps orphans.                  *)
(*                                                                         *)
(* A step is a section under ptable.lock, or the part of fork that runs    *)
(* without it.  Which RUNNABLE process runs is free (module Sched models   *)
(* the scheduler), so RUNNABLE and RUNNING are one state here.  The only   *)
(* sleep is the one of wait, on the channel proc.                          *)
(***************************************************************************)
EXTENDS Integers, FiniteSets

CONSTANTS NPROC,      \* slots of the table
          MaxPid,     \* bound: forks stop when nextpid exceeds it
          KillPids    \* arguments of kill

ASSUME ProcAssumption ==
  /\ NPROC \in Nat \ {0} /\ MaxPid \in Nat \ {0} /\ KillPids \subseteq 0 .. MaxPid

Slot == 1 .. NPROC
NoSlot == 0
initproc == 1

VARIABLES
  state, pid, parent, killed,   \* struct proc
  nextpid,
  pc,       \* where the process is: "user", "fork", "forked", "exit", "wait"
  np,       \* fork: the slot of the child
  shell,    \* init: the pid it waits for, 0 when it has yet to fork
  asked,    \* history: the pids that kill was called for
  mode      \* "up" or "panic"

table == <<state, pid, parent, killed, nextpid>>
vars == <<table, pc, np, shell, asked, mode>>

\* q is the first slot of S, in table order.
IsFirst(q, S) == q \in S /\ \A r \in S : q <= r
Live(s) == state[s] \in {"RUNNABLE", "SLEEPING", "ZOMBIE"}
\* s executes, at c.
At(s, c) == mode = "up" /\ state[s] = "RUNNABLE" /\ pc[s] = c
Goto(s, c) == pc' = [pc EXCEPT ![s] = c]

\* userinit has run: init is the only process.
Init ==
  /\ state = [s \in Slot |-> IF s = initproc THEN "RUNNABLE" ELSE "UNUSED"]
  /\ pid = [s \in Slot |-> IF s = initproc THEN 1 ELSE 0]
  /\ parent = [s \in Slot |-> NoSlot] /\ killed = [s \in Slot |-> 0]
  /\ nextpid = 2
  /\ pc = [s \in Slot |-> "user"] /\ np = [s \in Slot |-> NoSlot]
  /\ shell = 0 /\ asked = {} /\ mode = "up"

-----------------------------------------------------------------------------
\* A system call begins; a killed process does not get that far.  init forks
\* when it has no shell and waits otherwise; others are free.
MayCall(s, call) ==
  /\ At(s, "user") /\ killed[s] = 0
  /\ s = initproc => call = IF shell = 0 THEN "fork" ELSE "wait"

\* fork returns -1; init then exits.
ForkFails(s) == Goto(s, IF s = initproc THEN "exit" ELSE "user")

\* Fault variant: a slot counts as free until fork has filled it in.
Free_Embryo(s) == state[s] \in {"UNUSED", "EMBRYO"}
Free(s) == state[s] = "UNUSED"
NewPid(s) == nextpid

\* fork: allocproc takes the first free slot and the next pid.
Allocproc(s) ==
  /\ MayCall(s, "fork") /\ nextpid <= MaxPid
  /\ \E q \in Slot :
       /\ IsFirst(q, {r \in Slot : Free(r)})
       /\ state' = [state EXCEPT ![q] = "EMBRYO"]
       /\ pid' = [pid EXCEPT ![q] = NewPid(q)] /\ nextpid' = nextpid + 1
       /\ np' = [np EXCEPT ![s] = q] /\ Goto(s, "fork")
  /\ UNCHANGED <<parent, killed, shell, asked, mode>>

\* fork: the table is full.
ForkNoSlot(s) ==
  /\ MayCall(s, "fork") /\ nextpid <= MaxPid
  /\ \A q \in Slot : ~Free(q)
  /\ ForkFails(s)
  /\ UNCHANGED <<table, np, shell, asked, mode>>

\* fork: no memory for the kernel stack or the page table.  Only the state of
\* the slot is reset.
ForkNoMemory(s) ==
  /\ At(s, "fork") /\ ForkFails(s)
  /\ state' = [state EXCEPT ![np[s]] = "UNUSED"]
  /\ np' = [np EXCEPT ![s] = NoSlot]
  /\ UNCHANGED <<pid, parent, killed, nextpid, shell, asked, mode>>

\* fork: the child is filled in, without the lock.
ForkCopy(s) ==
  /\ At(s, "fork") /\ Goto(s, "forked")
  /\ parent' = [parent EXCEPT ![np[s]] = s]
  /\ UNCHANGED <<state, pid, killed, nextpid, np, shell, asked, mode>>

\* fork: the child becomes RUNNABLE and will return to user mode.
ForkDone(s) ==
  /\ At(s, "forked")
  /\ state' = [state EXCEPT ![np[s]] = "RUNNABLE"]
  /\ pc' = [pc EXCEPT ![s] = "user", ![np[s]] = "user"]
  /\ np' = [np EXCEPT ![s] = NoSlot]
  /\ shell' = IF s = initproc THEN pid[np[s]] ELSE shell
  /\ UNCHANGED <<pid, parent, killed, nextpid, asked, mode>>

-----------------------------------------------------------------------------
\* A process calls exit, or trap finds it killed in user mode.
ExitCall(s) ==
  /\ At(s, "user") /\ (s # initproc \/ killed[s] = 1)
  /\ Goto(s, "exit")
  /\ UNCHANGED <<table, np, shell, asked, mode>>

\* exit of init panics.
ExitInit ==
  /\ At(initproc, "exit")
  /\ mode' = "panic"
  /\ UNCHANGED <<table, pc, np, shell, asked>>

Children(s) == {q \in Slot : parent[q] = s}
\* Fault variant: only the exiting process's parent is woken.
WokenByExit_Parent(s) == {parent[s]}
\* wakeup1(parent), and wakeup1(init) for each zombie that init inherits.
WokenByExit(s) ==
  {parent[s]} \union {initproc : q \in {r \in Children(s) : state[r] = "ZOMBIE"}}
\* Fault variant: zombies keep their parent.
Passed_Alive(s) == {q \in Children(s) : state[q] # "ZOMBIE"}
Passed(s) == Children(s)

\* exit: the section under ptable.lock, to the last sched.
Exit(s) ==
  /\ At(s, "exit") /\ s # initproc
  /\ state' = [q \in Slot |->
       IF q = s THEN "ZOMBIE"
       ELSE IF state[q] = "SLEEPING" /\ q \in WokenByExit(s) THEN "RUNNABLE" ELSE state[q]]
  /\ parent' = [q \in Slot |-> IF q \in Passed(s) THEN initproc ELSE parent[q]]
  /\ UNCHANGED <<pid, killed, nextpid, pc, np, shell, asked, mode>>

-----------------------------------------------------------------------------
WaitCall(s) ==
  /\ MayCall(s, "wait") /\ Goto(s, "wait")
  /\ UNCHANGED <<table, np, shell, asked, mode>>

Zombies(s) == {q \in Children(s) : state[q] = "ZOMBIE"}
\* init waits on until wait returns its shell's pid or fails.
WaitReturns(s, r) ==
  /\ Goto(s, "user")
  /\ shell' = IF s = initproc /\ r \in {shell, -1} THEN 0 ELSE shell

\* wait: free the first zombie child and return its pid.
WaitReap(s) ==
  /\ At(s, "wait")
  /\ \E q \in Slot :
       /\ IsFirst(q, Zombies(s))
       /\ WaitReturns(s, pid[q])
       /\ state' = [state EXCEPT ![q] = "UNUSED"]
       /\ pid' = [pid EXCEPT ![q] = 0]
       /\ parent' = [parent EXCEPT ![q] = NoSlot]
       /\ killed' = [killed EXCEPT ![q] = 0]
  /\ UNCHANGED <<nextpid, np, asked, mode>>

\* Fault variant: waits on although it was killed.
WaitGivesUp_Never(s) == Children(s) = {}
WaitGivesUp(s) == Children(s) = {} \/ killed[s] = 1

\* wait: return -1.
WaitFails(s) ==
  /\ At(s, "wait") /\ Zombies(s) = {} /\ WaitGivesUp(s)
  /\ WaitReturns(s, -1)
  /\ UNCHANGED <<table, np, asked, mode>>

\* wait: sleep(proc, &ptable.lock).
WaitSleep(s) ==
  /\ At(s, "wait") /\ Zombies(s) = {} /\ ~WaitGivesUp(s)
  /\ state' = [state EXCEPT ![s] = "SLEEPING"]
  /\ UNCHANGED <<pid, parent, killed, nextpid, pc, np, shell, asked, mode>>

\* kill(k): marks the first slot with that pid, and wakes it from sleep.
Kill(s, k) ==
  /\ MayCall(s, "kill")
  /\ \E q \in Slot :
       /\ IsFirst(q, {r \in Slot : pid[r] = k})
       /\ killed' = [killed EXCEPT ![q] = 1]
       /\ state' = IF state[q] = "SLEEPING" THEN [state EXCEPT ![q] = "RUNNABLE"] ELSE state
  /\ asked' = asked \union {k}
  /\ UNCHANGED <<pid, parent, nextpid, pc, np, shell, mode>>

-----------------------------------------------------------------------------
\* The steps of a process that do not depend on its program.
KernelStep(s) == \/ ForkNoMemory(s) \/ ForkCopy(s) \/ ForkDone(s)
                 \/ Exit(s) \/ WaitReap(s) \/ WaitFails(s) \/ WaitSleep(s)

Call(s) == \/ Allocproc(s) \/ ForkNoSlot(s) \/ ExitCall(s) \/ WaitCall(s)
           \/ \E k \in KillPids : Kill(s, k)

Next == ExitInit \/ \E s \in Slot : KernelStep(s) \/ Call(s)

Spec == Init /\ [][Next]_vars

(***************************************************************************)
(* A process that is RUNNABLE gets a CPU (module Sched), so a system call  *)
(* goes on; the timer brings a killed process from user mode into trap,    *)
(* where it exits; init runs its loop.                                     *)
(***************************************************************************)
Fairness == /\ \A s \in Slot : /\ WF_vars(KernelStep(s))
                               /\ WF_vars(killed[s] = 1 /\ ExitCall(s))
            /\ WF_vars(Call(initproc)) /\ WF_vars(ExitInit)

FairSpec == Spec /\ Fairness

-----------------------------------------------------------------------------
\* Types, and: no two processes have the same pid, so that kill and wait name
\* one process (nextpid, proc.c:49).
TypeOK ==
  /\ state \in [Slot -> {"UNUSED", "EMBRYO", "RUNNABLE", "SLEEPING", "ZOMBIE"}]
  /\ pid \in [Slot -> 0 .. MaxPid] /\ killed \in [Slot -> {0, 1}]
  /\ parent \in [Slot -> Slot \union {NoSlot}] /\ np \in [Slot -> Slot \union {NoSlot}]
  /\ pc \in [Slot -> {"user", "fork", "forked", "exit", "wait"}]
  /\ nextpid \in 2 .. MaxPid + 1 /\ shell \in 0 .. MaxPid
  /\ asked \subseteq KillPids /\ mode \in {"up", "panic"}
  /\ \A s, t \in Slot : Live(s) /\ Live(t) /\ pid[s] = pid[t] => s = t

\* Every process but init has a parent that can still wait for it: exit hands
\* its children to init, those that fork is still filling in included
\* (proc.c:199-206).
ParentAlive ==
  \A s \in Slot \ {initproc} :
    Live(s) => parent[s] # NoSlot /\ state[parent[s]] \in {"RUNNABLE", "SLEEPING"}

\* A slot that fork is filling in belongs to that fork alone
\* (allocproc's EMBRYO state, proc.c:48).
EmbryoOwned ==
  /\ \A s, t \in Slot : np[s] # NoSlot /\ np[s] = np[t] => s = t
  /\ \A s \in Slot : np[s] # NoSlot => state[np[s]] = "EMBRYO" /\ Live(s)

\* Nobody sleeps in wait while a child of theirs is a zombie: exit wakes the
\* parent, and init for the zombies it inherits (proc.c:196-204).
NoMissedChild == \A s \in Slot : state[s] = "SLEEPING" => Zombies(s) = {}

\* "Kill the process with the given pid" (proc.c:407): a process is marked as
\* killed only when kill was called for its pid.
KilledAsAsked == \A s \in Slot : Live(s) /\ killed[s] = 1 => pid[s] \in asked

\* A killed process exits, from user mode or out of wait
\* (proc.c:247, 419-421, trap.c:44, 100).
KilledExits ==
  \A s \in Slot : (mode = "up" /\ killed[s] = 1 /\ Live(s)) ~> (state[s] \in {"ZOMBIE", "UNUSED"} \/ mode = "panic")

\* init reaps every orphan, unless the machine has stopped or forks have.
OrphansReaped ==
  \A s \in Slot : (state[s] = "ZOMBIE" /\ parent[s] = initproc)
                     ~> (state[s] = "UNUSED" \/ mode = "panic" \/ nextpid > MaxPid)
=============================================================================
