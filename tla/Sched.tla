-------------------------------- MODULE Sched --------------------------------
(***************************************************************************)
(* Spin locks with interrupt masking (spinlock.c), the scheduler and       *)
(* sleep/wakeup (proc.c), the timer interrupt (trap.c) and sys_sleep       *)
(* (sysproc.c), interleaved at each access to shared memory.               *)
(*                                                                         *)
(* The processes and the per-CPU schedulers are threads.  A thread is the  *)
(* sequence of the operations it still has to do: a C function is the      *)
(* sequence of its operations, a call puts the callee's in front, and an   *)
(* interrupt puts the handler's in front of the thread it hits, as the     *)
(* hardware does with the stack.  A process with nothing to do is in user  *)
(* mode.                                                                   *)
(***************************************************************************)
EXTENDS Integers, Sequences, SequencesExt

CONSTANTS NCPU, NPROC,
          TICKMOD,     \* ticks is a uint: TICKMOD stands for 2^32
          Delays       \* arguments of sys_sleep, as uint

ASSUME SchedAssumption ==
  /\ NCPU \in Nat \ {0} /\ NPROC \in Nat \ {0}
  /\ TICKMOD \in Nat \ {0} /\ Delays \subseteq 0 .. TICKMOD - 1

CPU == 0 .. NCPU - 1
Proc == 1 .. NPROC                      \* slots of ptable, in table order
Lock == {"ptable", "tickslock"}
None == -1                              \* no CPU
NoProc == 0                             \* proc == 0: the scheduler runs

VARIABLES
  locked, lkcpu,       \* struct spinlock
  ncli, intena, IF_,   \* struct cpu, and the interrupt flag of its eflags
  proc,                \* proc of each CPU
  state, chan,         \* struct proc; chan is 1 for &ticks, 0 for none
  ticks,
  procTodo, cpuTodo,   \* operations left to processes and schedulers
  owed,                \* history: ticks until a sleeper may return
  mode                 \* "up" or "panic"

locks == <<locked, lkcpu>>
ints == <<ncli, intena, IF_>>
table == <<proc, state, chan>>
vars == <<locks, ints, table, ticks, procTodo, cpuTodo, owed, mode>>

-----------------------------------------------------------------------------
(* The functions, as the operations they perform. *)

Acquire(lk) == << <<"pushcli", lk>>, <<"xchg", lk>>, <<"own", lk>> >>
\* Fault variant: lk->cpu keeps the last owner.
Release_Owned(lk) == << <<"unlock", lk>>, <<"popcli", lk>> >>
Release(lk) == << <<"disown", lk>>, <<"unlock", lk>>, <<"popcli", lk>> >>

\* Fault variant: releases lk before it holds ptable.lock.
SleepEnter_Open(lk) == Release(lk) \o Acquire("ptable")
\* sleep() takes ptable.lock before it lets lk go.
SleepEnter(lk) == Acquire("ptable") \o Release(lk)

\* sleep(&ticks, lk); "swtch" is the call of sched.
Sleep(lk) ==
  SleepEnter(lk) \o << <<"setsleeping", 1>>, <<"swtch", 0>>, <<"clearchan", 0>> >>
    \o Release("ptable") \o Acquire(lk)

Wakeup == Acquire("ptable") \o << <<"wakeup1", 1>> >> \o Release("ptable")
\* Fault variant: becomes RUNNABLE before it holds ptable.lock.
Yield_Early == << <<"setrunnable", 0>> >> \o Acquire("ptable") \o << <<"swtch", 0>> >> \o Release("ptable")
Yield == Acquire("ptable") \o << <<"setrunnable", 0>>, <<"swtch", 0>> >> \o Release("ptable")

\* trap() of a timer interrupt: CPU 0 keeps the time.
TimerTrap(c) ==
  (IF c = 0 THEN Acquire("tickslock") \o << <<"tick", 1>> >> \o Wakeup \o Release("tickslock")
            ELSE <<>>)
    \o << <<"preempt", 0>>, <<"iret", 0>> >>

SysSleep(n) == Acquire("tickslock") \o << <<"ticks0", n>> >>
Forkret == Release("ptable") \o << <<"iret", 0>> >>
SchedulerRound == << <<"sti", 0>> >> \o Acquire("ptable") \o << <<"scan", 1>> >>

-----------------------------------------------------------------------------
Init ==
  /\ locked = [lk \in Lock |-> 0] /\ lkcpu = [lk \in Lock |-> None]
  /\ ncli = [c \in CPU |-> 0] /\ intena = [c \in CPU |-> 0] /\ IF_ = [c \in CPU |-> 0]
  /\ proc = [c \in CPU |-> NoProc]
  /\ state = [p \in Proc |-> "RUNNABLE"] /\ chan = [p \in Proc |-> 0]
  /\ ticks = 0
  /\ procTodo = [p \in Proc |-> Forkret]
  /\ cpuTodo = [c \in CPU |-> SchedulerRound]
  /\ owed = [p \in Proc |-> 0]
  /\ mode = "up"

Todo(c) == IF proc[c] = NoProc THEN cpuTodo[c] ELSE procTodo[proc[c]]

\* The thread of CPU c has s to do.
SetTodo(c, s) ==
  IF proc[c] = NoProc
  THEN cpuTodo' = [cpuTodo EXCEPT ![c] = s] /\ UNCHANGED procTodo
  ELSE procTodo' = [procTodo EXCEPT ![proc[c]] = s] /\ UNCHANGED cpuTodo

\* CPU c is about to do operation op with argument x.
At(c, op, x) == mode = "up" /\ Todo(c) # <<>> /\ Head(Todo(c)) = <<op, x>>
\* It is done; s comes before the rest.
Call(c, s) == SetTodo(c, s \o Tail(Todo(c)))
Done(c) == Call(c, <<>>)
PanicUnless(ok) == mode' = IF ok THEN mode ELSE "panic"

holding(c, lk) == locked[lk] = 1 /\ lkcpu[lk] = c

IntrOff(c) == [IF_ EXCEPT ![c] = 0]

\* acquire: pushcli, and the check that this CPU does not hold lk.
Pushcli(c, lk) ==
  /\ At(c, "pushcli", lk) /\ Done(c)
  /\ IF_' = IntrOff(c)
  /\ ncli' = [ncli EXCEPT ![c] = @ + 1]
  /\ intena' = IF ncli[c] = 0 THEN [intena EXCEPT ![c] = IF_[c]] ELSE intena
  /\ PanicUnless(~holding(c, lk))
  /\ UNCHANGED <<locks, table, ticks, owed>>

Free(lk) == locked[lk] = 0

\* acquire: the xchg that ends the spinning.
Xchg(c, lk) ==
  /\ At(c, "xchg", lk) /\ Done(c)
  /\ Free(lk)
  /\ locked' = [locked EXCEPT ![lk] = 1]
  /\ UNCHANGED <<lkcpu, ints, table, ticks, owed, mode>>

\* acquire: lk->cpu = cpu.
Own(c, lk) ==
  /\ At(c, "own", lk) /\ Done(c)
  /\ lkcpu' = [lkcpu EXCEPT ![lk] = c]
  /\ UNCHANGED <<locked, ints, table, ticks, owed, mode>>

\* release: the check, and lk->cpu = 0.
Disown(c, lk) ==
  /\ At(c, "disown", lk) /\ Done(c)
  /\ PanicUnless(holding(c, lk))
  /\ lkcpu' = [lkcpu EXCEPT ![lk] = None]
  /\ UNCHANGED <<locked, ints, table, ticks, owed>>

\* release: the xchg that unlocks.
Unlock(c, lk) ==
  /\ At(c, "unlock", lk) /\ Done(c)
  /\ locked' = [locked EXCEPT ![lk] = 0]
  /\ UNCHANGED <<lkcpu, ints, table, ticks, owed, mode>>

\* release: popcli.
Popcli(c, lk) ==
  /\ At(c, "popcli", lk) /\ Done(c)
  /\ PanicUnless(IF_[c] = 0 /\ ncli[c] > 0)
  /\ ncli' = [ncli EXCEPT ![c] = @ - 1]
  /\ IF_' = IF ncli[c] = 1 /\ intena[c] = 1 THEN [IF_ EXCEPT ![c] = 1] ELSE IF_
  /\ UNCHANGED <<locks, intena, table, ticks, owed>>

\* sti in scheduler, or iret to an interrupted thread or to user mode.
IntrOn(c, op) ==
  /\ At(c, op, 0) /\ Done(c)
  /\ IF_' = [IF_ EXCEPT ![c] = 1]
  /\ UNCHANGED <<locks, ncli, intena, table, ticks, owed, mode>>

-----------------------------------------------------------------------------
\* sleep: proc->chan = chan; proc->state = SLEEPING.
SetSleeping(c) ==
  /\ At(c, "setsleeping", 1) /\ Done(c)
  /\ chan' = [chan EXCEPT ![proc[c]] = 1]
  /\ state' = [state EXCEPT ![proc[c]] = "SLEEPING"]
  /\ UNCHANGED <<locks, ints, proc, ticks, owed, mode>>

\* yield: proc->state = RUNNABLE.
SetRunnable(c) ==
  /\ At(c, "setrunnable", 0) /\ Done(c)
  /\ state' = [state EXCEPT ![proc[c]] = "RUNNABLE"]
  /\ UNCHANGED <<locks, ints, proc, chan, ticks, owed, mode>>

\* Fault variant: intena stays with the CPU.
Resume_CpuIntena(c) == <<>>
\* What sched does when the process runs again: cpu->intena = intena.
Resume(c) == << <<"setintena", intena[c]>> >>

\* sched: the checks, then swtch to the scheduler, which sets proc = 0.
Swtch(c) ==
  /\ At(c, "swtch", 0)
  /\ PanicUnless(/\ holding(c, "ptable") /\ ncli[c] = 1
                 /\ state[proc[c]] # "RUNNING" /\ IF_[c] = 0)
  /\ procTodo' = [procTodo EXCEPT ![proc[c]] = Resume(c) \o Tail(@)]
  /\ proc' = [proc EXCEPT ![c] = NoProc]
  /\ UNCHANGED <<locks, ints, state, chan, ticks, cpuTodo, owed>>

SetIntena(c, x) ==
  /\ At(c, "setintena", x) /\ Done(c)
  /\ intena' = [intena EXCEPT ![c] = x]
  /\ UNCHANGED <<locks, ncli, IF_, table, ticks, owed, mode>>

ClearChan(c) ==
  /\ At(c, "clearchan", 0) /\ Done(c)
  /\ chan' = [chan EXCEPT ![proc[c]] = 0]
  /\ UNCHANGED <<locks, ints, proc, state, ticks, owed, mode>>

\* Fault variant: the scan starts again after each process.
ScanAfter_Restart(p) == 1
\* The scan of the table goes on behind the process that ran.
ScanAfter(p) == p + 1

\* scheduler: run the next RUNNABLE process from slot k on.
Dispatch(c, k) ==
  /\ At(c, "scan", k)
  /\ \E p \in k .. NPROC :
       /\ state[p] = "RUNNABLE" /\ \A q \in k .. p - 1 : state[q] # "RUNNABLE"
       /\ proc' = [proc EXCEPT ![c] = p]
       /\ state' = [state EXCEPT ![p] = "RUNNING"]
       /\ cpuTodo' = [cpuTodo EXCEPT ![c] = << <<"scan", ScanAfter(p)>> >>]
  /\ UNCHANGED <<locks, ints, chan, ticks, procTodo, owed, mode>>

\* scheduler: the table is scanned; release and go round.
ScanEnd(c, k) ==
  /\ At(c, "scan", k)
  /\ \A p \in k .. NPROC : state[p] # "RUNNABLE"
  /\ Call(c, Release("ptable") \o SchedulerRound)
  /\ UNCHANGED <<locks, ints, table, ticks, owed, mode>>

Woken(p) == chan[p] = 1
\* wakeup1(&ticks).
Wakeup1(c) ==
  /\ At(c, "wakeup1", 1) /\ Done(c)
  /\ state' = [p \in Proc |-> IF state[p] = "SLEEPING" /\ Woken(p) THEN "RUNNABLE" ELSE state[p]]
  /\ UNCHANGED <<locks, ints, proc, chan, ticks, owed, mode>>

-----------------------------------------------------------------------------
\* The timer interrupts CPU c, whose interrupt gate turns interrupts off.
Timer(c) ==
  /\ mode = "up" /\ IF_[c] = 1
  /\ SetTodo(c, TimerTrap(c) \o Todo(c))
  /\ IF_' = [IF_ EXCEPT ![c] = 0]
  /\ UNCHANGED <<locks, ncli, intena, table, ticks, owed, mode>>

\* trap: ticks++.
Tick(c) ==
  /\ At(c, "tick", 1) /\ Done(c)
  /\ ticks' = (ticks + 1) % TICKMOD
  /\ owed' = [p \in Proc |-> IF owed[p] = 0 THEN 0 ELSE owed[p] - 1]
  /\ UNCHANGED <<locks, ints, table, mode>>

\* trap: a process that was running gives up the CPU.
Preempt(c) ==
  /\ At(c, "preempt", 0)
  /\ Call(c, IF proc[c] # NoProc /\ state[proc[c]] = "RUNNING" THEN Yield ELSE <<>>)
  /\ UNCHANGED <<locks, ints, table, ticks, owed, mode>>

\* A process in user mode calls sleep(n).  The trap gate of system calls
\* leaves interrupts as they are.
CallSysSleep(c, n) ==
  /\ mode = "up" /\ proc[c] # NoProc /\ Todo(c) = <<>>
  /\ SetTodo(c, SysSleep(n))
  /\ UNCHANGED <<locks, ints, table, ticks, owed, mode>>

\* sys_sleep: ticks0 = ticks.
Ticks0(c, n) ==
  /\ At(c, "ticks0", n)
  /\ Call(c, << <<"while", <<ticks, n>> >> >>)
  /\ owed' = [owed EXCEPT ![proc[c]] = n]
  /\ UNCHANGED <<locks, ints, table, ticks, mode>>

\* Fault variant: compares with a deadline.
MustWait_Deadline(ticks0, n) == ticks < ticks0 + n /\ ticks0 + n < TICKMOD
\* ticks - ticks0 < n, in unsigned arithmetic.
MustWait(ticks0, n) == (ticks - ticks0) % TICKMOD < n

\* sys_sleep: one test of the loop.
While(c, ticks0, n) ==
  /\ At(c, "while", <<ticks0, n>>)
  /\ Call(c, IF MustWait(ticks0, n) THEN Sleep("tickslock") \o << <<"while", <<ticks0, n>> >> >>
                                    ELSE Release("tickslock"))
  /\ UNCHANGED <<locks, ints, table, ticks, owed, mode>>

-----------------------------------------------------------------------------
LockStep(c) == \E lk \in Lock : \/ Pushcli(c, lk) \/ Xchg(c, lk) \/ Own(c, lk)
                                \/ Disown(c, lk) \/ Unlock(c, lk) \/ Popcli(c, lk)

SchedStep(c) == \/ SetSleeping(c) \/ SetRunnable(c) \/ Swtch(c) \/ ClearChan(c) \/ Wakeup1(c)
                \/ \E x \in {0, 1} : SetIntena(c, x)
                \/ \E k \in 1 .. NPROC + 1 : Dispatch(c, k) \/ ScanEnd(c, k)

TrapStep(c) == \/ Tick(c) \/ Preempt(c)
               \/ \E op \in {"sti", "iret"} : IntrOn(c, op)

\* A CPU executes the next operation of its thread.
Step(c) == LockStep(c) \/ SchedStep(c) \/ TrapStep(c)
             \/ \E n \in Delays : Ticks0(c, n) \/ \E t \in 0 .. TICKMOD - 1 : While(c, t, n)

Next == \E c \in CPU : Step(c) \/ Timer(c) \/ \E n \in Delays : CallSysSleep(c, n)

Spec == Init /\ [][Next]_vars

(***************************************************************************)
(* A CPU does not stop.  The timer goes off again and again, and its       *)
(* interrupt stays pending until the CPU takes it.  Its period (10^7       *)
(* cycles of the bus clock, lapic.c) is longer than its handler: a thread  *)
(* that it interrupts over and over makes steps of its own in between.     *)
(***************************************************************************)
Fairness == \A c \in CPU : /\ WF_vars(Step(c))
                           /\ SF_vars(IF_[c] = 1 /\ Step(c))
                           /\ SF_vars(Timer(c))

FairSpec == Spec /\ Fairness

-----------------------------------------------------------------------------
\* Operations that are done only inside lk.
Owned(lk) == ({"own", "disown", "unlock"} \X {lk})
               \union (IF lk = "ptable" THEN {"scan"} \X (1 .. NPROC + 1)
                       ELSE ({"ticks0"} \X Delays)
                              \union ({"while"} \X ((0 .. TICKMOD - 1) \X Delays)))
\* The thread of c is inside lk: that shows in what it does next with lk.
Inside(c, lk) ==
  LET owned == Owned(lk)
      uses == SelectSeq(Todo(c), LAMBDA o : o = <<"xchg", lk>> \/ o \in owned)
  IN  uses # <<>> /\ uses[1] # <<"xchg", lk>>

\* At most one CPU is inside a lock's critical section, and the lock is taken
\* exactly then, although ptable.lock is handed from thread to thread by
\* scheduler, sched and forkret (proc.c:280-287, 314, 335); so none of the checks
\* of acquire, release, popcli and sched panics.
MutualExclusion ==
  /\ \A lk \in Lock :
       /\ \A c, d \in CPU : Inside(c, lk) /\ Inside(d, lk) => c = d
       /\ locked[lk] = 1 <=> \E c \in CPU : Inside(c, lk)
  /\ mode = "up"

\* A process never runs on two CPUs, and while nobody is inside ptable.lock
\* the processes marked RUNNING are those that run (yield, sleep, scheduler).
OneCpuPerProcess ==
  /\ \A c, d \in CPU : proc[c] = proc[d] /\ proc[c] # NoProc => c = d
  /\ locked["ptable"] = 0 =>
       \A p \in Proc : state[p] = "RUNNING" <=> \E c \in CPU : proc[c] = p

\* A process asleep on &ticks has seen the current tick, or the CPU that made
\* the tick still has its wakeup1 before it (proc.c:359-364).
Seen(p) == \E k \in 1 .. Len(procTodo[p]), t \in 0 .. TICKMOD - 1, n \in Delays :
             procTodo[p][k] = <<"while", <<t, n>> >> /\ MustWait(t, n)
WakeupPending == \E c \in CPU : \E k \in 1 .. Len(Todo(c)) : Todo(c)[k] = <<"wakeup1", 1>>
NoLostWakeup == \A p \in Proc : state[p] = "SLEEPING" => Seen(p) \/ WakeupPending

\* User code runs with interrupts on, whatever CPU the process was moved to
\* in the kernel and whatever intena that CPU had (proc.c:313-315).
UserInterruptible ==
  \A c \in CPU : proc[c] # NoProc /\ Todo(c) = <<>> => IF_[c] = 1 /\ ncli[c] = 0

\* sleep(n) does not return before n ticks, across the wrap of ticks
\* (sysproc.c:69).
NoEarlyReturn == \A p \in Proc : procTodo[p] = <<>> => owed[p] = 0

\* On one CPU: a sleeper is woken, and a RUNNABLE process gets the CPU, because
\* the scan goes on behind the process that ran (proc.c:276).
EventuallyRuns == \A p \in Proc : /\ state[p] = "SLEEPING" ~> state[p] = "RUNNABLE"
                                  /\ state[p] = "RUNNABLE" ~> state[p] = "RUNNING"
=============================================================================
