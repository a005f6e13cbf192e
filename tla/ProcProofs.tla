----------------------------- MODULE ProcProofs ------------------------------
(***************************************************************************)
(* The invariants of the process table, for any number of slots and pids.  *)
(***************************************************************************)
EXTENDS Proc, TLAPS

\* Pids in use are distinct and older than nextpid.
Pids ==
  /\ \A s \in Slot : pid[s] < nextpid
  /\ \A s, t \in Slot : state[s] # "UNUSED" /\ state[t] # "UNUSED" /\ pid[s] = pid[t] => s = t

\* A fork under way runs, and its child is its own.
Forking ==
  /\ \A s \in Slot : np[s] # NoSlot <=> pc[s] \in {"fork", "forked"}
  /\ \A s \in Slot : np[s] # NoSlot => state[s] = "RUNNABLE" /\ state[np[s]] = "EMBRYO"
  /\ \A s \in Slot : pc[s] = "forked" => parent[np[s]] = s
  /\ \A s, t \in Slot : np[s] # NoSlot /\ np[s] = np[t] => s = t

\* Sleepers are in wait; init does not exit and has no parent; nobody is their
\* own parent, or exit's wakeup1(proc->parent) would wake the wrong process.
Waiting ==
  /\ \A s \in Slot : state[s] = "SLEEPING" => pc[s] = "wait"
  /\ state[initproc] \in {"RUNNABLE", "SLEEPING"} /\ parent[initproc] = NoSlot
  /\ \A s \in Slot : parent[s] # s

\* The inductive invariant.
ProcInv == TypeOK /\ Pids /\ Forking /\ Waiting /\ ParentAlive /\ NoMissedChild

\* 0 is no slot, and init has one.
LEMMA SlotFacts == initproc \in Slot /\ NoSlot \notin Slot
  BY ProcAssumption DEF ProcAssumption, initproc, Slot, NoSlot

\* A process that only moves in or out of a system call leaves the table alone.
LEMMA PcOnly ==
  ASSUME ProcInv, NEW s \in Slot, NEW c \in {"user", "exit", "wait"},
         state[s] = "RUNNABLE", pc[s] \notin {"fork", "forked"},
         UNCHANGED <<table, np, asked, mode>>, shell' \in 0 .. MaxPid,
         pc' = [pc EXCEPT ![s] = c]
  PROVE  ProcInv'
<1> USE DEF table
<1>1. TypeOK'
  BY DEF ProcInv, TypeOK, Live
<1>2. Pids' /\ ParentAlive' /\ NoMissedChild'
  BY DEF ProcInv, Pids, ParentAlive, NoMissedChild, Live, Zombies, Children
<1>3. Forking'
  <2>1. \A t \in Slot : pc'[t] \in {"fork", "forked"} => t # s /\ pc'[t] = pc[t]
    BY DEF ProcInv, TypeOK
  <2>2. \A t \in Slot : pc[t] \in {"fork", "forked"} => pc'[t] = pc[t]
    BY DEF ProcInv, TypeOK
  <2> QED BY <2>1, <2>2 DEF ProcInv, Forking
<1>4. Waiting'
  BY DEF ProcInv, TypeOK, Waiting
<1> QED BY <1>1, <1>2, <1>3, <1>4 DEF ProcInv

\* allocproc reserves a slot and a pid that nobody else has.
LEMMA AllocprocInv ==
  ASSUME ProcInv, NEW s \in Slot, Allocproc(s)
  PROVE  ProcInv'
<1> USE SlotFacts
<1> PICK q \in Slot : Allocproc(s)!2!(q)
  BY DEF Allocproc
<1>1. /\ state[q] = "UNUSED" /\ state[s] = "RUNNABLE" /\ pc[s] = "user" /\ nextpid <= MaxPid
      /\ UNCHANGED <<parent, killed, shell, asked, mode>>
  BY DEF Allocproc, MayCall, At, IsFirst, Free
<1>2. /\ state' = [state EXCEPT ![q] = "EMBRYO"] /\ np' = [np EXCEPT ![s] = q]
      /\ pid' = [pid EXCEPT ![q] = nextpid] /\ nextpid' = nextpid + 1
      /\ pc' = [pc EXCEPT ![s] = "fork"]
  BY DEF NewPid, Goto
<1>3. Pids'
  BY <1>1, <1>2 DEF ProcInv, TypeOK, Pids
<1>4. TypeOK'
  BY <1>1, <1>2, <1>3, ProcAssumption DEF ProcAssumption, ProcInv, TypeOK, Pids, Live
<1>5. Forking'
  BY <1>1, <1>2 DEF ProcInv, TypeOK, Forking
<1>6. Waiting'
  BY <1>1, <1>2 DEF ProcInv, TypeOK, Forking, Waiting
<1>7. ParentAlive'
  BY <1>1, <1>2 DEF ProcInv, TypeOK, Forking, ParentAlive, Live
<1>8. NoMissedChild'
  BY <1>1, <1>2 DEF ProcInv, TypeOK, NoMissedChild, Zombies, Children
<1> QED BY <1>3, <1>4, <1>5, <1>6, <1>7, <1>8 DEF ProcInv

\* A fork that finds the table full changes nothing.
LEMMA ForkNoSlotInv ==
  ASSUME ProcInv, NEW s \in Slot, ForkNoSlot(s) PROVE ProcInv'
<1> DEFINE c == IF s = initproc THEN "exit" ELSE "user"
<1>1. c \in {"user", "exit", "wait"}
  OBVIOUS
<1>2. pc' = [pc EXCEPT ![s] = c]
  BY DEF ForkNoSlot, ForkFails, Goto
<1>3. /\ state[s] = "RUNNABLE" /\ pc[s] = "user"
      /\ UNCHANGED <<table, np, asked, mode>> /\ shell' \in 0 .. MaxPid
  BY DEF ForkNoSlot, MayCall, At, ProcInv, TypeOK
<1> HIDE DEF c
<1> QED BY <1>1, <1>2, <1>3, PcOnly

\* A fork that fails gives its slot back.
LEMMA ForkNoMemoryInv ==
  ASSUME ProcInv, NEW s \in Slot, ForkNoMemory(s)
  PROVE  ProcInv'
<1> USE SlotFacts
<1>1. /\ np[s] \in Slot /\ state[np[s]] = "EMBRYO" /\ state[s] = "RUNNABLE"
      /\ \A t \in Slot : np[t] = np[s] => t = s
  BY DEF ProcInv, TypeOK, Forking, ForkNoMemory, At
<1>2. /\ state' = [state EXCEPT ![np[s]] = "UNUSED"] /\ np' = [np EXCEPT ![s] = NoSlot]
      /\ UNCHANGED <<pid, parent, killed, nextpid, shell, asked, mode>>
      /\ pc'[s] \in {"user", "exit"} /\ pc' \in [Slot -> {"user", "fork", "forked", "exit", "wait"}]
      /\ \A t \in Slot : t # s => pc'[t] = pc[t]
  BY DEF ProcInv, TypeOK, ForkNoMemory, ForkFails, Goto
<1>3. Pids'
  BY <1>1, <1>2 DEF ProcInv, TypeOK, Pids
<1>4. TypeOK'
  BY <1>1, <1>2, <1>3, ProcAssumption DEF ProcAssumption, ProcInv, TypeOK, Pids, Live
<1>5. Forking'
  BY <1>1, <1>2 DEF ProcInv, TypeOK, Forking
<1>6. Waiting'
  BY <1>1, <1>2 DEF ProcInv, TypeOK, Forking, Waiting
<1>7. ParentAlive'
  BY <1>1, <1>2 DEF ProcInv, TypeOK, Forking, ParentAlive, Live
<1>8. NoMissedChild'
  BY <1>1, <1>2 DEF ProcInv, TypeOK, NoMissedChild, Zombies, Children
<1> QED BY <1>3, <1>4, <1>5, <1>6, <1>7, <1>8 DEF ProcInv

\* The part of fork outside the lock touches its own child only.
LEMMA ForkCopyInv ==
  ASSUME ProcInv, NEW s \in Slot, ForkCopy(s)
  PROVE  ProcInv'
<1> USE SlotFacts
<1>1. /\ np[s] \in Slot /\ state[np[s]] = "EMBRYO" /\ state[s] = "RUNNABLE"
      /\ \A t \in Slot : np[t] = np[s] => t = s
  BY DEF ProcInv, TypeOK, Forking, ForkCopy, At
<1>2. /\ parent' = [parent EXCEPT ![np[s]] = s] /\ pc' = [pc EXCEPT ![s] = "forked"]
      /\ pc[s] = "fork" /\ UNCHANGED <<state, pid, killed, nextpid, np, shell, asked, mode>>
  BY DEF ForkCopy, At, Goto
<1>3. Pids'
  BY <1>1, <1>2 DEF ProcInv, TypeOK, Pids
<1>4. TypeOK'
  BY <1>1, <1>2, <1>3, ProcAssumption DEF ProcAssumption, ProcInv, TypeOK, Pids, Live
<1>5. Forking'
  BY <1>1, <1>2 DEF ProcInv, TypeOK, Forking
<1>6. Waiting'
  BY <1>1, <1>2 DEF ProcInv, TypeOK, Forking, Waiting
<1>7. ParentAlive'
  BY <1>1, <1>2 DEF ProcInv, TypeOK, Forking, ParentAlive, Live
<1>8. NoMissedChild'
  BY <1>1, <1>2 DEF ProcInv, TypeOK, NoMissedChild, Zombies, Children
<1> QED BY <1>3, <1>4, <1>5, <1>6, <1>7, <1>8 DEF ProcInv

\* The child that fork makes RUNNABLE has a parent that runs.
LEMMA ForkDoneInv ==
  ASSUME ProcInv, NEW s \in Slot, ForkDone(s)
  PROVE  ProcInv'
<1> USE SlotFacts
<1>1. /\ np[s] \in Slot /\ state[np[s]] = "EMBRYO" /\ state[s] = "RUNNABLE"
      /\ \A t \in Slot : np[t] = np[s] => t = s
  BY DEF ProcInv, TypeOK, Forking, ForkDone, At
<1>2. /\ state' = [state EXCEPT ![np[s]] = "RUNNABLE"] /\ np' = [np EXCEPT ![s] = NoSlot]
      /\ pc' = [pc EXCEPT ![s] = "user", ![np[s]] = "user"] /\ pc[s] = "forked"
      /\ shell' \in 0 .. MaxPid /\ UNCHANGED <<pid, parent, killed, nextpid, asked, mode>>
  BY <1>1 DEF ProcInv, TypeOK, ForkDone, At
<1>3. Pids'
  BY <1>1, <1>2 DEF ProcInv, TypeOK, Pids
<1>4. TypeOK'
  BY <1>1, <1>2, <1>3, ProcAssumption DEF ProcAssumption, ProcInv, TypeOK, Pids, Live
<1>5. Forking'
  BY <1>1, <1>2 DEF ProcInv, TypeOK, Forking
<1>6. Waiting'
  BY <1>1, <1>2 DEF ProcInv, TypeOK, Forking, Waiting
<1>7. ParentAlive'
  BY <1>1, <1>2 DEF ProcInv, TypeOK, Forking, ParentAlive, Live
<1>8. NoMissedChild'
  BY <1>1, <1>2 DEF ProcInv, TypeOK, NoMissedChild, Zombies, Children
<1> QED BY <1>3, <1>4, <1>5, <1>6, <1>7, <1>8 DEF ProcInv

\* Going into exit leaves the table alone.
LEMMA ExitCallInv ==
  ASSUME ProcInv, NEW s \in Slot, ExitCall(s) PROVE ProcInv'
<1>1. /\ state[s] = "RUNNABLE" /\ pc[s] \notin {"fork", "forked"}
      /\ UNCHANGED <<table, np, asked, mode>> /\ pc' = [pc EXCEPT ![s] = "exit"]
  BY DEF ExitCall, At, Goto
<1>2. shell' \in 0 .. MaxPid
  BY ProcAssumption DEF ProcAssumption, ProcInv, TypeOK, ExitCall, At, Goto
<1> QED BY <1>1, <1>2, PcOnly

\* exit hands its children to init and wakes those who wait.
LEMMA ExitInv ==
  ASSUME ProcInv, NEW s \in Slot, Exit(s)
  PROVE  ProcInv'
<1> USE SlotFacts
<1>1. /\ state[s] = "RUNNABLE" /\ pc[s] = "exit" /\ s # initproc
      /\ UNCHANGED <<pid, killed, nextpid, pc, np, shell, asked, mode>>
      /\ parent' = [q \in Slot |-> IF parent[q] = s THEN initproc ELSE parent[q]]
  BY DEF Exit, At, Passed, Children
<1>2. /\ state' \in [Slot -> {"UNUSED", "EMBRYO", "RUNNABLE", "SLEEPING", "ZOMBIE"}]
      /\ state'[s] = "ZOMBIE"
      /\ \A q \in Slot : q # s =>
           state'[q] = state[q] \/ (state[q] = "SLEEPING" /\ state'[q] = "RUNNABLE")
  BY <1>1 DEF ProcInv, TypeOK, Exit
<1>3. Pids'
  BY <1>1, <1>2 DEF ProcInv, TypeOK, Pids
<1>4. TypeOK'
  BY <1>1, <1>2, <1>3, ProcAssumption DEF ProcAssumption, ProcInv, TypeOK, Pids, Live
<1>5. Forking'
  <2>1. np[s] = NoSlot
    BY DEF ProcInv, TypeOK, Forking, Exit, At
  <2>2. \A t \in Slot : np[t] # NoSlot =>
          t # s /\ np[t] # s /\ state'[t] = state[t] /\ state'[np[t]] = state[np[t]]
    BY <2>1 DEF ProcInv, TypeOK, Forking, Exit, At
  <2>3. \A t \in Slot : pc[t] = "forked" => parent'[np[t]] = t
    <3> SUFFICES ASSUME NEW t \in Slot, pc[t] = "forked" PROVE parent'[np[t]] = t
      OBVIOUS
    <3>1. np[t] \in Slot /\ parent[np[t]] = t /\ t # s
      BY <2>1 DEF ProcInv, TypeOK, Forking
    <3> QED BY <3>1 DEF Exit, Passed, Children
  <2>4. pc' = pc /\ np' = np
    BY DEF Exit
  <2>5. \A t \in Slot : np[t] # NoSlot => state'[t] = "RUNNABLE" /\ state'[np[t]] = "EMBRYO"
    BY <2>2 DEF ProcInv, Forking
  <2>6. /\ \A t \in Slot : np[t] # NoSlot <=> pc[t] \in {"fork", "forked"}
        /\ \A t, u \in Slot : np[t] # NoSlot /\ np[t] = np[u] => t = u
    BY DEF ProcInv, Forking
  <2> QED BY <2>3, <2>4, <2>5, <2>6 DEF Forking
<1>6. Waiting'
  BY <1>1, <1>2 DEF ProcInv, TypeOK, Forking, Waiting
<1>7. ParentAlive'
  BY <1>1, <1>2 DEF ProcInv, TypeOK, Waiting, ParentAlive, Live
<1>8. NoMissedChild'
  <2> SUFFICES ASSUME NEW t \in Slot, state'[t] = "SLEEPING",
                      NEW q \in Slot, parent'[q] = t, state'[q] = "ZOMBIE"
               PROVE  FALSE
    BY DEF NoMissedChild, Zombies, Children
  <2>1. t # s /\ state[t] = "SLEEPING" /\ t \notin WokenByExit(s)
    BY DEF ProcInv, TypeOK, Exit
  <2>2. CASE q = s
    BY <2>1, <2>2 DEF ProcInv, TypeOK, ParentAlive, Waiting, Exit, At, WokenByExit, Passed, Children
  <2>3. CASE q # s
    <3>1. state[q] = "ZOMBIE"
      BY <2>3 DEF ProcInv, TypeOK, Exit
    <3>2. CASE parent[q] = s
      BY <2>1, <3>1, <3>2 DEF Exit, WokenByExit, Passed, Children
    <3>3. CASE parent[q] # s
      BY <2>1, <3>1, <3>3 DEF ProcInv, NoMissedChild, Exit, Passed, Zombies, Children
    <3> QED BY <3>2, <3>3
  <2> QED BY <2>2, <2>3
<1> QED BY <1>3, <1>4, <1>5, <1>6, <1>7, <1>8 DEF ProcInv

\* Going into wait leaves the table alone.
LEMMA WaitCallInv ==
  ASSUME ProcInv, NEW s \in Slot, WaitCall(s) PROVE ProcInv'
<1>1. /\ state[s] = "RUNNABLE" /\ pc[s] \notin {"fork", "forked"}
      /\ UNCHANGED <<table, np, asked, mode>> /\ pc' = [pc EXCEPT ![s] = "wait"]
  BY DEF WaitCall, MayCall, At, Goto
<1>2. shell' \in 0 .. MaxPid
  BY ProcAssumption DEF ProcAssumption, ProcInv, TypeOK, WaitCall, MayCall, At, Goto
<1> QED BY <1>1, <1>2, PcOnly

\* wait frees a zombie, which has no children left.
LEMMA WaitReapInv ==
  ASSUME ProcInv, NEW s \in Slot, WaitReap(s)
  PROVE  ProcInv'
<1> USE SlotFacts
<1> PICK q \in Slot : WaitReap(s)!2!(q)
  BY DEF WaitReap
<1>1. /\ state[q] = "ZOMBIE" /\ parent[q] = s /\ state[s] = "RUNNABLE" /\ pc[s] = "wait"
      /\ UNCHANGED <<nextpid, np, asked, mode>>
  BY DEF WaitReap, At, IsFirst, Zombies, Children
<1>2. /\ state' = [state EXCEPT ![q] = "UNUSED"] /\ pid' = [pid EXCEPT ![q] = 0]
      /\ parent' = [parent EXCEPT ![q] = NoSlot] /\ killed' = [killed EXCEPT ![q] = 0]
      /\ pc' = [pc EXCEPT ![s] = "user"] /\ shell' \in 0 .. MaxPid
  BY ProcAssumption DEF ProcAssumption, ProcInv, TypeOK, WaitReturns, Goto
<1>3. Pids'
  BY <1>1, <1>2 DEF ProcInv, TypeOK, Pids
<1>4. TypeOK'
  BY <1>1, <1>2, <1>3, ProcAssumption DEF ProcAssumption, ProcInv, TypeOK, Pids, Live
<1>5. Forking'
  BY <1>1, <1>2 DEF ProcInv, TypeOK, Forking
<1>6. Waiting'
  BY <1>1, <1>2 DEF ProcInv, TypeOK, Forking, Waiting
<1>7. ParentAlive'
  BY <1>1, <1>2 DEF ProcInv, TypeOK, Forking, ParentAlive, Live
<1>8. NoMissedChild'
  BY <1>1, <1>2 DEF ProcInv, TypeOK, NoMissedChild, Zombies, Children
<1> QED BY <1>3, <1>4, <1>5, <1>6, <1>7, <1>8 DEF ProcInv

\* A wait that fails leaves the table alone.
LEMMA WaitFailsInv ==
  ASSUME ProcInv, NEW s \in Slot, WaitFails(s) PROVE ProcInv'
<1>1. /\ state[s] = "RUNNABLE" /\ pc[s] \notin {"fork", "forked"}
      /\ UNCHANGED <<table, np, asked, mode>> /\ pc' = [pc EXCEPT ![s] = "user"]
  BY DEF WaitFails, WaitReturns, At, Goto
<1>2. shell' \in 0 .. MaxPid
  BY ProcAssumption DEF ProcAssumption, ProcInv, TypeOK, WaitFails, WaitReturns, At, Goto
<1> QED BY <1>1, <1>2, PcOnly

\* wait sleeps only when no child is a zombie.
LEMMA WaitSleepInv ==
  ASSUME ProcInv, NEW s \in Slot, WaitSleep(s)
  PROVE  ProcInv'
<1> USE SlotFacts
<1>1. /\ state[s] = "RUNNABLE" /\ pc[s] = "wait" /\ Zombies(s) = {}
      /\ state' = [state EXCEPT ![s] = "SLEEPING"]
      /\ UNCHANGED <<pid, parent, killed, nextpid, pc, np, shell, asked, mode>>
  BY DEF WaitSleep, At
<1>3. Pids'
  BY <1>1 DEF ProcInv, TypeOK, Pids
<1>4. TypeOK'
  BY <1>1, <1>3, ProcAssumption DEF ProcAssumption, ProcInv, TypeOK, Pids, Live
<1>5. Forking'
  BY <1>1 DEF ProcInv, TypeOK, Forking
<1>6. Waiting'
  BY <1>1 DEF ProcInv, TypeOK, Forking, Waiting
<1>7. ParentAlive'
  BY <1>1 DEF ProcInv, TypeOK, Forking, ParentAlive, Live
<1>8. NoMissedChild'
  BY <1>1 DEF ProcInv, TypeOK, NoMissedChild, Zombies, Children
<1> QED BY <1>3, <1>4, <1>5, <1>6, <1>7, <1>8 DEF ProcInv

\* kill marks and wakes, and changes nothing else.
LEMMA KillInv ==
  ASSUME ProcInv, NEW s \in Slot, NEW k \in KillPids, Kill(s, k)
  PROVE  ProcInv'
<1> USE SlotFacts
<1>1. /\ state' \in [Slot -> {"UNUSED", "EMBRYO", "RUNNABLE", "SLEEPING", "ZOMBIE"}]
      /\ \A t \in Slot : state'[t] = state[t] \/ (state[t] = "SLEEPING" /\ state'[t] = "RUNNABLE")
      /\ killed' \in [Slot -> {0, 1}]
  BY DEF ProcInv, TypeOK, Kill, IsFirst
<1>2. UNCHANGED <<pid, parent, nextpid, pc, np, shell, mode>> /\ asked' \subseteq KillPids
  BY DEF ProcInv, TypeOK, Kill
<1>3. Pids'
  BY <1>1, <1>2 DEF ProcInv, TypeOK, Pids
<1>4. TypeOK'
  BY <1>1, <1>2, <1>3, ProcAssumption DEF ProcAssumption, ProcInv, TypeOK, Pids, Live
<1>5. Forking'
  BY <1>1, <1>2 DEF ProcInv, TypeOK, Forking
<1>6. Waiting'
  BY <1>1, <1>2 DEF ProcInv, TypeOK, Forking, Waiting
<1>7. ParentAlive'
  BY <1>1, <1>2 DEF ProcInv, TypeOK, Forking, ParentAlive, Live
<1>8. NoMissedChild'
  BY <1>1, <1>2 DEF ProcInv, TypeOK, NoMissedChild, Zombies, Children
<1> QED BY <1>3, <1>4, <1>5, <1>6, <1>7, <1>8 DEF ProcInv

-----------------------------------------------------------------------------
\* The panic of init's exit leaves the table alone.
LEMMA ExitInitInv ==
  ASSUME ProcInv, ExitInit PROVE ProcInv'
  BY DEF ProcInv, TypeOK, Pids, Forking, Waiting, ParentAlive, NoMissedChild, Live, Zombies,
         Children, ExitInit, At, table

\* The table that userinit leaves satisfies the invariant.
LEMMA InitInv ==
  ASSUME Init PROVE ProcInv
<1> USE ProcAssumption DEF ProcAssumption, Slot, NoSlot, initproc, Live
<1>1. TypeOK /\ Pids
  BY DEF Init, TypeOK, Pids
<1>2. Forking /\ Waiting /\ ParentAlive
  BY DEF Init, Forking, Waiting, ParentAlive
<1>3. NoMissedChild
  BY DEF Init, NoMissedChild, Zombies, Children
<1> QED BY <1>1, <1>2, <1>3 DEF ProcInv

\* Every reachable table of fork, exit, wait and kill satisfies ProcInv.
THEOREM ProcInvariant == Spec => []ProcInv
<1>1. Init => ProcInv
  BY InitInv
<1>2. ProcInv /\ [Next]_vars => ProcInv'
  <2> SUFFICES ASSUME ProcInv, [Next]_vars PROVE ProcInv'
    OBVIOUS
  <2>1. CASE ExitInit
    BY <2>1, ExitInitInv
  <2>2. ASSUME NEW s \in Slot, KernelStep(s) PROVE ProcInv'
    BY <2>2, ForkNoMemoryInv, ForkCopyInv, ForkDoneInv, ExitInv, WaitReapInv, WaitFailsInv,
       WaitSleepInv DEF KernelStep
  <2>3. ASSUME NEW s \in Slot, Call(s) PROVE ProcInv'
    BY <2>3, AllocprocInv, ForkNoSlotInv, ExitCallInv, WaitCallInv, KillInv DEF Call
  <2>4. CASE UNCHANGED vars
    BY <2>4 DEF vars, table, ProcInv, TypeOK, Pids, Forking, Waiting, ParentAlive, NoMissedChild,
                Live, Zombies, Children
  <2> QED BY <2>1, <2>2, <2>3, <2>4 DEF Next
<1> QED BY <1>1, <1>2, PTL DEF Spec

\* The types hold, and no two processes have the same pid (allocproc).
THEOREM TypeCorrect == Spec => []TypeOK
<1>1. ProcInv => TypeOK
  BY DEF ProcInv
<1> QED BY <1>1, ProcInvariant, PTL

\* Every process but init always has a living parent, whatever fork, exit and
\* wait do at the same time.
THEOREM ParentAlwaysAlive == Spec => []ParentAlive
<1>1. ProcInv => ParentAlive
  BY DEF ProcInv
<1> QED BY <1>1, ProcInvariant, PTL

\* A slot under construction belongs to one fork.
THEOREM EmbryoAlwaysOwned == Spec => []EmbryoOwned
<1>1. ProcInv => EmbryoOwned
  BY DEF ProcInv, Forking, EmbryoOwned, Live
<1> QED BY <1>1, ProcInvariant, PTL

\* Nobody sleeps in wait past a child that has exited.
THEOREM NoChildMissed == Spec => []NoMissedChild
<1>1. ProcInv => NoMissedChild
  BY DEF ProcInv
<1> QED BY <1>1, ProcInvariant, PTL
=============================================================================
