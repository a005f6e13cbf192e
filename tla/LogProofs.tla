------------------------------ MODULE LogProofs ------------------------------
(***************************************************************************)
(* Safety of the logging layer for any number of processes, blocks, values *)
(* and any sizes that satisfy LogAssumption.                               *)
(***************************************************************************)
EXTENDS Log, FiniteSetTheorems, SequenceTheorems, TLAPS

Committer == {"write_log", "install", "done"}

\* What relates the program counters to log.outstanding and log.committing.
Control ==
  /\ mode \in Booting => \A p \in Proc : pc[p] = "idle"
  /\ mode \in Booting => committing = 0
  /\ committing = 1 => Active = {}
  /\ \A p \in Proc : pc[p] \in Committer => committing = 1
  /\ \A p, q \in Proc : pc[p] \in Committer /\ pc[q] \in Committer => p = q

\* What one FS call has logged, and the buffer it is about to log.
Calls ==
  /\ \A p \in Proc : pc[p] # "op" => held[p] = {} /\ wrote[p] = {}
  /\ \A p \in Proc : IsFiniteSet(wrote[p]) /\ wrote[p] \subseteq Range(lh)
  /\ \A p \in Proc : \A b \in held[p] :
       Cardinality(wrote[p] \union {b}) <= OPBLOCKS

\* The two headers: equal while blocks are installed, the on-disk one empty
\* while a transaction is being built.
Headers ==
  /\ Len(dhead) <= LOGSIZE
  /\ mode = "install" => dhead = lh
  /\ mode = "read_head" => lh = <<>>
  /\ \A p \in Proc : pc[p] = "install" => dhead = lh

\* The inductive invariant.
LogInv == TypeOK /\ Control /\ Calls /\ Headers /\ Reservation

-----------------------------------------------------------------------------
USE LogAssumption DEF LogAssumption

\* Adding one element to a finite set.
LEMMA AddOne ==
  ASSUME NEW S, IsFiniteSet(S), NEW x
  PROVE  /\ IsFiniteSet(S \union {x})
         /\ Cardinality(S) \in Nat /\ Cardinality(S \union {x}) \in Nat
         /\ Cardinality(S) <= Cardinality(S \union {x})
         /\ x \notin S => Cardinality(S \union {x}) = Cardinality(S) + 1
  <1>1. Cardinality(S) \in Nat
    BY FS_CardinalityType
  <1>2. CASE x \in S
    <2>1. S \union {x} = S
      BY <1>2
    <2> QED BY <1>1, <1>2, <2>1
  <1>3. CASE x \notin S
    <2>1. IsFiniteSet(S \union {x}) /\ Cardinality(S \union {x}) = Cardinality(S) + 1
      BY <1>3, FS_AddElement
    <2> QED BY <1>1, <2>1
  <1> QED BY <1>2, <1>3

\* What appending one sector does to the set of logged sectors.
LEMMA RangeAppend ==
  ASSUME NEW S, NEW s \in Seq(S), NEW x \in S
  PROVE  Range(Append(s, x)) = Range(s) \union {x}
  <1> DEFINE a == Append(s, x)
  <1>1. /\ DOMAIN s = 1 .. Len(s) /\ Len(s) \in Nat
        /\ DOMAIN a = 1 .. Len(s) + 1
        /\ \A i \in 1 .. Len(s) : a[i] = s[i]
        /\ a[Len(s) + 1] = x
    OBVIOUS
  <1> HIDE DEF a
  <1>2. ASSUME NEW y \in Range(a) PROVE y \in Range(s) \union {x}
    <2>1. PICK i \in 1 .. Len(s) + 1 : y = a[i]
      BY <1>1, <1>2 DEF Range
    <2>2. i \in 1 .. Len(s) \/ i = Len(s) + 1
      BY <1>1
    <2> QED BY <1>1, <2>1, <2>2 DEF Range
  <1>3. ASSUME NEW y \in Range(s) \union {x} PROVE y \in Range(a)
    <2>1. CASE y = x
      <3>1. Len(s) + 1 \in DOMAIN a
        BY <1>1
      <3> QED BY <1>1, <2>1, <3>1 DEF Range
    <2>2. CASE y \in Range(s)
      <3>1. PICK i \in 1 .. Len(s) : y = s[i]
        BY <1>1, <2>2 DEF Range
      <3>2. i \in DOMAIN a
        BY <1>1
      <3> QED BY <1>1, <3>1, <3>2 DEF Range
    <2> QED BY <1>3, <2>1, <2>2
  <1> QED BY <1>2, <1>3 DEF a

\* There are finitely many processes, hence finitely many reserved slots.
LEMMA ReservedFinite ==
  /\ IsFiniteSet(Active) /\ IsFiniteSet(Active')
  /\ IsFiniteSet(Reserved) /\ IsFiniteSet(Reserved')
  /\ Cardinality(Reserved) \in Nat /\ Cardinality(Reserved') \in Nat
  <1>1. IsFiniteSet(Active) /\ IsFiniteSet(Active') /\ IsFiniteSet(1 .. MAXOPBLOCKS)
    BY FS_Subset, FS_Interval DEF Active
  <1>2. /\ IsFiniteSet(Active \X (1 .. MAXOPBLOCKS))
        /\ IsFiniteSet(Active' \X (1 .. MAXOPBLOCKS))
    BY <1>1, FS_Product
  <1>3. IsFiniteSet(Reserved) /\ IsFiniteSet(Reserved')
    BY <1>2, FS_Subset DEF Reserved
  <1> QED BY <1>1, <1>3, FS_CardinalityType

\* The log array is never overrun: the slots still promised are not negative.
LEMMA InvFits == TypeOK /\ Reservation => LogFits
  BY ReservedFinite DEF TypeOK, Reservation, LogFits

\* The loops of write_log and install_trans stay within the log.
LEMMA LoopIndex ==
  ASSUME LogInv, ~LoopDone
  PROVE  /\ tail \in Nat
         /\ tail + 1 \in 1 .. Len(lh)
         /\ lh[tail + 1] \in Block
         /\ tail + 1 \in 1 .. LOGSIZE
  BY InvFits DEF LoopDone, LogInv, TypeOK, LogFits

\* The machine boots with an empty log and no process in the FS.
LEMMA LogInvInit == Init => LogInv
  <1> SUFFICES ASSUME Init PROVE LogInv
    OBVIOUS
  <1>1. TypeOK
    BY DEF Init, TypeOK, PC, MODE, Booting
  <1>2. Active = {}
    BY DEF Init, Active
  <1>3. Control /\ Headers
    BY <1>2 DEF Init, Control, Headers, Committer, Booting
  <1>4. Calls
    BY FS_EmptySet DEF Init, Calls, Range
  <1>5. Reservation
    <2>1. Reserved = {}
      BY <1>2 DEF Reserved
    <2> QED BY <1>2, <2>1, FS_EmptySet DEF Init, Reservation
  <1> QED BY <1>1, <1>3, <1>4, <1>5 DEF LogInv

-----------------------------------------------------------------------------
(* One lemma per action. *)

\* begin_op admits an operation only when the log has room for it.
LEMMA BeginOpEnterInv ==
  ASSUME LogInv, NEW p \in Proc, BeginOpEnter(p)
  PROVE  LogInv'
  <1> USE DEF BeginOpEnter, Running, MayBegin, onDisk, cache, call
  <1>1. TypeOK'
    BY DEF LogInv, TypeOK, PC
  <1>2. Active' = Active \union {p} /\ p \notin Active
    BY DEF LogInv, TypeOK, Active
  <1>3. Control'
    BY <1>2 DEF LogInv, TypeOK, Control, Committer, Booting
  <1>4. Calls'
    BY DEF LogInv, TypeOK, Calls
  <1>5. Headers'
    BY DEF LogInv, TypeOK, Headers
  <1>6. outstanding' = Cardinality(Active')
    BY <1>2, ReservedFinite, FS_AddElement DEF LogInv, Reservation
  <1>7. Len(lh') + Cardinality(Reserved') <= LOGSIZE
    <2> DEFINE All == Active' \X (1 .. MAXOPBLOCKS)
    <2>1. IsFiniteSet(1 .. MAXOPBLOCKS) /\ Cardinality(1 .. MAXOPBLOCKS) = MAXOPBLOCKS
      BY FS_Interval
    <2>2. IsFiniteSet(All) /\ Cardinality(All) = Cardinality(Active') * MAXOPBLOCKS
      BY <2>1, ReservedFinite, FS_Product
    <2>3. Reserved' \subseteq All
      BY DEF Reserved
    <2>4. Cardinality(Reserved') <= Cardinality(All)
      BY <2>2, <2>3, FS_Subset
    <2>5. Len(lh) + Cardinality(Active') * MAXOPBLOCKS <= LOGSIZE
      BY <1>6 DEF RoomForOp, LogInv, TypeOK
    <2> HIDE DEF All
    <2> QED BY <1>1, <1>6, <2>2, <2>4, <2>5, ReservedFinite DEF LogInv, TypeOK
  <1> QED BY <1>1, <1>3, <1>4, <1>5, <1>6, <1>7 DEF LogInv, Reservation

\* A begin_op that sleeps leaves the log alone.
LEMMA BeginOpSleepInv ==
  ASSUME LogInv, NEW p \in Proc, BeginOpSleep(p)
  PROVE  LogInv'
  <1> USE DEF BeginOpSleep, Running, onDisk, cache, call
  <1>1. TypeOK'
    BY DEF LogInv, TypeOK, PC
  <1>2. Active' = Active /\ Reserved' = Reserved
    BY DEF LogInv, TypeOK, Active, Reserved
  <1>3. Control'
    BY <1>2 DEF LogInv, TypeOK, Control, Committer, Booting
  <1>4. Calls' /\ Headers'
    BY DEF LogInv, TypeOK, Calls, Headers
  <1>5. Reservation'
    BY <1>2 DEF LogInv, Reservation
  <1> QED BY <1>1, <1>3, <1>4, <1>5 DEF LogInv

\* The checks that log_write makes before it takes log.lock change no log state.
LEMMA LogWriteCheckInv ==
  ASSUME LogInv, NEW p \in Proc, NEW b \in Block, NEW v \in Val,
         LogWriteCheck(p, b, v)
  PROVE  LogInv'
  <1> USE DEF LogWriteCheck, Running, onDisk
  <1>1. TypeOK'
    BY DEF LogInv, TypeOK, PC, MODE, Booting
  <1>2. Active' = Active /\ Reserved' = Reserved
    BY DEF Active, Reserved
  <1>3. Control'
    BY <1>2 DEF LogInv, Control, Committer, Booting
  <1>4. Calls'
    BY DEF LogInv, TypeOK, Calls
  <1>5. Headers' /\ Reservation'
    BY <1>2 DEF LogInv, Headers, Reservation
  <1> QED BY <1>1, <1>3, <1>4, <1>5 DEF LogInv

\* A block that is new to the log is new to the FS call that logs it, so the
\* slot it takes is one that was reserved for that call.
LEMMA LogWriteRecordInv ==
  ASSUME LogInv, NEW p \in Proc, LogWriteRecord(p)
  PROVE  LogInv'
  <1> USE DEF LogWriteRecord, Running, onDisk
  <1>0. PICK b \in held[p] : /\ lh' = Absorb(b)
                             /\ dirty' = Pin(b)
                             /\ wrote' = [wrote EXCEPT ![p] = @ \union {b}]
    OBVIOUS
  <1> HIDE DEF LogWriteRecord
  <1>u. /\ held' = [held EXCEPT ![p] = {}] /\ mode = "up"
        /\ UNCHANGED <<disk, logblk, dhead, outstanding, committing, data, mode,
                       pc, tail>>
    BY DEF LogWriteRecord
  <1>b. b \in Block /\ pc[p] = "op" /\ p \in Active
    BY DEF LogInv, TypeOK, Calls, Active
  <1>l. /\ lh \in Seq(Block) /\ lh' \in Seq(Block)
        /\ Range(lh') = Range(lh) \union {b}
        /\ Len(lh') = IF b \in Range(lh) THEN Len(lh) ELSE Len(lh) + 1
    <2>1. lh \in Seq(Block)
      BY DEF LogInv, TypeOK
    <2>2. CASE b \in Range(lh)
      BY <1>0, <2>1, <2>2 DEF Absorb
    <2>3. CASE b \notin Range(lh)
      <3>1. lh' = Append(lh, b)
        BY <1>0, <2>3 DEF Absorb
      <3>2. Range(Append(lh, b)) = Range(lh) \union {b}
        BY <1>b, <2>1, RangeAppend
      <3> QED BY <1>b, <2>1, <2>3, <3>1, <3>2
    <2> QED BY <2>2, <2>3
  <1>1. TypeOK'
    BY <1>0, <1>u, <1>b, <1>l DEF LogInv, TypeOK, Pin
  <1>2. Active' = Active
    BY <1>u DEF Active
  <1>3. Control'
    BY <1>u, <1>2 DEF LogInv, Control
  <1>w. /\ IsFiniteSet(wrote[p]) /\ wrote[p] \subseteq Range(lh)
        /\ Cardinality(wrote[p]) \in Nat
        /\ wrote'[p] = wrote[p] \union {b}
        /\ \A q \in Proc : q # p => wrote'[q] = wrote[q]
        /\ wrote \in [Proc -> SUBSET Block]
    BY <1>0, FS_CardinalityType DEF LogInv, TypeOK, Calls
  <1>4. Calls'
    <2>1. \A q \in Proc : IsFiniteSet(wrote'[q]) /\ wrote'[q] \subseteq Range(lh')
      <3> TAKE q \in Proc
      <3>1. CASE q = p
        BY <3>1, <1>w, <1>l, AddOne
      <3>2. CASE q # p
        BY <3>2, <1>w, <1>l DEF LogInv, Calls
      <3> QED BY <3>1, <3>2
    <2>2. \A q \in Proc : pc'[q] # "op" => held'[q] = {} /\ wrote'[q] = {}
      BY <1>u, <1>b, <1>w DEF LogInv, TypeOK, Calls
    <2>3. \A q \in Proc : \A c \in held'[q] : Cardinality(wrote'[q] \union {c}) <= OPBLOCKS
      BY <1>u, <1>w DEF LogInv, TypeOK, Calls
    <2> QED BY <2>1, <2>2, <2>3 DEF Calls
  <1>5. Headers'
    <2>1. \A q \in Proc : pc[q] # "install"
      BY <1>b DEF LogInv, Control, Committer
    <2> QED BY <1>u, <2>1 DEF LogInv, Headers
  <1>6. Reservation'
    <2>1. Reserved' \subseteq Reserved
      <3>1. Cardinality(wrote[p]) <= Cardinality(wrote[p] \union {b})
        BY <1>w, AddOne
      <3>2. \A q \in Proc : Cardinality(wrote[q]) <= Cardinality(wrote'[q])
        <4> TAKE q \in Proc
        <4>1. Cardinality(wrote[q]) \in Nat
          BY FS_CardinalityType DEF LogInv, Calls
        <4>2. CASE q = p
          BY <4>2, <3>1, <1>w
        <4>3. CASE q # p
          BY <4>1, <4>3, <1>w
        <4> QED BY <4>2, <4>3
      <3>3. \A q \in Proc : Cardinality(wrote[q]) \in Nat /\ Cardinality(wrote'[q]) \in Nat
        BY <1>4, FS_CardinalityType DEF LogInv, Calls
      <3> QED BY <1>2, <3>2, <3>3 DEF Reserved, Active
    <2>2. CASE b \in Range(lh)
      BY <1>l, <1>u, <1>2, <2>1, <2>2, ReservedFinite, FS_Subset
         DEF LogInv, Reservation
    <2>3. CASE b \notin Range(lh)
      <3> DEFINE t == <<p, Cardinality(wrote[p]) + 1>>
      <3>1. Cardinality(wrote'[p]) = Cardinality(wrote[p]) + 1
        BY <1>w, <2>3, FS_AddElement
      <3>2. Cardinality(wrote'[p]) <= MAXOPBLOCKS
        <4>1. Cardinality(wrote[p] \union {b}) <= OPBLOCKS
          BY DEF LogInv, Calls
        <4> QED BY <4>1, <1>w, <3>1
      <3>3. t \in Reserved
        BY <3>1, <3>2, <1>w, <1>b DEF Reserved
      <3>4. t \notin Reserved'
        <4>1. t[1] = p /\ ~(t[2] > Cardinality(wrote'[p]))
          BY <3>1, <1>w
        <4> QED BY <4>1 DEF Reserved
      <3> HIDE DEF t
      <3>5. Reserved' \subseteq Reserved \ {t}
        BY <2>1, <3>4
      <3>6. /\ IsFiniteSet(Reserved \ {t})
            /\ Cardinality(Reserved \ {t}) = Cardinality(Reserved) - 1
        BY <3>3, ReservedFinite, FS_RemoveElement
      <3>7. Cardinality(Reserved') <= Cardinality(Reserved) - 1
        BY <3>5, <3>6, FS_Subset
      <3>8. Len(lh) \in Nat
        BY <1>l
      <3> QED BY <1>l, <1>u, <1>2, <2>3, <3>7, <3>8, ReservedFinite DEF LogInv, Reservation
    <2> QED BY <2>2, <2>3
  <1> QED BY <1>1, <1>3, <1>4, <1>5, <1>6 DEF LogInv

\* Wakeup moves processes between begin_op's two waiting states only.
LEMMA WakeupFact ==
  ASSUME TypeOK, NEW p \in Proc, pc' = Wakeup([pc EXCEPT ![p] = "idle"])
  PROVE  /\ pc' \in [Proc -> PC]
         /\ pc'[p] = "idle"
         /\ \A q \in Proc : q # p =>
              pc'[q] = pc[q] \/ (pc[q] = "sleep" /\ pc'[q] = "begin")
  BY DEF Wakeup, PC, TypeOK

\* An operation that ends returns the slots it did not use.
LEMMA EndOpReservation ==
  ASSUME LogInv, NEW p \in Active, Active' = Active \ {p},
         outstanding' = outstanding - 1, lh' = lh,
         wrote' = [wrote EXCEPT ![p] = {}]
  PROVE  Reservation' /\ outstanding' \in Nat
  <1>1. p \in Proc
    BY DEF Active
  <1>2. /\ Cardinality(Active') = Cardinality(Active) - 1
        /\ Cardinality(Active') \in Nat
    BY ReservedFinite, FS_RemoveElement, FS_CardinalityType
  <1>3. \A q \in Active' : wrote'[q] = wrote[q]
    BY <1>1 DEF LogInv, TypeOK, Active
  <1>4. Reserved' \subseteq Reserved
    BY <1>3 DEF Reserved
  <1>5. Cardinality(Reserved') <= Cardinality(Reserved)
    BY <1>4, ReservedFinite, FS_Subset
  <1>6. Len(lh) \in Nat
    BY DEF LogInv, TypeOK
  <1> QED BY <1>2, <1>5, <1>6, ReservedFinite DEF LogInv, Reservation

\* end_op gives its reservation back, and the last one starts the commit.
LEMMA EndOpInv ==
  ASSUME LogInv, NEW p \in Proc, EndOp(p)
  PROVE  LogInv'
  <1>0. /\ mode = "up" /\ pc[p] = "op" /\ held[p] = {}
        /\ outstanding' = outstanding - 1
        /\ mode' \in {"up", "panic"}
        /\ wrote' = [wrote EXCEPT ![p] = {}]
        /\ UNCHANGED <<disk, logblk, dhead, lh, data, dirty, held>>
    BY DEF EndOp, EndOpOther, EndOpLast, Running, onDisk, cache, LogInv, TypeOK
  <1>a. p \in Active /\ committing # 1 /\ committing = 0
    BY <1>0 DEF Active, LogInv, Control, TypeOK
  <1>p. /\ pc' \in [Proc -> PC]
        /\ pc'[p] \in {"idle", "done", "write_log"}
        /\ \A q \in Proc : q # p =>
             pc'[q] = pc[q] \/ (pc[q] = "sleep" /\ pc'[q] = "begin")
    <2>1. pc \in [Proc -> PC]
      BY DEF LogInv, TypeOK
    <2>2. CASE EndOpOther(p)
      BY <2>2, WakeupFact DEF EndOpOther, LogInv
    <2>3. CASE EndOpLast(p)
      BY <2>1, <2>3 DEF EndOpLast, PC
    <2> QED BY <2>2, <2>3 DEF EndOp
  <1>1. Active' = Active \ {p}
    BY <1>0, <1>p DEF Active
  <1>2. Reservation' /\ outstanding' \in Nat
    BY <1>0, <1>a, <1>1, EndOpReservation
  <1>3. TypeOK'
    <2>1. committing' \in {0, 1} /\ tail' \in Nat
      BY DEF EndOp, EndOpOther, EndOpLast, LogInv, TypeOK
    <2> QED BY <1>0, <1>p, <1>2, <2>1 DEF LogInv, TypeOK, MODE
  <1>4. Control'
    <2>1. \A q \in Proc : pc[q] \notin Committer
      BY <1>a DEF LogInv, Control
    <2>2. \A q \in Proc : q # p => pc'[q] \notin Committer
      BY <1>p, <2>1 DEF Committer
    <2>3. CASE EndOpOther(p)
      <3>1. pc'[p] = "idle" /\ committing' = 0
        BY <1>a, <2>3, WakeupFact DEF EndOpOther, LogInv
      <3> QED BY <1>0, <2>2, <3>1 DEF Control, Committer, Booting
    <2>4. CASE EndOpLast(p)
      <3>1. committing' = 1 /\ outstanding' = 0
        BY <2>4 DEF EndOpLast
      <3>2. Active' = {}
        BY <1>2, <3>1, ReservedFinite, FS_EmptySet DEF Reservation
      <3> QED BY <1>0, <2>2, <3>1, <3>2 DEF Control, Committer, Booting
    <2> QED BY <2>3, <2>4 DEF EndOp
  <1>5. Calls'
    BY <1>0, <1>p, FS_EmptySet DEF LogInv, TypeOK, Calls
  <1>6. Headers'
    <2>1. \A q \in Proc : pc'[q] # "install"
      BY <1>a, <1>p DEF LogInv, Control, Committer
    <2> QED BY <1>0, <2>1 DEF LogInv, Headers
  <1> QED BY <1>2, <1>3, <1>4, <1>5, <1>6 DEF LogInv

\* Reading a block into the cache leaves the log alone.
LEMMA BreadInv ==
  ASSUME LogInv, NEW b \in Block, Bread(b)
  PROVE  LogInv'
  <1> USE DEF Bread, Running, onDisk, call
  <1>1. TypeOK'
    BY DEF LogInv, TypeOK
  <1>2. Active' = Active /\ Reserved' = Reserved
    BY DEF LogInv, TypeOK, Active, Reserved
  <1>3. Control'
    BY <1>2 DEF LogInv, Control
  <1>4. Calls'
    BY DEF LogInv, TypeOK, Calls
  <1>5. Headers'
    BY DEF LogInv, Headers
  <1>6. Reservation'
    BY <1>2 DEF LogInv, Reservation
  <1> QED BY <1>1, <1>3, <1>4, <1>5, <1>6 DEF LogInv

\* Recycling a clean buffer leaves the log alone.
LEMMA EvictInv ==
  ASSUME LogInv, NEW b \in Block, Evict(b)
  PROVE  LogInv'
  <1> USE DEF Evict, Running, onDisk, call
  <1>1. TypeOK'
    BY DEF LogInv, TypeOK
  <1>2. Active' = Active /\ Reserved' = Reserved
    BY DEF LogInv, TypeOK, Active, Reserved
  <1>3. Control'
    BY <1>2 DEF LogInv, Control
  <1>4. Calls'
    BY DEF LogInv, TypeOK, Calls
  <1>5. Headers'
    BY DEF LogInv, Headers
  <1>6. Reservation'
    BY <1>2 DEF LogInv, Reservation
  <1> QED BY <1>1, <1>3, <1>4, <1>5, <1>6 DEF LogInv

\* write_log copies the next block of the header into the log.
LEMMA WriteLogInv ==
  ASSUME LogInv, NEW p \in Proc, WriteLog(p)
  PROVE  LogInv'
  <1> USE DEF WriteLog, Running, call
  <1>1. TypeOK'
    BY LoopIndex DEF LogInv, TypeOK, Contents
  <1>2. Active' = Active /\ Reserved' = Reserved
    BY DEF LogInv, TypeOK, Active, Reserved
  <1>3. Control'
    BY <1>2 DEF LogInv, Control
  <1>4. Calls'
    BY DEF LogInv, TypeOK, Calls
  <1>5. Headers'
    BY DEF LogInv, Headers
  <1>6. Reservation'
    BY <1>2 DEF LogInv, Reservation
  <1> QED BY <1>1, <1>3, <1>4, <1>5, <1>6 DEF LogInv

\* write_head makes the on-disk header that of the finished log copy.
LEMMA WriteHeadInv ==
  ASSUME LogInv, NEW p \in Proc, WriteHead(p)
  PROVE  LogInv'
  <1> USE DEF WriteHead, Running, cache, call
  <1>1. TypeOK'
    BY DEF LogInv, TypeOK, PC
  <1>2. Active' = Active /\ Reserved' = Reserved
    BY DEF LogInv, TypeOK, Active, Reserved
  <1>3. Control'
    BY <1>2 DEF LogInv, TypeOK, Control, Committer, Booting
  <1>4. Calls'
    BY DEF LogInv, TypeOK, Calls
  <1>5. Headers'
    BY InvFits DEF LogInv, TypeOK, LogFits, Headers
  <1>6. Reservation'
    BY <1>2 DEF LogInv, Reservation
  <1> QED BY <1>1, <1>3, <1>4, <1>5, <1>6 DEF LogInv

\* install_trans writes a home block that the on-disk header lists.
LEMMA InstallTransInv ==
  ASSUME LogInv, NEW p \in Proc, InstallTrans(p)
  PROVE  LogInv'
  <1> USE DEF InstallTrans, InstallBlock, Running, call
  <1>1. TypeOK'
    BY LoopIndex DEF LogInv, TypeOK
  <1>2. Active' = Active /\ Reserved' = Reserved
    BY DEF LogInv, TypeOK, Active, Reserved
  <1>3. Control'
    BY <1>2 DEF LogInv, Control
  <1>4. Calls'
    BY DEF LogInv, TypeOK, Calls
  <1>5. Headers'
    BY DEF LogInv, Headers
  <1>6. Reservation'
    BY <1>2 DEF LogInv, Reservation
  <1> QED BY <1>1, <1>3, <1>4, <1>5, <1>6 DEF LogInv

\* So does install_trans during recovery.
LEMMA RecoverInstallInv ==
  ASSUME LogInv, RecoverInstall
  PROVE  LogInv'
  <1> USE DEF RecoverInstall, InstallBlock, call
  <1>1. TypeOK'
    BY LoopIndex DEF LogInv, TypeOK
  <1>2. Active' = Active /\ Reserved' = Reserved
    BY DEF LogInv, TypeOK, Active, Reserved
  <1>3. Control'
    BY <1>2 DEF LogInv, Control
  <1>4. Calls'
    BY DEF LogInv, TypeOK, Calls
  <1>5. Headers'
    BY DEF LogInv, Headers
  <1>6. Reservation'
    BY <1>2 DEF LogInv, Reservation
  <1> QED BY <1>1, <1>3, <1>4, <1>5, <1>6 DEF LogInv

\* With no operation in progress nothing is reserved.
LEMMA QuietReservation ==
  ASSUME Active' = {}, outstanding' = 0, lh' \in Seq(Block), Len(lh') <= LOGSIZE
  PROVE  Reservation'
  <1>1. Reserved' = {}
    BY DEF Reserved
  <1> QED BY <1>1, FS_EmptySet DEF Reservation

\* The same in the current state, as commit and recovery find it.
LEMMA Quiet ==
  ASSUME LogInv, committing = 1 \/ mode \in Booting
  PROVE  /\ Active = {} /\ outstanding = 0
         /\ \A p \in Proc : held[p] = {} /\ wrote[p] = {}
  <1>1. Active = {}
    BY DEF LogInv, Control, Active
  <1> QED BY <1>1, FS_EmptySet DEF LogInv, Reservation, Calls, Active

\* Clearing the header ends the commit with an empty log.
LEMMA ClearHeadInv ==
  ASSUME LogInv, NEW p \in Proc, ClearHead(p)
  PROVE  LogInv'
  <1> USE DEF ClearHead, ClearLog, Running, cache, call
  <1>1. TypeOK'
    BY DEF LogInv, TypeOK, PC
  <1>2. committing = 1 /\ Active' = {} /\ outstanding' = 0
    BY Quiet DEF LogInv, TypeOK, Control, Committer, Active
  <1>3. Control'
    BY <1>2 DEF LogInv, TypeOK, Control, Committer, Booting
  <1>4. Calls'
    BY <1>2, Quiet, FS_EmptySet DEF Calls
  <1>5. Headers'
    BY DEF Headers
  <1>6. Reservation'
    BY <1>2, QuietReservation
  <1> QED BY <1>1, <1>3, <1>4, <1>5, <1>6 DEF LogInv

\* The committer reopens the log and wakes who waits in begin_op.
LEMMA EndOpDoneInv ==
  ASSUME LogInv, NEW p \in Proc, EndOpDone(p)
  PROVE  LogInv'
  <1> USE DEF EndOpDone, Running, onDisk, cache, call
  <1>0. /\ pc' \in [Proc -> PC] /\ pc'[p] = "idle"
        /\ \A q \in Proc : q # p =>
             pc'[q] = pc[q] \/ (pc[q] = "sleep" /\ pc'[q] = "begin")
    BY WakeupFact DEF LogInv
  <1>1. TypeOK'
    BY <1>0 DEF LogInv, TypeOK
  <1>2. committing = 1
    BY DEF LogInv, Control, Committer
  <1>3. Active' = {} /\ outstanding' = 0
    BY <1>0, <1>2, Quiet DEF Active
  <1>4. \A q \in Proc : pc'[q] \notin Committer
    BY <1>0 DEF LogInv, Control, Committer
  <1>5. Control'
    BY <1>3, <1>4 DEF LogInv, Control, Booting
  <1>6. Calls'
    BY <1>2, Quiet, FS_EmptySet DEF Calls
  <1>7. Headers'
    BY <1>4 DEF LogInv, Headers, Committer
  <1>8. Reservation'
    BY <1>3, QuietReservation, InvFits DEF LogInv, TypeOK, LogFits
  <1> QED BY <1>1, <1>5, <1>6, <1>7, <1>8 DEF LogInv

\* A crash keeps the disk, the log sectors and the on-disk header.
LEMMA CrashInv ==
  ASSUME LogInv, Crash
  PROVE  LogInv'
  <1> USE DEF Crash, onDisk
  <1>1. TypeOK'
    BY DEF LogInv, TypeOK, PC, MODE, Booting
  <1>2. Active' = {}
    BY DEF Active
  <1>3. Control' /\ Headers'
    BY <1>2 DEF LogInv, Control, Headers, Committer
  <1>4. Calls'
    BY FS_EmptySet DEF Calls
  <1>5. Reservation'
    BY <1>2, QuietReservation
  <1> QED BY <1>1, <1>3, <1>4, <1>5 DEF LogInv

\* recover_from_log takes the header from the disk.
LEMMA ReadHeadInv ==
  ASSUME LogInv, ReadHead
  PROVE  LogInv'
  <1> USE DEF ReadHead, onDisk, cache, call
  <1>1. TypeOK'
    BY DEF LogInv, TypeOK, MODE, Booting
  <1>2. mode \in Booting /\ Active' = {} /\ outstanding' = 0
    BY Quiet DEF Booting, Active
  <1>3. Control'
    BY <1>2 DEF LogInv, Control
  <1>4. Calls'
    BY <1>2, Quiet, FS_EmptySet DEF Calls
  <1>5. Headers'
    BY DEF LogInv, Headers
  <1>6. Reservation'
    BY <1>2, QuietReservation DEF LogInv, TypeOK, Headers
  <1> QED BY <1>1, <1>3, <1>4, <1>5, <1>6 DEF LogInv

\* Recovery ends with an empty log and no FS call in progress.
LEMMA RecoverClearInv ==
  ASSUME LogInv, RecoverClear
  PROVE  LogInv'
  <1> USE DEF RecoverClear, ClearLog, cache, call
  <1>1. TypeOK'
    BY DEF LogInv, TypeOK, MODE
  <1>2. mode \in Booting /\ Active' = {} /\ outstanding' = 0
    BY Quiet DEF Booting, Active
  <1>3. Control'
    BY <1>2 DEF LogInv, Control, Committer, Booting
  <1>4. Calls'
    BY <1>2, Quiet, FS_EmptySet DEF Calls
  <1>5. Headers'
    BY DEF Headers
  <1>6. Reservation'
    BY <1>2, QuietReservation
  <1> QED BY <1>1, <1>3, <1>4, <1>5, <1>6 DEF LogInv

\* The invariant does not depend on anything but the variables.
LEMMA LogInvStutter == LogInv /\ UNCHANGED vars => LogInv'
  BY DEF LogInv, TypeOK, Control, Calls, Headers, Reservation, Active, Reserved,
         vars, onDisk, cache, call

\* Every step of the log keeps the invariant.
LEMMA LogInvNext == LogInv /\ [Next]_vars => LogInv'
  BY LogInvStutter, BeginOpEnterInv, BeginOpSleepInv, LogWriteCheckInv,
     LogWriteRecordInv, BreadInv, EvictInv, EndOpInv, WriteLogInv, WriteHeadInv,
     InstallTransInv, ClearHeadInv, EndOpDoneInv, CrashInv, ReadHeadInv,
     RecoverInstallInv, RecoverClearInv
  DEF Next, CommitStep, Recover

-----------------------------------------------------------------------------
(* Theorems *)

\* The inductive invariant holds in every reachable state of log.c.
THEOREM LogInvariant == Spec => []LogInv
  BY LogInvInit, LogInvNext, PTL DEF Spec

\* Type correctness: log.outstanding, log.lh and the cache keep their types
\* through every interleaving of FS calls, commits, crashes and recoveries.
THEOREM TypeCorrect == Spec => []TypeOK
  <1>1. LogInv => TypeOK
    BY DEF LogInv
  <1> QED BY <1>1, LogInvariant, PTL

\* begin_op's test keeps enough log slots for all operations in progress.
THEOREM ReservationHolds == Spec => []Reservation
  <1>1. LogInv => Reservation
    BY DEF LogInv
  <1> QED BY <1>1, LogInvariant, PTL

\* log_write never overruns log.lh.sector[], although it tests for room before
\* it takes log.lock, for any number of processes that race there.
THEOREM LogNeverOverrun == Spec => []LogFits
  <1>1. LogInv => LogFits
    BY InvFits DEF LogInv
  <1> QED BY <1>1, LogInvariant, PTL

\* commit() runs alone: no FS call is in progress and no second committer.
THEOREM CommitRunsAlone == Spec => []CommitAlone
  <1>1. LogInv => CommitAlone
    BY DEF LogInv, Control, Committer, CommitAlone
  <1> QED BY <1>1, LogInvariant, PTL

\* A home block is written only while the on-disk header lists it.
THEOREM WriteAheadHolds == Spec => WriteAhead
  <1> DEFINE Ahead == \A b \in Block : disk'[b] # disk[b] => b \in Range(dhead)
  <1>1. LogInv /\ [Next]_vars => Ahead \/ UNCHANGED vars
    <2> SUFFICES ASSUME LogInv, Next, NEW b \in Block, disk'[b] # disk[b]
                 PROVE  b \in Range(dhead)
      BY DEF vars, onDisk
    <2>1. InstallBlock /\ dhead = lh
      <3>1. \/ mode = "install" /\ InstallBlock
            \/ \E p \in Proc : pc[p] = "install" /\ InstallBlock
        BY DEF Next, BeginOpEnter, BeginOpSleep, LogWriteCheck, LogWriteRecord,
               Bread, Evict, EndOp, EndOpOther, EndOpLast, CommitStep, WriteLog,
               WriteHead, InstallTrans, ClearHead, ClearLog, EndOpDone, Crash,
               Recover, ReadHead, RecoverInstall, RecoverClear, onDisk
      <3> QED BY <3>1 DEF LogInv, Headers
    <2>2. b = lh[tail + 1] /\ tail + 1 \in DOMAIN lh
      BY <2>1, LoopIndex DEF InstallBlock, LogInv, TypeOK
    <2> QED BY <2>1, <2>2 DEF Range
  <1>2. Spec => [][Ahead]_vars
    BY <1>1, LogInvariant, PTL DEF Spec
  <1> QED BY <1>2 DEF WriteAhead

\* If FS calls leave unused at least the part of their reservation that the
\* header's limits need, log_write and end_op never panic.  With the shipped
\* sizes (LOGSIZE = nlog = 30, MAXOPBLOCKS = 10) that is 8 blocks per FS call.
THEOREM NoPanicWithSlack ==
  ASSUME OPBLOCKS < MAXOPBLOCKS,
         LOGSIZE - (MAXOPBLOCKS - OPBLOCKS) < NLOG - 1
  PROVE  Spec => []NoPanic
  <1>1. LogInv /\ NoPanic /\ [Next]_vars => NoPanic'
    <2> SUFFICES ASSUME LogInv, NoPanic, Next PROVE NoPanic'
      BY DEF NoPanic, vars
    <2>1. CASE \E p \in Proc, b \in Block, v \in Val : LogWriteCheck(p, b, v)
      <3>1. PICK p \in Proc, b \in Block, v \in Val : LogWriteCheck(p, b, v)
        BY <2>1
      <3> DEFINE c == Cardinality(wrote[p])
                 R == {p} \X ((c + 1) .. MAXOPBLOCKS)
      <3>2. p \in Active /\ IsFiniteSet(wrote[p]) /\ c \in Nat
        BY <3>1, FS_CardinalityType DEF LogWriteCheck, Active, LogInv, Calls
      <3>3. c <= OPBLOCKS
        <4>1. Cardinality(wrote[p] \union {b}) <= OPBLOCKS
          BY <3>1 DEF LogWriteCheck
        <4>2. c <= Cardinality(wrote[p] \union {b}) /\ Cardinality(wrote[p] \union {b}) \in Nat
          BY <3>2, AddOne
        <4> HIDE DEF c
        <4> QED BY <3>2, <4>1, <4>2
      <3>4. /\ IsFiniteSet((c + 1) .. MAXOPBLOCKS)
            /\ Cardinality((c + 1) .. MAXOPBLOCKS) = MAXOPBLOCKS - c
        <4> HIDE DEF c
        <4>1. c + 1 \in Int /\ MAXOPBLOCKS \in Int /\ ~(c + 1 > MAXOPBLOCKS)
          BY <3>2, <3>3
        <4>2. MAXOPBLOCKS - (c + 1) + 1 = MAXOPBLOCKS - c
          BY <3>2
        <4> QED BY <4>1, <4>2, FS_Interval
      <3>5. IsFiniteSet({p}) /\ Cardinality({p}) = 1
        BY FS_Singleton
      <3>6. IsFiniteSet(R) /\ Cardinality(R) = 1 * (MAXOPBLOCKS - c)
        BY <3>4, <3>5, FS_Product
      <3>7. R \subseteq Reserved
        BY <3>2, <3>3 DEF Reserved
      <3>8. Cardinality(R) <= Cardinality(Reserved)
        BY <3>7, ReservedFinite, FS_Subset
      <3>9. outstanding >= 1
        <4>1. Cardinality(Active) # 0 /\ Cardinality(Active) \in Nat
          BY <3>2, ReservedFinite, FS_EmptySet, FS_CardinalityType
        <4> QED BY <4>1 DEF LogInv, Reservation
      <3> HIDE DEF c, R
      <3>10. Len(lh) < LOGSIZE /\ Len(lh) < NLOG - 1
        BY <3>2, <3>3, <3>6, <3>8, ReservedFinite DEF LogInv, Reservation, TypeOK
      <3> QED BY <3>1, <3>9, <3>10 DEF LogWriteCheck, NoPanic, LogInv, TypeOK
    <2>2. CASE \E p \in Proc : EndOp(p)
      BY <2>2 DEF EndOp, EndOpOther, EndOpLast, NoPanic, LogInv, Control, Active
    <2> QED
      BY <2>1, <2>2 DEF Next, BeginOpEnter, BeginOpSleep, LogWriteRecord, Bread,
         Evict, CommitStep, WriteLog, WriteHead, InstallTrans, ClearHead,
         EndOpDone, Crash, Recover, ReadHead, RecoverInstall, RecoverClear, NoPanic
  <1>2. Init => NoPanic
    BY DEF Init, NoPanic
  <1> QED BY <1>1, <1>2, LogInvariant, PTL DEF Spec
=============================================================================
