--------------------------- MODULE CoMutexProofs ---------------------------
(***************************************************************************)
(* Theorems about module CoMutex, for every size of the pool and every set *)
(* of mutexes: the coroutine mutex implements the abstract one, no waiter  *)
(* is lost, and, outside Run, waiters are served in order.                 *)
(***************************************************************************)
EXTENDS CoMutex, ScheduleProofs

(* The types of the mutexes. *)
MutexTypes ==
  /\ lock \in [Mutex -> BOOLEAN]
  /\ hold_cid \in [Mutex -> Cid \cup {kInvalidCid}]
  /\ suspend_cid_list \in [Mutex -> Seq(Cid)]
  /\ lock_wait \in [Cid -> Mutex \cup {NoMutex}]
  /\ unvisited \subseteq Mutex

(* The whole inductive invariant: the scheduler's, the batches', the mutexes'. *)
AllInv == SchedInv /\ BatchInv /\ MutexTypes /\ MutexInv
-----------------------------------------------------------------------------
(* The initial state satisfies the whole invariant. *)
LEMMA AllInit == MutexInit => AllInv
  <1> SUFFICES ASSUME MutexInit PROVE AllInv
    OBVIOUS
  <1>1. SchedInv /\ BatchInv
    BY SchedInit, BatchInit DEF MutexInit
  <1>2. MutexTypes
    <2>1. <<>> \in Seq(Cid)
      OBVIOUS
    <2>2. QED
      BY <2>1 DEF MutexInit, MutexTypes
  <1>3. MutexInv
    BY DEF MutexInit, MutexInv, FlagAndOwner, QueuedOnce, QueueEntries, Waiters
  <1>4. QED
    BY <1>1, <1>2, <1>3 DEF AllInv

(* A step that leaves the scheduler alone. *)
LEMMA SchedStays ==
  ASSUME SchedInv, BatchInv, UNCHANGED schedVars
  PROVE  SchedInv' /\ BatchInv'
  <1>1. SchedInv'
    BY SchedStep
  <1>2. UNCHANGED <<coVars, batchVars, mainVars, batch_finish_cid_list>>
    BY DEF schedVars
  <1>3. QueuedParents' /\ ParentsQueued'
    BY <1>2, QueueStays
    DEF SchedInv, BatchInv, Joined, Unfinished, coVars, batchVars, mainVars
  <1>4. FreshTasks'
    BY <1>2 DEF BatchInv, FreshTasks, IsChild, coVars, batchVars, mainVars
  <1>5. QED
    BY <1>1, <1>3, <1>4, MoveBatch DEF schedVars, coVars

(* A step that leaves the mutexes alone keeps their invariant if whoever
   waits for one stays where it is, or is resumed. *)
LEMMA WaitersStay ==
  ASSUME AllInv, UNCHANGED mutexVars,
         \A d \in Cid : lock_wait[d] # NoMutex =>
           /\ at'[d] = at[d] /\ OpenBatches(d)' \subseteq OpenBatches(d)
           /\ state'[d] \in {state[d], "run"}
  PROVE  MutexTypes' /\ MutexInv'
  <1> USE DEF AllInv, MutexInv, mutexVars
  <1>1. MutexTypes' /\ FlagAndOwner' /\ QueuedOnce' /\ QueueEntries'
    BY DEF MutexTypes, FlagAndOwner, QueuedOnce, QueueEntries
  <1>2. Waiters'
    BY DEF Waiters
  <1>3. QED
    BY <1>1, <1>2

(* What a coroutine that does not wait does to the rest of the scheduler. *)
LEMMA OtherStepInv ==
  ASSUME AllInv, Orderly, NEW c \in Cid, OtherStep(c)
  PROVE  AllInv'
  <1>1. CoroutineStep(c) /\ UNCHANGED mutexVars /\ lock_wait[c] = NoMutex
    BY DEF OtherStep
  <1>2. SchedInv' /\ BatchInv'
    BY <1>1, CoroutineStepSched, CoroutineStepBatch DEF AllInv
  <1>3. ASSUME NEW d \in Cid, lock_wait[d] # NoMutex
        PROVE  /\ at'[d] = at[d] /\ OpenBatches(d)' \subseteq OpenBatches(d)
               /\ state'[d] \in {state[d], "run"}
    <2> USE DEF AllInv, SchedInv, TypeOK, batchVars, switchVars, OpenBatches
    <2>1. d # c /\ state[d] # "idle"
      BY <1>1, <1>3 DEF MutexInv, Waiters
    <2>2. CASE Yield(c) \/ Return(c)
      BY <2>1, <2>2 DEF Yield, Return, CoroutineYield
    <2>3. CASE Create(c)
      BY <2>1, <2>3 DEF Create, CoroutineCreate, CoroutineInit, Idle
    <2>4. CASE BatchCreate(c)
      BY <2>1, <2>4 DEF BatchCreate
    <2>5. ASSUME NEW b \in Bid, BatchAdd(c, b)
          PROVE  /\ at'[d] = at[d] /\ OpenBatches(d)' \subseteq OpenBatches(d)
                 /\ state'[d] \in {state[d], "run"}
      BY <2>1, <2>5 DEF BatchAdd, CoroutineCreate, CoroutineInit, Idle
    <2>6. ASSUME NEW b \in Bid, BatchRun(c, b) \/ BatchRunEnd(c, b)
          PROVE  /\ at'[d] = at[d] /\ OpenBatches(d)' \subseteq OpenBatches(d)
                 /\ state'[d] \in {state[d], "run"}
      BY <2>1, <2>6 DEF BatchRun, BatchRunEnd, CoroutineYield
    <2>7. QED
      BY <1>1, <2>2, <2>3, <2>4, <2>5, <2>6 DEF CoroutineStep
  <1>4. QED
    BY <1>1, <1>2, <1>3, WaitersStay DEF AllInv

(* The loops of the scheduler and the calls of the main program. *)
LEMMA MasterInv ==
  ASSUME AllInv, LoopStep \/ MainCall, UNCHANGED mutexVars
  PROVE  AllInv'
  <1>1. SchedInv' /\ BatchInv'
    BY LoopStepSched, LoopStepBatch, MainCallSched, MainCallBatch DEF AllInv
  <1>2. ASSUME NEW d \in Cid, lock_wait[d] # NoMutex
        PROVE  /\ at'[d] = at[d] /\ OpenBatches(d)' \subseteq OpenBatches(d)
               /\ state'[d] \in {state[d], "run"}
    <2> USE DEF AllInv, SchedInv, TypeOK, coVars, batchVars, OpenBatches
    <2>1. state[d] # "idle"
      BY <1>2 DEF MutexInv, Waiters
    <2>2. CASE LoopStep
      BY <2>2 DEF LoopStep, RunTest, ScanSkip, ScanResume, ScanEnd, FinishResume,
                  FinishEnd, StartEnd, StartResume, CoroutineResume
    <2>3. CASE MainCall
      BY <2>1, <2>3 DEF MainCall, MainCreate, CoroutineCreate, CoroutineInit, Idle, Run, BatchFinish,
                        ManualResume, CoroutineResume, BatchStart
    <2>4. QED
      BY <2>2, <2>3
  <1>3. QED
    BY <1>1, <1>2, WaitersStay DEF AllInv

(* Taking a free mutex: nobody in its queue owned it, and c, if it is there,
   now does. *)
LEMMA AcquireInv ==
  ASSUME AllInv, NEW c \in Cid, NEW m \in Mutex, Acquire(c, m),
         lock_wait[c] \in {m, NoMutex},
         UNCHANGED <<unvisited, restVars>>, calls' \in [Cid -> Nat]
  PROVE  AllInv'
  <1> USE DEF restVars, batchVars, switchVars, mainVars
  <1>1. /\ ~ lock[m]
        /\ lock' = [lock EXCEPT ![m] = TRUE]
        /\ hold_cid' = [hold_cid EXCEPT ![m] = c]
        /\ lock_wait' = [lock_wait EXCEPT ![c] = NoMutex]
        /\ UNCHANGED <<suspend_cid_list, state, switchVars>>
    BY DEF Acquire
  <1>2. SchedInv'
    BY <1>1 DEF AllInv, SchedInv, TypeOK, ParentValid, SingleRunner, NotIdleCount, Running, Idle
  <1>3. BatchInv'
    <2>1. QueuedParents' /\ ParentsQueued' /\ FreshTasks'
      BY <1>1 DEF AllInv, BatchInv, QueuedParents, ParentsQueued, FreshTasks, Pending,
                  Joined, Unfinished, IsChild
    <2>2. QED
      BY <1>1, <2>1, MoveBatch DEF AllInv
  <1> USE InvalidIds DEF AllInv, MutexTypes
  <1>4. MutexTypes'
    BY <1>1
  <1>5. FlagAndOwner' /\ QueuedOnce'
    BY <1>1 DEF MutexInv, FlagAndOwner, QueuedOnce
  <1>6. QueueEntries'
    <2> SUFFICES ASSUME NEW k \in Mutex, NEW i \in 1 .. Len(suspend_cid_list[k])
                 PROVE  \/ lock_wait'[suspend_cid_list[k][i]] = k
                        \/ hold_cid'[k] = suspend_cid_list[k][i]
      BY <1>1 DEF QueueEntries
    <2>1. PICK d \in Cid : d = suspend_cid_list[k][i]
      OBVIOUS
    <2>2. lock_wait[d] = k \/ hold_cid[k] = d
      BY <2>1 DEF MutexInv, QueueEntries
    <2>3. k = m => hold_cid[k] # d
      BY <1>1, <2>1 DEF MutexInv, FlagAndOwner
    <2>4. QED
      BY <1>1, <2>1, <2>2, <2>3, MutexAssumption
  <1>7. Waiters'
    BY <1>1, MutexAssumption DEF MutexInv, Waiters, OpenBatches
  <1>8. QED
    BY <1>2, <1>3, <1>4, <1>5, <1>6, <1>7 DEF MutexInv

(* Queuing up who is not queued adds that one, and nobody else. *)
LEMMA SuspendQueue ==
  ASSUME MutexTypes, QueuedOnce, NEW c \in Cid, NEW m \in Mutex, Suspend(c, m)
  PROVE  /\ suspend_cid_list' \in [Mutex -> Seq(Cid)]
         /\ \A k \in Mutex : k # m => suspend_cid_list'[k] = suspend_cid_list[k]
         /\ Contains(suspend_cid_list'[m], c)
         /\ \A d : Contains(suspend_cid_list[m], d) => Contains(suspend_cid_list'[m], d)
         /\ \A i \in 1 .. Len(suspend_cid_list'[m]) :
              \/ suspend_cid_list'[m][i] = c
              \/ Contains(suspend_cid_list[m], suspend_cid_list'[m][i])
         /\ \A i, j \in 1 .. Len(suspend_cid_list'[m]) :
              suspend_cid_list'[m][i] = suspend_cid_list'[m][j] => i = j
  <1>1. PICK s \in Seq(Cid) : s = suspend_cid_list[m]
    BY DEF MutexTypes
  <1>2. \A i, j \in 1 .. Len(s) : s[i] = s[j] => i = j
    BY <1>1 DEF QueuedOnce
  <1>3. CASE Contains(s, c)
    <2>1. suspend_cid_list' = suspend_cid_list
      BY <1>1, <1>3 DEF Suspend
    <2>2. \A i \in 1 .. Len(s) : Contains(s, s[i])
      BY DEF Contains
    <2>3. QED
      BY <1>1, <1>2, <1>3, <2>1, <2>2 DEF MutexTypes
  <1>4. CASE ~ Contains(s, c)
    <2>1. PICK t : t = Append(s, c)
      OBVIOUS
    <2>2. /\ t \in Seq(Cid) /\ Len(t) = Len(s) + 1 /\ t[Len(s) + 1] = c
          /\ Len(s) \in Nat /\ \A i \in 1 .. Len(s) : t[i] = s[i]
      BY <2>1, AppendProperties
    <2>3. Contains(t, c) /\ \A d : Contains(s, d) => Contains(t, d)
      BY <2>2 DEF Contains
    <2>4. \A i \in 1 .. Len(t) : t[i] = c \/ Contains(s, t[i])
      BY <2>2 DEF Contains
    <2>5. \A i, j \in 1 .. Len(t) : t[i] = t[j] => i = j
      BY <1>2, <1>4, <2>2 DEF Contains
    <2>6. suspend_cid_list' = [suspend_cid_list EXCEPT ![m] = t]
      BY <1>1, <1>4, <2>1 DEF Suspend
    <2>7. QED
      BY <1>1, <2>2, <2>3, <2>4, <2>5, <2>6 DEF MutexTypes
  <1>5. QED
    BY <1>3, <1>4

(* Queuing up for an owned mutex and going to sleep. *)
LEMMA SuspendInv ==
  ASSUME AllInv, NEW c \in Cid, NEW m \in Mutex, Suspend(c, m),
         lock_wait[c] \in {m, NoMutex}, at[c] = "body", OpenBatches(c) = {},
         UNCHANGED <<unvisited, restVars>>, calls' \in [Cid -> Nat]
  PROVE  AllInv'
  <1> USE DEF restVars
  <1>1. /\ CoroutineYield(c)
        /\ lock_wait' = [lock_wait EXCEPT ![c] = m]
        /\ UNCHANGED <<lock, hold_cid>>
    BY DEF Suspend
  <1>2. SchedInv'
    <2>1. TypeOK' /\ ParentValid'
      BY <1>1, YieldSwitches DEF AllInv, SchedInv, TypeOK, ParentValid, batchVars, mainVars
    <2>2. QED
      BY <1>1, <2>1, YieldSwitches DEF AllInv, SchedInv
  <1>3. BatchInv'
    BY <1>1, SleepBatch DEF AllInv
  <1> USE DEF AllInv, MutexTypes
  <1>4. /\ suspend_cid_list' \in [Mutex -> Seq(Cid)]
        /\ \A k \in Mutex : k # m => suspend_cid_list'[k] = suspend_cid_list[k]
        /\ Contains(suspend_cid_list'[m], c)
        /\ \A d : Contains(suspend_cid_list[m], d) => Contains(suspend_cid_list'[m], d)
        /\ \A i \in 1 .. Len(suspend_cid_list'[m]) :
             \/ suspend_cid_list'[m][i] = c
             \/ Contains(suspend_cid_list[m], suspend_cid_list'[m][i])
        /\ \A i, j \in 1 .. Len(suspend_cid_list'[m]) :
             suspend_cid_list'[m][i] = suspend_cid_list'[m][j] => i = j
    BY SuspendQueue DEF MutexInv
  <1>5. MutexTypes' /\ FlagAndOwner'
    BY <1>1, <1>4 DEF MutexInv, FlagAndOwner
  <1>6. QueuedOnce'
    BY <1>4 DEF MutexInv, QueuedOnce
  <1>7. QueueEntries'
    <2> SUFFICES ASSUME NEW k \in Mutex, NEW i \in 1 .. Len(suspend_cid_list'[k])
                 PROVE  \/ lock_wait'[suspend_cid_list'[k][i]] = k
                        \/ hold_cid[k] = suspend_cid_list'[k][i]
      BY <1>1 DEF QueueEntries
    <2>1. PICK d \in Cid : d = suspend_cid_list'[k][i]
      BY <1>4
    <2>2. CASE d = c /\ k = m
      BY <1>1, <2>1, <2>2
    <2>3. CASE d # c \/ k # m
      <3>1. Contains(suspend_cid_list[k], d)
        <4>1. CASE k = m
          BY <1>4, <2>1, <2>3, <4>1
        <4>2. CASE k # m
          BY <1>4, <2>1, <4>2 DEF Contains
        <4>3. QED
          BY <4>1, <4>2
      <3>2. lock_wait[d] = k \/ hold_cid[k] = d
        BY <3>1 DEF Contains, MutexInv, QueueEntries
      <3>3. QED
        BY <1>1, <2>1, <2>3, <3>2, MutexAssumption
    <2>4. QED
      BY <2>2, <2>3
  <1>8. Waiters'
    <2> SUFFICES ASSUME NEW d \in Cid, lock_wait'[d] # NoMutex
                 PROVE  /\ at[d] = "body" /\ OpenBatches(d) = {}
                        /\ state'[d] \in {"run", "suspend"}
                        /\ state'[d] = "suspend" =>
                             Contains(suspend_cid_list'[lock_wait'[d]], d)
      BY DEF Waiters, OpenBatches, batchVars
    <2>1. state' = [state EXCEPT ![c] = "suspend"] /\ state \in [Cid -> States]
      BY <1>1 DEF CoroutineYield, SchedInv, TypeOK
    <2>2. CASE d = c
      BY <1>1, <1>4, <2>1, <2>2
    <2>3. CASE d # c
      <3>1. lock_wait'[d] = lock_wait[d] /\ state'[d] = state[d]
        BY <1>1, <2>1, <2>3
      <3>2. \A k \in Mutex : Contains(suspend_cid_list[k], d) => Contains(suspend_cid_list'[k], d)
        BY <1>4
      <3>3. QED
        BY <3>1, <3>2 DEF MutexInv, Waiters
    <2>4. QED
      BY <2>2, <2>3
  <1>9. QED
    BY <1>2, <1>3, <1>5, <1>6, <1>7, <1>8 DEF MutexInv

(* The owner releases the mutex, and leaves the queue if it had barged in. *)
LEMMA UnLockInv ==
  ASSUME AllInv, NEW c \in Cid, NEW m \in Mutex, UnLock(c, m)
  PROVE  AllInv'
  <1> USE InvalidIds DEF AllInv, MutexTypes
  <1>1. /\ lock[m] /\ hold_cid[m] = c /\ lock_wait[c] = NoMutex
        /\ lock' = [lock EXCEPT ![m] = FALSE]
        /\ hold_cid' = [hold_cid EXCEPT ![m] = kInvalidCid]
        /\ UNCHANGED <<lock_wait, unvisited, schedVars>>
    BY DEF UnLock, InCode
  <1>2. SchedInv' /\ BatchInv'
    BY <1>1, SchedStays
  <1>3. /\ suspend_cid_list[m] \in Seq(Cid)
        /\ \A i, j \in 1 .. Len(suspend_cid_list[m]) :
             suspend_cid_list[m][i] = suspend_cid_list[m][j] => i = j
    BY DEF MutexInv, QueuedOnce
  <1>4. PICK q : q = RemoveFirst(suspend_cid_list[m], c)
    OBVIOUS
  <1>5. /\ q \in Seq(Cid) /\ ~ Contains(q, c)
        /\ \A d : d # c /\ Contains(suspend_cid_list[m], d) => Contains(q, d)
        /\ \A i \in 1 .. Len(q) : Contains(suspend_cid_list[m], q[i])
        /\ \A i, j \in 1 .. Len(q) : q[i] = q[j] => i = j
    <2> HIDE DEF AllInv, MutexTypes
    <2>1. QED
      BY <1>3, <1>4, EraseOnce
  <1>6. suspend_cid_list' = [suspend_cid_list EXCEPT ![m] = q]
    <2> HIDE DEF AllInv, MutexTypes
    <2>1. QED
      BY <1>4 DEF UnLock
  <1>7. MutexTypes' /\ FlagAndOwner' /\ QueuedOnce'
    BY <1>1, <1>5, <1>6 DEF MutexInv, FlagAndOwner, QueuedOnce
  <1>8. QueueEntries'
    <2>1. ASSUME NEW i \in 1 .. Len(q)
          PROVE  lock_wait[q[i]] = m
      <3>1. q[i] # c /\ Contains(suspend_cid_list[m], q[i])
        BY <1>5 DEF Contains
      <3>2. QED
        BY <1>1, <3>1 DEF Contains, MutexInv, QueueEntries
    <2>2. QED
      BY <1>1, <1>6, <2>1 DEF MutexInv, QueueEntries
  <1>9. Waiters'
    <2>1. \A d \in Cid, k \in Mutex :
            d # c /\ Contains(suspend_cid_list[k], d) => Contains(suspend_cid_list'[k], d)
      BY <1>5, <1>6
    <2>2. QED
      BY <1>1, <2>1 DEF MutexInv, Waiters, OpenBatches, schedVars, coVars, batchVars
  <1>10. QED
    BY <1>2, <1>7, <1>8, <1>9 DEF MutexInv

(* A coroutine asleep in CoMutexLock is not the parent of a batch. *)
LEMMA WaiterNoParent ==
  ASSUME AllInv, NEW c \in Cid, lock_wait[c] # NoMutex
  PROVE  ~ IsParent(c)
  <1> USE DEF AllInv, SchedInv, TypeOK, BatchInv, MutexInv
  <1> SUFFICES ASSUME IsParent(c) PROVE FALSE
    OBVIOUS
  <1>1. PICK b \in Bid : b = relate_bid[c] /\ parent_cid[b] = c
    BY DEF IsParent
  <1>2. at[c] = "body" /\ OpenBatches(c) = {}
    BY DEF Waiters
  <1>3. batch_state[b] # "idle"
    BY <1>1, InvalidIds DEF Related
  <1>4. batch_state[b] # "ready"
    BY <1>1, <1>2 DEF OpenBatches
  <1>5. batch_state[b] # "run"
    BY <1>1, <1>2 DEF ParentInside
  <1>6. QED
    BY <1>3, <1>4, <1>5

(* CoMutexResume takes the first waiter off the queue of a free mutex. *)
LEMMA VisitWakeInv ==
  ASSUME AllInv, NEW m \in Mutex, VisitWake(m)
  PROVE  AllInv'
  <1> USE DEF AllInv, MutexTypes
  <1>1. /\ is_master /\ phase = "sync" /\ ~ lock[m] /\ suspend_cid_list[m] # <<>>
        /\ suspend_cid_list' = [suspend_cid_list EXCEPT ![m] = Tail(@)]
        /\ unvisited' = unvisited \ {m}
        /\ UNCHANGED <<lock, hold_cid, lock_wait, calls, restVars>>
    BY DEF VisitWake, MainAt
  <1>2. suspend_cid_list[m] \in Seq(Cid)
    OBVIOUS
  <1>3. PICK c, q : c = Head(suspend_cid_list[m]) /\ q = Tail(suspend_cid_list[m])
    OBVIOUS
  <1>3a. /\ c \in Cid /\ c = suspend_cid_list[m][1]
         /\ q \in Seq(Cid) /\ Len(suspend_cid_list[m]) = Len(q) + 1
         /\ \A i \in 1 .. Len(q) : q[i] = suspend_cid_list[m][i + 1]
    <2>1. /\ c \in Cid /\ q \in Seq(Cid) /\ Len(q) = Len(suspend_cid_list[m]) - 1
          /\ \A i \in 1 .. Len(q) : q[i] = suspend_cid_list[m][i + 1]
      BY <1>1, <1>2, <1>3, HeadTailProperties
    <2>2. c = suspend_cid_list[m][1]
      BY <1>1, <1>2, <1>3
    <2>3. Len(suspend_cid_list[m]) \in Nat
      BY <1>2
    <2>4. QED
      BY <2>1, <2>2, <2>3
  <1>4. CoroutineResume(c)
    BY <1>3 DEF VisitWake
  <1>5. 1 \in 1 .. Len(suspend_cid_list[m])
    BY <1>3a
  <1>6. lock_wait[c] = m
    <2>1. hold_cid[m] = kInvalidCid
      BY <1>1 DEF MutexInv, FlagAndOwner
    <2>2. lock_wait[c] = m \/ hold_cid[m] = c
      BY <1>5, <1>3a DEF MutexInv, QueueEntries
    <2>3. QED
      BY <1>3a, <2>1, <2>2, InvalidIds
  <1>7. SchedInv'
    BY <1>1, <1>4, ResumeStepSched DEF SchedInv, TypeOK, restVars, mainVars
  <1>8. BatchInv'
    <2>1. ~ IsParent(c)
      BY <1>3a, <1>6, WaiterNoParent, MutexAssumption
    <2>2. /\ UNCHANGED <<at, batchVars, batch_finish_cid_list, phase>>
          /\ phase # "finish" /\ phase # "start"
      BY <1>1 DEF restVars, mainVars
    <2>3. QED
      BY <1>4, <2>1, <2>2, ResumeBatch
  <1>9. suspend_cid_list' = [suspend_cid_list EXCEPT ![m] = q]
    BY <1>1, <1>3
  <1>10. MutexTypes' /\ FlagAndOwner'
    BY <1>1, <1>9, <1>3a DEF MutexInv, FlagAndOwner
  <1>11. QueuedOnce'
    <2>1. ASSUME NEW i \in 1 .. Len(q), NEW j \in 1 .. Len(q), q[i] = q[j]
          PROVE  i = j
      <3>1. /\ i + 1 \in 1 .. Len(suspend_cid_list[m])
            /\ j + 1 \in 1 .. Len(suspend_cid_list[m])
        BY <1>3a
      <3>2. suspend_cid_list[m][i + 1] = suspend_cid_list[m][j + 1]
        BY <1>3a, <2>1
      <3>3. i + 1 = j + 1
        BY <3>1, <3>2 DEF MutexInv, QueuedOnce
      <3>4. QED
        BY <3>3
    <2>2. QED
      BY <1>9, <1>3a, <2>1 DEF MutexInv, QueuedOnce
  <1>12. QueueEntries'
    <2>1. ASSUME NEW i \in 1 .. Len(q)
          PROVE  lock_wait[q[i]] = m \/ hold_cid[m] = q[i]
      <3>1. i + 1 \in 1 .. Len(suspend_cid_list[m])
        BY <1>3a
      <3>2. QED
        BY <1>3a, <3>1 DEF MutexInv, QueueEntries
    <2>2. QED
      BY <1>1, <1>9, <1>3a, <2>1 DEF MutexInv, QueueEntries
  <1>13. Waiters'
    <2>1. state' = [state EXCEPT ![c] = "run"]
      BY <1>4 DEF CoroutineResume
    <2>2. ASSUME NEW d \in Cid, d # c, Contains(suspend_cid_list[m], d)
          PROVE  Contains(q, d)
      <3>1. PICK i \in 1 .. Len(suspend_cid_list[m]) : suspend_cid_list[m][i] = d
        BY <2>2 DEF Contains
      <3>2. i - 1 \in 1 .. Len(q) /\ (i - 1) + 1 = i
        BY <1>3a, <2>2, <3>1
      <3>3. q[i - 1] = d
        BY <1>3a, <3>1, <3>2
      <3>4. QED
        BY <3>2, <3>3 DEF Contains
    <2>3. \A d \in Cid, k \in Mutex :
            d # c /\ Contains(suspend_cid_list[k], d) => Contains(suspend_cid_list'[k], d)
      BY <1>9, <1>3a, <2>2
    <2>4. QED
      BY <1>1, <2>1, <2>3
      DEF MutexInv, Waiters, OpenBatches, SchedInv, TypeOK, restVars, batchVars
  <1>14. QED
    BY <1>7, <1>8, <1>10, <1>11, <1>12, <1>13 DEF MutexInv

(* A visit of CoMutexResume that wakes nobody, its end, and its call. *)
LEMMA VisitOtherInv ==
  ASSUME AllInv, VisitEnd \/ CoMutexResume \/ \E m \in Mutex : VisitSkip(m)
  PROVE  AllInv'
  <1>1. CASE \E m \in Mutex : VisitSkip(m)
    <2>1. UNCHANGED <<schedVars, lock, hold_cid, suspend_cid_list, lock_wait>>
      BY <1>1 DEF VisitSkip
    <2>2. unvisited' \subseteq Mutex
      BY <1>1 DEF VisitSkip, AllInv, MutexTypes
    <2>3. SchedInv' /\ BatchInv'
      BY <2>1, SchedStays DEF AllInv
    <2>4. MutexTypes' /\ FlagAndOwner' /\ QueuedOnce' /\ QueueEntries'
      BY <2>1, <2>2 DEF AllInv, MutexTypes, MutexInv, FlagAndOwner, QueuedOnce, QueueEntries
    <2>5. Waiters'
      BY <2>1 DEF AllInv, MutexInv, Waiters, OpenBatches, schedVars, coVars, batchVars
    <2>6. QED
      BY <2>3, <2>4, <2>5 DEF AllInv, MutexInv
  <1>2. CASE VisitEnd \/ CoMutexResume
    <2>1. /\ UNCHANGED <<lock, hold_cid, suspend_cid_list, lock_wait, idx, todo, in_run,
                         coVars, batchVars, switchVars, not_idle_count,
                         batch_finish_cid_list, created>>
          /\ phase \in {"main", "sync"} /\ phase' \in {"main", "sync", "test"}
          /\ unvisited' \in {unvisited, Mutex}
      BY <1>2 DEF VisitEnd, CoMutexResume, MainAt, mutexVars
    <2>2. SchedInv'
      BY <2>1, MoveStepSched DEF AllInv, SchedInv, TypeOK, Phases
    <2>3. BatchInv'
      BY <2>1, MoveBatch, MoveQueue DEF AllInv, FreshTasks, coVars
    <2>4. MutexTypes' /\ FlagAndOwner' /\ QueuedOnce' /\ QueueEntries'
      BY <2>1 DEF AllInv, MutexTypes, MutexInv, FlagAndOwner, QueuedOnce, QueueEntries
    <2>5. Waiters'
      BY <2>1 DEF AllInv, MutexInv, Waiters, OpenBatches, coVars, batchVars
    <2>6. QED
      BY <2>2, <2>3, <2>4, <2>5 DEF AllInv, MutexInv
  <1>3. QED
    BY <1>1, <1>2

(* The operations of a coroutine on a mutex. *)
LEMMA MutexStepInv ==
  ASSUME AllInv, Orderly, NEW c \in Cid, MutexStep(c)
  PROVE  AllInv'
  <1>1. PICK m \in Mutex : Lock(c, m) \/ LockAgain(c, m) \/ TryLock(c, m) \/ UnLock(c, m)
    BY DEF MutexStep
  <1>2. CASE Lock(c, m) \/ TryLock(c, m)
    <2>1. /\ lock_wait[c] = NoMutex /\ at[c] = "body"
          /\ calls' \in [Cid -> Nat]
          /\ UNCHANGED <<unvisited, restVars>>
      <3>1. calls \in [Cid -> Nat]
        BY DEF AllInv, SchedInv, TypeOK
      <3>2. calls' = [calls EXCEPT ![c] = @ + 1]
        BY <1>2 DEF Lock, TryLock
      <3>3. calls' \in [Cid -> Nat]
        BY <3>1, <3>2
      <3>4. QED
        BY <1>2, <3>3 DEF Lock, TryLock, InCode, InBody
    <2>2. CASE Acquire(c, m)
      BY <2>1, <2>2, AcquireInv
    <2>3. CASE Suspend(c, m) /\ Lock(c, m)
      <3>1. OpenBatches(c) = {}
        BY <2>3 DEF Lock, Disciplined, Orderly
      <3>2. QED
        BY <2>1, <2>3, <3>1, SuspendInv
    <2>4. QED
      BY <1>2, <2>2, <2>3 DEF Lock, TryLock
  <1>3. CASE LockAgain(c, m)
    <2>1. /\ lock_wait[c] = m /\ calls' \in [Cid -> Nat]
          /\ UNCHANGED <<unvisited, restVars>>
      BY <1>3 DEF LockAgain, AllInv, SchedInv, TypeOK
    <2>2. at[c] = "body" /\ OpenBatches(c) = {}
      BY <2>1, MutexAssumption DEF AllInv, MutexInv, Waiters
    <2>3. QED
      BY <1>3, <2>1, <2>2, AcquireInv, SuspendInv DEF LockAgain
  <1>4. CASE UnLock(c, m)
    BY <1>4, UnLockInv
  <1>5. QED
    BY <1>1, <1>2, <1>3, <1>4

(* Every step of coroutines and main program keeps the whole invariant. *)
LEMMA AllStep ==
  ASSUME AllInv, Orderly, [MutexNext]_vars
  PROVE  AllInv'
  <1>1. CASE UNCHANGED vars
    <2>1. UNCHANGED schedVars /\ UNCHANGED mutexVars
      BY <1>1 DEF vars
    <2>2. SchedInv' /\ BatchInv'
      BY <2>1, SchedStays DEF AllInv
    <2>3. MutexTypes' /\ MutexInv'
      BY <2>1, WaitersStay DEF schedVars, coVars, batchVars, OpenBatches
    <2>4. QED
      BY <2>2, <2>3 DEF AllInv
  <1>2. CASE ThreadStep
    BY <1>2, MasterInv, VisitOtherInv, VisitWakeInv, MutexStepInv, OtherStepInv
    DEF ThreadStep, VisitStep
  <1>3. CASE CoMutexResume
    BY <1>3, VisitOtherInv
  <1>4. CASE OtherCall
    BY <1>4, MasterInv DEF OtherCall, MainCall
  <1>5. QED
    BY <1>1, <1>2, <1>3, <1>4 DEF MutexNext

(* Under whatever coroutines do with mutexes and, in the orderly way, with
   batches, the accounts of the scheduler, the batches and the mutexes are
   right in every reachable state. *)
LEMMA AllInvHolds == ASSUME Orderly PROVE MutexSpec => []AllInv
  <1>1. AllInv /\ [MutexNext]_vars => AllInv'
    BY AllStep
  <1>2. QED
    BY <1>1, AllInit, PTL DEF MutexSpec

(* The flags, owners and queues of the mutexes have their types and keep their
   accounts, and the batches keep theirs, while the coroutines use both. *)
THEOREM MutexAccounts ==
  ASSUME Orderly
  PROVE  MutexSpec => [](MutexTypeOK /\ BatchInv /\ MutexInv)
  <1>1. AllInv => MutexTypeOK /\ BatchInv /\ MutexInv
    BY DEF AllInv, SchedInv, MutexTypes, MutexTypeOK
  <1>2. QED
    BY <1>1, AllInvHolds, PTL

-----------------------------------------------------------------------------
(* A queue that contains a waiter, and nobody twice, contains it once. *)
LEMMA WaiterQueuedFromInv ==
  ASSUME AllInv
  PROVE  WaiterQueued
  <1> SUFFICES ASSUME NEW c \in Cid, NEW m \in Mutex, lock_wait[c] = m, state[c] = "suspend"
               PROVE  Cardinality({i \in 1 .. Len(suspend_cid_list[m]) :
                                    suspend_cid_list[m][i] = c}) = 1
    BY DEF WaiterQueued
  <1>1. Contains(suspend_cid_list[m], c)
    BY MutexAssumption DEF AllInv, MutexInv, Waiters
  <1>2. PICK k \in 1 .. Len(suspend_cid_list[m]) : suspend_cid_list[m][k] = c
    BY <1>1 DEF Contains
  <1>3. {i \in 1 .. Len(suspend_cid_list[m]) : suspend_cid_list[m][i] = c} = {k}
    BY <1>2 DEF AllInv, MutexInv, QueuedOnce
  <1>4. QED
    BY <1>3, FS_Singleton

(* The queue of a free mutex holds sleepers that may be resumed. *)
LEMMA QueueOfWaitersFromInv ==
  ASSUME AllInv
  PROVE  QueueOfWaiters
  <1> SUFFICES ASSUME is_master, NEW m \in Mutex, ~ lock[m],
                      NEW i \in 1 .. Len(suspend_cid_list[m]), NEW c,
                      c = suspend_cid_list[m][i]
               PROVE  lock_wait[c] = m /\ ResumeAssert(c)
    BY DEF QueueOfWaiters
  <1>1. c \in Cid
    BY DEF AllInv, MutexTypes
  <1>2. hold_cid[m] # c
    BY <1>1, InvalidIds DEF AllInv, MutexInv, FlagAndOwner
  <1>3. lock_wait[c] = m
    BY <1>2 DEF AllInv, MutexInv, QueueEntries
  <1>4. state[c] = "suspend"
    BY <1>1, <1>3, MutexAssumption
    DEF AllInv, MutexInv, Waiters, SchedInv, SingleRunner, Running
  <1>5. ~ IsParent(c)
    BY <1>1, <1>3, WaiterNoParent, MutexAssumption
  <1>6. QED
    BY <1>1, <1>3, <1>4, <1>5 DEF ResumeAssert

(* No waiter is lost: a coroutine asleep in CoMutexLock is in the queue
   exactly once, and what CoMutexResume may find in the queue of a free mutex
   sleeps in its CoMutexLock and may be resumed. *)
THEOREM NoWaiterLost ==
  ASSUME Orderly
  PROVE  MutexSpec => [](WaiterQueued /\ QueueOfWaiters)
  <1>1. AllInv => WaiterQueued /\ QueueOfWaiters
    BY WaiterQueuedFromInv, QueueOfWaitersFromInv
  <1>2. QED
    BY <1>1, AllInvHolds, PTL

(***************************************************************************)
(* The refinement: every step of the program is a step of the abstract     *)
(* mutexes, or leaves owners and waiters alone.                            *)
(***************************************************************************)
LEMMA AbstractInit == MutexInit => Abstract!Init
  BY DEF MutexInit, Abstract!Init

(* Every step is a step of AbstractMutex, or changes neither owner nor waits. *)
LEMMA AbstractStep ==
  ASSUME AllInv, [MutexNext]_vars
  PROVE  [Abstract!Next]_<<hold_cid, lock_wait>>
  <1> USE DEF AllInv, MutexTypes
  <1>1. CASE UNCHANGED vars \/ CoMutexResume \/ OtherCall
    BY <1>1 DEF vars, CoMutexResume, OtherCall, mutexVars
  <1>2. CASE VisitStep \/ (LoopStep /\ UNCHANGED mutexVars)
    BY <1>2 DEF VisitStep, VisitEnd, VisitSkip, VisitWake, mutexVars
  <1>3. ASSUME NEW c \in Cid, OtherStep(c)
        PROVE  UNCHANGED <<hold_cid, lock_wait>>
    BY <1>3 DEF OtherStep, mutexVars
  <1>4. ASSUME NEW c \in Cid, NEW m \in Mutex, Acquire(c, m), lock_wait[c] \in {m, NoMutex}
        PROVE  Abstract!Next
    <2>1. hold_cid[m] = kInvalidCid
      BY <1>4 DEF Acquire, MutexInv, FlagAndOwner
    <2>2. Abstract!Grant(c, m)
      BY <1>4, <2>1 DEF Acquire, Abstract!Grant
    <2>3. QED
      BY <2>2 DEF Abstract!Next
  <1>5. ASSUME NEW c \in Cid, NEW m \in Mutex, Suspend(c, m), lock_wait[c] \in {m, NoMutex}
        PROVE  Abstract!Next \/ UNCHANGED <<hold_cid, lock_wait>>
    <2>1. hold_cid[m] \notin {kInvalidCid, c}
      BY <1>5 DEF Suspend, MutexInv, FlagAndOwner
    <2>2. lock_wait' = [lock_wait EXCEPT ![c] = m] /\ UNCHANGED hold_cid
      BY <1>5 DEF Suspend
    <2>3. CASE lock_wait[c] = NoMutex
      <3>1. Abstract!Request(c, m)
        BY <2>1, <2>2, <2>3 DEF Abstract!Request
      <3>2. QED
        BY <3>1 DEF Abstract!Next
    <2>4. CASE lock_wait[c] = m
      BY <2>2, <2>4
    <2>5. QED
      BY <1>5, <2>3, <2>4
  <1>6. ASSUME NEW c \in Cid, NEW m \in Mutex, UnLock(c, m)
        PROVE  Abstract!Next
    <2>1. Abstract!Release(c, m)
      BY <1>6 DEF UnLock, InCode, Abstract!Release
    <2>2. QED
      BY <2>1 DEF Abstract!Next
  <1>7. ASSUME NEW c \in Cid, MutexStep(c)
        PROVE  Abstract!Next \/ UNCHANGED <<hold_cid, lock_wait>>
    BY <1>4, <1>5, <1>6, <1>7 DEF MutexStep, Lock, LockAgain, TryLock, InCode
  <1>8. QED
    BY <1>1, <1>2, <1>3, <1>7 DEF MutexNext, ThreadStep

(* The coroutine mutex implements the abstract one: under every interleaving
   of coroutines, spurious resumes by Run's scan included, a mutex has one
   owner, goes only to who asks for it while it is free, and who waits does
   nothing else until it has it. *)
THEOREM MutexRefines == ASSUME Orderly PROVE MutexSpec => ImplementsMutex
  <1>1. AllInv /\ [MutexNext]_vars => [Abstract!Next]_<<hold_cid, lock_wait>>
    BY AbstractStep
  <1>2. QED
    BY <1>1, AbstractInit, AllInvHolds, PTL DEF MutexSpec, ImplementsMutex, Abstract!Spec

-----------------------------------------------------------------------------
(***************************************************************************)
(* The order of service, outside Run.                                      *)
(***************************************************************************)
(* A waiter that is awake has left its queue: only CoMutexResume wakes it,
   and takes it off the queue first.  Under Run the scan wakes it as well. *)
AwakeLeft ==
  \A c \in Cid : lock_wait[c] # NoMutex /\ state[c] = "run" =>
    ~ Contains(suspend_cid_list[lock_wait[c]], c)

(* Nobody waits for a mutex that it owns. *)
NotItsOwner == \A c \in Cid : lock_wait[c] # NoMutex => hold_cid[lock_wait[c]] # c

OutOfRun == ~ in_run /\ phase \notin {"test", "scan"}

OrderInv == AwakeLeft /\ NotItsOwner /\ OutOfRun

LEMMA OrderInit == MutexInit => OrderInv
  BY DEF MutexInit, Init, OrderInv, AwakeLeft, NotItsOwner, OutOfRun

(* A step that leaves the mutexes alone and wakes no waiter. *)
LEMMA OrderStays ==
  ASSUME AllInv, OrderInv, UNCHANGED mutexVars, OutOfRun',
         \A d \in Cid : lock_wait[d] # NoMutex /\ state'[d] = "run" => state[d] = "run"
  PROVE  OrderInv' /\ InTurn
  <1>1. AwakeLeft' /\ NotItsOwner'
    BY DEF OrderInv, AwakeLeft, NotItsOwner, mutexVars
  <1>2. InTurn
    BY MutexAssumption DEF OrderInv, NotItsOwner, InTurn, mutexVars
  <1>3. QED
    BY <1>1, <1>2 DEF OrderInv

(* A coroutine gets a mutex: it is not in the queue, or has never waited. *)
LEMMA AcquireOrder ==
  ASSUME AllInv, OrderInv, NEW c \in Cid, NEW m \in Mutex, Acquire(c, m), state[c] = "run",
         UNCHANGED <<phase, in_run>>
  PROVE  OrderInv' /\ InTurn
  <1> USE DEF AllInv, MutexTypes
  <1>1. /\ hold_cid' = [hold_cid EXCEPT ![m] = c]
        /\ lock_wait' = [lock_wait EXCEPT ![c] = NoMutex]
        /\ UNCHANGED <<suspend_cid_list, state>>
    BY DEF Acquire
  <1>2. AwakeLeft' /\ OutOfRun'
    BY <1>1 DEF OrderInv, AwakeLeft, OutOfRun
  <1>3. NotItsOwner'
    BY <1>1 DEF OrderInv, NotItsOwner
  <1>4. InTurn
    <2> SUFFICES ASSUME NEW k \in Mutex, NEW d \in Cid,
                        lock_wait[d] = k, Contains(suspend_cid_list[k], d),
                        hold_cid'[k] = d
                 PROVE  FALSE
      BY <1>1 DEF InTurn
    <2>1. hold_cid[k] # d
      BY MutexAssumption DEF OrderInv, NotItsOwner
    <2>2. k = m /\ d = c
      BY <1>1, <2>1
    <2>3. QED
      BY <2>2, MutexAssumption DEF OrderInv, AwakeLeft
  <1>5. QED
    BY <1>2, <1>3, <1>4 DEF OrderInv

(* A coroutine queues up and goes to sleep. *)
LEMMA SuspendOrder ==
  ASSUME AllInv, OrderInv, NEW c \in Cid, NEW m \in Mutex, Suspend(c, m),
         UNCHANGED <<phase, in_run>>
  PROVE  OrderInv' /\ InTurn
  <1> USE DEF AllInv, MutexTypes
  <1>1. /\ hold_cid[m] # c /\ UNCHANGED hold_cid
        /\ lock_wait' = [lock_wait EXCEPT ![c] = m]
        /\ state' = [state EXCEPT ![c] = "suspend"]
    BY DEF Suspend, CoroutineYield
  <1>2. /\ suspend_cid_list' \in [Mutex -> Seq(Cid)]
        /\ \A k \in Mutex : k # m => suspend_cid_list'[k] = suspend_cid_list[k]
        /\ \A d : Contains(suspend_cid_list[m], d) => Contains(suspend_cid_list'[m], d)
        /\ \A i \in 1 .. Len(suspend_cid_list'[m]) :
             \/ suspend_cid_list'[m][i] = c
             \/ Contains(suspend_cid_list[m], suspend_cid_list'[m][i])
    BY SuspendQueue DEF MutexInv
  <1>3. AwakeLeft'
    <2> SUFFICES ASSUME NEW d \in Cid, lock_wait'[d] # NoMutex, state'[d] = "run",
                        Contains(suspend_cid_list'[lock_wait'[d]], d)
                 PROVE  FALSE
      BY DEF AwakeLeft
    <2>1. state \in [Cid -> States]
      BY DEF SchedInv, TypeOK
    <2>2. d # c /\ lock_wait'[d] = lock_wait[d] /\ state[d] = "run"
      BY <1>1, <2>1
    <2>3. PICK k \in Mutex : k = lock_wait[d]
      BY <2>2
    <2>4. Contains(suspend_cid_list[k], d)
      <3>1. CASE k = m
        BY <1>2, <2>2, <2>3, <3>1 DEF Contains
      <3>2. CASE k # m
        BY <1>2, <2>2, <2>3, <3>2
      <3>3. QED
        BY <3>1, <3>2
    <2>5. QED
      BY <2>2, <2>3, <2>4 DEF OrderInv, AwakeLeft
  <1>4. NotItsOwner' /\ OutOfRun'
    BY <1>1 DEF OrderInv, NotItsOwner, OutOfRun
  <1>5. InTurn
    <2>1. \A k \in Mutex, d \in Cid :
            Contains(suspend_cid_list[k], d) => Contains(suspend_cid_list'[k], d)
      BY <1>2
    <2>2. QED
      BY <1>1, <2>1, MutexAssumption DEF OrderInv, NotItsOwner, InTurn
  <1>6. QED
    BY <1>3, <1>4, <1>5 DEF OrderInv

(* The owner, who does not wait, leaves the queue. *)
LEMMA UnLockOrder ==
  ASSUME AllInv, OrderInv, NEW c \in Cid, NEW m \in Mutex, UnLock(c, m)
  PROVE  OrderInv' /\ InTurn
  <1> USE DEF AllInv, MutexTypes
  <1>1. /\ lock_wait[c] = NoMutex
        /\ hold_cid' = [hold_cid EXCEPT ![m] = kInvalidCid]
        /\ UNCHANGED <<lock_wait, schedVars>>
    BY DEF UnLock, InCode
  <1>2. PICK q : q = RemoveFirst(suspend_cid_list[m], c)
    OBVIOUS
  <1>3. suspend_cid_list' = [suspend_cid_list EXCEPT ![m] = q]
    BY <1>2 DEF UnLock
  <1>4. /\ \A d : d # c /\ Contains(suspend_cid_list[m], d) => Contains(q, d)
        /\ \A i \in 1 .. Len(q) : Contains(suspend_cid_list[m], q[i])
    <2>1. /\ suspend_cid_list[m] \in Seq(Cid)
          /\ \A i, j \in 1 .. Len(suspend_cid_list[m]) :
               suspend_cid_list[m][i] = suspend_cid_list[m][j] => i = j
      BY DEF MutexInv, QueuedOnce
    <2> HIDE DEF AllInv, MutexTypes
    <2>2. QED
      BY <1>2, <2>1, EraseOnce
  <1>5. \A d : Contains(q, d) => Contains(suspend_cid_list[m], d)
    BY <1>4 DEF Contains
  <1>6. \A k \in Mutex, d \in Cid :
          Contains(suspend_cid_list'[k], d) => Contains(suspend_cid_list[k], d)
    BY <1>3, <1>5
  <1>7. AwakeLeft'
    BY <1>1, <1>6 DEF OrderInv, AwakeLeft, schedVars, coVars
  <1>8. NotItsOwner' /\ OutOfRun'
    BY <1>1, InvalidIds DEF OrderInv, NotItsOwner, OutOfRun, schedVars, mainVars
  <1>9. InTurn
    <2>1. \A k \in Mutex, d \in Cid :
            d # c /\ Contains(suspend_cid_list[k], d) => Contains(suspend_cid_list'[k], d)
      BY <1>3, <1>4
    <2>2. QED
      BY <1>1, <2>1, InvalidIds, MutexAssumption DEF OrderInv, NotItsOwner, InTurn
  <1>10. QED
    BY <1>7, <1>8, <1>9 DEF OrderInv

(* CoMutexResume wakes the first of a queue, which names nobody twice. *)
LEMMA VisitWakeOrder ==
  ASSUME AllInv, OrderInv, NEW m \in Mutex, VisitWake(m)
  PROVE  OrderInv' /\ InTurn
  <1> USE DEF AllInv, MutexTypes
  <1>1. /\ suspend_cid_list[m] # <<>> /\ UNCHANGED <<hold_cid, lock_wait, restVars>>
        /\ ~ lock[m]
    BY DEF VisitWake
  <1>2. PICK c, q : c = Head(suspend_cid_list[m]) /\ q = Tail(suspend_cid_list[m])
    OBVIOUS
  <1>3. /\ c \in Cid /\ c = suspend_cid_list[m][1]
        /\ q \in Seq(Cid) /\ Len(suspend_cid_list[m]) = Len(q) + 1
        /\ \A i \in 1 .. Len(q) : q[i] = suspend_cid_list[m][i + 1]
    <2>1. suspend_cid_list[m] \in Seq(Cid)
      OBVIOUS
    <2>2. /\ c \in Cid /\ q \in Seq(Cid) /\ Len(q) = Len(suspend_cid_list[m]) - 1
          /\ \A i \in 1 .. Len(q) : q[i] = suspend_cid_list[m][i + 1]
      BY <1>1, <1>2, <2>1, HeadTailProperties
    <2>3. c = suspend_cid_list[m][1] /\ Len(suspend_cid_list[m]) \in Nat
      BY <1>1, <1>2, <2>1
    <2>4. QED
      BY <2>2, <2>3
  <1>4. suspend_cid_list' = [suspend_cid_list EXCEPT ![m] = q]
    BY <1>2 DEF VisitWake
  <1>5. state' = [state EXCEPT ![c] = "run"]
    BY <1>2 DEF VisitWake, CoroutineResume
  <1>6. 1 \in 1 .. Len(suspend_cid_list[m]) /\ \A i \in 1 .. Len(q) : i + 1 \in 1 .. Len(suspend_cid_list[m])
    BY <1>3
  <1>7. ~ Contains(q, c)
    <2> SUFFICES ASSUME NEW i \in 1 .. Len(q), q[i] = c PROVE FALSE
      BY DEF Contains
    <2>1. i + 1 = 1
      BY <1>3, <1>6 DEF MutexInv, QueuedOnce
    <2>2. QED
      BY <2>1
  <1>8. \A d : d # c /\ Contains(suspend_cid_list[m], d) => Contains(q, d)
    <2> SUFFICES ASSUME NEW i \in 1 .. Len(suspend_cid_list[m]), suspend_cid_list[m][i] # c
                 PROVE  Contains(q, suspend_cid_list[m][i])
      BY DEF Contains
    <2>1. i - 1 \in 1 .. Len(q) /\ (i - 1) + 1 = i
      BY <1>3
    <2>2. QED
      BY <1>3, <2>1 DEF Contains
  <1>9. \A d : Contains(q, d) => Contains(suspend_cid_list[m], d)
    BY <1>3, <1>6 DEF Contains
  <1>10. lock_wait[c] = m
    <2>1. hold_cid[m] = kInvalidCid
      BY <1>1 DEF MutexInv, FlagAndOwner
    <2>2. lock_wait[c] = m \/ hold_cid[m] = c
      BY <1>3, <1>6 DEF MutexInv, QueueEntries
    <2>3. QED
      BY <1>3, <2>1, <2>2, InvalidIds
  <1>11. AwakeLeft'
    BY <1>1, <1>4, <1>5, <1>7, <1>9, <1>10 DEF OrderInv, AwakeLeft, SchedInv, TypeOK
  <1>12. NotItsOwner' /\ OutOfRun'
    BY <1>1 DEF OrderInv, NotItsOwner, OutOfRun, restVars, mainVars
  <1>13. InTurn
    BY <1>1, <1>2, <1>4, <1>8, MutexAssumption DEF OrderInv, NotItsOwner, InTurn
  <1>14. QED
    BY <1>11, <1>12, <1>13 DEF OrderInv

(* The loops and the main program: whoever they resume does not wait. *)
LEMMA CallsWakeNoWaiter ==
  ASSUME AllInv, OrderInv, ~ in_run', LoopStep \/ OtherCall
  PROVE  /\ OutOfRun'
         /\ \A d \in Cid : lock_wait[d] # NoMutex /\ state'[d] = "run" => state[d] = "run"
  <1> USE DEF AllInv, SchedInv, TypeOK, mainVars, MainAt
  <1>1. OutOfRun'
    BY DEF OrderInv, OutOfRun, LoopStep, OtherCall, RunTest, ScanSkip, ScanResume, ScanEnd,
           FinishResume, FinishEnd, StartEnd, StartResume, MainCreate, Run, BatchFinish,
           ManualResume, BatchStart
  <1> SUFFICES ASSUME NEW d \in Cid, lock_wait[d] # NoMutex, state'[d] = "run", state[d] # "run"
               PROVE  FALSE
    BY <1>1
  <1>2. state[d] = "suspend" /\ ~ IsParent(d)
    BY WaiterNoParent DEF MutexInv, Waiters
  <1>3. CASE FinishResume
    <2>1. d = batch_finish_cid_list[idx]
      BY <1>3 DEF FinishResume, CoroutineResume
    <2>2. at[d] = "body"
      BY DEF MutexInv, Waiters
    <2>3. idx \in Pending
      BY <1>3 DEF FinishResume, Pending, BatchInv, QueuedParents
    <2>4. QED
      BY <2>1, <2>2, <2>3 DEF BatchInv, QueuedParents, Joined
  <1>4. CASE \E n \in Cid : StartResume(n)
    BY <1>2, <1>4 DEF StartResume, CoroutineResume, BatchInv, FreshTasks
  <1>5. CASE RunTest \/ ScanSkip \/ ScanResume \/ ScanEnd \/ FinishEnd \/ StartEnd
    BY <1>5 DEF OrderInv, OutOfRun, RunTest, ScanSkip, ScanResume, ScanEnd, FinishEnd, StartEnd, coVars
  <1>6. CASE OtherCall
    BY <1>6 DEF OtherCall, MainCreate, CoroutineCreate, CoroutineInit, Run, BatchFinish,
                ManualResume, BatchStart, CoroutineResume, coVars
  <1>7. QED
    BY <1>3, <1>4, <1>5, <1>6 DEF LoopStep

(* A coroutine that does something else wakes nobody at all. *)
LEMMA OtherWakesNobody ==
  ASSUME AllInv, OrderInv, NEW c \in Cid, OtherStep(c)
  PROVE  /\ OutOfRun'
         /\ \A d \in Cid : state'[d] = "run" => state[d] = "run"
  <1> USE DEF AllInv, SchedInv, TypeOK, mainVars
  <1>1. UNCHANGED <<phase, in_run>>
    BY DEF OtherStep, CoroutineStep, Yield, Create, BatchCreate, Return, BatchAdd, BatchRun,
           BatchRunEnd
  <1>2. \A d \in Cid : state'[d] = "run" => state[d] = "run"
    BY DEF OtherStep, CoroutineStep, Yield, Create, BatchCreate, Return, BatchAdd, BatchRun,
           BatchRunEnd, CoroutineCreate, CoroutineInit, CoroutineYield
  <1>3. QED
    BY <1>1, <1>2 DEF OrderInv, OutOfRun

(* A step outside Run, or the one that calls it. *)
LEMMA OrderStep ==
  ASSUME AllInv, OrderInv, [MutexNext]_vars
  PROVE  (in_run' \/ OrderInv') /\ (InTurn \/ UNCHANGED vars)
  <1>1. CASE UNCHANGED vars
    <2>1. UNCHANGED <<mutexVars, state, phase, in_run>>
      BY <1>1 DEF vars, schedVars, coVars, mainVars
    <2>2. QED
      BY <2>1, OrderStays DEF OrderInv, OutOfRun
  <1>2. CASE (LoopStep /\ UNCHANGED mutexVars) \/ OtherCall
    <2>1. UNCHANGED mutexVars
      BY <1>2 DEF OtherCall
    <2>2. InTurn
      BY <2>1, MutexAssumption DEF OrderInv, NotItsOwner, InTurn, mutexVars
    <2>3. CASE ~ in_run'
      BY <1>2, <2>1, <2>3, CallsWakeNoWaiter, OrderStays
    <2>4. QED
      BY <2>2, <2>3
  <1>3. CASE CoMutexResume \/ VisitEnd \/ \E m \in Mutex : VisitSkip(m)
    <2>1. UNCHANGED <<lock, hold_cid, suspend_cid_list, lock_wait, state, in_run>>
      BY <1>3 DEF CoMutexResume, VisitEnd, VisitSkip, mutexVars, coVars, schedVars, mainVars
    <2>2. OutOfRun'
      BY <1>3 DEF OrderInv, OutOfRun, CoMutexResume, VisitEnd, VisitSkip, schedVars, mainVars
    <2>3. OrderInv'
      BY <2>1, <2>2 DEF OrderInv, AwakeLeft, NotItsOwner
    <2>4. InTurn
      BY <2>1, MutexAssumption DEF OrderInv, NotItsOwner, InTurn
    <2>5. QED
      BY <2>3, <2>4
  <1>4. CASE \E m \in Mutex : VisitWake(m)
    BY <1>4, VisitWakeOrder
  <1>5. ASSUME NEW c \in Cid, OtherStep(c)
        PROVE  OrderInv' /\ InTurn
    <2>1. UNCHANGED mutexVars
      BY <1>5 DEF OtherStep
    <2>2. QED
      BY <1>5, <2>1, OtherWakesNobody, OrderStays
  <1>6. ASSUME NEW c \in Cid, NEW m \in Mutex, Lock(c, m) \/ LockAgain(c, m) \/ TryLock(c, m)
        PROVE  OrderInv' /\ InTurn
    <2>1. Acquire(c, m) \/ Suspend(c, m)
      BY <1>6 DEF Lock, LockAgain, TryLock
    <2>2. Running(c) /\ UNCHANGED <<phase, in_run>>
      BY <1>6 DEF Lock, LockAgain, TryLock, InCode, InBody, restVars, mainVars
    <2>3. state[c] = "run"
      BY <2>2 DEF AllInv, SchedInv, SingleRunner
    <2>4. QED
      BY <2>1, <2>2, <2>3, AcquireOrder, SuspendOrder
  <1>7. ASSUME NEW c \in Cid, NEW m \in Mutex, UnLock(c, m)
        PROVE  OrderInv' /\ InTurn
    BY <1>7, UnLockOrder
  <1>8. QED
    BY <1>1, <1>2, <1>3, <1>4, <1>5, <1>6, <1>7 DEF MutexNext, ThreadStep, VisitStep, MutexStep

(* Run returns when nobody is left, hence nobody waits. *)
LEMMA RunEnds ==
  ASSUME AllInv, in_run, ~ in_run', [MutexNext]_vars
  PROVE  OrderInv'
  <1> USE DEF AllInv, SchedInv, TypeOK, mainVars
  <1>1. RunTest /\ UNCHANGED mutexVars
    <2>1. CASE UNCHANGED vars
      BY <2>1 DEF vars, schedVars
    <2>2. ASSUME NEW c \in Cid, OtherStep(c) PROVE FALSE
      BY <2>2 DEF OtherStep, CoroutineStep, Yield, Create, BatchCreate, Return, BatchAdd,
                  BatchRun, BatchRunEnd
    <2>3. ASSUME NEW c \in Cid, MutexStep(c) PROVE FALSE
      BY <2>3 DEF MutexStep, Lock, LockAgain, TryLock, UnLock, restVars, schedVars
    <2>4. CASE VisitStep \/ CoMutexResume \/ OtherCall
      BY <2>4 DEF VisitStep, VisitEnd, VisitSkip, VisitWake, CoMutexResume, OtherCall,
                  MainCreate, Run, BatchFinish, ManualResume, BatchStart, restVars, schedVars
    <2>5. CASE LoopStep /\ UNCHANGED mutexVars
      BY <2>5 DEF LoopStep, ScanSkip, ScanResume, ScanEnd, FinishResume, FinishEnd, StartEnd,
                  StartResume
    <2>6. QED
      BY <2>1, <2>2, <2>3, <2>4, <2>5 DEF MutexNext, ThreadStep
  <1>2. /\ not_idle_count = 0 /\ phase' = "main"
        /\ UNCHANGED <<state, lock_wait, hold_cid, suspend_cid_list>>
    <2>1. CASE not_idle_count > 0
      <3>1. in_run' = in_run
        BY <1>1, <2>1 DEF RunTest
      <3>2. QED
        BY <3>1, Zenon
    <2>2. CASE ~ (not_idle_count > 0)
      <3>1. not_idle_count = 0
        BY <2>2
      <3>2. phase' = "main"
        BY <1>1, <2>2 DEF RunTest
      <3>3. QED
        BY <1>1, <3>1, <3>2 DEF RunTest, coVars, mutexVars
    <2>3. QED
      BY <2>1, <2>2
  <1>3. Cid \ Idle = {}
    <2>1. IsFiniteSet(Cid \ Idle)
      BY FinitePool
    <2>2. QED
      BY <1>2, <2>1, FS_EmptySet DEF NotIdleCount
  <1>4. \A c \in Cid : lock_wait[c] = NoMutex
    BY <1>3 DEF Idle, MutexInv, Waiters
  <1>5. QED
    BY <1>2, <1>4 DEF OrderInv, AwakeLeft, NotItsOwner, OutOfRun

(* As long as it is left to CoMutexResume to wake the waiters, they are
   served first in, first out, as mutex.cpp:63 says: nobody who waits is
   overtaken by another one who waits, however often the mutex is taken by
   somebody who never queued up. *)
THEOREM FirstInFirstOut ==
  ASSUME Orderly
  PROVE  MutexSpec => InOrderOutsideRun
  <1> DEFINE Inv == in_run \/ OrderInv
  <1>1. MutexInit => Inv
    BY OrderInit
  <1>2. AllInv /\ Inv /\ [MutexNext]_vars => Inv' /\ [~ in_run => InTurn]_vars
    BY OrderStep, RunEnds
  <1>3. QED
    BY <1>1, <1>2, AllInvHolds, PTL DEF MutexSpec, InOrderOutsideRun
=============================================================================
