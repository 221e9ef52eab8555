--------------------------- MODULE ScheduleProofs ---------------------------
(***************************************************************************)
(* Theorems about module Schedule, for every size of the pools.            *)
(***************************************************************************)
EXTENDS Schedule, SequencesExt, SequenceTheorems, FiniteSetTheorems, FunctionTheorems,
        TLAPS

-----------------------------------------------------------------------------
(* The ids -1 name no coroutine and no batch. *)
LEMMA InvalidIds == kInvalidCid \notin Cid /\ kInvalidBid \notin Bid
  BY ScheduleAssumption DEF Cid, Bid, kInvalidCid, kInvalidBid

(* Every set of coroutines of the pool is finite. *)
LEMMA FinitePool == ASSUME NEW S, S \subseteq Cid
                    PROVE  IsFiniteSet(S)
  <1>1. CoroutineCount - 1 \in Int
    BY ScheduleAssumption
  <1>2. IsFiniteSet(Cid)
    BY <1>1, FS_Interval DEF Cid
  <1>3. QED
    BY <1>2, FS_Subset

(***************************************************************************)
(* Creating, finishing and switching coroutines keeps the three accounts   *)
(* of who is running and of how many are not idle in agreement.            *)
(***************************************************************************)
(* A batch in use has a parent. *)
ParentValid == \A b \in Bid : batch_state[b] # "idle" => parent_cid[b] \in Cid

(* The typing of all variables, with what it rests on. *)
SchedInv == TypeOK /\ SingleRunner /\ NotIdleCount /\ ParentValid

(* Taking the idle slot n adds one to the count and switches nobody. *)
LEMMA CreateCounts ==
  ASSUME SchedInv, NEW n \in Cid, CoroutineCreate(n), UNCHANGED switchVars
  PROVE  /\ state' \in [Cid -> States]
         /\ at' \in [Cid -> {"body", "batchRun"}]
         /\ not_idle_count' \in Nat
         /\ SingleRunner'
         /\ NotIdleCount'
  <1> USE DEF SchedInv, TypeOK, States
  <1>1. /\ state[n] = "idle" /\ state' = [state EXCEPT ![n] = "ready"]
        /\ at' = [at EXCEPT ![n] = "body"]
        /\ not_idle_count' = not_idle_count + 1
    BY DEF CoroutineCreate, CoroutineInit, Idle
  <1>2. Cid \ Idle' = (Cid \ Idle) \cup {n} /\ n \notin Cid \ Idle
    BY <1>1 DEF Idle
  <1>3. NotIdleCount'
    <2>1. IsFiniteSet(Cid \ Idle)
      BY FinitePool
    <2>2. Cardinality((Cid \ Idle) \cup {n}) = Cardinality(Cid \ Idle) + 1
      BY <1>2, <2>1, FS_AddElement
    <2>3. QED
      BY <1>1, <1>2, <2>2 DEF NotIdleCount
  <1>4. SingleRunner'
    BY <1>1 DEF SingleRunner, Running, switchVars
  <1>5. QED
    BY <1>1, <1>3, <1>4

(* A switch to c makes c, and only c, the runner. *)
LEMMA ResumeSwitches ==
  ASSUME SchedInv, NEW c, CoroutineResume(c), UNCHANGED not_idle_count
  PROVE  /\ c \in Cid
         /\ state' \in [Cid -> States]
         /\ is_master' \in BOOLEAN
         /\ slave_cid' \in Cid \cup {kInvalidCid}
         /\ SingleRunner'
         /\ NotIdleCount'
  <1> USE InvalidIds DEF SchedInv, TypeOK, States
  <1>1. /\ c \in Cid /\ state[c] \in {"ready", "suspend"} /\ is_master
        /\ state' = [state EXCEPT ![c] = "run"]
        /\ is_master' = FALSE /\ slave_cid' = c
    BY DEF CoroutineResume, ResumeAssert
  <1>2. SingleRunner'
    BY <1>1 DEF SingleRunner, Running
  <1>3. Idle' = Idle
    BY <1>1 DEF Idle
  <1>4. NotIdleCount'
    BY <1>3 DEF NotIdleCount
  <1>5. QED
    BY <1>1, <1>2, <1>4

(* A yield leaves nobody running. *)
LEMMA YieldSwitches ==
  ASSUME SchedInv, NEW c \in Cid, CoroutineYield(c), UNCHANGED not_idle_count
  PROVE  /\ state' \in [Cid -> States]
         /\ is_master' \in BOOLEAN
         /\ slave_cid' \in Cid \cup {kInvalidCid}
         /\ SingleRunner'
         /\ NotIdleCount'
  <1> USE InvalidIds DEF SchedInv, TypeOK, States
  <1>1. /\ ~ is_master /\ slave_cid = c
        /\ state' = [state EXCEPT ![c] = "suspend"]
        /\ is_master' = TRUE /\ slave_cid' = kInvalidCid
    BY DEF CoroutineYield, Running
  <1>2. SingleRunner'
    BY <1>1 DEF SingleRunner, Running
  <1>3. Idle' = Idle
    BY <1>1 DEF Idle, SingleRunner, Running
  <1>4. NotIdleCount'
    BY <1>3 DEF NotIdleCount
  <1>5. QED
    BY <1>1, <1>2, <1>4

(* A return leaves nobody running and takes one off the count, which was
   not zero. *)
LEMMA ReturnCounts ==
  ASSUME SchedInv, NEW c \in Cid, Return(c)
  PROVE  /\ state' \in [Cid -> States]
         /\ is_master' \in BOOLEAN
         /\ slave_cid' \in Cid \cup {kInvalidCid}
         /\ not_idle_count' \in Nat
         /\ SingleRunner'
         /\ NotIdleCount'
  <1> USE InvalidIds DEF SchedInv, TypeOK, States
  <1>1. /\ ~ is_master /\ slave_cid = c
        /\ state' = [state EXCEPT ![c] = "idle"]
        /\ is_master' = TRUE /\ slave_cid' = kInvalidCid
        /\ not_idle_count' = not_idle_count - 1
    BY DEF Return, InBody, Running
  <1>2. state[c] = "run"
    BY <1>1 DEF SingleRunner, Running
  <1>3. SingleRunner'
    BY <1>1 DEF SingleRunner, Running
  <1>4. Cid \ Idle' = (Cid \ Idle) \ {c} /\ c \in Cid \ Idle
    BY <1>1, <1>2 DEF Idle
  <1>5. IsFiniteSet(Cid \ Idle) /\ IsFiniteSet((Cid \ Idle) \ {c})
    BY FinitePool
  <1>6. Cardinality((Cid \ Idle) \ {c}) = Cardinality(Cid \ Idle) - 1
    BY ONLY <1>4, <1>5, FS_RemoveElement
  <1>7. Cardinality((Cid \ Idle) \ {c}) \in Nat
    BY <1>5, FS_CardinalityType
  <1>8. NotIdleCount' /\ not_idle_count' \in Nat
    BY <1>1, <1>4, <1>6, <1>7 DEF NotIdleCount
  <1>9. QED
    BY <1>1, <1>3, <1>8

-----------------------------------------------------------------------------
(***************************************************************************)
(* The typing invariant, one step per action.                              *)
(***************************************************************************)
LEMMA SchedInit == Init => SchedInv
  <1> SUFFICES ASSUME Init PROVE SchedInv
    OBVIOUS
  <1>1. TypeOK
    <2>1. batch_finish_cid_list \in Seq(Cid)
      BY DEF Init
    <2>2. QED
      BY <2>1 DEF Init, TypeOK, States, Phases
  <1>2. SingleRunner
    BY DEF Init, SingleRunner, Running
  <1>3. NotIdleCount
    <2>1. Cid \ Idle = {}
      BY DEF Init, Idle
    <2>2. QED
      BY <2>1, FS_EmptySet DEF Init, NotIdleCount
  <1>4. ParentValid
    BY DEF Init, ParentValid
  <1>5. QED
    BY <1>1, <1>2, <1>3, <1>4 DEF SchedInv

(* A running coroutine's calls. *)
LEMMA CoroutineStepSched ==
  ASSUME SchedInv, NEW c \in Cid, CoroutineStep(c)
  PROVE  SchedInv'
  <1> USE DEF TypeOK, batchVars, switchVars, mainVars
  <1>0. TypeOK /\ ParentValid
    BY DEF SchedInv
  <1>1. CASE Yield(c)
    <2>1. CoroutineYield(c) /\ UNCHANGED not_idle_count
      BY <1>1 DEF Yield
    <2>2. TypeOK' /\ ParentValid'
      BY <1>0, <1>1, <2>1, YieldSwitches DEF Yield, ParentValid
    <2>3. QED
      BY <2>1, <2>2, YieldSwitches DEF SchedInv
  <1>2. CASE Create(c)
    <2>1. PICK n \in Cid : /\ CoroutineCreate(n)
                           /\ calls' = [calls EXCEPT ![c] = @ + 1, ![n] = 0]
      BY <1>2 DEF Create
    <2>2. UNCHANGED switchVars
      BY <1>2 DEF Create
    <2>3. TypeOK' /\ ParentValid'
      <3>1. calls' \in [Cid -> Nat]
        BY <1>0, <2>1
      <3>2. created' \in Nat /\ UNCHANGED <<batchVars, switchVars, mainVars, batch_finish_cid_list>>
        BY <1>0, <1>2 DEF Create
      <3>3. QED
        BY <1>0, <2>1, <2>2, <3>1, <3>2, CreateCounts DEF ParentValid
    <2>4. QED
      BY <2>1, <2>2, <2>3, CreateCounts DEF SchedInv
  <1>3. CASE BatchCreate(c)
    <2>1. PICK b \in Bid : /\ batch_state' = [batch_state EXCEPT ![b] = "ready"]
                           /\ parent_cid' = [parent_cid EXCEPT ![b] = c]
                           /\ relate_bid' = [relate_bid EXCEPT ![c] = b]
      BY <1>3 DEF BatchCreate
    <2>2. TypeOK' /\ ParentValid'
      BY <1>0, <1>3, <2>1 DEF BatchCreate, ParentValid
    <2>3. SingleRunner' /\ NotIdleCount'
      BY <1>3 DEF SchedInv, BatchCreate, SingleRunner, NotIdleCount, Running, Idle
    <2>4. QED
      BY <2>2, <2>3 DEF SchedInv
  <1>4. CASE Return(c)
    <2>1. CASE IsChild(c)
      <3>1. relate_bid[c] \in Bid /\ parent_cid[relate_bid[c]] \in Cid
        BY <1>0, <1>4, <2>1 DEF Return, ReturnAssert, IsChild, ParentValid
      <3>2. TypeOK' /\ ParentValid'
        <4>0. ChildFinish(c)
          BY <1>4, <2>1 DEF Return
        <4>1. batch_finish_cid_list' \in Seq(Cid)
          BY <1>0, <4>0, <3>1 DEF ChildFinish
        <4>2. finished_cid' \in [Bid -> SUBSET Cid]
          BY <1>0, <4>0, <3>1 DEF ChildFinish
        <4>3. relate_bid' \in [Cid -> Bid \cup {kInvalidBid}]
          BY <1>0, <4>0 DEF ChildFinish
        <4>4. QED
          BY <1>0, <1>4, <4>1, <4>2, <4>3, ReturnCounts DEF Return, ParentValid
      <3>3. QED
        BY <1>4, <3>2, ReturnCounts DEF SchedInv
    <2>2. CASE ~ IsChild(c)
      <3>1. TypeOK' /\ ParentValid'
        BY <1>0, <1>4, <2>2, ReturnCounts DEF Return, ParentValid
      <3>2. QED
        BY <1>4, <3>1, ReturnCounts DEF SchedInv
    <2>3. QED
      BY <2>1, <2>2
  <1>5. ASSUME NEW b \in Bid, BatchAdd(c, b)
        PROVE  SchedInv'
    <2>1. PICK n \in Cid : /\ CoroutineCreate(n)
                           /\ calls' = [calls EXCEPT ![n] = 0]
                           /\ relate_bid' = [relate_bid EXCEPT ![n] = b]
                           /\ child_cid' = [child_cid EXCEPT ![b] = @ \cup {n}]
                           /\ finished_cid' = [finished_cid EXCEPT ![b] = @ \ {n}]
      BY <1>5 DEF BatchAdd
    <2>2. UNCHANGED switchVars
      BY <1>5 DEF BatchAdd
    <2>3. TypeOK' /\ ParentValid'
      BY <1>0, <1>5, <2>1, <2>2, CreateCounts DEF BatchAdd, ParentValid
    <2>4. QED
      BY <2>1, <2>2, <2>3, CreateCounts DEF SchedInv
  <1>6. ASSUME NEW b \in Bid, BatchRun(c, b)
        PROVE  SchedInv'
    <2>1. CoroutineYield(c) /\ UNCHANGED not_idle_count
      BY <1>6 DEF BatchRun
    <2>2. TypeOK' /\ ParentValid'
      BY <1>0, <1>6, <2>1, YieldSwitches DEF BatchRun, OpenBatches, ParentValid
    <2>3. QED
      BY <2>1, <2>2, YieldSwitches DEF SchedInv
  <1>7. ASSUME NEW b \in Bid, BatchRunEnd(c, b)
        PROVE  SchedInv'
    <2>1. TypeOK' /\ ParentValid'
      BY <1>0, <1>7 DEF BatchRunEnd, ParentValid
    <2>2. SingleRunner' /\ NotIdleCount'
      BY <1>7 DEF SchedInv, BatchRunEnd, SingleRunner, NotIdleCount, Running, Idle
    <2>3. QED
      BY <2>1, <2>2 DEF SchedInv
  <1>8. QED
    BY <1>1, <1>2, <1>3, <1>4, <1>5, <1>6, <1>7 DEF CoroutineStep

(* Switches the master context makes. *)
LEMMA ResumeStepSched ==
  ASSUME SchedInv, NEW c, CoroutineResume(c),
         UNCHANGED <<at, calls, batchVars, not_idle_count, in_run,
                     batch_finish_cid_list, created>>,
         phase' \in Phases, idx' \in Nat, todo' \subseteq Cid
  PROVE  SchedInv'
  <1>1. TypeOK' /\ ParentValid'
    BY ResumeSwitches DEF SchedInv, TypeOK, ParentValid, batchVars
  <1>2. QED
    BY <1>1, ResumeSwitches DEF SchedInv

(* Steps of the master context that move it only. *)
LEMMA MoveStepSched ==
  ASSUME SchedInv,
         UNCHANGED <<coVars, batchVars, switchVars, not_idle_count, created>>,
         batch_finish_cid_list' \in Seq(Cid), phase' \in Phases, idx' \in Nat,
         todo' \subseteq Cid, in_run' \in BOOLEAN
  PROVE  SchedInv'
  BY DEF SchedInv, TypeOK, ParentValid, SingleRunner, NotIdleCount, Running, Idle,
         coVars, batchVars, switchVars

(* The steps of Run and of the two loops over batches keep SchedInv. *)
LEMMA LoopStepSched ==
  ASSUME SchedInv, LoopStep \/ NoWaiters
  PROVE  SchedInv'
  <1> USE DEF mainVars, MainAt, Phases
  <1>0. TypeOK
    BY DEF SchedInv
  <1>1. CASE RunTest
    BY <1>0, <1>1, MoveStepSched DEF RunTest, TypeOK
  <1>2. CASE ScanSkip
    BY <1>0, <1>2, MoveStepSched DEF ScanSkip, TypeOK
  <1>3. CASE ScanResume
    BY <1>0, <1>3, ResumeStepSched DEF ScanResume, TypeOK
  <1>4. CASE ScanEnd
    BY <1>0, <1>4, MoveStepSched DEF ScanEnd, TypeOK
  <1>5. CASE FinishResume
    BY <1>0, <1>5, ResumeStepSched DEF FinishResume, TypeOK
  <1>6. CASE FinishEnd
    BY <1>0, <1>6, MoveStepSched DEF FinishEnd, TypeOK
  <1>7. CASE StartEnd
    BY <1>0, <1>7, MoveStepSched DEF StartEnd, TypeOK
  <1>8. ASSUME NEW n \in Cid, StartResume(n)
        PROVE  SchedInv'
    BY <1>0, <1>8, ResumeStepSched DEF StartResume, TypeOK
  <1>9. CASE NoWaiters
    BY <1>0, <1>9, MoveStepSched DEF NoWaiters, TypeOK
  <1>10. QED
    BY <1>1, <1>2, <1>3, <1>4, <1>5, <1>6, <1>7, <1>8, <1>9 DEF LoopStep

(* The calls the main program chooses to make keep SchedInv. *)
LEMMA MainCallSched ==
  ASSUME SchedInv, MainCall
  PROVE  SchedInv'
  <1> USE DEF mainVars, MainAt, Phases
  <1>0. TypeOK
    BY DEF SchedInv
  <1>1. CASE MainCreate
    <2>1. PICK n \in Cid : CoroutineCreate(n) /\ calls' = [calls EXCEPT ![n] = 0]
      BY <1>1 DEF MainCreate
    <2>2. UNCHANGED switchVars
      BY <1>1 DEF MainCreate
    <2>3. TypeOK' /\ ParentValid'
      BY <1>1, <2>1, <2>2, CreateCounts
      DEF MainCreate, SchedInv, TypeOK, ParentValid, batchVars, switchVars
    <2>4. QED
      BY <2>1, <2>2, <2>3, CreateCounts DEF SchedInv
  <1>2. CASE Run
    BY <1>0, <1>2, MoveStepSched DEF Run, TypeOK
  <1>3. CASE BatchFinish
    BY <1>0, <1>3, MoveStepSched DEF BatchFinish, TypeOK
  <1>4. ASSUME NEW c \in Cid, ManualResume(c)
        PROVE  SchedInv'
    BY <1>0, <1>4, ResumeStepSched DEF ManualResume, TypeOK
  <1>5. ASSUME NEW c \in Cid, BatchStart(c)
        PROVE  SchedInv'
    <2>1. todo' \subseteq Cid
      BY <1>0, <1>5 DEF BatchStart, TypeOK, IsParent
    <2>2. QED
      BY <1>0, <1>5, <2>1, MoveStepSched DEF BatchStart, TypeOK
  <1>6. QED
    BY <1>1, <1>2, <1>3, <1>4, <1>5 DEF MainCall

(* Every step of the scheduler keeps the types, the single runner and the count. *)
LEMMA SchedStep == SchedInv /\ [Next]_schedVars => SchedInv'
  <1> SUFFICES ASSUME SchedInv, [Next]_schedVars PROVE SchedInv'
    OBVIOUS
  <1>1. CASE UNCHANGED schedVars
    BY <1>1, MoveStepSched
    DEF schedVars, mainVars, SchedInv, TypeOK
  <1>2. QED
    BY <1>1, MainCallSched, LoopStepSched, CoroutineStepSched DEF Next

(***************************************************************************)
(* Whatever the program does, every variable keeps its type, exactly one   *)
(* context runs, and not_idle_count_, on which Run's termination test      *)
(* rests, is the number of coroutines that are not idle.                   *)
(***************************************************************************)
THEOREM SchedCorrect == Spec => [](TypeOK /\ SingleRunner /\ NotIdleCount)
  <1>1. SchedInv => TypeOK /\ SingleRunner /\ NotIdleCount
    BY DEF SchedInv
  <1>2. QED
    BY <1>1, SchedInit, SchedStep, PTL DEF Spec

-----------------------------------------------------------------------------
(***************************************************************************)
(* The batches.  The invariant is SchedInv /\ BatchInv; one lemma for each *)
(* action that changes a coroutine or a batch, and one for the moves of    *)
(* the master context.                                                     *)
(***************************************************************************)
(* The list of joined parents stays right when it does not change, nothing
   joined stops being so, and nothing becomes so that had tasks. *)
LEMMA QueueStays ==
  ASSUME TypeOK, QueuedParents, ParentsQueued,
         UNCHANGED <<batch_finish_cid_list, phase>>,
         phase = "finish" => idx' = idx,
         \A c \in Cid : Joined(c) => Joined(c)',
         \A c \in Cid : Joined(c)' /\ child_cid'[relate_bid'[c]] # {}
                          => Joined(c) /\ child_cid[relate_bid[c]] # {}
  PROVE  QueuedParents' /\ ParentsQueued'
  <1>1. Pending' = Pending
    BY DEF Pending
  <1>2. \A i \in Pending : batch_finish_cid_list[i] \in Cid
    BY DEF Pending, QueuedParents, TypeOK
  <1>3. QueuedParents'
    BY <1>1, <1>2 DEF QueuedParents
  <1>4. ParentsQueued'
    BY <1>1 DEF ParentsQueued
  <1>5. QED
    BY <1>3, <1>4

(* Who is inside BatchRun is the parent of the running batch it refers to. *)
LEMMA InsideIsParent ==
  ASSUME SchedInv, BatchInv, NEW c \in Cid, at[c] = "batchRun"
  PROVE  /\ relate_bid[c] \in Bid /\ IsParent(c)
         /\ parent_cid[relate_bid[c]] = c /\ batch_state[relate_bid[c]] = "run"
         /\ state[c] # "idle"
  BY DEF SchedInv, TypeOK, BatchInv, ParentInside, Related, IsParent

(* A coroutine without an open batch goes to sleep in its own code. *)
LEMMA SleepBatch ==
  ASSUME SchedInv, BatchInv, NEW c \in Cid, CoroutineYield(c),
         at[c] = "body", OpenBatches(c) = {},
         UNCHANGED <<at, batchVars, mainVars, batch_finish_cid_list>>
  PROVE  BatchInv'
  <1> USE DEF SchedInv, TypeOK, BatchInv, batchVars, mainVars
  <1>1. /\ ~ is_master /\ slave_cid = c /\ state[c] = "run"
        /\ state' = [state EXCEPT ![c] = "suspend"]
    BY DEF CoroutineYield, Running, SingleRunner
  <1>2. Related' /\ BatchMembers'
    BY <1>1 DEF Related, IsChild, Unfinished, BatchMembers
  <1>3. OpenBatch'
    BY <1>1 DEF OpenBatch, OpenBatches, Running
  <1>4. ParentInside' /\ FreshTasks'
    BY <1>1 DEF ParentInside, Unfinished, FreshTasks, IsChild
  <1>5. QueuedParents' /\ ParentsQueued'
    BY <1>1, QueueStays DEF Joined, Unfinished
  <1>6. QED
    BY <1>2, <1>3, <1>4, <1>5

(* Yielding touches no batch: the one who yields has none open and waits for none. *)
LEMMA YieldBatch ==
  ASSUME SchedInv, BatchInv, Orderly, NEW c \in Cid, Yield(c)
  PROVE  BatchInv'
  <1>1. CoroutineYield(c) /\ at[c] = "body" /\ OpenBatches(c) = {}
    BY DEF Yield, InBody, Disciplined, Orderly
  <1>2. UNCHANGED <<at, batchVars, mainVars, batch_finish_cid_list>>
    BY DEF Yield
  <1>3. QED
    BY <1>1, <1>2, SleepBatch

(* Creating a coroutine outside batches fills a slot that belongs to none. *)
LEMMA CreateBatch ==
  ASSUME SchedInv, BatchInv, NEW n \in Cid, CoroutineCreate(n),
         UNCHANGED <<batchVars, switchVars, mainVars, batch_finish_cid_list>>
  PROVE  BatchInv'
  <1> USE DEF SchedInv, TypeOK, BatchInv, batchVars, mainVars, switchVars
  <1>1. /\ state[n] = "idle"
        /\ state' = [state EXCEPT ![n] = "ready"]
        /\ at' = [at EXCEPT ![n] = "body"]
    BY DEF CoroutineCreate, CoroutineInit, Idle
  <1>2. relate_bid[n] = kInvalidBid /\ at[n] # "batchRun"
    BY <1>1, InsideIsParent DEF Related
  <1>3. Related' /\ BatchMembers'
    BY <1>1 DEF Related, IsChild, Unfinished, BatchMembers
  <1>4. OpenBatch'
    BY <1>1 DEF OpenBatch, Running
  <1>5. ParentInside'
    BY <1>1, <1>2 DEF ParentInside, Unfinished
  <1>6. FreshTasks'
    BY <1>1 DEF FreshTasks, IsChild
  <1>7. QueuedParents' /\ ParentsQueued'
    BY <1>1, <1>2, QueueStays DEF Joined, Unfinished
  <1>8. QED
    BY <1>3, <1>4, <1>5, <1>6, <1>7

(* Opening a batch: the slot was idle and had no members. *)
LEMMA BatchCreateBatch ==
  ASSUME SchedInv, BatchInv, Orderly, NEW c \in Cid, BatchCreate(c)
  PROVE  BatchInv'
  <1> USE DEF SchedInv, TypeOK, BatchInv, mainVars, switchVars
  <1>1. PICK b \in Bid : /\ batch_state[b] = "idle"
                         /\ batch_state' = [batch_state EXCEPT ![b] = "ready"]
                         /\ parent_cid' = [parent_cid EXCEPT ![b] = c]
                         /\ relate_bid' = [relate_bid EXCEPT ![c] = b]
    BY DEF BatchCreate
  <1>2. /\ Running(c) /\ state[c] = "run" /\ at[c] = "body"
        /\ relate_bid[c] = kInvalidBid
        /\ UNCHANGED <<state, at, child_cid, finished_cid, switchVars, mainVars,
                       batch_finish_cid_list>>
    BY DEF BatchCreate, InBody, SingleRunner, Orderly, IsParent, IsChild
  <1>3. Related' /\ BatchMembers'
    BY <1>1, <1>2, InvalidIds DEF Related, IsChild, Unfinished, BatchMembers
  <1>4. OpenBatch'
    BY <1>1, <1>2 DEF OpenBatch, BatchMembers, Running
  <1>5. ParentInside'
    BY <1>1, <1>2 DEF ParentInside, Unfinished
  <1>6. FreshTasks'
    BY <1>1, <1>2 DEF FreshTasks, IsChild, Related
  <1>7. QueuedParents' /\ ParentsQueued'
    BY <1>1, <1>2, QueueStays DEF Joined, Unfinished
  <1>8. QED
    BY <1>3, <1>4, <1>5, <1>6, <1>7

(* Adding a task: the new coroutine was idle, so nothing referred to it. *)
LEMMA BatchAddBatch ==
  ASSUME SchedInv, BatchInv, NEW c \in Cid, NEW b \in Bid, BatchAdd(c, b)
  PROVE  BatchInv'
  <1> USE DEF SchedInv, TypeOK, BatchInv, mainVars, switchVars
  <1>1. PICK n \in Cid : /\ state[n] = "idle"
                         /\ state' = [state EXCEPT ![n] = "ready"]
                         /\ at' = [at EXCEPT ![n] = "body"]
                         /\ relate_bid' = [relate_bid EXCEPT ![n] = b]
                         /\ child_cid' = [child_cid EXCEPT ![b] = @ \cup {n}]
                         /\ finished_cid' = [finished_cid EXCEPT ![b] = @ \ {n}]
    BY DEF BatchAdd, CoroutineCreate, CoroutineInit, Idle
  <1>2. /\ Running(c) /\ state[c] = "run" /\ at[c] = "body"
        /\ batch_state[b] = "ready" /\ parent_cid[b] = c
        /\ UNCHANGED <<batch_state, parent_cid, switchVars, mainVars,
                       batch_finish_cid_list>>
    BY DEF BatchAdd, InBody, SingleRunner, OpenBatches
  <1>3. /\ n # c /\ relate_bid[n] = kInvalidBid /\ at[n] # "batchRun"
        /\ finished_cid[b] = {} /\ finished_cid' = finished_cid
    BY <1>1, <1>2, InsideIsParent DEF Related, OpenBatch
  <1>4. Related'
    BY <1>1, <1>2, <1>3, InvalidIds DEF Related, IsChild, Unfinished
  <1>5. BatchMembers'
    BY <1>1, <1>2, <1>3, InvalidIds DEF BatchMembers, Unfinished
  <1>6. OpenBatch'
    BY <1>1, <1>2, <1>3 DEF OpenBatch, Running
  <1>7. ParentInside'
    BY <1>1, <1>2, <1>3 DEF ParentInside, Unfinished
  <1>8. FreshTasks'
    BY <1>1, <1>2 DEF FreshTasks, IsChild
  <1>9. QueuedParents' /\ ParentsQueued'
    <2>1. \A d \in Cid : at[d] = "batchRun" => relate_bid[d] # b
      BY <1>2, InsideIsParent
    <2>2. QED
      BY <1>1, <1>2, <1>3, <2>1, QueueStays DEF Joined, Unfinished
  <1>10. QED
    BY <1>4, <1>5, <1>6, <1>7, <1>8, <1>9

(* Entering BatchRun: the parent falls asleep, its tasks have still to start. *)
LEMMA BatchRunBatch ==
  ASSUME SchedInv, BatchInv, NEW c \in Cid, NEW b \in Bid, BatchRun(c, b)
  PROVE  BatchInv'
  <1> USE DEF SchedInv, TypeOK, BatchInv, mainVars
  <1>1. /\ Running(c) /\ state[c] = "run" /\ at[c] = "body"
        /\ batch_state[b] = "ready" /\ parent_cid[b] = c
        /\ batch_state' = [batch_state EXCEPT ![b] = "run"]
        /\ at' = [at EXCEPT ![c] = "batchRun"]
        /\ state' = [state EXCEPT ![c] = "suspend"]
        /\ UNCHANGED <<relate_bid, parent_cid, child_cid, finished_cid, mainVars,
                       batch_finish_cid_list>>
    BY DEF BatchRun, InBody, CoroutineYield, SingleRunner, OpenBatches
  <1>2. relate_bid[c] = b /\ finished_cid[b] = {}
    BY <1>1 DEF BatchMembers, OpenBatch
  <1>3. \A a \in Bid : batch_state[a] = "ready" => a = b
    <2> SUFFICES ASSUME NEW a \in Bid, batch_state[a] = "ready" PROVE a = b
      OBVIOUS
    <2>1. parent_cid[a] = c
      BY <1>1 DEF OpenBatch, Running
    <2>2. relate_bid[parent_cid[a]] = a
      BY DEF BatchMembers
    <2>3. QED
      BY <1>2, <2>1, <2>2
  <1>4. Related' /\ BatchMembers'
    BY <1>1 DEF Related, IsChild, Unfinished, BatchMembers
  <1>5. OpenBatch'
    BY <1>1, <1>3 DEF OpenBatch
  <1>6. ParentInside'
    <2>1. \A a \in Bid : a # b /\ batch_state[a] = "run"
                        => parent_cid[a] # c /\ parent_cid[a] \in Cid
      BY <1>2 DEF BatchMembers
    <2>2. ASSUME NEW a \in Bid, batch_state'[a] = "run"
          PROVE  /\ at'[parent_cid[a]] = "batchRun"
                 /\ state'[parent_cid[a]] \in {"suspend", "run"}
                 /\ state'[parent_cid[a]] = "run" => Unfinished(a) = {}
      <3>1. CASE a = b
        BY <1>1, <3>1
      <3>2. CASE a # b
        BY <1>1, <2>1, <2>2, <3>2 DEF ParentInside
      <3>3. QED
        BY <3>1, <3>2
    <2>3. ASSUME NEW d \in Cid, at'[d] = "batchRun"
          PROVE  /\ relate_bid[d] # kInvalidBid /\ parent_cid[relate_bid[d]] = d
                 /\ batch_state'[relate_bid[d]] = "run"
      <3>1. CASE d = c
        BY <1>1, <1>2, <3>1, InvalidIds
      <3>2. CASE d # c
        BY <1>1, <2>3, <3>2 DEF ParentInside
      <3>3. QED
        BY <3>1, <3>2
    <2>4. QED
      BY <1>1, <2>2, <2>3 DEF ParentInside, Unfinished
  <1>7. FreshTasks'
    BY <1>1 DEF FreshTasks, IsChild
  <1>8. QueuedParents' /\ ParentsQueued'
    BY <1>1, <1>2, QueueStays DEF Joined, Unfinished
  <1>9. QED
    BY <1>4, <1>5, <1>6, <1>7, <1>8

(* Leaving BatchRun: all tasks have returned, so freeing the slot strands nobody. *)
LEMMA BatchRunEndBatch ==
  ASSUME SchedInv, BatchInv, NEW c \in Cid, NEW b \in Bid, BatchRunEnd(c, b)
  PROVE  BatchInv'
  <1> USE DEF SchedInv, TypeOK, BatchInv, mainVars, switchVars
  <1>1. /\ Running(c) /\ state[c] = "run" /\ at[c] = "batchRun"
        /\ batch_state[b] = "run" /\ parent_cid[b] = c
        /\ batch_state' = [batch_state EXCEPT ![b] = "idle"]
        /\ parent_cid' = [parent_cid EXCEPT ![b] = kInvalidCid]
        /\ child_cid' = [child_cid EXCEPT ![b] = {}]
        /\ finished_cid' = [finished_cid EXCEPT ![b] = {}]
        /\ relate_bid' = [relate_bid EXCEPT ![c] = kInvalidBid]
        /\ at' = [at EXCEPT ![c] = "body"]
        /\ UNCHANGED <<state, switchVars, mainVars, batch_finish_cid_list>>
    BY DEF BatchRunEnd, SingleRunner
  <1>2. relate_bid[c] = b /\ Unfinished(b) = {}
    BY <1>1 DEF BatchMembers, ParentInside
  <1>3. \A d \in Cid : relate_bid[d] = b => d = c
    BY <1>1, <1>2, InvalidIds DEF Related, IsChild
  <1>4. Related'
    BY <1>1, <1>2, <1>3 DEF Related, IsChild, Unfinished
  <1>5. BatchMembers'
    <2> SUFFICES ASSUME NEW a \in Bid, a # b, batch_state[a] # "idle"
                 PROVE  /\ relate_bid'[parent_cid[a]] = a
                        /\ \A n \in Unfinished(a) :
                             n # parent_cid[a] /\ relate_bid'[n] = a
      BY <1>1 DEF BatchMembers, Unfinished
    <2>1. relate_bid[parent_cid[a]] = a /\ parent_cid[a] \in Cid /\ parent_cid[a] # c
      BY <1>2 DEF BatchMembers
    <2>2. \A n \in Unfinished(a) : n # parent_cid[a] /\ relate_bid[n] = a /\ n # c
      BY <1>2 DEF BatchMembers
    <2>3. QED
      BY <1>1, <2>1, <2>2 DEF Unfinished
  <1>6. OpenBatch'
    BY <1>1 DEF OpenBatch, Running
  <1>7. ParentInside'
    <2>1. \A a \in Bid : a # b /\ batch_state[a] = "run" => parent_cid[a] # c
      BY <1>2 DEF BatchMembers
    <2>2. \A d \in Cid : d # c /\ at[d] = "batchRun" => relate_bid[d] # b
      BY <1>3
    <2>3. QED
      BY <1>1, <2>1, <2>2 DEF ParentInside, Unfinished
  <1>8. FreshTasks'
    BY <1>1, <1>2, <1>3, InvalidIds DEF FreshTasks, IsChild
  <1>9. QueuedParents' /\ ParentsQueued'
    BY <1>1, <1>2, <1>3, QueueStays DEF Joined, Unfinished
  <1>10. QED
    BY <1>4, <1>5, <1>6, <1>7, <1>8, <1>9

(* A task that returns leaves its batch; the last one queues the parent. *)
LEMMA ChildReturnBatch ==
  ASSUME SchedInv, BatchInv, Orderly, NEW c \in Cid, Return(c), IsChild(c)
  PROVE  BatchInv'
  <1> USE DEF SchedInv, TypeOK, BatchInv, mainVars
  <1>0. PICK b \in Bid, p \in Cid \cup {kInvalidCid} :
          b = relate_bid[c] /\ p = parent_cid[b]
    BY DEF IsChild
  <1>1. /\ ~ is_master /\ slave_cid = c /\ state[c] = "run" /\ at[c] = "body"
        /\ state' = [state EXCEPT ![c] = "idle"]
        /\ is_master' = TRUE
        /\ UNCHANGED <<at, batch_state, parent_cid, child_cid, mainVars>>
    BY DEF Return, InBody, Running, SingleRunner
  <1>2. /\ finished_cid' = [finished_cid EXCEPT ![b] = @ \cup {c}]
        /\ relate_bid' = [relate_bid EXCEPT ![c] = kInvalidBid]
        /\ batch_finish_cid_list' = IF child_cid[b] \subseteq finished_cid[b] \cup {c}
                                    THEN Append(batch_finish_cid_list, p)
                                    ELSE batch_finish_cid_list
    BY <1>0 DEF Return, ChildFinish, BatchDone
  <1>3. batch_state[b] = "run" /\ c \in Unfinished(b)
    <2>1. ReturnAssert(c)
      BY DEF Return
    <2>2. QED
      BY <1>0, <2>1 DEF ReturnAssert, Related, IsChild
  <1>4. p \in Cid /\ p # c /\ relate_bid[p] = b /\ at[p] = "batchRun" /\ state[p] = "suspend"
    BY <1>0, <1>1, <1>3 DEF BatchMembers, ParentInside, SingleRunner, Running
  <1>5. /\ Unfinished(b)' = Unfinished(b) \ {c}
        /\ \A a \in Bid : a # b => Unfinished(a)' = Unfinished(a)
    BY <1>1, <1>2, <1>3 DEF Unfinished
  <1>6. \A a \in Bid : batch_state[a] # "ready"
    <2> SUFFICES ASSUME NEW a \in Bid, batch_state[a] = "ready" PROVE FALSE
      OBVIOUS
    <2>1. parent_cid[a] = c
      BY <1>1 DEF OpenBatch, Running
    <2>2. relate_bid[parent_cid[a]] = a
      BY DEF BatchMembers
    <2>3. QED
      BY <1>0, <1>3, <2>1, <2>2
  <1>7. Related'
    BY <1>0, <1>1, <1>2, <1>3, <1>5 DEF Related, IsChild
  <1>8. BatchMembers'
    <2>1. \A a \in Bid : batch_state[a] # "idle" => parent_cid[a] # c
      BY <1>0, <1>3, <1>4 DEF BatchMembers
    <2>2. \A a \in Bid : a # b => c \notin Unfinished(a)
      BY <1>0, <1>3 DEF BatchMembers, Unfinished
    <2>3. c \in child_cid[b]
      BY <1>3 DEF Unfinished
    <2>4. \A a \in Bid : finished_cid'[a] \subseteq child_cid[a]
      BY <1>2, <2>3 DEF BatchMembers
    <2>5. \A a \in Bid : batch_state[a] = "idle" => child_cid[a] = {}
      BY DEF BatchMembers
    <2>6. ASSUME NEW a \in Bid, batch_state[a] # "idle"
          PROVE  /\ parent_cid[a] \in Cid /\ relate_bid'[parent_cid[a]] = a
                 /\ \A n \in Unfinished(a)' : n # parent_cid[a] /\ relate_bid'[n] = a
      <3>1. /\ parent_cid[a] \in Cid /\ relate_bid[parent_cid[a]] = a
            /\ \A n \in Unfinished(a) : n # parent_cid[a] /\ relate_bid[n] = a
        BY <2>6 DEF BatchMembers
      <3>2. Unfinished(a)' \subseteq Unfinished(a) \ {c}
        BY <1>5, <2>2
      <3>3. \A n \in Unfinished(a)' : n \in Cid
        BY <3>2 DEF Unfinished
      <3>4. QED
        BY <1>2, <2>1, <2>6, <3>1, <3>2, <3>3
    <2>7. QED
      BY <1>1, <2>4, <2>5, <2>6 DEF BatchMembers
  <1>9. OpenBatch'
    BY <1>1, <1>6 DEF OpenBatch
  <1>10. ParentInside'
    <2>1. \A a \in Bid : batch_state[a] = "run"
                        => parent_cid[a] # c /\ parent_cid[a] \in Cid
      BY <1>0, <1>3, <1>4 DEF BatchMembers
    <2>2. ASSUME NEW a \in Bid, batch_state[a] = "run"
          PROVE  /\ at'[parent_cid[a]] = "batchRun"
                 /\ state'[parent_cid[a]] \in {"suspend", "run"}
                 /\ state'[parent_cid[a]] = "run" => Unfinished(a)' = {}
      BY <1>1, <1>5, <2>1, <2>2 DEF ParentInside
    <2>3. ASSUME NEW d \in Cid, at[d] = "batchRun"
          PROVE  /\ relate_bid'[d] # kInvalidBid /\ parent_cid[relate_bid'[d]] = d
                 /\ batch_state[relate_bid'[d]] = "run"
      BY <1>1, <1>2, <2>3 DEF ParentInside
    <2>4. QED
      BY <1>1, <2>2, <2>3 DEF ParentInside
  <1>11. FreshTasks'
    BY <1>1, <1>2 DEF FreshTasks, IsChild
  <1>12. \A d \in Cid : d # p /\ at[d] = "batchRun" =>
           /\ d # c /\ relate_bid[d] # b /\ relate_bid[d] \in Bid
           /\ relate_bid'[d] = relate_bid[d]
    BY <1>0, <1>1, <1>2, InsideIsParent
  <1>13. \A d \in Cid : d # p => Joined(d)' = Joined(d)
    BY <1>1, <1>2, <1>5, <1>12 DEF Joined
  <1>14. ~ Joined(p) /\ relate_bid'[p] = b
    BY <1>2, <1>3, <1>4 DEF Joined
  <1>15. CASE child_cid[b] \subseteq finished_cid[b] \cup {c}
    <2>1. batch_finish_cid_list' = Append(batch_finish_cid_list, p)
      BY <1>2, <1>15
    <2>2. DEFINE k == Len(batch_finish_cid_list) + 1
    <2>3. /\ Len(batch_finish_cid_list') = k
          /\ batch_finish_cid_list'[k] = p
          /\ \A i \in 1 .. Len(batch_finish_cid_list) :
               /\ batch_finish_cid_list'[i] = batch_finish_cid_list[i]
               /\ batch_finish_cid_list[i] \in Cid
      BY <1>4, <2>1
    <2>4. /\ Pending' = Pending \cup {k}
          /\ Pending \subseteq 1 .. Len(batch_finish_cid_list)
          /\ k \notin Pending
      BY <1>1, <2>3 DEF Pending, QueuedParents
    <2>5. Joined(p)'
      BY <1>1, <1>4, <1>5, <1>14, <1>15 DEF Joined, Unfinished
    <2>6. \A i \in Pending : batch_finish_cid_list[i] # p
      BY <1>14 DEF QueuedParents
    <2>7. phase' = "finish" => idx' \in 1 .. Len(batch_finish_cid_list') + 1
      BY <1>1, <2>3 DEF QueuedParents
    <2>8. \A i \in Pending' : Joined(batch_finish_cid_list[i])'
      BY <1>13, <2>3, <2>4, <2>5, <2>6 DEF QueuedParents
    <2>9. \A i, j \in Pending' : batch_finish_cid_list'[i] = batch_finish_cid_list'[j] => i = j
      <3> SUFFICES ASSUME NEW i \in Pending', NEW j \in Pending',
                          batch_finish_cid_list'[i] = batch_finish_cid_list'[j]
                   PROVE  i = j
        OBVIOUS
      <3>1. CASE i \in Pending /\ j \in Pending
        BY <2>3, <2>4, <3>1 DEF QueuedParents
      <3>2. CASE i = k \/ j = k
        BY <2>3, <2>4, <2>6, <3>2
      <3>3. QED
        BY <2>4, <3>1, <3>2
    <2>10. QueuedParents'
      BY <2>7, <2>8, <2>9 DEF QueuedParents
    <2>11. ParentsQueued'
      <3> SUFFICES ASSUME NEW d \in Cid, Joined(d)', child_cid'[relate_bid'[d]] # {}
                   PROVE  \E i \in Pending' : batch_finish_cid_list'[i] = d
        BY DEF ParentsQueued
      <3>1. CASE d = p
        BY <2>3, <2>4, <3>1
      <3>2. CASE d # p
        <4>1. Joined(d) /\ child_cid[relate_bid[d]] # {}
          BY <1>1, <1>12, <1>13, <3>2 DEF Joined
        <4>2. PICK i \in Pending : batch_finish_cid_list[i] = d
          BY <4>1 DEF ParentsQueued
        <4>3. QED
          BY <2>3, <2>4, <4>2
      <3>3. QED
        BY <3>1, <3>2
    <2>12. QED
      BY <1>7, <1>8, <1>9, <1>10, <1>11, <2>10, <2>11
  <1>16. CASE ~ (child_cid[b] \subseteq finished_cid[b] \cup {c})
    <2>1. ~ Joined(p)'
      BY <1>1, <1>2, <1>3, <1>14, <1>16 DEF Joined, Unfinished
    <2>2. batch_finish_cid_list' = batch_finish_cid_list
      BY <1>2, <1>16
    <2>3. \A d \in Cid : Joined(d) => Joined(d)'
      BY <1>13, <1>14
    <2>4. \A d \in Cid : Joined(d)' /\ child_cid'[relate_bid'[d]] # {}
                          => Joined(d) /\ child_cid[relate_bid[d]] # {}
      BY <1>1, <1>12, <1>13, <2>1 DEF Joined
    <2>5. QueuedParents' /\ ParentsQueued'
      BY <1>1, <2>2, <2>3, <2>4, QueueStays
    <2>6. QED
      BY <1>7, <1>8, <1>9, <1>10, <1>11, <2>5
  <1>17. QED
    BY <1>15, <1>16

(* Whoever else returns belongs to no batch. *)
LEMMA RootReturnBatch ==
  ASSUME SchedInv, BatchInv, Orderly, NEW c \in Cid, Return(c), ~ IsChild(c)
  PROVE  BatchInv'
  <1> USE DEF SchedInv, TypeOK, BatchInv, mainVars
  <1>1. /\ ~ is_master /\ slave_cid = c /\ state[c] = "run" /\ at[c] = "body"
        /\ OpenBatches(c) = {}
        /\ state' = [state EXCEPT ![c] = "idle"]
        /\ UNCHANGED <<at, batch_state, parent_cid, child_cid, finished_cid,
                       relate_bid, mainVars, batch_finish_cid_list>>
    BY DEF Return, InBody, Running, SingleRunner, Disciplined, Orderly
  <1>2. relate_bid[c] = kInvalidBid
    BY <1>1 DEF Related, IsChild, OpenBatches, ParentInside
  <1>3. \A a \in Bid : batch_state[a] # "idle" => parent_cid[a] # c /\ c \notin Unfinished(a)
    BY <1>2, InvalidIds DEF BatchMembers
  <1>4. Related' /\ BatchMembers'
    BY <1>1, <1>2 DEF Related, IsChild, Unfinished, BatchMembers
  <1>5. OpenBatch'
    BY <1>1, <1>3 DEF OpenBatch, Running
  <1>6. ParentInside' /\ FreshTasks'
    BY <1>1, <1>3 DEF ParentInside, Unfinished, FreshTasks, IsChild
  <1>7. QueuedParents' /\ ParentsQueued'
    BY <1>1, QueueStays DEF Joined, Unfinished
  <1>8. QED
    BY <1>4, <1>5, <1>6, <1>7

(* While the master context runs, no batch is open. *)
LEMMA NoneOpen ==
  ASSUME SchedInv, BatchInv, is_master
  PROVE  \A b \in Bid : batch_state[b] # "ready"
  BY DEF BatchInv, OpenBatch, Running

(* The master context resumes a coroutine that is not the parent of a batch. *)
LEMMA ResumeBatch ==
  ASSUME SchedInv, BatchInv, NEW c, CoroutineResume(c), ~ IsParent(c),
         UNCHANGED <<at, batchVars, batch_finish_cid_list, phase>>,
         phase = "finish" => idx' = idx,
         phase = "start" => todo' \subseteq todo \ {c}
  PROVE  BatchInv'
  <1> USE DEF SchedInv, TypeOK, BatchInv, batchVars
  <1>1. /\ c \in Cid /\ state[c] \in {"ready", "suspend"} /\ is_master
        /\ state' = [state EXCEPT ![c] = "run"]
    BY DEF CoroutineResume, ResumeAssert
  <1>2. at[c] # "batchRun" /\ \A b \in Bid : batch_state[b] = "run" => parent_cid[b] # c
    BY <1>1, InsideIsParent DEF ParentInside
  <1>3. Related' /\ BatchMembers'
    BY <1>1 DEF Related, IsChild, Unfinished, BatchMembers
  <1>4. OpenBatch'
    BY <1>1, NoneOpen DEF OpenBatch
  <1>5. ParentInside'
    BY <1>1, <1>2 DEF ParentInside, Unfinished
  <1>6. FreshTasks'
    BY <1>1 DEF FreshTasks, IsChild
  <1>7. QueuedParents' /\ ParentsQueued'
    BY <1>1, <1>2, QueueStays DEF Joined, Unfinished
  <1>8. QED
    BY <1>3, <1>4, <1>5, <1>6, <1>7

(* CoroutineResume4BatchFinish resumes the next parent of its list. *)
LEMMA FinishResumeBatch ==
  ASSUME SchedInv, BatchInv, FinishResume
  PROVE  BatchInv'
  <1> USE DEF SchedInv, TypeOK, BatchInv, batchVars
  <1>1. PICK c \in Cid : /\ c = batch_finish_cid_list[idx]
                         /\ is_master
                         /\ state' = [state EXCEPT ![c] = "run"]
    BY DEF FinishResume, CoroutineResume, ResumeAssert
  <1>2. /\ phase = "finish" /\ idx \in 1 .. Len(batch_finish_cid_list) /\ idx' = idx + 1
        /\ UNCHANGED <<phase, todo, at, batchVars, batch_finish_cid_list>>
    BY DEF FinishResume, MainAt, QueuedParents
  <1>3. Pending = idx .. Len(batch_finish_cid_list) /\ Pending' = Pending \ {idx}
    BY <1>2 DEF Pending
  <1>4. Joined(c) /\ state[c] = "suspend" /\ Unfinished(relate_bid[c]) = {}
    <2>1. Joined(c)
      BY <1>1, <1>2, <1>3 DEF QueuedParents
    <2>2. QED
      BY <2>1 DEF Joined
  <1>5. Related' /\ BatchMembers'
    BY <1>1, <1>2 DEF Related, IsChild, Unfinished, BatchMembers
  <1>6. OpenBatch'
    BY <1>1, <1>2, NoneOpen DEF OpenBatch
  <1>7. ParentInside'
    BY <1>1, <1>2, <1>4 DEF ParentInside, Unfinished, BatchMembers
  <1>8. FreshTasks'
    BY <1>2 DEF FreshTasks
  <1>9. QueuedParents'
    <2>1. \A i \in Pending' : batch_finish_cid_list[i] \in Cid /\ batch_finish_cid_list[i] # c
      BY <1>1, <1>2, <1>3 DEF QueuedParents
    <2>2. \A d \in Cid : d # c /\ Joined(d) => Joined(d)'
      BY <1>1, <1>2 DEF Joined, Unfinished
    <2>3. QED
      BY <1>2, <1>3, <2>1, <2>2 DEF QueuedParents
  <1>10. ParentsQueued'
    <2>1. \A d \in Cid : Joined(d)' => d # c /\ Joined(d)
      BY <1>1, <1>2 DEF Joined, Unfinished
    <2>2. QED
      BY <1>1, <1>2, <1>3, <2>1 DEF ParentsQueued
  <1>11. QED
    BY <1>5, <1>6, <1>7, <1>8, <1>9, <1>10

(* The master context moves: what is left is the list and the fresh tasks. *)
LEMMA MoveBatch ==
  ASSUME SchedInv, BatchInv,
         UNCHANGED <<state, at, batchVars, switchVars>>,
         QueuedParents', ParentsQueued', FreshTasks'
  PROVE  BatchInv'
  BY DEF BatchInv, Related, BatchMembers, OpenBatch, ParentInside, IsChild,
         Unfinished, Running, batchVars, switchVars

(* A move that leaves the list alone and does not enter or leave its loop. *)
LEMMA MoveQueue ==
  ASSUME SchedInv, BatchInv,
         UNCHANGED <<state, at, batchVars, batch_finish_cid_list>>,
         \/ phase # "finish" /\ phase' # "finish"
         \/ phase' = "finish" /\ idx' = 1 /\ phase # "finish"
  PROVE  QueuedParents' /\ ParentsQueued'
  <1> USE DEF SchedInv, TypeOK, BatchInv, batchVars
  <1>1. Pending' = Pending /\ phase' = "finish" => idx' \in 1 .. Len(batch_finish_cid_list) + 1
    BY DEF Pending
  <1>2. Pending' = Pending
    BY DEF Pending
  <1>3. \A c \in Cid : Joined(c)' = Joined(c)
    BY DEF Joined, Unfinished
  <1>4. \A i \in Pending : batch_finish_cid_list[i] \in Cid
    BY DEF Pending, QueuedParents
  <1>5. QED
    BY <1>1, <1>2, <1>3, <1>4 DEF QueuedParents, ParentsQueued

(* The steps of Run and of the two loops over batches keep BatchInv. *)
LEMMA LoopStepBatch ==
  ASSUME SchedInv, BatchInv, LoopStep \/ NoWaiters
  PROVE  BatchInv'
  <1> USE DEF mainVars, coVars, MainAt
  <1>1. CASE RunTest
    BY <1>1, MoveBatch, MoveQueue DEF RunTest, FreshTasks
  <1>2. CASE ScanSkip
    BY <1>2, MoveBatch, MoveQueue DEF ScanSkip, FreshTasks
  <1>3. CASE ScanResume
    BY <1>3, ResumeBatch DEF ScanResume, ScanResumes
  <1>4. CASE ScanEnd
    BY <1>4, MoveBatch, MoveQueue DEF ScanEnd, FreshTasks
  <1>5. CASE FinishResume
    BY <1>5, FinishResumeBatch
  <1>6. CASE FinishEnd
    <2>1. Pending = {} /\ Pending' = {}
      BY <1>6 DEF FinishEnd, Pending, SchedInv, TypeOK
    <2>2. QueuedParents'
      BY <1>6, <2>1 DEF FinishEnd, QueuedParents
    <2>3. ParentsQueued'
      BY <1>6, <2>1 DEF FinishEnd, BatchInv, ParentsQueued, Joined, Unfinished, batchVars
    <2>4. QED
      BY <1>6, <2>2, <2>3, MoveBatch DEF FinishEnd, FreshTasks
  <1>7. CASE StartEnd
    BY <1>7, MoveBatch, MoveQueue DEF StartEnd, FreshTasks
  <1>8. ASSUME NEW n \in Cid, StartResume(n)
        PROVE  BatchInv'
    <2>1. IsChild(n)
      BY <1>8 DEF StartResume, BatchInv, FreshTasks
    <2>2. QED
      BY <1>8, <2>1, ResumeBatch DEF StartResume, IsChild, IsParent
  <1>9. CASE NoWaiters
    BY <1>9, MoveBatch, MoveQueue DEF NoWaiters, FreshTasks
  <1>10. QED
    BY <1>1, <1>2, <1>3, <1>4, <1>5, <1>6, <1>7, <1>8, <1>9 DEF LoopStep

(* The calls the main program chooses to make keep BatchInv. *)
LEMMA MainCallBatch ==
  ASSUME SchedInv, BatchInv, MainCall
  PROVE  BatchInv'
  <1> USE DEF mainVars, coVars, MainAt
  <1>1. CASE MainCreate
    BY <1>1, CreateBatch DEF MainCreate
  <1>2. CASE Run
    BY <1>2, MoveBatch, MoveQueue DEF Run, FreshTasks
  <1>3. CASE BatchFinish
    BY <1>3, MoveBatch, MoveQueue DEF BatchFinish, FreshTasks
  <1>4. ASSUME NEW c \in Cid, ManualResume(c)
        PROVE  BatchInv'
    BY <1>4, ResumeBatch DEF ManualResume
  <1>5. ASSUME NEW c \in Cid, BatchStart(c)
        PROVE  BatchInv'
    <2>1. PICK b \in Bid : b = relate_bid[c] /\ parent_cid[b] = c
      BY <1>5 DEF BatchStart, IsParent, SchedInv, TypeOK
    <2>2. batch_state[b] # "idle" /\ Unfinished(b) = child_cid[b]
      BY <1>5, <2>1, InvalidIds DEF BatchStart, BatchInv, Related, Unfinished
    <2>3. \A n \in child_cid[b] : n \in Cid /\ IsChild(n) /\ state[n] = "ready"
      BY <1>5, <2>1, <2>2, InvalidIds
      DEF BatchStart, BatchInv, BatchMembers, IsChild, SchedInv, TypeOK
    <2>4. FreshTasks'
      BY <1>5, <2>1, <2>3 DEF BatchStart, FreshTasks, IsChild, batchVars
    <2>5. QED
      BY <1>5, <2>4, MoveBatch, MoveQueue DEF BatchStart
  <1>6. QED
    BY <1>1, <1>2, <1>3, <1>4, <1>5 DEF MainCall

(* Every step of a running coroutine keeps BatchInv. *)
LEMMA CoroutineStepBatch ==
  ASSUME SchedInv, BatchInv, Orderly, NEW c \in Cid, CoroutineStep(c)
  PROVE  BatchInv'
  <1>1. CASE Create(c)
    BY <1>1, CreateBatch DEF Create
  <1>2. CASE Return(c)
    BY <1>2, ChildReturnBatch, RootReturnBatch
  <1>3. QED
    BY <1>1, <1>2, YieldBatch, BatchCreateBatch, BatchAddBatch, BatchRunBatch,
       BatchRunEndBatch DEF CoroutineStep

(* No batch is in use when the scheduler has been constructed. *)
LEMMA BatchInit == Init => BatchInv
  BY DEF Init, BatchInv, Related, BatchMembers, OpenBatch, ParentInside,
         QueuedParents, ParentsQueued, FreshTasks, Pending, Joined, Unfinished, IsChild

(* Every step of the scheduler keeps BatchInv. *)
LEMMA BatchStep ==
  ASSUME SchedInv, BatchInv, Orderly, [Next]_schedVars
  PROVE  BatchInv'
  <1>1. CASE UNCHANGED schedVars
    <2>1. QueuedParents' /\ ParentsQueued' /\ FreshTasks'
      BY <1>1 DEF schedVars, coVars, batchVars, mainVars, BatchInv, QueuedParents,
                  ParentsQueued, FreshTasks, Pending, Joined, Unfinished, IsChild
    <2>2. QED
      BY <1>1, <2>1, MoveBatch DEF schedVars, coVars
  <1>2. QED
    BY <1>1, MainCallBatch, LoopStepBatch, CoroutineStepBatch DEF Next

(* For programs that use batches in the orderly way, the accounts of the
   batches are right in every reachable state. *)
THEOREM BatchAccounts == ASSUME Orderly PROVE Spec => [](SchedInv /\ BatchInv)
  <1>1. Init => SchedInv /\ BatchInv
    BY SchedInit, BatchInit
  <1>2. SchedInv /\ BatchInv /\ [Next]_schedVars => (SchedInv /\ BatchInv)'
    BY SchedStep, BatchStep
  <1>3. QED
    BY <1>1, <1>2, PTL DEF Spec

(***************************************************************************)
(* The join of a batch is safe: a parent passes BatchRun only after every  *)
(* task has returned, with nobody else referring to the batch it frees.    *)
(***************************************************************************)
LEMMA JoinFromInv ==
  ASSUME SchedInv, BatchInv
  PROVE  BatchJoin /\ CleanSlots
  <1> USE DEF SchedInv, TypeOK, BatchInv
  <1>1. BatchJoin
    <2> SUFFICES ASSUME NEW c \in Cid, NEW b \in Bid,
                        Running(c), at[c] = "batchRun", batch_state[b] = "run",
                        parent_cid[b] = c
                 PROVE  /\ child_cid[b] = finished_cid[b]
                        /\ \A n \in Cid : relate_bid[n] = b => n = c
      BY DEF BatchJoin
    <2>1. state[c] = "run" /\ Unfinished(b) = {}
      BY DEF SingleRunner, ParentInside
    <2>2. \A n \in Cid : relate_bid[n] = b => n = c
      BY <2>1, InvalidIds DEF Related, IsChild
    <2>3. finished_cid[b] \subseteq child_cid[b]
      BY DEF BatchMembers
    <2>4. QED
      BY <2>1, <2>2, <2>3 DEF Unfinished
  <1>2. CleanSlots
    BY DEF CleanSlots, Related, Idle
  <1>3. QED
    BY <1>1, <1>2

(* BatchRun returns only after every task of the batch has returned, and a
   free slot of the pool never refers to a batch (CoroutineInit does not reset
   relate_bid). *)
THEOREM JoinIsSafe == ASSUME Orderly PROVE Spec => [](BatchJoin /\ CleanSlots)
  <1>1. SchedInv /\ BatchInv => BatchJoin /\ CleanSlots
    BY JoinFromInv
  <1>2. QED
    BY <1>1, BatchAccounts, PTL

(***************************************************************************)
(* No assert of CoroutineResume, CoroutineRun and IsBatchDone fails in the *)
(* scan of Run, the two batch loops and the coroutines themselves.         *)
(***************************************************************************)
LEMMA AssertsFromInv ==
  ASSUME SchedInv, BatchInv
  PROVE  AssertsHold
  <1> USE DEF SchedInv, TypeOK, BatchInv
  <1>1. MainAt("scan") /\ idx < CoroutineCount /\ ScanResumes(idx) => ResumeAssert(idx)
    BY ScheduleAssumption DEF Cid, States, ScanResumes, ResumeAssert
  <1>2. ASSUME MainAt("finish"), idx <= Len(batch_finish_cid_list)
        PROVE  ResumeAssert(batch_finish_cid_list[idx])
    <2>1. idx \in Pending /\ idx \in 1 .. Len(batch_finish_cid_list)
      BY <1>2 DEF MainAt, Pending, QueuedParents
    <2>2. batch_finish_cid_list[idx] \in Cid /\ InList(batch_finish_cid_list[idx])
      BY <2>1 DEF InList
    <2>3. state[batch_finish_cid_list[idx]] = "suspend"
      BY <2>1 DEF QueuedParents, Joined
    <2>4. QED
      BY <2>2, <2>3 DEF ResumeAssert
  <1>3. MainAt("start") => \A n \in todo : ResumeAssert(n)
    BY DEF MainAt, FreshTasks, ResumeAssert, IsChild, IsParent
  <1>4. ASSUME NEW c \in Cid, InBody(c), IsChild(c)
        PROVE  c \in child_cid[relate_bid[c]] /\ batch_state[relate_bid[c]] = "run"
    <2>1. state[c] = "run" /\ relate_bid[c] \in Bid
      BY <1>4 DEF InBody, SingleRunner, IsChild
    <2>2. c \in child_cid[relate_bid[c]] /\ batch_state[relate_bid[c]] # "idle"
      BY <1>4 DEF Related, Unfinished, IsChild
    <2>3. batch_state[relate_bid[c]] # "ready"
      BY <2>1, <2>2 DEF OpenBatch
    <2>4. QED
      BY <2>1, <2>2, <2>3
  <1>5. QED
    BY <1>1, <1>2, <1>3, <1>4 DEF AssertsHold, ReturnAssert

(* The asserts of CoroutineResume, CoroutineRun and IsBatchDone never fail. *)
THEOREM NoAssertFails == ASSUME Orderly PROVE Spec => []AssertsHold
  <1>1. SchedInv /\ BatchInv => AssertsHold
    BY AssertsFromInv
  <1>2. QED
    BY <1>1, BatchAccounts, PTL

(***************************************************************************)
(* No wake-up of a parent is lost or given twice.  This needs, besides the *)
(* liberties of Orderly, that no program runs an empty batch.              *)
(***************************************************************************)
NonEmpty == \A b \in Bid : batch_state[b] = "run" => child_cid[b] # {}

(* A batch never runs without tasks if BatchRun is not called without. *)
LEMMA NonEmptyStep ==
  ASSUME SchedInv, NonEmpty, "emptyBatch" \notin Usage, [Next]_schedVars
  PROVE  NonEmpty'
  <1> USE DEF SchedInv, TypeOK, NonEmpty
  <1>1. CASE UNCHANGED schedVars
    BY <1>1 DEF schedVars, batchVars
  <1>2. CASE MainCall
    BY <1>2 DEF MainCall, MainCreate, Run, BatchFinish, ManualResume, BatchStart, batchVars
  <1>3. CASE LoopStep \/ NoWaiters
    BY <1>3 DEF LoopStep, NoWaiters, RunTest, ScanSkip, ScanResume, ScanEnd, FinishResume,
                FinishEnd, StartResume, StartEnd, batchVars
  <1>4. ASSUME NEW c \in Cid, CoroutineStep(c)
        PROVE  NonEmpty'
    <2>1. CASE Yield(c) \/ Create(c) \/ Return(c)
      BY <2>1 DEF Yield, Create, Return, batchVars
    <2>2. CASE BatchCreate(c)
      BY <2>2 DEF BatchCreate
    <2>3. ASSUME NEW b \in Bid, BatchAdd(c, b)
          PROVE  NonEmpty'
      BY <2>3 DEF BatchAdd
    <2>4. ASSUME NEW b \in Bid, BatchRun(c, b)
          PROVE  NonEmpty'
      BY <2>4 DEF BatchRun
    <2>5. ASSUME NEW b \in Bid, BatchRunEnd(c, b)
          PROVE  NonEmpty'
      BY <2>5 DEF BatchRunEnd
    <2>6. QED
      BY <1>4, <2>1, <2>2, <2>3, <2>4, <2>5 DEF CoroutineStep
  <1>5. QED
    BY <1>1, <1>2, <1>3, <1>4 DEF Next

(* What the invariant says of the queue is that it is exact. *)
LEMMA QueuedFromInv ==
  ASSUME SchedInv, BatchInv, NonEmpty
  PROVE  JoinQueued
  <1> USE DEF SchedInv, TypeOK, BatchInv
  <1> SUFFICES ASSUME NEW b \in Bid, batch_state[b] = "run", state[parent_cid[b]] = "suspend"
               PROVE  Cardinality({i \in Pending : batch_finish_cid_list[i] = parent_cid[b]})
                        = IF BatchDone(b, finished_cid[b]) THEN 1 ELSE 0
    BY DEF JoinQueued
  <1>1. /\ parent_cid[b] \in Cid /\ relate_bid[parent_cid[b]] = b
        /\ at[parent_cid[b]] = "batchRun"
    BY DEF BatchMembers, ParentInside
  <1>2. BatchDone(b, finished_cid[b]) <=> Joined(parent_cid[b])
    BY <1>1 DEF BatchDone, Joined, Unfinished
  <1>3. CASE Joined(parent_cid[b])
    <2>1. PICK i \in Pending : batch_finish_cid_list[i] = parent_cid[b]
      BY <1>1, <1>3 DEF ParentsQueued, NonEmpty
    <2>2. {j \in Pending : batch_finish_cid_list[j] = parent_cid[b]} = {i}
      BY <2>1 DEF QueuedParents
    <2>3. QED
      BY <1>2, <1>3, <2>2, FS_Singleton
  <1>4. CASE ~ Joined(parent_cid[b])
    <2>1. {j \in Pending : batch_finish_cid_list[j] = parent_cid[b]} = {}
      BY <1>4 DEF QueuedParents
    <2>2. QED
      BY <1>2, <1>4, <2>1, FS_EmptySet
  <1>5. QED
    BY <1>3, <1>4

(* A parent asleep in BatchRun is queued once if its tasks have all
   returned, and not while one has not: CoroutineRun's call of IsBatchDone
   and CoroutineResume4BatchFinish lose no wake-up. *)
THEOREM WakeUpsExact ==
  ASSUME Orderly, "emptyBatch" \notin Usage
  PROVE  Spec => []JoinQueued
  <1>1. Init => NonEmpty
    BY DEF Init, NonEmpty
  <1>2. SchedInv /\ NonEmpty /\ [Next]_schedVars => NonEmpty'
    BY NonEmptyStep
  <1>3. SchedInv /\ BatchInv /\ NonEmpty => JoinQueued
    BY QueuedFromInv
  <1>4. QED
    BY <1>1, <1>2, <1>3, BatchAccounts, PTL DEF Spec
-----------------------------------------------------------------------------
(***************************************************************************)
(* The constructor's sizing of the pools is enough.  Every coroutine that  *)
(* is not idle gets a place of its own in a table with a row for each      *)
(* coroutine outside the batches and MaxInBatch + 1 columns: the first for *)
(* itself, the others for the tasks of its batch.                          *)
(***************************************************************************)
RootsFit   == Cardinality(Roots) <= Requested
BatchesFit == \A b \in Bid : Cardinality(child_cid[b]) <= MaxInBatch

PoolInv == RootsFit /\ BatchesFit

LEMMA RootsOfPool == /\ Roots \subseteq Cid /\ IsFiniteSet(Roots)
                     /\ Cardinality(Roots) \in Nat
  BY FinitePool, FS_CardinalityType DEF Roots

(* One more member adds at most one to the count. *)
LEMMA OneMore ==
  ASSUME NEW S, IsFiniteSet(S), NEW x
  PROVE  /\ IsFiniteSet(S \cup {x}) /\ Cardinality(S \cup {x}) \in Nat
         /\ Cardinality(S) \in Nat /\ Cardinality(S \cup {x}) <= Cardinality(S) + 1
  <1>1. Cardinality(S) \in Nat
    BY FS_CardinalityType
  <1>2. /\ IsFiniteSet(S \cup {x})
        /\ Cardinality(S \cup {x}) = IF x \in S THEN Cardinality(S) ELSE Cardinality(S) + 1
    BY FS_AddElement
  <1>3. QED
    BY <1>1, <1>2

(* Fewer coroutines outside the batches are not too many. *)
LEMMA FewerRoots == ASSUME RootsFit, Roots' \subseteq Roots PROVE RootsFit'
  <1>1. Cardinality(Roots') <= Cardinality(Roots) /\ Cardinality(Roots') \in Nat
    BY RootsOfPool, FS_Subset, FS_CardinalityType
  <1>2. QED
    BY <1>1, RootsOfPool, ScheduleAssumption DEF RootsFit

(* Who is not created and keeps its relations stays where it is counted. *)
LEMMA SameRoots ==
  ASSUME RootsFit, UNCHANGED <<relate_bid, parent_cid>>,
         \A d \in Cid : state'[d] # "idle" => state[d] # "idle"
  PROVE  RootsFit'
  <1>1. Roots' \subseteq Roots
    BY DEF Roots, Idle, IsChild
  <1>2. QED
    BY <1>1, FewerRoots

(* A coroutine created outside the batches is one more, which MayCreate allows. *)
LEMMA CreatedRoot ==
  ASSUME SchedInv, "overcommit" \notin Usage, RootsFit, MayCreate,
         UNCHANGED <<relate_bid, parent_cid>>,
         NEW n \in Cid, CoroutineCreate(n)
  PROVE  RootsFit'
  <1>1. state' = [state EXCEPT ![n] = "ready"]
    BY DEF CoroutineCreate, CoroutineInit
  <1>2. Roots' \subseteq Roots \cup {n}
    BY <1>1 DEF SchedInv, TypeOK, Roots, Idle, IsChild
  <1>3. /\ Cardinality(Roots \cup {n}) <= Cardinality(Roots) + 1
        /\ IsFiniteSet(Roots \cup {n}) /\ Cardinality(Roots \cup {n}) \in Nat
    BY RootsOfPool, OneMore
  <1>4. Cardinality(Roots') <= Cardinality(Roots \cup {n}) /\ Cardinality(Roots') \in Nat
    BY <1>2, <1>3, FS_Subset, FS_CardinalityType
  <1>5. Cardinality(Roots) + 1 <= Requested
    BY RootsOfPool, ScheduleAssumption DEF MayCreate
  <1>6. QED
    BY <1>3, <1>4, <1>5, RootsOfPool, ScheduleAssumption DEF RootsFit

(* No call of a coroutine makes the pool too small. *)
LEMMA CoroutineStepPool ==
  ASSUME SchedInv, BatchInv, Orderly, "overcommit" \notin Usage, PoolInv,
         NEW c \in Cid, CoroutineStep(c)
  PROVE  PoolInv'
  <1> USE DEF SchedInv, TypeOK, States
  <1>0. RootsFit /\ BatchesFit
    BY DEF PoolInv
  <1>1. CASE Yield(c)
    <2>1. RootsFit'
      BY <1>0, <1>1, SameRoots DEF Yield, CoroutineYield, Running, SingleRunner, batchVars
    <2>2. QED
      BY <1>0, <1>1, <2>1 DEF Yield, batchVars, PoolInv, BatchesFit
  <1>2. CASE Create(c)
    BY <1>0, <1>2, CreatedRoot DEF Create, batchVars, PoolInv, BatchesFit
  <1>3. CASE BatchCreate(c)
    <2>1. PICK b \in Bid : /\ batch_state[b] = "idle"
                           /\ parent_cid' = [parent_cid EXCEPT ![b] = c]
                           /\ relate_bid' = [relate_bid EXCEPT ![c] = b]
      BY <1>3 DEF BatchCreate
    <2>2. state' = state /\ child_cid' = child_cid
      BY <1>3 DEF BatchCreate
    <2>3. state[c] # "idle" /\ ~ IsChild(c)
      BY <1>3 DEF BatchCreate, Orderly, InBody, SingleRunner
    <2>4. \A d \in Cid : relate_bid[d] # b
      BY <2>1, InvalidIds DEF BatchInv, Related
    <2>5. Roots' \subseteq Roots
      BY <2>1, <2>2, <2>3, <2>4 DEF Roots, Idle, IsChild
    <2>6. QED
      BY <1>0, <2>2, <2>5, FewerRoots DEF PoolInv, BatchesFit
  <1>4. CASE Return(c)
    <2>1. /\ state' = [state EXCEPT ![c] = "idle"] /\ UNCHANGED <<parent_cid, child_cid>>
          /\ \A d \in Cid : d # c => relate_bid'[d] = relate_bid[d]
      BY <1>4 DEF Return, ChildFinish
    <2>2. Roots' \subseteq Roots
      BY <2>1 DEF Roots, Idle, IsChild
    <2>3. QED
      BY <1>0, <2>1, <2>2, FewerRoots DEF PoolInv, BatchesFit
  <1>5. ASSUME NEW b \in Bid, BatchAdd(c, b)
        PROVE  PoolInv'
    <2>1. PICK n \in Cid : /\ n \in Idle
                           /\ state' = [state EXCEPT ![n] = "ready"]
                           /\ relate_bid' = [relate_bid EXCEPT ![n] = b]
                           /\ child_cid' = [child_cid EXCEPT ![b] = @ \cup {n}]
      BY <1>5 DEF BatchAdd, CoroutineCreate, CoroutineInit
    <2>2. /\ parent_cid' = parent_cid /\ parent_cid[b] = c /\ state[c] = "run"
          /\ Cardinality(child_cid[b]) < MaxInBatch
      BY <1>5 DEF BatchAdd, OpenBatches, InBody, SingleRunner
    <2>3. Roots' \subseteq Roots
      BY <2>1, <2>2, InvalidIds DEF Roots, Idle, IsChild
    <2>4. BatchesFit'
      <3>1. IsFiniteSet(child_cid[b]) /\ Cardinality(child_cid[b]) \in Nat
        BY FinitePool, FS_CardinalityType
      <3>2. /\ Cardinality(child_cid[b] \cup {n}) <= Cardinality(child_cid[b]) + 1
            /\ Cardinality(child_cid[b] \cup {n}) \in Nat
        BY <3>1, OneMore
      <3>3. QED
        BY <1>0, <2>1, <2>2, <3>1, <3>2, ScheduleAssumption DEF BatchesFit
    <2>5. QED
      BY <1>0, <2>3, <2>4, FewerRoots DEF PoolInv
  <1>6. ASSUME NEW b \in Bid, BatchRun(c, b)
        PROVE  PoolInv'
    <2>1. RootsFit'
      BY <1>0, <1>6, SameRoots DEF BatchRun, CoroutineYield, Running, SingleRunner
    <2>2. QED
      BY <1>0, <1>6, <2>1 DEF BatchRun, PoolInv, BatchesFit
  <1>7. ASSUME NEW b \in Bid, BatchRunEnd(c, b)
        PROVE  PoolInv'
    <2>1. /\ state' = state
          /\ parent_cid' = [parent_cid EXCEPT ![b] = kInvalidCid]
          /\ child_cid' = [child_cid EXCEPT ![b] = {}]
          /\ relate_bid' = [relate_bid EXCEPT ![c] = kInvalidBid]
      BY <1>7 DEF BatchRunEnd
    <2>2. \A n \in Cid : relate_bid[n] = b => n = c
      BY <1>7, JoinFromInv DEF BatchRunEnd, BatchJoin
    <2>3. ~ IsChild(c) /\ state[c] # "idle"
      BY <1>7, InsideIsParent DEF BatchRunEnd, IsChild, IsParent
    <2>4. Roots' \subseteq Roots
      BY <2>1, <2>2, <2>3, InvalidIds DEF Roots, Idle, IsChild
    <2>5. BatchesFit'
      BY <1>0, <2>1, FS_EmptySet, ScheduleAssumption DEF BatchesFit
    <2>6. QED
      BY <1>0, <2>4, <2>5, FewerRoots DEF PoolInv
  <1>8. QED
    BY <1>1, <1>2, <1>3, <1>4, <1>5, <1>6, <1>7 DEF CoroutineStep

(* And no other step does. *)
LEMMA PoolStep ==
  ASSUME SchedInv, BatchInv, Orderly, "overcommit" \notin Usage, PoolInv, [Next]_schedVars
  PROVE  PoolInv'
  <1> USE DEF SchedInv, TypeOK, States, batchVars, coVars
  <1>0. RootsFit /\ BatchesFit
    BY DEF PoolInv
  <1>1. ASSUME UNCHANGED batchVars, UNCHANGED state \/ \E c \in Cid : CoroutineResume(c)
        PROVE  PoolInv'
    <2>1. \A d \in Cid : state'[d] # "idle" => state[d] # "idle"
      BY <1>1 DEF CoroutineResume, ResumeAssert
    <2>2. RootsFit'
      BY <1>0, <1>1, <2>1, SameRoots
    <2>3. QED
      BY <1>0, <1>1, <2>2 DEF PoolInv, BatchesFit
  <1>2. \A c : CoroutineResume(c) => c \in Cid
    BY DEF CoroutineResume, ResumeAssert
  <1>3. CASE UNCHANGED schedVars
    BY <1>1, <1>3 DEF schedVars
  <1>4. CASE MainCreate
    BY <1>0, <1>4, CreatedRoot DEF MainCreate, PoolInv, BatchesFit
  <1>5. CASE MainCall /\ ~ MainCreate
    BY <1>1, <1>2, <1>5 DEF MainCall, Run, BatchFinish, ManualResume, BatchStart
  <1>6. CASE LoopStep \/ NoWaiters
    BY <1>1, <1>2, <1>6
    DEF LoopStep, NoWaiters, RunTest, ScanSkip, ScanResume, ScanEnd, FinishResume,
        FinishEnd, StartResume, StartEnd
  <1>7. QED
    BY <1>3, <1>4, <1>5, <1>6, CoroutineStepPool DEF Next

(* Arithmetic of products. *)
LEMMA TimesMonotone ==
  ASSUME NEW i \in Nat, NEW j \in Nat, NEW k \in Nat, i <= j
  PROVE  i * k <= j * k
  <1>1. PICK d \in Nat : j = i + d
    <2>1. j - i \in Nat /\ j = i + (j - i)
      OBVIOUS
    <2>2. QED
      BY <2>1
  <1>2. (i + d) * k = i * k + d * k
    OBVIOUS
  <1>3. i * k \in Nat /\ d * k \in Nat
    OBVIOUS
  <1>4. QED
    BY <1>1, <1>2, <1>3

LEMMA AtLeastTwice ==
  ASSUME NEW m \in Nat, m > 0, NEW k \in Nat
  PROVE  2 * k <= (m + 1) * k
  <1>1. 2 \in Nat /\ m + 1 \in Nat /\ 2 <= m + 1
    OBVIOUS
  <1>2. QED
    BY <1>1, TimesMonotone

(* While a coroutine without a batch runs, not every batch is in use: each
   batch in use has a parent of its own, and twice as many batches as
   coroutines outside them would not fit the pool. *)
LEMMA BatchLeft ==
  ASSUME SchedInv, BatchInv, RootsFit, MaxInBatch > 0,
         NEW c \in Cid, InBody(c), relate_bid[c] = kInvalidBid
  PROVE  \E b \in Bid : batch_state[b] = "idle"
  <1> USE DEF SchedInv, TypeOK, States
  <1>1. SUFFICES ASSUME \A b \in Bid : batch_state[b] # "idle" PROVE FALSE
    OBVIOUS
  <1> DEFINE parent == [b \in Bid |-> parent_cid[b]]
             others == Roots \ {c}
  <1>2. c \in Roots
    BY DEF InBody, SingleRunner, Roots, Idle, IsChild
  <1>3. \A b \in Bid : parent_cid[b] \in others /\ relate_bid[parent_cid[b]] = b
    <2> SUFFICES ASSUME NEW b \in Bid
                 PROVE  parent_cid[b] \in others /\ relate_bid[parent_cid[b]] = b
      OBVIOUS
    <2>1. parent_cid[b] \in Cid /\ relate_bid[parent_cid[b]] = b /\ b # kInvalidBid
      BY <1>1, InvalidIds DEF BatchInv, BatchMembers
    <2>2. state[parent_cid[b]] # "idle"
      BY <2>1 DEF BatchInv, Related
    <2>3. QED
      BY <2>1, <2>2 DEF Roots, Idle, IsChild
  <1>4. parent \in Injection(Bid, others)
    <2>1. parent \in [Bid -> others]
      BY <1>3
    <2>2. \A b, d \in Bid : parent[b] = parent[d] => b = d
      BY <1>3
    <2> HIDE DEF parent, others
    <2>3. QED
      BY ONLY <2>1, <2>2 DEF Injection, IsInjective
  <1>5. /\ IsFiniteSet(others) /\ Cardinality(others) = Cardinality(Roots) - 1
    BY <1>2, RootsOfPool, FS_RemoveElement
  <1>6. Cardinality(Bid) <= Cardinality(others)
    BY <1>4, <1>5, FS_Injection
  <1>7. Cardinality(Bid) = BatchSize
    <2>1. BatchSize - 1 \in Int /\ BatchSize - 1 - 0 + 1 = BatchSize /\ ~ 0 > BatchSize - 1
      BY ScheduleAssumption
    <2>2. QED
      BY <2>1, FS_Interval DEF Bid
  <1>8. BatchSize <= Requested - 1
    BY <1>5, <1>6, <1>7, RootsOfPool, ScheduleAssumption DEF RootsFit
  <1>9. 2 * Requested <= CoroutineCount
    BY ScheduleAssumption, AtLeastTwice DEF CoroutineCount
  <1>10. QED
    BY <1>8, <1>9, ScheduleAssumption

(* The rows of the table: who is outside the batches, and whose task. *)
Row(n) == IF IsChild(n) THEN parent_cid[relate_bid[n]] ELSE n

(* The columns: the tasks of a batch in some order. *)
Order(b)  == CHOOSE g \in Injection(child_cid[b], 1 .. Cardinality(child_cid[b])) : TRUE
Column(n) == IF IsChild(n) THEN Order(relate_bid[n])[n] ELSE 0

LEMMA OrderExists ==
  ASSUME SchedInv, NEW b \in Bid
  PROVE  Order(b) \in Injection(child_cid[b], 1 .. Cardinality(child_cid[b]))
  <1> DEFINE k == Cardinality(child_cid[b])
  <1>1. ExistsBijection(1 .. k, child_cid[b])
    BY FinitePool, FS_CardinalityType DEF SchedInv, TypeOK
  <1>2. PICK f \in Bijection(1 .. k, child_cid[b]) : TRUE
    BY <1>1 DEF ExistsBijection
  <1>3. Inverse(f, 1 .. k, child_cid[b]) \in Bijection(child_cid[b], 1 .. k)
    BY <1>2, Fun_BijInverse
  <1>4. QED
    BY <1>3 DEF Order, Bijection

(* Whoever is in a batch is one of its tasks, and its parent is not. *)
LEMMA ChildOfRoot ==
  ASSUME SchedInv, BatchInv, NEW n \in Cid, IsChild(n)
  PROVE  /\ relate_bid[n] \in Bid /\ n \in child_cid[relate_bid[n]]
         /\ parent_cid[relate_bid[n]] \in Roots
         /\ relate_bid[parent_cid[relate_bid[n]]] = relate_bid[n]
  <1> USE DEF SchedInv, TypeOK
  <1> DEFINE b == relate_bid[n]
  <1>1. b \in Bid /\ batch_state[b] # "idle" /\ n \in child_cid[b]
    BY DEF BatchInv, Related, IsChild, Unfinished
  <1>2. parent_cid[b] \in Cid /\ relate_bid[parent_cid[b]] = b
    BY <1>1 DEF BatchInv, BatchMembers
  <1>3. state[parent_cid[b]] # "idle"
    BY <1>1, <1>2, InvalidIds DEF BatchInv, Related
  <1>4. QED
    BY <1>1, <1>2, <1>3 DEF Roots, Idle, IsChild

(* While a batch has room for a task, not every coroutine is in use: one cell
   of the table is free, and the pool is as large as the table. *)
LEMMA CoroutineLeft ==
  ASSUME SchedInv, BatchInv, PoolInv, NEW c \in Cid,
         NEW b \in OpenBatches(c), Cardinality(child_cid[b]) < MaxInBatch
  PROVE  Idle # {}
  <1> USE DEF SchedInv, TypeOK, States
  <1>1. SUFFICES ASSUME Idle = {} PROVE FALSE
    OBVIOUS
  <1> DEFINE columns == 0 .. MaxInBatch
             cell    == [n \in Cid |-> <<Row(n), Column(n)>>]
  <1>2. b \in Bid /\ parent_cid[b] = c /\ batch_state[b] # "idle"
    BY DEF OpenBatches
  <1>3. \A d \in Bid : Cardinality(child_cid[d]) \in Nat /\ Cardinality(child_cid[d]) <= MaxInBatch
    BY FinitePool, FS_CardinalityType DEF PoolInv, BatchesFit
  <1>4. ASSUME NEW n \in Cid, IsChild(n)
        PROVE  /\ Row(n) \in Roots /\ relate_bid[Row(n)] = relate_bid[n]
               /\ Column(n) \in 1 .. Cardinality(child_cid[relate_bid[n]])
               /\ Column(n) = Order(relate_bid[n])[n]
               /\ relate_bid[n] \in Bid /\ n \in child_cid[relate_bid[n]]
    <2>1. /\ relate_bid[n] \in Bid /\ n \in child_cid[relate_bid[n]]
          /\ Row(n) \in Roots /\ relate_bid[Row(n)] = relate_bid[n]
      BY <1>4, ChildOfRoot DEF Row
    <2>2. Order(relate_bid[n])[n] \in 1 .. Cardinality(child_cid[relate_bid[n]])
      BY <2>1, OrderExists DEF Injection
    <2>3. QED
      BY <1>4, <2>1, <2>2 DEF Column
  <1>5. ASSUME NEW n \in Cid, ~ IsChild(n)
        PROVE  Row(n) = n /\ n \in Roots /\ Column(n) = 0
    BY <1>1, <1>5 DEF Row, Column, Roots
  <1>6. cell \in [Cid -> Roots \X columns]
    <2> SUFFICES ASSUME NEW n \in Cid PROVE Row(n) \in Roots /\ Column(n) \in columns
      OBVIOUS
    <2>1. CASE IsChild(n)
      <3>1. /\ Cardinality(child_cid[relate_bid[n]]) \in Nat
            /\ Cardinality(child_cid[relate_bid[n]]) <= MaxInBatch
        BY <1>3, <1>4, <2>1
      <3>2. QED
        BY <1>4, <2>1, <3>1, ScheduleAssumption
    <2>2. CASE ~ IsChild(n)
      BY <1>5, <2>2, ScheduleAssumption
    <2>3. QED
      BY <2>1, <2>2
  <1>7. \A m, n \in Cid : Row(m) = Row(n) /\ Column(m) = Column(n) => m = n
    <2> SUFFICES ASSUME NEW m \in Cid, NEW n \in Cid, Row(m) = Row(n), Column(m) = Column(n)
                 PROVE  m = n
      OBVIOUS
    <2>1. IsChild(m) <=> IsChild(n)
      BY <1>3, <1>4, <1>5
    <2>2. CASE IsChild(m) /\ IsChild(n)
      <3>1. relate_bid[m] = relate_bid[n]
        BY <1>4, <2>2
      <3>2. Order(relate_bid[m]) \in Injection(child_cid[relate_bid[m]],
                                              1 .. Cardinality(child_cid[relate_bid[m]]))
        BY <1>4, <2>2, OrderExists
      <3>3. QED
        BY <1>4, <2>2, <3>1, <3>2 DEF Injection, IsInjective
    <2>3. CASE ~ IsChild(m) /\ ~ IsChild(n)
      BY <1>5, <2>3
    <2>4. QED
      BY <2>1, <2>2, <2>3
  <1>8. cell \in Injection(Cid, Roots \X columns)
    BY <1>6, <1>7 DEF Injection, IsInjective
  <1>9. <<c, MaxInBatch>> \in Roots \X columns
    <2>1. ~ IsChild(c)
      BY <1>2 DEF BatchInv, BatchMembers, IsChild
    <2>2. QED
      BY <1>5, <2>1, ScheduleAssumption
  <1>10. \A n \in Cid : cell[n] # <<c, MaxInBatch>>
    <2> SUFFICES ASSUME NEW n \in Cid, Row(n) = c, Column(n) = MaxInBatch PROVE FALSE
      OBVIOUS
    <2>1. MaxInBatch \in Nat /\ MaxInBatch > 0
      BY <1>2, <1>3, ScheduleAssumption
    <2>2. IsChild(n)
      BY <1>5, <2>1
    <2>3. relate_bid[c] = b
      BY <1>2 DEF BatchInv, BatchMembers
    <2>4. relate_bid[n] = b
      BY <1>4, <2>2, <2>3
    <2>5. QED
      BY <1>2, <1>3, <1>4, <2>1, <2>2, <2>4
  <1>11. cell \notin Surjection(Cid, Roots \X columns)
    BY <1>9, <1>10 DEF Surjection
  <1>12. /\ IsFiniteSet(Roots \X columns)
         /\ Cardinality(Roots \X columns) = Cardinality(Roots) * (MaxInBatch + 1)
    <2>1. /\ 0 \in Int /\ MaxInBatch \in Int /\ ~ 0 > MaxInBatch
          /\ MaxInBatch - 0 + 1 = MaxInBatch + 1
      BY ScheduleAssumption
    <2>2. IsFiniteSet(columns) /\ Cardinality(columns) = MaxInBatch + 1
      BY <2>1, FS_Interval
    <2>3. QED
      BY <2>2, RootsOfPool, FS_Product
  <1> HIDE DEF cell, columns
  <1>13. /\ Cardinality(Cid) <= Cardinality(Roots \X columns)
         /\ Cardinality(Cid) # Cardinality(Roots \X columns)
    BY <1>8, <1>11, <1>12, FS_Injection
  <1>14. Cardinality(Cid) = CoroutineCount
    <2>1. /\ 0 \in Int /\ CoroutineCount - 1 \in Int
          /\ Cardinality(0 .. CoroutineCount - 1)
               = IF 0 > CoroutineCount - 1 THEN 0 ELSE CoroutineCount - 1 - 0 + 1
      BY ScheduleAssumption, FS_Interval
    <2>2. QED
      BY <2>1, ScheduleAssumption DEF Cid
  <1>15. Cardinality(Roots) * (MaxInBatch + 1) <= Requested * (MaxInBatch + 1)
    <2>1. /\ Cardinality(Roots) \in Nat /\ Requested \in Nat /\ MaxInBatch + 1 \in Nat
          /\ Cardinality(Roots) <= Requested
      BY RootsOfPool, ScheduleAssumption DEF PoolInv, RootsFit
    <2>2. QED
      BY <2>1, TimesMonotone
  <1>16. Requested * (MaxInBatch + 1) = CoroutineCount
    BY ScheduleAssumption DEF CoroutineCount
  <1>17. Cardinality(Roots) * (MaxInBatch + 1) \in Nat
    BY RootsOfPool, ScheduleAssumption
  <1> DEFINE cells == Cardinality(Roots \X columns)
             used  == Cardinality(Roots) * (MaxInBatch + 1)
             slots == Requested * (MaxInBatch + 1)
  <1>18. /\ cells = used /\ used \in Nat /\ used <= slots
         /\ slots = CoroutineCount /\ CoroutineCount \in Nat
         /\ CoroutineCount <= cells /\ CoroutineCount # cells
    <2>1. CoroutineCount \in Nat
      BY ScheduleAssumption, <1>16
    <2>2. QED
      BY ONLY <1>12, <1>13, <1>14, <1>15, <1>16, <1>17, <2>1
  <1> HIDE DEF cells, used, slots
  <1>19. QED
    BY ONLY <1>18

(* The constructor's two pools never run out: who may create a batch finds
   an idle one, and who may add a task to its batch finds an idle coroutine,
   so the assert of BatchAdd does not fail.  The program must not have more
   than coroutine_count coroutines outside batches. *)
THEOREM PoolsNeverRunOut ==
  ASSUME Orderly, "overcommit" \notin Usage
  PROVE  Spec => []PoolsSuffice
  <1>1. Init => PoolInv
    <2>1. Init => Roots = {} /\ \A b \in Bid : child_cid[b] = {}
      BY DEF Init, Roots, Idle
    <2>2. 0 <= Requested /\ 0 <= MaxInBatch
      BY ScheduleAssumption
    <2>3. QED
      BY <2>1, <2>2, FS_EmptySet DEF PoolInv, RootsFit, BatchesFit
  <1>2. SchedInv /\ BatchInv /\ PoolInv /\ [Next]_schedVars => PoolInv'
    BY PoolStep
  <1>3. SchedInv /\ BatchInv /\ PoolInv => PoolsSuffice
    BY BatchLeft, CoroutineLeft DEF PoolInv, PoolsSuffice
  <1>4. QED
    BY <1>1, <1>2, <1>3, BatchAccounts, PTL DEF Spec

-----------------------------------------------------------------------------
(***************************************************************************)
(* Lists of waiters: what erasing the first occurrence of an entry does to *)
(* a list that has it at most once.                                        *)
(***************************************************************************)
(* In a queue that names nobody twice, erasing the first occurrence of an
   entry erases the entry, and nobody else. *)
LEMMA EraseOnce ==
  ASSUME NEW S, NEW s \in Seq(S), NEW e, NEW t, t = RemoveFirst(s, e),
         \A i, j \in 1 .. Len(s) : s[i] = s[j] => i = j
  PROVE  /\ t \in Seq(S)
         /\ ~ Contains(t, e)
         /\ \A d : d # e /\ Contains(s, d) => Contains(t, d)
         /\ \A i \in 1 .. Len(t) : Contains(s, t[i])
         /\ \A i, j \in 1 .. Len(t) : t[i] = t[j] => i = j
  <1>1. CASE ~ Contains(s, e)
    <2>1. t = s
      BY <1>1 DEF RemoveFirst, Contains
    <2>2. QED
      BY <1>1, <2>1 DEF Contains
  <1>2. CASE Contains(s, e)
    <2>1. PICK k \in 1 .. Len(s) : s[k] = e
      BY <1>2 DEF Contains
    <2>2. {i \in 1 .. Len(s) : s[i] = e} = {k}
      BY <2>1
    <2>3. Min({k}) = k
      BY DEF Min
    <2>4. t = SubSeq(s, 1, k - 1) \o SubSeq(s, k + 1, Len(s))
      BY <2>1, <2>2, <2>3 DEF RemoveFirst, RemoveAt, SelectInSeq
    <2>5. /\ t \in Seq(S) /\ Len(t) = Len(s) - 1
          /\ \A i \in 1 .. Len(t) : t[i] = IF i < k THEN s[i] ELSE s[i + 1]
      <3> DEFINE a == SubSeq(s, 1, k - 1)
                 b == SubSeq(s, k + 1, Len(s))
      <3>1. a \in Seq(S) /\ Len(a) = k - 1 /\ \A i \in 1 .. k - 1 : a[i] = s[i]
        BY <2>1
      <3>2. b \in Seq(S) /\ Len(b) = Len(s) - k /\ \A i \in 1 .. Len(s) - k : b[i] = s[i + k]
        <4>1. /\ k + 1 \in Int /\ Len(s) \in Int
              /\ \A i \in k + 1 .. Len(s) : s[i] \in S
          BY <2>1
        <4>2. /\ b \in Seq(S)
              /\ Len(b) = IF k + 1 <= Len(s) THEN Len(s) - (k + 1) + 1 ELSE 0
              /\ \A i \in 1 .. Len(s) - (k + 1) + 1 : b[i] = s[k + 1 + i - 1]
          BY <4>1, SubSeqProperties
        <4> HIDE DEF b
        <4>3. \A i \in 1 .. Len(s) - k : b[i] = s[i + k]
          <5> SUFFICES ASSUME NEW i \in 1 .. Len(s) - k PROVE b[i] = s[i + k]
            OBVIOUS
          <5>1. i \in 1 .. Len(s) - (k + 1) + 1 /\ k + 1 + i - 1 = i + k
            BY <4>1
          <5>2. QED
            BY <4>2, <5>1
        <4>4. Len(b) = Len(s) - k
          BY <2>1, <4>1, <4>2
        <4>5. QED
          BY <4>2, <4>3, <4>4
      <3> HIDE DEF a, b
      <3>3. a \o b \in Seq(S) /\ Len(a \o b) = Len(s) - 1
        <4>1. a \in Seq(S) /\ b \in Seq(S)
          BY <3>1, <3>2
        <4>2. a \o b \in Seq(S) /\ Len(a \o b) = Len(a) + Len(b)
          BY ONLY <4>1, ConcatProperties
        <4>3. QED
          BY <2>1, <3>1, <3>2, <4>2
      <3>4. ASSUME NEW i \in 1 .. Len(s) - 1
            PROVE  (a \o b)[i] = IF i < k THEN s[i] ELSE s[i + 1]
        <4>1. (a \o b)[i] = IF i <= k - 1 THEN a[i] ELSE b[i - (k - 1)]
          BY <2>1, <3>1, <3>2, ConcatProperties
        <4>2. CASE i < k
          BY <2>1, <3>1, <4>1, <4>2
        <4>3. CASE i >= k
          <5>1. i - (k - 1) \in 1 .. Len(s) - k /\ i - (k - 1) + k = i + 1
            BY <2>1, <4>3
          <5>2. b[i - (k - 1)] = s[i + 1]
            BY <3>2, <5>1
          <5>3. (a \o b)[i] = b[i - (k - 1)]
            BY <2>1, <4>1, <4>3
          <5>4. QED
            BY <2>1, <4>3, <5>2, <5>3
        <4>4. i < k \/ i >= k
          BY <2>1
        <4>5. QED
          BY <4>2, <4>3, <4>4
      <3>5. QED
        BY <2>4, <3>3, <3>4 DEF a, b
    <2>6. \A d : d # e /\ Contains(s, d) => Contains(t, d)
      <3> SUFFICES ASSUME NEW d, d # e, Contains(s, d) PROVE Contains(t, d)
        OBVIOUS
      <3>1. PICK j \in 1 .. Len(s) : s[j] = d
        BY DEF Contains
      <3>2. CASE j < k
        BY <2>1, <2>5, <3>1, <3>2 DEF Contains
      <3>3. CASE j > k
        <4>1. j - 1 \in 1 .. Len(t) /\ t[j - 1] = d
          BY <2>1, <2>5, <3>1, <3>3
        <4>2. QED
          BY <4>1 DEF Contains
      <3>4. QED
        BY <2>1, <3>1, <3>2, <3>3
    <2>7. \A i \in 1 .. Len(t) : Contains(s, t[i]) /\ t[i] # e
      <3> SUFFICES ASSUME NEW i \in 1 .. Len(t) PROVE Contains(s, t[i]) /\ t[i] # e
        OBVIOUS
      <3>1. PICK j \in 1 .. Len(s) : t[i] = s[j] /\ j # k
        BY <2>1, <2>5
      <3>2. s[j] # e
        BY <2>1, <3>1
      <3>3. QED
        BY <3>1, <3>2 DEF Contains
    <2>8. \A i, j \in 1 .. Len(t) : t[i] = t[j] => i = j
      BY <2>1, <2>5
    <2>9. QED
      BY <2>5, <2>6, <2>7, <2>8 DEF Contains
  <1>3. QED
    BY <1>1, <1>2
=============================================================================
