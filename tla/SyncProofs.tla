----------------------------- MODULE SyncProofs ------------------------------
(***************************************************************************)
(* Theorems about the condition variable, the channel with its semaphores, *)
(* CallOnce and SingleFlight, and the read-write lock, for any number of   *)
(* coroutines, and the lemmas about module CoWait that they rest on.       *)
(***************************************************************************)
EXTENDS CoCond, CoChannel, CoOnce, CoRWLock, ScheduleProofs

(* The scheduler's invariant, and: who is inside one of the calls has not
   returned and runs or sleeps. *)
WaitInv(Calls) ==
  /\ SchedInv
  /\ wait_in \in [Cid -> Calls \cup {"none"}]
  /\ \A c \in Cid : wait_in[c] # "none" => state[c] \in {"run", "suspend"}
-----------------------------------------------------------------------------
(* In the beginning nobody is inside a call. *)
LEMMA WaitInitInv ==
  ASSUME NEW Calls, NEW Things, WaitInit(Things)
  PROVE  WaitInv(Calls)
  BY SchedInit DEF WaitInit, WaitInv

(* A step that changes nothing of the scheduler, nor who is in which call. *)
LEMMA WaitStutter ==
  ASSUME NEW Calls, WaitInv(Calls), UNCHANGED <<schedVars, wait_in>>
  PROVE  WaitInv(Calls)'
  <1>1. SchedInv'
    BY SchedStep DEF WaitInv
  <1>2. UNCHANGED <<state, wait_in>>
    BY DEF schedVars, coVars
  <1>3. QED
    BY <1>1, <1>2 DEF WaitInv

(* What a coroutine does outside the calls does not touch those inside. *)
LEMMA OtherStepWaits ==
  ASSUME NEW Calls, WaitInv(Calls), NEW c \in Cid, OtherStep(c)
  PROVE  /\ WaitInv(Calls)'
         /\ UNCHANGED <<waitVars, phase>>
         /\ \A d \in Cid : wait_in[d] # "none" => state'[d] = state[d]
  <1>1. CoroutineStep(c) /\ UNCHANGED waitVars /\ wait_in[c] = "none"
    BY DEF OtherStep, Free
  <1>2. SchedInv'
    BY <1>1, CoroutineStepSched DEF WaitInv
  <1>3. ASSUME NEW d \in Cid, wait_in[d] # "none"
        PROVE  state'[d] = state[d]
    <2> USE DEF WaitInv, SchedInv, TypeOK
    <2>1. d # c /\ state[d] # "idle"
      BY <1>1, <1>3
    <2>2. CASE Yield(c) \/ Return(c)
      BY <2>1, <2>2 DEF Yield, Return, CoroutineYield
    <2>3. CASE Create(c)
      BY <2>1, <2>3 DEF Create, CoroutineCreate, CoroutineInit, Idle
    <2>4. CASE BatchCreate(c)
      BY <2>4 DEF BatchCreate
    <2>5. ASSUME NEW b \in Bid, BatchAdd(c, b)
          PROVE  state'[d] = state[d]
      BY <2>1, <2>5 DEF BatchAdd, CoroutineCreate, CoroutineInit, Idle
    <2>6. ASSUME NEW b \in Bid, BatchRun(c, b) \/ BatchRunEnd(c, b)
          PROVE  state'[d] = state[d]
      BY <2>1, <2>6 DEF BatchRun, BatchRunEnd, CoroutineYield
    <2>7. QED
      BY <1>1, <2>2, <2>3, <2>4, <2>5, <2>6 DEF CoroutineStep
  <1>4. UNCHANGED phase
    BY <1>1 DEF CoroutineStep, Yield, Return, Create, BatchCreate, BatchAdd, BatchRun,
                BatchRunEnd, mainVars
  <1>5. QED
    BY <1>1, <1>2, <1>3, <1>4 DEF WaitInv, waitVars

(* The loops of the scheduler and the calls of the main program, those of
   CoXxxResume included, find and leave nobody else inside a call, and the
   first two are not made from inside CoXxxResume. *)
LEMMA MasterWaits ==
  ASSUME NEW Calls, WaitInv(Calls), NEW Things,
         OtherLoop \/ OtherCall \/ ManualSync \/ SyncEnd(Things)
  PROVE  /\ WaitInv(Calls)'
         /\ UNCHANGED <<wait_in, visiting, cid_set>>
         /\ is_master /\ (phase = "sync" => visiting = "none")
         /\ unvisited' \in {unvisited, Things}
  <1> USE DEF WaitInv
  <1>1. CASE OtherLoop \/ OtherCall
    <2>1. LoopStep \/ MainCall
      BY <1>1 DEF OtherLoop, OtherCall, MainCall
    <2>2. UNCHANGED waitVars
      BY <1>1 DEF OtherLoop, OtherCall
    <2>3. SchedInv'
      BY <2>1, LoopStepSched, MainCallSched
    <2>4. is_master /\ phase # "sync"
      BY <2>1 DEF LoopStep, RunTest, ScanSkip, ScanResume, ScanEnd, FinishResume, FinishEnd,
                  StartEnd, StartResume, MainCall, MainCreate, Run, BatchFinish,
                  ManualResume, BatchStart, MainAt
    <2>5. ASSUME NEW d \in Cid, wait_in[d] # "none"
          PROVE  state'[d] \in {"run", "suspend"}
      <3> USE DEF SchedInv, TypeOK, coVars
      <3>1. CASE LoopStep
        BY <2>5, <3>1 DEF LoopStep, RunTest, ScanSkip, ScanResume, ScanEnd, FinishResume,
                          FinishEnd, StartEnd, StartResume, CoroutineResume
      <3>2. CASE MainCall
        BY <2>5, <3>2 DEF MainCall, MainCreate, CoroutineCreate, CoroutineInit, Idle, Run,
                          BatchFinish, ManualResume, CoroutineResume, BatchStart
      <3>3. QED
        BY <2>1, <3>1, <3>2
    <2>6. QED
      BY <2>2, <2>3, <2>4, <2>5 DEF waitVars, visitVars
  <1>2. CASE ManualSync \/ SyncEnd(Things)
    <2>1. /\ UNCHANGED <<wait_in, visiting, cid_set, idx, todo, in_run, coVars, batchVars,
                         switchVars, not_idle_count, batch_finish_cid_list, created>>
          /\ phase' \in Phases /\ unvisited' \in {unvisited, Things}
          /\ is_master /\ (phase = "sync" => visiting = "none")
      BY <1>2 DEF ManualSync, SyncEnd, waitVars, visitVars, MainAt, Phases
    <2>2. SchedInv'
      BY <2>1, MoveStepSched DEF SchedInv, TypeOK
    <2>3. QED
      BY <2>1, <2>2 DEF coVars
  <1>3. QED
    BY <1>1, <1>2

(* A call that waits, or returns, or is counted and goes on. *)
LEMMA CallWaits ==
  ASSUME NEW Calls, "none" \notin Calls, WaitInv(Calls),
         NEW c \in Cid, NEW call \in Calls,
         Enter(c, call), GoOn(c) \/ YieldIn(c, call), UNCHANGED restVars
  PROVE  /\ WaitInv(Calls)'
         /\ state[c] = "run" /\ UNCHANGED phase
         /\ wait_in' = [wait_in EXCEPT ![c] = IF GoOn(c) THEN "none" ELSE call]
         /\ \A d \in Cid : d # c => state'[d] = state[d]
         /\ wait_in[c] \in {"none", call}
  <1> USE DEF WaitInv, SchedInv, restVars
  <1>1. /\ calls' \in [Cid -> Nat] /\ wait_in[c] \in {"none", call}
        /\ Running(c)
    BY DEF Enter, Call, Free, InBody, TypeOK
  <1>2. state[c] = "run"
    BY <1>1 DEF SingleRunner
  <1>3. CASE GoOn(c)
    <2>1. UNCHANGED <<state, switchVars>> /\ wait_in' = [wait_in EXCEPT ![c] = "none"]
      BY <1>3 DEF GoOn
    <2>2. SchedInv'
      BY <1>1, <2>1 DEF TypeOK, ParentValid, SingleRunner, NotIdleCount, Running, Idle,
                        batchVars, switchVars, mainVars
    <2>3. QED
      BY <1>1, <1>2, <1>3, <2>1, <2>2 DEF mainVars
  <1>4. CASE YieldIn(c, call) /\ ~ GoOn(c)
    <2>1. CoroutineYield(c) /\ wait_in' = [wait_in EXCEPT ![c] = call]
      BY <1>4 DEF YieldIn
    <2>2. TypeOK' /\ ParentValid' /\ SingleRunner' /\ NotIdleCount'
      BY <1>1, <2>1, YieldSwitches DEF TypeOK, ParentValid, batchVars, mainVars
    <2>3. state' = [state EXCEPT ![c] = "suspend"] /\ state \in [Cid -> States]
      BY <2>1 DEF CoroutineYield, TypeOK
    <2>4. QED
      BY <1>1, <1>2, <1>4, <2>1, <2>2, <2>3 DEF mainVars
  <1>5. QED
    BY <1>3, <1>4

(* A call that is counted, and neither waits nor ends a wait. *)
LEMMA CountWaits ==
  ASSUME NEW Calls, WaitInv(Calls), NEW c \in Cid,
         Call(c), UNCHANGED <<waitVars, state, switchVars, restVars>>
  PROVE  WaitInv(Calls)' /\ UNCHANGED phase
  <1> USE DEF WaitInv, SchedInv, restVars
  <1>1. calls' \in [Cid -> Nat]
    BY DEF Call, TypeOK
  <1>2. SchedInv'
    BY <1>1 DEF TypeOK, ParentValid, SingleRunner, NotIdleCount, Running, Idle,
                batchVars, switchVars, mainVars
  <1>3. QED
    BY <1>2 DEF waitVars, mainVars

(* CoXxxResume resumes a coroutine. *)
LEMMA WakeWaits ==
  ASSUME NEW Calls, WaitInv(Calls), NEW c, Wake(c)
  PROVE  /\ WaitInv(Calls)'
         /\ c \in Cid /\ state[c] \in {"ready", "suspend"}
         /\ state' = [state EXCEPT ![c] = "run"]
         /\ UNCHANGED <<wait_in, phase>> /\ is_master /\ ~ is_master'
  <1> USE DEF WaitInv, SchedInv
  <1>1. /\ CoroutineResume(c) /\ UNCHANGED <<wait_in, calls, restVars>>
    BY DEF Wake
  <1>2. SchedInv'
    BY <1>1, ResumeStepSched DEF TypeOK, restVars, mainVars
  <1>3. QED
    BY <1>1, <1>2 DEF CoroutineResume, ResumeAssert, TypeOK, restVars, mainVars
-----------------------------------------------------------------------------
(***************************************************************************)
(* CoCond: the condition variable forgets no waiter, and loses no          *)
(* notification of a program that keeps to its rules.                      *)
(***************************************************************************)
(* Those inside CoCondWait, but for the one that runs. *)
Waiting == {c \in Cid : wait_in[c] = "cond" /\ state[c] # "run"}

(* The coroutine that runs is inside CoCondWait. *)
InsideRuns == \E c \in Cid : Running(c) /\ wait_in[c] = "cond"

(* Who waits is noted, in the set or in the copy of a visit. *)
CondNotedInv ==
  /\ WaitInv(Cond)
  /\ suspend_cid_set \subseteq {c \in Cid : wait_in[c] = "cond"}
  /\ visiting = "all" => cid_set \subseteq Waiting
  /\ Waiting \subseteq suspend_cid_set \cup (IF visiting = "all" THEN cid_set ELSE {})
  /\ visiting # "none" => phase = "sync" /\ unvisited = {}

(* As long as no visit is pending or under way, nobody waits for an item that
   is there; one notification stands for at most one item if somebody waits;
   a visit wakes all that wait, or leaves no item. *)
ItemsInv ==
  /\ items \in Nat
  /\ cond_state \in {"none", "one", "all"} /\ visiting \in {"none", "one", "all"}
  /\ visiting # "none" => visiting = cond_state
  /\ visiting = "none" /\ cond_state = "none" /\ items > 0 => Waiting = {}
  /\ visiting = "none" /\ cond_state = "one" =>
       notify_count = 1 /\ (Waiting # {} => items <= 1)
  /\ visiting = "one" =>
       /\ items <= 1
       /\ \/ notify_count = 1 /\ is_master /\ suspend_cid_set # {}
          \/ notify_count = 0 /\ (items = 0 \/ InsideRuns)
  /\ visiting = "all" /\ items > 0 => Waiting \subseteq cid_set

condSpecVars == <<schedVars, waitVars, condVars>>
-----------------------------------------------------------------------------
LEMMA CondInitInv == WaitInit(Cond) /\ CondInit => CondNotedInv /\ ItemsInv
  <1> SUFFICES ASSUME WaitInit(Cond), CondInit PROVE CondNotedInv /\ ItemsInv
    OBVIOUS
  <1>1. WaitInv(Cond)
    BY WaitInitInv
  <1>2. Waiting = {}
    BY DEF WaitInit, Waiting
  <1>3. QED
    BY <1>1, <1>2 DEF WaitInit, CondInit, CondNotedInv, ItemsInv

(* While the main program runs, no coroutine does. *)
LEMMA NobodyRuns ==
  ASSUME WaitInv(Cond), is_master
  PROVE  /\ \A c \in Cid : state[c] # "run" /\ ~ Running(c)
         /\ Waiting = {c \in Cid : wait_in[c] = "cond"}
  BY DEF WaitInv, SchedInv, SingleRunner, Running, Waiting

(* What leaves the waiters alone, or resumes one unasked, while no visit is
   under way. *)
LEMMA CondMasterNoted ==
  ASSUME CondNotedInv, OtherLoop \/ OtherCall \/ ManualSync \/ SyncEnd(Cond), UNCHANGED condVars
  PROVE  CondNotedInv' /\ (ItemsInv => ItemsInv')
  <1> USE DEF CondNotedInv, condVars
  <1>1. /\ WaitInv(Cond)' /\ UNCHANGED <<wait_in, visiting, cid_set>>
        /\ is_master /\ (phase = "sync" => visiting = "none")
    BY MasterWaits
  <1>2. visiting = "none"
    BY <1>1
  <1>3. Waiting' \subseteq Waiting
    BY <1>1, NobodyRuns DEF Waiting
  <1>4. CondNotedInv'
    BY <1>1, <1>2, <1>3
  <1>5. ItemsInv => ItemsInv'
    BY <1>1, <1>2, <1>3 DEF ItemsInv
  <1>6. QED
    BY <1>4, <1>5

LEMMA CondStutterNoted ==
  ASSUME CondNotedInv, UNCHANGED condSpecVars
  PROVE  CondNotedInv' /\ (ItemsInv => ItemsInv')
  <1>1. UNCHANGED <<schedVars, wait_in, visitVars, condVars>>
    BY DEF condSpecVars, waitVars
  <1>2. WaitInv(Cond)'
    BY <1>1, WaitStutter DEF CondNotedInv
  <1>3. /\ UNCHANGED <<wait_in, unvisited, visiting, cid_set, state, phase>>
        /\ UNCHANGED switchVars
        /\ UNCHANGED <<cond_state, notify_count, suspend_cid_set, items>>
    BY <1>1 DEF schedVars, coVars, mainVars, switchVars, visitVars, condVars
  <1>4. UNCHANGED <<Waiting, InsideRuns>>
    BY <1>3 DEF Waiting, InsideRuns, Running, switchVars
  <1>5. QED
    BY <1>2, <1>3, <1>4 DEF CondNotedInv, ItemsInv, switchVars

(* The coroutine that runs takes an item, or finds none and waits. *)
LEMMA CondWaitNoted ==
  ASSUME CondNotedInv, NEW c \in Cid, CondWait(c)
  PROVE  CondNotedInv' /\ (ItemsInv => ItemsInv')
  <1> USE DEF CondNotedInv
  <1>0. "none" \notin Cond /\ "cond" \in Cond
    BY DEF Cond
  <1>1. /\ Enter(c, "cond") /\ UNCHANGED <<cond_state, notify_count, unvisited, visiting, cid_set, restVars>>
        /\ \/ /\ items > 0 /\ items' = items - 1 /\ GoOn(c)
              /\ suspend_cid_set' = suspend_cid_set \ {c}
           \/ /\ items = 0 /\ UNCHANGED items /\ YieldIn(c, "cond") /\ ~ GoOn(c)
              /\ suspend_cid_set' = suspend_cid_set \cup {c}
    BY DEF CondWait, visitVars, YieldIn, GoOn, CoroutineYield, Running, switchVars
  <1>2. /\ WaitInv(Cond)'
        /\ state[c] = "run" /\ UNCHANGED phase
        /\ wait_in' = [wait_in EXCEPT ![c] = IF GoOn(c) THEN "none" ELSE "cond"]
        /\ \A d \in Cid : d # c => state'[d] = state[d]
    BY <1>0, <1>1, CallWaits
  <1>3. wait_in \in [Cid -> Cond \cup {"none"}] /\ ~ is_master
    BY <1>2 DEF WaitInv, SchedInv, SingleRunner, Running
  <1>4. CASE GoOn(c)
    <2>1. Waiting' = Waiting
      BY <1>2, <1>3, <1>4 DEF Waiting
    <2>2. CondNotedInv'
      BY <1>1, <1>2, <1>3, <1>4, <2>1 DEF Waiting
    <2>3. ItemsInv => ItemsInv'
      BY <1>1, <1>3, <1>4, <2>1 DEF ItemsInv
    <2>4. QED
      BY <2>2, <2>3
  <1>5. CASE ~ GoOn(c)
    <2>1. Waiting' \subseteq Waiting \cup {c} /\ c \notin Waiting
      BY <1>2, <1>3, <1>5 DEF Waiting
    <2>2. Waiting \subseteq Waiting'
      BY <1>2, <1>3, <1>5 DEF Waiting
    <2>3. CondNotedInv'
      BY <1>1, <1>2, <1>3, <1>5, <2>1, <2>2
    <2>4. ItemsInv => ItemsInv'
      BY <1>1, <1>3, <1>5, <2>1 DEF ItemsInv
    <2>5. QED
      BY <2>3, <2>4
  <1>6. QED
    BY <1>4, <1>5

(* An item more, with a notification; in a program without liberties, outside
   a visit and, if it is NotifyOne, with none pending. *)
LEMMA NotifyNoted ==
  ASSUME CondNotedInv, NEW c \in Cid, NotifyOne(c) \/ NotifyAll(c)
  PROVE  CondNotedInv' /\ (CondUsage = {} /\ ItemsInv => ItemsInv')
  <1> USE DEF CondNotedInv
  <1>1. /\ Call(c) /\ UNCHANGED <<waitVars, state, switchVars, restVars, suspend_cid_set>>
        /\ "nested" \in CondUsage \/ visiting = "none"
        /\ items' = items + 1
    BY DEF NotifyOne, NotifyAll, AddItem
  <1>2. WaitInv(Cond)' /\ UNCHANGED phase
    BY <1>1, CountWaits
  <1>3. UNCHANGED <<wait_in, unvisited, visiting, cid_set, Waiting>>
    BY <1>1 DEF waitVars, visitVars, Waiting
  <1>4. CondNotedInv'
    BY <1>1, <1>2, <1>3
  <1>5. ASSUME CondUsage = {}, ItemsInv
        PROVE  ItemsInv'
    <2>1. \/ cond_state = "none" /\ cond_state' = "one" /\ notify_count' = 1
          \/ cond_state' = "all"
      BY <1>5 DEF NotifyOne, NotifyAll
    <2>2. visiting = "none" /\ visiting' = "none"
      BY <1>1, <1>3, <1>5
    <2>3. QED
      BY <1>1, <1>3, <1>5, <2>1, <2>2 DEF ItemsInv
  <1>6. QED
    BY <1>4, <1>5

(* What bodies do besides. *)
LEMMA CondOtherNoted ==
  ASSUME CondNotedInv, NEW c \in Cid, CondOther(c)
  PROVE  CondNotedInv' /\ (ItemsInv => ItemsInv')
  <1> USE DEF CondNotedInv
  <1>1. OtherStep(c) /\ UNCHANGED condVars
    BY DEF CondOther
  <1>2. /\ WaitInv(Cond)' /\ UNCHANGED <<waitVars, phase>>
        /\ \A d \in Cid : wait_in[d] # "none" => state'[d] = state[d]
    BY <1>1, OtherStepWaits
  <1>3. UNCHANGED <<wait_in, unvisited, visiting, cid_set, cond_state, notify_count, suspend_cid_set, items>>
    BY <1>1, <1>2 DEF waitVars, visitVars, condVars
  <1>4. Waiting' = Waiting
    BY <1>2, <1>3 DEF Waiting
  <1>5. ~ is_master /\ ~ InsideRuns
    <2>1. Running(c) /\ wait_in[c] = "none"
      BY <1>1 DEF OtherStep, Free, InBody
    <2>2. QED
      BY <2>1 DEF Running, InsideRuns
  <1>6. CondNotedInv'
    BY <1>2, <1>3, <1>4
  <1>7. ItemsInv => ItemsInv'
    BY <1>3, <1>4, <1>5 DEF ItemsInv
  <1>8. QED
    BY <1>6, <1>7

(* CoCondResume enters or leaves a loop. *)
LEMMA CondVisitNoted ==
  ASSUME CondNotedInv, CondSkip \/ CondVisit \/ CondVisited
  PROVE  CondNotedInv' /\ (ItemsInv => ItemsInv')
  <1> USE DEF CondNotedInv
  <1>1. Look
    BY DEF CondSkip, CondVisit, CondVisited
  <1>2. is_master /\ phase = "sync" /\ UNCHANGED <<schedVars, wait_in>>
    BY <1>1 DEF Look, MainAt
  <1>3. WaitInv(Cond)' /\ UNCHANGED <<state, phase, is_master, slave_cid>>
    BY <1>2, WaitStutter DEF schedVars, coVars, mainVars, switchVars
  <1>4. Waiting' = Waiting /\ Waiting = {c \in Cid : wait_in[c] = "cond"} /\ ~ InsideRuns
    BY <1>2, <1>3, NobodyRuns DEF Waiting, InsideRuns
  <1>5. CASE CondSkip
    BY <1>2, <1>3, <1>4, <1>5 DEF CondSkip, condVars, ItemsInv
  <1>6. CASE CondVisit
    <2>1. /\ visiting' = cond_state /\ cond_state # "none" /\ suspend_cid_set # {}
          /\ UNCHANGED <<cond_state, notify_count, items>>
          /\ IF cond_state = "all"
             THEN cid_set' = suspend_cid_set /\ suspend_cid_set' = {}
             ELSE UNCHANGED <<cid_set, suspend_cid_set>>
          /\ unvisited' = {} /\ visiting = "none"
      BY <1>6 DEF CondVisit, Cond
    <2>2. CondNotedInv'
      BY <1>2, <1>3, <1>4, <2>1
    <2>3. Waiting # {}
      BY <1>4, <2>1
    <2>4. ItemsInv => ItemsInv'
      BY <1>2, <1>3, <1>4, <2>1, <2>3 DEF ItemsInv
    <2>5. QED
      BY <2>2, <2>4
  <1>7. CASE CondVisited
    <2>1. /\ \/ visiting = "one" /\ notify_count = 0
             \/ visiting = "all" /\ cid_set = {}
          /\ cond_state' = "none" /\ visiting' = "none"
          /\ UNCHANGED <<unvisited, cid_set, suspend_cid_set, items>>
      BY <1>7 DEF CondVisited
    <2>2. CondNotedInv'
      BY <1>2, <1>3, <1>4, <2>1
    <2>3. ItemsInv => ItemsInv'
      BY <1>2, <1>4, <2>1 DEF ItemsInv
    <2>4. QED
      BY <2>2, <2>3
  <1>8. QED
    BY <1>5, <1>6, <1>7

(* CoCondResume wakes a waiter. *)
LEMMA CondResumeNoted ==
  ASSUME CondNotedInv, CondResumeOne \/ CondResumeAll
  PROVE  CondNotedInv' /\ (ItemsInv => ItemsInv')
  <1> USE DEF CondNotedInv
  <1>1. PICK c :
          /\ Wake(c) /\ UNCHANGED <<unvisited, visiting, cond_state, items>>
          /\ \/ /\ visiting = "one" /\ c \in suspend_cid_set
                /\ notify_count # 0 /\ notify_count' = notify_count - 1
                /\ suspend_cid_set' = suspend_cid_set \ {c} /\ UNCHANGED cid_set
             \/ /\ visiting = "all" /\ c \in cid_set
                /\ cid_set' = cid_set \ {c} /\ UNCHANGED suspend_cid_set
    BY DEF CondResumeOne, CondResumeAll, condVars, visitVars
  <1>2. /\ WaitInv(Cond)' /\ c \in Cid
        /\ state' = [state EXCEPT ![c] = "run"]
        /\ UNCHANGED <<wait_in, phase>> /\ is_master
    BY <1>1, WakeWaits
  <1>3. slave_cid' = c /\ ~ is_master' /\ wait_in[c] = "cond"
    BY <1>1, <1>2 DEF Wake, CoroutineResume, Waiting
  <1>4. InsideRuns'
    BY <1>2, <1>3 DEF InsideRuns, Running
  <1>5. Waiting' = Waiting \ {c}
    BY <1>2 DEF Waiting, WaitInv, SchedInv, TypeOK
  <1>6. CondNotedInv'
    BY <1>1, <1>2, <1>5
  <1>7. ItemsInv => ItemsInv'
    BY <1>1, <1>2, <1>4, <1>5 DEF ItemsInv
  <1>8. QED
    BY <1>6, <1>7

LEMMA CondStep ==
  ASSUME CondNotedInv, [CondNext]_condSpecVars
  PROVE  CondNotedInv' /\ (CondUsage = {} /\ ItemsInv => ItemsInv')
  <1>1. CASE UNCHANGED condSpecVars
    BY <1>1, CondStutterNoted
  <1>2. CASE CondThread
    BY <1>2, CondMasterNoted, CondVisitNoted, CondResumeNoted, CondWaitNoted, NotifyNoted, CondOtherNoted
    DEF CondThread
  <1>3. CASE CondCall
    BY <1>3, CondMasterNoted DEF CondCall
  <1>4. QED
    BY <1>1, <1>2, <1>3 DEF CondNext

(* Whatever is notified and when, from inside CoCondResume too: the ids noted
   are those of the coroutines asleep in CoCondWait. *)
THEOREM CondForgetsNobody == CondSpec => []CondWaitersKept
  <1>1. CondNotedInv => CondWaitersKept
    <2> SUFFICES ASSUME CondNotedInv, is_master PROVE CondWaitersKept
      BY DEF CondWaitersKept
    <2>1. Waiting = {c \in Cid : wait_in[c] = "cond"}
      BY NobodyRuns DEF CondNotedInv
    <2>2. Waiting = {c \in Cid : Asleep(c, "cond")}
      BY <2>1 DEF CondNotedInv, WaitInv, Waiting, Asleep
    <2>3. QED
      BY <2>1, <2>2 DEF CondNotedInv, CondWaitersKept
  <1>2. CondNotedInv /\ [CondNext]_condSpecVars => CondNotedInv'
    BY CondStep
  <1>3. QED
    BY <1>1, <1>2, CondInitInv, PTL DEF CondSpec, condSpecVars

(* A program that notifies only outside CoCondResume, and by NotifyOne only
   when no notification is pending, loses none: while there is an item and no
   notification pending, nobody sleeps; and CoCondResume finds a waiter for
   each one notified. *)
THEOREM NoNotificationLost ==
  ASSUME CondUsage = {}
  PROVE  CondSpec => [](NotificationKept /\ NotifiedWaits)
  <1>1. CondNotedInv /\ ItemsInv => NotificationKept /\ NotifiedWaits
    BY DEF CondNotedInv, ItemsInv, NotificationKept, NotifiedWaits, Asleep, Waiting
  <1>2. CondNotedInv /\ ItemsInv /\ [CondNext]_condSpecVars => CondNotedInv' /\ ItemsInv'
    BY CondStep
  <1>3. QED
    BY <1>1, <1>2, CondInitInv, PTL DEF CondSpec, condSpecVars
-----------------------------------------------------------------------------
(***************************************************************************)
(* CoChannel: a channel loses no slot and invents none, is a bounded FIFO, *)
(* and its semaphores forget no waiter.                                    *)
(***************************************************************************)
(* The slots are accounted for. *)
SlotsInv ==
  /\ value \in [Semaphores -> Int]
  /\ buffer \in Seq(Cid)
  /\ SlotsConserved

(* A semaphore has noted those inside its wait, asleep or running; those in
   the copy have not had their turn. *)
SemInv ==
  /\ WaitInv(Semaphores)
  /\ sem_waiters = [s \in Semaphores |-> {c \in Cid : wait_in[c] = s}]
  /\ visiting \in Semaphores \cup {"none"}
  /\ unvisited \subseteq Semaphores
  /\ visiting \in Semaphores =>
       /\ phase = "sync"
       /\ cid_set \subseteq {c \in Cid : wait_in[c] = visiting /\ state[c] # "run"}

channelSpecVars == <<schedVars, waitVars, channelVars>>
-----------------------------------------------------------------------------
LEMMA SlotsInit == ChannelInit => SlotsInv
  BY ChannelAssumption DEF ChannelInit, SlotsInv, SlotsConserved, Semaphores

(* Only Send and Receive change the units or the list. *)
LEMMA OthersKeepSlots ==
  ASSUME [ChannelNext]_channelSpecVars,
         \A c \in Cid : ~ Send(c) /\ ~ Receive(c)
  PROVE  UNCHANGED <<value, buffer>>
  BY DEF ChannelNext, ChannelThread, ChannelCall, ChannelOther, SemSkip, SemVisit,
         SemResume, SemVisited, SemSleep, channelVars, channelSpecVars

(* A sender takes a free place, a receiver a filled one. *)
LEMMA SendSlots ==
  ASSUME SlotsInv, NEW c \in Cid, Send(c)
  PROVE  SlotsInv' /\ Fifo!Send(c)
  <1> USE DEF SlotsInv, SlotsConserved, Semaphores
  <1>1. /\ value["idle"] > 0 /\ buffer' = Append(buffer, c)
        /\ value' = [value EXCEPT !["idle"] = @ - 1, !["fill"] = @ + 1]
    BY DEF Send, SemTake
  <1>2. buffer' \in Seq(Cid) /\ Len(buffer') = Len(buffer) + 1 /\ Len(buffer) \in Nat
    BY <1>1, AppendProperties
  <1>3. /\ value' \in [Semaphores -> Int]
        /\ value'["idle"] = value["idle"] - 1 /\ value'["fill"] = value["fill"] + 1
    BY <1>1
  <1>4. SlotsInv'
    BY <1>1, <1>2, <1>3, ChannelAssumption
  <1>5. Len(buffer) < ChannelSize
    BY <1>1, <1>2, ChannelAssumption
  <1>6. QED
    BY <1>1, <1>4, <1>5 DEF Fifo!Send

LEMMA ReceiveSlots ==
  ASSUME SlotsInv, NEW c \in Cid, Receive(c)
  PROVE  SlotsInv' /\ Fifo!Receive
  <1> USE DEF SlotsInv, SlotsConserved, Semaphores
  <1>1. /\ value["fill"] > 0 /\ buffer' = Tail(buffer)
        /\ value' = [value EXCEPT !["fill"] = @ - 1, !["idle"] = @ + 1]
    BY DEF Receive, SemTake
  <1>2. buffer # <<>> /\ Len(buffer) \in Nat
    BY <1>1
  <1>3. buffer' \in Seq(Cid) /\ Len(buffer') = Len(buffer) - 1
    BY <1>1, <1>2, HeadTailProperties
  <1>4. /\ value' \in [Semaphores -> Int]
        /\ value'["idle"] = value["idle"] + 1 /\ value'["fill"] = value["fill"] - 1
    BY <1>1
  <1>5. SlotsInv'
    BY <1>1, <1>2, <1>3, <1>4, ChannelAssumption
  <1>6. QED
    BY <1>1, <1>2, <1>5 DEF Fifo!Receive

(* Every step keeps the accounts, and is a step of the bounded queue or
   leaves the list alone. *)
LEMMA SlotsStep ==
  ASSUME SlotsInv, [ChannelNext]_channelSpecVars
  PROVE  SlotsInv' /\ [Fifo!Next]_buffer
  <1>1. CASE \E c \in Cid : Send(c) \/ Receive(c)
    BY <1>1, SendSlots, ReceiveSlots DEF Fifo!Next
  <1>2. CASE \A c \in Cid : ~ Send(c) /\ ~ Receive(c)
    <2>1. UNCHANGED <<value, buffer>>
      BY <1>2, OthersKeepSlots
    <2>2. QED
      BY <2>1 DEF SlotsInv, SlotsConserved
  <1>3. QED
    BY <1>1, <1>2

(* Whoever sends, receives, waits or is resumed unasked, and in whatever
   order: the units of the two semaphores are the free and the filled places,
   so that the channel is never over-filled, and CoSemaphoreResume finds no
   negative value. *)
THEOREM SlotsAreConserved == ChannelSpec => []SlotsConserved
  <1>1. SlotsInv /\ [ChannelNext]_channelSpecVars => SlotsInv'
    BY SlotsStep
  <1>2. SlotsInv => SlotsConserved
    BY DEF SlotsInv
  <1>3. QED
    BY <1>1, <1>2, SlotsInit, PTL DEF ChannelSpec, channelSpecVars

(* The channel is a bounded queue of its list: nothing is lost, doubled or
   overtaken, and no more than ChannelSize is under way. *)
THEOREM ChannelRefines == ChannelSpec => ImplementsFifo
  <1>1. ChannelInit => Fifo!Init
    BY DEF ChannelInit, Fifo!Init
  <1>2. SlotsInv /\ [ChannelNext]_channelSpecVars => SlotsInv' /\ [Fifo!Next]_buffer
    BY SlotsStep
  <1>3. QED
    BY <1>1, <1>2, SlotsInit, PTL DEF ChannelSpec, channelSpecVars, ImplementsFifo, Fifo!Spec
-----------------------------------------------------------------------------
LEMMA SemInit == WaitInit(Semaphores) /\ ChannelInit => SemInv
  <1> SUFFICES ASSUME WaitInit(Semaphores), ChannelInit PROVE SemInv
    OBVIOUS
  <1>1. WaitInv(Semaphores)
    BY WaitInitInv
  <1>2. QED
    BY <1>1 DEF WaitInit, ChannelInit, SemInv, Semaphores

(* A wait that ends, or goes on: the caller is not in the copy, since it runs. *)
LEMMA SemCallInv ==
  ASSUME SemInv, NEW c \in Cid, NEW s \in Semaphores,
         Enter(c, s), UNCHANGED <<visitVars, restVars>>,
         \/ GoOn(c) /\ sem_waiters' = [sem_waiters EXCEPT ![s] = @ \ {c}]
         \/ YieldIn(c, s) /\ ~ GoOn(c) /\ sem_waiters' = [sem_waiters EXCEPT ![s] = @ \cup {c}]
  PROVE  SemInv'
  <1> USE DEF SemInv
  <1>0. "none" \notin Semaphores
    BY DEF Semaphores
  <1>1. /\ WaitInv(Semaphores)'
        /\ state[c] = "run" /\ UNCHANGED phase
        /\ wait_in' = [wait_in EXCEPT ![c] = IF GoOn(c) THEN "none" ELSE s]
        /\ \A d \in Cid : d # c => state'[d] = state[d]
        /\ wait_in[c] \in {"none", s}
    BY <1>0, CallWaits
  <1>2. wait_in \in [Cid -> Semaphores \cup {"none"}]
    BY DEF WaitInv
  <1>3. sem_waiters' = [u \in Semaphores |-> {d \in Cid : wait_in'[d] = u}]
    <2>1. \A u \in Semaphores : u # s => {d \in Cid : wait_in'[d] = u} = {d \in Cid : wait_in[d] = u}
      BY <1>0, <1>1, <1>2
    <2>2. CASE GoOn(c)
      <3>1. {d \in Cid : wait_in'[d] = s} = {d \in Cid : wait_in[d] = s} \ {c}
        BY <1>0, <1>1, <1>2, <2>2
      <3>2. sem_waiters' = [sem_waiters EXCEPT ![s] = {d \in Cid : wait_in[d] = s} \ {c}]
        BY <2>2
      <3>3. \A u \in Semaphores : sem_waiters'[u] = {d \in Cid : wait_in'[d] = u}
        BY <2>1, <3>1, <3>2
      <3>4. QED
        BY <3>2, <3>3
    <2>3. CASE ~ GoOn(c)
      <3>1. {d \in Cid : wait_in'[d] = s} = {d \in Cid : wait_in[d] = s} \cup {c}
        BY <1>0, <1>1, <1>2, <2>3
      <3>2. QED
        BY <2>1, <2>3, <3>1
    <2>4. QED
      BY <2>2, <2>3
  <1>4. visiting \in Semaphores => \A d \in cid_set : d \in Cid /\ d # c
    BY <1>1
  <1>5. QED
    BY <1>1, <1>2, <1>3, <1>4 DEF visitVars

(* What leaves the semaphores and their waiters alone. *)
LEMMA SemRestInv ==
  ASSUME SemInv, [ChannelNext]_channelSpecVars,
         \/ UNCHANGED channelSpecVars
         \/ ChannelCall
         \/ (OtherLoop \/ SyncEnd(Semaphores)) /\ UNCHANGED channelVars
         \/ \E c \in Cid : ChannelOther(c)
  PROVE  SemInv'
  <1> USE DEF SemInv
  <1>1. CASE UNCHANGED channelSpecVars
    <2>1. UNCHANGED <<schedVars, wait_in, visitVars, sem_waiters>>
      BY <1>1 DEF channelSpecVars, waitVars, channelVars
    <2>2. QED
      BY <2>1, WaitStutter DEF schedVars, mainVars, coVars, visitVars
  <1>2. CASE \/ ChannelCall
             \/ (OtherLoop \/ SyncEnd(Semaphores)) /\ UNCHANGED channelVars
    <2>1. /\ OtherLoop \/ OtherCall \/ ManualSync \/ SyncEnd(Semaphores)
          /\ UNCHANGED sem_waiters
      BY <1>2 DEF ChannelCall, channelVars
    <2>2. /\ WaitInv(Semaphores)' /\ UNCHANGED <<wait_in, visiting, cid_set>>
          /\ phase = "sync" => visiting = "none"
          /\ unvisited' \in {unvisited, Semaphores}
      BY <2>1, MasterWaits
    <2>3. visiting \notin Semaphores
      BY <2>2 DEF Semaphores
    <2>4. QED
      BY <2>1, <2>2, <2>3
  <1>3. ASSUME NEW c \in Cid, ChannelOther(c)
        PROVE  SemInv'
    <2>1. OtherStep(c) /\ UNCHANGED sem_waiters
      BY <1>3 DEF ChannelOther, channelVars
    <2>2. /\ WaitInv(Semaphores)' /\ UNCHANGED <<waitVars, phase>>
          /\ \A d \in Cid : wait_in[d] # "none" => state'[d] = state[d]
      BY <2>1, OtherStepWaits
    <2>3. QED
      BY <2>1, <2>2 DEF waitVars, visitVars, Semaphores
  <1>4. QED
    BY <1>1, <1>2, <1>3

(* The steps of CoSemaphoreResume. *)
LEMMA SemVisitInv ==
  ASSUME SemInv, NEW s \in Semaphores,
         SemSkip(s) \/ SemVisit(s) \/ SemResume(s) \/ SemVisited(s)
  PROVE  SemInv'
  <1> USE DEF SemInv
  <1>1. CASE SemSkip(s) \/ SemVisit(s) \/ SemVisited(s)
    <2>1. /\ Look /\ UNCHANGED sem_waiters
          /\ unvisited' \subseteq Semaphores
          /\ \/ visiting' = "none"
             \/ visiting' = s /\ cid_set' = sem_waiters[s]
      BY <1>1 DEF SemSkip, SemVisit, SemVisited, channelVars
    <2>2. is_master /\ phase = "sync" /\ UNCHANGED <<schedVars, wait_in>>
      BY <2>1 DEF Look, MainAt
    <2>3. WaitInv(Semaphores)' /\ UNCHANGED <<state, phase>>
      BY <2>2, WaitStutter DEF schedVars, coVars, mainVars
    <2>4. \A d \in Cid : state[d] # "run"
      BY <2>2 DEF WaitInv, SchedInv, SingleRunner, Running
    <2>5. QED
      BY <2>1, <2>2, <2>3, <2>4 DEF Semaphores
  <1>2. CASE SemResume(s)
    <2>1. PICK c \in cid_set : Wake(c) /\ cid_set' = cid_set \ {c}
      BY <1>2 DEF SemResume
    <2>2. visiting = s /\ UNCHANGED <<unvisited, visiting, sem_waiters>>
      BY <1>2 DEF SemResume, channelVars
    <2>3. /\ WaitInv(Semaphores)' /\ c \in Cid
          /\ state' = [state EXCEPT ![c] = "run"]
          /\ UNCHANGED <<wait_in, phase>>
      BY <2>1, WakeWaits
    <2>4. state \in [Cid -> States]
      BY DEF WaitInv, SchedInv, TypeOK
    <2>5. QED
      BY <2>1, <2>2, <2>3, <2>4
  <1>3. QED
    BY <1>1, <1>2

LEMMA SemStep ==
  ASSUME SemInv, [ChannelNext]_channelSpecVars
  PROVE  SemInv'
  <1>1. ASSUME NEW c \in Cid, Send(c) \/ Receive(c) \/ \E s \in Semaphores : SemSleep(c, s)
        PROVE  SemInv'
    <2>1. CASE Send(c)
      BY <2>1, SemCallInv DEF Send, SemTake, Semaphores
    <2>2. CASE Receive(c)
      BY <2>2, SemCallInv DEF Receive, SemTake, Semaphores
    <2>3. ASSUME NEW s \in Semaphores, SemSleep(c, s)
          PROVE  SemInv'
      <3>1. ~ GoOn(c)
        BY <2>3 DEF SemSleep, YieldIn, GoOn, CoroutineYield, Running, switchVars
      <3>2. QED
        BY <2>3, <3>1, SemCallInv DEF SemSleep
    <2>4. QED
      BY <1>1, <2>1, <2>2, <2>3
  <1>2. CASE UNCHANGED channelSpecVars
    BY <1>2, SemRestInv
  <1>3. QED
    BY <1>1, <1>2, SemRestInv, SemVisitInv DEF ChannelNext, ChannelThread

(* A semaphore has noted exactly those asleep in its wait, although waiters
   come and go while CoSemaphoreResume is under way; and of its copy it
   resumes only such sleepers. *)
THEOREM SemaphoreWaiters == ChannelSpec => []SemWaitersKept
  <1>1. SemInv => SemWaitersKept
    <2> SUFFICES ASSUME SemInv, is_master PROVE SemWaitersKept
      BY DEF SemWaitersKept
    <2> USE DEF SemInv
    <2>1. \A c \in Cid : state[c] # "run"
      BY DEF WaitInv, SchedInv, SingleRunner, Running
    <2>2. \A c \in Cid, s \in Semaphores : wait_in[c] = s <=> Asleep(c, s)
      BY <2>1 DEF WaitInv, Asleep, Semaphores
    <2>3. QED
      BY <2>2 DEF SemWaitersKept
  <1>2. SemInv /\ [ChannelNext]_channelSpecVars => SemInv'
    BY SemStep
  <1>3. QED
    BY <1>1, <1>2, SemInit, PTL DEF ChannelSpec, channelSpecVars
-----------------------------------------------------------------------------
(***************************************************************************)
(* CoOnce: a function is run by one coroutine at a time, that of a CallOnce*)
(* once in all, and whoever waits for it is resumed when it has returned.  *)
(***************************************************************************)
(* "call" tells that exactly one coroutine is in the function. *)
DoerInv ==
  /\ do_state \in [Objects -> {"init", "call", "finish"}]
  /\ doing \in [Cid -> Objects \cup {"none"}]
  /\ ran \in [Objects -> Nat]
  /\ visiting \in Objects => do_state[visiting] = "finish"
  /\ \A o \in Objects :
       \/ /\ do_state[o] = "call"
          /\ \E d \in Cid : \A c \in Cid : doing[c] = o <=> c = d
       \/ do_state[o] # "call" /\ \A c \in Cid : doing[c] # o
  /\ ran["once"] = IF do_state["once"] = "init" THEN 0 ELSE 1

(* An object has noted those inside its Do, asleep or running; while it is
   visited, its copy has those that have not had their turn. *)
DoNotedInv ==
  /\ WaitInv(Objects)
  /\ do_waiters = [o \in Objects |-> {c \in Cid : wait_in[c] = o}]
  /\ visiting \in Objects \cup {"none"}
  /\ \A o \in Objects : do_waiters[o] # {} => do_state[o] # "init"
  /\ visiting \in Objects =>
       /\ phase = "sync"
       /\ cid_set = {c \in Cid : wait_in[c] = visiting /\ state[c] # "run"}

onceSpecVars == <<schedVars, waitVars, onceVars>>
-----------------------------------------------------------------------------
LEMMA DoerInit == WaitInit(Objects) /\ OnceInit => DoerInv
  BY DEF WaitInit, OnceInit, DoerInv, Objects

(* Every step keeps the account of who is in the function. *)
LEMMA DoerStep ==
  ASSUME DoerInv, [OnceNext]_onceSpecVars
  PROVE  DoerInv'
  <1> USE DEF DoerInv, Objects
  <1>1. ASSUME NEW c \in Cid, NEW o \in Objects, DoCall(c, o)
        PROVE  DoerInv'
    <2>1. /\ do_state[o] = "init" /\ doing[c] = "none"
          /\ do_state' = [do_state EXCEPT ![o] = "call"]
          /\ doing' = [doing EXCEPT ![c] = o]
          /\ ran' = [ran EXCEPT ![o] = @ + 1]
          /\ UNCHANGED visiting
      BY <1>1 DEF DoCall, waitVars, visitVars
    <2>2. \A d \in Cid : doing'[d] = o <=> d = c
      BY <2>1
    <2>3. \A k \in Objects : k # o => \A d \in Cid : doing'[d] = k <=> doing[d] = k
      BY <2>1
    <2>4. \A k \in Objects : k # o => do_state'[k] = do_state[k]
      BY <2>1
    <2>5. \A k \in Objects :
            \/ /\ do_state'[k] = "call"
               /\ \E d \in Cid : \A e \in Cid : doing'[e] = k <=> e = d
            \/ do_state'[k] # "call" /\ \A e \in Cid : doing'[e] # k
      <3> TAKE k \in Objects
      <3>1. CASE k = o
        BY <2>1, <2>2, <3>1
      <3>2. CASE k # o
        BY <2>3, <2>4, <3>2
      <3>3. QED
        BY <3>1, <3>2
    <2>6. QED
      BY <2>1, <2>5
  <1>2. ASSUME NEW c \in Cid, NEW o \in Objects, DoReturn(c, o)
        PROVE  DoerInv'
    <2>1. /\ doing[c] = o
          /\ do_state' = [do_state EXCEPT ![o] = "finish"]
          /\ doing' = [doing EXCEPT ![c] = "none"]
          /\ UNCHANGED <<ran, visiting>>
      BY <1>2 DEF DoReturn, Brief, waitVars, visitVars
    <2>2. do_state[o] = "call" /\ \A d \in Cid : doing'[d] # o
      BY <2>1
    <2>3. \A k \in Objects : k # o => \A d \in Cid : doing'[d] = k <=> doing[d] = k
      BY <2>1
    <2>4. \A k \in Objects :
            \/ /\ do_state'[k] = "call"
               /\ \E d \in Cid : \A e \in Cid : doing'[e] = k <=> e = d
            \/ do_state'[k] # "call" /\ \A e \in Cid : doing'[e] # k
      <3> TAKE k \in Objects
      <3>1. CASE k = o
        BY <2>1, <2>2, <3>1
      <3>2. CASE k # o
        <4>1. do_state'[k] = do_state[k]
          BY <2>1, <3>2
        <4>2. QED
          BY <2>3, <3>2, <4>1
      <3>3. QED
        BY <3>1, <3>2
    <2>5. QED
      BY <2>1, <2>2, <2>4
  <1>3. ASSUME NEW o \in Objects, OnceVisit(o) \/ OnceVisited(o)
        PROVE  DoerInv'
    <2>1. /\ UNCHANGED <<doing, ran>>
          /\ \/ UNCHANGED do_state
             \/ /\ o = "flight" /\ do_state[o] = "finish"
                /\ do_state' = [do_state EXCEPT ![o] = "init"]
                /\ visiting' = "none"
          /\ visiting' \in Objects => do_state[visiting'] = "finish"
      BY <1>3 DEF OnceVisit, OnceVisited
    <2>2. QED
      BY <2>1
  <1>4. CASE \/ UNCHANGED onceSpecVars \/ OnceCall \/ OnceResume
             \/ (OtherLoop \/ SyncEnd(Objects)) /\ UNCHANGED onceVars
    <2>1. UNCHANGED <<do_state, doing, ran, visiting>>
      BY <1>4 DEF onceSpecVars, onceVars, waitVars, visitVars, OnceCall, OtherCall, ManualSync,
                  OnceResume, OtherLoop, SyncEnd
    <2>2. QED
      BY <2>1
  <1>5. ASSUME NEW c \in Cid, OnceOther(c) \/ \E o \in Objects : DoWait(c, o)
        PROVE  DoerInv'
    <2>1. UNCHANGED <<do_state, doing, ran, visiting>>
      BY <1>5 DEF OnceOther, OtherStep, DoWait, onceVars, waitVars, visitVars
    <2>2. QED
      BY <2>1
  <1>6. QED
    BY <1>1, <1>2, <1>3, <1>4, <1>5 DEF OnceNext, OnceThread

(* A function that may yield is run by one coroutine at a time, whoever calls
   Do meanwhile and after however many resumes; that of a CallOnce once. *)
THEOREM CalledOnce == OnceSpec => []OneCall
  <1>1. DoerInv => OneCall
    <2> SUFFICES ASSUME DoerInv, NEW o \in Objects
                 PROVE  Cardinality({c \in Cid : doing[c] = o})
                          = IF do_state[o] = "call" THEN 1 ELSE 0
      BY DEF DoerInv, OneCall
    <2>1. CASE do_state[o] = "call"
      <3>1. PICK d \in Cid : \A c \in Cid : doing[c] = o <=> c = d
        BY <2>1 DEF DoerInv
      <3>2. {c \in Cid : doing[c] = o} = {d}
        BY <3>1
      <3>3. QED
        BY <2>1, <3>2, FS_Singleton
    <2>2. CASE do_state[o] # "call"
      <3>1. {c \in Cid : doing[c] = o} = {}
        BY <2>2 DEF DoerInv
      <3>2. QED
        BY <2>2, <3>1, FS_EmptySet
    <2>3. QED
      BY <2>1, <2>2
  <1>2. DoerInv /\ [OnceNext]_onceSpecVars => DoerInv'
    BY DoerStep
  <1>3. QED
    BY <1>1, <1>2, DoerInit, PTL DEF OnceSpec, onceSpecVars
-----------------------------------------------------------------------------
LEMMA DoNotedInit == WaitInit(Objects) /\ OnceInit => DoNotedInv
  <1> SUFFICES ASSUME WaitInit(Objects), OnceInit PROVE DoNotedInv
    OBVIOUS
  <1>1. WaitInv(Objects)
    BY WaitInitInv
  <1>2. QED
    BY <1>1 DEF WaitInit, OnceInit, DoNotedInv, Objects

(* Who sleeps, or leaves, is running, and so is not in the copy. *)
LEMMA DoWaitNoted ==
  ASSUME DoNotedInv, DoerInv, NEW c \in Cid, NEW o \in Objects, DoWait(c, o)
  PROVE  DoNotedInv'
  <1> USE DEF DoNotedInv
  <1>0. "none" \notin Objects
    BY DEF Objects
  <1>1. ~ (GoOn(c) /\ YieldIn(c, o))
    BY DEF GoOn, YieldIn, CoroutineYield, Running, switchVars
  <1>2. /\ Enter(c, o) /\ UNCHANGED <<do_state, visitVars, restVars>>
        /\ wait_in[c] = "none" => do_state[o] # "init"
        /\ \/ /\ do_state[o] = "finish" /\ GoOn(c)
              /\ do_waiters' = [do_waiters EXCEPT ![o] = @ \ {c}]
           \/ /\ do_state[o] # "finish" /\ YieldIn(c, o)
              /\ do_waiters' = [do_waiters EXCEPT ![o] = @ \cup {c}]
    BY DEF DoWait
  <1>3. /\ WaitInv(Objects)'
        /\ state[c] = "run" /\ UNCHANGED phase
        /\ wait_in' = [wait_in EXCEPT ![c] = IF GoOn(c) THEN "none" ELSE o]
        /\ \A d \in Cid : d # c => state'[d] = state[d]
        /\ wait_in[c] \in {"none", o}
    BY <1>0, <1>2, CallWaits
  <1>4. wait_in \in [Cid -> Objects \cup {"none"}]
    BY DEF WaitInv
  <1>5. \A k \in Objects : k # o => {d \in Cid : wait_in'[d] = k} = {d \in Cid : wait_in[d] = k}
    BY <1>0, <1>3, <1>4
  <1>6. {d \in Cid : wait_in'[d] = o} = IF GoOn(c) THEN {d \in Cid : wait_in[d] = o} \ {c}
                                        ELSE {d \in Cid : wait_in[d] = o} \cup {c}
    BY <1>0, <1>3, <1>4
  <1>7. do_waiters' = [do_waiters EXCEPT ![o] = {d \in Cid : wait_in'[d] = o}]
    BY <1>1, <1>2, <1>6
  <1>8. do_waiters' = [k \in Objects |-> {d \in Cid : wait_in'[d] = k}]
    <2>1. \A k \in Objects : do_waiters'[k] = {d \in Cid : wait_in'[d] = k}
      BY <1>5, <1>7
    <2>2. QED
      BY <1>7, <2>1
  <1>9. \A k \in Objects : do_waiters'[k] # {} => do_state[k] # "init"
    <2> SUFFICES ASSUME do_waiters'[o] # {} PROVE do_state[o] # "init"
      BY <1>7
    <2>1. CASE wait_in[c] = "none"
      BY <1>2, <2>1
    <2>2. CASE wait_in[c] = o
      <3>1. do_waiters[o] # {}
        BY <2>2
      <3>2. QED
        BY <3>1
    <2>3. QED
      BY <1>3, <2>1, <2>2
  <1>10. visiting \in Objects =>
           cid_set = {d \in Cid : wait_in'[d] = visiting /\ state'[d] # "run"}
    <2> SUFFICES ASSUME visiting \in Objects, NEW d \in Cid
                 PROVE  wait_in[d] = visiting /\ state[d] # "run"
                          <=> wait_in'[d] = visiting /\ state'[d] # "run"
      OBVIOUS
    <2>1. CASE d # c
      BY <1>3, <1>4, <2>1
    <2>2. CASE d = c /\ visiting = o
      BY <1>0, <1>2, <1>3, <1>4, <2>2 DEF DoerInv
    <2>3. CASE d = c /\ visiting # o
      BY <1>0, <1>3, <1>4, <2>3
    <2>4. QED
      BY <2>1, <2>2, <2>3
  <1>11. QED
    BY <1>2, <1>3, <1>8, <1>9, <1>10 DEF visitVars

(* Calling and returning from the function: nobody's wait begins or ends. *)
LEMMA DoNoted ==
  ASSUME DoNotedInv, NEW c \in Cid, NEW o \in Objects, DoCall(c, o) \/ DoReturn(c, o)
  PROVE  DoNotedInv'
  <1> USE DEF DoNotedInv
  <1>1. CASE DoCall(c, o)
    <2>1. /\ Call(c) /\ UNCHANGED <<waitVars, state, switchVars, restVars, do_waiters>>
          /\ do_state' = [do_state EXCEPT ![o] = "call"]
      BY <1>1 DEF DoCall
    <2>2. WaitInv(Objects)' /\ UNCHANGED phase
      BY <2>1, CountWaits
    <2>3. QED
      BY <2>1, <2>2 DEF waitVars, visitVars
  <1>2. CASE DoReturn(c, o)
    <2>1. /\ UNCHANGED <<schedVars, waitVars, do_waiters>>
          /\ do_state' = [do_state EXCEPT ![o] = "finish"]
      BY <1>2 DEF DoReturn, Brief
    <2>2. WaitInv(Objects)'
      BY <2>1, WaitStutter DEF waitVars
    <2>3. QED
      BY <2>1, <2>2 DEF waitVars, visitVars, schedVars, mainVars, coVars
  <1>3. QED
    BY <1>1, <1>2

(* The steps of CoCallOnceResume and CoSingleFlightResume. *)
LEMMA DoVisitNoted ==
  ASSUME DoNotedInv, DoerInv, OnceResume \/ \E o \in Objects : OnceVisit(o) \/ OnceVisited(o)
  PROVE  DoNotedInv'
  <1> USE DEF DoNotedInv
  <1>1. ASSUME NEW o \in Objects, OnceVisit(o) \/ OnceVisited(o)
        PROVE  DoNotedInv'
    <2>1. /\ Look /\ UNCHANGED do_waiters
          /\ \/ UNCHANGED do_state
             \/ do_waiters[o] = {} /\ do_state' = [do_state EXCEPT ![o] = "init"]
          /\ \/ visiting' = "none"
             \/ visiting' = o /\ cid_set' = do_waiters[o]
      BY <1>1 DEF OnceVisit, OnceVisited
    <2>2. is_master /\ phase = "sync" /\ UNCHANGED <<schedVars, wait_in>>
      BY <2>1 DEF Look, MainAt
    <2>3. WaitInv(Objects)' /\ UNCHANGED <<state, phase>>
      BY <2>2, WaitStutter DEF schedVars, coVars, mainVars
    <2>4. \A d \in Cid : state[d] # "run"
      BY <2>2 DEF WaitInv, SchedInv, SingleRunner, Running
    <2>5. \A k \in Objects : do_waiters'[k] # {} => do_state'[k] # "init"
      BY <2>1 DEF DoerInv
    <2>6. visiting' \in Objects =>
            cid_set' = {d \in Cid : wait_in'[d] = visiting' /\ state'[d] # "run"}
      <3> SUFFICES ASSUME visiting' \in Objects
                   PROVE  cid_set' = {d \in Cid : wait_in'[d] = visiting' /\ state'[d] # "run"}
        OBVIOUS
      <3>1. visiting' = o /\ cid_set' = do_waiters[o]
        BY <2>1 DEF Objects
      <3>2. QED
        BY <2>2, <2>3, <2>4, <3>1
    <2>7. QED
      BY <2>1, <2>2, <2>3, <2>5, <2>6
  <1>2. CASE OnceResume
    <2>1. PICK c \in cid_set : Wake(c) /\ cid_set' = cid_set \ {c}
      BY <1>2 DEF OnceResume
    <2>2. UNCHANGED <<visiting, do_waiters, do_state>>
      BY <1>2 DEF OnceResume, onceVars
    <2>3. /\ WaitInv(Objects)' /\ c \in Cid
          /\ state' = [state EXCEPT ![c] = "run"]
          /\ UNCHANGED <<wait_in, phase>>
      BY <2>1, WakeWaits
    <2>4. state \in [Cid -> States]
      BY DEF WaitInv, SchedInv, TypeOK
    <2>5. QED
      BY <2>1, <2>2, <2>3, <2>4
  <1>3. QED
    BY <1>1, <1>2

LEMMA DoNotedStep ==
  ASSUME DoNotedInv, DoerInv, [OnceNext]_onceSpecVars
  PROVE  DoNotedInv'
  <1> USE DEF DoNotedInv
  <1>1. CASE UNCHANGED onceSpecVars
    <2>1. UNCHANGED <<schedVars, wait_in, visitVars, do_waiters, do_state>>
      BY <1>1 DEF onceSpecVars, waitVars, onceVars
    <2>2. QED
      BY <2>1, WaitStutter DEF schedVars, mainVars, coVars, visitVars
  <1>2. CASE \/ OnceCall
             \/ (OtherLoop \/ SyncEnd(Objects)) /\ UNCHANGED onceVars
    <2>1. /\ OtherLoop \/ OtherCall \/ ManualSync \/ SyncEnd(Objects)
          /\ UNCHANGED <<do_waiters, do_state>>
      BY <1>2 DEF OnceCall, onceVars
    <2>2. /\ WaitInv(Objects)' /\ UNCHANGED <<wait_in, visiting, cid_set>>
          /\ phase = "sync" => visiting = "none"
      BY <2>1, MasterWaits
    <2>3. visiting \notin Objects
      BY <2>2 DEF Objects
    <2>4. QED
      BY <2>1, <2>2, <2>3
  <1>3. ASSUME NEW c \in Cid, OnceOther(c)
        PROVE  DoNotedInv'
    <2>1. OtherStep(c) /\ UNCHANGED <<do_waiters, do_state>>
      BY <1>3 DEF OnceOther, onceVars
    <2>2. /\ WaitInv(Objects)' /\ UNCHANGED <<waitVars, phase>>
          /\ \A d \in Cid : wait_in[d] # "none" => state'[d] = state[d]
      BY <2>1, OtherStepWaits
    <2>3. visiting \in Objects =>
            cid_set = {d \in Cid : wait_in[d] = visiting /\ state'[d] # "run"}
      BY <2>2 DEF Objects
    <2>4. QED
      BY <2>1, <2>2, <2>3 DEF waitVars, visitVars
  <1> HIDE DEF DoNotedInv
  <1>4. CASE OnceThread
    BY <1>2, <1>3, <1>4, DoWaitNoted, DoNoted, DoVisitNoted DEF OnceThread
  <1>5. QED
    BY <1>1, <1>2, <1>4 DEF OnceNext

(* Whoever waits in Do is noted and nobody else is; nobody waits on an object
   that will not be called; and at the end of a visit all that waited when it
   began are gone, so that the asserts of both resume functions hold. *)
THEOREM NobodyWaitsInVain == OnceSpec => []DoWaitersKept
  <1>1. DoNotedInv => DoWaitersKept
    <2> SUFFICES ASSUME DoNotedInv, is_master PROVE DoWaitersKept
      BY DEF DoWaitersKept
    <2> USE DEF DoNotedInv
    <2>1. \A c \in Cid : state[c] # "run"
      BY DEF WaitInv, SchedInv, SingleRunner, Running
    <2>2. \A c \in Cid, o \in Objects : wait_in[c] = o <=> Asleep(c, o)
      BY <2>1 DEF WaitInv, Asleep, Objects
    <2>3. QED
      BY <2>1, <2>2 DEF DoWaitersKept
  <1>2. DoerInv /\ DoNotedInv /\ [OnceNext]_onceSpecVars => DoerInv' /\ DoNotedInv'
    BY DoerStep, DoNotedStep
  <1>3. QED
    BY <1>1, <1>2, DoerInit, DoNotedInit, PTL DEF OnceSpec, onceSpecVars
-----------------------------------------------------------------------------
(***************************************************************************)
(* The read-write lock: it implements the abstract one, and CoRWLockResume *)
(* resumes only those that wait for it.                                    *)
(***************************************************************************)
LockCalls == {"wrlock", "rdlock"}

Types == {"write", "read"}

RWTypes ==
  /\ lock_state \in {"unlock", "write", "read"}
  /\ hold_write_cid \in Cid \cup {kInvalidCid}
  /\ hold_read_cid_set \subseteq Cid
  /\ suspend_list \in Seq(Types \X Cid)

(* While CoRWLockResume works on the list, all those in it are asleep in the
   call that put them there: whoever barged in had left before. *)
VisitInv ==
  visiting = "rwlock" =>
    /\ phase = "sync"
    /\ \A i \in 1 .. Len(suspend_list) :
         /\ wait_in[suspend_list[i][2]] = CallOf(suspend_list[i][1])
         /\ state[suspend_list[i][2]] # "run"

(* The whole inductive invariant. *)
AllInv == WaitInv(LockCalls) /\ BatchInv /\ RWTypes /\ RWInv /\ VisitInv

rwSpecVars == <<schedVars, waitVars, rwVars>>
-----------------------------------------------------------------------------
(* The two types of lock have different calls. *)
LEMMA CallsDiffer ==
  /\ "none" \notin LockCalls
  /\ \A t \in Types : CallOf(t) \in LockCalls
  /\ \A t, u \in Types : CallOf(t) = CallOf(u) => t = u
  BY DEF LockCalls, Types, CallOf

LEMMA AllInit == WaitInit(RWLock) /\ RWInit => AllInv
  <1> SUFFICES ASSUME WaitInit(RWLock), RWInit PROVE AllInv
    OBVIOUS
  <1>1. WaitInv(LockCalls) /\ BatchInv
    BY WaitInitInv, BatchInit DEF WaitInit
  <1>2. RWTypes
    <2>1. <<>> \in Seq(Types \X Cid)
      OBVIOUS
    <2>2. QED
      BY <2>1 DEF RWInit, RWTypes
  <1>3. RWInv /\ VisitInv
    BY DEF WaitInit, RWInit, RWInv, RWHolders, RWQueueEntries, RWWaiters, RWQueuedOnce,
           CallOf, VisitInv
  <1>4. QED
    BY <1>1, <1>2, <1>3 DEF AllInv

(* What leaves the lock alone keeps its invariant if whoever waits for it
   stays where it is, or is resumed. *)
LEMMA WaitersStay ==
  ASSUME AllInv, UNCHANGED <<rwVars, wait_in>>,
         \A d \in Cid : wait_in[d] # "none" =>
           /\ at'[d] = at[d] /\ OpenBatches(d)' \subseteq OpenBatches(d)
           /\ state'[d] \in {state[d], "run"}
  PROVE  RWTypes' /\ RWInv'
  <1> USE DEF AllInv, RWInv, rwVars
  <1>1. RWTypes' /\ RWHolders' /\ RWQueueEntries' /\ RWQueuedOnce'
    BY DEF RWTypes, RWHolders, RWQueueEntries, RWQueuedOnce
  <1>2. RWWaiters'
    <2> SUFFICES ASSUME NEW c \in Cid, NEW type \in Types, wait_in[c] = CallOf(type)
                 PROVE  /\ ~ HoldsLock(c)
                        /\ at'[c] = "body" /\ OpenBatches(c)' = {}
                        /\ state'[c] \in {"run", "suspend"}
                        /\ state'[c] = "suspend" => Contains(suspend_list, <<type, c>>)
      BY DEF RWWaiters, HoldsLock, Types
    <2>1. wait_in[c] # "none"
      BY CallsDiffer
    <2>2. QED
      BY <2>1 DEF RWWaiters, Types
  <1>3. QED
    BY <1>1, <1>2

(* The loops and calls of the main program, with CoRWLockResume's return. *)
LEMMA MasterInv ==
  ASSUME AllInv, OtherLoop \/ OtherCall \/ ManualSync \/ SyncEnd(RWLock), UNCHANGED rwVars
  PROVE  AllInv'
  <1> USE DEF AllInv
  <1>1. /\ WaitInv(LockCalls)' /\ UNCHANGED <<wait_in, visiting, cid_set>>
        /\ is_master /\ (phase = "sync" => visiting = "none")
    BY MasterWaits
  <1>2. BatchInv' /\ \A d \in Cid : wait_in[d] # "none" =>
           /\ at'[d] = at[d] /\ OpenBatches(d)' \subseteq OpenBatches(d)
           /\ state'[d] \in {state[d], "run"}
    <2>1. SchedInv
      BY DEF WaitInv
    <2>2. CASE OtherLoop \/ OtherCall
      <3>1. LoopStep \/ MainCall
        BY <2>2 DEF OtherLoop, OtherCall, MainCall
      <3>2. BatchInv'
        BY <2>1, <3>1, LoopStepBatch, MainCallBatch
      <3>3. ASSUME NEW d \in Cid, wait_in[d] # "none"
            PROVE  /\ at'[d] = at[d] /\ OpenBatches(d)' \subseteq OpenBatches(d)
                   /\ state'[d] \in {state[d], "run"}
        <4> USE DEF SchedInv, TypeOK, coVars, batchVars, OpenBatches
        <4>1. state[d] # "idle"
          BY <3>3 DEF WaitInv
        <4>2. CASE LoopStep
          BY <2>1, <4>2 DEF LoopStep, RunTest, ScanSkip, ScanResume, ScanEnd, FinishResume,
                      FinishEnd, StartEnd, StartResume, CoroutineResume
        <4>3. CASE MainCall
          BY <2>1, <4>1, <4>3 DEF MainCall, MainCreate, CoroutineCreate, CoroutineInit, Idle,
                            Run, BatchFinish, ManualResume, CoroutineResume, BatchStart
        <4>4. QED
          BY <3>1, <4>2, <4>3
      <3>4. QED
        BY <3>2, <3>3
    <2>3. CASE ManualSync \/ SyncEnd(RWLock)
      <3>1. /\ UNCHANGED <<idx, todo, in_run, coVars, batchVars, switchVars, not_idle_count,
                           batch_finish_cid_list, created>>
            /\ phase \in {"main", "sync"} /\ phase' \in {"main", "sync", "test"}
        BY <2>3 DEF ManualSync, SyncEnd, MainAt
      <3>2. BatchInv'
        BY <2>1, <3>1, MoveBatch, MoveQueue DEF FreshTasks, coVars
      <3>3. QED
        BY <3>1, <3>2 DEF coVars, batchVars, OpenBatches
    <2>4. QED
      BY <2>2, <2>3
  <1>3. RWTypes' /\ RWInv'
    BY <1>1, <1>2, WaitersStay
  <1>4. VisitInv'
    BY <1>1 DEF VisitInv
  <1>5. QED
    BY <1>1, <1>2, <1>3, <1>4

(* What bodies do besides. *)
LEMMA OtherInv ==
  ASSUME AllInv, Orderly, NEW c \in Cid, RWOther(c)
  PROVE  AllInv'
  <1> USE DEF AllInv
  <1>1. OtherStep(c) /\ CoroutineStep(c) /\ UNCHANGED rwVars /\ wait_in[c] = "none"
    BY DEF RWOther, OtherStep, Free
  <1>2. /\ WaitInv(LockCalls)' /\ UNCHANGED <<waitVars, phase>>
        /\ \A d \in Cid : wait_in[d] # "none" => state'[d] = state[d]
    BY <1>1, OtherStepWaits
  <1>3. BatchInv'
    BY <1>1, CoroutineStepBatch DEF WaitInv
  <1>4. ASSUME NEW d \in Cid, wait_in[d] # "none"
        PROVE  at'[d] = at[d] /\ OpenBatches(d)' \subseteq OpenBatches(d)
    <2> USE DEF WaitInv, SchedInv, TypeOK, batchVars, switchVars, OpenBatches
    <2>1. d # c /\ state[d] # "idle"
      BY <1>1, <1>4
    <2>2. CASE Yield(c) \/ Return(c)
      BY <2>2 DEF Yield, Return
    <2>3. CASE Create(c)
      BY <2>1, <2>3 DEF Create, CoroutineCreate, CoroutineInit, Idle
    <2>4. CASE BatchCreate(c)
      BY <2>1, <2>4 DEF BatchCreate
    <2>5. ASSUME NEW b \in Bid, BatchAdd(c, b)
          PROVE  at'[d] = at[d] /\ OpenBatches(d)' \subseteq OpenBatches(d)
      BY <2>1, <2>5 DEF BatchAdd, CoroutineCreate, CoroutineInit, Idle
    <2>6. ASSUME NEW b \in Bid, BatchRun(c, b) \/ BatchRunEnd(c, b)
          PROVE  at'[d] = at[d] /\ OpenBatches(d)' \subseteq OpenBatches(d)
      BY <2>1, <2>6 DEF BatchRun, BatchRunEnd
    <2>7. QED
      BY <1>1, <2>2, <2>3, <2>4, <2>5, <2>6 DEF CoroutineStep
  <1>5. RWTypes' /\ RWInv'
    BY <1>1, <1>2, <1>4, WaitersStay DEF waitVars
  <1>6. VisitInv'
    <2>1. ASSUME visiting = "rwlock", NEW i \in 1 .. Len(suspend_list)
          PROVE  state'[suspend_list[i][2]] # "run"
      <3>1. suspend_list[i] \in Types \X Cid
        BY DEF RWTypes
      <3>2. wait_in[suspend_list[i][2]] # "none" /\ state[suspend_list[i][2]] # "run"
        BY <2>1, <3>1, CallsDiffer DEF VisitInv
      <3>3. QED
        BY <1>2, <3>1, <3>2
    <2>2. QED
      BY <1>1, <1>2, <2>1 DEF VisitInv, waitVars, visitVars, rwVars
  <1>7. QED
    BY <1>2, <1>3, <1>5, <1>6
-----------------------------------------------------------------------------
(* Entries of the list have a type and an id. *)
LEMMA Entry ==
  ASSUME RWTypes, NEW i \in 1 .. Len(suspend_list)
  PROVE  /\ suspend_list[i][1] \in Types /\ suspend_list[i][2] \in Cid
         /\ suspend_list[i] = <<suspend_list[i][1], suspend_list[i][2]>>
  <1>1. suspend_list[i] \in Types \X Cid
    BY DEF RWTypes
  <1>2. QED
    BY <1>1

(* What entering a call, and what going on, leave of the batches. *)
LEMMA CallBatch ==
  ASSUME AllInv, Orderly, NEW c \in Cid, NEW type \in Types,
         Enter(c, CallOf(type)), ~ HoldsLock(c), UNCHANGED restVars,
         GoOn(c) \/ YieldIn(c, CallOf(type))
  PROVE  /\ BatchInv' /\ at[c] = "body" /\ OpenBatches(c) = {}
  <1> USE DEF AllInv
  <1>1. at[c] = "body" /\ OpenBatches(c) = {}
    <2>1. CASE Call(c)
      BY <2>1 DEF Call, Free, InBody, Disciplined, Orderly
    <2>2. CASE wait_in[c] = CallOf(type)
      BY <2>2 DEF RWInv, RWWaiters, Types
    <2>3. QED
      BY <2>1, <2>2 DEF Enter
  <1>2. CASE GoOn(c)
    <2>1. UNCHANGED <<state, at, batchVars, switchVars, mainVars, batch_finish_cid_list>>
      BY <1>2 DEF GoOn, restVars
    <2>2. QueuedParents' /\ ParentsQueued' /\ FreshTasks'
      BY <2>1 DEF BatchInv, QueuedParents, ParentsQueued, FreshTasks, Pending,
                  Joined, Unfinished, IsChild, batchVars, mainVars
    <2>3. QED
      BY <1>1, <2>1, <2>2, MoveBatch DEF WaitInv
  <1>3. CASE YieldIn(c, CallOf(type))
    BY <1>1, <1>3, SleepBatch DEF WaitInv, YieldIn, restVars
  <1>4. QED
    BY <1>1, <1>2, <1>3

(* The lock is granted: to a writer while it is free, to a reader while nobody
   writes.  Who is in the list and now holds it has barged in. *)
LEMMA GrantInv ==
  ASSUME AllInv, Orderly, NEW c \in Cid, NEW type \in Types,
         Enter(c, CallOf(type)), ~ HoldsLock(c), GoOn(c),
         UNCHANGED <<suspend_list, visitVars, restVars>>,
         \/ /\ type = "write" /\ lock_state = "unlock"
            /\ lock_state' = "write" /\ hold_write_cid' = c /\ UNCHANGED hold_read_cid_set
         \/ /\ type = "read" /\ lock_state # "write"
            /\ lock_state' = "read" /\ hold_read_cid_set' = hold_read_cid_set \cup {c}
            /\ UNCHANGED hold_write_cid
  PROVE  AllInv'
  <1> USE DEF AllInv
  <1>1. /\ WaitInv(LockCalls)'
        /\ state[c] = "run" /\ UNCHANGED phase
        /\ wait_in' = [wait_in EXCEPT ![c] = "none"]
        /\ wait_in[c] \in {"none", CallOf(type)}
    BY CallsDiffer, CallWaits
  <1>2. BatchInv'
    BY CallBatch
  <1>3. wait_in \in [Cid -> LockCalls \cup {"none"}] /\ UNCHANGED <<state, at, batchVars>>
    BY DEF WaitInv, GoOn, restVars
  <1>4. RWTypes' /\ RWQueuedOnce'
    BY DEF RWTypes, RWInv, RWQueuedOnce
  <1>5. RWHolders'
    BY InvalidIds DEF RWInv, RWHolders
  <1>6. \A i \in 1 .. Len(suspend_list) :
          wait_in[suspend_list[i][2]] = CallOf(suspend_list[i][1])
            \/ (suspend_list[i][1] = "read" /\ suspend_list[i][2] \in hold_read_cid_set
                /\ type = "read")
    BY Entry, InvalidIds DEF RWInv, RWHolders, RWQueueEntries
  <1>7. RWQueueEntries'
    <2> SUFFICES ASSUME NEW i \in 1 .. Len(suspend_list)
                 PROVE  \/ wait_in'[suspend_list[i][2]] = CallOf(suspend_list[i][1])
                        \/ suspend_list[i][1] = "write" /\ hold_write_cid' = suspend_list[i][2]
                        \/ suspend_list[i][1] = "read" /\ suspend_list[i][2] \in hold_read_cid_set'
      BY DEF RWQueueEntries
    <2>1. CASE suspend_list[i][2] # c
      BY <1>1, <1>3, <1>6, <2>1, Entry
    <2>2. CASE suspend_list[i][2] = c
      <3>1. wait_in[c] = CallOf(suspend_list[i][1])
        BY <1>6, <2>2 DEF HoldsLock
      <3>2. suspend_list[i][1] = type
        BY <1>1, <3>1, Entry, CallsDiffer
      <3>3. QED
        BY <2>2, <3>2
    <2>3. QED
      BY <2>1, <2>2
  <1>8. RWWaiters'
    <2> SUFFICES ASSUME NEW d \in Cid, NEW t \in Types, wait_in'[d] = CallOf(t)
                 PROVE  /\ ~ HoldsLock(d)'
                        /\ at'[d] = "body" /\ OpenBatches(d)' = {}
                        /\ state'[d] \in {"run", "suspend"}
                        /\ state'[d] = "suspend" => Contains(suspend_list, <<t, d>>)
      BY DEF RWWaiters, Types
    <2>1. d # c /\ wait_in[d] = CallOf(t)
      BY <1>1, <1>3, CallsDiffer
    <2>2. ~ HoldsLock(d)'
      BY <2>1 DEF RWInv, RWWaiters, HoldsLock, Types
    <2>3. /\ at[d] = "body" /\ OpenBatches(d) = {} /\ state[d] \in {"run", "suspend"}
          /\ state[d] = "suspend" => Contains(suspend_list, <<t, d>>)
      BY <2>1 DEF RWInv, RWWaiters, Types
    <2>4. OpenBatches(d)' = OpenBatches(d)
      BY <1>3 DEF OpenBatches, batchVars
    <2>5. QED
      BY <1>3, <2>2, <2>3, <2>4
  <1>9. VisitInv'
    <2> SUFFICES ASSUME visiting = "rwlock", NEW i \in 1 .. Len(suspend_list)
                 PROVE  wait_in'[suspend_list[i][2]] = CallOf(suspend_list[i][1])
      BY <1>1, <1>3 DEF VisitInv, visitVars
    <2>1. suspend_list[i][2] # c
      BY <1>1 DEF VisitInv
    <2>2. QED
      BY <1>1, <1>3, <2>1, Entry DEF VisitInv
  <1>10. QED
    BY <1>1, <1>2, <1>4, <1>5, <1>7, <1>8, <1>9 DEF RWInv

(* Queuing up: who is in the list already is in it with the same type. *)
LEMMA QueueLemma ==
  ASSUME RWTypes, RWQueuedOnce, NEW c \in Cid, NEW type \in Types,
         \A i \in 1 .. Len(suspend_list) : suspend_list[i][2] = c => suspend_list[i][1] = type,
         suspend_list' = Queue(<<type, c>>)
  PROVE  /\ suspend_list' \in Seq(Types \X Cid)
         /\ Contains(suspend_list', <<type, c>>)
         /\ \A e : Contains(suspend_list, e) => Contains(suspend_list', e)
         /\ \A i \in 1 .. Len(suspend_list') :
              suspend_list'[i] = <<type, c>> \/ Contains(suspend_list, suspend_list'[i])
         /\ RWQueuedOnce'
  <1>1. PICK s \in Seq(Types \X Cid) : s = suspend_list
    BY DEF RWTypes
  <1>2. CASE Contains(s, <<type, c>>)
    <2>1. suspend_list' = s
      BY <1>1, <1>2 DEF Queue
    <2>2. \A i \in 1 .. Len(s) : Contains(s, s[i])
      BY DEF Contains
    <2>3. QED
      BY <1>1, <1>2, <2>1, <2>2 DEF RWQueuedOnce
  <1>3. CASE ~ Contains(s, <<type, c>>)
    <2>1. PICK e : e = <<type, c>>
      OBVIOUS
    <2>2. PICK t : t = Append(s, e)
      OBVIOUS
    <2>3. /\ t \in Seq(Types \X Cid) /\ Len(t) = Len(s) + 1 /\ t[Len(s) + 1] = e
          /\ Len(s) \in Nat /\ \A i \in 1 .. Len(s) : t[i] = s[i]
      <3>1. e \in Types \X Cid
        BY <2>1
      <3>2. QED
        BY <2>2, <3>1, AppendProperties
    <2>4. Contains(t, e) /\ \A d : Contains(s, d) => Contains(t, d)
      <3>1. 1 .. Len(s) \subseteq 1 .. Len(t) /\ Len(s) + 1 \in 1 .. Len(t)
        BY <2>3
      <3>2. Contains(t, e)
        BY <2>3, <3>1 DEF Contains
      <3>3. ASSUME NEW d, Contains(s, d) PROVE Contains(t, d)
        <4>1. PICK i \in 1 .. Len(s) : s[i] = d
          BY <3>3 DEF Contains
        <4>2. i \in 1 .. Len(t) /\ t[i] = d
          BY <2>3, <3>1, <4>1
        <4>3. QED
          BY <4>2 DEF Contains
      <3>4. QED
        BY <3>2, <3>3
    <2>5. \A i \in 1 .. Len(t) : t[i] = e \/ Contains(s, t[i])
      <3> SUFFICES ASSUME NEW i \in 1 .. Len(t) PROVE t[i] = e \/ Contains(s, t[i])
        OBVIOUS
      <3>1. CASE i = Len(s) + 1
        BY <2>3, <3>1
      <3>2. CASE i \in 1 .. Len(s)
        <4>1. s[i] = t[i]
          BY <2>3, <3>2
        <4>2. QED
          BY <3>2, <4>1 DEF Contains
      <3>3. QED
        BY <2>3, <3>1, <3>2
    <2>6. \A i \in 1 .. Len(s) : s[i][2] # c
      <3> SUFFICES ASSUME NEW i \in 1 .. Len(s), s[i][2] = c PROVE FALSE
        OBVIOUS
      <3>1. s[i] = <<type, c>>
        BY <1>1, Entry
      <3>2. QED
        BY <1>3, <3>1 DEF Contains
    <2>7. \A i, j \in 1 .. Len(t) : t[i][2] = t[j][2] => i = j
      <3> SUFFICES ASSUME NEW i \in 1 .. Len(t), NEW j \in 1 .. Len(t), t[i][2] = t[j][2]
                   PROVE  i = j
        OBVIOUS
      <3>1. t[Len(s) + 1][2] = c
        BY <2>1, <2>3
      <3>2. CASE i \in 1 .. Len(s) /\ j \in 1 .. Len(s)
        BY <1>1, <2>3, <3>2 DEF RWQueuedOnce
      <3>3. \A k \in 1 .. Len(s) : t[k][2] # c
        BY <2>3, <2>6
      <3>4. CASE i = Len(s) + 1
        BY <2>3, <3>1, <3>3, <3>4
      <3>5. CASE j = Len(s) + 1
        BY <2>3, <3>1, <3>3, <3>5
      <3>6. QED
        BY <2>3, <3>2, <3>4, <3>5
    <2>8. suspend_list' = t
      BY <1>1, <1>3, <2>1, <2>2 DEF Queue
    <2>9. QED
      BY <1>1, <2>1, <2>3, <2>4, <2>5, <2>7, <2>8 DEF RWQueuedOnce
  <1>4. QED
    BY <1>2, <1>3

(* Queuing up and going to sleep. *)
LEMMA SuspendInv ==
  ASSUME AllInv, Orderly, NEW c \in Cid, NEW type \in Types,
         Enter(c, CallOf(type)), ~ HoldsLock(c), YieldIn(c, CallOf(type)),
         suspend_list' = Queue(<<type, c>>),
         UNCHANGED <<lock_state, hold_write_cid, hold_read_cid_set, visitVars, restVars>>
  PROVE  AllInv'
  <1> USE DEF AllInv
  <1>0. ~ GoOn(c)
    BY DEF YieldIn, GoOn, CoroutineYield, Running, switchVars
  <1>1. /\ WaitInv(LockCalls)'
        /\ state[c] = "run" /\ UNCHANGED phase
        /\ wait_in' = [wait_in EXCEPT ![c] = CallOf(type)]
        /\ \A d \in Cid : d # c => state'[d] = state[d]
        /\ wait_in[c] \in {"none", CallOf(type)}
    BY <1>0, CallsDiffer, CallWaits
  <1>2. BatchInv' /\ at[c] = "body" /\ OpenBatches(c) = {}
    BY CallBatch
  <1>3. /\ wait_in \in [Cid -> LockCalls \cup {"none"}] /\ UNCHANGED <<at, batchVars>>
        /\ state'[c] = "suspend"
    BY DEF WaitInv, SchedInv, TypeOK, YieldIn, CoroutineYield, restVars
  <1>4. \A i \in 1 .. Len(suspend_list) : suspend_list[i][2] = c => suspend_list[i][1] = type
    <2> SUFFICES ASSUME NEW i \in 1 .. Len(suspend_list), suspend_list[i][2] = c
                 PROVE  suspend_list[i][1] = type
      OBVIOUS
    <2>1. wait_in[c] = CallOf(suspend_list[i][1])
      BY DEF RWInv, RWQueueEntries, HoldsLock
    <2>2. QED
      BY <1>1, <2>1, Entry, CallsDiffer
  <1>5. /\ suspend_list' \in Seq(Types \X Cid)
        /\ Contains(suspend_list', <<type, c>>)
        /\ \A e : Contains(suspend_list, e) => Contains(suspend_list', e)
        /\ \A i \in 1 .. Len(suspend_list') :
             suspend_list'[i] = <<type, c>> \/ Contains(suspend_list, suspend_list'[i])
        /\ RWQueuedOnce'
    BY <1>4, QueueLemma DEF RWInv
  <1>6. RWTypes' /\ RWHolders'
    BY <1>5 DEF RWTypes, RWInv, RWHolders
  <1>7. RWQueueEntries'
    <2> SUFFICES ASSUME NEW i \in 1 .. Len(suspend_list')
                 PROVE  \/ wait_in'[suspend_list'[i][2]] = CallOf(suspend_list'[i][1])
                        \/ suspend_list'[i][1] = "write" /\ hold_write_cid = suspend_list'[i][2]
                        \/ suspend_list'[i][1] = "read" /\ suspend_list'[i][2] \in hold_read_cid_set
      BY DEF RWQueueEntries
    <2>1. CASE suspend_list'[i] = <<type, c>>
      BY <1>1, <1>3, <2>1
    <2>2. CASE Contains(suspend_list, suspend_list'[i])
      <3>1. PICK j \in 1 .. Len(suspend_list) : suspend_list[j] = suspend_list'[i]
        BY <2>2 DEF Contains
      <3>2. CASE suspend_list[j][2] = c
        <4>1. suspend_list[j][1] = type
          BY <1>4, <3>2
        <4>2. QED
          BY <1>1, <1>3, <3>1, <3>2, <4>1
      <3>3. CASE suspend_list[j][2] # c
        <4>1. wait_in'[suspend_list[j][2]] = wait_in[suspend_list[j][2]]
          BY <1>1, <1>3, <3>3, Entry
        <4>2. QED
          BY <3>1, <4>1 DEF RWInv, RWQueueEntries
      <3>4. QED
        BY <3>2, <3>3
    <2>3. QED
      BY <1>5, <2>1, <2>2
  <1>8. RWWaiters'
    <2> SUFFICES ASSUME NEW d \in Cid, NEW t \in Types, wait_in'[d] = CallOf(t)
                 PROVE  /\ ~ HoldsLock(d)
                        /\ at'[d] = "body" /\ OpenBatches(d)' = {}
                        /\ state'[d] \in {"run", "suspend"}
                        /\ state'[d] = "suspend" => Contains(suspend_list', <<t, d>>)
      BY DEF RWWaiters, HoldsLock, Types
    <2>1. OpenBatches(d)' = OpenBatches(d)
      BY <1>3 DEF OpenBatches, batchVars
    <2>2. CASE d = c
      <3>1. t = type
        BY <1>1, <1>3, <2>2, CallsDiffer
      <3>2. QED
        BY <1>2, <1>3, <1>5, <2>1, <2>2, <3>1
    <2>3. CASE d # c
      <3>1. wait_in[d] = CallOf(t) /\ state'[d] = state[d]
        BY <1>1, <1>3, <2>3
      <3>2. QED
        BY <1>3, <1>5, <2>1, <3>1 DEF RWInv, RWWaiters, Types
    <2>4. QED
      BY <2>2, <2>3
  <1>9. VisitInv'
    <2> SUFFICES ASSUME visiting = "rwlock", NEW i \in 1 .. Len(suspend_list')
                 PROVE  /\ phase = "sync"
                        /\ wait_in'[suspend_list'[i][2]] = CallOf(suspend_list'[i][1])
                        /\ state'[suspend_list'[i][2]] # "run"
      BY <1>1 DEF VisitInv, visitVars
    <2>1. CASE suspend_list'[i] = <<type, c>>
      BY <1>1, <1>3, <2>1 DEF VisitInv
    <2>2. CASE Contains(suspend_list, suspend_list'[i])
      <3>1. PICK j \in 1 .. Len(suspend_list) : suspend_list[j] = suspend_list'[i]
        BY <2>2 DEF Contains
      <3>2. /\ wait_in[suspend_list[j][2]] = CallOf(suspend_list[j][1])
            /\ state[suspend_list[j][2]] # "run" /\ phase = "sync"
        BY DEF VisitInv
      <3>3. suspend_list[j][2] # c
        BY <1>1, <3>2
      <3>4. QED
        BY <1>1, <1>3, <3>1, <3>2, <3>3, Entry
    <2>3. QED
      BY <1>5, <2>1, <2>2
  <1>10. QED
    BY <1>1, <1>2, <1>5, <1>6, <1>7, <1>8, <1>9 DEF RWInv

(* The batches of a step that leaves the scheduler alone. *)
LEMMA BatchStays ==
  ASSUME AllInv, UNCHANGED schedVars
  PROVE  BatchInv'
  <1> USE DEF AllInv
  <1>1. UNCHANGED <<coVars, batchVars, mainVars, switchVars, batch_finish_cid_list>>
    BY DEF schedVars
  <1>2. QueuedParents' /\ ParentsQueued'
    BY <1>1, QueueStays
    DEF WaitInv, SchedInv, BatchInv, Joined, Unfinished, coVars, batchVars, mainVars
  <1>3. FreshTasks'
    BY <1>1 DEF BatchInv, FreshTasks, IsChild, coVars, batchVars, mainVars
  <1>4. QED
    BY <1>1, <1>2, <1>3, MoveBatch DEF WaitInv, coVars

(* Letting go of the lock: who does so leaves the list if it barged in. *)
LEMMA ReleaseInv ==
  ASSUME AllInv, NEW c \in Cid, WrUnLock(c) \/ RdUnLock(c)
  PROVE  AllInv'
  <1> USE DEF AllInv
  <1>1. /\ UNCHANGED <<schedVars, waitVars>> /\ wait_in[c] = "none"
        /\ HoldsLock(c)
    BY DEF WrUnLock, RdUnLock, Brief, Free, HoldsLock
  <1>2. WaitInv(LockCalls)' /\ BatchInv'
    BY <1>1, BatchStays, WaitStutter DEF waitVars
  <1>3. PICK type \in Types :
          /\ suspend_list' = RemoveFirst(suspend_list, <<type, c>>)
          /\ lock_state = type
          /\ \/ type = "write" /\ hold_write_cid = c
             \/ type = "read" /\ c \in hold_read_cid_set
          /\ hold_write_cid' = IF type = "write" THEN kInvalidCid ELSE hold_write_cid
          /\ hold_read_cid_set' = hold_read_cid_set \ {c}
    BY DEF WrUnLock, RdUnLock, Types
  <1>4. RWHolders' /\ lock_state' \in {"unlock", "write", "read"}
    BY <1>1, InvalidIds DEF WrUnLock, RdUnLock, RWInv, RWHolders, RWTypes
  <1>5. PICK s, t, e :
          s \in Seq(Types \X Cid) /\ s = suspend_list /\ t = suspend_list' /\ e = <<type, c>>
    BY DEF RWTypes
  <1>6. /\ t \in Seq(Types \X Cid) /\ ~ Contains(t, e)
        /\ \A d : d # e /\ Contains(s, d) => Contains(t, d)
        /\ \A i \in 1 .. Len(t) : Contains(s, t[i])
        /\ \A i, j \in 1 .. Len(t) : t[i] = t[j] => i = j
    <2>1. \A i, j \in 1 .. Len(s) : s[i] = s[j] => i = j
      BY <1>5 DEF RWInv, RWQueuedOnce
    <2>2. t = RemoveFirst(s, e)
      BY <1>3, <1>5
    <2>3. s \in Seq(Types \X Cid)
      BY <1>5
    <2>4. QED
      BY <2>1, <2>2, <2>3, EraseOnce
  (* Who lets go is in the list with the type it held only. *)
  <1>7. \A i \in 1 .. Len(s) : s[i][2] = c => s[i] = e
    <2> SUFFICES ASSUME NEW i \in 1 .. Len(s), s[i][2] = c PROVE s[i] = e
      OBVIOUS
    <2>1. s[i][1] \in Types /\ s[i] = <<s[i][1], c>>
      BY <1>5, Entry
    <2>2. \/ s[i][1] = "write" /\ hold_write_cid = c
          \/ s[i][1] = "read" /\ c \in hold_read_cid_set
      BY <1>1, <1>5, <2>1, CallsDiffer DEF RWInv, RWQueueEntries
    <2>3. s[i][1] = lock_state
      BY <2>2, InvalidIds DEF RWInv, RWHolders
    <2>4. QED
      BY <1>3, <1>5, <2>1, <2>3
  <1>8. \A i \in 1 .. Len(t) : \E j \in 1 .. Len(s) : t[i] = s[j] /\ s[j][2] # c
    <2> SUFFICES ASSUME NEW i \in 1 .. Len(t)
                 PROVE  \E j \in 1 .. Len(s) : t[i] = s[j] /\ s[j][2] # c
      OBVIOUS
    <2>1. PICK j \in 1 .. Len(s) : s[j] = t[i]
      BY <1>6 DEF Contains
    <2>2. t[i] # e
      BY <1>6 DEF Contains
    <2>3. QED
      BY <1>7, <2>1, <2>2
  <1>9. RWTypes'
    BY <1>3, <1>4, <1>5, <1>6 DEF RWTypes
  <1>10. RWQueuedOnce'
    <2> SUFFICES ASSUME NEW i \in 1 .. Len(t), NEW j \in 1 .. Len(t), t[i][2] = t[j][2]
                 PROVE  i = j
      BY <1>5 DEF RWQueuedOnce
    <2>1. PICK k \in 1 .. Len(s), l \in 1 .. Len(s) : t[i] = s[k] /\ t[j] = s[l]
      BY <1>8
    <2>2. k = l
      BY <1>5, <2>1 DEF RWInv, RWQueuedOnce
    <2>3. QED
      BY <1>6, <2>1, <2>2
  <1>11. RWQueueEntries'
    <2> SUFFICES ASSUME NEW i \in 1 .. Len(t)
                 PROVE  \/ wait_in[t[i][2]] = CallOf(t[i][1])
                        \/ t[i][1] = "write" /\ hold_write_cid' = t[i][2]
                        \/ t[i][1] = "read" /\ t[i][2] \in hold_read_cid_set'
      BY <1>1, <1>5 DEF RWQueueEntries, waitVars
    <2>1. PICK j \in 1 .. Len(s) : t[i] = s[j] /\ s[j][2] # c
      BY <1>8
    <2>2. \/ wait_in[s[j][2]] = CallOf(s[j][1])
          \/ s[j][1] = "write" /\ hold_write_cid = s[j][2]
          \/ s[j][1] = "read" /\ s[j][2] \in hold_read_cid_set
      BY <1>5 DEF RWInv, RWQueueEntries
    <2>3. hold_write_cid = s[j][2] => hold_write_cid' = hold_write_cid
      BY <1>3, <2>1
    <2>4. QED
      BY <1>3, <2>1, <2>2, <2>3
  <1>12. RWWaiters'
    <2> SUFFICES ASSUME NEW d \in Cid, NEW u \in Types, wait_in[d] = CallOf(u)
                 PROVE  /\ ~ HoldsLock(d)'
                        /\ at'[d] = "body" /\ OpenBatches(d)' = {}
                        /\ state'[d] \in {"run", "suspend"}
                        /\ state'[d] = "suspend" => Contains(suspend_list', <<u, d>>)
      BY <1>1 DEF RWWaiters, Types, waitVars
    <2>1. d # c
      BY <1>1, CallsDiffer
    <2>2. UNCHANGED <<state, at, OpenBatches(d)>>
      BY <1>1 DEF schedVars, coVars, batchVars, OpenBatches
    <2>3. /\ ~ HoldsLock(d) /\ at[d] = "body" /\ OpenBatches(d) = {}
          /\ state[d] \in {"run", "suspend"}
          /\ state[d] = "suspend" => Contains(s, <<u, d>>)
      BY <1>5 DEF RWInv, RWWaiters, Types
    <2>4. ~ HoldsLock(d)'
      BY <1>3, <2>3, InvalidIds DEF HoldsLock
    <2>5. <<u, d>> # e
      BY <1>5, <2>1
    <2>6. QED
      BY <1>5, <1>6, <2>2, <2>3, <2>4, <2>5
  <1>13. VisitInv'
    <2> SUFFICES ASSUME visiting = "rwlock", NEW i \in 1 .. Len(t)
                 PROVE  phase = "sync" /\ wait_in[t[i][2]] = CallOf(t[i][1])
                          /\ state[t[i][2]] # "run"
      <3>1. (visiting = "rwlock" => \A i \in 1 .. Len(t) :
               /\ phase = "sync" /\ wait_in[t[i][2]] = CallOf(t[i][1])
               /\ state[t[i][2]] # "run") => VisitInv'
        BY <1>1, <1>5 DEF VisitInv, schedVars, coVars, mainVars, waitVars, visitVars
      <3>2. QED
        BY <3>1
    <2>1. PICK j \in 1 .. Len(s) : t[i] = s[j]
      BY <1>8
    <2>2. QED
      BY <1>5, <2>1 DEF VisitInv
  <1>14. QED
    BY <1>2, <1>9, <1>4, <1>10, <1>11, <1>12, <1>13 DEF RWInv
-----------------------------------------------------------------------------
(* Who is inside a call of the lock waits for no batch of its own. *)
LEMMA WaiterNoParent ==
  ASSUME AllInv, NEW c \in Cid, wait_in[c] # "none"
  PROVE  ~ IsParent(c)
  <1> USE DEF AllInv, BatchInv
  <1> SUFFICES ASSUME IsParent(c) PROVE FALSE
    OBVIOUS
  <1>1. PICK b \in Bid : b = relate_bid[c] /\ parent_cid[b] = c
    BY DEF IsParent, WaitInv, SchedInv, TypeOK
  <1>2. at[c] = "body" /\ OpenBatches(c) = {}
    <2>1. wait_in[c] = CallOf("write") \/ wait_in[c] = CallOf("read")
      BY DEF WaitInv, LockCalls, CallOf
    <2>2. QED
      BY <2>1 DEF RWInv, RWWaiters
  <1>3. batch_state[b] # "idle"
    BY <1>1, InvalidIds DEF WaitInv, SchedInv, TypeOK, Related
  <1>4. batch_state[b] # "ready"
    BY <1>1, <1>2 DEF OpenBatches
  <1>5. batch_state[b] # "run"
    BY <1>1, <1>2 DEF ParentInside
  <1>6. QED
    BY <1>3, <1>4, <1>5 DEF WaitInv, SchedInv, TypeOK

(* Whoever is in the list when CoRWLockResume takes an entry off it waits. *)
LEMMA ListWaits ==
  ASSUME AllInv, is_master, phase = "sync", CanWake, NEW i \in 1 .. Len(suspend_list)
  PROVE  /\ suspend_list[i][2] \in Cid
         /\ wait_in[suspend_list[i][2]] = CallOf(suspend_list[i][1])
         /\ wait_in[suspend_list[i][2]] # "none"
         /\ state[suspend_list[i][2]] = "suspend"
  <1> USE DEF AllInv
  <1>1. suspend_list[i][1] \in Types /\ suspend_list[i][2] \in Cid
    BY Entry
  <1>2. wait_in[suspend_list[i][2]] = CallOf(suspend_list[i][1])
    <2>1. CASE lock_state = "unlock"
      BY <1>1, <2>1, InvalidIds DEF RWInv, RWHolders, RWQueueEntries
    <2>2. CASE visiting = "rwlock"
      BY <2>2 DEF VisitInv
    <2>3. QED
      BY <2>1, <2>2 DEF CanWake
  <1>3. wait_in[suspend_list[i][2]] # "none"
    BY <1>1, <1>2, CallsDiffer
  <1>4. state[suspend_list[i][2]] \in {"run", "suspend"}
    BY <1>1, <1>3 DEF WaitInv
  <1>5. state[suspend_list[i][2]] # "run"
    BY <1>1 DEF WaitInv, SchedInv, SingleRunner, Running
  <1>6. QED
    BY <1>1, <1>2, <1>3, <1>4, <1>5

(* CoRWLockResume takes the first waiter off the list and resumes it. *)
LEMMA ResumeOneInv ==
  ASSUME AllInv, RWResumeOne
  PROVE  AllInv'
  <1> USE DEF AllInv
  <1>1. /\ is_master /\ phase = "sync" /\ CanWake /\ suspend_list # <<>>
        /\ visiting' = "rwlock"
        /\ UNCHANGED <<lock_state, hold_write_cid, hold_read_cid_set>>
    BY DEF RWResumeOne, MainAt, CanWake
  <1>2. PICK s, t, c :
          s \in Seq(Types \X Cid) /\ s = suspend_list /\ t = Tail(suspend_list) /\ c = Head(suspend_list)[2]
    BY DEF RWTypes
  <1>3. suspend_list' = t /\ Wake(c)
    BY <1>2 DEF RWResumeOne
  <1>4. /\ t \in Seq(Types \X Cid) /\ Len(s) = Len(t) + 1 /\ c = s[1][2]
        /\ Len(t) \in Nat
        /\ \A i \in 1 .. Len(t) : t[i] = s[i + 1]
    <2>1. /\ t \in Seq(Types \X Cid) /\ Len(t) = Len(s) - 1
          /\ \A i \in 1 .. Len(t) : t[i] = s[i + 1]
      BY <1>1, <1>2, HeadTailProperties
    <2>2. Head(s) = s[1]
      BY <1>1, <1>2
    <2>3. QED
      BY <1>2, <2>1, <2>2
  <1>5. 1 \in 1 .. Len(s) /\ \A i \in 1 .. Len(t) : i + 1 \in 1 .. Len(s)
    BY <1>4
  <1>6. \A i \in 1 .. Len(s) : /\ s[i][2] \in Cid /\ s[i][1] \in Types
                             /\ s[i] = <<s[i][1], s[i][2]>>
                             /\ wait_in[s[i][2]] = CallOf(s[i][1])
                             /\ wait_in[s[i][2]] # "none" /\ state[s[i][2]] = "suspend"
    BY <1>1, <1>2, Entry, ListWaits
  <1>7. /\ WaitInv(LockCalls)' /\ state' = [state EXCEPT ![c] = "run"]
        /\ UNCHANGED <<wait_in, phase>>
    BY <1>3, WakeWaits
  <1>8. BatchInv'
    <2>1. c \in Cid /\ ~ IsParent(c)
      BY <1>4, <1>5, <1>6, WaiterNoParent
    <2>2. /\ CoroutineResume(c) /\ UNCHANGED <<at, batchVars, batch_finish_cid_list, phase>>
      BY <1>3 DEF Wake, restVars, mainVars
    <2>3. QED
      BY <1>1, <2>1, <2>2, ResumeBatch DEF WaitInv
  <1>9. RWTypes' /\ RWHolders'
    BY <1>1, <1>3, <1>4 DEF RWTypes, RWInv, RWHolders
  <1>10. \A i \in 1 .. Len(t) : t[i][2] # c
    <2> SUFFICES ASSUME NEW i \in 1 .. Len(t), t[i][2] = c PROVE FALSE
      OBVIOUS
    <2>1. s[i + 1][2] = s[1][2]
      BY <1>4
    <2>2. i + 1 = 1
      BY <1>2, <1>5, <2>1 DEF RWInv, RWQueuedOnce
    <2>3. QED
      BY <2>2
  <1>11. RWQueuedOnce'
    <2> SUFFICES ASSUME NEW i \in 1 .. Len(t), NEW j \in 1 .. Len(t), t[i][2] = t[j][2]
                 PROVE  i = j
      BY <1>3 DEF RWQueuedOnce
    <2>1. s[i + 1][2] = s[j + 1][2]
      BY <1>4
    <2>2. i + 1 = j + 1
      BY <1>2, <1>5, <2>1 DEF RWInv, RWQueuedOnce
    <2>3. QED
      BY <2>2
  <1>12. \A i \in 1 .. Len(t) : /\ wait_in[t[i][2]] = CallOf(t[i][1])
                              /\ t[i][2] \in Cid /\ state[t[i][2]] = "suspend"
    BY <1>4, <1>5, <1>6
  <1>13. RWQueueEntries' /\ VisitInv'
    <2>1. \A i \in 1 .. Len(t) : state'[t[i][2]] # "run"
      BY <1>7, <1>10, <1>12 DEF WaitInv, SchedInv, TypeOK
    <2>2. QED
      BY <1>1, <1>3, <1>7, <1>12, <2>1 DEF RWQueueEntries, VisitInv
  <1>14. RWWaiters'
    <2> SUFFICES ASSUME NEW d \in Cid, NEW u \in Types, wait_in[d] = CallOf(u)
                 PROVE  /\ ~ HoldsLock(d)
                        /\ at'[d] = "body" /\ OpenBatches(d)' = {}
                        /\ state'[d] \in {"run", "suspend"}
                        /\ state'[d] = "suspend" => Contains(t, <<u, d>>)
      BY <1>1, <1>3, <1>7 DEF RWWaiters, HoldsLock, Types
    <2>1. /\ ~ HoldsLock(d) /\ at[d] = "body" /\ OpenBatches(d) = {}
          /\ state[d] \in {"run", "suspend"}
          /\ state[d] = "suspend" => Contains(s, <<u, d>>)
      BY <1>2 DEF RWInv, RWWaiters, Types
    <2>2. at'[d] = at[d] /\ OpenBatches(d)' = OpenBatches(d)
      BY <1>3 DEF Wake, restVars, OpenBatches, batchVars
    <2>3. state \in [Cid -> States]
      BY DEF WaitInv, SchedInv, TypeOK
    <2>4. CASE d = c
      BY <1>7, <2>1, <2>2, <2>3, <2>4
    <2>5. CASE d # c
      <3>1. state'[d] = state[d]
        BY <1>7, <2>3, <2>5
      <3>2. ASSUME state[d] = "suspend" PROVE Contains(t, <<u, d>>)
        <4>1. PICK i \in 1 .. Len(s) : s[i] = <<u, d>>
          BY <2>1, <3>2 DEF Contains
        <4>2. s[i][2] = d
          BY <4>1
        <4>3. i - 1 \in 1 .. Len(t) /\ (i - 1) + 1 = i
          BY <1>4, <2>5, <4>2
        <4>4. t[i - 1] = <<u, d>>
          BY <1>4, <4>1, <4>3
        <4>5. QED
          BY <4>3, <4>4 DEF Contains
      <3>3. QED
        BY <2>1, <2>2, <3>1, <3>2
    <2>6. QED
      BY <2>4, <2>5
  <1>15. QED
    BY <1>7, <1>8, <1>9, <1>11, <1>13, <1>14 DEF RWInv

(* CoRWLockResume finds nobody more to let in. *)
LEMMA VisitedInv ==
  ASSUME AllInv, RWVisited
  PROVE  AllInv'
  <1> USE DEF AllInv
  <1>1. UNCHANGED <<schedVars, wait_in, rwVars>> /\ visiting' = "none"
    BY DEF RWVisited, Look
  <1>2. WaitInv(LockCalls)' /\ BatchInv'
    BY <1>1, BatchStays, WaitStutter
  <1>3. RWTypes' /\ RWInv'
    BY <1>1, WaitersStay DEF schedVars, coVars, batchVars, OpenBatches
  <1>4. VisitInv'
    BY <1>1 DEF VisitInv
  <1>5. QED
    BY <1>2, <1>3, <1>4

(* Every step of coroutines and main program keeps the whole invariant. *)
LEMMA AllStep ==
  ASSUME AllInv, Orderly, [RWNext]_rwSpecVars
  PROVE  AllInv'
  <1>1. CASE UNCHANGED rwSpecVars
    <2>1. UNCHANGED <<schedVars, wait_in, visiting, rwVars>>
      BY <1>1 DEF rwSpecVars, waitVars, visitVars
    <2>2. WaitInv(LockCalls)' /\ BatchInv'
      BY <2>1, BatchStays, WaitStutter DEF AllInv
    <2>3. RWTypes' /\ RWInv'
      BY <2>1, WaitersStay DEF schedVars, coVars, batchVars, OpenBatches
    <2>4. VisitInv'
      BY <2>1 DEF AllInv, VisitInv, rwVars, schedVars, coVars, mainVars
    <2>5. QED
      BY <2>2, <2>3, <2>4 DEF AllInv
  <1>2. ASSUME NEW c \in Cid, WrLock(c)
        PROVE  AllInv'
    <2>1. "write" \in Types /\ CallOf("write") = "wrlock"
      BY DEF Types, CallOf
    <2>2. Enter(c, "wrlock") /\ ~ HoldsLock(c)
          /\ UNCHANGED <<hold_read_cid_set, visitVars, restVars>>
      BY <1>2 DEF WrLock
    <2>3. CASE /\ lock_state = "unlock" /\ lock_state' = "write" /\ hold_write_cid' = c
               /\ GoOn(c) /\ UNCHANGED suspend_list
      BY <2>1, <2>2, <2>3, GrantInv
    <2>4. CASE /\ suspend_list' = Queue(<<"write", c>>) /\ YieldIn(c, "wrlock")
               /\ UNCHANGED <<lock_state, hold_write_cid>>
      BY <2>1, <2>2, <2>4, SuspendInv
    <2>5. QED
      BY <1>2, <2>3, <2>4 DEF WrLock
  <1>3. ASSUME NEW c \in Cid, RdLock(c)
        PROVE  AllInv'
    <2>1. "read" \in Types /\ CallOf("read") = "rdlock"
      BY DEF Types, CallOf
    <2>2. Enter(c, "rdlock") /\ ~ HoldsLock(c)
          /\ UNCHANGED <<hold_write_cid, visitVars, restVars>>
      BY <1>3 DEF RdLock
    <2>3. CASE /\ lock_state # "write" /\ lock_state' = "read"
               /\ hold_read_cid_set' = hold_read_cid_set \cup {c}
               /\ GoOn(c) /\ UNCHANGED suspend_list
      BY <2>1, <2>2, <2>3, GrantInv
    <2>4. CASE /\ suspend_list' = Queue(<<"read", c>>) /\ YieldIn(c, "rdlock")
               /\ UNCHANGED <<lock_state, hold_read_cid_set>>
      BY <2>1, <2>2, <2>4, SuspendInv
    <2>5. QED
      BY <1>3, <2>3, <2>4 DEF RdLock
  <1>4. CASE RWThread
    BY <1>2, <1>3, <1>4, MasterInv, ResumeOneInv, VisitedInv, ReleaseInv, OtherInv
    DEF RWThread
  <1>5. CASE RWCall
    BY <1>5, MasterInv DEF RWCall
  <1>6. QED
    BY <1>1, <1>4, <1>5 DEF RWNext

(* The accounts of scheduler, batches and lock are right in every reachable
   state. *)
LEMMA AllInvHolds == ASSUME Orderly PROVE RWSpec => []AllInv
  <1>1. AllInv /\ [RWNext]_<<schedVars, waitVars, rwVars>> => AllInv'
    BY AllStep DEF rwSpecVars
  <1>2. QED
    BY <1>1, AllInit, PTL DEF RWSpec
-----------------------------------------------------------------------------
(* The state of the lock tells who holds it, who sleeps in a call of it is in
   the list once, with the type it asked for, and whom CoRWLockResume takes
   off the list may be resumed: nobody waits in vain, and no assertion of
   CoroutineResume fails on a waiter that a scan has let in before. *)
THEOREM LockAccounts ==
  ASSUME Orderly
  PROVE  RWSpec => [](RWInv /\ RWListSound)
  <1>1. AllInv => RWListSound
    <2> SUFFICES ASSUME AllInv, MainAt("sync"), CanWake
                 PROVE  LET item == Head(suspend_list)
                        IN  wait_in[item[2]] = CallOf(item[1]) /\ ResumeAssert(item[2])
      BY DEF RWListSound
    <2>1. 1 \in 1 .. Len(suspend_list) /\ Head(suspend_list) = suspend_list[1]
      BY DEF AllInv, RWTypes, CanWake
    <2>2. PICK c : c = suspend_list[1][2]
      OBVIOUS
    <2>3. /\ c \in Cid /\ wait_in[c] = CallOf(suspend_list[1][1])
          /\ wait_in[c] # "none" /\ state[c] = "suspend"
      BY <2>1, <2>2, ListWaits DEF MainAt
    <2>4. ~ IsParent(c)
      BY <2>3, WaiterNoParent
    <2>5. ResumeAssert(c)
      BY <2>3, <2>4 DEF ResumeAssert
    <2>6. QED
      BY <2>1, <2>2, <2>3, <2>5
  <1>2. AllInv => RWInv
    BY DEF AllInv
  <1>3. QED
    BY <1>1, <1>2, AllInvHolds, PTL

(***************************************************************************)
(* The refinement: a step of the program is a step of the abstract lock,   *)
(* or leaves writer, readers and waiters alone.                            *)
(***************************************************************************)
LEMMA AbstractInit == WaitInit(RWLock) /\ RWInit => AbstractLock!Init
  BY DEF WaitInit, RWInit, LockWait, AbstractLock!Init

(* What waits for the lock is all that waits. *)
LEMMA LockWaitIs == ASSUME AllInv PROVE LockWait = wait_in
  BY DEF AllInv, WaitInv, LockCalls, LockWait

LEMMA AbstractStep ==
  ASSUME AllInv, AllInv', Orderly, [RWNext]_rwSpecVars
  PROVE  [AbstractLock!Next]_<<hold_write_cid, hold_read_cid_set, LockWait>>
  <1> USE DEF AllInv
  <1>0. LockWait = wait_in /\ LockWait' = wait_in'
    <2>1. LockWait' = wait_in'
      BY DEF WaitInv, LockCalls, LockWait
    <2>2. QED
      BY <2>1, LockWaitIs
  <1>1. CASE UNCHANGED rwSpecVars
    BY <1>1 DEF rwSpecVars, rwVars, waitVars, LockWait
  <1>2. CASE /\ OtherLoop \/ SyncEnd(RWLock) \/ OtherCall \/ ManualSync
             /\ UNCHANGED rwVars
    BY <1>0, <1>2 DEF OtherLoop, SyncEnd, OtherCall, ManualSync, rwVars, waitVars
  <1>3. CASE RWResumeOne \/ RWVisited
    BY <1>0, <1>3 DEF RWResumeOne, RWVisited, Wake, Look, rwVars
  <1>4. ASSUME NEW c \in Cid, RWOther(c)
        PROVE  UNCHANGED <<hold_write_cid, hold_read_cid_set, LockWait>>
    BY <1>0, <1>4 DEF RWOther, OtherStep, rwVars, waitVars
  <1>5. ASSUME NEW c \in Cid, NEW call \in LockCalls, Enter(c, call)
        PROVE  wait_in[c] \in {"none", call}
    BY <1>5 DEF Enter, Call, Free
  <1>6. ASSUME NEW c \in Cid, NEW call \in LockCalls, Enter(c, call), ~ HoldsLock(c),
               YieldIn(c, call), UNCHANGED <<hold_write_cid, hold_read_cid_set>>,
               hold_write_cid # kInvalidCid
                 \/ (call = "wrlock" /\ hold_read_cid_set # {})
        PROVE  AbstractLock!Next \/ UNCHANGED <<hold_write_cid, hold_read_cid_set, LockWait>>
    <2>1. wait_in' = [wait_in EXCEPT ![c] = call]
      BY <1>6 DEF YieldIn
    <2>2. CASE wait_in[c] = "none"
      <3>1. AbstractLock!Request(c, call)
        BY <1>0, <1>6, <2>1, <2>2 DEF AbstractLock!Request, HoldsLock
      <3>2. QED
        BY <3>1 DEF AbstractLock!Next, LockCalls
    <2>3. CASE wait_in[c] = call
      BY <1>0, <1>6, <2>1, <2>3 DEF WaitInv
    <2>4. QED
      BY <1>5, <1>6, <2>2, <2>3
  <1>7. ASSUME NEW c \in Cid, WrLock(c)
        PROVE  AbstractLock!Next \/ UNCHANGED <<hold_write_cid, hold_read_cid_set, LockWait>>
    <2>1. /\ Enter(c, "wrlock") /\ ~ HoldsLock(c) /\ UNCHANGED hold_read_cid_set
          /\ "wrlock" \in LockCalls
      BY <1>7 DEF WrLock, LockCalls
    <2>2. CASE lock_state = "unlock" /\ hold_write_cid' = c /\ GoOn(c)
      <3>1. hold_write_cid = kInvalidCid /\ hold_read_cid_set = {}
        BY <2>2 DEF RWInv, RWHolders
      <3>2. wait_in[c] \in {"none", "wrlock"} /\ wait_in' = [wait_in EXCEPT ![c] = "none"]
        BY <1>5, <2>1, <2>2 DEF GoOn
      <3>3. AbstractLock!GrantWrite(c)
        BY <1>0, <2>1, <2>2, <3>1, <3>2 DEF AbstractLock!GrantWrite
      <3>4. QED
        BY <3>3 DEF AbstractLock!Next
    <2>3. CASE lock_state # "unlock" /\ YieldIn(c, "wrlock") /\ UNCHANGED hold_write_cid
      <3>1. hold_write_cid # kInvalidCid \/ hold_read_cid_set # {}
        BY <2>3 DEF RWInv, RWHolders, RWTypes
      <3>2. QED
        BY <1>6, <2>1, <2>3, <3>1
    <2>4. QED
      BY <1>7, <2>2, <2>3 DEF WrLock
  <1>8. ASSUME NEW c \in Cid, RdLock(c)
        PROVE  AbstractLock!Next \/ UNCHANGED <<hold_write_cid, hold_read_cid_set, LockWait>>
    <2>1. /\ Enter(c, "rdlock") /\ ~ HoldsLock(c) /\ UNCHANGED hold_write_cid
          /\ "rdlock" \in LockCalls
      BY <1>8 DEF RdLock, LockCalls
    <2>2. CASE /\ lock_state # "write" /\ hold_read_cid_set' = hold_read_cid_set \cup {c}
               /\ GoOn(c)
      <3>1. hold_write_cid = kInvalidCid
        BY <2>2 DEF RWInv, RWHolders
      <3>2. wait_in[c] \in {"none", "rdlock"} /\ wait_in' = [wait_in EXCEPT ![c] = "none"]
        BY <1>5, <2>1, <2>2 DEF GoOn
      <3>3. AbstractLock!GrantRead(c)
        BY <1>0, <2>1, <2>2, <3>1, <3>2 DEF AbstractLock!GrantRead, HoldsLock
      <3>4. QED
        BY <3>3 DEF AbstractLock!Next
    <2>3. CASE lock_state = "write" /\ YieldIn(c, "rdlock") /\ UNCHANGED hold_read_cid_set
      <3>1. hold_write_cid # kInvalidCid
        BY <2>3 DEF RWInv, RWHolders
      <3>2. QED
        BY <1>6, <2>1, <2>3, <3>1
    <2>4. QED
      BY <1>8, <2>2, <2>3 DEF RdLock
  <1>9. ASSUME NEW c \in Cid, WrUnLock(c) \/ RdUnLock(c)
        PROVE  AbstractLock!Next
    <2>1. wait_in[c] = "none" /\ UNCHANGED wait_in
      BY <1>9 DEF WrUnLock, RdUnLock, Brief, Free, waitVars
    <2>2. \/ hold_write_cid = c /\ hold_write_cid' = kInvalidCid /\ UNCHANGED hold_read_cid_set
          \/ /\ c \in hold_read_cid_set /\ hold_read_cid_set' = hold_read_cid_set \ {c}
             /\ UNCHANGED hold_write_cid
      BY <1>9 DEF WrUnLock, RdUnLock
    <2>3. AbstractLock!Release(c)
      BY <1>0, <2>1, <2>2 DEF AbstractLock!Release
    <2>4. QED
      BY <2>3 DEF AbstractLock!Next
  <1>10. QED
    BY <1>1, <1>2, <1>3, <1>4, <1>7, <1>8, <1>9 DEF RWNext, RWThread, RWCall

(* The coroutine read-write lock implements the abstract one: one writer or
   some readers, whoever barges in past the list. *)
THEOREM LockRefines == ASSUME Orderly PROVE RWSpec => ImplementsRWLock
  <1>1. AllInv /\ AllInv' /\ [RWNext]_<<schedVars, waitVars, rwVars>>
          => [AbstractLock!Next]_<<hold_write_cid, hold_read_cid_set, LockWait>>
    BY AbstractStep DEF rwSpecVars
  <1>2. QED
    BY <1>1, AbstractInit, AllInvHolds, PTL DEF RWSpec, ImplementsRWLock, AbstractLock!Spec
=============================================================================
