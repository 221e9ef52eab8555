------------------------------ MODULE CoMutex ------------------------------
(***************************************************************************)
(* The coroutine mutex of src/Coroutine/sync/mutex.cpp under the scheduler *)
(* of module Schedule.  Coroutine bodies lock, try and unlock the mutexes  *)
(* besides everything they do in Schedule; the main program drives the     *)
(* pool with Run, whose scan also resumes the coroutines that wait for a   *)
(* mutex, or by its own calls, where only CoMutexResume wakes them.        *)
(*                                                                         *)
(* The mutexes are initialised before the first coroutine is created and   *)
(* cleared after the last one has finished.                                *)
(***************************************************************************)
EXTENDS Schedule, SequencesExt

CONSTANTS
  Mutex,     \* the registered mutexes
  NoMutex    \* what a coroutine waits for when it does not wait

ASSUME MutexAssumption == NoMutex \notin Mutex

VARIABLES
  lock, hold_cid, suspend_cid_list,  \* the fields of CoMutex
  lock_wait,   \* the mutex in whose CoMutexLock a coroutine has yielded
  unvisited    \* the mutexes CoMutexResume has still to look at: all of
               \* them, unless it is in progress

mutexVars == <<lock, hold_cid, suspend_cid_list, lock_wait, unvisited>>
vars == <<schedVars, mutexVars>>

(* What a body step of Schedule leaves alone, whichever way it switches. *)
restVars == <<at, batchVars, mainVars, not_idle_count, batch_finish_cid_list, created>>

Holds(c)    == {m \in Mutex : hold_cid[m] = c}

(* The body is in its own code, not inside CoMutexLock. *)
InCode(c) == InBody(c) /\ lock_wait[c] = NoMutex
-----------------------------------------------------------------------------
Acquire(c, m) ==
  /\ ~ lock[m]
  /\ lock' = [lock EXCEPT ![m] = TRUE]
  /\ hold_cid' = [hold_cid EXCEPT ![m] = c]
  /\ lock_wait' = [lock_wait EXCEPT ![c] = NoMutex]
  /\ UNCHANGED <<suspend_cid_list, state, switchVars>>

(* Mutant: a waiter queues up each time round the loop. *)
SuspendTwice(c, m) ==
  /\ lock[m]
  /\ hold_cid[m] # c
  /\ suspend_cid_list' = [suspend_cid_list EXCEPT ![m] = Append(@, c)]
  /\ lock_wait' = [lock_wait EXCEPT ![c] = m]
  /\ CoroutineYield(c)
  /\ UNCHANGED <<lock, hold_cid>>

(* Mutant: the id of the waiter is read after the switch to the master. *)
SuspendAfterSwitch(c, m) ==
  /\ lock[m]
  /\ hold_cid[m] # c
  /\ CoroutineYield(c)
  /\ suspend_cid_list' = [suspend_cid_list EXCEPT ![m] = Append(@, slave_cid')]
  /\ lock_wait' = [lock_wait EXCEPT ![c] = m]
  /\ UNCHANGED <<lock, hold_cid>>

(* The rest of the loop body of CoMutexLock: queue up once, and yield. *)
Suspend(c, m) ==
  /\ lock[m]
  /\ hold_cid[m] # c
  /\ suspend_cid_list' =
       IF Contains(suspend_cid_list[m], c) THEN suspend_cid_list
       ELSE [suspend_cid_list EXCEPT ![m] = Append(@, c)]
  /\ lock_wait' = [lock_wait EXCEPT ![c] = m]
  /\ CoroutineYield(c)
  /\ UNCHANGED <<lock, hold_cid>>

(* CoMutexLock, up to its return or its first yield.  It is not reentrant. *)
Lock(c, m) ==
  /\ InCode(c) /\ calls[c] < MaxCalls /\ Disciplined(c)
  /\ m \notin Holds(c)
  /\ Acquire(c, m) \/ Suspend(c, m)
  /\ calls' = [calls EXCEPT ![c] = @ + 1]
  /\ UNCHANGED <<unvisited, restVars>>

(* Mutant: a waiter that has been resumed takes the mutex without a test. *)
LockUntested(c, m) ==
  /\ Running(c) /\ lock_wait[c] = m
  /\ lock' = [lock EXCEPT ![m] = TRUE]
  /\ hold_cid' = [hold_cid EXCEPT ![m] = c]
  /\ lock_wait' = [lock_wait EXCEPT ![c] = NoMutex]
  /\ UNCHANGED <<suspend_cid_list, calls, unvisited, state, switchVars, restVars>>

(* CoMutexLock after a yield: round the loop again. *)
LockAgain(c, m) ==
  /\ Running(c) /\ lock_wait[c] = m
  /\ Acquire(c, m) \/ Suspend(c, m)
  /\ UNCHANGED <<calls, unvisited, restVars>>

(* On a locked mutex it returns false and changes nothing. *)
TryLock(c, m) ==
  /\ InCode(c) /\ calls[c] < MaxCalls
  /\ Acquire(c, m)
  /\ calls' = [calls EXCEPT ![c] = @ + 1]
  /\ UNCHANGED <<unvisited, restVars>>

(* Mutant: the owner is cleared, the flag stays up. *)
UnLockOwnerOnly(c, m) ==
  /\ InCode(c)
  /\ lock[m] /\ hold_cid[m] = c
  /\ hold_cid' = [hold_cid EXCEPT ![m] = kInvalidCid]
  /\ suspend_cid_list' = [suspend_cid_list EXCEPT ![m] = RemoveFirst(@, c)]
  /\ UNCHANGED <<lock, lock_wait, unvisited, schedVars>>

(* Mutant: an owner that barged in stays in the queue. *)
UnLockStaysQueued(c, m) ==
  /\ InCode(c)
  /\ lock[m] /\ hold_cid[m] = c
  /\ lock' = [lock EXCEPT ![m] = FALSE]
  /\ hold_cid' = [hold_cid EXCEPT ![m] = kInvalidCid]
  /\ UNCHANGED <<suspend_cid_list, lock_wait, unvisited, schedVars>>

UnLock(c, m) ==
  /\ InCode(c)
  /\ lock[m] /\ hold_cid[m] = c
  /\ lock' = [lock EXCEPT ![m] = FALSE]
  /\ hold_cid' = [hold_cid EXCEPT ![m] = kInvalidCid]
  /\ suspend_cid_list' = [suspend_cid_list EXCEPT ![m] = RemoveFirst(@, c)]
  /\ UNCHANGED <<lock_wait, unvisited, schedVars>>

(* Everything else a body does; it unlocks before it returns and before it
   waits for its batch. *)
OtherStep(c) ==
  /\ lock_wait[c] = NoMutex
  /\ CoroutineStep(c)
  /\ state'[c] = "idle" \/ at'[c] = "batchRun" => Holds(c) = {}
  /\ UNCHANGED mutexVars
-----------------------------------------------------------------------------
(* Mutant: the first waiter is taken off the queue before the test of the lock. *)
VisitSkipPops(m) ==
  /\ MainAt("sync") /\ m \in unvisited
  /\ lock[m] \/ suspend_cid_list[m] = <<>>
  /\ suspend_cid_list' = IF suspend_cid_list[m] = <<>> THEN suspend_cid_list
                         ELSE [suspend_cid_list EXCEPT ![m] = Tail(@)]
  /\ unvisited' = unvisited \ {m}
  /\ UNCHANGED <<lock, hold_cid, lock_wait, schedVars>>

(* CoMutexResume looks at a mutex and finds it locked, or nobody waiting. *)
VisitSkip(m) ==
  /\ MainAt("sync") /\ m \in unvisited
  /\ lock[m] \/ suspend_cid_list[m] = <<>>
  /\ unvisited' = unvisited \ {m}
  /\ UNCHANGED <<lock, hold_cid, suspend_cid_list, lock_wait, schedVars>>

(* Mutant: the last waiter is taken, not the first. *)
VisitWakeLast(m) ==
  LET queue == suspend_cid_list[m]
  IN  /\ MainAt("sync") /\ m \in unvisited
      /\ ~ lock[m] /\ queue # <<>>
      /\ suspend_cid_list' = [suspend_cid_list EXCEPT ![m] = SubSeq(@, 1, Len(@) - 1)]
      /\ CoroutineResume(queue[Len(queue)])
      /\ unvisited' = unvisited \ {m}
      /\ UNCHANGED <<lock, hold_cid, lock_wait, calls, restVars>>

(* It takes the first waiter off the queue and resumes it. *)
VisitWake(m) ==
  /\ MainAt("sync") /\ m \in unvisited
  /\ ~ lock[m] /\ suspend_cid_list[m] # <<>>
  /\ suspend_cid_list' = [suspend_cid_list EXCEPT ![m] = Tail(@)]
  /\ CoroutineResume(Head(suspend_cid_list[m]))
  /\ unvisited' = unvisited \ {m}
  /\ UNCHANGED <<lock, hold_cid, lock_wait, calls, restVars>>

VisitEnd ==
  /\ MainAt("sync") /\ unvisited = {}
  /\ unvisited' = Mutex
  /\ phase' = IF in_run THEN "test" ELSE "main"
  /\ UNCHANGED <<lock, hold_cid, suspend_cid_list, lock_wait, idx, todo, in_run,
                 coVars, batchVars, switchVars, not_idle_count,
                 batch_finish_cid_list, created>>

(* The main program's own call of CoMutexResume. *)
CoMutexResume ==
  /\ MainAt("main") /\ "manual" \in Drivers
  /\ phase' = "sync"
  /\ UNCHANGED <<mutexVars, idx, todo, in_run, coVars, batchVars, switchVars,
                 not_idle_count, batch_finish_cid_list, created>>

(* Without Run, the main program resumes the coroutines it knows to be able
   to go on, and leaves those that wait for a mutex to CoMutexResume. *)
OtherCall ==
  /\ \/ MainCreate \/ Run \/ BatchFinish
     \/ \E c \in Cid : lock_wait[c] = NoMutex /\ (ManualResume(c) \/ BatchStart(c))
  /\ UNCHANGED mutexVars
-----------------------------------------------------------------------------
MutexInit ==
  /\ Init
  /\ lock = [m \in Mutex |-> FALSE]
  /\ hold_cid = [m \in Mutex |-> kInvalidCid]
  /\ suspend_cid_list = [m \in Mutex |-> <<>>]
  /\ lock_wait = [c \in Cid |-> NoMutex]
  /\ unvisited = Mutex

MutexStep(c) == \E m \in Mutex : Lock(c, m) \/ LockAgain(c, m) \/ TryLock(c, m) \/ UnLock(c, m)

VisitStep == VisitEnd \/ \E m \in Mutex : VisitSkip(m) \/ VisitWake(m)

ThreadStep ==
  \/ LoopStep /\ UNCHANGED mutexVars
  \/ VisitStep
  \/ \E c \in Cid : MutexStep(c) \/ OtherStep(c)

MutexNext == ThreadStep \/ CoMutexResume \/ OtherCall

MutexSpec == MutexInit /\ [][MutexNext]_vars

(* As in Schedule: the thread runs on once it is inside a call. *)
MutexFairSpec == MutexSpec /\ WF_vars(ThreadStep)
-----------------------------------------------------------------------------
(* Every variable of the mutexes has its type. *)
MutexTypeOK ==
  /\ TypeOK
  /\ lock \in [Mutex -> BOOLEAN]
  /\ hold_cid \in [Mutex -> Cid \cup {kInvalidCid}]
  /\ suspend_cid_list \in [Mutex -> Seq(Cid)]
  /\ lock_wait \in [Cid -> Mutex \cup {NoMutex}]
  /\ unvisited \subseteq Mutex

(* A coroutine that sleeps inside CoMutexLock is in that mutex's queue, once:
   CoMutexResume, the only one to wake it when the program does not use Run,
   will find it. *)
WaiterQueued ==
  \A c \in Cid, m \in Mutex :
    lock_wait[c] = m /\ state[c] = "suspend" =>
      Cardinality({i \in 1 .. Len(suspend_cid_list[m]) : suspend_cid_list[m][i] = c}) = 1

(* The queue of a free mutex, seen by CoMutexResume, holds only coroutines
   that sleep in its CoMutexLock: one that barged in during Run's scan has
   left the queue again, and the resume trips no assert. *)
QueueOfWaiters ==
  is_master =>
    \A m \in Mutex : ~ lock[m] =>
      \A i \in 1 .. Len(suspend_cid_list[m]) :
        LET c == suspend_cid_list[m][i]
        IN  lock_wait[c] = m /\ ResumeAssert(c)

(***************************************************************************)
(* The parts of the inductive invariant behind WaiterQueued,               *)
(* QueueOfWaiters and ImplementsMutex.                                     *)
(***************************************************************************)
(* The flag and the owner's id agree. *)
FlagAndOwner == \A m \in Mutex : lock[m] <=> hold_cid[m] # kInvalidCid

(* A queue names nobody twice. *)
QueuedOnce ==
  \A m \in Mutex : \A i, j \in 1 .. Len(suspend_cid_list[m]) :
    suspend_cid_list[m][i] = suspend_cid_list[m][j] => i = j

(* Who is in a queue waits for the mutex, or has barged in and owns it. *)
QueueEntries ==
  \A m \in Mutex : \A i \in 1 .. Len(suspend_cid_list[m]) :
    lock_wait[suspend_cid_list[m][i]] = m \/ hold_cid[m] = suspend_cid_list[m][i]

(* Who waits is inside CoMutexLock, without an open batch, and queued if asleep. *)
Waiters ==
  \A c \in Cid : lock_wait[c] # NoMutex =>
    /\ at[c] = "body" /\ OpenBatches(c) = {}
    /\ state[c] \in {"run", "suspend"}
    /\ state[c] = "suspend" => Contains(suspend_cid_list[lock_wait[c]], c)

(* The state of the mutexes, as their five operations keep it. *)
MutexInv == FlagAndOwner /\ QueuedOnce /\ QueueEntries /\ Waiters

(* A waiter that leaves the queue, or gets the mutex while still in the queue,
   is at its head. *)
InTurn ==
  \A m \in Mutex, c \in Cid :
    /\ lock_wait[c] = m /\ Contains(suspend_cid_list[m], c)
    /\ hold_cid'[m] = c \/ ~ Contains(suspend_cid_list'[m], c)
    => Head(suspend_cid_list[m]) = c

(* Waiters are served in the order in which they began to wait ("first in,
   first out", mutex.cpp:63).  Under Run they are not. *)
ServedInOrder == [][InTurn]_vars

(* They are as long as the program is not inside Run and leaves it to
   CoMutexResume to wake them, whatever runs of Run came before. *)
InOrderOutsideRun == [][~ in_run => InTurn]_vars

(* Coroutines that wait for each other's mutexes. *)
Circle ==
  \E S \in SUBSET Cid \ {{}} :
    \A c \in S : lock_wait[c] # NoMutex /\ hold_cid[lock_wait[c]] \in S

(* Run returns, and then the pool is idle (coroutine.cpp 66-90), unless the
   program itself makes coroutines wait in a circle: no waiter is kept by a
   mutex that is free, or whose owner can go on. *)
MutexProgress == in_run ~> (~ in_run /\ Idle = Cid) \/ Circle

(* The mutex of the abstract specification. *)
Abstract == INSTANCE AbstractMutex WITH
  Clients <- Cid, Mutexes <- Mutex, Nobody <- kInvalidCid, None <- NoMutex,
  owner <- hold_cid, waits <- lock_wait

(* Every step of the program is a step of the abstract mutexes, or none. *)
ImplementsMutex == Abstract!Spec
=============================================================================
