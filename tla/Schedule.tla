------------------------------ MODULE Schedule ------------------------------
(***************************************************************************)
(* The coroutine scheduler of src/Coroutine: the pool of coroutines, the   *)
(* switch between the master context and one slave coroutine at a time,    *)
(* batches (fork/join of child coroutines), and the two ways a program     *)
(* drives the pool: Schedule::Run, or its own calls of CoroutineResume,    *)
(* CoroutineResume4BatchStart and CoroutineResume4BatchFinish.             *)
(*                                                                         *)
(* Everything runs on one thread.  A step is what the running context does *)
(* between two points at which another context or another choice of the    *)
(* program may come in: one API call, or one test of a loop.               *)
(*                                                                         *)
(* A failing assert aborts the process: the assert is a conjunct of the    *)
(* action's guard, and AssertsHold states that it never fails.             *)
(***************************************************************************)
EXTENDS Integers, Sequences, FiniteSets

CONSTANTS
  Requested,   \* coroutine_count, the constructor's first argument
  MaxInBatch,  \* max_concurrency_in_batch, its second argument
  BatchSize,   \* kMaxBatchSize; kMaxCoroutineSize is twice that
  Drivers,     \* what the main program uses: "run", "manual" or both
  Usage,       \* the liberties the coroutine bodies take, see Liberties
  MaxCreate,   \* bound: coroutines created outside batches, in a behaviour
  MaxCalls     \* bound: calls of Yield, Create, BatchCreate in one body

(***************************************************************************)
(* Nothing in the code stops a program from doing these; the library only  *)
(* works for programs that do none of them.                                *)
(*   emptyBatch   BatchRun of a batch to which no task was added           *)
(*   nestedBatch  BatchCreate by a coroutine that is a task of a batch     *)
(*   twoBatches   BatchCreate by a coroutine that has an open batch        *)
(*   openBatch    yielding or returning between BatchCreate and BatchRun   *)
(*   overcommit   more than coroutine_count coroutines outside batches     *)
(***************************************************************************)
Liberties == {"emptyBatch", "nestedBatch", "twoBatches", "openBatch", "overcommit"}

(* The liberties that break the accounts of the batches; the other two do not. *)
Orderly == Usage \cap {"nestedBatch", "twoBatches", "openBatch"} = {}

(* Mutant: one batch for everybody, instead of one for each coroutine. *)
SharedBatchCount == MaxInBatch + Requested

(* The pool is enlarged so that every requested coroutine can have a full batch. *)
CoroutineCount == (MaxInBatch + 1) * Requested

ASSUME ScheduleAssumption ==
  /\ Requested \in Nat \ {0}               \* coroutine.cpp:34
  /\ MaxInBatch \in Nat
  /\ BatchSize \in Nat \ {0}
  /\ CoroutineCount \in Nat
  /\ CoroutineCount <= 2 * BatchSize       \* coroutine.cpp:35
  /\ Drivers \subseteq {"run", "manual"}
  /\ Usage \subseteq Liberties
  /\ MaxCreate \in Nat
  /\ MaxCalls \in Nat

Cid == 0 .. CoroutineCount - 1
Bid == 0 .. BatchSize - 1
kInvalidCid == -1
kInvalidBid == -1

VARIABLES
  \* one entry per coroutine of the pool
  state,           \* Coroutine::state
  relate_bid,      \* Coroutine::relate_bid
  at,              \* where the body continues: in itself, or inside BatchRun
  calls,           \* bounded calls the body has made
  \* one entry per batch of the pool
  batch_state,     \* Batch::state
  parent_cid,      \* Batch::parent_cid
  child_cid,       \* the keys of Batch::child_cid_2_finish
  finished_cid,    \* the keys whose value is true
  \* the scheduler
  is_master, slave_cid, not_idle_count,
  batch_finish_cid_list,
  \* the main program
  phase,           \* where the master context is
  idx,             \* the index of the loop it is in
  todo,            \* the children CoroutineResume4BatchStart has still to resume
  in_run,          \* whether it is inside Run
  created          \* coroutines created outside batches so far

coVars     == <<state, at, calls>>
batchVars  == <<relate_bid, batch_state, parent_cid, child_cid, finished_cid>>
switchVars == <<is_master, slave_cid>>
mainVars   == <<phase, idx, todo, in_run>>
schedVars  == <<coVars, batchVars, switchVars, mainVars, not_idle_count,
                batch_finish_cid_list, created>>

States == {"idle", "ready", "run", "suspend"}

Phases == {"main",     \* in the main program, or after Run has returned
           "test",     \* Run: while (not_idle_count_ > 0)
           "scan",     \* Run: the for loop over the pool
           "finish",   \* in CoroutineResume4BatchFinish
           "sync",     \* about to call the CoXxxResume functions
           "start"}    \* in CoroutineResume4BatchStart

(***************************************************************************)
(* Reading the state.                                                      *)
(***************************************************************************)
Idle       == {c \in Cid : state[c] = "idle"}
IsParent(c) == relate_bid[c] # kInvalidBid /\ parent_cid[relate_bid[c]] = c
IsChild(c)  == relate_bid[c] # kInvalidBid /\ parent_cid[relate_bid[c]] # c
Roots      == {c \in Cid \ Idle : ~ IsChild(c)}

Least(S) == CHOOSE x \in S : \A y \in S : x <= y

(* Batches the running coroutine c has created and not run yet. *)
OpenBatches(c) == {b \in Bid : batch_state[b] = "ready" /\ parent_cid[b] = c}

Running(c) == ~ is_master /\ slave_cid = c
InBody(c)  == Running(c) /\ at[c] = "body"

InList(c) == \E i \in 1 .. Len(batch_finish_cid_list) :
               batch_finish_cid_list[i] = c

(* Mutant: the loop of IsBatchDone ends at the first task that has finished. *)
AnyTaskDone(b, finished) == finished # {}

BatchDone(b, finished) == child_cid[b] \subseteq finished

-----------------------------------------------------------------------------
(***************************************************************************)
(* The asserts that a call can trip.                                       *)
(***************************************************************************)
ResumeAssert(c) ==
  /\ c \in Cid
  /\ state[c] \in {"ready", "suspend"}
  /\ IsParent(c) => InList(c)

(* CoroutineRun's look-up of the child, and IsBatchDone's test of the state. *)
ReturnAssert(c) ==
  IsChild(c) => /\ c \in child_cid[relate_bid[c]]
                /\ batch_state[relate_bid[c]] = "run"

(***************************************************************************)
(* The context switches.                                                   *)
(***************************************************************************)
CoroutineResume(c) ==
  /\ is_master
  /\ ResumeAssert(c)
  /\ state' = [state EXCEPT ![c] = "run"]
  /\ is_master' = FALSE
  /\ slave_cid' = c

CoroutineYield(c) ==
  /\ Running(c)
  /\ state' = [state EXCEPT ![c] = "suspend"]
  /\ is_master' = TRUE
  /\ slave_cid' = kInvalidCid

(* Mutant: a new coroutine is not counted. *)
InitUncounted(c) ==
  /\ state' = [state EXCEPT ![c] = "ready"]
  /\ at' = [at EXCEPT ![c] = "body"]
  /\ UNCHANGED not_idle_count

(* A fresh context in the slot c; relate_bid keeps the value it has. *)
CoroutineInit(c) ==
  /\ state' = [state EXCEPT ![c] = "ready"]
  /\ at' = [at EXCEPT ![c] = "body"]
  /\ not_idle_count' = not_idle_count + 1

(* Mutant: the search stops at the first slot that is not running. *)
CreateInUsedSlot(c) ==
  /\ c = Least({n \in Cid : state[n] # "run"})
  /\ CoroutineInit(c)

(* The first idle slot, c. *)
CoroutineCreate(c) ==
  /\ c \in Idle /\ c = Least(Idle)
  /\ CoroutineInit(c)

(* Both callers of CoroutineCreate outside batches count what they create. *)
MayCreate ==
  /\ created < MaxCreate
  /\ Idle # {}
  /\ "overcommit" \in Usage \/ Cardinality(Roots) < Requested
-----------------------------------------------------------------------------
(***************************************************************************)
(* What a running coroutine does.                                          *)
(***************************************************************************)
Disciplined(c) == "openBatch" \in Usage \/ OpenBatches(c) = {}

Yield(c) ==
  /\ InBody(c) /\ calls[c] < MaxCalls /\ Disciplined(c)
  /\ CoroutineYield(c)
  /\ calls' = [calls EXCEPT ![c] = @ + 1]
  /\ UNCHANGED <<at, batchVars, mainVars, not_idle_count,
                 batch_finish_cid_list, created>>

(* A coroutine creates another one; a full pool answers kInvalidCid and changes nothing. *)
Create(c) ==
  /\ InBody(c) /\ calls[c] < MaxCalls /\ MayCreate
  /\ \E n \in Cid :
       /\ CoroutineCreate(n)
       /\ calls' = [calls EXCEPT ![c] = @ + 1, ![n] = 0]
  /\ created' = created + 1
  /\ UNCHANGED <<batchVars, switchVars, mainVars, batch_finish_cid_list>>

(* The first idle batch; without one it returns kInvalidBid and changes nothing. *)
BatchCreate(c) ==
  /\ InBody(c) /\ calls[c] < MaxCalls
  /\ MaxInBatch > 0
  /\ IsChild(c) => "nestedBatch" \in Usage
  /\ IsParent(c) => "twoBatches" \in Usage
  /\ \E b \in Bid :
       /\ batch_state[b] = "idle"
       /\ \A a \in Bid : batch_state[a] = "idle" => b <= a
       /\ batch_state' = [batch_state EXCEPT ![b] = "ready"]
       /\ parent_cid' = [parent_cid EXCEPT ![b] = c]
       /\ relate_bid' = [relate_bid EXCEPT ![c] = b]
  /\ calls' = [calls EXCEPT ![c] = @ + 1]
  /\ UNCHANGED <<state, at, child_cid, finished_cid, switchVars, mainVars,
                 not_idle_count, batch_finish_cid_list, created>>

(* At the limit of the batch it returns false and changes nothing.  The map
   assignment makes n unfinished even if it is already a key. *)
BatchAdd(c, b) ==
  /\ InBody(c) /\ b \in OpenBatches(c)
  /\ Cardinality(child_cid[b]) < MaxInBatch
  /\ \E n \in Cid :
       /\ CoroutineCreate(n)
       /\ calls' = [calls EXCEPT ![n] = 0]
       /\ relate_bid' = [relate_bid EXCEPT ![n] = b]
       /\ child_cid' = [child_cid EXCEPT ![b] = @ \cup {n}]
       /\ finished_cid' = [finished_cid EXCEPT ![b] = @ \ {n}]
  /\ UNCHANGED <<batch_state, parent_cid, switchVars, mainVars,
                 batch_finish_cid_list, created>>

(* BatchRun up to its yield. *)
BatchRun(c, b) ==
  /\ InBody(c) /\ b \in OpenBatches(c)
  /\ "emptyBatch" \in Usage \/ child_cid[b] # {}
  /\ batch_state' = [batch_state EXCEPT ![b] = "run"]
  /\ at' = [at EXCEPT ![c] = "batchRun"]
  /\ CoroutineYield(c)
  /\ UNCHANGED <<calls, relate_bid, parent_cid, child_cid, finished_cid,
                 mainVars, not_idle_count, batch_finish_cid_list, created>>

(* BatchRun after its yield: b is the argument it was called with. *)
BatchRunEnd(c, b) ==
  /\ Running(c) /\ at[c] = "batchRun"
  /\ batch_state[b] = "run" /\ parent_cid[b] = c
  /\ batch_state' = [batch_state EXCEPT ![b] = "idle"]
  /\ parent_cid' = [parent_cid EXCEPT ![b] = kInvalidCid]
  /\ child_cid' = [child_cid EXCEPT ![b] = {}]
  /\ finished_cid' = [finished_cid EXCEPT ![b] = {}]
  /\ relate_bid' = [relate_bid EXCEPT ![c] = kInvalidBid]
  /\ at' = [at EXCEPT ![c] = "body"]
  /\ UNCHANGED <<state, calls, switchVars, mainVars, not_idle_count,
                 batch_finish_cid_list, created>>

(* Mutant: a task that has returned keeps its relate_bid. *)
FinishStaysRelated(c) ==
  LET b == relate_bid[c]
      finished == finished_cid[b] \cup {c}
  IN  /\ finished_cid' = [finished_cid EXCEPT ![b] = finished]
      /\ batch_finish_cid_list' =
           IF BatchDone(b, finished)
           THEN Append(batch_finish_cid_list, parent_cid[b])
           ELSE batch_finish_cid_list
      /\ UNCHANGED relate_bid

(* Mutant: every task queues the parent, not only the last one. *)
FinishAlwaysQueues(c) ==
  LET b == relate_bid[c]
  IN  /\ finished_cid' = [finished_cid EXCEPT ![b] = @ \cup {c}]
      /\ batch_finish_cid_list' = Append(batch_finish_cid_list, parent_cid[b])
      /\ relate_bid' = [relate_bid EXCEPT ![c] = kInvalidBid]

(* CoroutineRun after entry(): a child reports to its batch, and the last
   child queues the parent. *)
ChildFinish(c) ==
  LET b == relate_bid[c]
      finished == finished_cid[b] \cup {c}
  IN  /\ finished_cid' = [finished_cid EXCEPT ![b] = finished]
      /\ batch_finish_cid_list' =
           IF BatchDone(b, finished)
           THEN Append(batch_finish_cid_list, parent_cid[b])
           ELSE batch_finish_cid_list
      /\ relate_bid' = [relate_bid EXCEPT ![c] = kInvalidBid]

Return(c) ==
  /\ InBody(c) /\ Disciplined(c)
  /\ ReturnAssert(c)
  /\ state' = [state EXCEPT ![c] = "idle"]
  /\ is_master' = TRUE
  /\ slave_cid' = kInvalidCid
  /\ not_idle_count' = not_idle_count - 1
  /\ IF IsChild(c)
     THEN ChildFinish(c)
     ELSE UNCHANGED <<finished_cid, batch_finish_cid_list, relate_bid>>
  /\ UNCHANGED <<at, calls, batch_state, parent_cid, child_cid, mainVars,
                 created>>
-----------------------------------------------------------------------------
(***************************************************************************)
(* What the main program does.  Each action needs is_master: a switch to a *)
(* coroutine suspends the main program until the coroutine yields or       *)
(* returns, so the index already names what comes after the switch.        *)
(***************************************************************************)
MainAt(p) == is_master /\ phase = p

MainCreate ==
  /\ MainAt("main") /\ MayCreate
  /\ \E n \in Cid :
       /\ CoroutineCreate(n)
       /\ calls' = [calls EXCEPT ![n] = 0]
  /\ created' = created + 1
  /\ UNCHANGED <<batchVars, switchVars, mainVars, batch_finish_cid_list>>

(* The call of Run. *)
Run ==
  /\ MainAt("main") /\ "run" \in Drivers
  /\ phase' = "test"
  /\ in_run' = TRUE
  /\ UNCHANGED <<idx, todo, coVars, batchVars, switchVars, not_idle_count,
                 batch_finish_cid_list, created>>

RunTest ==
  /\ MainAt("test")
  /\ IF not_idle_count > 0
     THEN phase' = "scan" /\ in_run' = in_run
     ELSE phase' = "main" /\ in_run' = FALSE
  /\ idx' = 0
  /\ UNCHANGED <<todo, coVars, batchVars, switchVars, not_idle_count,
                 batch_finish_cid_list, created>>

(* Mutant: the scan also resumes parents that wait in BatchRun. *)
ScanResumesAll(c) == state[c] \notin {"idle", "run"}

(* Mutant: the scan passes over everything that belongs to a batch. *)
ScanResumesLoners(c) == state[c] \notin {"idle", "run"} /\ relate_bid[c] = kInvalidBid

(* Run resumes everything that is alive, except parents of batches. *)
ScanResumes(c) == state[c] \notin {"idle", "run"} /\ ~ IsParent(c)

ScanSkip ==
  /\ MainAt("scan") /\ idx < CoroutineCount
  /\ ~ ScanResumes(idx)
  /\ idx' = idx + 1
  /\ UNCHANGED <<phase, todo, in_run, coVars, batchVars, switchVars,
                 not_idle_count, batch_finish_cid_list, created>>

ScanResume ==
  /\ MainAt("scan") /\ idx < CoroutineCount
  /\ ScanResumes(idx)
  /\ CoroutineResume(idx)
  /\ idx' = idx + 1
  /\ UNCHANGED <<phase, todo, in_run, at, calls, batchVars, not_idle_count,
                 batch_finish_cid_list, created>>

ScanEnd ==
  /\ MainAt("scan") /\ idx = CoroutineCount
  /\ phase' = "finish"
  /\ idx' = 1
  /\ UNCHANGED <<todo, in_run, coVars, batchVars, switchVars, not_idle_count,
                 batch_finish_cid_list, created>>

(* CoroutineResume4BatchFinish: the loop over the list. *)
FinishResume ==
  /\ MainAt("finish") /\ idx <= Len(batch_finish_cid_list)
  /\ CoroutineResume(batch_finish_cid_list[idx])
  /\ idx' = idx + 1
  /\ UNCHANGED <<phase, todo, in_run, at, calls, batchVars, not_idle_count,
                 batch_finish_cid_list, created>>

(* Mutant: the list is not cleared. *)
FinishKeepsList ==
  /\ MainAt("finish") /\ idx > Len(batch_finish_cid_list)
  /\ phase' = IF in_run THEN "sync" ELSE "main"
  /\ idx' = 0
  /\ UNCHANGED <<todo, in_run, coVars, batchVars, switchVars, not_idle_count,
                 batch_finish_cid_list, created>>

(* After the loop, clear. *)
FinishEnd ==
  /\ MainAt("finish") /\ idx > Len(batch_finish_cid_list)
  /\ batch_finish_cid_list' = <<>>
  /\ phase' = IF in_run THEN "sync" ELSE "main"
  /\ idx' = 0
  /\ UNCHANGED <<todo, in_run, coVars, batchVars, switchVars, not_idle_count,
                 created>>

(* The six CoXxxResume calls of Run, when no primitive is registered. *)
NoWaiters ==
  /\ MainAt("sync")
  /\ phase' = "test"
  /\ UNCHANGED <<idx, todo, in_run, coVars, batchVars, switchVars,
                 not_idle_count, batch_finish_cid_list, created>>

(* A main program without Run resumes coroutines itself, parents of batches
   excepted: those are for CoroutineResume4BatchFinish. *)
ManualResume(c) ==
  /\ MainAt("main") /\ "manual" \in Drivers
  /\ ~ IsParent(c)
  /\ CoroutineResume(c)
  /\ UNCHANGED <<mainVars, at, calls, batchVars, not_idle_count,
                 batch_finish_cid_list, created>>

(* CoroutineResume4BatchStart(c), called once per batch, after the parent c
   has reached BatchRun; for other coroutines it returns at once. *)
BatchStart(c) ==
  /\ MainAt("main") /\ "manual" \in Drivers
  /\ IsParent(c) /\ state[c] = "suspend"
  /\ finished_cid[relate_bid[c]] = {}
  /\ \A n \in child_cid[relate_bid[c]] : state[n] = "ready"
  /\ phase' = "start"
  /\ todo' = child_cid[relate_bid[c]]
  /\ UNCHANGED <<idx, in_run, coVars, batchVars, switchVars, not_idle_count,
                 batch_finish_cid_list, created>>

(* One round of its loop over the map, whose order is not defined. *)
StartResume(n) ==
  /\ MainAt("start") /\ n \in todo
  /\ CoroutineResume(n)
  /\ todo' = todo \ {n}
  /\ UNCHANGED <<phase, idx, in_run, at, calls, batchVars, not_idle_count,
                 batch_finish_cid_list, created>>

StartEnd ==
  /\ MainAt("start") /\ todo = {}
  /\ phase' = "main"
  /\ UNCHANGED <<idx, todo, in_run, coVars, batchVars, switchVars,
                 not_idle_count, batch_finish_cid_list, created>>

(* The main program's own call of CoroutineResume4BatchFinish. *)
BatchFinish ==
  /\ MainAt("main") /\ "manual" \in Drivers
  /\ batch_finish_cid_list # <<>>
  /\ phase' = "finish"
  /\ idx' = 1
  /\ UNCHANGED <<todo, in_run, coVars, batchVars, switchVars, not_idle_count,
                 batch_finish_cid_list, created>>
-----------------------------------------------------------------------------
Init ==
  /\ state = [c \in Cid |-> "idle"]
  /\ relate_bid = [c \in Cid |-> kInvalidBid]
  /\ at = [c \in Cid |-> "body"]
  /\ calls = [c \in Cid |-> 0]
  /\ batch_state = [b \in Bid |-> "idle"]
  /\ parent_cid = [b \in Bid |-> kInvalidCid]
  /\ child_cid = [b \in Bid |-> {}]
  /\ finished_cid = [b \in Bid |-> {}]
  /\ is_master = TRUE
  /\ slave_cid = kInvalidCid
  /\ not_idle_count = 0
  /\ batch_finish_cid_list = <<>>
  /\ phase = "main" /\ idx = 0 /\ todo = {} /\ in_run = FALSE
  /\ created = 0

CoroutineStep(c) ==
  \/ Yield(c) \/ Create(c) \/ BatchCreate(c) \/ Return(c)
  \/ \E b \in Bid : BatchAdd(c, b) \/ BatchRun(c, b) \/ BatchRunEnd(c, b)

(* The steps of Run, CoroutineResume4BatchStart and ...4BatchFinish. *)
LoopStep ==
  \/ RunTest \/ ScanSkip \/ ScanResume \/ ScanEnd
  \/ FinishResume \/ FinishEnd
  \/ StartEnd \/ \E n \in Cid : StartResume(n)

(* The calls the main program chooses to make. *)
MainCall ==
  \/ MainCreate \/ Run \/ BatchFinish
  \/ \E c \in Cid : ManualResume(c) \/ BatchStart(c)

Next == MainCall \/ LoopStep \/ NoWaiters \/ \E c \in Cid : CoroutineStep(c)

(* The one thread keeps running once it is inside a call; what the main
   program calls, and when, is its own choice. *)
Fairness == WF_schedVars(LoopStep \/ NoWaiters \/ \E c \in Cid : CoroutineStep(c))

Spec == Init /\ [][Next]_schedVars
FairSpec == Spec /\ Fairness
-----------------------------------------------------------------------------
(* Every variable has its type. *)
TypeOK ==
  /\ state \in [Cid -> States]
  /\ relate_bid \in [Cid -> Bid \cup {kInvalidBid}]
  /\ at \in [Cid -> {"body", "batchRun"}]
  /\ calls \in [Cid -> Nat]
  /\ batch_state \in [Bid -> {"idle", "ready", "run"}]
  /\ parent_cid \in [Bid -> Cid \cup {kInvalidCid}]
  /\ child_cid \in [Bid -> SUBSET Cid]
  /\ finished_cid \in [Bid -> SUBSET Cid]
  /\ is_master \in BOOLEAN
  /\ slave_cid \in Cid \cup {kInvalidCid}
  /\ not_idle_count \in Nat
  /\ batch_finish_cid_list \in Seq(Cid)
  /\ phase \in Phases
  /\ idx \in Nat
  /\ todo \subseteq Cid
  /\ in_run \in BOOLEAN
  /\ created \in Nat

(* The master flag, the slave's id and the coroutine states tell the same
   story: one context runs, and it is the one CurrentCid() names. *)
SingleRunner ==
  /\ is_master <=> slave_cid = kInvalidCid
  /\ \A c \in Cid : state[c] = "run" <=> Running(c)

(* Run leaves its loop by not_idle_count_ alone, so it must count exactly
   the coroutines that are not idle. *)
NotIdleCount == not_idle_count = Cardinality(Cid \ Idle)

(* CoroutineInit does not reset relate_bid: a slot must be idle without one,
   or the next coroutine in it would answer to somebody else's batch. *)
CleanSlots == \A c \in Idle : relate_bid[c] = kInvalidBid

(* When a parent gets past the yield of BatchRun, every task of its batch
   has returned, and nothing alive but the parent refers to the batch slot
   that BatchRun is about to free. *)
BatchJoin ==
  \A c \in Cid, b \in Bid :
    /\ Running(c) /\ at[c] = "batchRun"
    /\ batch_state[b] = "run" /\ parent_cid[b] = c
    => /\ child_cid[b] = finished_cid[b]
       /\ \A n \in Cid : relate_bid[n] = b => n = c

(* The positions of the list that CoroutineResume4BatchFinish has not
   reached: before it runs, all of them. *)
Pending == IF phase = "finish" THEN idx .. Len(batch_finish_cid_list)
                               ELSE 1 .. Len(batch_finish_cid_list)

(* No wake-up of a parent is lost or given twice: a parent waiting in
   BatchRun is queued exactly once if all its tasks have returned, and not
   at all while one has not. *)
JoinQueued ==
  \A b \in Bid :
    batch_state[b] = "run" /\ state[parent_cid[b]] = "suspend" =>
      Cardinality({i \in Pending : batch_finish_cid_list[i] = parent_cid[b]})
        = IF BatchDone(b, finished_cid[b]) THEN 1 ELSE 0

(***************************************************************************)
(* The parts of the inductive invariant behind BatchJoin, JoinQueued,      *)
(* CleanSlots and AssertsHold.  They need programs that take none of the   *)
(* liberties nestedBatch, twoBatches and openBatch.                        *)
(***************************************************************************)
Unfinished(b) == child_cid[b] \ finished_cid[b]

(* Who refers to a batch is its parent or a task that has not returned. *)
Related ==
  \A c \in Cid : relate_bid[c] # kInvalidBid =>
    /\ state[c] # "idle"
    /\ batch_state[relate_bid[c]] # "idle"
    /\ IsChild(c) => c \in Unfinished(relate_bid[c])

(* A batch in use has a parent, and parent and unfinished tasks refer to it. *)
BatchMembers ==
  \A b \in Bid :
    /\ finished_cid[b] \subseteq child_cid[b]
    /\ batch_state[b] = "idle" => child_cid[b] = {}
    /\ batch_state[b] # "idle" =>
         /\ parent_cid[b] \in Cid /\ relate_bid[parent_cid[b]] = b
         /\ \A n \in Unfinished(b) : n # parent_cid[b] /\ relate_bid[n] = b

(* While tasks are added, the parent runs and the tasks have not started. *)
OpenBatch ==
  \A b \in Bid : batch_state[b] = "ready" =>
    /\ Running(parent_cid[b]) /\ at[parent_cid[b]] = "body"
    /\ finished_cid[b] = {}
    /\ \A n \in child_cid[b] : state[n] = "ready"

(* The parent of a running batch is inside BatchRun, asleep until the last
   task has returned; nobody else is inside BatchRun. *)
ParentInside ==
  /\ \A b \in Bid : batch_state[b] = "run" =>
       /\ at[parent_cid[b]] = "batchRun"
       /\ state[parent_cid[b]] \in {"suspend", "run"}
       /\ state[parent_cid[b]] = "run" => Unfinished(b) = {}
  /\ \A c \in Cid : at[c] = "batchRun" =>
       relate_bid[c] # kInvalidBid /\ parent_cid[relate_bid[c]] = c
       /\ batch_state[relate_bid[c]] = "run"

(* c sleeps in BatchRun although all its tasks have returned. *)
Joined(c) == /\ at[c] = "batchRun" /\ state[c] = "suspend"
             /\ Unfinished(relate_bid[c]) = {}

(* Those queued for CoroutineResume4BatchFinish are parents asleep in
   BatchRun whose tasks have all returned, each queued once. *)
QueuedParents ==
  /\ phase = "finish" => idx \in 1 .. Len(batch_finish_cid_list) + 1
  /\ \A i \in Pending : Joined(batch_finish_cid_list[i])
  /\ \A i, j \in Pending :
       batch_finish_cid_list[i] = batch_finish_cid_list[j] => i = j

(* And every such parent is queued, unless it ran an empty batch. *)
ParentsQueued ==
  \A c \in Cid : Joined(c) /\ child_cid[relate_bid[c]] # {} =>
    \E i \in Pending : batch_finish_cid_list[i] = c

(* What CoroutineResume4BatchStart has still to resume are fresh tasks. *)
FreshTasks ==
  phase = "start" => \A n \in todo : IsChild(n) /\ state[n] = "ready"

(* The state of the batches, as the scheduler keeps it. *)
BatchInv ==
  /\ Related /\ BatchMembers /\ OpenBatch /\ ParentInside
  /\ QueuedParents /\ ParentsQueued /\ FreshTasks

(* No assert of CoroutineResume, CoroutineRun and IsBatchDone fails: whatever
   the loops are about to resume may be resumed, and whatever runs may
   return. *)
AssertsHold ==
  /\ MainAt("scan") /\ idx < CoroutineCount /\ ScanResumes(idx) => ResumeAssert(idx)
  /\ MainAt("finish") /\ idx <= Len(batch_finish_cid_list)
       => ResumeAssert(batch_finish_cid_list[idx])
  /\ MainAt("start") => \A n \in todo : ResumeAssert(n)
  /\ \A c \in Cid : InBody(c) => ReturnAssert(c)

(* The constructor's sizing of the two pools is enough: a coroutine that may
   create a batch finds an idle one, and one that may add a task (the assert
   of BatchAdd) finds an idle coroutine. *)
PoolsSuffice ==
  \A c \in Cid :
    InBody(c) =>
      /\ MaxInBatch > 0 /\ relate_bid[c] = kInvalidBid
           => \E b \in Bid : batch_state[b] = "idle"
      /\ \A b \in OpenBatches(c) :
           Cardinality(child_cid[b]) < MaxInBatch => Idle # {}

(* Run returns: every coroutine it was given, and every one those created,
   has finished. *)
RunReturns == in_run ~> ~ in_run /\ Idle = Cid
=============================================================================
