------------------------------ MODULE CoRWLock ------------------------------
(***************************************************************************)
(* The coroutine read-write lock of src/Coroutine/sync/rwlock.cpp: one     *)
(* lock, used by every coroutine, under Run or under the program's own     *)
(* calls of CoRWLockResume.                                                *)
(***************************************************************************)
EXTENDS CoWait, SequencesExt

VARIABLES
  lock_state,         \* "unlock", "write" or "read"
  hold_write_cid,
  hold_read_cid_set,
  suspend_list        \* pairs of the lock type asked for and the waiter's id

rwVars == <<lock_state, hold_write_cid, hold_read_cid_set, suspend_list>>

RWLock == {"rwlock"}

HoldsLock(c) == hold_write_cid = c \/ c \in hold_read_cid_set

Queue(item) == IF Contains(suspend_list, item) THEN suspend_list
               ELSE Append(suspend_list, item)

(* Neither lock is reentrant, and who holds one does not ask for the other. *)
WrLock(c) ==
  /\ Enter(c, "wrlock") /\ ~ HoldsLock(c)
  /\ \/ /\ lock_state = "unlock"
        /\ lock_state' = "write" /\ hold_write_cid' = c
        /\ GoOn(c)
        /\ UNCHANGED suspend_list
     \/ /\ lock_state # "unlock"
        /\ suspend_list' = Queue(<<"write", c>>)
        /\ YieldIn(c, "wrlock")
        /\ UNCHANGED <<lock_state, hold_write_cid>>
  /\ UNCHANGED <<hold_read_cid_set, visitVars, restVars>>

(* Mutant: a writer that barged in stays in the list. *)
WrUnLockStaysQueued(c) ==
  /\ Brief(c)
  /\ lock_state = "write" /\ hold_write_cid = c /\ hold_read_cid_set = {}
  /\ lock_state' = "unlock" /\ hold_write_cid' = kInvalidCid
  /\ UNCHANGED <<hold_read_cid_set, suspend_list>>

WrUnLock(c) ==
  /\ Brief(c)
  /\ lock_state = "write" /\ hold_write_cid = c /\ hold_read_cid_set = {}
  /\ lock_state' = "unlock" /\ hold_write_cid' = kInvalidCid
  /\ suspend_list' = RemoveFirst(suspend_list, <<"write", c>>)
  /\ UNCHANGED hold_read_cid_set

(* A reader is let in whenever nobody writes, even past writers in the list. *)
RdLock(c) ==
  /\ Enter(c, "rdlock") /\ ~ HoldsLock(c)
  /\ \/ /\ lock_state # "write"
        /\ lock_state' = "read" /\ hold_read_cid_set' = hold_read_cid_set \cup {c}
        /\ GoOn(c)
        /\ UNCHANGED suspend_list
     \/ /\ lock_state = "write"
        /\ suspend_list' = Queue(<<"read", c>>)
        /\ YieldIn(c, "rdlock")
        /\ UNCHANGED <<lock_state, hold_read_cid_set>>
  /\ UNCHANGED <<hold_write_cid, visitVars, restVars>>

(* Mutant: the first reader to leave unlocks. *)
RdUnLockAtOnce(c) ==
  /\ Brief(c)
  /\ lock_state = "read" /\ c \in hold_read_cid_set
  /\ hold_read_cid_set' = hold_read_cid_set \ {c}
  /\ suspend_list' = RemoveFirst(suspend_list, <<"read", c>>)
  /\ lock_state' = "unlock"
  /\ UNCHANGED hold_write_cid

(* The last reader to leave unlocks. *)
RdUnLock(c) ==
  /\ Brief(c)
  /\ lock_state = "read" /\ c \in hold_read_cid_set
  /\ hold_read_cid_set' = hold_read_cid_set \ {c}
  /\ suspend_list' = RemoveFirst(suspend_list, <<"read", c>>)
  /\ lock_state' = IF hold_read_cid_set' = {} THEN "unlock" ELSE lock_state
  /\ UNCHANGED hold_write_cid

(* It unlocks before it returns and before it waits for a batch. *)
RWOther(c) ==
  /\ OtherStep(c)
  /\ state'[c] = "idle" \/ at'[c] = "batchRun" => ~ HoldsLock(c)
  /\ UNCHANGED rwVars
-----------------------------------------------------------------------------
(* CoRWLockResume's loop goes on: it starts on a lock that is free; once a
   reader has it, only readers at the head of the list are let in. *)
CanWake ==
  /\ suspend_list # <<>>
  /\ \/ lock_state = "unlock"
     \/ visiting = "rwlock" /\ lock_state = "read" /\ Head(suspend_list)[1] = "read"

RWResumeOne ==
  /\ MainAt("sync") /\ unvisited \cup {visiting} # {"none"} /\ CanWake
  /\ suspend_list' = Tail(suspend_list)
  /\ Wake(Head(suspend_list)[2])
  /\ unvisited' = {} /\ visiting' = "rwlock"
  /\ UNCHANGED <<cid_set, lock_state, hold_write_cid, hold_read_cid_set>>

RWVisited ==
  /\ Look /\ unvisited \cup {visiting} # {"none"} /\ ~ CanWake
  /\ unvisited' = {} /\ visiting' = "none"
  /\ UNCHANGED <<cid_set, rwVars>>
-----------------------------------------------------------------------------
RWInit ==
  /\ lock_state = "unlock" /\ hold_write_cid = kInvalidCid
  /\ hold_read_cid_set = {} /\ suspend_list = <<>>

RWThread ==
  \/ (OtherLoop \/ SyncEnd(RWLock)) /\ UNCHANGED rwVars
  \/ RWResumeOne \/ RWVisited
  \/ \E c \in Cid : WrLock(c) \/ WrUnLock(c) \/ RdLock(c) \/ RdUnLock(c) \/ RWOther(c)

RWCall == (OtherCall \/ ManualSync) /\ UNCHANGED rwVars

RWNext == RWThread \/ RWCall

RWSpec == WaitInit(RWLock) /\ RWInit /\ [][RWNext]_<<schedVars, waitVars, rwVars>>
-----------------------------------------------------------------------------
(***************************************************************************)
(* The state of the lock, as its five operations keep it.                  *)
(***************************************************************************)
(* The state tells who holds the lock: one writer, or some readers. *)
RWHolders ==
  /\ lock_state = "write" <=> hold_write_cid # kInvalidCid
  /\ lock_state = "read" <=> hold_read_cid_set # {}

(* The call that puts a type of lock into the list. *)
CallOf(type) == IF type = "write" THEN "wrlock" ELSE "rdlock"

(* Who is in the list waits for that type of lock, or barged in and holds it. *)
RWQueueEntries ==
  \A i \in 1 .. Len(suspend_list) :
    LET type == suspend_list[i][1]
        c    == suspend_list[i][2]
    IN  \/ wait_in[c] = CallOf(type)
        \/ type = "write" /\ hold_write_cid = c
        \/ type = "read" /\ c \in hold_read_cid_set

(* Who is inside a call of the lock does not hold it, has not returned, and
   is in the list if asleep. *)
RWWaiters ==
  \A c \in Cid, type \in {"write", "read"} : wait_in[c] = CallOf(type) =>
    /\ ~ HoldsLock(c)
    /\ at[c] = "body" /\ OpenBatches(c) = {} /\ state[c] \in {"run", "suspend"}
    /\ state[c] = "suspend" => Contains(suspend_list, <<type, c>>)

(* The list names nobody twice. *)
RWQueuedOnce ==
  \A i, j \in 1 .. Len(suspend_list) :
    suspend_list[i][2] = suspend_list[j][2] => i = j

RWInv == RWHolders /\ RWQueueEntries /\ RWWaiters /\ RWQueuedOnce

(* Whom CoRWLockResume takes off the list waits for the lock, and may be
   resumed: a waiter that Run's scan let in has left the list again. *)
RWListSound ==
  MainAt("sync") /\ unvisited \cup {visiting} # {"none"} /\ CanWake =>
    LET item == Head(suspend_list)
    IN  wait_in[item[2]] = CallOf(item[1]) /\ ResumeAssert(item[2])

(* What c waits for, seen from the lock. *)
LockWait == [c \in Cid |-> IF wait_in[c] \in {"wrlock", "rdlock"} THEN wait_in[c] ELSE "none"]

(* The lock of the abstract specification. *)
AbstractLock == INSTANCE AbstractRWLock WITH
  Clients <- Cid, Nobody <- kInvalidCid,
  writer <- hold_write_cid, readers <- hold_read_cid_set, waits <- LockWait

ImplementsRWLock == AbstractLock!Spec
=============================================================================
