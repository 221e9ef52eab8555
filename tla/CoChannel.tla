------------------------------ MODULE CoChannel ------------------------------
(***************************************************************************)
(* The counting semaphores of src/Coroutine/sync/semaphore.cpp and the     *)
(* channel of channel.h, which is built on two of them.                    *)
(***************************************************************************)
EXTENDS CoWait

CONSTANT ChannelSize   \* buffer_size; with the default, 0, nobody can send

ASSUME ChannelAssumption == ChannelSize \in Nat   \* the assert of CoSemaphoreInit

VARIABLES
  value, sem_waiters,   \* of the semaphores "idle" and "fill"
  buffer                \* who sent what is under way

channelVars == <<value, sem_waiters, buffer>>

Semaphores == {"idle", "fill"}

(* Mutant: the waiter's id stays in the set. *)
SemTakeStaysNoted(c, s) == value[s] > 0 /\ GoOn(c) /\ UNCHANGED sem_waiters

(* CoSemaphoreWait gets its unit; the caller accounts for it. *)
SemTake(c, s) ==
  /\ value[s] > 0
  /\ sem_waiters' = [sem_waiters EXCEPT ![s] = @ \ {c}]
  /\ GoOn(c)

SemSleep(c, s) ==
  /\ Enter(c, s) /\ value[s] <= 0
  /\ sem_waiters' = [sem_waiters EXCEPT ![s] = @ \cup {c}]
  /\ YieldIn(c, s)
  /\ UNCHANGED <<value, buffer, visitVars, restVars>>

(* Wait for idle, push, post fill. *)
Send(c) ==
  /\ Enter(c, "idle") /\ SemTake(c, "idle")
  /\ value' = [value EXCEPT !["idle"] = @ - 1, !["fill"] = @ + 1]
  /\ buffer' = Append(buffer, c)
  /\ UNCHANGED <<visitVars, restVars>>

(* Mutants: idle is not posted; the last one is popped. *)
ReceiveUnposted(c) ==
  /\ Enter(c, "fill") /\ SemTake(c, "fill")
  /\ value' = [value EXCEPT !["fill"] = @ - 1]
  /\ buffer' = Tail(buffer)
  /\ UNCHANGED <<visitVars, restVars>>

ReceiveLast(c) ==
  /\ Enter(c, "fill") /\ SemTake(c, "fill")
  /\ value' = [value EXCEPT !["fill"] = @ - 1, !["idle"] = @ + 1]
  /\ buffer' = SubSeq(buffer, 1, Len(buffer) - 1)
  /\ UNCHANGED <<visitVars, restVars>>

(* Wait for fill, pop, post idle. *)
Receive(c) ==
  /\ Enter(c, "fill") /\ SemTake(c, "fill")
  /\ value' = [value EXCEPT !["fill"] = @ - 1, !["idle"] = @ + 1]
  /\ buffer' = Tail(buffer)
  /\ UNCHANGED <<visitVars, restVars>>

ChannelOther(c) == OtherStep(c) /\ UNCHANGED channelVars
-----------------------------------------------------------------------------
(* CoSemaphoreResume passes over a semaphore without a unit. *)
SemSkip(s) ==
  /\ Look /\ visiting = "none" /\ s \in unvisited
  /\ value[s] = 0
  /\ unvisited' = unvisited \ {s}
  /\ UNCHANGED <<visiting, cid_set, channelVars>>

SemVisit(s) ==
  /\ Look /\ visiting = "none" /\ s \in unvisited
  /\ value[s] > 0
  /\ unvisited' = unvisited \ {s} /\ visiting' = s /\ cid_set' = sem_waiters[s]
  /\ UNCHANGED channelVars

(* It resumes the copied waiters while there are units. *)
SemResume(s) ==
  /\ visiting = s /\ value[s] > 0
  /\ \E c \in cid_set : Wake(c) /\ cid_set' = cid_set \ {c}
  /\ UNCHANGED <<unvisited, visiting, channelVars>>

SemVisited(s) ==
  /\ Look /\ visiting = s
  /\ cid_set = {} \/ value[s] <= 0
  /\ visiting' = "none" /\ cid_set' = {}
  /\ UNCHANGED <<unvisited, channelVars>>
-----------------------------------------------------------------------------
ChannelInit ==
  /\ value = [s \in Semaphores |-> IF s = "idle" THEN ChannelSize ELSE 0]
  /\ sem_waiters = [s \in Semaphores |-> {}]
  /\ buffer = <<>>

ChannelThread ==
  \/ (OtherLoop \/ SyncEnd(Semaphores)) /\ UNCHANGED channelVars
  \/ \E s \in Semaphores : SemSkip(s) \/ SemVisit(s) \/ SemResume(s) \/ SemVisited(s)
  \/ \E c \in Cid : Send(c) \/ Receive(c) \/ ChannelOther(c)
                    \/ \E s \in Semaphores : SemSleep(c, s)

ChannelCall == (OtherCall \/ ManualSync) /\ UNCHANGED channelVars

ChannelNext == ChannelThread \/ ChannelCall

ChannelSpec == WaitInit(Semaphores) /\ ChannelInit
               /\ [][ChannelNext]_<<schedVars, waitVars, channelVars>>
-----------------------------------------------------------------------------
(* The units of the two semaphores are the free and the filled places of
   the buffer; the assert of CoSemaphoreResume follows. *)
SlotsConserved ==
  /\ value["fill"] = Len(buffer)
  /\ value["idle"] = ChannelSize - Len(buffer)
  /\ Len(buffer) <= ChannelSize

(* The ids noted in a semaphore are those of the coroutines asleep in its
   wait, and the copy names no other: none is forgotten, and those of the
   copy that have had their turn are not resumed again. *)
SemWaitersKept ==
  is_master =>
    /\ \A s \in Semaphores : sem_waiters[s] = {c \in Cid : Asleep(c, s)}
    /\ visiting \in Semaphores => cid_set \subseteq sem_waiters[visiting]

Fifo == INSTANCE BoundedFifo WITH Data <- Cid, Size <- ChannelSize, queue <- buffer

(* The two semaphores make a bounded queue of the list. *)
ImplementsFifo == Fifo!Spec

(* c waits for a unit that is not there. *)
SemBlocked(c) == \E s \in Semaphores : Asleep(c, s) /\ value[s] = 0
=============================================================================
