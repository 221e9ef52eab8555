------------------------------- MODULE CoCond -------------------------------
(***************************************************************************)
(* The coroutine condition variable of                                     *)
(* src/Coroutine/sync/conditionvariable.cpp.  The predicate that the       *)
(* bodies wait for is that there is an item: who gets past the wait takes  *)
(* one, and who adds one notifies.                                         *)
(***************************************************************************)
EXTENDS CoWait

CONSTANT
  CondUsage   \* liberties: "surplus", NotifyOne while a notification is
              \* pending; "nested", notifying from inside CoCondResume

VARIABLES
  cond_state,       \* "none", "one" or "all"
  notify_count,
  suspend_cid_set,
  items             \* what the predicate is about

condVars == <<cond_state, notify_count, suspend_cid_set, items>>

Cond == {"cond"}

(* Mutant: the waiter does not note its id again. *)
CondWaitOnce(c) ==
  /\ Enter(c, "cond")
  /\ \/ /\ items > 0 /\ items' = items - 1
        /\ suspend_cid_set' = suspend_cid_set \ {c}
        /\ GoOn(c)
     \/ /\ items = 0
        /\ suspend_cid_set' = IF wait_in[c] = "cond" THEN suspend_cid_set
                              ELSE suspend_cid_set \cup {c}
        /\ YieldIn(c, "cond")
        /\ UNCHANGED items
  /\ UNCHANGED <<cond_state, notify_count, visitVars, restVars>>

(* CoCondWait, and what the body does before it can be interrupted again. *)
CondWait(c) ==
  /\ Enter(c, "cond")
  /\ \/ /\ items > 0 /\ items' = items - 1
        /\ suspend_cid_set' = suspend_cid_set \ {c}
        /\ GoOn(c)
     \/ /\ items = 0
        /\ suspend_cid_set' = suspend_cid_set \cup {c}
        /\ YieldIn(c, "cond")
        /\ UNCHANGED items
  /\ UNCHANGED <<cond_state, notify_count, visitVars, restVars>>

(* The body adds an item and notifies. *)
AddItem(c) ==
  /\ Call(c)
  /\ "nested" \in CondUsage \/ visiting = "none"
  /\ items' = items + 1
  /\ UNCHANGED <<suspend_cid_set, waitVars, state, switchVars, restVars>>

NotifyOne(c) ==
  /\ AddItem(c)
  /\ "surplus" \in CondUsage \/ cond_state = "none"
  /\ cond_state' = IF cond_state = "none" THEN "one" ELSE cond_state
  /\ notify_count' = CASE cond_state = "none" -> 1
                       [] cond_state = "one"  -> notify_count + 1
                       [] cond_state = "all"  -> notify_count

(* Mutant: all that is pending is one notification. *)
NotifyAllWakesOne(c) ==
  /\ AddItem(c)
  /\ cond_state' = "one" /\ notify_count' = 1

NotifyAll(c) ==
  /\ AddItem(c)
  /\ cond_state' = "all" /\ notify_count' = 0

CondOther(c) == OtherStep(c) /\ UNCHANGED condVars
-----------------------------------------------------------------------------
(* CoCondResume passes over a condition variable nobody has notified, or
   nobody waits for; a notification stays pending. *)
CondSkip ==
  /\ Look /\ unvisited = Cond
  /\ cond_state = "none" \/ suspend_cid_set = {}
  /\ unvisited' = {}
  /\ UNCHANGED <<visiting, cid_set, condVars>>

(* It enters the loop over notify_count, or the loop over the copy. *)
CondVisit ==
  /\ Look /\ unvisited = Cond
  /\ cond_state # "none" /\ suspend_cid_set # {}
  /\ unvisited' = {} /\ visiting' = cond_state
  /\ IF cond_state = "all"
     THEN cid_set' = suspend_cid_set /\ suspend_cid_set' = {}
     ELSE UNCHANGED <<cid_set, suspend_cid_set>>
  /\ UNCHANGED <<cond_state, notify_count, items>>

(* begin() of the set, in whatever order; of an empty one it is undefined. *)
CondResumeOne ==
  /\ visiting = "one" /\ notify_count # 0
  /\ notify_count' = notify_count - 1
  /\ \E c \in suspend_cid_set :
       Wake(c) /\ suspend_cid_set' = suspend_cid_set \ {c}
  /\ UNCHANGED <<visitVars, cond_state, items>>

CondResumeAll ==
  /\ visiting = "all"
  /\ \E c \in cid_set : Wake(c) /\ cid_set' = cid_set \ {c}
  /\ UNCHANGED <<unvisited, visiting, condVars>>

(* Whatever was notified meanwhile, the state is reset; the test that ends
   the first loop has decremented the count once more. *)
CondVisited ==
  /\ Look
  /\ \/ visiting = "one" /\ notify_count = 0 /\ notify_count' = -1
     \/ visiting = "all" /\ cid_set = {} /\ UNCHANGED notify_count
  /\ cond_state' = "none" /\ visiting' = "none"
  /\ UNCHANGED <<unvisited, cid_set, suspend_cid_set, items>>
-----------------------------------------------------------------------------
CondInit == cond_state = "none" /\ notify_count = 0 /\ suspend_cid_set = {} /\ items = 0

CondThread ==
  \/ (OtherLoop \/ SyncEnd(Cond)) /\ UNCHANGED condVars
  \/ CondSkip \/ CondVisit \/ CondResumeOne \/ CondResumeAll \/ CondVisited
  \/ \E c \in Cid : CondWait(c) \/ NotifyOne(c) \/ NotifyAll(c) \/ CondOther(c)

CondCall == (OtherCall \/ ManualSync) /\ UNCHANGED condVars

CondNext == CondThread \/ CondCall

CondSpec == WaitInit(Cond) /\ CondInit /\ [][CondNext]_<<schedVars, waitVars, condVars>>
-----------------------------------------------------------------------------
(* The ids noted, in the set or in the copy, are those of the coroutines
   asleep in CoCondWait: none is forgotten, and resuming them is legal. *)
CondWaitersKept ==
  is_master =>
    suspend_cid_set \cup (IF visiting = "all" THEN cid_set ELSE {})
      = {c \in Cid : Asleep(c, "cond")}

(* A program that does not notify from inside CoCondResume loses no
   notification: while there is an item, nobody sleeps unless a
   notification is pending.  One that does may lose it, as the end of the
   loop overwrites the state (conditionvariable.cpp:66). *)
NotificationKept ==
  items > 0 /\ visiting = "none" /\ cond_state = "none" =>
    \A c \in Cid : ~ Asleep(c, "cond")

(* Each notification wakes one coroutine out of the set of those that wait
   (conditionvariable.cpp:53): there is one. *)
NotifiedWaits ==
  MainAt("sync") /\ visiting = "one" /\ notify_count # 0 => suspend_cid_set # {}

(* c waits for an item that is not there. *)
CondBlocked(c) == Asleep(c, "cond") /\ items = 0
=============================================================================
