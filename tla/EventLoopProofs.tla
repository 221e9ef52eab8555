--------------------------- MODULE EventLoopProofs ---------------------------
(***************************************************************************)
(* Lemmas about module EventLoop, for any number of timers: what each      *)
(* operation of Timer does to the timers that are armed, and that every    *)
(* step of the loop keeps the accounts and sleeps no longer than it may.   *)
(* The proofs about the two programs that use the loop rest on them.       *)
(***************************************************************************)
EXTENDS EventLoop, FiniteSetTheorems, TLAPS

Lefts == {n \in Int : n >= -MaxLate}

(* The timers that are bound to one of the handlers H. *)
TimerSet(H) == [id : Tid, left : Lefts, handler : H]

TimerStates(H) == [timers : SUBSET TimerSet(H), timer_ids : SUBSET Tid, cancel_ids : SUBSET Tid]

(* All timers there are when Timer is t and Run has taken d off its heap, and
   those of them that are armed: not cancelled, so that they are to fire. *)
AllOf(t, d)   == t.timers \cup ({d} \ {NoTimer})
ArmedOf(t, d) == {s \in AllOf(t, d) : s.id \notin t.cancel_ids}

(* The accounts of Timer. *)
TimersOK(t, d, H) ==
  /\ t \in TimerStates(H)
  /\ d \in TimerSet(H) \cup {NoTimer}
  /\ d \notin t.timers
  /\ t.timer_ids = {s.id : s \in AllOf(t, d)}
  /\ t.cancel_ids \subseteq t.timer_ids
  /\ \A r, s \in AllOf(t, d) : r.id = s.id => r = s
-----------------------------------------------------------------------------
(* The code's counter always has an id that is not in use; here the least. *)
LEMMA LeastId ==
  ASSUME NEW S \in SUBSET Nat, S # {}
  PROVE  \E i \in S : \A j \in S : i <= j
  <1>1. PICK i \in S : \A j \in S : ~ (<<j, i>> \in OpToRel(<, Nat))
    BY NatLessThanWellFounded, WFMin
  <1>2. \A j \in S : ~ (j < i)
    BY <1>1 DEF OpToRel
  <1>3. QED
    BY <1>2

LEMMA NewIdIsFree ==
  ASSUME NEW t, FreeIds(t) # {}
  PROVE  NewId(t) \in Tid /\ NewId(t) \notin t.timer_ids
  <1>1. FreeIds(t) \in SUBSET Nat
    BY EventLoopAssumption DEF FreeIds, Tid
  <1>2. \E i \in FreeIds(t) : \A j \in FreeIds(t) : i <= j
    BY <1>1, LeastId
  <1>3. NewId(t) \in FreeIds(t)
    BY <1>2 DEF NewId
  <1>4. QED
    BY <1>3 DEF FreeIds

LEMMA NoTimerIsNone == ASSUME NEW H PROVE NoTimer \notin TimerSet(H)
  BY EventLoopAssumption DEF NoTimer, TimerSet, Tid

(* Register arms one more timer. *)
LEMMA RegisterArms ==
  ASSUME NEW H, NEW t, NEW d, NEW left \in Nat, NEW handler \in H,
         TimersOK(t, d, H), FreeIds(t) # {}
  PROVE  LET new == [id |-> NewId(t), left |-> left, handler |-> handler]
         IN  /\ TimersOK(Register(t, left, handler), d, H)
             /\ ArmedOf(Register(t, left, handler), d) = ArmedOf(t, d) \cup {new}
             /\ \A s \in AllOf(t, d) : s.id # NewId(t)
  <1> DEFINE new == [id |-> NewId(t), left |-> left, handler |-> handler]
             u   == Register(t, left, handler)
  <1>1. NewId(t) \in Tid /\ NewId(t) \notin t.timer_ids
    BY NewIdIsFree
  <1>2. new \in TimerSet(H) /\ new.id = NewId(t) /\ new # NoTimer
    <2>1. left \in Lefts
      BY EventLoopAssumption DEF Lefts
    <2>2. QED
      BY <1>1, <2>1, EventLoopAssumption DEF TimerSet, NoTimer, Tid
  <1>3. /\ u \in TimerStates(H)
        /\ u.timers = t.timers \cup {new}
        /\ u.timer_ids = t.timer_ids \cup {NewId(t)}
        /\ u.cancel_ids = t.cancel_ids
    BY <1>1, <1>2 DEF TimersOK, TimerStates, Register
  <1> HIDE DEF new, u
  <1>4. AllOf(u, d) = AllOf(t, d) \cup {new}
    BY <1>3 DEF AllOf
  <1>5. \A s \in AllOf(t, d) : s.id # NewId(t)
    BY <1>1 DEF TimersOK
  <1>6. new # d
    BY <1>2, <1>5 DEF AllOf
  <1>7. u.timer_ids = {s.id : s \in AllOf(u, d)}
    BY <1>2, <1>3, <1>4 DEF TimersOK
  <1>8. \A r, s \in AllOf(u, d) : r.id = s.id => r = s
    BY <1>2, <1>4, <1>5 DEF TimersOK
  <1>9. TimersOK(u, d, H)
    BY <1>3, <1>6, <1>7, <1>8 DEF TimersOK
  <1>10. ArmedOf(u, d) = ArmedOf(t, d) \cup {new}
    BY <1>1, <1>2, <1>3, <1>4 DEF ArmedOf, TimersOK
  <1>11. QED
    BY <1>5, <1>9, <1>10 DEF new, u

(* Cancel disarms the timer it is given, in the heap or out of it, and only
   that one, however many cancelled timers the heap holds. *)
LEMMA CancelDisarms ==
  ASSUME NEW H, NEW t, NEW d, NEW id, NoHandler \in H,
         TimersOK(t, d, H), id \in t.timer_ids, id \notin t.cancel_ids
  PROVE  /\ TimersOK(Cancel(t, id), d, H)
         /\ ArmedOf(Cancel(t, id), d) = {s \in ArmedOf(t, d) : s.id # id}
  <1> DEFINE u    == Cancel(t, id)
             data == {s \in t.timers : s.id = id}
             mute == {[s EXCEPT !.handler = NoHandler] : s \in data}
  <1>1. CASE data # {} /\ Cardinality(Lazy(t)) >= MaxLazy
    <2>1. /\ u \in TimerStates(H)
          /\ u.timers = t.timers \ data
          /\ u.timer_ids = t.timer_ids \ {id}
          /\ u.cancel_ids = t.cancel_ids
      BY <1>1 DEF TimersOK, TimerStates, Cancel
    <2>2. d # NoTimer => d.id # id
      BY <1>1 DEF TimersOK, AllOf
    <2> HIDE DEF u
    <2>3. AllOf(u, d) = {s \in AllOf(t, d) : s.id # id}
      BY <2>1, <2>2 DEF AllOf
    <2>4. u.timer_ids = {s.id : s \in AllOf(u, d)}
      BY <2>1, <2>3 DEF TimersOK
    <2>5. TimersOK(u, d, H)
      BY <2>1, <2>3, <2>4 DEF TimersOK
    <2>6. QED
      BY <2>1, <2>3, <2>5 DEF ArmedOf, u
  <1>2. CASE ~ (data # {} /\ Cardinality(Lazy(t)) >= MaxLazy)
    <2>1. \A s \in data : [s EXCEPT !.handler = NoHandler] \in TimerSet(H)
      BY DEF TimersOK, TimerStates, TimerSet
    <2>2. \A s \in data : [s EXCEPT !.handler = NoHandler].id = id
      BY DEF TimersOK, TimerStates, TimerSet
    <2>3. mute \subseteq TimerSet(H) /\ \A s \in mute : s.id = id
      BY <2>1, <2>2
    <2>4. id \in Tid
      BY DEF TimersOK, TimerStates
    <2>5. /\ u \in TimerStates(H)
          /\ u.timers = (t.timers \ data) \cup mute
          /\ u.timer_ids = t.timer_ids
          /\ u.cancel_ids = t.cancel_ids \cup {id}
      BY <1>2, <2>3, <2>4 DEF TimersOK, TimerStates, Cancel
    <2>6. mute = {} <=> data = {}
      OBVIOUS
    <2>7. \A r, s \in mute : r = s
      BY DEF TimersOK, AllOf
    <2>8. data # {} => d = NoTimer \/ d.id # id
      BY DEF TimersOK, AllOf
    <2>9. NoTimer \notin mute
      BY <2>3, NoTimerIsNone
    <2> HIDE DEF u, mute
    <2>10. AllOf(u, d) = {s \in AllOf(t, d) : s.id # id} \cup mute
                           \cup {s \in {d} : d # NoTimer /\ d.id = id}
      BY <2>5 DEF AllOf
    <2>11. \A r, s \in AllOf(u, d) : r.id = s.id => r = s
      BY <2>3, <2>6, <2>7, <2>8, <2>10 DEF TimersOK, AllOf
    <2>12. \E s \in AllOf(u, d) : s.id = id
      <3>1. PICK s \in AllOf(t, d) : s.id = id
        BY DEF TimersOK
      <3>2. CASE s \in t.timers
        BY <2>3, <2>6, <2>10, <3>1, <3>2
      <3>3. CASE s \notin t.timers
        BY <2>10, <3>1, <3>3 DEF AllOf
      <3>4. QED
        BY <3>2, <3>3
    <2>13. \A i : (\E s \in AllOf(u, d) : s.id = i) <=> \E s \in AllOf(t, d) : s.id = i
      <3>1. TAKE i
      <3>2. CASE i = id
        BY <2>12, <3>2 DEF TimersOK
      <3>3. CASE i # id
        BY <2>3, <2>10, <3>3
      <3>4. QED
        BY <3>2, <3>3
    <2>14. u.timer_ids = {s.id : s \in AllOf(u, d)}
      BY <2>5, <2>13 DEF TimersOK
    <2>15. d \notin u.timers
      BY <2>3, <2>5, <2>6, <2>8, <2>9 DEF TimersOK
    <2>16. TimersOK(u, d, H)
      BY <2>5, <2>11, <2>14, <2>15 DEF TimersOK
    <2>17. ArmedOf(u, d) = {s \in ArmedOf(t, d) : s.id # id}
      BY <2>3, <2>5, <2>10 DEF ArmedOf
    <2>18. QED
      BY <2>16, <2>17 DEF u
  <1>3. QED
    BY <1>1, <1>2

(* A timer on its way from the heap to Run's local copy, or back, stays. *)
LEMMA PopKeeps ==
  ASSUME NEW H, NEW t, NEW data \in t.timers, TimersOK(t, NoTimer, H)
  PROVE  /\ TimersOK(Pop(t, data), data, H)
         /\ ArmedOf(Pop(t, data), data) = ArmedOf(t, NoTimer)
  <1> DEFINE u == Pop(t, data)
  <1>1. data \in TimerSet(H) /\ data # NoTimer
    BY DEF TimersOK, TimerStates
  <1>2. /\ u \in TimerStates(H) /\ u.timers = t.timers \ {data}
        /\ u.timer_ids = t.timer_ids /\ u.cancel_ids = t.cancel_ids
    BY DEF TimersOK, TimerStates, Pop
  <1> HIDE DEF u
  <1>3. AllOf(u, data) = AllOf(t, NoTimer)
    BY <1>1, <1>2 DEF AllOf
  <1>4. QED
    BY <1>1, <1>2, <1>3 DEF TimersOK, ArmedOf, u

LEMMA PushKeeps ==
  ASSUME NEW H, NEW t, NEW data, data # NoTimer, TimersOK(t, data, H)
  PROVE  /\ TimersOK(Push(t, data), NoTimer, H)
         /\ ArmedOf(Push(t, data), NoTimer) = ArmedOf(t, data)
  <1> DEFINE u == Push(t, data)
  <1>1. /\ u \in TimerStates(H) /\ u.timers = t.timers \cup {data}
        /\ u.timer_ids = t.timer_ids /\ u.cancel_ids = t.cancel_ids
    BY DEF TimersOK, TimerStates, Push
  <1> HIDE DEF u
  <1>2. AllOf(u, NoTimer) = AllOf(t, data)
    BY <1>1, NoTimerIsNone DEF AllOf, TimersOK, TimerStates
  <1>3. NoTimer \notin u.timers
    BY <1>1, NoTimerIsNone DEF TimerStates
  <1>4. QED
    BY <1>1, <1>2, <1>3 DEF TimersOK, ArmedOf, u

(* Erase ends the timer that Run has taken: it was armed and fires, or it was
   cancelled while Run had it. *)
LEMMA EraseEnds ==
  ASSUME NEW H, NEW t, NEW data, data # NoTimer, TimersOK(t, data, H)
  PROVE  /\ TimersOK(Erase(t, data.id), NoTimer, H)
         /\ ArmedOf(Erase(t, data.id), NoTimer) = ArmedOf(t, data) \ {data}
  <1> DEFINE u == Erase(t, data.id)
  <1>1. /\ u \in TimerStates(H) /\ u.timers = t.timers
        /\ u.timer_ids = t.timer_ids \ {data.id} /\ u.cancel_ids = t.cancel_ids \ {data.id}
    BY DEF TimersOK, TimerStates, Erase
  <1> HIDE DEF u
  <1>2. AllOf(u, NoTimer) = AllOf(t, data) \ {data}
    BY <1>1, NoTimerIsNone DEF AllOf, TimersOK, TimerStates
  <1>3. \A s \in AllOf(u, NoTimer) : s.id # data.id
    BY <1>2 DEF TimersOK, AllOf
  <1>4. NoTimer \notin u.timers
    BY <1>1, NoTimerIsNone DEF TimerStates
  <1>5. u.timer_ids = {s.id : s \in AllOf(u, NoTimer)}
    BY <1>1, <1>2, <1>3 DEF TimersOK
  <1>6. TimersOK(u, NoTimer, H)
    BY <1>1, <1>2, <1>4, <1>5 DEF TimersOK
  <1>7. ArmedOf(u, NoTimer) = ArmedOf(t, data) \ {data}
    BY <1>1, <1>2, <1>3 DEF ArmedOf
  <1>8. QED
    BY <1>6, <1>7 DEF u

(* A cancelled timer is dropped from the heap. *)
LEMMA DropKeeps ==
  ASSUME NEW H, NEW t, NEW data \in t.timers, TimersOK(t, NoTimer, H), data.id \in t.cancel_ids
  PROVE  /\ TimersOK(Erase(Pop(t, data), data.id), NoTimer, H)
         /\ ArmedOf(Erase(Pop(t, data), data.id), NoTimer) = ArmedOf(t, NoTimer)
  <1>1. /\ TimersOK(Pop(t, data), data, H)
        /\ ArmedOf(Pop(t, data), data) = ArmedOf(t, NoTimer)
    BY PopKeeps
  <1>2. data # NoTimer
    BY NoTimerIsNone DEF TimersOK, TimerStates
  <1>3. data \notin ArmedOf(t, NoTimer)
    BY DEF ArmedOf
  <1>4. QED
    BY <1>1, <1>2, <1>3, EraseEnds

(* While time passes every timer stays what it is, a tick nearer. *)
LEMMA LaterKeeps ==
  ASSUME NEW H, NEW t, NEW d, TimersOK(t, d, H), \A s \in AllOf(t, d) : s.left > -MaxLate
  PROVE  LET u == [t EXCEPT !.timers = {Later(s) : s \in @}]
             e == IF d = NoTimer THEN NoTimer ELSE Later(d)
         IN  /\ TimersOK(u, e, H)
             /\ ArmedOf(u, e) = {Later(s) : s \in ArmedOf(t, d)}
  <1> DEFINE u == [t EXCEPT !.timers = {Later(s) : s \in @}]
             e == IF d = NoTimer THEN NoTimer ELSE Later(d)
  <1>1. \A s \in AllOf(t, d) : s \in TimerSet(H)
    BY DEF TimersOK, TimerStates, AllOf
  <1>2. \A s \in AllOf(t, d) :
          /\ Later(s) \in TimerSet(H) /\ Later(s).id = s.id
          /\ Later(s).left = s.left - 1 /\ Later(s).handler = s.handler
    BY <1>1, EventLoopAssumption DEF Later, TimerSet, Lefts
  <1>3. {Later(s) : s \in t.timers} \subseteq TimerSet(H)
    BY <1>2 DEF AllOf
  <1>4. /\ u \in TimerStates(H) /\ u.timers = {Later(s) : s \in t.timers}
        /\ u.timer_ids = t.timer_ids /\ u.cancel_ids = t.cancel_ids
    BY <1>3 DEF TimersOK, TimerStates
  <1>5. \A r, s \in AllOf(t, d) : Later(r).id = Later(s).id => r = s
    BY <1>2 DEF TimersOK
  <1>6. /\ e \in TimerSet(H) \cup {NoTimer}
        /\ e = NoTimer <=> d = NoTimer
    BY <1>2, NoTimerIsNone DEF AllOf, TimersOK
  <1> HIDE DEF u
  <1>7. e \notin u.timers
    <2>1. CASE d = NoTimer
      BY <1>3, <1>4, <2>1, NoTimerIsNone
    <2>2. CASE d # NoTimer
      BY <1>4, <1>5, <2>2 DEF AllOf, TimersOK
    <2>3. QED
      BY <2>1, <2>2
  <1>8. AllOf(u, e) = {Later(s) : s \in AllOf(t, d)}
    BY <1>4, <1>6 DEF AllOf
  <1> HIDE DEF e
  <1>9. \A r, s \in AllOf(u, e) : r.id = s.id => r = s
    BY <1>5, <1>8
  <1>10. u.timer_ids = {s.id : s \in AllOf(u, e)}
    BY <1>2, <1>4, <1>8 DEF TimersOK
  <1>11. TimersOK(u, e, H)
    BY <1>4, <1>6, <1>7, <1>9, <1>10 DEF TimersOK
  <1>12. ArmedOf(u, e) = {Later(s) : s \in ArmedOf(t, d)}
    BY <1>2, <1>4, <1>8 DEF ArmedOf
  <1>13. QED
    BY <1>11, <1>12 DEF u, e
-----------------------------------------------------------------------------
(***************************************************************************)
(* EventLoop::Run.                                                         *)
(***************************************************************************)
(* The accounts, and where Run may be while it has a timer or events. *)
LoopInv(H) ==
  /\ TimersOK(timer, timer_data, H)
  /\ time_out_ms \in Int /\ loop \in Loops /\ is_running \in BOOLEAN
  /\ timer_data # NoTimer => loop \in {"wait", "events", "end"}
  /\ fired # {} => loop = "events"
  /\ SleepsInTime

LEMMA LiveIsArmed ==
  /\ Live = ArmedOf(timer, timer_data) /\ Live' = ArmedOf(timer, timer_data)'
  /\ Heap \cup Popped = AllOf(timer, timer_data)
  BY DEF Live, Heap, Popped, AllOf, ArmedOf

(* The ids of the timers in the heap are as many as the timers. *)
LEMMA AccountsFollow == ASSUME NEW H, TimersOK(timer, timer_data, H) PROVE TimerAccounts
  <1> DEFINE f == [s \in Heap |-> s.id]
  <1>1. f \in Injection(Heap, Tid)
    BY DEF TimersOK, TimerStates, TimerSet, Heap, AllOf, Injection, IsInjective
  <1>2. IsFiniteSet(Tid)
    <2>1. 1 \in Int /\ MaxTimers \in Int
      BY EventLoopAssumption
    <2>2. QED
      BY <2>1, FS_Interval DEF Tid
  <1>3. IsFiniteSet(Heap)
    BY <1>1, <1>2, FS_Injection
  <1>4. IsFiniteSet(Popped)
    <2>1. IsFiniteSet({timer_data})
      BY FS_Singleton
    <2>2. QED
      BY <2>1, FS_Difference DEF Popped
  <1>5. Heap \cap Popped = {}
    BY DEF TimersOK, Heap, Popped
  <1>6. Cardinality(Heap \cup Popped) = Cardinality(Heap) + Cardinality(Popped)
    <2>1. Cardinality(Heap \cup Popped)
            = Cardinality(Heap) + Cardinality(Popped) - Cardinality({})
      BY <1>3, <1>4, <1>5, FS_Union
    <2>2. Cardinality(Heap) \in Nat /\ Cardinality(Popped) \in Nat
      BY <1>3, <1>4, FS_CardinalityType
    <2>3. QED
      BY <2>1, <2>2, FS_EmptySet
  <1>7. QED
    BY <1>6, LiveIsArmed DEF TimersOK, TimerAccounts

LEMMA LoopInitInv ==
  ASSUME NEW H, NEW timers \in SUBSET TimerSet(H), NEW events, LoopInit(timers, events),
         \A r, s \in timers : r.id = s.id => r = s
  PROVE  LoopInv(H) /\ Live = timers
  <1>1. /\ timer \in TimerStates(H) /\ timer.timers = timers
        /\ timer.timer_ids = {s.id : s \in timers} /\ timer.cancel_ids = {}
    BY DEF LoopInit, TimerStates, TimerSet
  <1>2. AllOf(timer, timer_data) = timers
    BY <1>1 DEF LoopInit, AllOf
  <1>3. TimersOK(timer, timer_data, H)
    BY <1>1, <1>2, NoTimerIsNone DEF LoopInit, TimersOK
  <1>4. Live = timers
    BY <1>1, <1>2, LiveIsArmed DEF ArmedOf
  <1>5. QED
    BY <1>3, <1>4 DEF LoopInit, LoopInv, Loops, SleepsInTime

(* Run does not lose a timer, nor arms one; and having waited for the
   earliest it has waited for all. *)
LEMMA LoopStepKeeps ==
  ASSUME NEW H, LoopInv(H), LoopStep \/ WaitEvents
  PROVE  LoopInv(H)' /\ Live' = Live
  <1> USE DEF LoopInv, Loops
  <1>1. CASE DropCancelled
    <2>1. PICK data \in Heap :
            data.id \in timer.cancel_ids /\ timer' = Erase(Pop(timer, data), data.id)
      BY <1>1 DEF DropCancelled
    <2>2. timer_data = NoTimer /\ loop' = "top"
      BY <1>1 DEF DropCancelled
    <2>3. /\ TimersOK(timer, NoTimer, H)
          /\ UNCHANGED <<timer_data, time_out_ms, fired, is_running>>
      BY <1>1, <2>2 DEF DropCancelled
    <2>4. TimersOK(timer', NoTimer, H) /\ ArmedOf(timer', NoTimer) = ArmedOf(timer, NoTimer)
      BY <2>1, <2>3, DropKeeps DEF Heap
    <2>5. SleepsInTime'
      BY <2>2 DEF SleepsInTime
    <2>6. QED
      BY <2>2, <2>3, <2>4, <2>5, LiveIsArmed, <1>1 DEF DropCancelled
  <1>2. CASE TakeTimer
    <2>1. /\ timer_data = NoTimer /\ loop' = "wait" /\ fired = {}
          /\ UNCHANGED <<fired, is_running>>
      BY <1>2 DEF TakeTimer
    <2>2. PICK data \in Last :
            /\ data.id \notin timer.cancel_ids
            /\ timer' = Pop(timer, data) /\ timer_data' = data
            /\ time_out_ms' = IF data = NoTimer THEN time_out_ms ELSE TimeOutMs(data)
      BY <1>2 DEF TakeTimer
    <2>3. TimersOK(timer, NoTimer, H) /\ Live = ArmedOf(timer, NoTimer)
      BY <2>1, LiveIsArmed
    <2>4. CASE Heap = {}
      <3>1. data = NoTimer
        BY <2>2, <2>4 DEF Last
      <3>2. timer' = timer
        BY <2>2, <2>4 DEF Pop, Heap, TimersOK, TimerStates
      <3>3. Live = {} /\ Live' = Live
        BY <2>1, <2>2, <2>4, <3>1, <3>2, LiveIsArmed DEF AllOf, ArmedOf, Heap
      <3>4. QED
        BY <2>1, <2>2, <3>1, <3>2, <3>3 DEF SleepsInTime
    <2>5. CASE Heap # {}
      <3>1. data \in timer.timers /\ \A s \in Heap : data.left <= s.left
        BY <2>2, <2>5 DEF Last, IsTop, Heap
      <3>2. TimersOK(timer', data, H) /\ ArmedOf(timer', data) = ArmedOf(timer, NoTimer)
        BY <2>2, <2>3, <3>1, PopKeeps
      <3>3. Live' = Live
        BY <2>2, <2>3, <3>2, LiveIsArmed
      <3>4. \A t \in Live : data.left <= t.left /\ t.left \in Int
        BY <2>3, <3>1 DEF ArmedOf, AllOf, Heap, TimersOK, TimerStates, TimerSet, Lefts
      <3>5. data.left \in Int /\ data # NoTimer
        BY <3>1, NoTimerIsNone, <2>3 DEF TimersOK, TimerStates, TimerSet, Lefts
      <3>6. time_out_ms' = IF data.left + 1 > 0 THEN data.left + 1 ELSE 0
        BY <2>2, <3>5 DEF TimeOutMs
      <3>7. \A t \in Live : time_out_ms' \in 0 .. (IF t.left < 0 THEN 0 ELSE t.left + 1)
        BY <3>4, <3>5, <3>6
      <3>8. SleepsInTime' /\ time_out_ms' \in Int
        BY <3>3, <3>5, <3>6, <3>7 DEF SleepsInTime
      <3>9. QED
        BY <2>1, <2>2, <3>2, <3>3, <3>8
    <2>6. QED
      BY <2>4, <2>5
  <1>3. CASE LoopExit \/ WaitTimeOut \/ EventsDone \/ WaitEvents
    <2>1. /\ UNCHANGED <<timer, timer_data, is_running>>
          /\ loop' \in {"exit", "end", "events"} /\ time_out_ms' \in Int
          /\ timer_data # NoTimer => loop' \in {"events", "end"}
          /\ fired' # {} => loop' = "events"
      BY <1>3 DEF LoopExit, WaitTimeOut, EventsDone, WaitEvents
    <2>2. SleepsInTime'
      BY <2>1 DEF SleepsInTime
    <2>3. QED
      BY <2>1, <2>2, LiveIsArmed
  <1>4. CASE RunQuietly
    <2>1. /\ timer_data' = NoTimer /\ loop' = "top" /\ fired = {}
          /\ UNCHANGED <<time_out_ms, fired, is_running>>
      BY <1>4 DEF RunQuietly
    <2>2. SleepsInTime'
      BY <2>1 DEF SleepsInTime
    <2>3. CASE timer_data = NoTimer
      <3>1. timer' = timer
        BY <1>4, <2>3 DEF RunQuietly
      <3>2. QED
        BY <2>1, <2>2, <2>3, <3>1, LiveIsArmed
    <2>4. CASE timer_data # NoTimer /\ ~ IsExpire(timer_data)
      <3>1. timer' = Push(timer, timer_data)
        BY <1>4, <2>4 DEF RunQuietly, Requeue
      <3>2. /\ TimersOK(timer', NoTimer, H)
            /\ ArmedOf(timer', NoTimer) = ArmedOf(timer, timer_data)
        BY <2>4, <3>1, PushKeeps
      <3>3. QED
        BY <2>1, <2>2, <3>2, LiveIsArmed
    <2>5. CASE timer_data # NoTimer /\ IsExpire(timer_data)
      <3>1. timer' = Erase(timer, timer_data.id) /\ timer_data.id \in timer.cancel_ids
        BY <1>4, <2>5 DEF RunQuietly
      <3>2. /\ TimersOK(timer', NoTimer, H)
            /\ ArmedOf(timer', NoTimer) = ArmedOf(timer, timer_data) \ {timer_data}
        BY <2>5, <3>1, EraseEnds
      <3>3. timer_data \notin ArmedOf(timer, timer_data)
        BY <3>1 DEF ArmedOf
      <3>4. QED
        BY <2>1, <2>2, <3>2, <3>3, LiveIsArmed
    <2>6. QED
      BY <2>3, <2>4, <2>5
  <1>5. QED
    BY <1>1, <1>2, <1>3, <1>4 DEF LoopStep

(* While it waits, its time-out runs down with the timers'. *)
LEMMA TickKeeps ==
  ASSUME NEW H, LoopInv(H), Tick
  PROVE  LoopInv(H)' /\ Live' = {Later(s) : s \in Live}
  <1> USE DEF LoopInv, Loops
  <1>1. \A s \in AllOf(timer, timer_data) : s.left > -MaxLate
    BY LiveIsArmed DEF Tick
  <1>2. /\ TimersOK(timer', timer_data', H)
        /\ ArmedOf(timer', timer_data') = {Later(s) : s \in ArmedOf(timer, timer_data)}
    BY <1>1, LaterKeeps DEF Tick
  <1>3. Live' = {Later(s) : s \in Live}
    BY <1>2, LiveIsArmed
  <1>4. /\ UNCHANGED <<loop, fired, is_running>> /\ time_out_ms' \in Int
        /\ timer_data' # NoTimer => timer_data # NoTimer
    BY DEF Tick
  <1>5. SleepsInTime'
    <2>1. CASE loop = "wait"
      <3>1. time_out_ms # 0 /\ time_out_ms' = IF time_out_ms > 0 THEN time_out_ms - 1 ELSE time_out_ms
        BY <2>1 DEF Tick
      <3>2. \A s \in Live : Later(s).left = s.left - 1 /\ s.left \in Int
        BY LiveIsArmed DEF ArmedOf, AllOf, TimersOK, TimerStates, TimerSet, Lefts, Later
      <3>3. \A s \in Live : time_out_ms \in 0 .. (IF s.left < 0 THEN 0 ELSE s.left + 1)
        BY <2>1 DEF SleepsInTime
      <3>4. ASSUME NEW s \in Live
            PROVE  time_out_ms' \in 0 .. (IF Later(s).left < 0 THEN 0 ELSE Later(s).left + 1)
        BY <3>1, <3>2, <3>3
      <3>5. QED
        BY <1>3, <3>4 DEF SleepsInTime
    <2>2. CASE loop # "wait"
      BY <1>4, <2>2 DEF SleepsInTime
    <2>3. QED
      BY <2>1, <2>2
  <1>6. QED
    BY <1>2, <1>3, <1>4, <1>5

(* A timer that fires was armed and is due; its handler finds it gone. *)
LEMMA FiredGone ==
  ASSUME NEW H, NEW handler, LoopInv(H), RunTimer(handler)
  PROVE  /\ timer_data \in Live /\ timer_data.handler = handler /\ timer_data.left <= 0
         /\ loop' = "top" /\ fired' = {} /\ timer_data' = NoTimer /\ time_out_ms' = time_out_ms
         /\ TimersOK(Fired, NoTimer, H) /\ ArmedOf(Fired, NoTimer) = Live \ {timer_data}
         /\ FreeIds(Fired) # {}
  <1>1. /\ timer_data # NoTimer /\ timer_data.id \notin timer.cancel_ids
        /\ timer_data.left <= 0 /\ timer_data.handler = handler
        /\ loop = "end" /\ loop' = "top" /\ timer_data' = NoTimer
        /\ UNCHANGED <<time_out_ms, fired>>
    BY DEF RunTimer, Fires, IsExpire
  <1>2. timer_data \in Live
    BY <1>1, LiveIsArmed DEF ArmedOf, AllOf
  <1>3. TimersOK(Fired, NoTimer, H) /\ ArmedOf(Fired, NoTimer) = Live \ {timer_data}
    BY <1>1, EraseEnds, LiveIsArmed DEF LoopInv, Fired
  <1>4. timer_data.id \in FreeIds(Fired)
    <2>1. timer_data.id \in Tid
      BY <1>1 DEF LoopInv, TimersOK, TimerSet
    <2>2. timer_data.id \notin Fired.timer_ids
      BY DEF Fired, Erase, LoopInv, TimersOK, TimerStates
    <2>3. QED
      BY <2>1, <2>2 DEF FreeIds
  <1>5. QED
    BY <1>1, <1>2, <1>3, <1>4 DEF LoopInv

(* What a handler leaves of the loop, whatever it does to the timers. *)
LEMMA HandlerKeeps ==
  ASSUME NEW H, LoopInv(H), TimersOK(timer', timer_data', H), is_running' \in BOOLEAN,
         \/ /\ loop # "wait" /\ UNCHANGED <<timer_data, time_out_ms, loop>>
            /\ fired' \subseteq fired
         \/ /\ loop' = "top" /\ fired' = {} /\ timer_data' = NoTimer /\ time_out_ms' = time_out_ms
  PROVE  LoopInv(H)'
  BY DEF LoopInv, Loops, SleepsInTime
=============================================================================
