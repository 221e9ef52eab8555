------------------------------ MODULE EventLoop ------------------------------
(***************************************************************************)
(* The event loop of src/EventDriven: the heap of timers with its two sets *)
(* of ids, and the loop that takes the earliest timer off the heap, waits  *)
(* for events until that timer is due, handles the events and runs the     *)
(* timer last, or puts it back.                                            *)
(*                                                                         *)
(* Time is counted in ticks; each timer carries the ticks it has left, so  *)
(* the clock itself is not a variable.  Ids are drawn from a small set:    *)
(* the code's 64-bit counter never returns to an id that is in use.        *)
(*                                                                         *)
(* What handlers do belongs to the program that uses the loop, a module    *)
(* that extends this one.  A failing assert aborts the process: it is a    *)
(* conjunct of the guard.  No signal interrupts epoll_wait.                *)
(***************************************************************************)
EXTENDS Integers, Sequences, FiniteSets

CONSTANTS
  Fds,          \* descriptors the program registers
  MaxTimers,    \* bound: timers that exist at one time
  MaxLazy,      \* bound: cancelled timers the heap holds
  MaxLate       \* bound: ticks by which a timer may be overdue

ASSUME EventLoopAssumption ==
  /\ MaxTimers \in Nat \ {0}
  /\ MaxLazy \in Nat
  /\ MaxLate \in Nat \ {0}

VARIABLES
  timer,        \* Timer: the heap and the two sets of ids
  timer_data,   \* Run's local copy of the timer it took, NoTimer if none
  time_out_ms,  \* Run's local time-out: what is left of it while it waits
  loop,         \* where Run is
  fired,        \* descriptors whose events of this round are to be handled
  interest,     \* what the epoll instance watches of each descriptor
  is_running

loopVars == <<timer, timer_data, time_out_ms, loop, fired, interest, is_running>>

Loops == {"top", "wait", "events", "end", "exit"}

Tid == 1 .. MaxTimers

(* A handler is named by what it is bound to: a kind and a number. *)
NoHandler == <<"none", 0>>
NoTimer   == [id |-> 0, left |-> 0, handler |-> NoHandler]

Heap   == timer.timers
Popped == {timer_data} \ {NoTimer}
Live   == {t \in Heap \cup Popped : t.id \notin timer.cancel_ids}
-----------------------------------------------------------------------------
(***************************************************************************)
(* Timer: what Register and Cancel make of t.                              *)
(***************************************************************************)
FreeIds(t) == Tid \ t.timer_ids

NewId(t) == CHOOSE i \in FreeIds(t) : \A j \in FreeIds(t) : i <= j

(* Used only where FreeIds(t) is not empty. *)
Register(t, left, handler) ==
  [t EXCEPT !.timers = @ \cup {[id |-> NewId(t), left |-> left, handler |-> handler]},
            !.timer_ids = @ \cup {NewId(t)}]

Lazy(t) == {s \in t.timers : s.id \in t.cancel_ids}

(* The timer stays in the heap until it comes to the top, and is thrown away
   there, due or not.  Its handler, which will not run, is dropped here so
   that states which differ in nothing else are one; and when the heap holds
   MaxLazy such timers already it goes at once, which no other step can tell. *)
Cancel(t, id) ==
  LET data == {s \in t.timers : s.id = id}
  IN  IF data # {} /\ Cardinality(Lazy(t)) >= MaxLazy
      THEN [t EXCEPT !.timers = @ \ data, !.timer_ids = @ \ {id}]
      ELSE [t EXCEPT !.cancel_ids = @ \cup {id},
                     !.timers = (@ \ data) \cup {[s EXCEPT !.handler = NoHandler] : s \in data}]

CancelAssert(id) == id \in timer.timer_ids

Erase(t, id) == [t EXCEPT !.timer_ids = @ \ {id}, !.cancel_ids = @ \ {id}]
Push(t, data) == [t EXCEPT !.timers = @ \cup {data}]
Pop(t, data)  == [t EXCEPT !.timers = @ \ {data}]

(* Mutant: operator< compares the wrong way, the latest timer is on top. *)
IsLatest(data) == data \in Heap /\ \A s \in Heap : data.left >= s.left

(* The heap's order; among equals any may be on top. *)
IsTop(data) == data \in Heap /\ \A s \in Heap : data.left <= s.left

(* One more, so that the timer has expired when the wait is over. *)
TimeOutMs(data) == IF data.left + 1 > 0 THEN data.left + 1 ELSE 0

IsExpire(data) == data.left <= 0
-----------------------------------------------------------------------------
(***************************************************************************)
(* The registrations; each asserts that epoll_ctl succeeds.                *)
(***************************************************************************)
AddEvent(fd, type) == interest[fd] = "none" /\ interest' = [interest EXCEPT ![fd] = type]
ModEvent(fd, type) == interest[fd] # "none" /\ interest' = [interest EXCEPT ![fd] = type]
ClearEvent(fd)     == interest[fd] # "none" /\ interest' = [interest EXCEPT ![fd] = "none"]

(* The kernel forgets a descriptor that is closed. *)
Closed(fd) == interest' = [interest EXCEPT ![fd] = "none"]
-----------------------------------------------------------------------------
(***************************************************************************)
(* EventLoop::Run.                                                         *)
(***************************************************************************)
(* GetLastTimer throws away what was cancelled ... *)
DropCancelled ==
  /\ loop = "top" /\ is_running
  /\ \E data \in Heap :
       /\ IsTop(data) /\ data.id \in timer.cancel_ids
       /\ timer' = Erase(Pop(timer, data), data.id)
  /\ UNCHANGED <<timer_data, time_out_ms, loop, fired, interest, is_running>>

(* ... until it finds a timer that was not, or asserts that nothing is left
   in the two sets; the time-out is then what the last round made of it. *)
Last == IF Heap = {} THEN {NoTimer} ELSE {data \in Heap : IsTop(data)}

TakeTimer ==
  /\ loop = "top" /\ is_running
  /\ \E data \in Last :
       /\ data.id \notin timer.cancel_ids
       /\ data = NoTimer => timer.timer_ids = {} /\ timer.cancel_ids = {}
       /\ timer' = Pop(timer, data)
       /\ timer_data' = data
       /\ time_out_ms' = IF data = NoTimer THEN time_out_ms ELSE TimeOutMs(data)
  /\ loop' = "wait"
  /\ UNCHANGED <<fired, interest, is_running>>

LoopExit ==
  /\ loop = "top" /\ ~ is_running
  /\ loop' = "exit"
  /\ UNCHANGED <<timer, timer_data, time_out_ms, fired, interest, is_running>>

WaitEvents ==
  /\ loop = "wait"
  /\ fired' \in SUBSET {fd \in Fds : interest[fd] # "none"} \ {{}}
  /\ time_out_ms' = 0 /\ loop' = "events"
  /\ UNCHANGED <<timer, timer_data, interest, is_running>>

WaitTimeOut ==
  /\ loop = "wait" /\ time_out_ms = 0
  /\ time_out_ms' = -1 /\ loop' = "end"
  /\ UNCHANGED <<timer, timer_data, fired, interest, is_running>>

(* The handler of fd is called: the program says what it does. *)
TakeEvent(fd) ==
  /\ loop = "events" /\ fd \in fired
  /\ fired' = fired \ {fd}
  /\ UNCHANGED <<timer_data, time_out_ms, loop, is_running>>

EventsDone ==
  /\ loop = "events" /\ fired = {}
  /\ loop' = "end"
  /\ UNCHANGED <<timer, timer_data, time_out_ms, fired, interest, is_running>>

(* Mutant: a timer that has not expired is not put back. *)
RequeueForgets == timer

Requeue == Push(timer, timer_data)

(* Timer::Run of a timer that does not fire: it is put back, or was cancelled. *)
RunQuietly ==
  /\ loop = "end"
  /\ timer' = IF timer_data = NoTimer THEN timer
              ELSE IF ~ IsExpire(timer_data) THEN Requeue
              ELSE Erase(timer, timer_data.id)
  /\ timer_data # NoTimer /\ IsExpire(timer_data) => timer_data.id \in timer.cancel_ids
  /\ timer_data' = NoTimer /\ loop' = "top"
  /\ UNCHANGED <<time_out_ms, fired, interest, is_running>>

Fires(data) ==
  /\ data # NoTimer /\ IsExpire(data)
  /\ data.id \in timer.timer_ids          \* the assert of Timer::Run
  /\ data.id \notin timer.cancel_ids

(* Timer::Run of a timer that fires: its handler is called, and finds the
   timers as Fired says. *)
FiredKeepsId == timer   \* mutant: the id of a timer that has run is kept

Fired == Erase(timer, timer_data.id)

RunTimer(handler) ==
  /\ loop = "end" /\ Fires(timer_data) /\ timer_data.handler = handler
  /\ timer_data' = NoTimer /\ loop' = "top"
  /\ UNCHANGED <<time_out_ms, fired>>

LoopStep ==
  \/ DropCancelled \/ TakeTimer \/ LoopExit \/ WaitTimeOut
  \/ EventsDone \/ RunQuietly

(* Time passes while the loop waits, but epoll_wait returns in time, and
   while it handles events, all of it reckoned when they have been handled. *)
Later(data) == [data EXCEPT !.left = @ - 1]

Tick ==
  /\ loop = "end" \/ (loop = "wait" /\ time_out_ms # 0)
  /\ \A t \in Heap \cup Popped : t.left > -MaxLate
  /\ timer' = [timer EXCEPT !.timers = {Later(t) : t \in @}]
  /\ timer_data' = IF timer_data = NoTimer THEN NoTimer ELSE Later(timer_data)
  /\ time_out_ms' = IF loop = "wait" /\ time_out_ms > 0 THEN time_out_ms - 1 ELSE time_out_ms
  /\ UNCHANGED <<loop, fired, interest, is_running>>

(* The program has registered timers and events before Run. *)
LoopInit(timers, events) ==
  /\ timer = [timers |-> timers, timer_ids |-> {t.id : t \in timers}, cancel_ids |-> {}]
  /\ timer_data = NoTimer
  /\ time_out_ms = -1 /\ loop = "top" /\ fired = {} /\ is_running = TRUE
  /\ interest = events
-----------------------------------------------------------------------------
(***************************************************************************)
(* The accounts of the timers: the ids are those of the timers in the heap *)
(* and of the one the loop has taken; no id is there twice.  It is what    *)
(* the asserts of Cancel, GetLastTimer and Run rest on (timer.hpp 36, 50,  *)
(* 51, 66).                                                                *)
(***************************************************************************)
TimerAccounts ==
  /\ timer.timer_ids = {t.id : t \in Heap \cup Popped}
  /\ timer.cancel_ids \subseteq timer.timer_ids
  /\ \A s, t \in Heap \cup Popped : s.id = t.id => s = t
  /\ Cardinality(Heap \cup Popped) = Cardinality(Heap) + Cardinality(Popped)

(* The loop never sleeps past a timer that is to fire (timer.hpp 54-60,
   eventloopcore.cpp 22-27). *)
SleepsInTime ==
  loop = "wait" => \A t \in Live : time_out_ms \in 0 .. (IF t.left < 0 THEN 0 ELSE t.left + 1)
=============================================================================
