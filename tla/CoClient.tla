------------------------------ MODULE CoClient ------------------------------
(***************************************************************************)
(* The second load generator, src/BenchMark2: one thread's event loop with *)
(* one coroutine per client.  A client connects, sends a request and reads *)
(* the answer; where it would block it registers a timer, yields, and is   *)
(* resumed by whichever comes first, its event or its timer.  The rate     *)
(* limit stops clients until a timer refreshes it, and a last timer tells  *)
(* all of them to finish.                                                  *)
(*                                                                         *)
(* A step is what the running coroutine does between two system calls, or  *)
(* a step of the event loop while no coroutine runs.                       *)
(***************************************************************************)
EXTENDS EventLoop

CONSTANTS
  Clients,       \* client_count
  RateLimit,     \* rate_limit, requests per refresh
  MaxReq,        \* max_req_count, requests per connection
  ConnectTicks,  \* the time-out of CoConnect
  IoTicks,       \* that of CoRead and CoWrite
  RefreshTicks,  \* the period of RateLimitRefresh and of StopHandler
  RunTicks,      \* run_time
  Parts          \* bound: parts in which a request or an answer goes

ASSUME CoClientAssumption ==
  /\ Clients \in Nat \ {0} /\ Fds = 1 .. Clients
  /\ MaxReq \in Nat \ {0} /\ RateLimit \in Nat /\ Parts \in Nat \ {0}
  /\ {ConnectTicks, IoTicks, RefreshTicks, RunTicks} \subseteq Nat \ {0}
  /\ MaxTimers >= 3   \* those that are registered at the start

VARIABLES
  pc,               \* where the coroutine of each client is
  is_open,          \* whether fd_ is a descriptor; it is -1 otherwise
  is_stop,
  timer_id,         \* the local timer_id of CoConnect, CoRead or CoWrite
  is_time_out,      \* the local is_time_out
  part,             \* parts of the request written, then of the answer read
  success_count,    \* modulo max_req_count
  temp_rate_limit,
  finish,           \* SetFinish has been called: IsRunning() is false
  running,          \* the client whose coroutine runs, 0 if the loop does
  todo,             \* InitStart and RateLimitRefreshAndReStart: clients left
  call_back         \* which of the two is in progress

clientVars == <<pc, is_open, is_stop, timer_id, is_time_out, part, success_count>>
callVars   == <<todo, call_back>>
coVars     == <<clientVars, temp_rate_limit, finish, running, callVars>>
ccVars     == <<loopVars, coVars>>

Client == 1 .. Clients

(* Where a coroutine has yielded inside CoConnect, CoWrite and CoRead. *)
InIo == {"connecting", "writing", "reading"}

Pcs == InIo \cup {"ready", "top", "write", "read", "clear", "stopped", "done"}

Global(kind) == <<kind, 0>>
TimeOutOf(c) == <<"timeout", c>>
-----------------------------------------------------------------------------
(* The coroutine of c is running and has come to `place'. *)
At(c, place) == running = c /\ pc[c] = place

Goto(c, place) == pc' = [pc EXCEPT ![c] = place]

Yield == running' = 0

(* A call to CoXxx yields: its timer is registered, its flag is clear. *)
Suspend(c, place) ==
  /\ FreeIds(timer) # {}
  /\ timer' = Register(timer, IF place = "connecting" THEN ConnectTicks ELSE IoTicks, TimeOutOf(c))
  /\ timer_id' = [timer_id EXCEPT ![c] = NewId(timer)]
  /\ is_time_out' = [is_time_out EXCEPT ![c] = FALSE]
  /\ Goto(c, place) /\ Yield

(* It returns without having yielded: the timer is registered and cancelled. *)
AtOnce ==
  /\ FreeIds(timer) # {}
  /\ timer' = Cancel(Register(timer, IoTicks, NoHandler), NewId(timer))
  /\ UNCHANGED <<timer_id, is_time_out, running>>

(* Mutant: the timer of a call that was resumed by its event goes on. *)
NeverDisarm(c) == UNCHANGED timer

(* Defer, when the call was resumed by its event. *)
Disarm(c) ==
  /\ CancelAssert(timer_id[c])
  /\ timer' = Cancel(timer, timer_id[c])

(* The locals of a call go out of scope. *)
Forget(c) ==
  /\ timer_id' = [timer_id EXCEPT ![c] = 0]
  /\ is_time_out' = [is_time_out EXCEPT ![c] = FALSE]
  /\ UNCHANGED running

(* The call returns after its event ... *)
Return(c) == ~ is_time_out[c] /\ Disarm(c) /\ Forget(c)

(* ... or after its time-out: what is cleared then is the event. *)
ReturnLate(c) == is_time_out[c] /\ interest[c] # "none" /\ Forget(c) /\ UNCHANGED timer

(* It is resumed too early and yields again. *)
Again == Yield /\ UNCHANGED <<timer, timer_id, is_time_out, pc>>

loopRest == <<timer_data, time_out_ms, loop, fired, is_running>>
callRest == <<temp_rate_limit, finish, callVars>>
-----------------------------------------------------------------------------
(* Client::Run, at the head of its loop, after SetFinish: it returns. *)
Finish(c) ==
  /\ At(c, "top") /\ finish
  /\ Goto(c, "done") /\ Yield
  /\ UNCHANGED <<timer, interest, loopRest, callRest, is_open, is_stop, timer_id,
                 is_time_out, part, success_count>>

TakeRate == temp_rate_limit' = temp_rate_limit - 1

Stop(c) ==
  /\ At(c, "top") /\ ~ finish /\ TakeRate /\ temp_rate_limit' < 0
  /\ is_stop' = [is_stop EXCEPT ![c] = TRUE]
  /\ Goto(c, "stopped") /\ Yield
  /\ UNCHANGED <<timer, interest, loopRest, finish, callVars, is_open, timer_id,
                 is_time_out, part, success_count>>

(* A request may be made: the connection is there, or is made at once. *)
StartRequest(c) ==
  /\ At(c, "top") /\ ~ finish /\ TakeRate /\ temp_rate_limit' >= 0
  /\ is_open' = [is_open EXCEPT ![c] = TRUE]
  /\ AddEvent(c, "write") /\ Goto(c, "write")
  /\ UNCHANGED <<timer, loopRest, running, finish, callVars, is_stop, timer_id,
                 is_time_out, part, success_count>>

(* connect answers EINPROGRESS. *)
StartConnect(c) ==
  /\ At(c, "top") /\ ~ finish /\ TakeRate /\ temp_rate_limit' >= 0 /\ ~ is_open[c]
  /\ is_open' = [is_open EXCEPT ![c] = TRUE]
  /\ AddEvent(c, "write") /\ Suspend(c, "connecting")
  /\ UNCHANGED <<loopRest, finish, callVars, is_stop, part, success_count>>

(* connect, or socket, fails. *)
ConnectFails(c) ==
  /\ At(c, "top") /\ ~ finish /\ TakeRate /\ temp_rate_limit' >= 0 /\ ~ is_open[c]
  /\ UNCHANGED <<timer, interest, loopRest, running, finish, callVars, clientVars>>

(* CoConnect goes on: the event is cleared, and the timer unless it has run. *)
Connected(c) ==
  /\ At(c, "connecting") /\ Return(c)
  /\ interest[c] # "none" /\ UNCHANGED interest   \* cleared, and added again to write
  /\ Goto(c, "write")
  /\ UNCHANGED <<loopRest, callRest, is_open, is_stop, part, success_count>>

ConnectEnds(c) ==
  /\ At(c, "connecting")
  /\ Return(c) \/ ReturnLate(c)
  /\ ClearEvent(c) /\ is_open' = [is_open EXCEPT ![c] = FALSE]
  /\ Goto(c, "top")
  /\ UNCHANGED <<loopRest, callRest, is_stop, part, success_count>>
-----------------------------------------------------------------------------
Part(c) ==
  /\ part[c] < Parts - 1
  /\ part' = [part EXCEPT ![c] = @ + 1]

AllParts(c) == part' = [part EXCEPT ![c] = 0]

(* SendRequest.  A write takes some of what is left of the request ... *)
Written(c) ==
  \/ Part(c) /\ Goto(c, "write") /\ UNCHANGED interest   \* CoWrite is called again
  \/ AllParts(c) /\ ModEvent(c, "read") /\ Goto(c, "read")

Write(c) ==
  /\ \/ At(c, "write") /\ AtOnce
     \/ At(c, "writing") /\ Return(c)
  /\ Written(c)
  /\ UNCHANGED <<loopRest, callRest, is_open, is_stop, success_count>>

(* ... or none. *)
WriteWaits(c) ==
  /\ \/ At(c, "write") /\ Suspend(c, "writing")
     \/ At(c, "writing") /\ ~ is_time_out[c] /\ Again
  /\ UNCHANGED <<interest, loopRest, callRest, is_open, is_stop, part, success_count>>

(* CoWrite fails or has timed out; in the latter case the event is cleared,
   and then the descriptor closed, which clears it in any case. *)
WriteFails(c) ==
  /\ \/ At(c, "write") /\ AtOnce
     \/ At(c, "writing") /\ Return(c)
     \/ At(c, "writing") /\ ReturnLate(c)
  /\ Closed(c) /\ is_open' = [is_open EXCEPT ![c] = FALSE]
  /\ AllParts(c) /\ Goto(c, "top")
  /\ UNCHANGED <<loopRest, callRest, is_stop, success_count>>

(* RecvResponse.  The answer is complete; after max_req_count of them the
   connection is closed. *)
ReadAnswer(c) ==
  /\ \/ At(c, "read") /\ AtOnce
     \/ At(c, "reading") /\ Return(c)
  /\ success_count' = [success_count EXCEPT ![c] = (@ + 1) % MaxReq]
  /\ IF success_count'[c] = 0
     THEN Closed(c) /\ is_open' = [is_open EXCEPT ![c] = FALSE]
     ELSE UNCHANGED <<interest, is_open>>
  /\ AllParts(c) /\ Goto(c, "clear")
  /\ UNCHANGED <<loopRest, callRest, is_stop>>

(* A part of it, or an error that is neither EINTR nor EAGAIN: the loop of
   RecvResponse calls CoRead again. *)
ReadPart(c) ==
  /\ Part(c)
  /\ \/ At(c, "read") /\ AtOnce /\ UNCHANGED pc
     \/ At(c, "reading") /\ Return(c) /\ Goto(c, "read")
  /\ UNCHANGED <<interest, loopRest, callRest, is_open, is_stop, success_count>>

ReadWaits(c) ==
  /\ \/ At(c, "read") /\ Suspend(c, "reading")
     \/ At(c, "reading") /\ ~ is_time_out[c] /\ Again
  /\ UNCHANGED <<interest, loopRest, callRest, is_open, is_stop, part, success_count>>

(* The server has closed the connection, or the answer is late. *)
ReadFails(c) ==
  /\ \/ At(c, "read") /\ AtOnce
     \/ At(c, "reading") /\ Return(c)
     \/ At(c, "reading") /\ ReturnLate(c)
  /\ Closed(c) /\ is_open' = [is_open EXCEPT ![c] = FALSE]
  /\ AllParts(c) /\ Goto(c, "clear")
  /\ UNCHANGED <<loopRest, callRest, is_stop, success_count>>

(* Client::Run clears the event of fd_ after RecvResponse; with fd_ = -1 the
   assert in it fails, and the process ends. *)
ClearAfterAnswer(c) ==
  /\ At(c, "clear") /\ is_open[c] /\ ClearEvent(c)
  /\ Goto(c, "top")
  /\ UNCHANGED <<timer, loopRest, callRest, running, is_open, is_stop, timer_id,
                 is_time_out, part, success_count>>

ClientStep(c) ==
  \/ Finish(c) \/ Stop(c) \/ StartRequest(c) \/ StartConnect(c) \/ ConnectFails(c)
  \/ Connected(c) \/ ConnectEnds(c) \/ Write(c) \/ WriteWaits(c) \/ WriteFails(c)
  \/ ReadAnswer(c) \/ ReadPart(c) \/ ReadWaits(c) \/ ReadFails(c) \/ ClearAfterAnswer(c)
-----------------------------------------------------------------------------
(* The loop is not inside a handler. *)
LoopFree == running = 0 /\ call_back = "none"

(* EventCallBack: CoroutineResume asserts that the coroutine is suspended. *)
EventCallBack(c) ==
  /\ LoopFree /\ TakeEvent(c)
  /\ pc[c] \in InIo /\ running' = c
  /\ UNCHANGED <<timer, interest, clientVars, callRest>>

TimeOutCallBack(c) ==
  /\ LoopFree /\ RunTimer(TimeOutOf(c)) /\ timer' = Fired
  /\ is_time_out' = [is_time_out EXCEPT ![c] = TRUE]
  /\ pc[c] \in InIo /\ running' = c
  /\ UNCHANGED <<interest, is_running, callRest, pc, is_open, is_stop, timer_id,
                 part, success_count>>

InitStart ==
  /\ LoopFree /\ RunTimer(Global("init")) /\ timer' = Fired
  /\ call_back' = "init" /\ todo' = Client
  /\ UNCHANGED <<interest, is_running, clientVars, temp_rate_limit, finish, running>>

RateLimitRefresh ==
  /\ LoopFree /\ RunTimer(Global("refresh")) /\ timer' = Fired
  /\ temp_rate_limit' = RateLimit
  /\ call_back' = "refresh" /\ todo' = Client
  /\ UNCHANGED <<interest, is_running, clientVars, finish, running>>

(* The next client: InitStart resumes it, ReStart only if it is stopped. *)
ReStart ==
  /\ running = 0 /\ todo # {}
  /\ \E c \in todo :
       /\ \A d \in todo : c <= d
       /\ todo' = todo \ {c}
       /\ IF call_back = "init" \/ is_stop[c]
          THEN /\ pc[c] \in {"ready", "stopped"}
               /\ is_stop' = [is_stop EXCEPT ![c] = FALSE]
               /\ Goto(c, "top") /\ running' = c
          ELSE UNCHANGED <<is_stop, pc, running>>
  /\ UNCHANGED <<loopVars, is_open, timer_id, is_time_out, part, success_count,
                 temp_rate_limit, finish, call_back>>

(* Mutant: the timer is not registered again. *)
CallBackEndOnce ==
  /\ running = 0 /\ todo = {} /\ call_back # "none"
  /\ call_back' = "none"
  /\ UNCHANGED <<timer, loopRest, interest, clientVars, temp_rate_limit, finish, running, todo>>

(* RateLimitRefresh registers its timer again when all clients are done. *)
CallBackEnd ==
  /\ running = 0 /\ todo = {} /\ call_back # "none"
  /\ IF call_back = "refresh"
     THEN FreeIds(timer) # {} /\ timer' = Register(timer, RefreshTicks, Global("refresh"))
     ELSE UNCHANGED timer
  /\ call_back' = "none"
  /\ UNCHANGED <<loopRest, interest, clientVars, temp_rate_limit, finish, running, todo>>

(* Schedule::IsFinish, which the library does not have: all coroutines idle. *)
IsFinish == \A c \in Client : pc[c] = "done"

StopHandler ==
  /\ LoopFree /\ RunTimer(Global("stop"))
  /\ finish' = TRUE
  /\ IF IsFinish THEN is_running' = FALSE /\ timer' = Fired
     ELSE timer' = Register(Fired, RefreshTicks, Global("stop")) /\ UNCHANGED is_running
  /\ UNCHANGED <<interest, clientVars, temp_rate_limit, running, callVars>>
-----------------------------------------------------------------------------
HandlerTimers ==
  {[id |-> 1, left |-> 0, handler |-> Global("init")],
   [id |-> 2, left |-> RefreshTicks, handler |-> Global("refresh")],
   [id |-> 3, left |-> RunTicks, handler |-> Global("stop")]}

ClientInit ==
  /\ pc = [c \in Client |-> "ready"]
  /\ is_open = [c \in Client |-> FALSE] /\ is_stop = [c \in Client |-> FALSE]
  /\ timer_id = [c \in Client |-> 0] /\ is_time_out = [c \in Client |-> FALSE]
  /\ part = [c \in Client |-> 0] /\ success_count = [c \in Client |-> 0]

CoClientInit ==
  /\ LoopInit(HandlerTimers, [fd \in Fds |-> "none"]) /\ ClientInit
  /\ temp_rate_limit = RateLimit /\ finish = FALSE /\ running = 0
  /\ todo = {} /\ call_back = "none"

(* What the thread does, as against the time that passes. *)
Thread ==
  \/ LoopFree /\ LoopStep /\ UNCHANGED coVars
  \/ InitStart \/ RateLimitRefresh \/ ReStart \/ CallBackEnd \/ StopHandler
  \/ \E c \in Client : EventCallBack(c) \/ TimeOutCallBack(c) \/ ClientStep(c)

Environment ==
  \/ LoopFree /\ WaitEvents /\ UNCHANGED coVars
  \/ Tick /\ UNCHANGED coVars

CoClientNext == Thread \/ Environment

(* The thread runs on, and time passes while it waits, however often it is
   woken before the time-out. *)
CoClientSpec ==
  /\ CoClientInit /\ [][CoClientNext]_ccVars
  /\ WF_ccVars(Thread) /\ SF_ccVars(loop = "wait" /\ Tick /\ UNCHANGED coVars)
-----------------------------------------------------------------------------
(***************************************************************************)
(* A client that waits in a call has a timer that will resume it, and its  *)
(* event; one that is stopped has the timer of the refresh or of the start *)
(* (client.hpp 176-255 against timer.hpp and epoll).                       *)
(***************************************************************************)
WaitIsBounded ==
  \A c \in Client :
    /\ pc[c] \in InIo /\ running # c /\ ~ is_time_out[c] =>
         /\ interest[c] = IF pc[c] = "reading" THEN "read" ELSE "write"
         /\ \E t \in Live : t.id = timer_id[c] /\ t.handler = TimeOutOf(c)
    /\ pc[c] = "stopped" =>
         call_back = "refresh" \/ \E t \in Live : t.handler = Global("refresh")

(***************************************************************************)
(* The event and the timer of a call race, and both resume the coroutine   *)
(* by its number: whichever callback runs finds the coroutine asleep in    *)
(* the very call that registered it, never in a later one, nor finished.   *)
(***************************************************************************)
CallBackInTime ==
  /\ loop = "events" /\ LoopFree => \A c \in fired : pc[c] \in InIo
  /\ \A t \in Live, c \in Client : t.handler = TimeOutOf(c) =>
       pc[c] \in InIo /\ timer_id[c] = t.id /\ ~ is_time_out[c]

(***************************************************************************)
(* epollctl.hpp 25: the descriptor is to be cleared before it is closed.   *)
(***************************************************************************)
ClearedWhileOpen == \A c \in Client : pc[c] = "clear" => is_open[c]

(* The process has been aborted by the assert of ClearEvent. *)
Aborted == \E c \in Client : At(c, "clear") /\ ~ is_open[c]

(* Once the run time is over the clients finish, and then the loop ends. *)
Stops == finish ~> loop = "exit" \/ Aborted
=============================================================================
