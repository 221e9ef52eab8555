---------------------------- MODULE CoClientProofs ----------------------------
(***************************************************************************)
(* Theorems about module CoClient, for any number of clients and timers,   *)
(* any rates and time-outs: whichever of its event and its timer comes     *)
(* first resumes a client in the call that it waits in, and only there;    *)
(* each has a timer that will, and the loop does not sleep past it.        *)
(***************************************************************************)
EXTENDS CoClient, EventLoopProofs

Handlers ==
  {NoHandler, Global("init"), Global("refresh"), Global("stop")} \cup {TimeOutOf(c) : c \in Client}

Asleep == InIo \cup {"ready", "stopped", "done"}

CoTypes ==
  /\ pc \in [Client -> Pcs] /\ is_open \in [Client -> BOOLEAN]
  /\ timer_id \in [Client -> Nat] /\ is_time_out \in [Client -> BOOLEAN]
  /\ interest \in [Client -> {"none", "read", "write"}]
  /\ running \in Client \cup {0} /\ todo \subseteq Client
  /\ call_back \in {"none", "init", "refresh"}

(* What is watched of a client at each place of its coroutine. *)
EventOf(place, open) ==
  IF place \in {"connecting", "write", "writing"} THEN "write"
  ELSE IF place \in {"read", "reading"} \/ (place = "clear" /\ open) THEN "read"
  ELSE "none"

EventAt(c) == EventOf(pc[c], is_open[c])

(* Where clients are while one of them runs, or the loop. *)
PlaceInv ==
  /\ \A c \in Client :
       /\ interest[c] = EventAt(c)
       /\ pc[c] \in InIo \cup {"write", "read"} => is_open[c]
       /\ running # c => pc[c] \in Asleep
       /\ running = c => pc[c] \notin {"ready", "stopped", "done"}
       /\ is_time_out[c] => running = c /\ pc[c] \in InIo
  /\ \A c \in fired : c \in Client /\ pc[c] \in InIo /\ running # c
  /\ running # 0 => loop \in {"top", "events"}
  /\ todo # {} => call_back # "none"
  /\ call_back # "none" => loop = "top"

(* The armed timers: those of the calls in which clients wait, one for each,
   and no other that could resume a client; and that of the refresh. *)
ArmedInv ==
  /\ \A c \in Client : pc[c] \in InIo /\ ~ is_time_out[c] =>
       \E t \in Live : t.id = timer_id[c] /\ t.handler = TimeOutOf(c)
  /\ \A t \in Live, c \in Client : t.handler = TimeOutOf(c) =>
       pc[c] \in InIo /\ timer_id[c] = t.id /\ ~ is_time_out[c]
  /\ call_back = "refresh" \/ \E t \in Live : t.handler = Global("refresh")

CoInv == LoopInv(Handlers) /\ CoTypes /\ PlaceInv /\ ArmedInv
-----------------------------------------------------------------------------
LEMMA HandlersDiffer ==
  /\ \A c, d \in Client : TimeOutOf(c) = TimeOutOf(d) => c = d
  /\ \A c \in Client, k \in {"init", "refresh", "stop"} : TimeOutOf(c) # Global(k)
  /\ Global("refresh") # Global("init") /\ Global("refresh") # Global("stop")
  /\ \A c \in Client : TimeOutOf(c) # NoHandler
  /\ NoHandler # Global("refresh")
  BY DEF TimeOutOf, Global, NoHandler

(* Two armed timers with one id are one. *)
LEMMA LiveById ==
  ASSUME CoInv, NEW s \in Live, NEW t \in Live, s.id = t.id
  PROVE  s = t
  BY LiveIsArmed DEF CoInv, LoopInv, TimersOK, ArmedOf

LEMMA CoInitInv == CoClientInit => CoInv
  <1> SUFFICES ASSUME CoClientInit PROVE CoInv
    OBVIOUS
  <1>1. HandlerTimers \in SUBSET TimerSet(Handlers)
    BY CoClientAssumption, EventLoopAssumption
       DEF HandlerTimers, TimerSet, Handlers, Lefts, Tid
  <1>2. \A r, s \in HandlerTimers : r.id = s.id => r = s
    BY DEF HandlerTimers
  <1>3. LoopInv(Handlers) /\ Live = HandlerTimers
    BY <1>1, <1>2, LoopInitInv DEF CoClientInit
  <1>4. Fds = Client
    BY CoClientAssumption DEF Client
  <1>5. CoTypes
    BY <1>4 DEF CoClientInit, ClientInit, LoopInit, CoTypes, Pcs, InIo
  <1>6. PlaceInv
    BY <1>4, CoClientAssumption
       DEF CoClientInit, ClientInit, LoopInit, PlaceInv, EventAt, EventOf, Asleep, InIo, Client
  <1>7. ArmedInv
    <2>1. \A t \in Live, c \in Client : t.handler # TimeOutOf(c)
      BY <1>3, HandlersDiffer DEF HandlerTimers
    <2>2. \E t \in Live : t.handler = Global("refresh")
      BY <1>3 DEF HandlerTimers
    <2>3. \A c \in Client : pc[c] \notin InIo
      BY DEF CoClientInit, ClientInit, InIo
    <2>4. QED
      BY <2>1, <2>2, <2>3 DEF ArmedInv
  <1>8. QED
    BY <1>3, <1>5, <1>6, <1>7 DEF CoInv
-----------------------------------------------------------------------------
(***************************************************************************)
(* A step of a coroutine.                                                  *)
(***************************************************************************)
(* What it does to the timers: it waits, with a new timer; returns at once;
   returns after its event, or after its time-out; or leaves them alone. *)
Waits(c) ==
  \E left \in Nat :
    /\ FreeIds(timer) # {} /\ timer' = Register(timer, left, TimeOutOf(c))
    /\ timer_id' = [timer_id EXCEPT ![c] = NewId(timer)]
    /\ is_time_out' = [is_time_out EXCEPT ![c] = FALSE]

TimersOf(c, place) ==
  \/ Waits(c) /\ pc[c] \notin InIo /\ place \in InIo
  \/ AtOnce /\ pc[c] \notin InIo /\ place \notin InIo
  \/ (Return(c) \/ ReturnLate(c)) /\ pc[c] \in InIo /\ place \notin InIo
  \/ UNCHANGED <<timer, timer_id, is_time_out>> /\ (place \in InIo <=> pc[c] \in InIo)
       /\ ~ is_time_out[c]

(* It goes on to `place', and what is watched of it is what that place needs. *)
Moves(c, place, open) ==
  /\ running = c /\ pc' = [pc EXCEPT ![c] = place]
  /\ is_open' = [is_open EXCEPT ![c] = open]
  /\ interest' = [interest EXCEPT ![c] = EventOf(place, open)]
  /\ place \in InIo \cup {"write", "read"} => open
  /\ place # "ready" /\ running' = IF place \in Asleep THEN 0 ELSE c
  /\ UNCHANGED <<timer_data, time_out_ms, loop, fired, is_running, todo, call_back>>
  /\ TimersOf(c, place)

LEMMA CoroutineMoves ==
  ASSUME CoInv, NEW c \in Client, ClientStep(c)
  PROVE  \E place \in Pcs, open \in BOOLEAN : Moves(c, place, open)
  <1> USE DEF CoInv, CoTypes, PlaceInv, EventAt, EventOf, InIo, Asleep, Pcs, At, Goto, Yield,
              loopRest, callRest, callVars, clientVars
  <1>1. CASE Finish(c)
    <2>1. Moves(c, "done", is_open[c])
      BY <1>1 DEF Finish, Moves, TimersOf
    <2>2. QED
      BY <2>1
  <1>2. CASE Stop(c)
    <2>1. Moves(c, "stopped", is_open[c])
      BY <1>2 DEF Stop, Moves, TimersOf
    <2>2. QED
      BY <2>1
  <1>3. CASE StartRequest(c)
    <2>1. Moves(c, "write", TRUE)
      BY <1>3 DEF StartRequest, AddEvent, Moves, TimersOf
    <2>2. QED
      BY <2>1
  <1>4. CASE StartConnect(c)
    <2>1. Waits(c)
      BY <1>4, CoClientAssumption DEF StartConnect, Suspend, Waits
    <2>2. Moves(c, "connecting", TRUE)
      BY <1>4, <2>1 DEF StartConnect, Suspend, AddEvent, Moves, TimersOf
    <2>3. QED
      BY <2>2
  <1>5. CASE ConnectFails(c)
    <2>1. Moves(c, "top", is_open[c])
      BY <1>5 DEF ConnectFails, Moves, TimersOf
    <2>2. QED
      BY <2>1
  <1>6. CASE Connected(c)
    <2>1. Moves(c, "write", is_open[c])
      BY <1>6 DEF Connected, Moves, TimersOf, Return, Forget
    <2>2. QED
      BY <2>1
  <1>7. CASE ConnectEnds(c)
    <2>1. Moves(c, "top", FALSE)
      BY <1>7 DEF ConnectEnds, ClearEvent, Moves, TimersOf, Return, ReturnLate, Forget
    <2>2. QED
      BY <2>1
  <1>8. CASE Write(c)
    <2>1. \/ At(c, "write") /\ AtOnce
          \/ At(c, "writing") /\ Return(c)
      BY <1>8 DEF Write
    <2>2. running = c /\ running' = c /\ is_open[c]
      BY <2>1 DEF AtOnce, Return, Forget
    <2>3. \/ Goto(c, "write") /\ UNCHANGED interest
          \/ Goto(c, "read") /\ interest' = [interest EXCEPT ![c] = "read"]
      BY <1>8 DEF Write, Written, Part, ModEvent
    <2>4. Moves(c, "write", TRUE) \/ Moves(c, "read", TRUE)
      BY <1>8, <2>1, <2>2, <2>3 DEF Write, Moves, TimersOf
    <2>5. QED
      BY <2>4
  <1>9. CASE WriteWaits(c)
    <2>1. CASE At(c, "write") /\ Suspend(c, "writing")
      <3>1. Waits(c)
        BY <2>1, CoClientAssumption DEF Suspend, Waits
      <3>2. Moves(c, "writing", TRUE)
        BY <1>9, <2>1, <3>1 DEF WriteWaits, Suspend, Moves, TimersOf
      <3>3. QED
        BY <3>2
    <2>2. CASE At(c, "writing") /\ ~ is_time_out[c] /\ Again
      <3>1. Moves(c, "writing", TRUE)
        BY <1>9, <2>2 DEF WriteWaits, Again, Moves, TimersOf
      <3>2. QED
        BY <3>1
    <2>3. QED
      BY <1>9, <2>1, <2>2 DEF WriteWaits
  <1>10. CASE WriteFails(c)
    <2>1. Moves(c, "top", FALSE)
      BY <1>10 DEF WriteFails, Closed, AtOnce, Return, ReturnLate, Forget, Moves, TimersOf
    <2>2. QED
      BY <2>1
  <1>11. CASE ReadAnswer(c)
    <2>1. /\ running = c /\ running' = c /\ is_open[c]
          /\ (AtOnce /\ pc[c] \notin InIo) \/ (Return(c) /\ pc[c] \in InIo)
      BY <1>11 DEF ReadAnswer, AtOnce, Return, Forget
    <2>2. \/ Closed(c) /\ is_open' = [is_open EXCEPT ![c] = FALSE]
          \/ UNCHANGED <<interest, is_open>>
      BY <1>11 DEF ReadAnswer
    <2>3. Moves(c, "clear", FALSE) \/ Moves(c, "clear", TRUE)
      BY <1>11, <2>1, <2>2 DEF ReadAnswer, Closed, Moves, TimersOf
    <2>4. QED
      BY <2>3
  <1>12. CASE ReadPart(c)
    <2>1. Moves(c, "read", TRUE)
      BY <1>12 DEF ReadPart, AtOnce, Return, Forget, Moves, TimersOf
    <2>2. QED
      BY <2>1
  <1>13. CASE ReadWaits(c)
    <2>1. CASE At(c, "read") /\ Suspend(c, "reading")
      <3>1. Waits(c)
        BY <2>1, CoClientAssumption DEF Suspend, Waits
      <3>2. Moves(c, "reading", TRUE)
        BY <1>13, <2>1, <3>1 DEF ReadWaits, Suspend, Moves, TimersOf
      <3>3. QED
        BY <3>2
    <2>2. CASE At(c, "reading") /\ ~ is_time_out[c] /\ Again
      <3>1. Moves(c, "reading", TRUE)
        BY <1>13, <2>2 DEF ReadWaits, Again, Moves, TimersOf
      <3>2. QED
        BY <3>1
    <2>3. QED
      BY <1>13, <2>1, <2>2 DEF ReadWaits
  <1>14. CASE ReadFails(c)
    <2>1. Moves(c, "clear", FALSE)
      BY <1>14 DEF ReadFails, Closed, AtOnce, Return, ReturnLate, Forget, Moves, TimersOf
    <2>2. QED
      BY <2>1
  <1>15. CASE ClearAfterAnswer(c)
    <2>1. Moves(c, "top", TRUE)
      BY <1>15 DEF ClearAfterAnswer, ClearEvent, Moves, TimersOf
    <2>2. QED
      BY <2>1
  <1>16. QED
    BY <1>1, <1>2, <1>3, <1>4, <1>5, <1>6, <1>7, <1>8, <1>9, <1>10, <1>11, <1>12, <1>13,
       <1>14, <1>15 DEF ClientStep

(* Whatever it does, the timers of others stay, and its own is armed exactly
   while it waits. *)
LEMMA OwnTimer ==
  ASSUME CoInv, NEW c \in Client, NEW place \in Pcs, TimersOf(c, place), running = c,
         UNCHANGED timer_data
  PROVE  /\ TimersOK(timer', timer_data', Handlers)
         /\ timer_id' \in [Client -> Nat] /\ is_time_out' \in [Client -> BOOLEAN]
         /\ ~ is_time_out'[c]
         /\ \A d \in Client \ {c} : timer_id'[d] = timer_id[d] /\ is_time_out'[d] = is_time_out[d]
         /\ {t \in Live' : t.handler # TimeOutOf(c)} = {t \in Live : t.handler # TimeOutOf(c)}
         /\ place \in InIo => \E t \in Live' : t.id = timer_id'[c] /\ t.handler = TimeOutOf(c)
         /\ \A t \in Live' : t.handler = TimeOutOf(c) => place \in InIo /\ t.id = timer_id'[c]
  <1>0. /\ TimersOK(timer, timer_data, Handlers) /\ NoHandler \in Handlers
        /\ \A t, id : /\ TimersOK(t, timer_data, Handlers)
                      /\ id \in t.timer_ids /\ id \notin t.cancel_ids
                      => /\ TimersOK(Cancel(t, id), timer_data, Handlers)
                         /\ ArmedOf(Cancel(t, id), timer_data)
                              = {s \in ArmedOf(t, timer_data) : s.id # id}
    <2>1. TimersOK(timer, timer_data, Handlers) /\ NoHandler \in Handlers
      BY DEF Handlers, CoInv, LoopInv
    <2>2. QED
      BY <2>1, CancelDisarms
  <1> USE DEF CoInv, CoTypes, LoopInv
  <1>1. CASE Waits(c) /\ pc[c] \notin InIo /\ place \in InIo
    <2>1. PICK left \in Nat :
            /\ FreeIds(timer) # {} /\ timer' = Register(timer, left, TimeOutOf(c))
            /\ timer_id' = [timer_id EXCEPT ![c] = NewId(timer)]
            /\ is_time_out' = [is_time_out EXCEPT ![c] = FALSE]
      BY <1>1 DEF Waits
    <2> DEFINE new == [id |-> NewId(timer), left |-> left, handler |-> TimeOutOf(c)]
    <2>2. TimeOutOf(c) \in Handlers
      BY DEF Handlers
    <2>3. /\ TimersOK(timer', timer_data, Handlers)
          /\ ArmedOf(timer', timer_data) = ArmedOf(timer, timer_data) \cup {new}
      BY <2>1, <2>2, RegisterArms
    <2>4. Live' = Live \cup {new} /\ new.handler = TimeOutOf(c) /\ new.id = timer_id'[c]
      BY <2>1, <2>3, LiveIsArmed
    <2>5. NewId(timer) \in Nat
      BY <2>1, NewIdIsFree, EventLoopAssumption DEF Tid
    <2>6. \A t \in Live : t.handler # TimeOutOf(c)
      BY <1>1 DEF ArmedInv
    <2> HIDE DEF new
    <2>7. QED
      BY <1>1, <2>1, <2>3, <2>4, <2>5, <2>6
  <1>2. CASE AtOnce /\ pc[c] \notin InIo /\ place \notin InIo
    <2> DEFINE u == Register(timer, IoTicks, NoHandler)
               new == [id |-> NewId(timer), left |-> IoTicks, handler |-> NoHandler]
    <2>1. IoTicks \in Nat /\ NoHandler \in Handlers
      BY CoClientAssumption DEF Handlers
    <2>2. /\ FreeIds(timer) # {} /\ timer' = Cancel(u, NewId(timer))
          /\ UNCHANGED <<timer_id, is_time_out>>
      BY <1>2 DEF AtOnce
    <2>3. /\ TimersOK(u, timer_data, Handlers)
          /\ ArmedOf(u, timer_data) = Live \cup {new}
          /\ \A s \in AllOf(timer, timer_data) : s.id # NewId(timer)
      BY <2>1, <2>2, RegisterArms, LiveIsArmed
    <2>4. NewId(timer) \in u.timer_ids /\ NewId(timer) \notin u.cancel_ids
      <3>1. new \in ArmedOf(u, timer_data) /\ new.id = NewId(timer)
        BY <2>3
      <3>2. QED
        BY <2>3, <3>1 DEF ArmedOf, TimersOK
    <2> HIDE DEF u
    <2>5. /\ TimersOK(timer', timer_data, Handlers)
          /\ ArmedOf(timer', timer_data) = {s \in Live \cup {new} : s.id # NewId(timer)}
      BY <1>0, <2>2, <2>3, <2>4
    <2>6. \A s \in Live : s.id # NewId(timer)
      BY <2>3, LiveIsArmed DEF ArmedOf
    <2>7. Live' = Live
      BY <2>5, <2>6, LiveIsArmed
    <2>8. ~ is_time_out[c] /\ \A t \in Live : t.handler # TimeOutOf(c)
      BY <1>2 DEF ArmedInv, PlaceInv
    <2>9. QED
      BY <1>2, <2>2, <2>5, <2>7, <2>8
  <1>3. CASE Return(c) /\ pc[c] \in InIo /\ place \notin InIo
    <2>1. /\ ~ is_time_out[c] /\ timer' = Cancel(timer, timer_id[c])
          /\ timer_id' = [timer_id EXCEPT ![c] = 0]
          /\ is_time_out' = [is_time_out EXCEPT ![c] = FALSE]
      BY <1>3 DEF Return, Disarm, Forget
    <2>2. PICK t \in Live : t.id = timer_id[c] /\ t.handler = TimeOutOf(c)
      BY <1>3, <2>1 DEF ArmedInv
    <2>3. timer_id[c] \in timer.timer_ids /\ timer_id[c] \notin timer.cancel_ids
      BY <2>2, LiveIsArmed DEF ArmedOf, TimersOK
    <2>5. /\ TimersOK(timer', timer_data, Handlers)
          /\ ArmedOf(timer', timer_data) = {s \in ArmedOf(timer, timer_data) : s.id # timer_id[c]}
      BY <1>0, <2>1, <2>3
    <2>6. Live' = {s \in Live : s.id # timer_id[c]}
      BY <2>5, LiveIsArmed
    <2>7. \A s \in Live : s.id = timer_id[c] <=> s.handler = TimeOutOf(c)
      <3>1. \A s \in Live : s.id = timer_id[c] => s = t
        BY <2>2, LiveById
      <3>2. QED
        BY <2>2, <3>1 DEF ArmedInv
    <2>8. QED
      BY <1>3, <2>1, <2>5, <2>6, <2>7
  <1>4. CASE ReturnLate(c) /\ pc[c] \in InIo /\ place \notin InIo
    <2>1. /\ is_time_out[c] /\ UNCHANGED timer
          /\ timer_id' = [timer_id EXCEPT ![c] = 0]
          /\ is_time_out' = [is_time_out EXCEPT ![c] = FALSE]
      BY <1>4 DEF ReturnLate, Forget
    <2>2. Live' = Live /\ \A t \in Live : t.handler # TimeOutOf(c)
      BY <2>1, LiveIsArmed DEF ArmedInv
    <2>3. QED
      BY <1>4, <2>1, <2>2
  <1>5. CASE /\ UNCHANGED <<timer, timer_id, is_time_out>> /\ (place \in InIo <=> pc[c] \in InIo)
             /\ ~ is_time_out[c]
    <2>1. Live' = Live
      BY <1>5, LiveIsArmed
    <2>2. QED
      BY <1>5, <2>1 DEF ArmedInv
  <1>6. QED
    BY <1>1, <1>2, <1>3, <1>4, <1>5 DEF TimersOf

LEMMA ClientStepKeeps ==
  ASSUME CoInv, NEW c \in Client, ClientStep(c)
  PROVE  CoInv'
  <1> USE DEF CoInv
  <1>1. PICK place \in Pcs, open \in BOOLEAN : Moves(c, place, open)
    BY CoroutineMoves
  <1>2. /\ running = c /\ pc' = [pc EXCEPT ![c] = place]
        /\ is_open' = [is_open EXCEPT ![c] = open]
        /\ interest' = [interest EXCEPT ![c] = EventOf(place, open)]
        /\ place \in InIo \cup {"write", "read"} => open
        /\ place # "ready" /\ running' = IF place \in Asleep THEN 0 ELSE c
        /\ UNCHANGED <<timer_data, time_out_ms, loop, fired, is_running, todo, call_back>>
        /\ TimersOf(c, place)
    BY <1>1 DEF Moves
  <1>3. /\ TimersOK(timer', timer_data', Handlers)
        /\ timer_id' \in [Client -> Nat] /\ is_time_out' \in [Client -> BOOLEAN]
        /\ ~ is_time_out'[c]
        /\ \A d \in Client \ {c} : timer_id'[d] = timer_id[d] /\ is_time_out'[d] = is_time_out[d]
        /\ {t \in Live' : t.handler # TimeOutOf(c)} = {t \in Live : t.handler # TimeOutOf(c)}
        /\ place \in InIo => \E t \in Live' : t.id = timer_id'[c] /\ t.handler = TimeOutOf(c)
        /\ \A t \in Live' : t.handler = TimeOutOf(c) => place \in InIo /\ t.id = timer_id'[c]
    BY <1>2, OwnTimer
  <1>4. c # 0
    BY CoClientAssumption DEF Client
  <1>5. LoopInv(Handlers)'
    <2>1. loop # "wait" /\ is_running' \in BOOLEAN
      BY <1>2, <1>4 DEF PlaceInv, LoopInv
    <2>2. QED
      BY <1>2, <1>3, <2>1, HandlerKeeps
  <1>6. CoTypes'
    BY <1>2, <1>3 DEF CoTypes, EventOf
  <1>7. \A d \in Client : d # c => pc'[d] = pc[d] /\ is_open'[d] = is_open[d] /\ interest'[d] = interest[d]
    BY <1>2 DEF CoTypes
  <1>8. pc'[c] = place /\ is_open'[c] = open /\ interest'[c] = EventOf(place, open)
    BY <1>2 DEF CoTypes
  <1>9. PlaceInv'
    <2>1. ASSUME NEW d \in Client
          PROVE  /\ interest'[d] = EventAt(d)'
                 /\ pc'[d] \in InIo \cup {"write", "read"} => is_open'[d]
                 /\ running' # d => pc'[d] \in Asleep
                 /\ running' = d => pc'[d] \notin {"ready", "stopped", "done"}
                 /\ is_time_out'[d] => running' = d /\ pc'[d] \in InIo
      <3>1. CASE d = c
        BY <1>2, <1>3, <1>4, <1>8, <3>1 DEF EventAt, Asleep
      <3>2. CASE d # c
        <4>1. d # 0 /\ running' # d /\ running # d
          BY <1>2, <3>2, CoClientAssumption DEF Client
        <4>2. QED
          BY <1>3, <1>7, <3>2, <4>1 DEF PlaceInv, EventAt
      <3>3. QED
        BY <3>1, <3>2
    <2>2. \A d \in fired' : d \in Client /\ pc'[d] \in InIo /\ running' # d
      BY <1>2, <1>7, CoClientAssumption DEF PlaceInv, Client
    <2>3. QED
      BY <1>2, <1>4, <2>1, <2>2 DEF PlaceInv
  <1>10. ArmedInv'
    <2>1. ASSUME NEW d \in Client, pc'[d] \in InIo, ~ is_time_out'[d]
          PROVE  \E t \in Live' : t.id = timer_id'[d] /\ t.handler = TimeOutOf(d)
      <3>1. CASE d = c
        BY <1>3, <1>8, <2>1, <3>1
      <3>2. CASE d # c
        <4>1. PICK t \in Live : t.id = timer_id[d] /\ t.handler = TimeOutOf(d)
          BY <1>3, <1>7, <2>1, <3>2 DEF ArmedInv
        <4>2. TimeOutOf(d) # TimeOutOf(c)
          BY <3>2, HandlersDiffer
        <4>3. t \in Live'
          BY <1>3, <4>1, <4>2
        <4>4. QED
          BY <1>3, <3>2, <4>1, <4>3
      <3>3. QED
        BY <3>1, <3>2
    <2>2. ASSUME NEW t \in Live', NEW d \in Client, t.handler = TimeOutOf(d)
          PROVE  pc'[d] \in InIo /\ timer_id'[d] = t.id /\ ~ is_time_out'[d]
      <3>1. CASE d = c
        BY <1>3, <1>8, <2>2, <3>1
      <3>2. CASE d # c
        <4>1. TimeOutOf(d) # TimeOutOf(c)
          BY <3>2, HandlersDiffer
        <4>2. t \in Live
          BY <1>3, <2>2, <4>1
        <4>3. QED
          BY <1>3, <1>7, <2>2, <3>2, <4>2 DEF ArmedInv
      <3>3. QED
        BY <3>1, <3>2
    <2>3. call_back' = "refresh" \/ \E t \in Live' : t.handler = Global("refresh")
      BY <1>2, <1>3, HandlersDiffer DEF ArmedInv
    <2>4. QED
      BY <2>1, <2>2, <2>3 DEF ArmedInv
  <1>11. QED
    BY <1>5, <1>6, <1>9, <1>10
-----------------------------------------------------------------------------
(***************************************************************************)
(* The loop's steps, and its handlers.                                     *)
(***************************************************************************)
LEMMA LoopKeeps ==
  ASSUME CoInv, LoopFree, LoopStep \/ WaitEvents, UNCHANGED coVars
  PROVE  CoInv'
  <1> USE DEF CoInv, coVars, clientVars, callVars
  <1>1. LoopInv(Handlers)' /\ Live' = Live
    BY LoopStepKeeps
  <1>2. UNCHANGED interest /\ (fired' \subseteq fired \/ WaitEvents)
    BY DEF LoopStep, DropCancelled, TakeTimer, LoopExit, WaitTimeOut, WaitEvents, EventsDone,
           RunQuietly
  <1>3. CoTypes'
    BY <1>2 DEF CoTypes
  <1>4. \A c \in fired' : c \in Client /\ pc[c] \in InIo /\ running # c
    <2>1. CASE fired' \subseteq fired
      BY <2>1 DEF PlaceInv
    <2>2. CASE WaitEvents
      <3>1. \A c \in fired' : c \in Client /\ interest[c] # "none"
        BY <2>2, CoClientAssumption DEF WaitEvents, Client
      <3>2. \A c \in Client : c # running
        BY CoClientAssumption DEF LoopFree, Client
      <3>3. \A c \in Client : interest[c] # "none" => pc[c] \in InIo
        BY <3>2 DEF PlaceInv, Asleep, InIo, EventAt, EventOf
      <3>4. QED
        BY <3>1, <3>2, <3>3
    <2>3. QED
      BY <1>2, <2>1, <2>2
  <1>5. PlaceInv'
    BY <1>2, <1>4 DEF PlaceInv, LoopFree, EventAt
  <1>6. ArmedInv'
    BY <1>1 DEF ArmedInv
  <1>7. QED
    BY <1>1, <1>3, <1>5, <1>6

LEMMA TimeKeeps ==
  ASSUME CoInv, Tick, UNCHANGED coVars
  PROVE  CoInv'
  <1> USE DEF CoInv, coVars, clientVars, callVars
  <1>1. LoopInv(Handlers)' /\ Live' = {Later(s) : s \in Live}
    BY TickKeeps
  <1>2. UNCHANGED <<loop, fired, interest, is_running>>
    BY DEF Tick
  <1>3. \A s \in Live : Later(s).id = s.id /\ Later(s).handler = s.handler
    BY LiveIsArmed DEF LoopInv, ArmedOf, AllOf, TimersOK, TimerStates, TimerSet, Later
  <1>4. CoTypes' /\ PlaceInv'
    BY <1>2 DEF CoTypes, PlaceInv, EventAt
  <1>5. ArmedInv'
    <2>1. ASSUME NEW c \in Client, pc'[c] \in InIo, ~ is_time_out'[c]
          PROVE  \E t \in Live' : t.id = timer_id'[c] /\ t.handler = TimeOutOf(c)
      <3>1. PICK t \in Live : t.id = timer_id[c] /\ t.handler = TimeOutOf(c)
        BY <2>1 DEF ArmedInv
      <3>2. QED
        BY <1>1, <1>3, <3>1
    <2>2. ASSUME NEW t \in Live', NEW c \in Client, t.handler = TimeOutOf(c)
          PROVE  pc'[c] \in InIo /\ timer_id'[c] = t.id /\ ~ is_time_out'[c]
      <3>1. PICK s \in Live : t = Later(s)
        BY <1>1
      <3>2. QED
        BY <1>3, <2>2, <3>1 DEF ArmedInv
    <2>3. call_back' = "refresh" \/ \E t \in Live' : t.handler = Global("refresh")
      BY <1>1, <1>3 DEF ArmedInv
    <2>4. QED
      BY <2>1, <2>2, <2>3 DEF ArmedInv
  <1>6. QED
    BY <1>1, <1>4, <1>5

LEMMA EventKeeps ==
  ASSUME CoInv, NEW c \in Client, EventCallBack(c)
  PROVE  CoInv'
  <1> USE DEF CoInv
  <1>1. /\ loop = "events" /\ fired' = fired \ {c}
        /\ running = 0 /\ running' = c /\ pc[c] \in InIo
        /\ UNCHANGED <<timer, timer_data, time_out_ms, loop, is_running, interest, pc, is_open,
                       timer_id, is_time_out, todo, call_back>>
    BY DEF EventCallBack, LoopFree, TakeEvent, clientVars, callRest, callVars
  <1>2. LoopInv(Handlers)'
    BY <1>1, HandlerKeeps DEF LoopInv
  <1>3. CoTypes'
    BY <1>1 DEF CoTypes
  <1>4. \A d \in Client : d # 0
    BY CoClientAssumption DEF Client
  <1>5. PlaceInv'
    BY <1>1, <1>4 DEF PlaceInv, EventAt, InIo
  <1>6. ArmedInv'
    BY <1>1, LiveIsArmed DEF ArmedInv
  <1>7. QED
    BY <1>2, <1>3, <1>5, <1>6

LEMMA TimeOutKeeps ==
  ASSUME CoInv, NEW c \in Client, TimeOutCallBack(c)
  PROVE  CoInv'
  <1> USE DEF CoInv
  <1>1. /\ running = 0 /\ running' = c /\ pc[c] \in InIo /\ timer' = Fired
        /\ is_time_out' = [is_time_out EXCEPT ![c] = TRUE]
        /\ RunTimer(TimeOutOf(c)) /\ call_back = "none"
        /\ UNCHANGED <<is_running, interest, pc, is_open, timer_id, todo, call_back>>
    BY DEF TimeOutCallBack, LoopFree, callRest, callVars
  <1>2. /\ timer_data \in Live /\ timer_data.handler = TimeOutOf(c)
        /\ loop' = "top" /\ fired' = {} /\ timer_data' = NoTimer /\ time_out_ms' = time_out_ms
        /\ TimersOK(Fired, NoTimer, Handlers) /\ ArmedOf(Fired, NoTimer) = Live \ {timer_data}
    BY <1>1, FiredGone
  <1>3. LoopInv(Handlers)'
    BY <1>1, <1>2, HandlerKeeps DEF LoopInv
  <1>4. Live' = Live \ {timer_data}
    BY <1>1, <1>2, LiveIsArmed
  <1>5. CoTypes'
    BY <1>1 DEF CoTypes
  <1>6. \A d \in Client : d # 0
    BY CoClientAssumption DEF Client
  <1>7. PlaceInv'
    <2>1. \A d \in Client : is_time_out'[d] => d = c
      BY <1>1, <1>6 DEF PlaceInv, CoTypes
    <2>2. QED
      BY <1>1, <1>2, <1>6, <2>1 DEF PlaceInv, EventAt, InIo
  <1>8. ArmedInv'
    <2>1. ASSUME NEW d \in Client, pc'[d] \in InIo, ~ is_time_out'[d]
          PROVE  \E t \in Live' : t.id = timer_id'[d] /\ t.handler = TimeOutOf(d)
      <3>1. d # c
        BY <1>1, <2>1 DEF CoTypes
      <3>2. PICK t \in Live : t.id = timer_id[d] /\ t.handler = TimeOutOf(d)
        BY <1>1, <2>1, <3>1 DEF ArmedInv, CoTypes
      <3>3. t # timer_data
        BY <1>2, <3>1, <3>2, HandlersDiffer
      <3>4. QED
        BY <1>1, <1>4, <3>2, <3>3
    <2>2. ASSUME NEW t \in Live', NEW d \in Client, t.handler = TimeOutOf(d)
          PROVE  pc'[d] \in InIo /\ timer_id'[d] = t.id /\ ~ is_time_out'[d]
      <3>1. t \in Live /\ t # timer_data
        BY <1>4
      <3>2. pc[d] \in InIo /\ timer_id[d] = t.id /\ ~ is_time_out[d]
        BY <2>2, <3>1 DEF ArmedInv
      <3>3. d # c
        BY <1>2, <3>1, <3>2, LiveById DEF ArmedInv
      <3>4. QED
        BY <1>1, <3>2, <3>3 DEF CoTypes
    <2>3. call_back' = "refresh" \/ \E t \in Live' : t.handler = Global("refresh")
      BY <1>1, <1>2, <1>4, HandlersDiffer DEF ArmedInv
    <2>4. QED
      BY <2>1, <2>2, <2>3 DEF ArmedInv
  <1>9. QED
    BY <1>3, <1>5, <1>7, <1>8

(* What the handlers that are not bound to a client do to the timers: those
   of the clients are not touched. *)
LEMMA ArmedKeeps ==
  ASSUME CoInv, NEW k \in {"init", "refresh", "stop"},
         UNCHANGED <<timer_id, is_time_out>>,
         \A c \in Client : pc'[c] \in InIo <=> pc[c] \in InIo,
         {t \in Live' : t.handler # Global(k)} = {t \in Live : t.handler # Global(k)},
         call_back' = "refresh" \/ \E t \in Live' : t.handler = Global("refresh")
  PROVE  ArmedInv'
  <1>1. \A c \in Client : TimeOutOf(c) # Global(k)
    BY HandlersDiffer
  <1>2. \A c \in Client :
          {t \in Live' : t.handler = TimeOutOf(c)} = {t \in Live : t.handler = TimeOutOf(c)}
    BY <1>1
  <1>3. QED
    BY <1>2 DEF CoInv, ArmedInv

(* The timer of such a handler is gone when it runs. *)
LEMMA GlobalFires ==
  ASSUME CoInv, NEW k \in {"init", "refresh", "stop"}, RunTimer(Global(k)), LoopFree
  PROVE  /\ loop' = "top" /\ fired' = {} /\ timer_data' = NoTimer /\ time_out_ms' = time_out_ms
         /\ TimersOK(Fired, NoTimer, Handlers) /\ FreeIds(Fired) # {}
         /\ {t \in ArmedOf(Fired, NoTimer) : t.handler # Global(k)}
              = {t \in Live : t.handler # Global(k)}
         /\ k # "refresh" =>
              \E t \in ArmedOf(Fired, NoTimer) : t.handler = Global("refresh")
  <1>1. /\ timer_data \in Live /\ timer_data.handler = Global(k)
        /\ loop' = "top" /\ fired' = {} /\ timer_data' = NoTimer /\ time_out_ms' = time_out_ms
        /\ TimersOK(Fired, NoTimer, Handlers) /\ ArmedOf(Fired, NoTimer) = Live \ {timer_data}
        /\ FreeIds(Fired) # {}
    BY FiredGone DEF CoInv
  <1>2. \E t \in Live : t.handler = Global("refresh")
    BY DEF CoInv, ArmedInv, LoopFree
  <1>3. k # "refresh" => Global(k) # Global("refresh")
    BY HandlersDiffer
  <1>4. QED
    BY <1>1, <1>2, <1>3

(* InitStart and RateLimitRefreshAndReStart begin. *)
LEMMA CallBackBegins ==
  ASSUME CoInv, InitStart \/ RateLimitRefresh
  PROVE  CoInv'
  <1> USE DEF CoInv
  <1>1. PICK k \in {"init", "refresh"} :
          /\ LoopFree /\ RunTimer(Global(k)) /\ timer' = Fired /\ call_back' = k
          /\ todo' = Client
          /\ UNCHANGED <<interest, is_running, pc, is_open, timer_id, is_time_out, running>>
    BY DEF InitStart, RateLimitRefresh, clientVars
  <1>2. /\ loop' = "top" /\ fired' = {} /\ timer_data' = NoTimer /\ time_out_ms' = time_out_ms
        /\ TimersOK(Fired, NoTimer, Handlers)
        /\ {t \in ArmedOf(Fired, NoTimer) : t.handler # Global(k)}
             = {t \in Live : t.handler # Global(k)}
        /\ k # "refresh" => \E t \in ArmedOf(Fired, NoTimer) : t.handler = Global("refresh")
    BY <1>1, GlobalFires
  <1>3. Live' = ArmedOf(Fired, NoTimer)
    BY <1>1, <1>2, LiveIsArmed
  <1>4. LoopInv(Handlers)'
    BY <1>1, <1>2, HandlerKeeps DEF LoopInv
  <1>5. CoTypes'
    BY <1>1 DEF CoTypes
  <1>6. PlaceInv'
    BY <1>1, <1>2 DEF PlaceInv, EventAt
  <1>7. ArmedInv'
    BY <1>1, <1>2, <1>3, ArmedKeeps
  <1>8. QED
    BY <1>4, <1>5, <1>6, <1>7

(* They resume the clients, one by one. *)
LEMMA ReStartKeeps ==
  ASSUME CoInv, ReStart
  PROVE  CoInv'
  <1> USE DEF CoInv
  <1>1. PICK c \in todo :
          /\ running = 0 /\ todo' = todo \ {c}
          /\ \/ pc[c] \in {"ready", "stopped"} /\ Goto(c, "top") /\ running' = c
             \/ UNCHANGED <<pc, running>>
          /\ UNCHANGED <<loopVars, is_open, timer_id, is_time_out, call_back>>
    BY DEF ReStart
  <1>2. c \in Client /\ c # 0 /\ call_back # "none" /\ loop = "top"
    BY CoClientAssumption DEF CoTypes, PlaceInv, Client
  <1>3. LoopInv(Handlers)'
    BY <1>1, <1>2, HandlerKeeps DEF LoopInv, loopVars
  <1>4. CoTypes'
    BY <1>1, <1>2 DEF CoTypes, loopVars, Goto, Pcs
  <1>5. PlaceInv'
    <2>1. CASE UNCHANGED <<pc, running>>
      BY <1>1, <1>2, <2>1 DEF PlaceInv, loopVars, EventAt
    <2>2. CASE pc[c] \in {"ready", "stopped"} /\ Goto(c, "top") /\ running' = c
      <3>1. fired = {}
        BY <1>2 DEF LoopInv
      <3>2. ASSUME NEW d \in Client
            PROVE  /\ interest'[d] = EventAt(d)'
                   /\ pc'[d] \in InIo \cup {"write", "read"} => is_open'[d]
                   /\ running' # d => pc'[d] \in Asleep
                   /\ running' = d => pc'[d] \notin {"ready", "stopped", "done"}
                   /\ is_time_out'[d] => running' = d /\ pc'[d] \in InIo
        <4>1. d # 0
          BY CoClientAssumption DEF Client
        <4>2. CASE d # c
          <5>1. pc'[d] = pc[d]
            BY <2>2, <4>2 DEF Goto, CoTypes
          <5>2. QED
            BY <1>1, <2>2, <4>1, <4>2, <5>1 DEF PlaceInv, loopVars, EventAt
        <4>3. CASE d = c
          <5>1. pc'[c] = "top"
            BY <1>2, <2>2 DEF Goto, CoTypes
          <5>2. interest[c] = "none" /\ ~ is_time_out[c]
            BY <1>1, <1>2, <2>2 DEF PlaceInv, EventAt, EventOf
          <5>3. QED
            BY <1>1, <2>2, <4>3, <5>1, <5>2 DEF loopVars, EventAt, EventOf, InIo
        <4>4. QED
          BY <4>2, <4>3
      <3>3. QED
        BY <1>1, <1>2, <3>1, <3>2 DEF PlaceInv, loopVars
    <2>3. QED
      BY <1>1, <2>1, <2>2
  <1>6. ArmedInv'
    <2>1. \A d \in Client : pc'[d] \in InIo <=> pc[d] \in InIo
      BY <1>1 DEF Goto, CoTypes, InIo
    <2>2. Live' = Live
      BY <1>1, LiveIsArmed DEF loopVars
    <2>3. QED
      BY <1>1, <2>1, <2>2 DEF ArmedInv
  <1>7. QED
    BY <1>3, <1>4, <1>5, <1>6

(* The refresh arms its timer again when it ends. *)
LEMMA CallBackEnds ==
  ASSUME CoInv, CallBackEnd
  PROVE  CoInv'
  <1> USE DEF CoInv
  <1>1. /\ running = 0 /\ todo = {} /\ call_back # "none" /\ call_back' = "none"
        /\ UNCHANGED <<timer_data, time_out_ms, loop, fired, is_running, interest, pc, is_open,
                       timer_id, is_time_out, running, todo>>
    BY DEF CallBackEnd, loopRest, clientVars
  <1>2. loop = "top"
    BY <1>1 DEF PlaceInv
  <1>3. CoTypes'
    BY <1>1 DEF CoTypes
  <1>4. PlaceInv'
    BY <1>1 DEF PlaceInv, EventAt
  <1>5. CASE call_back = "refresh"
    <2>1. FreeIds(timer) # {} /\ timer' = Register(timer, RefreshTicks, Global("refresh"))
      BY <1>5 DEF CallBackEnd
    <2>2. RefreshTicks \in Nat /\ Global("refresh") \in Handlers
      BY CoClientAssumption DEF Handlers
    <2> DEFINE new == [id |-> NewId(timer), left |-> RefreshTicks, handler |-> Global("refresh")]
    <2>3. /\ TimersOK(timer', timer_data, Handlers)
          /\ ArmedOf(timer', timer_data) = ArmedOf(timer, timer_data) \cup {new}
      BY <2>1, <2>2, RegisterArms DEF LoopInv
    <2>4. Live' = Live \cup {new} /\ new.handler = Global("refresh")
      BY <1>1, <2>3, LiveIsArmed
    <2> HIDE DEF new
    <2>5. LoopInv(Handlers)'
      BY <1>1, <1>2, <2>3, HandlerKeeps DEF LoopInv
    <2>6. {t \in Live' : t.handler # Global("refresh")} = {t \in Live : t.handler # Global("refresh")}
      BY <2>4
    <2>7. ArmedInv'
      BY <1>1, <2>4, <2>6, ArmedKeeps
    <2>8. QED
      BY <1>3, <1>4, <2>5, <2>7
  <1>6. CASE call_back # "refresh"
    <2>1. timer' = timer
      BY <1>6 DEF CallBackEnd
    <2>2. LoopInv(Handlers)'
      BY <1>1, <1>2, <2>1, HandlerKeeps DEF LoopInv
    <2>3. Live' = Live
      BY <1>1, <2>1, LiveIsArmed
    <2>4. ArmedInv'
      BY <1>1, <1>6, <2>3 DEF ArmedInv
    <2>5. QED
      BY <1>3, <1>4, <2>2, <2>4
  <1>7. QED
    BY <1>5, <1>6

LEMMA StopHandlerKeeps ==
  ASSUME CoInv, StopHandler
  PROVE  CoInv'
  <1> USE DEF CoInv
  <1>1. /\ LoopFree /\ RunTimer(Global("stop"))
        /\ \/ is_running' = FALSE /\ timer' = Fired
           \/ timer' = Register(Fired, RefreshTicks, Global("stop")) /\ UNCHANGED is_running
        /\ UNCHANGED <<interest, pc, is_open, timer_id, is_time_out, running, todo, call_back>>
    BY DEF StopHandler, clientVars, callVars
  <1>2. /\ loop' = "top" /\ fired' = {} /\ timer_data' = NoTimer /\ time_out_ms' = time_out_ms
        /\ TimersOK(Fired, NoTimer, Handlers) /\ FreeIds(Fired) # {}
        /\ {t \in ArmedOf(Fired, NoTimer) : t.handler # Global("stop")}
             = {t \in Live : t.handler # Global("stop")}
        /\ \E t \in ArmedOf(Fired, NoTimer) : t.handler = Global("refresh")
    BY <1>1, GlobalFires
  <1> DEFINE new == [id |-> NewId(Fired), left |-> RefreshTicks, handler |-> Global("stop")]
  <1>3. /\ TimersOK(timer', NoTimer, Handlers)
        /\ \/ ArmedOf(timer', NoTimer) = ArmedOf(Fired, NoTimer)
           \/ ArmedOf(timer', NoTimer) = ArmedOf(Fired, NoTimer) \cup {new}
    <2>1. RefreshTicks \in Nat /\ Global("stop") \in Handlers
      BY CoClientAssumption DEF Handlers
    <2>2. LET u == Register(Fired, RefreshTicks, Global("stop"))
          IN  /\ TimersOK(u, NoTimer, Handlers)
              /\ ArmedOf(u, NoTimer) = ArmedOf(Fired, NoTimer) \cup {new}
      BY <1>2, <2>1, RegisterArms
    <2>3. QED
      BY <1>1, <1>2, <2>2
  <1>4. /\ Live' = ArmedOf(Fired, NoTimer) \/ Live' = ArmedOf(Fired, NoTimer) \cup {new}
        /\ new.handler = Global("stop")
    BY <1>2, <1>3, LiveIsArmed
  <1> HIDE DEF new
  <1>5. LoopInv(Handlers)'
    BY <1>1, <1>2, <1>3, HandlerKeeps DEF LoopInv
  <1>6. CoTypes'
    BY <1>1 DEF CoTypes
  <1>7. PlaceInv'
    BY <1>1, <1>2 DEF PlaceInv, EventAt, LoopFree
  <1>8. ArmedInv'
    <2>1. {t \in Live' : t.handler # Global("stop")} = {t \in Live : t.handler # Global("stop")}
      BY <1>2, <1>4
    <2>2. \E t \in Live' : t.handler = Global("refresh")
      BY <1>2, <1>4
    <2>3. QED
      BY <1>1, <2>1, <2>2, ArmedKeeps
  <1>9. QED
    BY <1>5, <1>6, <1>7, <1>8
-----------------------------------------------------------------------------
LEMMA CoNextKeeps == CoInv /\ [CoClientNext]_ccVars => CoInv'
  <1> SUFFICES ASSUME CoInv, [CoClientNext]_ccVars PROVE CoInv'
    OBVIOUS
  <1>1. CASE LoopFree /\ (LoopStep \/ WaitEvents) /\ UNCHANGED coVars
    BY <1>1, LoopKeeps
  <1>2. CASE Tick /\ UNCHANGED coVars
    BY <1>2, TimeKeeps
  <1>3. CASE InitStart \/ RateLimitRefresh
    BY <1>3, CallBackBegins
  <1>4. CASE ReStart
    BY <1>4, ReStartKeeps
  <1>5. CASE CallBackEnd
    BY <1>5, CallBackEnds
  <1>6. CASE StopHandler
    BY <1>6, StopHandlerKeeps
  <1>7. ASSUME NEW c \in Client, EventCallBack(c) PROVE CoInv'
    BY <1>7, EventKeeps
  <1>8. ASSUME NEW c \in Client, TimeOutCallBack(c) PROVE CoInv'
    BY <1>8, TimeOutKeeps
  <1>9. ASSUME NEW c \in Client, ClientStep(c) PROVE CoInv'
    BY <1>9, ClientStepKeeps
  <1>10. CASE UNCHANGED ccVars
    <2>1. LoopInv(Handlers)'
      BY <1>10 DEF ccVars, loopVars, CoInv, LoopInv, SleepsInTime, Live, Heap, Popped
    <2>2. Live' = Live
      BY <1>10, LiveIsArmed DEF ccVars, loopVars
    <2>3. CoTypes' /\ PlaceInv' /\ ArmedInv'
      BY <1>10, <2>2 DEF ccVars, loopVars, coVars, clientVars, callVars, CoInv, CoTypes, PlaceInv,
                         EventAt, ArmedInv
    <2>4. QED
      BY <2>1, <2>3 DEF CoInv
  <1>11. QED
    BY <1>1, <1>2, <1>3, <1>4, <1>5, <1>6, <1>7, <1>8, <1>9, <1>10
       DEF CoClientNext, Thread, Environment

LEMMA CoClientInvariant == CoClientSpec => []CoInv
  <1>1. CoClientInit => CoInv
    BY CoInitInv
  <1>2. CoInv /\ [CoClientNext]_ccVars => CoInv'
    BY CoNextKeeps
  <1>3. QED
    BY <1>1, <1>2, PTL DEF CoClientSpec

(***************************************************************************)
(* The accounts of the timers hold throughout a run of the second load     *)
(* generator, and its loop never sleeps past a timer that is to fire: with *)
(* any number of clients, that arm, cancel and let expire a timer in every *)
(* call, and whatever the bounds on timers (timer.hpp, eventloopcore.cpp). *)
(***************************************************************************)
THEOREM TimersKept == CoClientSpec => [](TimerAccounts /\ SleepsInTime)
  <1>1. CoInv => TimerAccounts /\ SleepsInTime
    BY AccountsFollow DEF CoInv, LoopInv
  <1>2. QED
    BY <1>1, CoClientInvariant, PTL

(***************************************************************************)
(* A client that waits in a call has the event and the timer of that call, *)
(* and one that is stopped has the timer of the refresh; and whichever     *)
(* callback runs finds its client in the very call that registered it.     *)
(***************************************************************************)
THEOREM ClientsResumed == CoClientSpec => [](WaitIsBounded /\ CallBackInTime)
  <1>1. CoInv => WaitIsBounded
    <2> SUFFICES ASSUME CoInv PROVE WaitIsBounded
      OBVIOUS
    <2> USE DEF CoInv
    <2>1. ASSUME NEW c \in Client, pc[c] \in InIo
          PROVE  interest[c] = IF pc[c] = "reading" THEN "read" ELSE "write"
      BY <2>1 DEF PlaceInv, EventAt, EventOf, InIo
    <2>2. QED
      BY <2>1 DEF WaitIsBounded, ArmedInv
  <1>2. CoInv => CallBackInTime
    BY DEF CoInv, PlaceInv, ArmedInv, CallBackInTime
  <1>3. QED
    BY <1>1, <1>2, CoClientInvariant, PTL
=============================================================================
