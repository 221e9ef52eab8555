------------------------------ MODULE CoServer ------------------------------
(***************************************************************************)
(* The echo servers with a coroutine per connection: on epoll,             *)
(* EpollReactorSingleProcessCoroutine, EpollReactorProcessPoolCoroutine    *)
(* and two half-sync half-async ones, whose Producer coroutine hands a     *)
(* connection to a Consumer through a Channel or a ConditionVariable; and  *)
(* the three on io_uring.                                                  *)
(*                                                                         *)
(* The thread runs a coroutine until it yields.  Of the scheduler there is *)
(* what the servers can tell: how many coroutines are left, and which one  *)
(* an event resumes, the connection's cid.  A Consumer serves one          *)
(* connection and returns, and none is created later.  The channel has a   *)
(* slot for every client: the code's 3000 are more than the events that    *)
(* epoll_wait can return in a round.                                       *)
(***************************************************************************)
EXTENDS Reactor

CONSTANTS
  PoolSize,    \* bound: coroutines left at first, 5000 in the code, or 2000
  Consumers    \* bound: Consumer coroutines, 3000 in the code

ASSUME CoServerAssumption == PoolSize \in Nat \ {0} /\ Consumers \in Nat \ {0}

(* For each thread: the coroutines left, the Consumers that wait, and the
   notifications not yet dealt with. *)
VARIABLE pool

(* Consumers, if there are any, are created before the first event. *)
PoolInit(idle, consumers) == [idle |-> idle, waiting |-> consumers, notify_count |-> 0]

(* CoroutineCreate; if all coroutines are in use it returns kInvalidCid, and
   then the assert of CoroutineResume ends the process. *)
Create(t) == pool[t].idle > 0 /\ pool' = [pool EXCEPT ![t].idle = @ - 1]

Abort(t) == thread' = [thread EXCEPT ![t] = [Idler EXCEPT !.pc = "aborted"]]

CreateFails(t, c) ==
  /\ At(t, "events") /\ c \in thread[t].batch /\ pool[t].idle = 0 /\ conn[c].cid = "none"
  /\ Abort(t) /\ UNCHANGED <<conn, queue, pool>>

Returns(t) == pool' = [pool EXCEPT ![t].idle = @ + 1]

(* The thread runs the coroutine of c next. *)
Run(t, c, place) ==
  thread' = [thread EXCEPT ![t].batch = @ \ {c}, ![t].pc = place, ![t].cur = c]

(* The coroutine has yielded or returned. *)
Yielded(t) == Goto(t, IF thread[t].batch = {} THEN "top" ELSE "events", 0)
-----------------------------------------------------------------------------
(* The loop of handlerClient, which is that of Consumer too. *)
ReadLoop(t) ==
  LET c == thread[t].cur
  IN  /\ At(t, "reading") /\ UNCHANGED queue
      /\ \E r \in Read(conn[c], TRUE) :
           CASE r.error -> Update(c, ReleaseConn(r, t)) /\ Yielded(t) /\ Returns(t)
             [] OneMessage(r) -> /\ Update(c, ModToWriteEvent(Encoded(r), "lt"))
                                 /\ Goto(t, "writing", c) /\ UNCHANGED pool
             [] OTHER -> Update(c, [r EXCEPT !.cid = "reading"]) /\ Yielded(t) /\ UNCHANGED pool

WriteLoop(t) ==
  LET c == thread[t].cur
  IN  /\ At(t, "writing") /\ UNCHANGED queue
      /\ \E w \in WriteResults(conn[c]) :
           CASE w.error -> Update(c, ReleaseConn(w, t)) /\ Yielded(t) /\ Returns(t)
             [] ~ w.error /\ FinishWrite(w) ->
                  /\ Update(c, ModToReadEvent([ConnReset(w) EXCEPT !.codec = NewCodec], "lt"))
                  /\ Goto(t, "reading", c) /\ UNCHANGED pool
             [] OTHER -> Update(c, [w EXCEPT !.cid = "writing"]) /\ Yielded(t) /\ UNCHANGED pool

handlerLoop(t) == ReadLoop(t) \/ WriteLoop(t)

(* CoroutineResume of the connection's coroutine. *)
ResumeOn(t, c) ==
  /\ At(t, "events") /\ c \in thread[t].batch /\ conn[c].cid \in {"reading", "writing"}
  /\ Run(t, c, conn[c].cid) /\ UNCHANGED <<conn, queue, pool>>

(* The first event creates the coroutine, and runs it. *)
CreateOn(t, c) ==
  /\ At(t, "events") /\ c \in thread[t].batch /\ conn[c].cid = "none"
  /\ Create(t) /\ Run(t, c, "reading") /\ UNCHANGED <<conn, queue>>

Coroutines(t) ==
  \/ (ListenWait(t) \/ LoopAccept(t, All, NewReads(t, t, "lt"))) /\ UNCHANGED pool
  \/ \E c \in Client : CreateOn(t, c) \/ CreateFails(t, c) \/ ResumeOn(t, c)
  \/ handlerLoop(t)

EpollReactorSingleProcessCoroutine  == Coroutines(1)
EpollReactorProcessPoolCoroutine(t) == Coroutines(t)
-----------------------------------------------------------------------------
(* Producer: created by the first event, it takes the connection off epoll
   and hands it over; it returns at once, but its cid stays. *)
Producer(c, notify) ==
  /\ At(1, "events") /\ c \in thread[1].batch /\ conn[c].cid = "none" /\ pool[1].idle > 0
  /\ TakeEvent(1, c) /\ Update(c, [ClearEvent(conn[c]) EXCEPT !.cid = "producer"])
  /\ queue' = Append(queue, c)
  /\ pool' = [pool EXCEPT ![1].notify_count = @ + notify]

(* Mutant: the Producer's ClearEvent is not made up for. *)
ConsumerUnwatched(c) == [conn[c] EXCEPT !.cid = "reading"]

(* A Consumer that has been resumed takes the connection at the front, makes
   it its own, and serves it. *)
Consumer(c) == [AddReadEvent(conn[c], 1, "lt") EXCEPT !.cid = "reading"]

Consume(notify) ==
  LET c == Head(queue)
  IN  /\ Update(c, Consumer(c)) /\ Goto(1, "reading", c)
      /\ queue' = Tail(queue)
      /\ pool' = [pool EXCEPT ![1].waiting = @ - 1, ![1].notify_count = @ - notify]

(* When a round of events is over. *)
RoundOver == At(1, "top")

(* CoSemaphoreResume: a Consumer for each connection in the channel. *)
SemaphoreDue == queue # <<>> /\ pool[1].waiting > 0

(* CoCondResume: a Consumer for each notification; without one that waits
   the first of an empty set is taken: what happens is undefined. *)
CondDue == pool[1].notify_count > 0

CondResume ==
  /\ RoundOver /\ CondDue
  /\ IF pool[1].waiting > 0 THEN Consume(1)
     ELSE Abort(1) /\ UNCHANGED <<conn, queue, pool>>

HSHA(due, notify) ==
  \/ ~ due /\ ListenWait(1) /\ UNCHANGED pool
  \/ LoopAccept(1, All, NewReads(1, 1, "oneshot")) /\ UNCHANGED pool
  \/ \E c \in Client : Producer(c, notify) \/ CreateFails(1, c) \/ ResumeOn(1, c)
  \/ handlerLoop(1)

EpollReactorSingleProcessCoroutineHSHA1 ==
  HSHA(SemaphoreDue, 0) \/ (RoundOver /\ SemaphoreDue /\ Consume(0))

EpollReactorSingleProcessCoroutineHSHA2 == HSHA(CondDue, 1) \/ CondResume
=============================================================================
