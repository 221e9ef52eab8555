------------------------------ MODULE HandOff ------------------------------
(***************************************************************************)
(* The half-sync half-async servers EpollReactorThreadPoolHSHA1 and HSHA2: *)
(* threads that wait for events read requests and push their connections   *)
(* to a queue, from which workers take them; a worker encodes the answer   *)
(* and writes it itself, or leaves it to the thread that read the request. *)
(*                                                                         *)
(* In HSHA1 the queue has a mutex and a condition variable; in HSHA2 it is *)
(* bounded, with two semaphores.  What a thread does while it holds the    *)
(* mutex is one step.                                                      *)
(***************************************************************************)
EXTENDS Reactor

CONSTANT BufferSize   \* queue_buffer_size

ASSUME HandOffAssumption == BufferSize \in Nat \ {0}

VARIABLE sem   \* Idle and Fill

HandOffInit == sem = [Idle |-> BufferSize, Fill |-> 0]
-----------------------------------------------------------------------------
(* ioHandler.  Mutant: the event is not one-shot. *)
NewLasting(k, t) == NewRead(k, 1, t, "lt")

NewOneShot(k, t) == NewRead(k, 1, t, "oneshot")

(* EPOLLIN: a whole request is pushed, after one that is not the event is
   started again. *)
ReadRequest(t, c) ==
  /\ conn[c].event.type = "read" /\ UNCHANGED <<queue, sem>>
  /\ At(t, "events") /\ c \in thread[t].batch
  /\ \E r \in Read(conn[c], TRUE) :
       IF ~ r.error /\ OneMessage(r)
       THEN /\ thread' = [thread EXCEPT ![t].batch = @ \ {c}, ![t].pc = "push", ![t].cur = c]
            /\ Update(c, r)
       ELSE /\ TakeEvent(t, c)
            /\ Update(c, IF r.error THEN ReleaseConn(r, 1) ELSE ReStartReadEvent(r))

WriteAnswer(t, c) ==
  /\ conn[c].event.type = "write" /\ UNCHANGED sem
  /\ Handle(t, c, WriteEvent(conn[c], 1, "oneshot"))

ioHandler(t) ==
  \/ ListenWait(t) /\ UNCHANGED sem
  \/ LoopAccept(t, All, [c \in Client |-> NewOneShot(conn[c], t)]) /\ UNCHANGED sem
  \/ \E c \in Client : ReadRequest(t, c) \/ WriteAnswer(t, c)
-----------------------------------------------------------------------------
(* workerHandler, when it has a connection: with is_direct it writes until
   all is written, otherwise it has the event of the answer watched. *)
WorkerDone(w) ==
  IF w.error THEN ReleaseConn(w, 1) ELSE ReStartReadEvent(ConnReset(w))

Work(t, is_direct) ==
  LET c == thread[t].cur
  IN  /\ At(t, "work") /\ UNCHANGED <<queue, sem>>
      /\ IF ~ is_direct THEN Update(c, ModToWriteEvent(conn[c], "lt")) /\ Goto(t, "top", 0)
         ELSE \E w \in WriteResults(conn[c]) :
                IF w.error \/ FinishWrite(w) THEN Update(c, WorkerDone(w)) /\ Goto(t, "top", 0)
                ELSE Update(c, w) /\ UNCHANGED thread

(* The worker takes the connection at the front, and encodes the answer. *)
TakeFront(t) ==
  /\ queue # <<>> /\ queue' = Tail(queue)
  /\ Update(Head(queue), Encoded(conn[Head(queue)]))
-----------------------------------------------------------------------------
(* HSHA1: push under the mutex, then notify one worker that waits. *)
Push(t, place) ==
  /\ queue' = Append(queue, thread[t].cur)
  /\ Goto(t, place, 0) /\ UNCHANGED <<conn, sem>>

NotifyOne(t, place, c, workers) ==
  LET on == [thread EXCEPT ![t].pc = place, ![t].cur = c]
      waiting == {w \in workers : At(w, "wait")}
  IN  /\ UNCHANGED <<conn, queue, sem>>
      /\ IF waiting = {} THEN thread' = on
         ELSE \E w \in waiting : thread' = [on EXCEPT ![w].pc = "top"]

(* Where the thread goes when its connection is in the queue. *)
Onward(t) == IF thread[t].batch = {} THEN "top" ELSE "events"

(* Mutant: the notification comes first. *)
pushToQueue1Late(t, workers) ==
  \/ At(t, "push") /\ NotifyOne(t, "late", thread[t].cur, workers)
  \/ At(t, "late") /\ Push(t, Onward(t))

pushToQueue1(t, workers) ==
  \/ At(t, "push") /\ Push(t, "notify")
  \/ At(t, "notify") /\ NotifyOne(t, Onward(t), 0, workers)

(* Cond.wait: the predicate is tested, and if it is false the worker waits,
   all under the mutex. *)
getQueueData1(w) ==
  /\ At(w, "top") /\ UNCHANGED sem
  /\ IF queue = <<>> THEN Goto(w, "wait", 0) /\ UNCHANGED <<conn, queue>>
     ELSE TakeFront(w) /\ Goto(w, "work", Head(queue))
-----------------------------------------------------------------------------
(* HSHA2: sem_wait(&Idle), push under the mutex, sem_post(&Fill). *)
pushToQueue2(t) ==
  \/ /\ At(t, "push") /\ sem.Idle > 0 /\ sem' = [sem EXCEPT !.Idle = @ - 1]
     /\ Goto(t, "slot", thread[t].cur) /\ UNCHANGED <<conn, queue>>
  \/ At(t, "slot") /\ Push(t, "fill")
  \/ /\ At(t, "fill") /\ sem' = [sem EXCEPT !.Fill = @ + 1]
     /\ Goto(t, Onward(t), 0) /\ UNCHANGED <<conn, queue>>

(* Mutant: the slot is given back before the connection has been taken. *)
getQueueData2Early(w) ==
  \/ /\ At(w, "top") /\ sem.Fill > 0
     /\ sem' = [Idle |-> sem.Idle + 1, Fill |-> sem.Fill - 1]
     /\ Goto(w, "item", 0) /\ UNCHANGED <<conn, queue>>
  \/ At(w, "item") /\ TakeFront(w) /\ Goto(w, "work", Head(queue)) /\ UNCHANGED sem

getQueueData2(w) ==
  \/ /\ At(w, "top") /\ sem.Fill > 0 /\ sem' = [sem EXCEPT !.Fill = @ - 1]
     /\ Goto(w, "item", 0) /\ UNCHANGED <<conn, queue>>
  \/ At(w, "item") /\ TakeFront(w) /\ Goto(w, "idle", Head(queue)) /\ UNCHANGED sem
  \/ /\ At(w, "idle") /\ sem' = [sem EXCEPT !.Idle = @ + 1]
     /\ Goto(w, "work", thread[w].cur) /\ UNCHANGED <<conn, queue>>
-----------------------------------------------------------------------------
HSHA1(io, workers, is_direct) ==
  \/ \E t \in io : ioHandler(t) \/ pushToQueue1(t, workers)
  \/ \E w \in workers : getQueueData1(w) \/ Work(w, is_direct)

HSHA2(io, workers, is_direct) ==
  \/ \E t \in io : ioHandler(t) \/ pushToQueue2(t)
  \/ \E w \in workers : getQueueData2(w) \/ Work(w, is_direct)
=============================================================================
