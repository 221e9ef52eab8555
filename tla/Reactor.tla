------------------------------ MODULE Reactor ------------------------------
(***************************************************************************)
(* The echo servers in which a thread waits for events of all its          *)
(* connections: EpollReactorSingleProcess, the one with edge-triggered     *)
(* events, EpollReactorThreadPool, and those with poll and select; and     *)
(* Epoll, Poll and Select, which wait for a request but then serve that    *)
(* connection until it ends.                                               *)
(*                                                                         *)
(* With poll and select, a descriptor is in read_fds or in write_fds when  *)
(* its event says so, and what was ready is a copy, as in an epoll batch.  *)
(***************************************************************************)
EXTENDS Blocking

(* LoopAccept: `max' connections, or as many as there are; what becomes of
   each is `accepted'. *)
LoopAccept(t, max, accepted) ==
  /\ TakeEvent(t, Sock) /\ UNCHANGED queue
  /\ \E S \in SUBSET InBacklog(t) :
       /\ Cardinality(S) = MinOf(max, Cardinality(InBacklog(t)))
       /\ conn' = [c \in Client |-> IF c \in S THEN accepted[c] ELSE conn[c]]

All == Clients

(* The handler of an event leaves the connection as one of `results'. *)
Handle(t, c, results) ==
  TakeEvent(t, c) /\ UNCHANGED queue /\ \E k \in results : Update(c, k)

(* Written: back to reading, or more to write later; after an error gone. *)
Done(w, p, mode) ==
  IF w.error THEN ReleaseConn(w, p)
  ELSE IF FinishWrite(w) THEN ModToReadEvent(ConnReset(w), mode)
  ELSE w

(* EPOLLIN. *)
ReadEvent(k, p, is_multi_io, mode) ==
  {IF r.error THEN ReleaseConn(r, p)
   ELSE IF OneMessage(r) THEN ModToWriteEvent(Encoded(r), mode)
   ELSE r : r \in Read(k, is_multi_io)}

(* EPOLLOUT. *)
WriteEvent(k, p, mode) == {Done(w, p, mode) : w \in WriteResults(k)}

ReadWrite(t, c, p, is_multi_io, mode) ==
  Handle(t, c, IF conn[c].event.type = "read" THEN ReadEvent(conn[c], p, is_multi_io, mode)
               ELSE WriteEvent(conn[c], p, mode))
-----------------------------------------------------------------------------
(* Write first: the answer is written at once, as far as possible. *)
WriteFirst(k, is_multi_io) ==
  UNION {IF r.event.type = "write" THEN WriteEvent(r, 1, "lt") ELSE {r} :
           r \in ReadEvent(k, 1, is_multi_io, "lt")}

NewRead(k, p, epoll, mode) == AddReadEvent(Accepted(k, p), epoll, mode)

NewReads(p, epoll, mode) == [c \in Client |-> NewRead(conn[c], p, epoll, mode)]

AllRefused == [c \in Client |-> Refused(conn[c])]

EpollReactorSingleProcess(is_multi_io, is_loop_accept, is_write_first) ==
  \/ ListenWait(1)
  \/ LoopAccept(1, IF is_loop_accept THEN All ELSE 1, NewReads(1, 1, "lt"))
  \/ \E c \in Client :
       IF is_write_first /\ conn[c].event.type = "read"
       THEN Handle(1, c, WriteFirst(conn[c], is_multi_io))
       ELSE ReadWrite(1, c, 1, is_multi_io, "lt")

EpollReactorSingleProcessET ==
  \/ ListenWait(1)
  \/ LoopAccept(1, All, NewReads(1, 1, "et"))
  \/ \E c \in Client : ReadWrite(1, c, 1, TRUE, "et")

(* A thread, with a socket and an epoll instance of its own. *)
EpollReactorThreadPool(t) ==
  \/ ListenWait(t)
  \/ LoopAccept(t, All, NewReads(1, t, "lt"))
  \/ \E c \in Client : ReadWrite(t, c, 1, TRUE, "lt")

(* With poll and select, all that is to be read goes first; with select, a
   descriptor of FD_SETSIZE or more is closed. *)
Reads == {s \in thread[1].batch : s # Sock => conn[s].event.type = "read"}

ReadsFirst(c) == (c \in Reads \/ Reads = {}) /\ ReadWrite(1, c, 1, TRUE, "lt")

PollReactorSingleProcess ==
  \/ ListenWait(1)
  \/ LoopAccept(1, All, NewReads(1, 1, "lt"))
  \/ \E c \in Client : ReadsFirst(c)

SelectReactorSingleProcess ==
  \/ ListenWait(1)
  \/ LoopAccept(1, All, NewReads(1, 1, "lt"))
  \/ LoopAccept(1, All, AllRefused)
  \/ \E c \in Client : ReadsFirst(c)
-----------------------------------------------------------------------------
(* Epoll, Poll and Select: the connection is served until it ends, while
   the rest of the batch waits. *)
ServeEvent(c) ==
  /\ At(1, "events") /\ c \in thread[1].batch
  /\ thread' = [thread EXCEPT ![1].batch = @ \ {c}, ![1].pc = "recv", ![1].cur = c]
  /\ UNCHANGED <<conn, queue>>

Served ==
  /\ At(1, "close")
  /\ Update(thread[1].cur, ReleaseConn(conn[thread[1].cur], 1))
  /\ Goto(1, IF thread[1].batch = {} THEN "top" ELSE "events", 0)
  /\ UNCHANGED queue

Epoll(is_loop_accept) ==
  \/ ListenWait(1)
  \/ LoopAccept(1, IF is_loop_accept THEN All ELSE 1, NewReads(1, 1, "lt"))
  \/ \E c \in Client : ServeEvent(c)
  \/ handlerClient(1) \/ Served

Poll ==
  \/ ListenWait(1)
  \/ LoopAccept(1, All, NewReads(1, 1, "lt"))
  \/ \E c \in Client : ServeEvent(c)
  \/ handlerClient(1) \/ Served

(* The listening socket has the lowest descriptor and goes first. *)
Select ==
  \/ ListenWait(1)
  \/ LoopAccept(1, All, NewReads(1, 1, "lt")) \/ LoopAccept(1, All, AllRefused)
  \/ \E c \in Client : Sock \notin thread[1].batch /\ ServeEvent(c)
  \/ handlerClient(1) \/ Served
=============================================================================
