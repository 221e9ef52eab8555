----------------------------- MODULE MasterSub -----------------------------
(***************************************************************************)
(* The main-reactor sub-reactor servers: EpollReactorThreadPoolMS, whose   *)
(* main thread registers a connection with the epoll instance of one of    *)
(* the other threads, in turn, and EpollReactorProcessPoolMS, whose main   *)
(* process sends the descriptor to one of the others over a socket and     *)
(* closes its own copy.  With is_main_read that happens when the first     *)
(* data of the connection have come, otherwise when it is accepted.        *)
(***************************************************************************)
EXTENDS Reactor

(* The sub-reactors are threads, or processes, 2 and on; the next one's turn. *)
Subs == 2 .. Threads

NextSub == 2 + ((thread[1].index + 1) % Cardinality(Subs))

Turn(on) == thread' = [on EXCEPT ![1].index = (@ + 1) % Cardinality(Subs)]

(* LoopAccept takes one connection after the other until none is left. *)
AcceptEnds == TakeEvent(1, Sock) /\ InBacklog(1) = {} /\ UNCHANGED <<conn, queue>>

Accepting(c) == At(1, "events") /\ Sock \in thread[1].batch /\ c \in InBacklog(1)

AcceptToMain(c) ==
  /\ Accepting(c) /\ Update(c, NewRead(conn[c], 1, 1, "lt"))
  /\ UNCHANGED <<thread, queue>>

(* An event of c: the main reactor will not see another. *)
Leaving(c) == At(1, "events") /\ c \in thread[1].batch

Rest(c) == [thread EXCEPT ![1].batch = @ \ {c}, ![1].pc = IF thread[1].batch = {c} THEN "top" ELSE "events"]
-----------------------------------------------------------------------------
(* addToSubReactor: the sub-reactor may see its first event at once. *)
mainReactorThread(c, is_main_read) ==
  \/ is_main_read /\ AcceptToMain(c)
  \/ /\ ~ is_main_read /\ Accepting(c) /\ Update(c, NewRead(conn[c], 1, NextSub, "lt"))
     /\ Turn(thread) /\ UNCHANGED queue
  \/ /\ Leaving(c) /\ Update(c, AddReadEvent(ClearEvent(conn[c]), NextSub, "lt"))
     /\ Turn(Rest(c)) /\ UNCHANGED queue

subReactorThread(t) ==
  EpollWait(t, t, FALSE) \/ \E c \in Client : ReadWrite(t, c, 1, TRUE, "lt")

EpollReactorThreadPoolMS(is_main_read) ==
  \/ ListenWait(1) \/ AcceptEnds
  \/ \E c \in Client : mainReactorThread(c, is_main_read)
  \/ \E t \in Subs : subReactorThread(t)
-----------------------------------------------------------------------------
(* SendFd: a copy of the descriptor is on its way to the sub-reactor; then
   the main reactor closes its own, when the other may have it already. *)
Transit == 0

SendFd(c, k) ==
  /\ Update(c, [k EXCEPT !.fds = @ \cup {Transit}])
  /\ queue' = [queue EXCEPT ![NextSub] = Append(@, c)]

CloseSent(c) ==
  /\ At(1, "sent") /\ thread[1].cur = c
  /\ Update(c, Close(conn[c], 1))
  /\ Goto(1, IF thread[1].batch = {} THEN "top" ELSE "events", 0)
  /\ UNCHANGED queue

Sending(on, c) == Turn([on EXCEPT ![1].pc = "sent", ![1].cur = c])

mainReactorProcess(c, is_main_read) ==
  \/ is_main_read /\ AcceptToMain(c)
  \/ ~ is_main_read /\ Accepting(c) /\ SendFd(c, Accepted(conn[c], 1)) /\ Sending(thread, c)
  \/ Leaving(c) /\ SendFd(c, ClearEvent(conn[c])) /\ Sending(Rest(c), c)
  \/ CloseSent(c)

(* RecvFd, once for each event of the socket. *)
RecvFd(t) ==
  /\ TakeEvent(t, Sock) /\ queue' = [queue EXCEPT ![t] = Tail(@)]
  /\ LET c == Head(queue[t])
     IN  Update(c, AddReadEvent([conn[c] EXCEPT !.fds = (@ \ {Transit}) \cup {t}], t, "lt"))

subReactorProcess(t) ==
  \/ EpollWait(t, t, queue[t] # <<>>) \/ RecvFd(t)
  \/ \E c \in Client : ReadWrite(t, c, t, TRUE, "lt")

EpollReactorProcessPoolMS(is_main_read) ==
  \/ ListenWait(1) \/ AcceptEnds
  \/ \E c \in Client : mainReactorProcess(c, is_main_read)
  \/ \E t \in Subs : subReactorProcess(t)
=============================================================================
