------------------------------ MODULE Blocking ------------------------------
(***************************************************************************)
(* The echo servers with blocking input and output: a thread or a process  *)
(* serves one connection until it ends.  They differ in who accepts, and   *)
(* in who serves: SingleProcess, MultiProcess, MultiThread, ProcessPool1,  *)
(* ProcessPool2, ThreadPool and LeaderAndFollower.                         *)
(***************************************************************************)
EXTENDS EchoConn

(* handlerClient: RecvMsg reads until it has a message, with a codec of its
   own, or fails ... *)
RecvMsg(t) ==
  LET c == thread[t].cur
  IN  /\ At(t, "recv") /\ (conn[c].inbox > 0 \/ conn[c].phase = "down")
      /\ \E r \in Read(conn[c], FALSE) :
           CASE r.error       -> Update(c, r) /\ Goto(t, "close", c)
             [] OneMessage(r) -> Update(c, Encoded(r)) /\ Goto(t, "send", c)
             [] OTHER         -> Update(c, r) /\ UNCHANGED thread
      /\ UNCHANGED queue

(* ... and SendMsg writes until all is written. *)
SendMsg(t) ==
  LET c == thread[t].cur
  IN  /\ At(t, "send") /\ (conn[c].outbox < SendBuf \/ conn[c].phase = "down")
      /\ \E w \in WriteResults(conn[c]) :
           CASE w.error        -> Update(c, w) /\ Goto(t, "close", c)
             [] FinishWrite(w) -> /\ Update(c, [ConnReset(w) EXCEPT !.codec = NewCodec])
                                  /\ Goto(t, "recv", c)
             [] OTHER          -> Update(c, w) /\ UNCHANGED thread
      /\ UNCHANGED queue

handlerClient(t) == RecvMsg(t) \/ SendMsg(t)

(* p closes the connection when handlerClient has returned. *)
CloseClient(t, p) ==
  /\ At(t, "close")
  /\ Update(thread[t].cur, Deleted(Close(conn[thread[t].cur], p)))
  /\ Goto(t, "top", 0) /\ UNCHANGED queue

Accept(t, listener, p, place) ==
  \E c \in InBacklog(listener) :
    /\ Update(c, Accepted(conn[c], p)) /\ Goto(t, place, c) /\ UNCHANGED queue
-----------------------------------------------------------------------------
SingleProcess ==
  \/ At(1, "top") /\ Accept(1, 1, 1, "recv")
  \/ handlerClient(1) \/ CloseClient(1, 1)

(* The workers, processes, share one socket ... *)
ProcessPool1(t) ==
  \/ At(t, "top") /\ Accept(t, 1, t, "recv")
  \/ handlerClient(t) \/ CloseClient(t, t)

(* ... or have one each ... *)
ProcessPool2(t) ==
  \/ At(t, "top") /\ Accept(t, t, t, "recv")
  \/ handlerClient(t) \/ CloseClient(t, t)

(* ... or are threads with one each ... *)
ThreadPool(t) ==
  \/ At(t, "top") /\ Accept(t, t, 1, "recv")
  \/ handlerClient(t) \/ CloseClient(t, 1)

(* ... or threads that take turns at the one they share: the leader has the
   mutex until it has a connection. *)
LeaderAndFollower(t) ==
  \/ /\ At(t, "top") /\ \A u \in DOMAIN thread : ~ At(u, "leader")
     /\ Goto(t, "leader", 0) /\ UNCHANGED <<conn, queue>>
  \/ At(t, "leader") /\ Accept(t, 1, 1, "recv")
  \/ handlerClient(t) \/ CloseClient(t, 1)

(* The thread, or the process, made for connection c. *)
Of(c) == 1 + c

MultiThread ==
  \/ \E c \in InBacklog(1) :
       /\ Update(c, Accepted(conn[c], 1)) /\ Goto(Of(c), "recv", c) /\ UNCHANGED queue
  \/ \E c \in Client : handlerClient(Of(c)) \/ CloseClient(Of(c), 1)

(* fork: the child has a copy of every descriptor, and may be done with its
   own before the parent goes on; or there is no child. *)
Fork(c) ==
  /\ At(1, "top") /\ c \in InBacklog(1)
  /\ \/ /\ Update(c, [Accepted(conn[c], 1) EXCEPT !.fds = {1, Of(c)}])
        /\ thread' = [thread EXCEPT ![1].pc = "forked", ![1].cur = c,
                                    ![Of(c)].pc = "recv", ![Of(c)].cur = c]
     \/ Update(c, Accepted(conn[c], 1)) /\ Goto(1, "not forked", c)
  /\ UNCHANGED queue

(* Mutant: the parent does not close its copy of the descriptor. *)
ParentKeeps(c) ==
  /\ At(1, "forked") /\ thread[1].cur = c
  /\ Goto(1, "top", 0) /\ UNCHANGED <<conn, queue>>

ParentCloses(c) ==
  /\ thread[1].cur = c
  /\ \/ At(1, "forked") /\ Update(c, Close(conn[c], 1))
     \/ At(1, "not forked") /\ Update(c, Refused(conn[c]))
  /\ Goto(1, "top", 0) /\ UNCHANGED queue

MultiProcess ==
  \E c \in Client :
    Fork(c) \/ ParentCloses(c) \/ handlerClient(Of(c)) \/ CloseClient(Of(c), Of(c))
=============================================================================
