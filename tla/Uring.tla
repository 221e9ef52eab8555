------------------------------- MODULE Uring -------------------------------
(***************************************************************************)
(* The echo servers on io_uring: a thread submits a read, a write or an    *)
(* accept, and waits for completions.  The handlers of the plain ones      *)
(* (IoUringProactorSingleProcess, IoUringProactorThreadPool) say what to   *)
(* submit next; in the others a coroutine per connection does, which waits *)
(* for each of its completions: one that the accept creates, or a Consumer *)
(* to which it is handed.                                                  *)
(*                                                                         *)
(* A connection's request is in flight or has a completion, never both,    *)
(* and so is the one that accepts, whose ring is the thread's.  The        *)
(* submission queue does not run full.                                     *)
(***************************************************************************)
EXTENDS CoServer

InFlight == {"read", "write"}

(* AddReadEvent, AddWriteEvent. *)
Submit(k, t, op) == [k EXCEPT !.op = op, !.event.epoll = t]

Ring(t) == {c \in Client : conn[c].event.epoll = t}

(* The kernel: what it has read, and the result, which send_len and the
   codec do not know yet; a write ends with some of it written, or fails. *)
Complete(c) ==
  LET k == conn[c]
  IN  /\ UNCHANGED <<thread, queue, pool>>
      /\ \/ /\ k.op = "read" /\ (k.inbox > 0 \/ k.phase = "down")
            /\ \E r \in Read(k, FALSE) :
                 Update(c, [r EXCEPT !.codec = k.codec, !.op = "was read", !.res = k.inbox - r.inbox])
         \/ /\ k.op = "write" /\ (k.outbox < SendBuf \/ k.phase = "down")
            /\ \E w \in WriteResults(k) :
                 Update(c, [w EXCEPT !.send_len = k.send_len, !.op = "written",
                                     !.res = w.send_len - k.send_len])

(* The accept: the descriptor is the completion's result. *)
CompleteAccept(t, c) ==
  /\ thread[t].index = 0 /\ c \in InBacklog(t)
  /\ Update(c, [Accepted(conn[c], t) EXCEPT !.op = "was accepted", !.event.epoll = t])
  /\ thread' = [thread EXCEPT ![t].index = 1] /\ UNCHANGED <<queue, pool>>

(* io_uring_wait_cqe and io_uring_peek_batch_cqe. *)
WaitCqe(t) ==
  LET cqes == {c \in Ring(t) : conn[c].op \in {"was read", "written", "was accepted"}}
  IN  /\ At(t, "top") /\ cqes # {}
      /\ thread' = [thread EXCEPT ![t].pc = "events", ![t].batch = cqes]
      /\ UNCHANGED <<conn, queue, pool>>

Cqe(t, c, op) == TakeEvent(t, c) /\ conn[c].op = op

(* The accept is submitted again. *)
AcceptAgain(t, c) ==
  /\ At(t, "events") /\ c \in thread[t].batch /\ conn[c].op = "was accepted"
  /\ thread' = [thread EXCEPT ![t].batch = @ \ {c}, ![t].index = 0,
                              ![t].pc = IF thread[t].batch = {c} THEN "top" ELSE "events"]
-----------------------------------------------------------------------------
(* What a read and a write that have ended are followed by. *)
AfterRead(k, t) ==
  IF k.res <= 0 THEN {ReleaseConn(k, t)}
  ELSE {IF OneMessage(r) THEN Submit(Encoded(r), t, "write") ELSE Submit(r, t, "read") :
          r \in {[k EXCEPT !.codec = DeCode(@, k.res, Body(k.req)), !.res = 0]}}

AfterWrite(k, t) ==
  IF k.error THEN {ReleaseConn(k, t)}
  ELSE {IF FinishWrite(w) THEN Submit(ConnReset(w), t, "read") ELSE Submit(w, t, "write") :
          w \in {[k EXCEPT !.send_len = @ + k.res, !.res = 0]}}

Becomes(c, results) == \E k \in results : Update(c, k)

OnAcceptEvent(t, c) ==
  /\ AcceptAgain(t, c) /\ Update(c, Submit(conn[c], t, "read")) /\ UNCHANGED <<queue, pool>>

OnReadEvent(t, c) ==
  Cqe(t, c, "was read") /\ Becomes(c, AfterRead(conn[c], t)) /\ UNCHANGED <<queue, pool>>

OnWriteEvent(t, c) ==
  Cqe(t, c, "written") /\ Becomes(c, AfterWrite(conn[c], t)) /\ UNCHANGED <<queue, pool>>

Proactor(t) ==
  WaitCqe(t) \/ \E c \in Client : OnAcceptEvent(t, c) \/ OnReadEvent(t, c) \/ OnWriteEvent(t, c)

IoUringProactorSingleProcess == Proactor(1)
IoUringProactorThreadPool(t) == Proactor(t)
-----------------------------------------------------------------------------
(* A coroutine is created for the connection and submits its first read. *)
AcceptCreates(c) ==
  /\ AcceptAgain(1, c) /\ Create(1)
  /\ Update(c, [Submit(conn[c], 1, "read") EXCEPT !.cid = "handler"]) /\ UNCHANGED queue

AcceptFails(c) == conn[c].op = "was accepted" /\ CreateFails(1, c)

(* The completion resumes it, and it returns if it has released the
   connection; the assert says that it has one. *)
HandlerClient(c) ==
  LET k == conn[c]
  IN  /\ TakeEvent(1, c) /\ k.op \in {"was read", "written"} /\ k.cid # "none"
      /\ \E r \in IF k.op = "was read" THEN AfterRead(k, 1) ELSE AfterWrite(k, 1) :
           /\ Update(c, r) /\ UNCHANGED queue
           /\ IF r.op = "none" THEN Returns(1) ELSE UNCHANGED pool

IoUringProactorSingleProcessCoroutine ==
  WaitCqe(1) \/ \E c \in Client : AcceptCreates(c) \/ AcceptFails(c) \/ HandlerClient(c)

(* A Producer hands the connection over, and a Consumer submits the read. *)
AcceptProduces(c, notify) ==
  /\ AcceptAgain(1, c) /\ pool[1].idle > 0
  /\ Update(c, [conn[c] EXCEPT !.cid = "producer", !.op = "none"])
  /\ queue' = Append(queue, c)
  /\ pool' = [pool EXCEPT ![1].notify_count = @ + notify]

ConsumeRequest(notify) ==
  LET c == Head(queue)
  IN  /\ Update(c, [Submit(conn[c], 1, "read") EXCEPT !.cid = "handler"])
      /\ queue' = Tail(queue) /\ UNCHANGED thread
      /\ pool' = [pool EXCEPT ![1].waiting = @ - 1, ![1].notify_count = @ - notify]

CondResumeRequest ==
  /\ RoundOver /\ CondDue
  /\ IF pool[1].waiting > 0 THEN ConsumeRequest(1)
     ELSE Abort(1) /\ UNCHANGED <<conn, queue, pool>>

ProactorHSHA(due, notify) ==
  \/ ~ due /\ WaitCqe(1)
  \/ \E c \in Client : AcceptProduces(c, notify) \/ AcceptFails(c) \/ HandlerClient(c)

IoUringProactorSingleProcessCoroutineHSHA1 ==
  ProactorHSHA(SemaphoreDue, 0) \/ (RoundOver /\ SemaphoreDue /\ ConsumeRequest(0))

IoUringProactorSingleProcessCoroutineHSHA2 == ProactorHSHA(CondDue, 1) \/ CondResumeRequest
=============================================================================
