------------------------------ MODULE EchoConn ------------------------------
(***************************************************************************)
(* What all the echo servers of src/ConcurrencyModel have in common: their *)
(* clients, the two buffers of each client's socket, the Conn that reads   *)
(* and writes it, its registration with an epoll instance, and threads.    *)
(*                                                                         *)
(* A client sends a request, in one or several parts, and the next one     *)
(* when it has the whole answer, as those of src/BenchMark do; it may      *)
(* close the connection at any time, and a request in flight may be lost   *)
(* then.  A thread is a thread or a process.                               *)
(***************************************************************************)
EXTENDS Codec, Sequences, FiniteSets, FiniteSetsExt

CONSTANTS
  Clients,    \* how many clients connect
  Threads,    \* threads or processes of a server that has more than one
  Requests,   \* requests of each client
  SendBuf     \* what the kernel buffers of an answer

ASSUME EchoConnAssumption ==
  /\ Clients \in Nat \ {0} /\ SendBuf \in Nat \ {0}
  /\ Threads \in Nat /\ Threads > Clients   \* MultiThread has one for each client
  /\ Requests \in [1 .. Clients -> Nat \ {0}]

VARIABLES
  conn,     \* for each client: its side, its socket, and the server's Conn
  thread,   \* for each thread: where it is, and what its locals refer to
  queue     \* what threads hand to each other

echoVars == <<conn, thread, queue>>

Client == 1 .. Clients

Sock == 0   \* the listening socket, among the sources of events

(* The lengths of the bodies: a client's second request is longer than the
   first, and its third shorter again. *)
Body(req) == (req + 1) % 2

NoEvent == [epoll |-> 0, type |-> "none", mode |-> "lt", armed |-> FALSE]

NewConn ==
  [phase |-> "new", req |-> 0, unsent |-> 0, want |-> 0,    \* the client
   listener |-> 0, inbox |-> 0, outbox |-> 0, fds |-> {},   \* the socket, and who has it open
   codec |-> NewCodec, pkt |-> Alloc(0), send_len |-> 0, error |-> FALSE,
   event |-> NoEvent, cid |-> "none", op |-> "none", res |-> 0]

(* A thread's place, the sources of events it has still to handle, and the
   connection it is busy with; 0 if none. *)
Idler == [pc |-> "top", batch |-> {}, cur |-> 0, index |-> 0]
-----------------------------------------------------------------------------
(* Conn::Read: one call to read, and as many as it takes. *)
MinOf(a, b) == IF a <= b THEN a ELSE b

ReadOnce(k) ==
  LET len == MinOf(k.inbox, CanWriteLen(k.codec.pkt))
  IN  CASE k.codec.decode_status = "FINISH" -> k
        [] k.codec.decode_status # "FINISH" /\ k.inbox = 0 -> [k EXCEPT !.error = k.phase = "down"]
        [] OTHER -> [k EXCEPT !.inbox = @ - len, !.codec = DeCode(@, len, Body(k.req))]

(* Three are as good as any number: head, body, and what comes after.  The
   results are a set, here of one, as those of Write are. *)
Read(k, is_multi_io) ==
  IF is_multi_io THEN {ReadOnce(s) : s \in {ReadOnce(r) : r \in {ReadOnce(k)}}} ELSE {ReadOnce(k)}

OneMessage(k) == k.codec.decode_status = "FINISH" /\ k.codec.msg

(* GetMessage and EnCode. *)
Encoded(k) == [k EXCEPT !.codec.msg = FALSE, !.pkt = EnCode(k.codec.body_len)]

(* Conn::Write writes what there is room for, were it nothing. *)
Write(k) ==
  LET len == MinOf(SendBuf - k.outbox, k.pkt.use_len - k.send_len)
  IN  [k EXCEPT !.send_len = @ + len, !.outbox = @ + len]

(* Once the client has closed the connection it fails, or all that is left
   goes nowhere. *)
WriteResults(k) ==
  IF k.phase = "down" THEN {[k EXCEPT !.error = TRUE], [k EXCEPT !.send_len = k.pkt.use_len]}
  ELSE {Write(k)}

FinishWrite(k) == k.send_len = k.pkt.use_len

(* Mutant: the answer's length sent is not reset. *)
ConnResetKeepsLen(k) == [k EXCEPT !.codec = Reset(@), !.pkt = PacketReset(@)]

ConnReset(k) == [k EXCEPT !.codec = Reset(@), !.send_len = 0, !.pkt = PacketReset(@)]
-----------------------------------------------------------------------------
(***************************************************************************)
(* epoll.  A level-triggered registration is always armed; an edge-        *)
(* triggered one when something has happened since it was last reported; a *)
(* one-shot one until it is reported.  Each call asserts that it succeeds. *)
(***************************************************************************)
Registered(k) == k.event.epoll # 0

Event(epoll, type, mode) == [epoll |-> epoll, type |-> type, mode |-> mode, armed |-> TRUE]

AddReadEvent(k, epoll, mode) == [k EXCEPT !.event = Event(epoll, "read", mode)]

ReStartReadEvent(k)      == [k EXCEPT !.event = Event(@.epoll, "read", "oneshot")]
ModToReadEvent(k, mode)  == [k EXCEPT !.event = Event(@.epoll, "read", mode)]
ModToWriteEvent(k, mode) == [k EXCEPT !.event = Event(@.epoll, "write", mode)]

ClearEvent(k) == [k EXCEPT !.event = NoEvent]

(* p closes its copy of the descriptor; with the last one goes what has not
   been read. *)
Close(k, p) == [k EXCEPT !.fds = @ \ {p}, !.inbox = IF k.fds = {p} THEN 0 ELSE @]

Deleted(k) ==
  [k EXCEPT !.codec = NewCodec, !.pkt = Alloc(0), !.send_len = 0, !.error = FALSE,
            !.cid = "none", !.op = "none", !.res = 0]

(* ClearEvent, close and delete. *)
ReleaseConn(k, p) == Deleted(Close(ClearEvent(k), p))

IsReady(k) ==
  k.event.armed /\ CASE k.event.type = "read"  -> k.inbox > 0 \/ k.phase = "down"
                     [] k.event.type = "write" -> k.outbox < SendBuf \/ k.phase = "down"
                     [] OTHER -> FALSE

(* Something has happened that an edge-triggered registration for one of
   `types' reports. *)
Edge(k, types) == [k EXCEPT !.event.armed = @ \/ (k.event.mode = "et" /\ k.event.type \in types)]

Reported(k) == [k EXCEPT !.event.armed = k.event.mode = "lt"]

(* The connections that wait to be accepted from the socket of p. *)
InBacklog(p) == {c \in Client : conn[c].listener = p /\ p # 0}

Ready(epoll) == {c \in Client : conn[c].event.epoll = epoll /\ IsReady(conn[c])}

(* epoll_wait returns all that is ready; the instance may watch a socket
   that is not a client's, of which is_readable tells. *)
EpollWait(t, epoll, is_readable) ==
  LET events == Ready(epoll) \cup {s \in {Sock} : is_readable}
  IN  /\ thread[t].pc = "top" /\ events # {}
      /\ thread' = [thread EXCEPT ![t].pc = "events", ![t].batch = events]
      /\ conn' = [c \in Client |-> IF c \in Ready(epoll) THEN Reported(conn[c]) ELSE conn[c]]
      /\ UNCHANGED queue

(* The one of a thread with a listening socket of its own. *)
ListenWait(t) == EpollWait(t, t, InBacklog(t) # {})

(* Thread t takes an event of its batch, whichever. *)
TakeEvent(t, s) ==
  /\ thread[t].pc = "events" /\ s \in thread[t].batch
  /\ thread' = [thread EXCEPT ![t].batch = @ \ {s},
                              ![t].pc = IF thread[t].batch = {s} THEN "top" ELSE "events"]

Update(c, k) == conn' = [conn EXCEPT ![c] = k]

(* The thread goes on to handle connection c, at `place'. *)
At(t, place) == thread[t].pc = place
Goto(t, place, c) == thread' = [thread EXCEPT ![t].pc = place, ![t].cur = c]

(* accept, by process p; and a connection that the server closes unserved. *)
Accepted(k, p) == [k EXCEPT !.listener = 0, !.fds = {p}]
Refused(k)     == [k EXCEPT !.listener = 0, !.fds = {}, !.inbox = 0, !.error = TRUE]
-----------------------------------------------------------------------------
(***************************************************************************)
(* The client.                                                             *)
(***************************************************************************)
Connect(c, listener) ==
  /\ conn[c].phase = "new"
  /\ Update(c, [conn[c] EXCEPT !.phase = "up", !.listener = listener])

(* A new request, unless the last one has no answer yet. *)
Ask(c) ==
  LET k == conn[c]
      len == HeadLen + Body(k.req + 1)
  IN  /\ k.phase = "up" /\ k.want = 0 /\ k.req < Requests[c]
      /\ Update(c, [k EXCEPT !.req = @ + 1, !.unsent = len, !.want = len])

(* A part of it, or the rest, arrives. *)
Send(c) ==
  /\ conn[c].phase = "up" /\ conn[c].unsent > 0
  /\ \E n \in {1, conn[c].unsent} :
       Update(c, Edge([conn[c] EXCEPT !.unsent = @ - n,
                                      !.inbox = IF conn[c].fds = {} /\ conn[c].listener = 0
                                                THEN 0 ELSE @ + n], {"read"}))

(* The client reads what there is of the answer. *)
Take(c) ==
  /\ conn[c].phase = "up" /\ conn[c].outbox > 0
  /\ Update(c, Edge([conn[c] EXCEPT !.want = @ - conn[c].outbox, !.outbox = 0], {"write"}))

(* It closes; what it has sent arrives, or is lost. *)
Hangup(c) ==
  /\ conn[c].phase = "up"
  /\ \E n \in {0, conn[c].inbox} :
       Update(c, Edge([conn[c] EXCEPT !.phase = "down", !.unsent = 0, !.want = 0,
                                      !.inbox = n, !.outbox = 0], {"read", "write"}))

(* It is done, or the server has closed the connection. *)
Leave(c) ==
  /\ \/ conn[c].want = 0 /\ conn[c].req = Requests[c]
     \/ conn[c].listener = 0 /\ conn[c].fds = {}
  /\ Hangup(c)

ClientInit == conn = [c \in Client |-> NewConn]
=============================================================================
