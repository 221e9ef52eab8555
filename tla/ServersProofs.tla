--------------------------- MODULE ServersProofs ----------------------------
(***************************************************************************)
(* Theorems about the echo servers, for any number of clients, requests,   *)
(* threads and coroutines, any sizes of messages and buffers.              *)
(***************************************************************************)
EXTENDS Servers, FiniteSetTheorems, SequenceTheorems, TLAPS

-----------------------------------------------------------------------------
(***************************************************************************)
(* What the operators on a connection leave alone.                         *)
(***************************************************************************)
(* A connection and its registration, whatever their fields hold. *)
Fields == {"phase", "req", "unsent", "want", "listener", "inbox", "outbox", "fds", "codec",
           "pkt", "send_len", "error", "event", "cid", "op", "res"}

EventFields == {"epoll", "type", "mode", "armed"}

IsEvent(e) == e = [f \in EventFields |-> e[f]]
IsConn(k)  == k = [f \in Fields |-> k[f]] /\ IsEvent(k.event)

(* Another state of a connection, with who has it open and what it is
   registered for unchanged. *)
SameHold(k, r) ==
  /\ IsConn(r) /\ r.phase = k.phase /\ r.listener = k.listener
  /\ r.fds = k.fds /\ r.event = k.event

LEMMA NewIsConn == IsConn(NewConn) /\ IsEvent(NoEvent)
  BY DEF NewConn, IsConn, Fields, NoEvent, IsEvent, EventFields

LEMMA HoldTwice ==
  ASSUME NEW k, NEW r, NEW s, SameHold(k, r), SameHold(r, s)
  PROVE  SameHold(k, s)
  BY DEF SameHold

LEMMA ReadOnceHolds == ASSUME NEW k, IsConn(k) PROVE SameHold(k, ReadOnce(k))
  BY DEF ReadOnce, SameHold, IsConn, Fields

LEMMA ReadHolds ==
  ASSUME NEW k, IsConn(k), NEW multi, NEW r \in Read(k, multi)
  PROVE  SameHold(k, r)
  <1> DEFINE f(x) == ReadOnce(x)
  <1>1. r = f(k) \/ r = f(f(f(k)))
    BY DEF Read
  <1>2. \A x : IsConn(x) => SameHold(x, f(x))
    BY ReadOnceHolds
  <1> HIDE DEF f
  <1>3. SameHold(k, f(k)) /\ SameHold(f(k), f(f(k))) /\ SameHold(f(f(k)), f(f(f(k))))
    BY <1>2 DEF SameHold
  <1>4. SameHold(k, f(f(f(k))))
    BY <1>3 DEF SameHold
  <1>5. QED
    BY <1>1, <1>3, <1>4

LEMMA EncodedHolds == ASSUME NEW k, IsConn(k) PROVE SameHold(k, Encoded(k))
  BY DEF Encoded, SameHold, IsConn, Fields

LEMMA WriteHolds ==
  ASSUME NEW k, IsConn(k), NEW w \in WriteResults(k)
  PROVE  SameHold(k, w)
  BY DEF WriteResults, Write, SameHold, IsConn, Fields

LEMMA ResetHolds == ASSUME NEW k, IsConn(k) PROVE SameHold(k, ConnReset(k))
  BY DEF ConnReset, SameHold, IsConn, Fields

-----------------------------------------------------------------------------
(***************************************************************************)
(* Who has a connection.  The invariant behind SoleOwner says how each     *)
(* kind of reference keeps the others away: an event in a thread's batch   *)
(* is of a connection registered with that thread's epoll instance, and    *)
(* one that a thread is busy with, or that is in the queue, is quiet:      *)
(* nothing can report it.                                                  *)
(***************************************************************************)
(* Where a thread has neither a batch nor a connection, or no connection. *)
Resting == {"top", "wait", "item", "leader"}
Unbusy  == Resting \cup {"events", "notify", "fill"}
Places  == Unbusy \cup {"push", "late", "slot", "idle", "work", "recv", "send", "close", "forked",
                        "not forked", "reading", "writing", "aborted", "sent"}

IsThread(th) ==
  /\ th \in [pc : Places, batch : SUBSET (Client \cup {Sock}), cur : Client \cup {0}, index : Nat]
  /\ th.pc \in Unbusy \cup {"aborted"} <=> th.cur = 0
  /\ th.pc \in Resting => th.batch = {}

(* No event of the connection is reported, nor will be by what a client does. *)
Quiet(k) == ~ k.event.armed /\ k.event.mode # "et"

(* The servers in which a connection belongs to one process. *)
OneProcess == server.name \notin {"MultiProcess", "EpollReactorProcessPoolMS"}

BlockingNames ==
  {"SingleProcess", "MultiThread", "ProcessPool1", "ProcessPool2", "ThreadPool", "LeaderAndFollower"}

(* A connection not yet accepted is not registered; one registered is open. *)
ConnOK(k) ==
  /\ IsConn(k)
  /\ k.phase = "new" => k.listener = 0 /\ k.fds = {} /\ k.event = NoEvent
  /\ k.listener # 0 => k.fds = {} /\ k.event = NoEvent
  /\ k.event.epoll # 0 => k.fds # {}
  /\ server.name \in OnRing => Quiet(k)
  /\ server.name \in BlockingNames => k.event = NoEvent
  /\ server.name \in HandOver =>
       k.event.mode # "et" /\ (k.event.type = "read" => k.event.mode = "oneshot")

InBatches ==
  \A t \in Thread, c \in Client : c \in thread[t].batch =>
    /\ conn[c].event.epoll = t
    /\ server.name \in HandOver /\ conn[c].event.type = "read" => Quiet(conn[c])

(* Thread t, busy with connection c, of state k, may be interrupted by no event. *)
Undisturbed(k, t) ==
  k.fds # {} /\ IF server.name \in BlockingNames \cup HandOver THEN Quiet(k) ELSE k.event.epoll = t

BusyWith ==
  \A t \in Thread, c \in Client : thread[t].cur = c =>
    /\ Undisturbed(conn[c], t)
    /\ \A u \in Thread : c \notin thread[u].batch /\ (thread[u].cur = c => u = t)

InQueue ==
  /\ queue \in Seq(Client)
  /\ \A i \in 1 .. Len(queue) :
       /\ conn[queue[i]].fds # {} /\ Quiet(conn[queue[i]])
       /\ server.name \in OnRing => conn[queue[i]].op = "none"
       /\ \A t \in Thread : queue[i] \notin thread[t].batch /\ queue[i] # thread[t].cur
       /\ \A j \in 1 .. Len(queue) : queue[i] = queue[j] => i = j

(* What a server's threads never have. *)
NeverHave ==
  /\ server.name \in BlockingNames => \A t \in Thread : thread[t].batch = {}
  /\ On("MultiThread") => \A t \in Thread : thread[t].cur \in {0, t - 1}
  /\ server.name \in OnRing => \A t \in Thread : thread[t].cur = 0
  /\ server.name \in HandOver => \A t \in Takers : thread[t].batch = {}

Connections == conn = [c \in Client |-> conn[c]] /\ \A c \in Client : ConnOK(conn[c])
ThreadsOK   == thread = [t \in Thread |-> thread[t]] /\ \A t \in Thread : IsThread(thread[t])

OwnInv == Connections /\ ThreadsOK /\ InBatches /\ BusyWith /\ InQueue /\ NeverHave

(* Nobody refers to connection c. *)
Unowned(c) ==
  /\ \A t \in Thread : c \notin thread[t].batch /\ thread[t].cur # c
  /\ \A i \in 1 .. Len(queue) : queue[i] # c
(***************************************************************************)
(* How a step changes the references.                                      *)
(***************************************************************************)
(* Thread t goes on with batch B and connection x; the others do nothing. *)
ThreadStep(t, B, x) ==
  /\ thread' = [u \in Thread |-> thread'[u]]
  /\ \A u \in Thread \ {t} : thread'[u] = thread[u]
  /\ thread'[t].batch = B /\ thread'[t].cur = x
  /\ IsThread(thread'[t])

LEMMA NoClientZero == 0 \notin Client /\ Sock \notin Client
  BY EchoConnAssumption DEF Client, Sock

LEMMA Thread0 ==
  ASSUME ThreadsOK, NEW t \in Thread
  PROVE  /\ thread[t].batch \in SUBSET (Client \cup {Sock}) /\ thread[t].cur \in Client \cup {0}
         /\ thread[t].pc \in Unbusy \cup {"aborted"} <=> thread[t].cur = 0
         /\ thread[t].pc \in Resting => thread[t].batch = {}
  BY DEF ThreadsOK, IsThread

LEMMA StaySteps ==
  ASSUME ThreadsOK, UNCHANGED thread, NEW t \in Thread
  PROVE  ThreadStep(t, thread[t].batch, thread[t].cur)
  BY DEF ThreadsOK, ThreadStep

LEMMA GotoSteps ==
  ASSUME ThreadsOK, NEW t \in Thread, NEW place \in Places, NEW x \in Client \cup {0},
         Goto(t, place, x), place \in Unbusy \cup {"aborted"} <=> x = 0,
         place \in Resting => thread[t].batch = {}
  PROVE  ThreadStep(t, thread[t].batch, x)
  BY DEF ThreadsOK, ThreadStep, Goto, IsThread

(* After the last event of the batch the thread waits for others. *)
LEMMA OnwardSteps ==
  ASSUME ThreadsOK, NEW t \in Thread,
         Goto(t, IF thread[t].batch = {} THEN "top" ELSE "events", 0)
  PROVE  ThreadStep(t, thread[t].batch, 0)
  BY DEF ThreadsOK, ThreadStep, Goto, IsThread, Places, Unbusy, Resting

LEMMA TakeSteps ==
  ASSUME ThreadsOK, NEW t \in Thread, NEW s, TakeEvent(t, s)
  PROVE  /\ s \in thread[t].batch /\ thread[t].cur = 0
         /\ ThreadStep(t, thread[t].batch \ {s}, 0)
  BY DEF ThreadsOK, ThreadStep, TakeEvent, IsThread, Places, Unbusy, Resting

LEMMA RunSteps ==
  ASSUME ThreadsOK, NEW t \in Thread, NEW place \in Places \ (Unbusy \cup {"aborted"}), NEW c \in Client,
         Run(t, c, place)
  PROVE  ThreadStep(t, thread[t].batch \ {c}, c)
  BY NoClientZero DEF ThreadsOK, ThreadStep, Run, IsThread, Resting, Unbusy

(* A connection that waits to be accepted is nobody's. *)
LEMMA BacklogUnowned ==
  ASSUME OwnInv, NEW c \in Client, conn[c].fds = {}
  PROVE  Unowned(c)
  <1> USE DEF OwnInv
  <1>1. conn[c].event.epoll = 0
    BY DEF Connections, ConnOK
  <1>2. \A t \in Thread : c \notin thread[t].batch
    BY <1>1, EchoConnAssumption DEF InBatches, Thread
  <1>3. \A t \in Thread : thread[t].cur # c
    BY DEF BusyWith, Undisturbed
  <1>4. \A i \in 1 .. Len(queue) : queue[i] # c
    BY DEF InQueue
  <1>5. QED
    BY <1>2, <1>3, <1>4 DEF Unowned

LEMMA ReferredOpen ==
  ASSUME OwnInv, NEW c \in Client, ~ Unowned(c)
  PROVE  conn[c].fds # {} /\ conn[c].listener = 0 /\ conn[c].phase # "new"
  BY BacklogUnowned DEF OwnInv, Connections, ConnOK

(* Nobody but thread t, and not the queue, refers to c. *)
Sole(t, c) ==
  /\ \A u \in Thread \ {t} : c \notin thread[u].batch /\ thread[u].cur # c
  /\ thread[t].cur \in {0, c}

(* The step of t concerns c only, which is afterwards with t or with nobody. *)
HandStep(t, c, k, x) ==
  /\ x \in {0, c}
  /\ ThreadStep(t, thread[t].batch \ {c}, x)
  /\ conn' = [conn EXCEPT ![c] = k] /\ ConnOK(k)
  /\ x = c => Undisturbed(k, t)
  /\ On("MultiThread") => x \in {0, t - 1}
  /\ server.name \in OnRing => x = 0
  /\ UNCHANGED server

LEMMA HandKeeps ==
  ASSUME OwnInv, NEW t \in Thread, NEW c \in Client, NEW k, NEW x,
         Sole(t, c), HandStep(t, c, k, x)
  PROVE  /\ Connections' /\ ThreadsOK' /\ InBatches' /\ BusyWith' /\ NeverHave'
         /\ \A u \in Thread : /\ thread'[u].batch \subseteq thread[u].batch \ {c}
                              /\ thread'[u].cur \in {thread[u].cur, 0, x}
         /\ \A d \in Client : conn'[d] = IF d = c THEN k ELSE conn[d]
  <1> USE DEF OwnInv, HandStep
  <1>1. /\ \A d \in Client : conn'[d] = IF d = c THEN k ELSE conn[d]
        /\ conn' = [d \in Client |-> conn'[d]]
    BY DEF Connections
  <1>2. Connections'
    BY <1>1 DEF Connections, ConnOK, Quiet
  <1>3. /\ \A u \in Thread \ {t} : thread'[u] = thread[u]
        /\ thread'[t].batch = thread[t].batch \ {c} /\ thread'[t].cur = x
    BY DEF ThreadStep
  <1>4. ThreadsOK'
    BY <1>3 DEF ThreadsOK, ThreadStep
  <1>5. \A u \in Thread : /\ thread'[u].batch \subseteq thread[u].batch \ {c}
                          /\ thread'[u].cur \in {thread[u].cur, 0, x}
    BY <1>3 DEF Sole
  <1>6. InBatches'
    BY <1>1, <1>5 DEF InBatches, Quiet
  <1>7. BusyWith'
    <2> SUFFICES ASSUME NEW u \in Thread, NEW d \in Client, thread'[u].cur = d
                 PROVE  /\ Undisturbed(conn[d], u)'
                        /\ \A v \in Thread : d \notin thread'[v].batch /\ (thread'[v].cur = d => v = u)
      BY DEF BusyWith
    <2>1. CASE d = c
      <3>1. u = t /\ x = c
        BY <1>3, <2>1, NoClientZero DEF Sole
      <3>2. Undisturbed(conn[d], u)'
        BY <1>1, <2>1, <3>1 DEF Undisturbed, Quiet
      <3>3. \A v \in Thread : d \notin thread'[v].batch /\ (thread'[v].cur = d => v = u)
        BY <1>3, <1>5, <2>1, <3>1 DEF Sole
      <3>4. QED
        BY <3>2, <3>3
    <2>2. CASE d # c
      <3>1. u # t /\ thread[u].cur = d /\ conn'[d] = conn[d]
        BY <1>1, <1>3, <2>2, NoClientZero
      <3>2. Undisturbed(conn[d], u) /\ \A v \in Thread : d \notin thread[v].batch /\ (thread[v].cur = d => v = u)
        BY <3>1 DEF BusyWith
      <3>3. Undisturbed(conn[d], u)'
        BY <3>1, <3>2 DEF Undisturbed, Quiet
      <3>4. ASSUME NEW v \in Thread PROVE d \notin thread'[v].batch /\ (thread'[v].cur = d => v = u)
        BY <1>3, <1>5, <2>2, <3>2, NoClientZero
      <3>5. QED
        BY <3>3, <3>4
    <2>3. QED
      BY <2>1, <2>2
  <1>8. NeverHave'
    BY <1>3, <1>5 DEF NeverHave, On, Takers, Io, With, Workers
  <1>9. QED
    BY <1>1, <1>2, <1>4, <1>5, <1>6, <1>7, <1>8

(* Thread t, which has c, or takes a connection nobody has, goes on. *)
LEMMA HoldKeeps ==
  ASSUME OwnInv, NEW t \in Thread, NEW c \in Client, NEW k, NEW x,
         \/ c \in thread[t].batch /\ thread[t].cur = 0
         \/ thread[t].cur = c
         \/ Unowned(c) /\ thread[t].cur = 0,
         HandStep(t, c, k, x), UNCHANGED queue
  PROVE  OwnInv'
  <1> USE DEF OwnInv
  <1>1. Sole(t, c) /\ \A i \in 1 .. Len(queue) : queue[i] # c
    <2>1. CASE c \in thread[t].batch /\ thread[t].cur = 0
      BY <2>1 DEF InBatches, BusyWith, InQueue, Sole
    <2>2. CASE thread[t].cur = c
      BY <2>2 DEF BusyWith, InQueue, Sole
    <2>3. CASE Unowned(c) /\ thread[t].cur = 0
      BY <2>3 DEF Unowned, Sole
    <2>4. QED
      BY <2>1, <2>2, <2>3
  <1>2. /\ Connections' /\ ThreadsOK' /\ InBatches' /\ BusyWith' /\ NeverHave'
        /\ \A u \in Thread : /\ thread'[u].batch \subseteq thread[u].batch \ {c}
                             /\ thread'[u].cur \in {thread[u].cur, 0, x}
        /\ \A d \in Client : conn'[d] = IF d = c THEN k ELSE conn[d]
    BY <1>1, HandKeeps
  <1>3. InQueue'
    <2>1. x \in {0, c} /\ server' = server
      BY DEF HandStep
    <2>2. ASSUME NEW i \in 1 .. Len(queue)
          PROVE  /\ queue[i] \in Client /\ conn'[queue[i]] = conn[queue[i]]
                 /\ \A u \in Thread : queue[i] \notin thread'[u].batch /\ queue[i] # thread'[u].cur
      <3>1. queue[i] \in Client /\ queue[i] # c
        BY <1>1 DEF InQueue
      <3>2. QED
        BY <1>2, <2>1, <3>1, NoClientZero DEF InQueue
    <2>3. QED
      BY <2>1, <2>2 DEF InQueue, Quiet
  <1>4. QED
    BY <1>2, <1>3

(* Thread t puts the connection c that it has into the queue. *)
LEMMA PushKeeps ==
  ASSUME OwnInv, NEW t \in Thread, NEW c \in Client, NEW k,
         \/ c \in thread[t].batch /\ thread[t].cur = 0
         \/ thread[t].cur = c,
         HandStep(t, c, k, 0), queue' = Append(queue, c),
         k.fds # {}, Quiet(k), server.name \in OnRing => k.op = "none"
  PROVE  OwnInv'
  <1> USE DEF OwnInv
  <1>1. Sole(t, c) /\ \A i \in 1 .. Len(queue) : queue[i] # c
    <2>1. CASE c \in thread[t].batch /\ thread[t].cur = 0
      BY <2>1 DEF InBatches, BusyWith, InQueue, Sole
    <2>2. CASE thread[t].cur = c
      BY <2>2 DEF BusyWith, InQueue, Sole
    <2>3. QED
      BY <2>1, <2>2
  <1>2. /\ Connections' /\ ThreadsOK' /\ InBatches' /\ BusyWith' /\ NeverHave'
        /\ \A u \in Thread : /\ thread'[u].batch \subseteq thread[u].batch \ {c}
                             /\ thread'[u].cur \in {thread[u].cur, 0}
        /\ \A d \in Client : conn'[d] = IF d = c THEN k ELSE conn[d]
    BY <1>1, HandKeeps
  <1>3. \A u \in Thread : c \notin thread'[u].batch /\ thread'[u].cur # c
    <2>1. thread'[t].cur = 0
      BY DEF HandStep, ThreadStep
    <2>2. QED
      BY <1>1, <1>2, <2>1, NoClientZero DEF Sole
  <1>4. InQueue'
    <2>1. server' = server
      BY DEF HandStep
    <2>2. /\ queue \in Seq(Client) /\ queue' \in Seq(Client) /\ Len(queue') = Len(queue) + 1
          /\ \A i \in 1 .. Len(queue) : queue'[i] = queue[i]
          /\ queue'[Len(queue) + 1] = c
      BY DEF InQueue
    <2>3. ASSUME NEW i \in 1 .. Len(queue)
          PROVE  /\ queue[i] \in Client /\ queue[i] # c /\ conn'[queue[i]] = conn[queue[i]]
                 /\ \A u \in Thread : queue[i] \notin thread'[u].batch /\ queue[i] # thread'[u].cur
      <3>1. queue[i] \in Client /\ queue[i] # c
        BY <1>1 DEF InQueue
      <3>2. QED
        BY <1>2, <3>1, NoClientZero DEF InQueue
    <2>4. ASSUME NEW i \in 1 .. Len(queue')
          PROVE  /\ conn'[queue'[i]].fds # {} /\ Quiet(conn'[queue'[i]])
                 /\ server.name \in OnRing => conn'[queue'[i]].op = "none"
                 /\ \A u \in Thread : queue'[i] \notin thread'[u].batch /\ queue'[i] # thread'[u].cur
                 /\ \A j \in 1 .. Len(queue') : queue'[i] = queue'[j] => i = j
      <3>1. CASE i \in 1 .. Len(queue)
        <4>1. conn'[queue'[i]] = conn[queue[i]] /\ queue'[i] = queue[i]
          BY <2>2, <2>3, <3>1
        <4>2. \A j \in 1 .. Len(queue') : queue'[i] = queue'[j] => i = j
          <5> SUFFICES ASSUME NEW j \in 1 .. Len(queue'), queue'[i] = queue'[j] PROVE i = j
            OBVIOUS
          <5>1. j \in 1 .. Len(queue)
            BY <2>2, <2>3, <3>1
          <5>2. QED
            BY <2>2, <3>1, <5>1 DEF InQueue
        <4>3. QED
          BY <2>3, <3>1, <4>1, <4>2 DEF InQueue
      <3>2. CASE i = Len(queue) + 1
        <4>1. queue'[i] = c /\ conn'[queue'[i]] = k
          BY <1>2, <2>2, <3>2
        <4>2. \A j \in 1 .. Len(queue') : queue'[i] = queue'[j] => i = j
          BY <2>2, <2>3, <3>2
        <4>3. QED
          BY <1>3, <4>1, <4>2
      <3>3. QED
        BY <2>2, <3>1, <3>2
    <2>5. QED
      BY <2>1, <2>2, <2>4 DEF InQueue, Quiet
  <1>5. QED
    BY <1>2, <1>4

(* Thread t takes the connection at the front of the queue. *)
LEMMA PopKeeps ==
  ASSUME OwnInv, NEW t \in Thread, NEW k, NEW x, queue # <<>>, thread[t].cur = 0,
         HandStep(t, Head(queue), k, x), queue' = Tail(queue)
  PROVE  OwnInv'
  <1> USE DEF OwnInv
  <1> DEFINE c == Head(queue)
  <1>1. /\ queue \in Seq(Client) /\ Len(queue) \in Nat /\ Len(queue) > 0
        /\ c \in Client /\ c = queue[1]
        /\ queue' \in Seq(Client) /\ Len(queue') = Len(queue) - 1
        /\ \A i \in 1 .. Len(queue') : i + 1 \in 1 .. Len(queue) /\ queue'[i] = queue[i + 1]
    BY DEF InQueue
  <1>2. Sole(t, c) /\ \A i \in 1 .. Len(queue') : queue'[i] # c
    <2>1. Sole(t, c)
      BY <1>1 DEF InQueue, Sole
    <2>2. \A i \in 1 .. Len(queue') : queue'[i] # c
      <3> SUFFICES ASSUME NEW i \in 1 .. Len(queue'), queue[i + 1] = queue[1] PROVE FALSE
        BY <1>1
      <3>1. i + 1 \in 1 .. Len(queue) /\ 1 \in 1 .. Len(queue) /\ i + 1 # 1
        BY <1>1
      <3>2. QED
        BY <3>1 DEF InQueue
    <2>3. QED
      BY <2>1, <2>2
  <1> HIDE DEF c
  <1>3. /\ Connections' /\ ThreadsOK' /\ InBatches' /\ BusyWith' /\ NeverHave'
        /\ \A u \in Thread : /\ thread'[u].batch \subseteq thread[u].batch \ {c}
                             /\ thread'[u].cur \in {thread[u].cur, 0, x}
        /\ \A d \in Client : conn'[d] = IF d = c THEN k ELSE conn[d]
    BY <1>1, <1>2, HandKeeps DEF c
  <1>4. x \in {0, c} /\ server' = server
    BY DEF HandStep, c
  <1>5. ASSUME NEW i \in 1 .. Len(queue')
        PROVE  /\ queue'[i] \in Client /\ conn'[queue'[i]] = conn[queue'[i]]
               /\ \A u \in Thread : queue'[i] \notin thread'[u].batch /\ queue'[i] # thread'[u].cur
               /\ conn[queue'[i]].fds # {} /\ Quiet(conn[queue'[i]])
               /\ server.name \in OnRing => conn[queue'[i]].op = "none"
    <2>1. queue'[i] \in Client /\ queue'[i] # c
      BY <1>1, <1>2
    <2>2. PICK j \in 1 .. Len(queue) : queue'[i] = queue[j]
      BY <1>1
    <2>3. /\ conn[queue[j]].fds # {} /\ Quiet(conn[queue[j]])
          /\ server.name \in OnRing => conn[queue[j]].op = "none"
          /\ \A u \in Thread : queue[j] \notin thread[u].batch /\ queue[j] # thread[u].cur
      BY DEF InQueue
    <2>4. QED
      BY <1>3, <1>4, <2>1, <2>2, <2>3, NoClientZero
  <1>6. \A i, j \in 1 .. Len(queue') : queue'[i] = queue'[j] => i = j
    <2> SUFFICES ASSUME NEW i \in 1 .. Len(queue'), NEW j \in 1 .. Len(queue'),
                        queue[i + 1] = queue[j + 1]
                 PROVE  i = j
      BY <1>1
    <2>1. i + 1 \in 1 .. Len(queue) /\ j + 1 \in 1 .. Len(queue)
      BY <1>1
    <2>2. i + 1 = j + 1
      BY <2>1 DEF InQueue
    <2>3. QED
      BY <1>1, <2>2
  <1>7. InQueue'
    BY <1>1, <1>4, <1>5, <1>6 DEF InQueue, Quiet
  <1>8. QED
    BY <1>3, <1>7

(* Connections nobody has change, or none; thread t only gets rid of events. *)
LEMMA FreshKeeps ==
  ASSUME OwnInv, NEW t \in Thread, NEW S \in SUBSET Client, NEW f, NEW B,
         \A c \in S : conn[c].listener # 0 /\ ConnOK(f[c]),
         conn' = [c \in Client |-> IF c \in S THEN f[c] ELSE conn[c]],
         B \subseteq thread[t].batch, ThreadStep(t, B, thread[t].cur),
         UNCHANGED <<queue, server>>
  PROVE  OwnInv'
  <1> USE DEF OwnInv
  <1>1. \A c \in S : Unowned(c)
    BY BacklogUnowned DEF Connections, ConnOK
  <1>2. Connections'
    BY DEF Connections, ConnOK, Quiet
  <1>3. \A u \in Thread : thread'[u].batch \subseteq thread[u].batch /\ thread'[u].cur = thread[u].cur
    BY DEF ThreadStep
  <1>4. ThreadsOK'
    BY DEF ThreadsOK, ThreadStep
  <1>5. \A c \in Client : ~ Unowned(c) => conn'[c] = conn[c]
    BY <1>1
  <1>6. InBatches'
    BY <1>3, <1>5 DEF InBatches, Unowned, Quiet
  <1>7. BusyWith'
    <2> SUFFICES ASSUME NEW u \in Thread, NEW d \in Client, thread'[u].cur = d
                 PROVE  /\ Undisturbed(conn[d], u)'
                        /\ \A v \in Thread : d \notin thread'[v].batch /\ (thread'[v].cur = d => v = u)
      BY DEF BusyWith
    <2>1. thread[u].cur = d /\ conn'[d] = conn[d]
      BY <1>3, <1>5 DEF Unowned
    <2>2. /\ Undisturbed(conn[d], u)
          /\ \A v \in Thread : d \notin thread[v].batch /\ (thread[v].cur = d => v = u)
      BY <2>1 DEF BusyWith
    <2>3. QED
      BY <1>3, <2>1, <2>2 DEF Undisturbed, Quiet
  <1>8. InQueue'
    <2>1. \A i \in 1 .. Len(queue) : queue[i] \in Client /\ conn'[queue[i]] = conn[queue[i]]
      BY <1>5 DEF Unowned, InQueue
    <2>2. QED
      BY <1>3, <2>1 DEF InQueue, Quiet
  <1>9. NeverHave'
    BY <1>3 DEF NeverHave, On, Takers, Io, With, Workers
  <1>10. QED
    BY <1>2, <1>4, <1>6, <1>7, <1>8, <1>9

LEMMA ReportedIs ==
  ASSUME NEW k, IsConn(k), NEW r, r = Reported(k)
  PROVE  /\ IsConn(r) /\ r.fds = k.fds /\ r.op = k.op /\ r.phase = k.phase
         /\ r.listener = k.listener
         /\ r.event.epoll = k.event.epoll /\ r.event.mode = k.event.mode
         /\ r.event.type = k.event.type
         /\ k.event.mode = "oneshot" => Quiet(r)
  <1> DEFINE e == [k.event EXCEPT !.armed = k.event.mode = "lt"]
  <1>1. r = [k EXCEPT !.event = e]
    BY DEF Reported
  <1>2. /\ IsEvent(e) /\ e.epoll = k.event.epoll /\ e.mode = k.event.mode
        /\ e.type = k.event.type /\ e.armed = (k.event.mode = "lt")
    BY DEF IsConn, IsEvent, EventFields
  <1> HIDE DEF e
  <1>3. QED
    BY <1>1, <1>2 DEF IsConn, Fields, Quiet

(* Events of connections nobody has are reported to thread t. *)
LEMMA ReportKeeps ==
  ASSUME OwnInv, NEW t \in Thread, NEW E, NEW R \in SUBSET Client,
         ThreadStep(t, E, 0), thread[t].cur = 0,
         \A c \in Client : c \in E => Unowned(c) /\ conn[c].event.epoll = t,
         conn' = [c \in Client |-> IF c \in R THEN Reported(conn[c]) ELSE conn[c]],
         R \subseteq E, server.name \in HandOver => E \cap Client \subseteq R /\ t \notin Takers,
         server.name \in OnRing => R = {},
         server.name \notin BlockingNames, UNCHANGED <<queue, server>>
  PROVE  OwnInv'
  <1> USE DEF OwnInv
  <1>1. \A c \in Client : /\ c \notin E => conn'[c] = conn[c]
                          /\ conn'[c].fds = conn[c].fds /\ conn'[c].op = conn[c].op
                          /\ conn'[c].event.epoll = conn[c].event.epoll
                          /\ c \in R /\ conn[c].event.mode = "oneshot" => Quiet(conn'[c])
                          /\ conn'[c].event.mode = conn[c].event.mode
                          /\ conn'[c].event.type = conn[c].event.type
                          /\ IsConn(conn'[c])
                          /\ conn'[c].phase = conn[c].phase /\ conn'[c].listener = conn[c].listener
    <2> SUFFICES ASSUME NEW c \in Client
                 PROVE  /\ c \notin E => conn'[c] = conn[c]
                        /\ conn'[c].fds = conn[c].fds /\ conn'[c].op = conn[c].op
                        /\ conn'[c].event.epoll = conn[c].event.epoll
                        /\ c \in R /\ conn[c].event.mode = "oneshot" => Quiet(conn'[c])
                        /\ conn'[c].event.mode = conn[c].event.mode
                        /\ conn'[c].event.type = conn[c].event.type
                        /\ IsConn(conn'[c])
                        /\ conn'[c].phase = conn[c].phase /\ conn'[c].listener = conn[c].listener
      OBVIOUS
    <2>1. IsConn(conn[c])
      BY DEF Connections, ConnOK
    <2>2. CASE c \in R
      <3>1. conn'[c] = Reported(conn[c]) /\ c \in E
        BY <2>2
      <3>2. QED
        BY <2>1, <2>2, <3>1, ReportedIs
    <2>3. CASE c \notin R
      BY <2>1, <2>3
    <2>4. QED
      BY <2>2, <2>3
  <1>2. Connections'
    <2> SUFFICES ASSUME NEW c \in Client PROVE ConnOK(conn[c])'
      BY DEF Connections
    <2>1. CASE c \in R
      <3>1. conn[c].event.epoll # 0
        BY <2>1, NoClientZero, EchoConnAssumption DEF Thread
      <3>2. QED
        BY <1>1, <2>1, <3>1, NewIsConn DEF Connections, ConnOK, NoEvent
    <2>2. CASE c \notin R
      BY <2>2 DEF Connections, ConnOK, Quiet
    <2>3. QED
      BY <2>1, <2>2
  <1>3. ThreadsOK'
    BY DEF ThreadsOK, ThreadStep
  <1>4. /\ \A u \in Thread \ {t} : thread'[u] = thread[u]
        /\ thread'[t].batch = E /\ thread'[t].cur = 0
    BY DEF ThreadStep
  <1>5. InBatches'
    <2> SUFFICES ASSUME NEW u \in Thread, NEW c \in Client, c \in thread'[u].batch
                 PROVE  /\ conn'[c].event.epoll = u
                        /\ server.name \in HandOver /\ conn'[c].event.type = "read" => Quiet(conn'[c])
      BY DEF InBatches, Quiet
    <2>1. CASE u = t
      BY <1>1, <1>4, <2>1 DEF Connections, ConnOK
    <2>2. CASE u # t
      <3>1. c \in thread[u].batch /\ c \notin E
        BY <1>4, <2>2 DEF Unowned
      <3>2. QED
        BY <1>1, <3>1 DEF InBatches
    <2>3. QED
      BY <2>1, <2>2
  <1>6. BusyWith'
    <2> SUFFICES ASSUME NEW u \in Thread, NEW d \in Client, thread'[u].cur = d
                 PROVE  /\ Undisturbed(conn[d], u)'
                        /\ \A v \in Thread : d \notin thread'[v].batch /\ (thread'[v].cur = d => v = u)
      BY DEF BusyWith
    <2>1. u # t /\ thread[u].cur = d
      BY <1>4, NoClientZero
    <2>2. d \notin E /\ conn'[d] = conn[d]
      BY <1>1, <2>1 DEF Unowned
    <2>3. /\ Undisturbed(conn[d], u)
          /\ \A v \in Thread : d \notin thread[v].batch /\ (thread[v].cur = d => v = u)
      BY <2>1 DEF BusyWith
    <2>4. QED
      BY <1>4, <2>1, <2>2, <2>3, NoClientZero DEF Undisturbed, Quiet
  <1>7. InQueue'
    <2>1. \A i \in 1 .. Len(queue) :
            queue[i] \in Client /\ queue[i] \notin E /\ conn'[queue[i]] = conn[queue[i]]
      BY <1>1 DEF Unowned, InQueue
    <2>2. \A i \in 1 .. Len(queue), u \in Thread :
            queue[i] \notin thread'[u].batch /\ queue[i] # thread'[u].cur
      <3> SUFFICES ASSUME NEW i \in 1 .. Len(queue), NEW u \in Thread
                   PROVE  queue[i] \notin thread'[u].batch /\ queue[i] # thread'[u].cur
        OBVIOUS
      <3>1. CASE u = t
        BY <1>4, <2>1, <3>1, NoClientZero
      <3>2. CASE u # t
        BY <1>4, <3>2 DEF InQueue
      <3>3. QED
        BY <3>1, <3>2
    <2>3. \A i \in 1 .. Len(queue) :
            /\ conn'[queue[i]].fds # {} /\ Quiet(conn'[queue[i]])
            /\ server.name \in OnRing => conn'[queue[i]].op = "none"
            /\ \A j \in 1 .. Len(queue) : queue[i] = queue[j] => i = j
      BY <2>1 DEF InQueue
    <2>4. queue \in Seq(Client) /\ queue' = queue /\ server' = server
      BY DEF InQueue
    <2>5. QED
      BY ONLY <2>2, <2>3, <2>4 DEF InQueue, Quiet
  <1>8. NeverHave'
    BY <1>4 DEF NeverHave, On, Takers, Io, With, Workers
  <1>9. QED
    BY <1>2, <1>3, <1>5, <1>6, <1>7, <1>8

(* epoll_wait reports only connections that nobody has. *)
LEMMA EpollWaitKeeps ==
  ASSUME OwnInv, NEW t \in Thread, NEW is_readable, EpollWait(t, t, is_readable),
         UNCHANGED server, server.name \notin BlockingNames \cup OnRing,
         server.name \in HandOver => t \notin Takers
  PROVE  OwnInv'
  <1> DEFINE E == Ready(t) \cup {s \in {Sock} : is_readable}
  <1>1. /\ thread[t].pc = "top" /\ thread' = [thread EXCEPT ![t].pc = "events", ![t].batch = E]
        /\ conn' = [c \in Client |-> IF c \in Ready(t) THEN Reported(conn[c]) ELSE conn[c]]
        /\ UNCHANGED queue
    BY DEF EpollWait
  <1>2. thread[t].cur = 0 /\ thread[t].batch = {}
    BY <1>1, Thread0 DEF OwnInv, Resting, Unbusy
  <1>3. Ready(t) \in SUBSET Client /\ \A c \in Client : c \in E <=> c \in Ready(t)
    BY NoClientZero DEF Ready
  <1>4. ThreadStep(t, E, 0)
    BY <1>1, <1>2, <1>3 DEF OwnInv, ThreadsOK, ThreadStep, IsThread, Places, Unbusy, Resting
  <1>5. ASSUME NEW c \in Ready(t) PROVE Unowned(c) /\ conn[c].event.epoll = t
    <2>1. conn[c].event.epoll = t /\ conn[c].event.armed /\ c \in Client
      BY DEF Ready, IsReady
    <2>2. \A u \in Thread : c \notin thread[u].batch
      BY <1>2, <2>1 DEF OwnInv, InBatches
    <2>3. \A u \in Thread : thread[u].cur # c
      BY <1>2, <2>1, NoClientZero DEF OwnInv, BusyWith, Undisturbed, Quiet
    <2>4. \A i \in 1 .. Len(queue) : queue[i] # c
      BY <2>1 DEF OwnInv, InQueue, Quiet
    <2>5. QED
      BY <2>1, <2>2, <2>3, <2>4 DEF Unowned
  <1> HIDE DEF E
  <1>6. Ready(t) \subseteq E
    BY <1>3
  <1>7. QED
    BY <1>1, <1>2, <1>3, <1>4, <1>5, <1>6, ReportKeeps

(* What a client, or the kernel, does to a connection takes it from nobody. *)
LEMMA TouchKeeps ==
  ASSUME OwnInv, NEW c \in Client, NEW k, conn' = [conn EXCEPT ![c] = k],
         UNCHANGED <<thread, queue, server>>, ConnOK(k), k.fds = conn[c].fds,
         k.event.epoll = conn[c].event.epoll, k.event.type = conn[c].event.type,
         k.event.mode = conn[c].event.mode,
         Quiet(conn[c]) => Quiet(k),
         k.op = conn[c].op \/ conn[c].op # "none"
  PROVE  OwnInv'
  <1> USE DEF OwnInv
  <1>1. \A d \in Client : conn'[d] = IF d = c THEN k ELSE conn[d]
    BY DEF Connections
  <1>2. \A d \in Client : /\ conn'[d].fds = conn[d].fds
                          /\ conn'[d].event.epoll = conn[d].event.epoll
                          /\ conn'[d].event.type = conn[d].event.type
                          /\ Quiet(conn[d]) => Quiet(conn'[d])
                          /\ conn[d].op = "none" => conn'[d].op = "none"
    BY <1>1 DEF Quiet
  <1>3. Connections'
    BY <1>1 DEF Connections, ConnOK, Quiet
  <1>4. InBatches'
    BY <1>2 DEF InBatches, Quiet
  <1>5. BusyWith'
    BY <1>2 DEF BusyWith, Undisturbed, Quiet
  <1>6. InQueue'
    <2>1. \A i \in 1 .. Len(queue) : queue[i] \in Client
      BY DEF InQueue
    <2>2. QED
      BY <1>2, <2>1 DEF InQueue, Quiet
  <1>7. ThreadsOK' /\ NeverHave'
    BY DEF ThreadsOK, NeverHave, On, Takers, Io, With
  <1>8. QED
    BY <1>3, <1>4, <1>5, <1>6, <1>7

-----------------------------------------------------------------------------
(***************************************************************************)
(* What the handlers leave a connection as.                                *)
(***************************************************************************)
(* A connection the server has open. *)
Held(k) == ConnOK(k) /\ k.fds # {}

LEMMA HeldFacts ==
  ASSUME NEW k, Held(k)
  PROVE  IsConn(k) /\ k.phase # "new" /\ k.listener = 0 /\ k.fds # {}
  BY DEF Held, ConnOK

LEMMA SameHeld ==
  ASSUME NEW k, NEW r, Held(k), SameHold(k, r)
  PROVE  /\ Held(r)
         /\ \A t : Undisturbed(k, t) => Undisturbed(r, t)
         /\ Quiet(k) => Quiet(r)
  BY DEF Held, ConnOK, SameHold, Undisturbed, Quiet

(* Releasing a connection leaves one that is registered nowhere. *)
LEMMA ReleaseOK ==
  ASSUME NEW k, Held(k), NEW p
  PROVE  ConnOK(ReleaseConn(k, p)) /\ ReleaseConn(k, p).op = "none"
  <1>1. IsConn(k) /\ k.phase # "new" /\ k.listener = 0
    BY HeldFacts
  <1> DEFINE a == ClearEvent(k)
             b == Close(a, p)
             d == Deleted(b)
  <1>2. IsConn(a) /\ a.phase # "new" /\ a.listener = 0 /\ a.event = NoEvent
    BY <1>1, NewIsConn DEF ClearEvent, IsConn, Fields
  <1> HIDE DEF a
  <1>3. IsConn(b) /\ b.phase # "new" /\ b.listener = 0 /\ b.event = NoEvent
    BY <1>2 DEF Close, IsConn, Fields
  <1> HIDE DEF b
  <1>4. IsConn(d) /\ d.phase # "new" /\ d.listener = 0 /\ d.event = NoEvent /\ d.op = "none"
    BY <1>3 DEF Deleted, IsConn, Fields
  <1> HIDE DEF d
  <1>5. ConnOK(d)
    BY <1>4 DEF ConnOK, NoEvent, Quiet
  <1>6. QED
    BY <1>4, <1>5 DEF ReleaseConn, a, b, d

(* What a registration may be in server.name. *)
ModeOK(type, mode) ==
  /\ server.name \notin OnRing \cup BlockingNames
  /\ server.name \in HandOver => mode # "et" /\ (type = "read" => mode = "oneshot")

LEMMA EventOK ==
  ASSUME NEW k, Held(k), NEW epoll, NEW type, NEW mode, ModeOK(type, mode),
         NEW r, r = [k EXCEPT !.event = Event(epoll, type, mode)]
  PROVE  Held(r) /\ r.event = Event(epoll, type, mode)
  <1>1. IsConn(k) /\ k.phase # "new" /\ k.listener = 0 /\ k.fds # {}
    BY HeldFacts
  <1>2. /\ IsEvent(Event(epoll, type, mode))
        /\ Event(epoll, type, mode).type = type /\ Event(epoll, type, mode).mode = mode
    BY DEF Event, IsEvent, EventFields
  <1>3. /\ IsConn(r) /\ r.phase # "new" /\ r.listener = 0 /\ r.fds # {}
        /\ r.event = Event(epoll, type, mode)
    BY <1>1, <1>2 DEF IsConn, Fields
  <1>4. QED
    BY <1>2, <1>3 DEF Held, ConnOK, ModeOK

LEMMA ModOK ==
  ASSUME NEW k, Held(k), NEW mode
  PROVE  /\ ModeOK("read", mode) => Held(ModToReadEvent(k, mode))
         /\ ModeOK("write", mode) => Held(ModToWriteEvent(k, mode))
         /\ ModeOK("read", "oneshot") => Held(ReStartReadEvent(k))
         /\ ModToReadEvent(k, mode).event.epoll = k.event.epoll
         /\ ModToWriteEvent(k, mode).event.epoll = k.event.epoll
  <1>1. \A type : Event(k.event.epoll, type, mode).epoll = k.event.epoll
    BY DEF Event
  <1>2. /\ ModToReadEvent(k, mode) = [k EXCEPT !.event = Event(k.event.epoll, "read", mode)]
        /\ ModToWriteEvent(k, mode) = [k EXCEPT !.event = Event(k.event.epoll, "write", mode)]
        /\ ReStartReadEvent(k) = [k EXCEPT !.event = Event(k.event.epoll, "read", "oneshot")]
    BY DEF ModToReadEvent, ModToWriteEvent, ReStartReadEvent
  <1>3. IsConn(k)
    BY HeldFacts
  <1>4. /\ ModToReadEvent(k, mode).event = Event(k.event.epoll, "read", mode)
        /\ ModToWriteEvent(k, mode).event = Event(k.event.epoll, "write", mode)
    BY <1>2, <1>3 DEF IsConn, Fields
  <1>5. QED
    BY <1>1, <1>2, <1>4, EventOK

LEMMA AddReadOK ==
  ASSUME NEW k, Held(k), NEW epoll, NEW mode, ModeOK("read", mode)
  PROVE  Held(AddReadEvent(k, epoll, mode)) /\ AddReadEvent(k, epoll, mode).event.epoll = epoll
  <1>1. AddReadEvent(k, epoll, mode) = [k EXCEPT !.event = Event(epoll, "read", mode)]
    BY DEF AddReadEvent
  <1>2. QED
    BY <1>1, EventOK DEF Event

(* accept. *)
LEMMA AcceptedOK ==
  ASSUME NEW k, ConnOK(k), k.listener # 0, NEW p
  PROVE  /\ Held(Accepted(k, p)) /\ Accepted(k, p).event = NoEvent
         /\ ConnOK(Refused(k))
  <1>1. IsConn(k) /\ k.phase # "new" /\ k.event = NoEvent
    BY DEF ConnOK
  <1>2. /\ IsConn(Accepted(k, p)) /\ Accepted(k, p).phase # "new" /\ Accepted(k, p).listener = 0
        /\ Accepted(k, p).event = NoEvent /\ Accepted(k, p).fds = {p}
    BY <1>1 DEF Accepted, IsConn, Fields
  <1>3. /\ IsConn(Refused(k)) /\ Refused(k).phase # "new" /\ Refused(k).listener = 0
        /\ Refused(k).event = NoEvent
    BY <1>1 DEF Refused, IsConn, Fields
  <1>4. QED
    BY <1>2, <1>3 DEF Held, ConnOK, NoEvent, Quiet

LEMMA NewReadOK ==
  ASSUME NEW k, ConnOK(k), k.listener # 0, NEW p, NEW epoll, NEW mode, ModeOK("read", mode)
  PROVE  Held(NewRead(k, p, epoll, mode))
  BY AcceptedOK, AddReadOK DEF NewRead

(* The two handlers of a level- or edge-triggered event. *)
LEMMA ReadEventOK ==
  ASSUME NEW k, Held(k), NEW p, NEW multi, NEW mode, ModeOK("write", mode),
         NEW r \in ReadEvent(k, p, multi, mode)
  PROVE  ConnOK(r) /\ (r.event.type = "write" => Held(r))
  <1>1. PICK s \in Read(k, multi) :
          r = IF s.error THEN ReleaseConn(s, p)
              ELSE IF OneMessage(s) THEN ModToWriteEvent(Encoded(s), mode) ELSE s
    BY DEF ReadEvent
  <1>2. Held(s)
    BY HeldFacts, ReadHolds, SameHeld
  <1>3. CASE s.error
    <2>1. ConnOK(r) /\ r = Deleted(Close(ClearEvent(s), p))
      BY <1>1, <1>2, <1>3, ReleaseOK DEF ReleaseConn
    <2>2. r.event.type # "write"
      <3>1. IsConn(s)
        BY <1>2, HeldFacts
      <3>2. ClearEvent(s).event = NoEvent /\ IsConn(ClearEvent(s))
        BY <3>1, NewIsConn DEF ClearEvent, IsConn, Fields
      <3>3. Close(ClearEvent(s), p).event = NoEvent /\ IsConn(Close(ClearEvent(s), p))
        BY <3>2 DEF Close, IsConn, Fields
      <3>4. r.event = NoEvent
        BY <2>1, <3>3 DEF Deleted, IsConn, Fields
      <3>5. QED
        BY <3>4 DEF NoEvent
    <2>3. QED
      BY <2>1, <2>2
  <1>4. CASE ~ s.error /\ OneMessage(s)
    <2>1. Held(Encoded(s))
      BY <1>2, HeldFacts, EncodedHolds, SameHeld
    <2>2. QED
      BY <1>1, <1>4, <2>1, ModOK DEF Held
  <1>5. CASE ~ s.error /\ ~ OneMessage(s)
    BY <1>1, <1>2, <1>5 DEF Held
  <1>6. QED
    BY <1>3, <1>4, <1>5

LEMMA WriteEventOK ==
  ASSUME NEW k, Held(k), NEW p, NEW mode, ModeOK("read", mode), NEW r \in WriteEvent(k, p, mode)
  PROVE  ConnOK(r)
  <1>1. PICK w \in WriteResults(k) :
          r = IF w.error THEN ReleaseConn(w, p)
              ELSE IF FinishWrite(w) THEN ModToReadEvent(ConnReset(w), mode) ELSE w
    BY DEF WriteEvent, Done
  <1>2. Held(w)
    BY HeldFacts, WriteHolds, SameHeld
  <1>3. Held(ConnReset(w))
    BY <1>2, HeldFacts, ResetHolds, SameHeld
  <1>4. QED
    BY <1>1, <1>2, <1>3, ReleaseOK, ModOK DEF Held
-----------------------------------------------------------------------------
(***************************************************************************)
(* Each server's handlers.                                                 *)
(***************************************************************************)
LEMMA BatchHeld ==
  ASSUME OwnInv, NEW t \in Thread, NEW c \in Client, c \in thread[t].batch
  PROVE  Held(conn[c])
  <1>1. ~ Unowned(c)
    BY DEF Unowned
  <1>2. QED
    BY <1>1, ReferredOpen DEF OwnInv, Connections, Held

LEMMA BusyHeld ==
  ASSUME OwnInv, NEW t \in Thread, thread[t].pc \notin Unbusy \cup {"aborted"}
  PROVE  /\ thread[t].cur \in Client
         /\ Held(conn[thread[t].cur]) /\ Undisturbed(conn[thread[t].cur], t)
  <1>1. thread[t].cur \in Client
    BY Thread0 DEF OwnInv
  <1>2. QED
    BY <1>1 DEF OwnInv, BusyWith, Undisturbed, Held, Connections

LEMMA HandleKeeps ==
  ASSUME OwnInv, NEW t \in Thread, NEW c \in Client, NEW results, Handle(t, c, results),
         \A k \in results : ConnOK(k), UNCHANGED server
  PROVE  OwnInv'
  <1>1. PICK k \in results : conn' = [conn EXCEPT ![c] = k]
    BY DEF Handle, Update
  <1>2. /\ c \in thread[t].batch /\ thread[t].cur = 0
        /\ ThreadStep(t, thread[t].batch \ {c}, 0)
    BY TakeSteps DEF Handle, OwnInv
  <1>3. HandStep(t, c, k, 0)
    BY <1>1, <1>2, NoClientZero DEF HandStep
  <1>4. QED
    BY <1>2, <1>3, HoldKeeps DEF Handle

LEMMA ReadWriteKeeps ==
  ASSUME OwnInv, NEW t \in Thread, NEW c \in Client, NEW p, NEW multi, NEW mode,
         ReadWrite(t, c, p, multi, mode), ModeOK("read", mode), ModeOK("write", mode),
         UNCHANGED server
  PROVE  OwnInv'
  <1> DEFINE results == IF conn[c].event.type = "read" THEN ReadEvent(conn[c], p, multi, mode)
                        ELSE WriteEvent(conn[c], p, mode)
  <1>1. Handle(t, c, results)
    BY DEF ReadWrite
  <1>2. Held(conn[c])
    BY <1>1, BatchHeld DEF Handle, TakeEvent
  <1>3. \A k \in results : ConnOK(k)
    BY <1>2, ReadEventOK, WriteEventOK
  <1> HIDE DEF results
  <1>4. QED
    BY <1>1, <1>3, HandleKeeps

LEMMA LoopAcceptKeeps ==
  ASSUME OwnInv, NEW t \in Thread, NEW max, NEW accepted, LoopAccept(t, max, accepted),
         \A c \in InBacklog(t) : ConnOK(accepted[c]), UNCHANGED server
  PROVE  OwnInv'
  <1>1. PICK S \in SUBSET InBacklog(t) :
          conn' = [c \in Client |-> IF c \in S THEN accepted[c] ELSE conn[c]]
    BY DEF LoopAccept
  <1>2. thread[t].cur = 0 /\ ThreadStep(t, thread[t].batch \ {Sock}, 0)
    BY TakeSteps DEF LoopAccept, OwnInv
  <1>3. /\ S \in SUBSET Client
        /\ \A c \in S : conn[c].listener # 0 /\ ConnOK(accepted[c])
    BY <1>1, EchoConnAssumption DEF InBacklog, Thread
  <1>4. UNCHANGED <<queue, server>> /\ thread[t].batch \ {Sock} \subseteq thread[t].batch
    BY DEF LoopAccept
  <1>5. ThreadStep(t, thread[t].batch \ {Sock}, thread[t].cur)
    BY <1>2
  <1>6. QED
    BY ONLY OwnInv, t \in Thread, <1>1, <1>3, <1>4, <1>5, FreshKeeps

LEMMA BacklogOK ==
  ASSUME OwnInv, NEW t, NEW c \in InBacklog(t)
  PROVE  c \in Client /\ ConnOK(conn[c]) /\ conn[c].listener # 0 /\ conn[c].listener = t
  BY DEF OwnInv, Connections, InBacklog

LEMMA NewReadsKeep ==
  ASSUME OwnInv, NEW t \in Thread, NEW max, NEW p, NEW epoll, NEW mode,
         LoopAccept(t, max, NewReads(p, epoll, mode)), ModeOK("read", mode), UNCHANGED server
  PROVE  OwnInv'
  <1>1. ASSUME NEW c \in InBacklog(t) PROVE ConnOK(NewReads(p, epoll, mode)[c])
    BY BacklogOK, NewReadOK DEF NewReads, Held
  <1>2. QED
    BY <1>1, LoopAcceptKeeps

LEMMA RefusalKeeps ==
  ASSUME OwnInv, NEW t \in Thread, NEW max, LoopAccept(t, max, AllRefused), UNCHANGED server
  PROVE  OwnInv'
  <1>1. ASSUME NEW c \in InBacklog(t) PROVE ConnOK(AllRefused[c])
    BY BacklogOK, AcceptedOK DEF AllRefused
  <1>2. QED
    BY <1>1, LoopAcceptKeeps

LEMMA ListenWaitKeeps ==
  ASSUME OwnInv, NEW t \in Thread, ListenWait(t), UNCHANGED server,
         server.name \notin BlockingNames \cup OnRing, server.name \in HandOver => t \notin Takers
  PROVE  OwnInv'
  BY EpollWaitKeeps DEF ListenWait

(* The servers with a reactor for all that happens to a connection. *)
LevelNames ==
  {"EpollReactorSingleProcess", "EpollReactorSingleProcessET", "EpollReactorThreadPool",
   "PollReactorSingleProcess", "SelectReactorSingleProcess", "EpollReactorThreadPoolMS",
   "Epoll", "Poll", "Select"}

LEMMA LevelModes ==
  ASSUME server.name \in LevelNames, NEW type, NEW mode
  PROVE  ModeOK(type, mode) /\ server.name \notin BlockingNames \cup OnRing /\ server.name \notin HandOver
  BY DEF LevelNames, ModeOK, BlockingNames, OnRing, HandOver

LEMMA One == 1 \in Thread
  BY EchoConnAssumption DEF Thread

LEMMA WriteFirstKeeps ==
  ASSUME OwnInv, NEW c \in Client, NEW multi, server.name \in LevelNames,
         Handle(1, c, WriteFirst(conn[c], multi)), UNCHANGED server
  PROVE  OwnInv'
  <1>1. Held(conn[c])
    BY BatchHeld, One DEF Handle, TakeEvent
  <1>2. ASSUME NEW k \in WriteFirst(conn[c], multi) PROVE ConnOK(k)
    <2>1. PICK r \in ReadEvent(conn[c], 1, multi, "lt") :
            k \in IF r.event.type = "write" THEN WriteEvent(r, 1, "lt") ELSE {r}
      BY DEF WriteFirst
    <2>2. ConnOK(r) /\ (r.event.type = "write" => Held(r))
      BY <1>1, LevelModes, ReadEventOK
    <2>3. CASE r.event.type = "write"
      BY <2>1, <2>2, <2>3, LevelModes, WriteEventOK
    <2>4. CASE r.event.type # "write"
      BY <2>1, <2>2, <2>4
    <2>5. QED
      BY <2>3, <2>4
  <1>3. QED
    BY <1>2, One, HandleKeeps

LEMMA ReactorKeeps ==
  ASSUME OwnInv, server.name \in LevelNames, UNCHANGED server,
         \/ \E multi, la, wf : EpollReactorSingleProcess(multi, la, wf)
         \/ EpollReactorSingleProcessET
         \/ \E t \in Thread : EpollReactorThreadPool(t)
         \/ PollReactorSingleProcess \/ SelectReactorSingleProcess
  PROVE  OwnInv'
  <1>1. CASE \E t \in Thread : ListenWait(t)
    BY <1>1, ListenWaitKeeps, LevelModes
  <1>2. CASE \E t \in Thread : \E max, p, epoll, mode : LoopAccept(t, max, NewReads(p, epoll, mode))
    BY <1>2, NewReadsKeep, LevelModes
  <1>3. CASE \E max : LoopAccept(1, max, AllRefused)
    BY <1>3, RefusalKeeps, One
  <1>4. CASE \E t \in Thread, c \in Client : \E p, multi, mode : ReadWrite(t, c, p, multi, mode)
    BY <1>4, ReadWriteKeeps, LevelModes
  <1>5. CASE \E c \in Client : \E multi : Handle(1, c, WriteFirst(conn[c], multi))
    BY <1>5, WriteFirstKeeps
  <1>6. QED
    <2>1. CASE \E multi, la, wf : EpollReactorSingleProcess(multi, la, wf)
      BY <1>1, <1>2, <1>4, <1>5, <2>1, One DEF EpollReactorSingleProcess
    <2>2. CASE EpollReactorSingleProcessET
      BY <1>1, <1>2, <1>4, <2>2, One DEF EpollReactorSingleProcessET
    <2>3. CASE \E t \in Thread : EpollReactorThreadPool(t)
      BY <1>1, <1>2, <1>4, <2>3 DEF EpollReactorThreadPool
    <2>4. CASE PollReactorSingleProcess
      BY <1>1, <1>2, <1>4, <2>4, One DEF PollReactorSingleProcess, ReadsFirst
    <2>5. CASE SelectReactorSingleProcess
      BY <1>1, <1>2, <1>3, <1>4, <2>5, One DEF SelectReactorSingleProcess, ReadsFirst
    <2>6. QED
      BY <2>1, <2>2, <2>3, <2>4, <2>5

(***************************************************************************)
(* Servers that serve one connection until it ends.                        *)
(***************************************************************************)
(* A thread busy with a connection goes on with it, or is done with it. *)
LEMMA BusyKeeps ==
  ASSUME OwnInv, NEW t \in Thread, thread[t].pc \notin Unbusy \cup {"aborted"},
         NEW k, NEW x \in {0, thread[t].cur}, ThreadStep(t, thread[t].batch, x),
         Update(thread[t].cur, k), ConnOK(k), x = 0 \/ Undisturbed(k, t), UNCHANGED <<queue, server>>
  PROVE  OwnInv'
  <1> DEFINE c == thread[t].cur
  <1>1. c \in Client
    BY BusyHeld
  <1>2. thread[t].batch \ {c} = thread[t].batch
    BY <1>1 DEF OwnInv, BusyWith
  <1>3. server.name \notin OnRing /\ (On("MultiThread") => x \in {0, t - 1})
    BY <1>1, NoClientZero DEF OwnInv, NeverHave
  <1>4. conn' = [conn EXCEPT ![c] = k] /\ (x = c => Undisturbed(k, t))
    BY <1>1, NoClientZero DEF Update
  <1> HIDE DEF c
  <1>5. HandStep(t, c, k, x)
    BY <1>2, <1>3, <1>4 DEF HandStep, c
  <1>6. thread[t].cur = c /\ UNCHANGED queue
    BY DEF c
  <1>7. QED
    BY <1>1, <1>5, <1>6, HoldKeeps

(* It is in the same hands. *)
LEMMA GoesOnKeeps ==
  ASSUME OwnInv, NEW t \in Thread, thread[t].pc \notin Unbusy \cup {"aborted"},
         NEW r, SameHold(conn[thread[t].cur], r), Update(thread[t].cur, r),
         NEW place \in Places \ (Unbusy \cup {"aborted"}),
         Goto(t, place, thread[t].cur) \/ UNCHANGED thread, UNCHANGED <<queue, server>>
  PROVE  OwnInv'
  <1>1. thread[t].cur \in Client /\ Held(conn[thread[t].cur]) /\ Undisturbed(conn[thread[t].cur], t)
    BY BusyHeld
  <1>2. Held(r) /\ Undisturbed(r, t)
    BY <1>1, SameHeld
  <1>3. ThreadStep(t, thread[t].batch, thread[t].cur)
    BY <1>1, NoClientZero, GotoSteps, StaySteps DEF OwnInv, Resting, Unbusy
  <1>4. QED
    BY <1>2, <1>3, BusyKeeps DEF Held

LEMMA HandlerClientKeeps ==
  ASSUME OwnInv, NEW t \in Thread, handlerClient(t), UNCHANGED server
  PROVE  OwnInv'
  <1> DEFINE c == thread[t].cur
  <1>0. {"recv", "send", "close"} \subseteq Places \ (Unbusy \cup {"aborted"})
    BY DEF Places, Unbusy, Resting
  <1>1. CASE RecvMsg(t)
    <2>1. /\ thread[t].pc \notin Unbusy \cup {"aborted"} /\ UNCHANGED queue
          /\ \E r \in Read(conn[c], FALSE) :
               \/ Update(c, r) /\ Goto(t, "close", c)
               \/ Update(c, Encoded(r)) /\ Goto(t, "send", c)
               \/ Update(c, r) /\ UNCHANGED thread
      BY <1>0, <1>1 DEF RecvMsg, At
    <2>2. PICK r \in Read(conn[c], FALSE) :
            \/ Update(c, r) /\ Goto(t, "close", c)
            \/ Update(c, Encoded(r)) /\ Goto(t, "send", c)
            \/ Update(c, r) /\ UNCHANGED thread
      BY <2>1
    <2>3. IsConn(conn[c])
      BY <2>1, BusyHeld, HeldFacts
    <2>4. SameHold(conn[c], r) /\ SameHold(conn[c], Encoded(r))
      <3>1. SameHold(conn[c], r)
        BY <2>3, ReadHolds
      <3>2. QED
        BY <3>1, EncodedHolds, HoldTwice DEF SameHold
    <2> HIDE DEF c
    <2>5. QED
      BY <1>0, <2>1, <2>2, <2>4, GoesOnKeeps DEF c
  <1>2. CASE SendMsg(t)
    <2> DEFINE again(w) == [ConnReset(w) EXCEPT !.codec = NewCodec]
    <2>1. /\ thread[t].pc \notin Unbusy \cup {"aborted"} /\ UNCHANGED queue
          /\ \E w \in WriteResults(conn[c]) :
               \/ Update(c, w) /\ Goto(t, "close", c)
               \/ Update(c, again(w)) /\ Goto(t, "recv", c)
               \/ Update(c, w) /\ UNCHANGED thread
      BY <1>0, <1>2 DEF SendMsg, At
    <2>2. PICK w \in WriteResults(conn[c]) :
            \/ Update(c, w) /\ Goto(t, "close", c)
            \/ Update(c, again(w)) /\ Goto(t, "recv", c)
            \/ Update(c, w) /\ UNCHANGED thread
      BY <2>1
    <2>3. IsConn(conn[c])
      BY <2>1, BusyHeld, HeldFacts
    <2>4. SameHold(conn[c], w) /\ SameHold(conn[c], again(w))
      <3>1. SameHold(conn[c], w)
        BY <2>3, WriteHolds
      <3>2. SameHold(w, ConnReset(w))
        BY <3>1, ResetHolds DEF SameHold
      <3>3. SameHold(ConnReset(w), again(w))
        BY <3>2 DEF SameHold, IsConn, Fields
      <3> HIDE DEF again
      <3>4. QED
        BY <3>1, <3>2, <3>3, HoldTwice
    <2> HIDE DEF c, again
    <2>5. QED
      BY <1>0, <2>1, <2>2, <2>4, GoesOnKeeps DEF c
  <1>3. QED
    BY <1>1, <1>2 DEF handlerClient

LEMMA CloseClientKeeps ==
  ASSUME OwnInv, NEW t \in Thread, NEW p, CloseClient(t, p), server.name \in BlockingNames,
         UNCHANGED server
  PROVE  OwnInv'
  <1> DEFINE k == conn[thread[t].cur]
  <1>1. thread[t].pc \notin Unbusy \cup {"aborted"}
    BY DEF CloseClient, At, Unbusy, Resting
  <1>2. Held(k) /\ k.event = NoEvent
    BY <1>1, BusyHeld DEF Held, ConnOK
  <1>3. ConnOK(Deleted(Close(k, p)))
    <2> HIDE DEF k
    <2>1. IsConn(k) /\ k.phase # "new" /\ k.listener = 0
      BY <1>2, HeldFacts
    <2>2. /\ IsConn(Close(k, p)) /\ Close(k, p).phase # "new" /\ Close(k, p).listener = 0
          /\ Close(k, p).event = NoEvent
      BY <1>2, <2>1 DEF Close, IsConn, Fields
    <2>3. /\ IsConn(Deleted(Close(k, p))) /\ Deleted(Close(k, p)).phase # "new"
          /\ Deleted(Close(k, p)).listener = 0 /\ Deleted(Close(k, p)).event = NoEvent
      BY <2>2 DEF Deleted, IsConn, Fields
    <2>4. QED
      BY <2>3 DEF ConnOK, NoEvent, Quiet
  <1>4. thread[t].batch = {}
    BY DEF OwnInv, NeverHave
  <1>5. ThreadStep(t, thread[t].batch, 0)
    BY <1>4, GotoSteps DEF CloseClient, OwnInv, Unbusy, Resting, Places
  <1>6. QED
    BY <1>1, <1>3, <1>5, BusyKeeps DEF CloseClient

LEMMA AcceptKeeps ==
  ASSUME OwnInv, NEW t \in Thread, NEW listener, NEW p, NEW c \in InBacklog(listener),
         Update(c, Accepted(conn[c], p)), Goto(t, "recv", c), thread[t].cur = 0,
         UNCHANGED <<queue, server>>, server.name \in BlockingNames, On("MultiThread") => c = t - 1
  PROVE  OwnInv'
  <1>1. c \in Client /\ ConnOK(conn[c]) /\ conn[c].listener # 0
    BY BacklogOK
  <1>2. Unowned(c)
    BY <1>1, BacklogUnowned DEF ConnOK
  <1>3. Held(Accepted(conn[c], p)) /\ Undisturbed(Accepted(conn[c], p), t)
    BY <1>1, AcceptedOK DEF Undisturbed, Held, Quiet, NoEvent
  <1>4. ThreadStep(t, thread[t].batch, c) /\ thread[t].batch \ {c} = thread[t].batch
    BY <1>1, <1>2, NoClientZero, GotoSteps DEF OwnInv, Unbusy, Resting, Places, Unowned
  <1>5. server.name \notin OnRing
    BY DEF BlockingNames, OnRing
  <1>6. HandStep(t, c, Accepted(conn[c], p), c)
    BY <1>3, <1>4, <1>5 DEF HandStep, Held, Update
  <1>7. QED
    BY <1>1, <1>2, <1>6, HoldKeeps

LEMMA LeaderKeeps ==
  ASSUME OwnInv, NEW t \in Thread, At(t, "top"), Goto(t, "leader", 0),
         UNCHANGED <<conn, queue, server>>
  PROVE  OwnInv'
  <1>1. thread[t].cur = 0 /\ thread[t].batch = {}
    BY Thread0 DEF At, Resting, Unbusy, OwnInv
  <1>2. ThreadStep(t, thread[t].batch, thread[t].cur)
    BY <1>1, GotoSteps DEF OwnInv, Unbusy, Resting, Places
  <1> DEFINE S == {}
             f == conn
  <1>3. conn' = [c \in Client |-> IF c \in S THEN f[c] ELSE conn[c]]
    BY DEF OwnInv, Connections
  <1>4. S \in SUBSET Client /\ \A c \in S : conn[c].listener # 0 /\ ConnOK(f[c])
    OBVIOUS
  <1> HIDE DEF S, f
  <1>5. UNCHANGED <<queue, server>> /\ thread[t].batch \subseteq thread[t].batch
    OBVIOUS
  <1>6. QED
    BY ONLY OwnInv, t \in Thread, <1>2, <1>3, <1>4, <1>5, FreshKeeps

LEMMA BlockingKeeps ==
  ASSUME OwnInv, UNCHANGED server,
         \/ On("SingleProcess") /\ SingleProcess
         \/ On("MultiThread") /\ MultiThread
         \/ On("ProcessPool1") /\ \E t \in Thread : ProcessPool1(t)
         \/ On("ProcessPool2") /\ \E t \in Thread : ProcessPool2(t)
         \/ On("ThreadPool") /\ \E t \in Thread : ThreadPool(t)
         \/ On("LeaderAndFollower") /\ \E t \in Thread : LeaderAndFollower(t)
  PROVE  OwnInv'
  <1>1. server.name \in BlockingNames
    BY DEF On, BlockingNames
  <1>2. CASE \E t \in Thread : handlerClient(t)
    BY <1>2, HandlerClientKeeps
  <1>3. CASE \E t \in Thread : \E p : CloseClient(t, p)
    BY <1>1, <1>3, CloseClientKeeps
  <1>4. CASE ~ On("MultiThread") /\ \E t \in Thread : \E listener, p :
               (At(t, "top") \/ At(t, "leader")) /\ Accept(t, listener, p, "recv")
    <2>1. PICK t \in Thread : \E listener, p : (At(t, "top") \/ At(t, "leader")) /\ Accept(t, listener, p, "recv")
      BY <1>4
    <2>2. thread[t].cur = 0
      BY <2>1, Thread0 DEF At, Resting, Unbusy, OwnInv
    <2>3. QED
      BY <1>1, <1>4, <2>1, <2>2, AcceptKeeps DEF Accept
  <1>5. CASE On("MultiThread") /\ MultiThread
    <2>1. CASE \E c \in InBacklog(1) :
                 /\ Update(c, Accepted(conn[c], 1)) /\ Goto(Of(c), "recv", c) /\ UNCHANGED queue
      <3>1. PICK c \in InBacklog(1) :
                 Update(c, Accepted(conn[c], 1)) /\ Goto(Of(c), "recv", c) /\ UNCHANGED queue
        BY <2>1
      <3>2. c \in Client /\ ConnOK(conn[c]) /\ conn[c].listener # 0
        BY BacklogOK
      <3>3. Of(c) \in Thread /\ c = Of(c) - 1
        BY <3>2, EchoConnAssumption DEF Of, Thread, Client
      <3>4. thread[Of(c)].cur = 0
        BY <1>5, <3>2, <3>3, BacklogUnowned DEF OwnInv, NeverHave, Unowned, ConnOK
      <3>5. QED
        BY <1>1, <3>1, <3>3, <3>4, AcceptKeeps
    <2>2. CASE \E c \in Client : handlerClient(Of(c)) \/ CloseClient(Of(c), 1)
      <3>1. \A c \in Client : Of(c) \in Thread
        BY EchoConnAssumption DEF Of, Thread, Client
      <3>2. QED
        BY <1>2, <1>3, <2>2, <3>1
    <2>3. QED
      BY <1>5, <2>1, <2>2 DEF MultiThread
  <1>6. CASE \E t \in Thread : LeaderAndFollower(t) /\ On("LeaderAndFollower")
    <2>1. CASE \E t \in Thread : At(t, "top") /\ Goto(t, "leader", 0) /\ UNCHANGED <<conn, queue>>
      BY <2>1, LeaderKeeps
    <2>2. ~ On("MultiThread")
      BY <1>6 DEF On
    <2>3. QED
      BY <1>2, <1>3, <1>4, <1>6, <2>1, <2>2 DEF LeaderAndFollower
  <1>7. CASE \/ On("SingleProcess") /\ SingleProcess
             \/ On("ProcessPool1") /\ \E t \in Thread : ProcessPool1(t)
             \/ On("ProcessPool2") /\ \E t \in Thread : ProcessPool2(t)
             \/ On("ThreadPool") /\ \E t \in Thread : ThreadPool(t)
    <2>1. ~ On("MultiThread")
      BY <1>7 DEF On
    <2>2. CASE SingleProcess
      BY <1>2, <1>3, <1>4, <2>1, <2>2, One DEF SingleProcess
    <2>3. CASE \E t \in Thread : ProcessPool1(t)
      BY <1>2, <1>3, <1>4, <2>1, <2>3 DEF ProcessPool1
    <2>4. CASE \E t \in Thread : ProcessPool2(t)
      BY <1>2, <1>3, <1>4, <2>1, <2>4 DEF ProcessPool2
    <2>5. CASE \E t \in Thread : ThreadPool(t)
      BY <1>2, <1>3, <1>4, <2>1, <2>5 DEF ThreadPool
    <2>6. QED
      BY <1>7, <2>2, <2>3, <2>4, <2>5
  <1>8. QED
    BY <1>5, <1>6, <1>7

(* Epoll, Poll and Select. *)
LEMMA ServeEventKeeps ==
  ASSUME OwnInv, NEW c \in Client, ServeEvent(c), server.name \in LevelNames, UNCHANGED server
  PROVE  OwnInv'
  <1>1. c \in thread[1].batch /\ thread[1].cur = 0 /\ UNCHANGED queue
    BY Thread0, One DEF ServeEvent, At, Unbusy, OwnInv
  <1>2. Held(conn[c]) /\ conn[c].event.epoll = 1
    BY <1>1, One, BatchHeld DEF OwnInv, InBatches
  <1>3. ThreadStep(1, thread[1].batch \ {c}, c)
    <2>1. Run(1, c, "recv") /\ "recv" \in Places \ (Unbusy \cup {"aborted"})
      BY <1>1 DEF ServeEvent, Run, Places, Unbusy, Resting
    <2>2. QED
      BY <2>1, One, RunSteps DEF OwnInv
  <1>4. /\ server.name \notin HandOver \cup OnRing \cup BlockingNames /\ ~ On("MultiThread")
        /\ conn' = [conn EXCEPT ![c] = conn[c]]
    BY DEF LevelNames, HandOver, OnRing, BlockingNames, On, ServeEvent, OwnInv, Connections
  <1>5. HandStep(1, c, conn[c], c)
    BY <1>2, <1>3, <1>4 DEF HandStep, Held, Undisturbed
  <1>6. QED
    BY <1>1, <1>5, One, HoldKeeps

LEMMA ServedKeeps ==
  ASSUME OwnInv, Served, UNCHANGED server
  PROVE  OwnInv'
  <1>1. thread[1].pc \notin Unbusy \cup {"aborted"}
    BY DEF Served, At, Unbusy, Resting
  <1>2. ConnOK(ReleaseConn(conn[thread[1].cur], 1))
    BY <1>1, One, BusyHeld, ReleaseOK
  <1>3. ThreadStep(1, thread[1].batch, 0)
    BY One, OnwardSteps DEF Served, OwnInv
  <1>4. QED
    BY <1>1, <1>2, <1>3, One, BusyKeeps DEF Served

LEMMA EpollPollSelectKeeps ==
  ASSUME OwnInv, server.name \in LevelNames, UNCHANGED server,
         Poll \/ Select \/ \E la : Epoll(la)
  PROVE  OwnInv'
  <1>1. CASE ListenWait(1)
    BY <1>1, ListenWaitKeeps, LevelModes, One
  <1>2. CASE \E max, p, epoll, mode : LoopAccept(1, max, NewReads(p, epoll, mode))
    BY <1>2, NewReadsKeep, LevelModes, One
  <1>3. CASE \E max : LoopAccept(1, max, AllRefused)
    BY <1>3, RefusalKeeps, One
  <1>4. CASE \E c \in Client : ServeEvent(c)
    BY <1>4, ServeEventKeeps
  <1>5. CASE handlerClient(1) \/ Served
    BY <1>5, HandlerClientKeeps, ServedKeeps, One
  <1>6. QED
    BY <1>1, <1>2, <1>3, <1>4, <1>5 DEF Epoll, Poll, Select

(***************************************************************************)
(* EpollReactorThreadPoolMS.                                               *)
(***************************************************************************)
(* Nothing happens to a connection that anybody has. *)
LEMMA AcceptOneKeeps ==
  ASSUME OwnInv, NEW t \in Thread, NEW l, NEW c \in InBacklog(l), NEW k, Update(c, k), ConnOK(k),
         ThreadStep(t, thread[t].batch, thread[t].cur), UNCHANGED <<queue, server>>
  PROVE  OwnInv'
  <1> DEFINE S == {c}
             f == [d \in {c} |-> k]
  <1>1. c \in Client /\ conn[c].listener # 0
    BY BacklogOK
  <1>2. conn' = [d \in Client |-> IF d \in S THEN f[d] ELSE conn[d]]
    BY <1>1 DEF OwnInv, Connections, Update
  <1>3. S \in SUBSET Client /\ \A d \in S : conn[d].listener # 0 /\ ConnOK(f[d])
    BY <1>1
  <1> HIDE DEF S, f
  <1>4. UNCHANGED <<queue, server>> /\ thread[t].batch \subseteq thread[t].batch
    OBVIOUS
  <1>5. QED
    BY ONLY OwnInv, t \in Thread, <1>2, <1>3, <1>4, FreshKeeps,
            ThreadStep(t, thread[t].batch, thread[t].cur)

(* A thread only drops events. *)
LEMMA DropKeeps ==
  ASSUME OwnInv, NEW t \in Thread, NEW B, B \subseteq thread[t].batch,
         ThreadStep(t, B, thread[t].cur), UNCHANGED <<conn, queue, server>>
  PROVE  OwnInv'
  <1> DEFINE S == {}
             f == conn
  <1>1. conn' = [c \in Client |-> IF c \in S THEN f[c] ELSE conn[c]]
    BY DEF OwnInv, Connections
  <1>2. S \in SUBSET Client /\ \A c \in S : conn[c].listener # 0 /\ ConnOK(f[c])
    OBVIOUS
  <1> HIDE DEF S, f
  <1>3. UNCHANGED <<queue, server>>
    OBVIOUS
  <1>4. QED
    BY ONLY OwnInv, t \in Thread, B \subseteq thread[t].batch, ThreadStep(t, B, thread[t].cur),
            <1>1, <1>2, <1>3, FreshKeeps

LEMMA SubsCount == Cardinality(Subs) \in Nat \ {0}
  <1>1. 2 \in Int /\ Threads \in Int /\ 2 \in Subs
    BY EchoConnAssumption DEF Subs
  <1>2. Cardinality(Subs) = Threads - 2 + 1 /\ 2 <= Threads
    BY <1>1, FS_Interval, EchoConnAssumption DEF Subs
  <1>3. QED
    BY <1>1, <1>2

LEMMA TurnSteps ==
  ASSUME NEW on, Turn(on), NEW B, NEW x,
         on = [u \in Thread |-> on[u]], \A u \in Thread \ {1} : on[u] = thread[u],
         on[1].batch = B, on[1].cur = x, IsThread(on[1])
  PROVE  ThreadStep(1, B, x)
  <1> DEFINE n == (on[1].index + 1) % Cardinality(Subs)
             th == [on[1] EXCEPT !.index = n]
  <1>1. n \in Nat
    BY SubsCount DEF IsThread
  <1> HIDE DEF n
  <1>2. IsThread(th) /\ th.batch = B /\ th.cur = x
    BY <1>1 DEF IsThread
  <1>3. thread' = [on EXCEPT ![1] = th]
    BY DEF Turn, n
  <1> HIDE DEF th
  <1>4. QED
    BY <1>2, <1>3, One DEF ThreadStep

LEMMA MasterSubKeeps ==
  ASSUME OwnInv, On("EpollReactorThreadPoolMS"), NEW main, EpollReactorThreadPoolMS(main), UNCHANGED server
  PROVE  OwnInv'
  <1>0. server.name \in LevelNames
    BY DEF On, LevelNames
  <1>1. CASE ListenWait(1)
    BY <1>0, <1>1, ListenWaitKeeps, LevelModes, One
  <1>2. CASE AcceptEnds
    <2>1. thread[1].cur = 0 /\ ThreadStep(1, thread[1].batch \ {Sock}, 0)
      BY <1>2, TakeSteps, One DEF AcceptEnds, OwnInv
    <2>2. ThreadStep(1, thread[1].batch \ {Sock}, thread[1].cur)
      BY <2>1
    <2>3. QED
      BY <1>2, <2>2, One, DropKeeps DEF AcceptEnds
  <1>3. CASE \E c \in Client : mainReactorThread(c, main)
    <2>1. PICK c \in Client : mainReactorThread(c, main)
      BY <1>3
    <2>2. CASE AcceptToMain(c)
      <3>1. c \in InBacklog(1) /\ UNCHANGED <<thread, queue>> /\ Update(c, NewRead(conn[c], 1, 1, "lt"))
        BY <2>2 DEF AcceptToMain, Accepting
      <3>2. ConnOK(NewRead(conn[c], 1, 1, "lt"))
        BY <1>0, <3>1, BacklogOK, LevelModes, NewReadOK DEF Held
      <3>3. ThreadStep(1, thread[1].batch, thread[1].cur)
        BY <3>1, One, StaySteps DEF OwnInv
      <3>4. QED
        BY <3>1, <3>2, <3>3, One, AcceptOneKeeps
    <2>3. CASE /\ Accepting(c) /\ Update(c, NewRead(conn[c], 1, NextSub, "lt"))
               /\ Turn(thread) /\ UNCHANGED queue
      <3>1. c \in InBacklog(1)
        BY <2>3 DEF Accepting
      <3>2. ConnOK(NewRead(conn[c], 1, NextSub, "lt"))
        BY <1>0, <3>1, BacklogOK, LevelModes, NewReadOK DEF Held
      <3>3. ThreadStep(1, thread[1].batch, thread[1].cur)
        BY <2>3, One, TurnSteps DEF OwnInv, ThreadsOK
      <3>4. QED
        BY <2>3, <3>1, <3>2, <3>3, One, AcceptOneKeeps
    <2>4. CASE /\ Leaving(c) /\ Update(c, AddReadEvent(ClearEvent(conn[c]), NextSub, "lt"))
               /\ Turn(Rest(c)) /\ UNCHANGED queue
      <3>1. c \in thread[1].batch /\ thread[1].cur = 0 /\ thread[1].pc = "events"
        BY <2>4, Thread0, One DEF Leaving, At, Unbusy, OwnInv
      <3>2. Held(conn[c])
        BY <3>1, BatchHeld, One
      <3>3. Held(ClearEvent(conn[c]))
        <4>1. /\ IsConn(conn[c]) /\ conn[c].phase # "new" /\ conn[c].listener = 0 /\ conn[c].fds # {}
          BY <3>2, HeldFacts
        <4>2. /\ IsConn(ClearEvent(conn[c])) /\ ClearEvent(conn[c]).phase # "new"
              /\ ClearEvent(conn[c]).listener = 0 /\ ClearEvent(conn[c]).fds # {}
              /\ ClearEvent(conn[c]).event = NoEvent
          BY <4>1, NewIsConn DEF ClearEvent, IsConn, Fields
        <4>3. QED
          BY <4>2 DEF Held, ConnOK, NoEvent, Quiet
      <3>4. ConnOK(AddReadEvent(ClearEvent(conn[c]), NextSub, "lt"))
        BY <1>0, <3>3, LevelModes, AddReadOK DEF Held
      <3>5. /\ Rest(c) = [u \in Thread |-> Rest(c)[u]]
            /\ \A u \in Thread \ {1} : Rest(c)[u] = thread[u]
            /\ Rest(c)[1].batch = thread[1].batch \ {c} /\ Rest(c)[1].cur = 0
            /\ IsThread(Rest(c)[1])
        <4>1. thread = [u \in Thread |-> thread[u]] /\ IsThread(thread[1])
          BY One DEF OwnInv, ThreadsOK
        <4> DEFINE th == [thread[1] EXCEPT !.batch = @ \ {c},
                                           !.pc = IF thread[1].batch = {c} THEN "top" ELSE "events"]
        <4>2. Rest(c) = [thread EXCEPT ![1] = th]
          BY DEF Rest
        <4>3. IsThread(th) /\ th.batch = thread[1].batch \ {c} /\ th.cur = 0
          BY <3>1, <4>1 DEF IsThread, Places, Unbusy, Resting
        <4> HIDE DEF th
        <4>4. QED
          BY <4>1, <4>2, <4>3, One
      <3>6. ThreadStep(1, thread[1].batch \ {c}, 0)
        BY <2>4, <3>5, TurnSteps
      <3>7. HandStep(1, c, AddReadEvent(ClearEvent(conn[c]), NextSub, "lt"), 0)
        BY <2>4, <3>4, <3>6, NoClientZero DEF HandStep, Update
      <3>8. QED
        BY <2>4, <3>1, <3>7, One, HoldKeeps
    <2>5. QED
      BY <2>1, <2>2, <2>3, <2>4 DEF mainReactorThread
  <1>4. CASE \E t \in Subs : subReactorThread(t)
    <2>1. PICK t \in Thread : subReactorThread(t)
      BY <1>4, EchoConnAssumption DEF Subs, Thread
    <2>2. CASE EpollWait(t, t, FALSE)
      BY <1>0, <2>2, EpollWaitKeeps, LevelModes
    <2>3. CASE \E c \in Client : ReadWrite(t, c, 1, TRUE, "lt")
      BY <1>0, <2>3, ReadWriteKeeps, LevelModes
    <2>4. QED
      BY <2>1, <2>2, <2>3 DEF subReactorThread
  <1>5. QED
    BY <1>1, <1>2, <1>3, <1>4 DEF EpollReactorThreadPoolMS

(***************************************************************************)
(* The half-sync half-async servers.                                       *)
(***************************************************************************)
LEMMA HandOverModes ==
  ASSUME server.name \in HandOver
  PROVE  /\ \A mode : mode # "et" => ModeOK("write", mode)
         /\ ModeOK("read", "oneshot")
         /\ server.name \notin BlockingNames \cup OnRing /\ ~ On("MultiThread")
  BY DEF HandOver, ModeOK, BlockingNames, OnRing, On

LEMMA IoThreads == Io \subseteq Thread /\ Takers \subseteq Thread /\ Io \cap Takers = {}
  BY EchoConnAssumption DEF Io, Takers, Workers, Thread

(* The threads are elsewhere with what they had. *)
LEMMA PlacesKeep ==
  ASSUME OwnInv, ThreadsOK', \A u \in Thread : /\ thread'[u].batch = thread[u].batch
                                               /\ thread'[u].cur = thread[u].cur,
         UNCHANGED <<conn, queue, server>>
  PROVE  OwnInv'
  <1> USE DEF OwnInv
  <1>1. Connections'
    BY DEF Connections, ConnOK, Quiet
  <1>2. InBatches' /\ InQueue'
    BY DEF InBatches, InQueue, Quiet
  <1>3. BusyWith'
    BY DEF BusyWith, Undisturbed, Quiet
  <1>4. NeverHave'
    BY DEF NeverHave, On, Takers, Io, With, Workers
  <1>5. QED
    BY <1>1, <1>2, <1>3, <1>4

(* A thread busy with a connection takes it to another place, unchanged. *)
LEMMA CarryKeeps ==
  ASSUME OwnInv, NEW t \in Thread, thread[t].pc \notin Unbusy \cup {"aborted"},
         NEW place \in Places \ (Unbusy \cup {"aborted"}),
         Goto(t, place, thread[t].cur), UNCHANGED <<conn, queue, server>>
  PROVE  OwnInv'
  <1>1. IsConn(conn[thread[t].cur])
    BY BusyHeld, HeldFacts
  <1>2. SameHold(conn[thread[t].cur], conn[thread[t].cur])
    BY <1>1 DEF SameHold
  <1>3. Update(thread[t].cur, conn[thread[t].cur])
    BY DEF Update, OwnInv, Connections
  <1>4. QED
    BY <1>2, <1>3, GoesOnKeeps

LEMMA ReadRequestKeeps ==
  ASSUME OwnInv, server.name \in HandOver, NEW t \in Thread, NEW c \in Client, ReadRequest(t, c),
         UNCHANGED server
  PROVE  OwnInv'
  <1>1. c \in thread[t].batch /\ thread[t].pc = "events" /\ thread[t].cur = 0 /\ UNCHANGED queue
    BY Thread0 DEF ReadRequest, At, Unbusy, OwnInv
  <1>2. Held(conn[c]) /\ Quiet(conn[c])
    BY <1>1, BatchHeld DEF OwnInv, InBatches, ReadRequest
  <1>3. PICK r \in Read(conn[c], TRUE) :
          IF ~ r.error /\ OneMessage(r)
          THEN /\ thread' = [thread EXCEPT ![t].batch = @ \ {c}, ![t].pc = "push", ![t].cur = c]
               /\ Update(c, r)
          ELSE /\ TakeEvent(t, c)
               /\ Update(c, IF r.error THEN ReleaseConn(r, 1) ELSE ReStartReadEvent(r))
    BY DEF ReadRequest
  <1>4. Held(r) /\ Quiet(r)
    BY <1>2, HeldFacts, ReadHolds, SameHeld
  <1>5. CASE ~ r.error /\ OneMessage(r)
    <2>1. ThreadStep(t, thread[t].batch \ {c}, c)
      <3>1. thread' = [thread EXCEPT ![t].batch = @ \ {c}, ![t].pc = "push", ![t].cur = c]
        BY <1>3, <1>5
      <3>2. thread = [u \in Thread |-> thread[u]] /\ \A u \in Thread : IsThread(thread[u])
        BY DEF OwnInv, ThreadsOK
      <3> DEFINE th == [thread[t] EXCEPT !.batch = @ \ {c}, !.pc = "push", !.cur = c]
      <3>3. IsThread(th) /\ th.batch = thread[t].batch \ {c} /\ th.cur = c
        BY <3>2, NoClientZero DEF IsThread, Places, Unbusy, Resting
      <3>4. thread' = [thread EXCEPT ![t] = th]
        BY <3>1
      <3> HIDE DEF th
      <3>5. QED
        BY <3>2, <3>3, <3>4 DEF ThreadStep
    <2>2. HandStep(t, c, r, c)
      BY <1>3, <1>4, <1>5, <2>1, HandOverModes DEF HandStep, Held, Undisturbed, Update
    <2>3. QED
      BY <1>1, <2>2, HoldKeeps
  <1>6. CASE ~ (~ r.error /\ OneMessage(r))
    <2> DEFINE k == IF r.error THEN ReleaseConn(r, 1) ELSE ReStartReadEvent(r)
    <2>1. ConnOK(k)
      BY <1>4, ReleaseOK, ModOK, HandOverModes DEF Held
    <2>2. TakeEvent(t, c) /\ Update(c, k)
      BY <1>3, <1>6
    <2> HIDE DEF k
    <2>3. ThreadStep(t, thread[t].batch \ {c}, 0)
      BY <2>2, TakeSteps DEF OwnInv
    <2>4. HandStep(t, c, k, 0)
      BY <2>1, <2>2, <2>3, NoClientZero, HandOverModes DEF HandStep, Update
    <2>5. QED
      BY <1>1, <2>4, HoldKeeps
  <1>7. QED
    BY <1>5, <1>6

LEMMA IoHandlerKeeps ==
  ASSUME OwnInv, server.name \in HandOver, NEW t \in Io, ioHandler(t), UNCHANGED server
  PROVE  OwnInv'
  <1>0. t \in Thread /\ t \notin Takers
    BY IoThreads
  <1>1. CASE ListenWait(t)
    BY <1>0, <1>1, ListenWaitKeeps, HandOverModes
  <1>2. CASE LoopAccept(t, All, [c \in Client |-> NewOneShot(conn[c], t)])
    <2>1. ASSUME NEW c \in InBacklog(t) PROVE ConnOK([d \in Client |-> NewOneShot(conn[d], t)][c])
      BY BacklogOK, NewReadOK, HandOverModes DEF NewOneShot, Held
    <2>2. QED
      BY <1>0, <1>2, <2>1, LoopAcceptKeeps
  <1>3. CASE \E c \in Client : ReadRequest(t, c)
    BY <1>0, <1>3, ReadRequestKeeps
  <1>4. CASE \E c \in Client : WriteAnswer(t, c)
    <2>1. PICK c \in Client : Handle(t, c, WriteEvent(conn[c], 1, "oneshot"))
      BY <1>4 DEF WriteAnswer
    <2>2. Held(conn[c])
      BY <1>0, <2>1, BatchHeld DEF Handle, TakeEvent
    <2>3. \A k \in WriteEvent(conn[c], 1, "oneshot") : ConnOK(k)
      BY <2>2, WriteEventOK, HandOverModes
    <2>4. QED
      BY <1>0, <2>1, <2>3, HandleKeeps
  <1>5. QED
    BY <1>1, <1>2, <1>3, <1>4 DEF ioHandler

(* The thread's connection goes into the queue. *)
LEMMA PushesKeep ==
  ASSUME OwnInv, server.name \in HandOver, NEW t \in Thread,
         thread[t].pc \notin Unbusy \cup {"aborted"}, NEW place \in {"notify", "fill"},
         Push(t, place), UNCHANGED server
  PROVE  OwnInv'
  <1> DEFINE c == thread[t].cur
  <1>1. c \in Client /\ Held(conn[c]) /\ Quiet(conn[c])
    BY BusyHeld DEF Undisturbed
  <1>2. ThreadStep(t, thread[t].batch, 0) /\ thread[t].batch = thread[t].batch \ {c}
    <2>1. thread[t].batch = thread[t].batch \ {c}
      BY <1>1 DEF OwnInv, BusyWith
    <2>2. Goto(t, place, 0) /\ ThreadsOK /\ place \in Places /\ place \in Unbusy /\ place \notin Resting
      BY DEF Push, OwnInv, Places, Unbusy, Resting
    <2> HIDE DEF c
    <2>3. ThreadStep(t, thread[t].batch, 0)
      BY <2>2, GotoSteps
    <2>4. QED
      BY <2>1, <2>3
  <1>3. conn' = [conn EXCEPT ![c] = conn[c]] /\ queue' = Append(queue, c)
    BY DEF Push, OwnInv, Connections
  <1> HIDE DEF c
  <1>4. HandStep(t, c, conn[c], 0)
    BY <1>1, <1>2, <1>3, NoClientZero, HandOverModes DEF HandStep, Held
  <1>5. thread[t].cur = c /\ server.name \notin OnRing /\ conn[c].fds # {}
    BY <1>1, HandOverModes DEF c, Held
  <1>6. QED
    BY <1>1, <1>3, <1>4, <1>5, PushKeeps

(* The worker takes the connection at the front. *)
LEMMA TakeFrontKeeps ==
  ASSUME OwnInv, server.name \in HandOver, NEW t \in Thread, thread[t].pc \in {"top", "item"},
         TakeFront(t), NEW place \in {"work", "idle"}, Goto(t, place, Head(queue)), UNCHANGED server
  PROVE  OwnInv'
  <1> DEFINE c == Head(queue)
  <1>1. queue \in Seq(Client) /\ queue # <<>> /\ c = queue[1] /\ 1 \in 1 .. Len(queue) /\ c \in Client
    BY DEF TakeFront, OwnInv, InQueue
  <1>2. conn[c].fds # {} /\ Quiet(conn[c]) /\ thread[t].cur = 0 /\ thread[t].batch = {}
    BY <1>1, Thread0 DEF OwnInv, InQueue, Resting, Unbusy
  <1>3. Held(Encoded(conn[c])) /\ Quiet(Encoded(conn[c]))
    <2>1. Held(conn[c])
      BY <1>1, <1>2 DEF Held, OwnInv, Connections
    <2>2. QED
      BY <1>2, <2>1, HeldFacts, EncodedHolds, SameHeld
  <1> HIDE DEF c
  <1>4. ThreadStep(t, thread[t].batch \ {c}, c)
    <2>1. ThreadStep(t, thread[t].batch, c)
      BY <1>1, NoClientZero, GotoSteps DEF OwnInv, Places, Unbusy, Resting, c
    <2>2. QED
      BY <1>2, <2>1
  <1>5. conn' = [conn EXCEPT ![c] = Encoded(conn[c])] /\ queue' = Tail(queue)
    BY DEF TakeFront, Update, c
  <1>6. HandStep(t, c, Encoded(conn[c]), c)
    BY <1>3, <1>4, <1>5, HandOverModes DEF HandStep, Held, Undisturbed
  <1>7. QED
    BY <1>1, <1>2, <1>5, <1>6, PopKeeps DEF c

(* A thread without a connection goes elsewhere. *)
LEMMA WalkKeeps ==
  ASSUME OwnInv, NEW t \in Thread, thread[t].cur = 0, NEW place \in Unbusy, Goto(t, place, 0),
         place \in Resting => thread[t].batch = {}, UNCHANGED <<conn, queue, server>>
  PROVE  OwnInv'
  <1>1. ThreadStep(t, thread[t].batch, thread[t].cur)
    BY GotoSteps DEF OwnInv, Places, Unbusy
  <1>2. thread[t].batch \subseteq thread[t].batch
    OBVIOUS
  <1>3. QED
    BY <1>1, <1>2, DropKeeps

LEMMA OnwardPlace ==
  ASSUME NEW t
  PROVE  Onward(t) \in Unbusy /\ (Onward(t) \in Resting => thread[t].batch = {})
  BY DEF Onward, Unbusy, Resting

LEMMA NotifyKeeps ==
  ASSUME OwnInv, NEW t \in Thread, thread[t].pc = "notify", NotifyOne(t, Onward(t), 0, Takers),
         UNCHANGED server
  PROVE  OwnInv'
  <1> DEFINE on == [thread EXCEPT ![t].pc = Onward(t), ![t].cur = 0]
  <1>1. thread[t].cur = 0 /\ UNCHANGED <<conn, queue>>
    BY Thread0 DEF Unbusy, OwnInv, NotifyOne
  <1>2. CASE thread' = on
    BY <1>1, <1>2, OnwardPlace, WalkKeeps DEF Goto
  <1>3. CASE \E w \in Takers : At(w, "wait") /\ thread' = [on EXCEPT ![w].pc = "top"]
    <2>1. PICK w \in Takers : At(w, "wait") /\ thread' = [on EXCEPT ![w].pc = "top"]
      BY <1>3
    <2>2. w \in Thread /\ w # t /\ thread[w].pc = "wait"
      BY <2>1, IoThreads DEF At
    <2>3. \A u \in Thread : IsThread(thread[u])
      BY DEF OwnInv, ThreadsOK
    <2>4. thread = [u \in Thread |-> thread[u]]
      BY DEF OwnInv, ThreadsOK
    <2> DEFINE mine == [thread[t] EXCEPT !.pc = Onward(t), !.cur = 0]
               its  == [thread[w] EXCEPT !.pc = "top"]
    <2>5. on = [thread EXCEPT ![t] = mine]
      OBVIOUS
    <2>6. on[w] = thread[w]
      BY <2>2, <2>4
    <2>7. IsThread(mine) /\ mine.batch = thread[t].batch /\ mine.cur = 0
      BY <2>3, OnwardPlace DEF IsThread, Places
    <2>8. IsThread(its) /\ its.batch = thread[w].batch /\ its.cur = thread[w].cur
      BY <2>2, <2>3 DEF IsThread, Places, Unbusy, Resting
    <2> HIDE DEF mine
    <2>9. thread' = [[thread EXCEPT ![t] = mine] EXCEPT ![w] = its]
      BY <2>1, <2>5, <2>6
    <2> HIDE DEF its
    <2>10. thread' = [u \in Thread |-> IF u = w THEN its ELSE IF u = t THEN mine ELSE thread[u]]
      BY <2>2, <2>4, <2>9
    <2>11. ThreadsOK' /\ \A u \in Thread : thread'[u].batch = thread[u].batch /\ thread'[u].cur = thread[u].cur
      BY <1>1, <2>3, <2>7, <2>8, <2>10 DEF ThreadsOK
    <2>12. QED
      BY <1>1, <2>11, PlacesKeep
  <1>4. QED
    BY <1>2, <1>3 DEF NotifyOne, Takers

LEMMA WorkKeeps ==
  ASSUME OwnInv, server.name \in HandOver, NEW t \in Takers, NEW direct, Work(t, direct), UNCHANGED server
  PROVE  OwnInv'
  <1> DEFINE c == thread[t].cur
  <1>0. t \in Thread /\ thread[t].batch = {}
    BY IoThreads DEF OwnInv, NeverHave
  <1>1. thread[t].pc \notin Unbusy \cup {"aborted"} /\ UNCHANGED queue
    BY DEF Work, At, Unbusy, Resting
  <1>2. Held(conn[c])
    BY <1>0, <1>1, BusyHeld
  <1>3. ASSUME NEW k, ConnOK(k), Update(c, k), Goto(t, "top", 0) PROVE OwnInv'
    <2>1. ThreadStep(t, thread[t].batch, 0)
      BY <1>0, <1>3, GotoSteps DEF OwnInv, Places, Unbusy, Resting
    <2>2. QED
      BY <1>0, <1>1, <1>3, <2>1, BusyKeeps
  <1>4. CASE ~ direct
    <2>1. ConnOK(ModToWriteEvent(conn[c], "lt"))
      BY <1>2, ModOK, HandOverModes DEF Held
    <2>2. QED
      BY <1>3, <1>4, <2>1 DEF Work
  <1>5. CASE direct
    <2>1. PICK w \in WriteResults(conn[c]) :
            IF w.error \/ FinishWrite(w) THEN Update(c, WorkerDone(w)) /\ Goto(t, "top", 0)
            ELSE Update(c, w) /\ UNCHANGED thread
      BY <1>5 DEF Work
    <2>2. SameHold(conn[c], w) /\ Held(w)
      BY <1>2, HeldFacts, WriteHolds, SameHeld
    <2>3. ConnOK(WorkerDone(w))
      <3>1. Held(ConnReset(w))
        BY <2>2, HeldFacts, ResetHolds, SameHeld
      <3>2. QED
        BY <2>2, <3>1, ReleaseOK, ModOK, HandOverModes DEF WorkerDone, Held
    <2>4. CASE w.error \/ FinishWrite(w)
      BY <1>3, <2>1, <2>3, <2>4
    <2>5. CASE ~ (w.error \/ FinishWrite(w))
      <3>1. "work" \in Places \ (Unbusy \cup {"aborted"})
        BY DEF Places, Unbusy, Resting
      <3>2. QED
        BY <1>0, <1>1, <2>1, <2>2, <2>5, <3>1, GoesOnKeeps
    <2>6. QED
      BY <2>4, <2>5
  <1>6. QED
    BY <1>4, <1>5

LEMMA HandOverKeeps ==
  ASSUME OwnInv, server.name \in HandOver, NEW direct, UNCHANGED server,
         HSHA1(Io, Takers, direct) \/ HSHA2(Io, Takers, direct)
  PROVE  OwnInv'
  <1>0. /\ {"slot", "work", "idle"} \subseteq Places \ (Unbusy \cup {"aborted"})
        /\ "push" \notin Unbusy \cup {"aborted"}
        /\ {"item", "wait", "top", "fill"} \subseteq Unbusy
    BY DEF Places, Unbusy, Resting
  <1>1. CASE \E t \in Io : ioHandler(t)
    BY <1>1, IoHandlerKeeps
  <1>2. CASE \E t \in Takers : Work(t, direct)
    BY <1>2, WorkKeeps
  <1>3. CASE \E t \in Io : pushToQueue1(t, Takers)
    <2>1. PICK t \in Thread : pushToQueue1(t, Takers)
      BY <1>3, IoThreads
    <2>2. CASE At(t, "push") /\ Push(t, "notify")
      BY <1>0, <2>2, PushesKeep DEF At
    <2>3. CASE At(t, "notify") /\ NotifyOne(t, Onward(t), 0, Takers)
      BY <2>3, NotifyKeeps DEF At
    <2>4. QED
      BY <2>1, <2>2, <2>3 DEF pushToQueue1
  <1>4. CASE \E t \in Io : pushToQueue2(t)
    <2>1. PICK t \in Thread : pushToQueue2(t)
      BY <1>4, IoThreads
    <2>2. CASE At(t, "push") /\ Goto(t, "slot", thread[t].cur) /\ UNCHANGED <<conn, queue>>
      BY <1>0, <2>2, CarryKeeps DEF At
    <2>3. CASE At(t, "slot") /\ Push(t, "fill")
      BY <1>0, <2>3, PushesKeep DEF At
    <2>4. CASE At(t, "fill") /\ Goto(t, Onward(t), 0) /\ UNCHANGED <<conn, queue>>
      BY <1>0, <2>4, OnwardPlace, WalkKeeps, Thread0 DEF At, OwnInv
    <2>5. QED
      BY <2>1, <2>2, <2>3, <2>4 DEF pushToQueue2
  <1>5. CASE \E w \in Takers : getQueueData1(w)
    <2>1. PICK w \in Takers : getQueueData1(w)
      BY <1>5
    <2>2. w \in Thread /\ thread[w].batch = {} /\ thread[w].cur = 0 /\ thread[w].pc = "top"
      BY <2>1, IoThreads, Thread0 DEF getQueueData1, At, OwnInv, NeverHave, Unbusy, Resting
    <2>3. CASE Goto(w, "wait", 0) /\ UNCHANGED <<conn, queue>>
      BY <1>0, <2>2, <2>3, WalkKeeps
    <2>4. CASE TakeFront(w) /\ Goto(w, "work", Head(queue))
      BY <2>2, <2>4, TakeFrontKeeps
    <2>5. QED
      BY <2>1, <2>3, <2>4 DEF getQueueData1
  <1>6. CASE \E w \in Takers : getQueueData2(w)
    <2>1. PICK w \in Takers : getQueueData2(w)
      BY <1>6
    <2>2. w \in Thread /\ thread[w].batch = {}
      BY <2>1, IoThreads DEF OwnInv, NeverHave
    <2>3. CASE At(w, "top") /\ Goto(w, "item", 0) /\ UNCHANGED <<conn, queue>>
      BY <1>0, <2>2, <2>3, WalkKeeps, Thread0 DEF At, OwnInv
    <2>4. CASE At(w, "item") /\ TakeFront(w) /\ Goto(w, "idle", Head(queue))
      BY <2>2, <2>4, TakeFrontKeeps DEF At
    <2>5. CASE At(w, "idle") /\ Goto(w, "work", thread[w].cur) /\ UNCHANGED <<conn, queue>>
      BY <1>0, <2>2, <2>5, CarryKeeps DEF At
    <2>6. QED
      BY <2>1, <2>3, <2>4, <2>5 DEF getQueueData2
  <1>7. QED
    BY <1>1, <1>2, <1>3, <1>4, <1>5, <1>6 DEF HSHA1, HSHA2

(***************************************************************************)
(* The servers with a coroutine per connection, on epoll.                  *)
(***************************************************************************)
CoNames == WithCoroutines \ OnRing

LEMMA CoModes ==
  ASSUME server.name \in CoNames, NEW type, NEW mode
  PROVE  /\ ModeOK(type, mode) /\ server.name \notin HandOver
         /\ server.name \notin BlockingNames \cup OnRing /\ ~ On("MultiThread")
  BY DEF CoNames, WithCoroutines, WithConsumers, ModeOK, BlockingNames, OnRing, HandOver, On

LEMMA RunKeeps ==
  ASSUME OwnInv, server.name \in CoNames, NEW t \in Thread, NEW c \in Client,
         At(t, "events"), c \in thread[t].batch, NEW place \in {"reading", "writing"},
         Run(t, c, place), UNCHANGED <<conn, queue, server>>
  PROVE  OwnInv'
  <1>1. thread[t].cur = 0
    BY Thread0 DEF At, Unbusy, OwnInv
  <1>2. Held(conn[c]) /\ conn[c].event.epoll = t
    BY BatchHeld DEF OwnInv, InBatches
  <1>3. ThreadStep(t, thread[t].batch \ {c}, c)
    BY RunSteps DEF OwnInv, Places, Unbusy, Resting
  <1>4. conn' = [conn EXCEPT ![c] = conn[c]]
    BY DEF OwnInv, Connections
  <1>5. HandStep(t, c, conn[c], c)
    BY <1>2, <1>3, <1>4, CoModes DEF HandStep, Held, Undisturbed
  <1>6. QED
    BY <1>1, <1>5, HoldKeeps

LEMMA AbortKeeps ==
  ASSUME OwnInv, NEW t \in Thread, thread[t].cur = 0, Abort(t), UNCHANGED <<conn, queue, server>>
  PROVE  OwnInv'
  <1> DEFINE th == [Idler EXCEPT !.pc = "aborted"]
  <1>1. IsThread(th) /\ th.batch = {} /\ th.cur = 0
    BY DEF Idler, IsThread, Places, Unbusy, Resting
  <1>2. thread' = [thread EXCEPT ![t] = th]
    BY DEF Abort
  <1> HIDE DEF th
  <1>3. ThreadStep(t, {}, thread[t].cur)
    BY <1>1, <1>2 DEF OwnInv, ThreadsOK, ThreadStep
  <1>4. {} \subseteq thread[t].batch
    OBVIOUS
  <1>5. QED
    BY <1>3, <1>4, DropKeeps

LEMMA CreateFailsKeeps ==
  ASSUME OwnInv, NEW t \in Thread, NEW c, CreateFails(t, c), UNCHANGED server
  PROVE  OwnInv'
  BY AbortKeeps, Thread0 DEF CreateFails, At, Unbusy, OwnInv

(* The coroutine runs on with its connection, or yields. *)
LEMMA LoopKeeps ==
  ASSUME OwnInv, server.name \in CoNames, NEW t \in Thread, thread[t].pc \in {"reading", "writing"},
         NEW k, Update(thread[t].cur, k), ConnOK(k), UNCHANGED <<queue, server>>,
         \/ Yielded(t)
         \/ /\ \E place \in {"reading", "writing"} : Goto(t, place, thread[t].cur)
            /\ Held(k) /\ k.event.epoll = conn[thread[t].cur].event.epoll
  PROVE  OwnInv'
  <1>1. thread[t].pc \notin Unbusy \cup {"aborted"}
    BY DEF Unbusy, Resting
  <1>2. CASE Yielded(t)
    <2>1. ThreadStep(t, thread[t].batch, 0)
      BY <1>2, OnwardSteps DEF Yielded, OwnInv
    <2>2. QED
      BY <1>1, <2>1, BusyKeeps
  <1>3. CASE /\ \E place \in {"reading", "writing"} : Goto(t, place, thread[t].cur)
             /\ Held(k) /\ k.event.epoll = conn[thread[t].cur].event.epoll
    <2>1. thread[t].cur \in Client /\ Undisturbed(conn[thread[t].cur], t)
      BY <1>1, BusyHeld
    <2>2. ThreadStep(t, thread[t].batch, thread[t].cur)
      <3>1. PICK place \in {"reading", "writing"} : Goto(t, place, thread[t].cur)
        BY <1>3
      <3>2. place \in Places /\ place \notin Unbusy \cup {"aborted"} /\ place \notin Resting
        BY DEF Places, Unbusy, Resting
      <3>3. QED
        BY <2>1, <3>1, <3>2, NoClientZero, GotoSteps DEF OwnInv
    <2>3. Undisturbed(k, t)
      BY <1>3, <2>1, CoModes DEF Undisturbed, Held
    <2>4. QED
      BY <1>1, <2>2, <2>3, BusyKeeps
  <1>4. QED
    BY <1>2, <1>3

LEMMA HandlerLoopKeeps ==
  ASSUME OwnInv, server.name \in CoNames, NEW t \in Thread, handlerLoop(t), UNCHANGED server
  PROVE  OwnInv'
  <1> DEFINE c == thread[t].cur
  <1>0. Held(conn[c]) /\ thread[t].pc \in {"reading", "writing"} /\ UNCHANGED queue
    <2>1. thread[t].pc \in {"reading", "writing"} /\ UNCHANGED queue
      BY DEF handlerLoop, ReadLoop, WriteLoop, At
    <2>2. thread[t].pc \notin Unbusy \cup {"aborted"}
      BY <2>1 DEF Unbusy, Resting
    <2>3. QED
      BY <2>1, <2>2, BusyHeld
  <1>1. CASE ReadLoop(t)
    <2>1. PICK r \in Read(conn[c], TRUE) :
            \/ Update(c, ReleaseConn(r, t)) /\ Yielded(t)
            \/ Update(c, ModToWriteEvent(Encoded(r), "lt")) /\ Goto(t, "writing", c)
            \/ Update(c, [r EXCEPT !.cid = "reading"]) /\ Yielded(t)
      BY <1>1 DEF ReadLoop
    <2> HIDE DEF c
    <2>2. Held(r) /\ r.event = conn[c].event
      <3>1. SameHold(conn[c], r)
        BY <1>0, HeldFacts, ReadHolds
      <3>2. QED
        BY <1>0, <3>1, SameHeld DEF SameHold
    <2>3. ConnOK(ReleaseConn(r, t))
      BY <2>2, ReleaseOK
    <2>4. Held(Encoded(r)) /\ Encoded(r).event = conn[c].event
      BY <2>2, HeldFacts, EncodedHolds, SameHeld DEF SameHold
    <2>5. /\ Held(ModToWriteEvent(Encoded(r), "lt"))
          /\ ModToWriteEvent(Encoded(r), "lt").event.epoll = conn[c].event.epoll
      BY <2>4, ModOK, CoModes
    <2>6. ConnOK([r EXCEPT !.cid = "reading"])
      <3>1. SameHold(r, [r EXCEPT !.cid = "reading"])
        BY <2>2, HeldFacts DEF SameHold, IsConn, Fields
      <3>2. QED
        BY <2>2, <3>1, SameHeld DEF Held
    <2>7. CASE Update(c, ReleaseConn(r, t)) /\ Yielded(t)
      BY <1>0, <2>3, <2>7, LoopKeeps DEF c
    <2>8. CASE Update(c, ModToWriteEvent(Encoded(r), "lt")) /\ Goto(t, "writing", c)
      BY <1>0, <2>5, <2>8, LoopKeeps DEF Held, c
    <2>9. CASE Update(c, [r EXCEPT !.cid = "reading"]) /\ Yielded(t)
      BY <1>0, <2>6, <2>9, LoopKeeps DEF c
    <2>10. QED
      BY <2>1, <2>7, <2>8, <2>9
  <1>2. CASE WriteLoop(t)
    <2> DEFINE again(w) == [ConnReset(w) EXCEPT !.codec = NewCodec]
    <2>1. PICK w \in WriteResults(conn[c]) :
            \/ Update(c, ReleaseConn(w, t)) /\ Yielded(t)
            \/ Update(c, ModToReadEvent(again(w), "lt")) /\ Goto(t, "reading", c)
            \/ Update(c, [w EXCEPT !.cid = "writing"]) /\ Yielded(t)
      BY <1>2 DEF WriteLoop
    <2>2. Held(w) /\ w.event = conn[c].event
      BY <1>0, HeldFacts, WriteHolds, SameHeld DEF SameHold
    <2>3. ConnOK(ReleaseConn(w, t))
      BY <2>2, ReleaseOK
    <2>4. Held(again(w)) /\ again(w).event = conn[c].event
      <3>1. SameHold(w, ConnReset(w))
        BY <2>2, HeldFacts, ResetHolds
      <3>2. SameHold(ConnReset(w), again(w))
        BY <3>1 DEF SameHold, IsConn, Fields
      <3> HIDE DEF again
      <3>3. SameHold(w, again(w))
        BY <3>1, <3>2, HoldTwice
      <3>4. QED
        BY <2>2, <3>3, SameHeld DEF SameHold
    <2> HIDE DEF again
    <2>5. /\ Held(ModToReadEvent(again(w), "lt"))
          /\ ModToReadEvent(again(w), "lt").event.epoll = conn[c].event.epoll
      BY <2>4, ModOK, CoModes
    <2>6. ConnOK([w EXCEPT !.cid = "writing"])
      <3>1. SameHold(w, [w EXCEPT !.cid = "writing"])
        BY <2>2, HeldFacts DEF SameHold, IsConn, Fields
      <3>2. QED
        BY <2>2, <3>1, SameHeld DEF Held
    <2>7. CASE Update(c, ReleaseConn(w, t)) /\ Yielded(t)
      BY <1>0, <2>3, <2>7, LoopKeeps
    <2>8. CASE Update(c, ModToReadEvent(again(w), "lt")) /\ Goto(t, "reading", c)
      BY <1>0, <2>5, <2>8, LoopKeeps DEF Held
    <2>9. CASE Update(c, [w EXCEPT !.cid = "writing"]) /\ Yielded(t)
      BY <1>0, <2>6, <2>9, LoopKeeps
    <2>10. QED
      BY <2>1, <2>7, <2>8, <2>9
  <1>3. QED
    BY <1>1, <1>2 DEF handlerLoop

(* CoCondNotify: as many notifications as connections to hand over. *)
Condition ==
  {"EpollReactorSingleProcessCoroutineHSHA2", "IoUringProactorSingleProcessCoroutineHSHA2"}

Notified ==
  server.name \in Condition =>
    /\ pool = [t \in Thread |-> pool[t]]
    /\ pool[1] \in [idle : Int, waiting : Int, notify_count : Int]
    /\ pool[1].notify_count = Len(queue)

LEMMA ProducerKeeps ==
  ASSUME OwnInv, server.name \in CoNames, NEW c \in Client, NEW notify, Producer(c, notify),
         UNCHANGED server
  PROVE  OwnInv'
  <1> DEFINE k == [ClearEvent(conn[c]) EXCEPT !.cid = "producer"]
  <1>1. /\ c \in thread[1].batch /\ thread[1].cur = 0
        /\ ThreadStep(1, thread[1].batch \ {c}, 0)
    BY TakeSteps, One DEF Producer, OwnInv
  <1>2. Held(k) /\ Quiet(k)
    <2>1. IsConn(conn[c]) /\ conn[c].phase # "new" /\ conn[c].listener = 0 /\ conn[c].fds # {}
      BY <1>1, One, BatchHeld, HeldFacts
    <2>2. /\ IsConn(ClearEvent(conn[c])) /\ ClearEvent(conn[c]).phase # "new"
          /\ ClearEvent(conn[c]).listener = 0 /\ ClearEvent(conn[c]).fds # {}
          /\ ClearEvent(conn[c]).event = NoEvent
      BY <2>1, NewIsConn DEF ClearEvent, IsConn, Fields
    <2>3. IsConn(k) /\ k.phase # "new" /\ k.listener = 0 /\ k.fds # {} /\ k.event = NoEvent
      BY <2>2 DEF IsConn, Fields
    <2> HIDE DEF k
    <2>4. QED
      BY <2>3 DEF Held, ConnOK, NoEvent, Quiet
  <1>3. conn' = [conn EXCEPT ![c] = k] /\ queue' = Append(queue, c)
    BY DEF Producer, Update
  <1> HIDE DEF k
  <1>4. HandStep(1, c, k, 0)
    BY <1>1, <1>2, <1>3, NoClientZero, CoModes DEF HandStep, Held
  <1>5. server.name \notin OnRing /\ k.fds # {}
    BY <1>2, CoModes DEF Held
  <1>6. QED
    BY <1>1, <1>2, <1>3, <1>4, <1>5, One, PushKeeps

LEMMA ConsumeKeeps ==
  ASSUME OwnInv, server.name \in CoNames, RoundOver, queue # <<>>, NEW notify, Consume(notify),
         UNCHANGED server
  PROVE  OwnInv'
  <1> DEFINE c == Head(queue)
             k == Consumer(c)
  <1>1. queue \in Seq(Client) /\ c = queue[1] /\ 1 \in 1 .. Len(queue) /\ c \in Client
    BY DEF OwnInv, InQueue
  <1>2. conn[c].fds # {} /\ thread[1].cur = 0 /\ thread[1].batch = {}
    BY <1>1, One, Thread0 DEF OwnInv, InQueue, Resting, Unbusy, RoundOver, At
  <1>3. Held(k) /\ k.event.epoll = 1
    <2> DEFINE a == AddReadEvent(conn[c], 1, "lt")
    <2>1. Held(conn[c])
      BY <1>1, <1>2 DEF Held, OwnInv, Connections
    <2>2. Held(a) /\ a.event.epoll = 1
      BY <2>1, AddReadOK, CoModes
    <2> HIDE DEF a
    <2>3. SameHold(a, [a EXCEPT !.cid = "reading"])
      BY <2>2, HeldFacts DEF SameHold, IsConn, Fields
    <2>4. Held([a EXCEPT !.cid = "reading"]) /\ [a EXCEPT !.cid = "reading"].event = a.event
      BY <2>2, <2>3, SameHeld DEF SameHold
    <2>5. k = [a EXCEPT !.cid = "reading"]
      BY DEF Consumer, a
    <2>6. QED
      BY <2>2, <2>4, <2>5
  <1>4. conn' = [conn EXCEPT ![c] = k] /\ queue' = Tail(queue) /\ Goto(1, "reading", c)
    BY DEF Consume, Update
  <1> HIDE DEF c, k
  <1>5. ThreadStep(1, thread[1].batch \ {c}, c)
    <2>1. ThreadStep(1, thread[1].batch, c)
      BY <1>1, <1>4, One, NoClientZero, GotoSteps DEF OwnInv, Places, Unbusy, Resting
    <2>2. QED
      BY <1>2, <2>1
  <1>6. HandStep(1, c, k, c)
    BY <1>3, <1>4, <1>5, CoModes DEF HandStep, Held, Undisturbed
  <1>7. QED
    BY <1>1, <1>2, <1>4, <1>6, One, PopKeeps DEF c

LEMMA CoServerKeeps ==
  ASSUME OwnInv, Notified, UNCHANGED server,
         \/ On("EpollReactorSingleProcessCoroutine") /\ EpollReactorSingleProcessCoroutine
         \/ /\ On("EpollReactorProcessPoolCoroutine")
            /\ \E t \in Thread : EpollReactorProcessPoolCoroutine(t)
         \/ On("EpollReactorSingleProcessCoroutineHSHA1") /\ EpollReactorSingleProcessCoroutineHSHA1
         \/ On("EpollReactorSingleProcessCoroutineHSHA2") /\ EpollReactorSingleProcessCoroutineHSHA2
  PROVE  OwnInv'
  <1>0. server.name \in CoNames
    BY DEF On, CoNames, WithCoroutines, WithConsumers, OnRing
  <1>1. CASE \E t \in Thread : ListenWait(t)
    BY <1>0, <1>1, ListenWaitKeeps, CoModes
  <1>2. CASE \E t \in Thread : \E max, p, epoll, mode : LoopAccept(t, max, NewReads(p, epoll, mode))
    BY <1>0, <1>2, NewReadsKeep, CoModes
  <1>3. CASE \E t \in Thread, c \in Client : CreateOn(t, c)
    BY <1>0, <1>3, RunKeeps DEF CreateOn
  <1>4. CASE \E t \in Thread, c \in Client : CreateFails(t, c)
    BY <1>4, CreateFailsKeeps
  <1>5. CASE \E t \in Thread, c \in Client : ResumeOn(t, c)
    BY <1>0, <1>5, RunKeeps DEF ResumeOn
  <1>6. CASE \E t \in Thread : handlerLoop(t)
    BY <1>0, <1>6, HandlerLoopKeeps
  <1>7. CASE \E c \in Client : \E notify : Producer(c, notify)
    BY <1>0, <1>7, ProducerKeeps
  <1>8. CASE RoundOver /\ SemaphoreDue /\ Consume(0)
    BY <1>0, <1>8, ConsumeKeeps DEF SemaphoreDue
  <1>9. CASE On("EpollReactorSingleProcessCoroutineHSHA2") /\ CondResume
    <2>1. queue # <<>>
      BY <1>9 DEF CondResume, CondDue, Notified, On, Condition
    <2>2. CASE Consume(1)
      BY <1>0, <1>9, <2>1, <2>2, ConsumeKeeps DEF CondResume
    <2>3. CASE Abort(1) /\ UNCHANGED <<conn, queue>>
      BY <1>9, <2>3, One, AbortKeeps, Thread0 DEF CondResume, RoundOver, At, Unbusy, Resting, OwnInv
    <2>4. QED
      BY <1>9, <2>2, <2>3 DEF CondResume
  <1>10. ASSUME NEW t \in Thread, Coroutines(t) PROVE OwnInv'
    BY <1>1, <1>2, <1>3, <1>4, <1>5, <1>6, <1>10 DEF Coroutines
  <1>11. ASSUME NEW due, NEW notify, HSHA(due, notify) PROVE OwnInv'
    BY <1>1, <1>2, <1>4, <1>5, <1>6, <1>7, <1>11, One DEF HSHA
  <1>12. QED
    BY <1>8, <1>9, <1>10, <1>11, One
       DEF EpollReactorSingleProcessCoroutine, EpollReactorProcessPoolCoroutine,
           EpollReactorSingleProcessCoroutineHSHA1, EpollReactorSingleProcessCoroutineHSHA2

(***************************************************************************)
(* The servers on io_uring: what they wait for is a completion, and no     *)
(* event disturbs them.                                                    *)
(***************************************************************************)
LEMMA RingModes ==
  ASSUME server.name \in OnRing
  PROVE  server.name \notin BlockingNames \cup HandOver /\ ~ On("MultiThread")
  BY DEF OnRing, BlockingNames, HandOver, On

LEMMA SameOK ==
  ASSUME NEW k, NEW r, ConnOK(k), SameHold(k, r)
  PROVE  ConnOK(r)
  BY DEF ConnOK, SameHold, Quiet

LEMMA SubmitOK ==
  ASSUME server.name \in OnRing, NEW k, Held(k), NEW t, NEW op
  PROVE  Held(Submit(k, t, op))
  <1> DEFINE e == [k.event EXCEPT !.epoll = t]
  <1>1. /\ IsConn(k) /\ k.phase # "new" /\ k.listener = 0 /\ k.fds # {} /\ Quiet(k)
    BY HeldFacts DEF Held, ConnOK
  <1>2. Submit(k, t, op) = [k EXCEPT !.op = op, !.event = e]
    BY DEF Submit
  <1>3. IsEvent(e) /\ e.armed = k.event.armed /\ e.mode = k.event.mode
    BY <1>1 DEF IsConn, IsEvent, EventFields
  <1> HIDE DEF e
  <1>4. /\ IsConn(Submit(k, t, op)) /\ Submit(k, t, op).phase # "new" /\ Submit(k, t, op).listener = 0
        /\ Submit(k, t, op).fds # {} /\ Submit(k, t, op).event = e
    BY <1>1, <1>2, <1>3 DEF IsConn, Fields
  <1>5. QED
    BY <1>1, <1>3, <1>4, RingModes DEF Held, ConnOK, Quiet

LEMMA AfterReadOK ==
  ASSUME server.name \in OnRing, NEW k, Held(k), NEW t, NEW r \in AfterRead(k, t)
  PROVE  ConnOK(r)
  <1> DEFINE s == [k EXCEPT !.codec = DeCode(@, k.res, Body(k.req)), !.res = 0]
  <1>1. \/ r = ReleaseConn(k, t)
        \/ r = Submit(Encoded(s), t, "write")
        \/ r = Submit(s, t, "read")
    BY DEF AfterRead
  <1>2. SameHold(k, s)
    BY HeldFacts DEF SameHold, IsConn, Fields
  <1> HIDE DEF s
  <1>3. Held(s) /\ Held(Encoded(s))
    BY <1>2, HeldFacts, SameHeld, EncodedHolds
  <1>4. QED
    BY <1>1, <1>3, ReleaseOK, SubmitOK DEF Held

LEMMA AfterWriteOK ==
  ASSUME server.name \in OnRing, NEW k, Held(k), NEW t, NEW r \in AfterWrite(k, t)
  PROVE  ConnOK(r)
  <1> DEFINE s == [k EXCEPT !.send_len = @ + k.res, !.res = 0]
  <1>1. \/ r = ReleaseConn(k, t)
        \/ r = Submit(ConnReset(s), t, "read")
        \/ r = Submit(s, t, "write")
    BY DEF AfterWrite
  <1>2. SameHold(k, s)
    BY HeldFacts DEF SameHold, IsConn, Fields
  <1> HIDE DEF s
  <1>3. Held(s) /\ Held(ConnReset(s))
    BY <1>2, HeldFacts, SameHeld, ResetHolds
  <1>4. QED
    BY <1>1, <1>3, ReleaseOK, SubmitOK DEF Held

LEMMA CompleteKeeps ==
  ASSUME OwnInv, NEW c \in Client, Complete(c), UNCHANGED server
  PROVE  OwnInv'
  <1> DEFINE k == conn[c]
  <1>1. ConnOK(k) /\ IsConn(k)
    BY DEF OwnInv, Connections, ConnOK
  <1>2. ASSUME NEW s, SameHold(k, s), conn' = [conn EXCEPT ![c] = s], k.op # "none",
               UNCHANGED <<thread, queue>>
        PROVE  OwnInv'
    <2>1. ConnOK(s)
      BY <1>1, <1>2, SameOK
    <2>2. s.fds = k.fds /\ s.event = k.event
      BY <1>2 DEF SameHold
    <2>3. QED
      BY <1>2, <2>1, <2>2, TouchKeeps DEF Quiet
  <1>3. UNCHANGED <<thread, queue>>
    BY DEF Complete
  <1> HIDE DEF k
  <1>4. CASE /\ k.op = "read"
             /\ \E r \in Read(k, FALSE) :
                  Update(c, [r EXCEPT !.codec = k.codec, !.op = "was read", !.res = k.inbox - r.inbox])
    <2>1. PICK r \in Read(k, FALSE) :
            Update(c, [r EXCEPT !.codec = k.codec, !.op = "was read", !.res = k.inbox - r.inbox])
      BY <1>4
    <2> DEFINE s == [r EXCEPT !.codec = k.codec, !.op = "was read", !.res = k.inbox - r.inbox]
    <2>2. SameHold(k, r)
      BY <1>1, ReadHolds
    <2>3. SameHold(r, s)
      BY <2>2 DEF SameHold, IsConn, Fields
    <2>4. conn' = [conn EXCEPT ![c] = s]
      BY <2>1 DEF Update
    <2> HIDE DEF s
    <2>5. SameHold(k, s)
      BY <2>2, <2>3, HoldTwice
    <2>6. QED
      BY <1>2, <1>3, <1>4, <2>4, <2>5
  <1>5. CASE /\ k.op = "write"
             /\ \E w \in WriteResults(k) :
                  Update(c, [w EXCEPT !.send_len = k.send_len, !.op = "written",
                                      !.res = w.send_len - k.send_len])
    <2>1. PICK w \in WriteResults(k) :
            Update(c, [w EXCEPT !.send_len = k.send_len, !.op = "written",
                                !.res = w.send_len - k.send_len])
      BY <1>5
    <2> DEFINE s == [w EXCEPT !.send_len = k.send_len, !.op = "written",
                              !.res = w.send_len - k.send_len]
    <2>2. SameHold(k, w)
      BY <1>1, WriteHolds
    <2>3. SameHold(w, s)
      BY <2>2 DEF SameHold, IsConn, Fields
    <2>4. conn' = [conn EXCEPT ![c] = s]
      BY <2>1 DEF Update
    <2> HIDE DEF s
    <2>5. SameHold(k, s)
      BY <2>2, <2>3, HoldTwice
    <2>6. QED
      BY <1>2, <1>3, <1>5, <2>4, <2>5
  <1>6. QED
    BY <1>4, <1>5 DEF Complete, k

LEMMA CompleteAcceptKeeps ==
  ASSUME OwnInv, server.name \in OnRing, NEW t \in Thread, NEW c \in Client, CompleteAccept(t, c),
         UNCHANGED server
  PROVE  OwnInv'
  <1> DEFINE a == Accepted(conn[c], t)
             e == [NoEvent EXCEPT !.epoll = t]
             k == [a EXCEPT !.op = "was accepted", !.event.epoll = t]
  <1>1. c \in InBacklog(t) /\ UNCHANGED queue /\ Update(c, k)
    BY DEF CompleteAccept
  <1>2. Held(a) /\ a.event = NoEvent
    BY <1>1, BacklogOK, AcceptedOK
  <1>3. IsConn(a) /\ a.phase # "new" /\ a.listener = 0 /\ a.fds # {}
    BY <1>2, HeldFacts
  <1>4. k = [a EXCEPT !.op = "was accepted", !.event = e]
    BY <1>2, <1>3
  <1>5. IsEvent(e) /\ ~ e.armed /\ e.mode # "et"
    BY DEF NoEvent, IsEvent, EventFields
  <1> HIDE DEF a, e
  <1>6. IsConn(k) /\ k.phase # "new" /\ k.listener = 0 /\ k.fds # {} /\ k.event = e
    BY <1>3, <1>4, <1>5 DEF IsConn, Fields
  <1> HIDE DEF k
  <1>7. ConnOK(k)
    BY <1>5, <1>6, RingModes DEF ConnOK, Quiet
  <1>8. ThreadStep(t, thread[t].batch, thread[t].cur)
    <2> DEFINE th == [thread[t] EXCEPT !.index = 1]
    <2>1. thread = [u \in Thread |-> thread[u]] /\ IsThread(thread[t])
      BY DEF OwnInv, ThreadsOK
    <2>2. IsThread(th) /\ th.batch = thread[t].batch /\ th.cur = thread[t].cur
      BY <2>1 DEF IsThread
    <2>3. thread' = [thread EXCEPT ![t] = th]
      BY DEF CompleteAccept
    <2> HIDE DEF th
    <2>4. QED
      BY <2>1, <2>2, <2>3 DEF ThreadStep
  <1>9. QED
    BY <1>1, <1>7, <1>8, AcceptOneKeeps

LEMMA WaitCqeKeeps ==
  ASSUME OwnInv, server.name \in OnRing, NEW t \in Thread, WaitCqe(t), UNCHANGED server
  PROVE  OwnInv'
  <1> DEFINE E == {c \in Ring(t) : conn[c].op \in {"was read", "written", "was accepted"}}
  <1>1. /\ thread[t].pc = "top" /\ thread' = [thread EXCEPT ![t].pc = "events", ![t].batch = E]
        /\ UNCHANGED <<conn, queue>>
    BY DEF WaitCqe, At
  <1>2. thread[t].cur = 0 /\ thread[t].batch = {}
    BY <1>1, Thread0 DEF OwnInv, Resting, Unbusy
  <1>3. E \subseteq Client /\ \A c \in E : conn[c].event.epoll = t /\ conn[c].op # "none"
    BY DEF Ring
  <1> HIDE DEF E
  <1>4. ThreadStep(t, E, 0)
    <2> DEFINE th == [thread[t] EXCEPT !.pc = "events", !.batch = E]
    <2>1. thread = [u \in Thread |-> thread[u]] /\ IsThread(thread[t])
      BY DEF OwnInv, ThreadsOK
    <2>2. IsThread(th) /\ th.batch = E /\ th.cur = 0
      BY <1>2, <1>3, <2>1 DEF IsThread, Places, Unbusy, Resting
    <2>3. thread' = [thread EXCEPT ![t] = th]
      BY <1>1
    <2> HIDE DEF th
    <2>4. QED
      BY <2>1, <2>2, <2>3 DEF ThreadStep
  <1>5. ASSUME NEW c \in Client, c \in E PROVE Unowned(c) /\ conn[c].event.epoll = t
    <2>1. \A u \in Thread : c \notin thread[u].batch
      BY <1>2, <1>3, <1>5 DEF OwnInv, InBatches
    <2>2. \A u \in Thread : thread[u].cur # c
      BY NoClientZero DEF OwnInv, NeverHave
    <2>3. \A i \in 1 .. Len(queue) : queue[i] # c
      BY <1>3, <1>5 DEF OwnInv, InQueue
    <2>4. QED
      BY <1>3, <1>5, <2>1, <2>2, <2>3 DEF Unowned
  <1> DEFINE R == {}
  <1>6. conn' = [c \in Client |-> IF c \in R THEN Reported(conn[c]) ELSE conn[c]]
    BY <1>1 DEF OwnInv, Connections
  <1>7. R \in SUBSET Client /\ R \subseteq E /\ R = {}
    OBVIOUS
  <1> HIDE DEF R
  <1>8. server.name \notin BlockingNames /\ server.name \notin HandOver /\ UNCHANGED <<queue, server>>
    BY <1>1, RingModes
  <1>9. QED
    BY <1>2, <1>4, <1>5, <1>6, <1>7, <1>8, ReportKeeps

LEMMA AcceptAgainSteps ==
  ASSUME OwnInv, NEW t \in Thread, NEW c \in Client, AcceptAgain(t, c)
  PROVE  /\ c \in thread[t].batch /\ thread[t].cur = 0
         /\ ThreadStep(t, thread[t].batch \ {c}, 0)
  <1> DEFINE th == [thread[t] EXCEPT !.batch = @ \ {c}, !.index = 0,
                                     !.pc = IF thread[t].batch = {c} THEN "top" ELSE "events"]
  <1>1. c \in thread[t].batch /\ thread[t].pc = "events" /\ thread[t].cur = 0
    BY Thread0 DEF AcceptAgain, At, Unbusy, OwnInv
  <1>2. thread = [u \in Thread |-> thread[u]] /\ IsThread(thread[t])
    BY DEF OwnInv, ThreadsOK
  <1>3. thread' = [thread EXCEPT ![t] = th]
    BY DEF AcceptAgain
  <1>4. IsThread(th) /\ th.batch = thread[t].batch \ {c} /\ th.cur = 0
    BY <1>1, <1>2 DEF IsThread, Places, Unbusy, Resting
  <1> HIDE DEF th
  <1>5. QED
    BY <1>1, <1>2, <1>3, <1>4 DEF ThreadStep

LEMMA AcceptAgainKeeps ==
  ASSUME OwnInv, server.name \in OnRing, NEW t \in Thread, NEW c \in Client, AcceptAgain(t, c),
         NEW k, Update(c, k), SameHold(Submit(conn[c], t, "read"), k), UNCHANGED <<queue, server>>
  PROVE  OwnInv'
  <1>1. /\ c \in thread[t].batch /\ thread[t].cur = 0
        /\ ThreadStep(t, thread[t].batch \ {c}, 0)
    BY AcceptAgainSteps
  <1>2. ConnOK(k)
    BY <1>1, BatchHeld, SubmitOK, SameOK DEF Held
  <1>3. HandStep(t, c, k, 0)
    BY <1>1, <1>2, NoClientZero, RingModes DEF HandStep, Update
  <1>4. QED
    BY <1>1, <1>3, HoldKeeps

LEMMA SubmitHolds ==
  ASSUME OwnInv, server.name \in OnRing, NEW c \in Client, NEW t, Held(conn[c])
  PROVE  LET k == Submit(conn[c], t, "read")
         IN  SameHold(k, k) /\ SameHold(k, [k EXCEPT !.cid = "handler"])
  <1>1. IsConn(Submit(conn[c], t, "read"))
    BY SubmitOK, HeldFacts
  <1>2. QED
    BY <1>1 DEF SameHold, IsConn, Fields

LEMMA AcceptProducesKeeps ==
  ASSUME OwnInv, server.name \in OnRing, NEW c \in Client, NEW notify, AcceptProduces(c, notify),
         UNCHANGED server
  PROVE  OwnInv'
  <1> DEFINE k == [conn[c] EXCEPT !.cid = "producer", !.op = "none"]
  <1>1. /\ c \in thread[1].batch /\ thread[1].cur = 0
        /\ ThreadStep(1, thread[1].batch \ {c}, 0)
    BY One, AcceptAgainSteps DEF AcceptProduces
  <1>2. Held(conn[c])
    BY <1>1, One, BatchHeld
  <1>3. SameHold(conn[c], k) /\ k.op = "none"
    BY <1>2, HeldFacts DEF SameHold, IsConn, Fields
  <1>4. conn' = [conn EXCEPT ![c] = k] /\ queue' = Append(queue, c)
    BY DEF AcceptProduces, Update
  <1> HIDE DEF k
  <1>5. ConnOK(k) /\ k.fds # {} /\ Quiet(k)
    BY <1>2, <1>3, SameHeld DEF Held, ConnOK
  <1>6. HandStep(1, c, k, 0)
    BY <1>1, <1>4, <1>5, NoClientZero, RingModes DEF HandStep
  <1>7. QED
    BY <1>1, <1>3, <1>4, <1>5, <1>6, One, PushKeeps

LEMMA ConsumeRequestKeeps ==
  ASSUME OwnInv, server.name \in OnRing, queue # <<>>, NEW notify, ConsumeRequest(notify),
         UNCHANGED server
  PROVE  OwnInv'
  <1> DEFINE c == Head(queue)
             k == [Submit(conn[c], 1, "read") EXCEPT !.cid = "handler"]
  <1>1. queue \in Seq(Client) /\ c = queue[1] /\ 1 \in 1 .. Len(queue) /\ c \in Client
    BY DEF OwnInv, InQueue
  <1>2. conn[c].fds # {} /\ thread[1].cur = 0 /\ c \notin thread[1].batch
    BY <1>1, One DEF OwnInv, InQueue, NeverHave
  <1>3. ConnOK(k)
    <2>1. Held(conn[c])
      BY <1>1, <1>2 DEF Held, OwnInv, Connections
    <2> DEFINE s == Submit(conn[c], 1, "read")
    <2>2. ConnOK(s) /\ SameHold(s, k)
      BY <1>1, <2>1, SubmitHolds, SubmitOK DEF Held
    <2> HIDE DEF s, k
    <2>3. QED
      BY <2>2, SameOK
  <1>4. conn' = [conn EXCEPT ![c] = k] /\ queue' = Tail(queue) /\ UNCHANGED thread
    BY DEF ConsumeRequest, Update
  <1> HIDE DEF c, k
  <1>5. ThreadStep(1, thread[1].batch \ {c}, 0)
    <2>1. ThreadStep(1, thread[1].batch, thread[1].cur)
      BY <1>4, One, StaySteps DEF OwnInv
    <2>2. thread[1].batch \ {c} = thread[1].batch
      BY <1>2
    <2>3. QED
      BY <1>2, <2>1, <2>2
  <1>6. HandStep(1, c, k, 0)
    BY <1>1, <1>3, <1>4, <1>5, NoClientZero, RingModes DEF HandStep
  <1>7. QED
    BY <1>2, <1>4, <1>6, One, PopKeeps DEF c

LEMMA UringKeeps ==
  ASSUME OwnInv, Notified, UNCHANGED server,
         \/ On("IoUringProactorSingleProcess") /\ IoUringProactorSingleProcess
         \/ On("IoUringProactorThreadPool") /\ \E t \in Thread : IoUringProactorThreadPool(t)
         \/ On("IoUringProactorSingleProcessCoroutine") /\ IoUringProactorSingleProcessCoroutine
         \/ /\ On("IoUringProactorSingleProcessCoroutineHSHA1")
            /\ IoUringProactorSingleProcessCoroutineHSHA1
         \/ /\ On("IoUringProactorSingleProcessCoroutineHSHA2")
            /\ IoUringProactorSingleProcessCoroutineHSHA2
  PROVE  OwnInv'
  <1>0. server.name \in OnRing
    BY DEF On, OnRing
  <1>1. CASE \E t \in Thread : WaitCqe(t)
    BY <1>0, <1>1, WaitCqeKeeps
  <1>2. ASSUME NEW t \in Thread, NEW c \in Client, AcceptAgain(t, c), UNCHANGED queue,
               \/ Update(c, Submit(conn[c], t, "read"))
               \/ Update(c, [Submit(conn[c], t, "read") EXCEPT !.cid = "handler"])
        PROVE  OwnInv'
    <2>1. Held(conn[c])
      BY <1>2, AcceptAgainSteps, BatchHeld
    <2>2. QED
      BY <1>0, <1>2, <2>1, SubmitHolds, AcceptAgainKeeps
  <1>3. ASSUME NEW t \in Thread, NEW c \in Client, TakeEvent(t, c), UNCHANGED queue,
               Becomes(c, AfterRead(conn[c], t)) \/ Becomes(c, AfterWrite(conn[c], t))
        PROVE  OwnInv'
    <2>1. Held(conn[c])
      BY <1>3, BatchHeld DEF TakeEvent
    <2>2. /\ \A k \in AfterRead(conn[c], t) : ConnOK(k)
          /\ \A k \in AfterWrite(conn[c], t) : ConnOK(k)
      BY <1>0, <2>1, AfterReadOK, AfterWriteOK
    <2>3. Handle(t, c, AfterRead(conn[c], t)) \/ Handle(t, c, AfterWrite(conn[c], t))
      BY <1>3 DEF Handle, Becomes
    <2>4. QED
      BY <2>2, <2>3, HandleKeeps
  <1>4. ASSUME NEW t \in Thread, Proactor(t) PROVE OwnInv'
    <2>1. CASE \E c \in Client : OnAcceptEvent(t, c)
      BY <1>2, <2>1 DEF OnAcceptEvent
    <2>2. CASE \E c \in Client : OnReadEvent(t, c) \/ OnWriteEvent(t, c)
      BY <1>3, <2>2 DEF OnReadEvent, OnWriteEvent, Cqe
    <2>3. QED
      BY <1>1, <1>4, <2>1, <2>2 DEF Proactor
  <1>5. CASE \E c \in Client : AcceptCreates(c)
    BY <1>2, <1>5, One DEF AcceptCreates
  <1>6. CASE \E c \in Client : AcceptFails(c)
    BY <1>6, One, CreateFailsKeeps DEF AcceptFails
  <1>7. CASE \E c \in Client : HandlerClient(c)
    <2>1. PICK c \in Client : HandlerClient(c)
      BY <1>7
    <2>2. PICK r \in IF conn[c].op = "was read" THEN AfterRead(conn[c], 1) ELSE AfterWrite(conn[c], 1) :
            Update(c, r) /\ UNCHANGED queue
      BY <2>1 DEF HandlerClient
    <2>3. TakeEvent(1, c)
      BY <2>1 DEF HandlerClient
    <2>4. Becomes(c, AfterRead(conn[c], 1)) \/ Becomes(c, AfterWrite(conn[c], 1))
      BY <2>2 DEF Becomes
    <2>5. QED
      BY <1>3, <2>2, <2>3, <2>4, One
  <1>8. CASE \E c \in Client : \E notify : AcceptProduces(c, notify)
    BY <1>0, <1>8, AcceptProducesKeeps
  <1>9. CASE RoundOver /\ SemaphoreDue /\ ConsumeRequest(0)
    BY <1>0, <1>9, ConsumeRequestKeeps DEF SemaphoreDue
  <1>10. CASE On("IoUringProactorSingleProcessCoroutineHSHA2") /\ CondResumeRequest
    <2>1. queue # <<>>
      BY <1>10 DEF CondResumeRequest, CondDue, Notified, On, Condition
    <2>2. CASE ConsumeRequest(1)
      BY <1>0, <2>1, <2>2, ConsumeRequestKeeps
    <2>3. CASE Abort(1) /\ UNCHANGED <<conn, queue>>
      BY <1>10, <2>3, One, AbortKeeps, Thread0 DEF CondResumeRequest, RoundOver, At, Unbusy, Resting, OwnInv
    <2>4. QED
      BY <1>10, <2>2, <2>3 DEF CondResumeRequest
  <1>11. ASSUME NEW due, NEW notify, ProactorHSHA(due, notify) PROVE OwnInv'
    BY <1>1, <1>6, <1>7, <1>8, <1>11, One DEF ProactorHSHA
  <1>12. CASE IoUringProactorSingleProcessCoroutine
    BY <1>1, <1>5, <1>6, <1>7, <1>12, One DEF IoUringProactorSingleProcessCoroutine
  <1>13. QED
    BY <1>4, <1>9, <1>10, <1>11, <1>12, One
       DEF IoUringProactorSingleProcess, IoUringProactorThreadPool,
           IoUringProactorSingleProcessCoroutineHSHA1, IoUringProactorSingleProcessCoroutineHSHA2

(***************************************************************************)
(* The clients.                                                            *)
(***************************************************************************)
LEMMA EdgeIs ==
  ASSUME NEW k, ConnOK(k), NEW types, NEW r, r = Edge(k, types)
  PROVE  /\ ConnOK(r) /\ r.fds = k.fds /\ r.op = k.op
         /\ r.event.epoll = k.event.epoll /\ r.event.type = k.event.type
         /\ r.event.mode = k.event.mode
         /\ Quiet(k) => Quiet(r)
  <1> DEFINE e == [k.event EXCEPT !.armed = @ \/ (k.event.mode = "et" /\ k.event.type \in types)]
  <1>1. r = [k EXCEPT !.event = e]
    BY DEF Edge
  <1>2. IsConn(k) /\ IsEvent(k.event)
    BY DEF ConnOK, IsConn
  <1>3. /\ IsEvent(e) /\ e.epoll = k.event.epoll /\ e.type = k.event.type /\ e.mode = k.event.mode
        /\ Quiet(k) => ~ e.armed
    BY <1>2 DEF IsEvent, EventFields, Quiet
  <1>4. k.event = NoEvent => e = NoEvent
    <2> SUFFICES ASSUME k.event = NoEvent PROVE e = NoEvent
      OBVIOUS
    <2> DEFINE a == k.event.armed \/ (k.event.mode = "et" /\ k.event.type \in types)
    <2>1. a = FALSE
      BY DEF NoEvent
    <2>2. e = [k.event EXCEPT !.armed = a]
      OBVIOUS
    <2> HIDE DEF a, e
    <2>3. e = [NoEvent EXCEPT !.armed = FALSE]
      BY <2>1, <2>2
    <2>4. QED
      BY <2>3 DEF NoEvent
  <1> HIDE DEF e
  <1>5. /\ IsConn(r) /\ r.fds = k.fds /\ r.op = k.op /\ r.phase = k.phase /\ r.listener = k.listener
        /\ r.event = e
    BY <1>1, <1>2, <1>3 DEF IsConn, Fields
  <1>6. Quiet(k) => Quiet(r)
    BY <1>3, <1>5 DEF Quiet
  <1>7. ConnOK(r)
    BY <1>3, <1>4, <1>5, <1>6 DEF ConnOK
  <1>8. QED
    BY <1>3, <1>5, <1>6, <1>7

(* What a client does to its connection: it sends, takes, closes. *)
LEMMA EdgeKeeps ==
  ASSUME OwnInv, NEW c \in Client, NEW k, NEW types, Update(c, Edge(k, types)),
         IsConn(k), k.phase # "new", conn[c].phase # "new", k.listener = conn[c].listener,
         k.fds = conn[c].fds, k.event = conn[c].event, k.op = conn[c].op,
         UNCHANGED <<thread, queue, server>>
  PROVE  OwnInv'
  <1>1. ConnOK(conn[c])
    BY DEF OwnInv, Connections
  <1>2. ConnOK(k)
    BY <1>1 DEF ConnOK, Quiet
  <1> DEFINE r == Edge(k, types)
  <1>3. /\ ConnOK(r) /\ r.fds = k.fds /\ r.op = k.op
        /\ r.event.epoll = k.event.epoll /\ r.event.type = k.event.type
        /\ r.event.mode = k.event.mode
        /\ Quiet(k) => Quiet(r)
    BY <1>2, EdgeIs
  <1>4. conn' = [conn EXCEPT ![c] = r]
    BY DEF Update
  <1> HIDE DEF r
  <1>5. QED
    BY <1>3, <1>4, TouchKeeps DEF Quiet

LEMMA SilentKeeps ==
  ASSUME OwnInv, NEW c \in Client, NEW k, Update(c, k), ConnOK(k),
         k.fds = conn[c].fds, k.event = conn[c].event, k.op = conn[c].op,
         UNCHANGED <<thread, queue, server>>
  PROVE  OwnInv'
  BY TouchKeeps DEF Update, Quiet

LEMMA ClientKeeps ==
  ASSUME OwnInv, NEW c \in Client, UNCHANGED <<thread, queue, server>>,
         (\E l \in Listeners : Connect(c, l)) \/ Ask(c) \/ Send(c) \/ Take(c) \/ Hangup(c)
  PROVE  OwnInv'
  <1>0. ConnOK(conn[c]) /\ IsConn(conn[c])
    BY DEF OwnInv, Connections, ConnOK
  <1>1. CASE \E l \in Listeners : Connect(c, l)
    <2>1. PICK l \in Listeners : Connect(c, l)
      BY <1>1
    <2> DEFINE k == [conn[c] EXCEPT !.phase = "up", !.listener = l]
    <2>2. /\ IsConn(k) /\ k.fds = conn[c].fds /\ k.event = conn[c].event /\ k.op = conn[c].op
          /\ k.phase # "new"
      BY <1>0 DEF IsConn, Fields
    <2>3. conn[c].fds = {} /\ conn[c].event = NoEvent
      BY <1>0, <2>1 DEF Connect, ConnOK
    <2>4. Update(c, k)
      BY <2>1 DEF Connect
    <2> HIDE DEF k
    <2>5. ConnOK(k)
      BY <2>2, <2>3 DEF ConnOK, NoEvent, Quiet
    <2>6. QED
      BY <2>2, <2>4, <2>5, SilentKeeps
  <1>2. CASE Ask(c)
    <2> DEFINE len == HeadLen + Body(conn[c].req + 1)
               k == [conn[c] EXCEPT !.req = @ + 1, !.unsent = len, !.want = len]
    <2>1. Update(c, k)
      BY <1>2 DEF Ask
    <2>2. SameHold(conn[c], k) /\ k.op = conn[c].op
      BY <1>0 DEF SameHold, IsConn, Fields
    <2> HIDE DEF k
    <2>3. QED
      BY <1>0, <2>1, <2>2, SameOK, SilentKeeps DEF SameHold
  <1>3. CASE Send(c)
    <2>1. PICK n \in {1, conn[c].unsent} :
            Update(c, Edge([conn[c] EXCEPT !.unsent = @ - n,
                                           !.inbox = IF conn[c].fds = {} /\ conn[c].listener = 0
                                                     THEN 0 ELSE @ + n], {"read"}))
      BY <1>3 DEF Send
    <2> DEFINE k == [conn[c] EXCEPT !.unsent = @ - n,
                                    !.inbox = IF conn[c].fds = {} /\ conn[c].listener = 0
                                              THEN 0 ELSE @ + n]
    <2>2. SameHold(conn[c], k) /\ k.op = conn[c].op /\ conn[c].phase # "new"
      BY <1>0, <1>3 DEF SameHold, IsConn, Fields, Send
    <2>3. Update(c, Edge(k, {"read"}))
      BY <2>1
    <2> HIDE DEF k
    <2>4. QED
      BY <2>2, <2>3, EdgeKeeps DEF SameHold
  <1>4. CASE Take(c)
    <2> DEFINE k == [conn[c] EXCEPT !.want = @ - conn[c].outbox, !.outbox = 0]
    <2>1. SameHold(conn[c], k) /\ k.op = conn[c].op /\ conn[c].phase # "new"
      BY <1>0, <1>4 DEF SameHold, IsConn, Fields, Take
    <2>2. Update(c, Edge(k, {"write"}))
      BY <1>4 DEF Take
    <2> HIDE DEF k
    <2>3. QED
      BY <2>1, <2>2, EdgeKeeps DEF SameHold
  <1>5. CASE Hangup(c)
    <2>1. PICK n \in {0, conn[c].inbox} :
            Update(c, Edge([conn[c] EXCEPT !.phase = "down", !.unsent = 0, !.want = 0,
                                           !.inbox = n, !.outbox = 0], {"read", "write"}))
      BY <1>5 DEF Hangup
    <2> DEFINE k == [conn[c] EXCEPT !.phase = "down", !.unsent = 0, !.want = 0,
                                    !.inbox = n, !.outbox = 0]
    <2>2. /\ IsConn(k) /\ k.phase # "new" /\ k.listener = conn[c].listener
          /\ k.fds = conn[c].fds /\ k.event = conn[c].event /\ k.op = conn[c].op
      BY <1>0 DEF IsConn, Fields
    <2>3. Update(c, Edge(k, {"read", "write"})) /\ conn[c].phase # "new"
      BY <1>5, <2>1 DEF Hangup
    <2> HIDE DEF k
    <2>4. QED
      BY <2>2, <2>3, EdgeKeeps
  <1>6. QED
    BY <1>1, <1>2, <1>3, <1>4, <1>5

-----------------------------------------------------------------------------
(***************************************************************************)
(* No two threads have the same connection.                                *)
(***************************************************************************)
Owned == OneProcess => OwnInv /\ Notified

LEMMA OwnInit == ServersInit => Owned
  <1> SUFFICES ASSUME ServersInit, OneProcess PROVE OwnInv /\ Notified
    BY DEF Owned
  <1>1. /\ conn = [c \in Client |-> NewConn] /\ thread = [t \in Thread |-> Idler]
        /\ queue = <<>>
    BY DEF ServersInit, ClientInit, OneProcess, On
  <1>2. \A c \in Client : conn[c] = NewConn
    BY <1>1
  <1>3. ConnOK(NewConn)
    <2>1. NewConn.phase = "new" /\ NewConn.listener = 0 /\ NewConn.fds = {} /\ NewConn.event = NoEvent
      BY DEF NewConn
    <2>2. QED
      BY <2>1, NewIsConn DEF ConnOK, NoEvent, Quiet
  <1>4. Connections
    BY <1>1, <1>2, <1>3 DEF Connections
  <1>5. \A t \in Thread : IsThread(thread[t]) /\ thread[t].batch = {} /\ thread[t].cur = 0
    BY <1>1 DEF Idler, IsThread, Places, Unbusy, Resting
  <1>6. ThreadsOK
    BY <1>1, <1>5 DEF ThreadsOK
  <1>7. InBatches /\ BusyWith /\ NeverHave
    BY <1>5, NoClientZero, IoThreads DEF InBatches, BusyWith, NeverHave
  <1>8. InQueue
    BY <1>1 DEF InQueue
  <1>9. Notified
    <2>1. PICK name \in Names, idle \in 1 .. PoolSize, consumers \in 1 .. Consumers :
            \E options \in Options(name) :
              /\ server = [name |-> name, options |-> options]
              /\ pool = [t \in Thread |->
                   IF name \in WithConsumers THEN PoolInit(1, consumers)
                   ELSE IF name \in WithCoroutines THEN PoolInit(idle, 0) ELSE PoolInit(1, 0)]
      BY DEF ServersInit
    <2>2. pool = [t \in Thread |-> pool[t]]
      BY <2>1
    <2>3. pool[1] \in {PoolInit(1, consumers), PoolInit(idle, 0), PoolInit(1, 0)}
      BY <2>1, One
    <2>4. /\ pool[1] \in [idle : Int, waiting : Int, notify_count : Int]
          /\ pool[1].notify_count = 0
      BY <2>3 DEF PoolInit
    <2>5. Len(queue) = 0
      BY <1>1
    <2>6. QED
      BY <2>2, <2>4, <2>5 DEF Notified
  <1>10. QED
    BY <1>4, <1>6, <1>7, <1>8, <1>9 DEF OwnInv

LEMMA SubsThreads == Workers \subseteq Thread /\ Subs \subseteq Thread
  BY EchoConnAssumption DEF Workers, Subs, Thread

LEMMA ServeKeeps ==
  ASSUME OneProcess, OwnInv, Notified, Serve
  PROVE  OwnInv'
  <1>0. UNCHANGED server
    BY DEF Serve, Plain, Scheduled, Pooled
  <1>1. CASE \/ On("SingleProcess") /\ SingleProcess
             \/ On("MultiThread") /\ MultiThread
             \/ On("ProcessPool1") /\ \E t \in Workers : ProcessPool1(t)
             \/ On("ProcessPool2") /\ \E t \in Workers : ProcessPool2(t)
             \/ On("ThreadPool") /\ \E t \in Workers : ThreadPool(t)
             \/ On("LeaderAndFollower") /\ \E t \in Workers : LeaderAndFollower(t)
    <2>1. \/ On("SingleProcess") /\ SingleProcess
          \/ On("MultiThread") /\ MultiThread
          \/ On("ProcessPool1") /\ \E t \in Thread : ProcessPool1(t)
          \/ On("ProcessPool2") /\ \E t \in Thread : ProcessPool2(t)
          \/ On("ThreadPool") /\ \E t \in Thread : ThreadPool(t)
          \/ On("LeaderAndFollower") /\ \E t \in Thread : LeaderAndFollower(t)
      BY <1>1, SubsThreads
    <2>2. QED
      BY <1>0, <2>1, BlockingKeeps
  <1>2. CASE \/ On("Epoll") /\ Epoll(With("la"))
             \/ On("Poll") /\ Poll
             \/ On("Select") /\ Select
    <2>1. server.name \in LevelNames
      BY <1>2 DEF On, LevelNames
    <2>2. QED
      BY <1>0, <1>2, <2>1, EpollPollSelectKeeps
  <1>3. CASE \/ On("PollReactorSingleProcess") /\ PollReactorSingleProcess
             \/ On("SelectReactorSingleProcess") /\ SelectReactorSingleProcess
             \/ /\ On("EpollReactorSingleProcess")
                /\ EpollReactorSingleProcess(With("multiio"), With("la"), With("writefirst"))
             \/ On("EpollReactorSingleProcessET") /\ EpollReactorSingleProcessET
             \/ On("EpollReactorThreadPool") /\ \E t \in Workers : EpollReactorThreadPool(t)
    <2>1. server.name \in LevelNames
      BY <1>3 DEF On, LevelNames
    <2>2. \/ \E multi, la, wf : EpollReactorSingleProcess(multi, la, wf)
          \/ EpollReactorSingleProcessET
          \/ \E t \in Thread : EpollReactorThreadPool(t)
          \/ PollReactorSingleProcess \/ SelectReactorSingleProcess
      BY <1>3, SubsThreads
    <2>3. QED
      BY <1>0, <2>1, <2>2, ReactorKeeps
  <1>4. CASE On("EpollReactorThreadPoolMS") /\ EpollReactorThreadPoolMS(With("main read"))
    BY <1>0, <1>4, MasterSubKeeps
  <1>5. CASE \/ On("EpollReactorThreadPoolHSHA1") /\ HSHA1(Io, Takers, With("direct"))
             \/ On("EpollReactorThreadPoolHSHA2") /\ HSHA2(Io, Takers, With("direct"))
    <2>1. server.name \in HandOver
      BY <1>5 DEF On, HandOver
    <2>2. QED
      BY <1>0, <1>5, <2>1, HandOverKeeps
  <1>6. CASE \/ On("EpollReactorSingleProcessCoroutine") /\ EpollReactorSingleProcessCoroutine
             \/ /\ On("EpollReactorProcessPoolCoroutine")
                /\ \E t \in Workers : EpollReactorProcessPoolCoroutine(t)
             \/ /\ On("EpollReactorSingleProcessCoroutineHSHA1")
                /\ EpollReactorSingleProcessCoroutineHSHA1
             \/ /\ On("EpollReactorSingleProcessCoroutineHSHA2")
                /\ EpollReactorSingleProcessCoroutineHSHA2
    <2>1. \/ On("EpollReactorSingleProcessCoroutine") /\ EpollReactorSingleProcessCoroutine
          \/ /\ On("EpollReactorProcessPoolCoroutine")
             /\ \E t \in Thread : EpollReactorProcessPoolCoroutine(t)
          \/ On("EpollReactorSingleProcessCoroutineHSHA1") /\ EpollReactorSingleProcessCoroutineHSHA1
          \/ On("EpollReactorSingleProcessCoroutineHSHA2") /\ EpollReactorSingleProcessCoroutineHSHA2
      BY <1>6, SubsThreads
    <2>2. QED
      BY <1>0, <2>1, CoServerKeeps
  <1>7. CASE \/ On("IoUringProactorSingleProcess") /\ IoUringProactorSingleProcess
             \/ On("IoUringProactorThreadPool") /\ \E t \in Workers : IoUringProactorThreadPool(t)
             \/ /\ On("IoUringProactorSingleProcessCoroutine")
                /\ IoUringProactorSingleProcessCoroutine
             \/ /\ On("IoUringProactorSingleProcessCoroutineHSHA1")
                /\ IoUringProactorSingleProcessCoroutineHSHA1
             \/ /\ On("IoUringProactorSingleProcessCoroutineHSHA2")
                /\ IoUringProactorSingleProcessCoroutineHSHA2
    <2>1. \/ On("IoUringProactorSingleProcess") /\ IoUringProactorSingleProcess
          \/ On("IoUringProactorThreadPool") /\ \E t \in Thread : IoUringProactorThreadPool(t)
          \/ On("IoUringProactorSingleProcessCoroutine") /\ IoUringProactorSingleProcessCoroutine
          \/ /\ On("IoUringProactorSingleProcessCoroutineHSHA1")
             /\ IoUringProactorSingleProcessCoroutineHSHA1
          \/ /\ On("IoUringProactorSingleProcessCoroutineHSHA2")
             /\ IoUringProactorSingleProcessCoroutineHSHA2
      BY <1>7, SubsThreads
    <2>2. QED
      BY <1>0, <2>1, UringKeeps
  <1>8. CASE \E c \in Client : Complete(c)
    BY <1>0, <1>8, CompleteKeeps
  <1>9. CASE \E t \in Workers, c \in Client : server.name \in OnRing /\ CompleteAccept(t, c)
    BY <1>0, <1>9, SubsThreads, CompleteAcceptKeeps
  <1>10. ~ On("MultiProcess") /\ ~ On("EpollReactorProcessPoolMS")
    BY DEF On, OneProcess
  <1>11. QED
    BY <1>1, <1>2, <1>3, <1>4, <1>5, <1>6, <1>7, <1>8, <1>9, <1>10 DEF Serve

(* The notifications are as many as the connections in the queue. *)
LEMMA CountKept ==
  ASSUME Notified, UNCHANGED queue,
         \/ UNCHANGED pool
         \/ \E t \in Thread : Create(t) \/ Returns(t)
  PROVE  /\ server.name \in Condition => pool' = [t \in Thread |-> pool'[t]]
         /\ server.name \in Condition => pool'[1] \in [idle : Int, waiting : Int, notify_count : Int]
         /\ server.name \in Condition => pool'[1].notify_count = Len(queue')
  BY One DEF Notified, Create, Returns

LEMMA NotifiedStays ==
  ASSUME Notified, UNCHANGED <<queue, server>>,
         \/ UNCHANGED pool
         \/ \E t \in Thread : Create(t) \/ Returns(t)
  PROVE  Notified'
  BY CountKept DEF Notified

(* The count and the queue go up, or down, together. *)
Entry == [idle : Int, waiting : Int, notify_count : Int]

LEMMA CountMoves ==
  ASSUME Notified, UNCHANGED server, NEW p, pool' = [pool EXCEPT ![1] = p],
         server.name \in Condition /\ pool[1] \in Entry /\ pool[1].notify_count = Len(queue)
           => p \in Entry /\ p.notify_count = Len(queue')
  PROVE  Notified'
  BY One DEF Notified, Entry

LEMMA NotifiedStep ==
  ASSUME OwnInv, Notified, Serve
  PROVE  Notified'
  <1>0. UNCHANGED server
    BY DEF Serve, Plain, Scheduled, Pooled
  <1>1. CASE server.name \notin Condition
    BY <1>0, <1>1 DEF Notified
  <1>2. ASSUME NEW c \in Client, queue' = Append(queue, c),
               pool' = [pool EXCEPT ![1].notify_count = @ + 1]
        PROVE  Notified'
    <2>1. Len(queue') = Len(queue) + 1
      BY <1>2 DEF OwnInv, InQueue
    <2> DEFINE p == [pool[1] EXCEPT !.notify_count = @ + 1]
    <2>2. pool[1] \in Entry /\ pool[1].notify_count = Len(queue) => p \in Entry /\ p.notify_count = Len(queue')
      BY <2>1 DEF Entry
    <2>3. pool' = [pool EXCEPT ![1] = p]
      BY <1>2
    <2> HIDE DEF p
    <2>4. QED
      BY <1>0, <2>2, <2>3, CountMoves
  <1>3. ASSUME queue # <<>>, queue' = Tail(queue),
               pool' = [pool EXCEPT ![1].waiting = @ - 1, ![1].notify_count = @ - 1]
        PROVE  Notified'
    <2>1. Len(queue') = Len(queue) - 1
      BY <1>3 DEF OwnInv, InQueue
    <2> DEFINE m == pool[1].waiting - 1
               n == pool[1].notify_count - 1
               p == [pool[1] EXCEPT !.waiting = m, !.notify_count = n]
    <2>2. pool' = [pool EXCEPT ![1] = p]
      BY <1>3
    <2>3. pool[1] \in Entry /\ pool[1].notify_count = Len(queue) => p \in Entry /\ p.notify_count = Len(queue')
      <3>1. pool[1] \in Entry => m \in Int /\ n \in Int
        BY DEF Entry
      <3>2. pool[1].notify_count = Len(queue) => n = Len(queue')
        BY <2>1
      <3> HIDE DEF m, n
      <3> SUFFICES ASSUME pool[1] \in Entry, pool[1].notify_count = Len(queue)
                   PROVE  p \in Entry /\ p.notify_count = Len(queue')
        OBVIOUS
      <3>3. pool[1] \in Entry /\ m \in Int /\ n \in Int
        BY <3>1
      <3>4. p \in Entry /\ p.notify_count = n
        BY ONLY <3>3 DEF Entry
      <3>5. QED
        BY <3>2, <3>4
    <2> HIDE DEF p
    <2>4. QED
      BY <1>0, <2>2, <2>3, CountMoves
  <1>4. CASE server.name \in Condition
    <2>1. CASE On("EpollReactorSingleProcessCoroutineHSHA2") /\ EpollReactorSingleProcessCoroutineHSHA2
      <3>1. CASE CondResume
        <4>1. queue # <<>>
          BY <1>4, <3>1 DEF CondResume, CondDue, Notified
        <4>2. CASE Consume(1)
          BY <1>3, <4>1, <4>2 DEF Consume
        <4>3. CASE UNCHANGED <<queue, pool>>
          BY <1>0, <4>3, NotifiedStays
        <4>4. QED
          BY <3>1, <4>2, <4>3 DEF CondResume
      <3>2. CASE \E c \in Client : Producer(c, 1)
        BY <1>2, <3>2 DEF Producer
      <3>3. CASE handlerLoop(1)
        <4>1. UNCHANGED queue /\ (UNCHANGED pool \/ Returns(1))
          BY <3>3 DEF handlerLoop, ReadLoop, WriteLoop
        <4>2. QED
          BY <1>0, <4>1, One, NotifiedStays
      <3>4. CASE UNCHANGED <<queue, pool>>
        BY <1>0, <3>4, NotifiedStays
      <3>5. QED
        BY <2>1, <3>1, <3>2, <3>3, <3>4
           DEF EpollReactorSingleProcessCoroutineHSHA2, HSHA, ListenWait, EpollWait, LoopAccept,
               CreateFails, ResumeOn
    <2>2. CASE /\ On("IoUringProactorSingleProcessCoroutineHSHA2")
               /\ IoUringProactorSingleProcessCoroutineHSHA2
      <3>1. CASE CondResumeRequest
        <4>1. queue # <<>>
          BY <1>4, <3>1 DEF CondResumeRequest, CondDue, Notified
        <4>2. CASE ConsumeRequest(1)
          BY <1>3, <4>1, <4>2 DEF ConsumeRequest
        <4>3. CASE UNCHANGED <<queue, pool>>
          BY <1>0, <4>3, NotifiedStays
        <4>4. QED
          BY <3>1, <4>2, <4>3 DEF CondResumeRequest
      <3>2. CASE \E c \in Client : AcceptProduces(c, 1)
        BY <1>2, <3>2 DEF AcceptProduces
      <3>3. CASE \E c \in Client : HandlerClient(c)
        <4>1. UNCHANGED queue /\ (UNCHANGED pool \/ Returns(1))
          BY <3>3 DEF HandlerClient
        <4>2. QED
          BY <1>0, <4>1, One, NotifiedStays
      <3>4. CASE UNCHANGED <<queue, pool>>
        BY <1>0, <3>4, NotifiedStays
      <3>5. QED
        BY <2>2, <3>1, <3>2, <3>3, <3>4
           DEF IoUringProactorSingleProcessCoroutineHSHA2, ProactorHSHA, WaitCqe, AcceptFails,
               CreateFails
    <2>3. CASE \/ \E c \in Client : Complete(c)
               \/ \E t \in Workers, c \in Client : CompleteAccept(t, c)
      <3>1. UNCHANGED <<queue, pool>>
        BY <2>3 DEF Complete, CompleteAccept
      <3>2. QED
        BY <1>0, <3>1, NotifiedStays
    <2>4. QED
      BY <1>4, <2>1, <2>2, <2>3 DEF Serve, On, Condition
  <1>5. QED
    BY <1>1, <1>4

LEMMA OwnStep ==
  ASSUME Owned, [ServersNext]_serverVars
  PROVE  Owned' /\ UNCHANGED server
  <1>1. UNCHANGED server
    BY DEF ServersNext, Serve, ClientStep, HangupStep, Plain, Scheduled, Pooled, serverVars
  <1> SUFFICES ASSUME OneProcess PROVE OwnInv' /\ Notified'
    BY <1>1 DEF Owned, OneProcess
  <1>2. OwnInv /\ Notified
    BY DEF Owned
  <1>3. CASE Serve
    BY <1>2, <1>3, ServeKeeps, NotifiedStep
  <1>4. CASE ClientStep \/ HangupStep
    <2>1. /\ UNCHANGED <<thread, queue, pool>>
          /\ \E c \in Client : \/ \E l \in Listeners : Connect(c, l)
                               \/ Ask(c) \/ Send(c) \/ Take(c) \/ Hangup(c)
      BY <1>4 DEF ClientStep, HangupStep, Leave
    <2>2. QED
      BY <1>1, <1>2, <2>1, ClientKeeps, NotifiedStays
  <1>5. CASE UNCHANGED serverVars
    <2>1. UNCHANGED <<conn, thread, queue, pool>>
      BY <1>5 DEF serverVars, echoVars
    <2>2. ThreadsOK'
      BY <1>2, <2>1 DEF OwnInv, ThreadsOK
    <2>3. QED
      BY <1>1, <1>2, <2>1, <2>2, PlacesKeep, NotifiedStays
  <1>6. QED
    BY <1>3, <1>4, <1>5 DEF ServersNext

(* A set with at most one element. *)
LEMMA AtMostOne ==
  ASSUME NEW S, NEW x, \A y \in S : y = x
  PROVE  Cardinality(S) \in {0, 1} /\ (Cardinality(S) = 1 <=> S # {})
  <1>1. CASE S = {}
    BY <1>1, FS_EmptySet
  <1>2. CASE S # {}
    <2>1. S = {x}
      BY <1>2
    <2>2. QED
      BY <1>2, <2>1, FS_Singleton
  <1>3. QED
    BY <1>1, <1>2

LEMMA OwnersSole == Owned => SoleOwner
  <1> SUFFICES ASSUME OwnInv, OneProcess, NEW c \in Client
               PROVE  /\ References(c) <= 1
                      /\ References(c) = 1 => conn[c].fds # {}
                      /\ server.name \in HandOver /\ (\E t \in Takers : thread[t].cur = c)
                           => ~ conn[c].event.armed
    BY DEF Owned, SoleOwner, OneProcess
  <1> DEFINE A == {t \in Thread : c \in thread[t].batch}
             B == {t \in Thread : thread[t].cur = c}
             Q == {i \in DOMAIN queue : queue[i] = c}
  <1>0. queue \in Seq(Client) /\ DOMAIN queue = 1 .. Len(queue)
    BY DEF OwnInv, InQueue
  <1>1. References(c) = Cardinality(A) + Cardinality(B) + Cardinality(Q)
    BY DEF References, OneProcess
  <1>2. \A t, u \in A : t = u
    BY DEF OwnInv, InBatches
  <1>3. \A t, u \in B : t = u
    BY DEF OwnInv, BusyWith
  <1>4. \A i, j \in Q : i = j
    BY <1>0 DEF OwnInv, InQueue
  <1>5. A = {} \/ B = {}
    BY DEF OwnInv, BusyWith
  <1>6. Q # {} => A = {} /\ B = {}
    BY <1>0 DEF OwnInv, InQueue
  <1>7. A # {} \/ B # {} \/ Q # {} => conn[c].fds # {}
    <2>1. A # {} \/ B # {} \/ Q # {} => ~ Unowned(c)
      BY <1>0 DEF Unowned
    <2>2. QED
      BY <2>1, ReferredOpen
  <1>8. ASSUME server.name \in HandOver, NEW t \in Takers, thread[t].cur = c PROVE ~ conn[c].event.armed
    BY <1>8, IoThreads DEF OwnInv, BusyWith, Undisturbed, Quiet
  <1> HIDE DEF A, B, Q
  <1>9. /\ Cardinality(A) \in {0, 1} /\ (Cardinality(A) = 1 <=> A # {})
        /\ Cardinality(B) \in {0, 1} /\ (Cardinality(B) = 1 <=> B # {})
        /\ Cardinality(Q) \in {0, 1} /\ (Cardinality(Q) = 1 <=> Q # {})
    <2>1. ASSUME NEW S, \A y, z \in S : y = z
          PROVE  Cardinality(S) \in {0, 1} /\ (Cardinality(S) = 1 <=> S # {})
      <3> DEFINE x == CHOOSE z \in S : TRUE
      <3>1. \A y \in S : y = x
        BY <2>1
      <3> HIDE DEF x
      <3>2. QED
        BY <3>1, AtMostOne
    <2>2. QED
      BY <1>2, <1>3, <1>4, <2>1
  <1>10. QED
    BY <1>1, <1>5, <1>6, <1>7, <1>8, <1>9

(* No two threads have the same connection: not in a batch of events, not at
   work on it, not in the queue between them; what somebody refers to is
   open; and no event comes between a worker and its connection. *)
THEOREM NoConnectionShared == ServersSpec => []SoleOwner
  <1>1. ServersInit => Owned
    BY OwnInit
  <1>2. Owned /\ [ServersNext]_serverVars => Owned'
    BY OwnStep
  <1>3. Owned => SoleOwner
    BY OwnersSole
  <1>4. QED
    BY <1>1, <1>2, <1>3, PTL DEF ServersSpec

-----------------------------------------------------------------------------
(***************************************************************************)
(* HSHA2: the semaphores and the queue.                                    *)
(***************************************************************************)
Holders(P) == {t \in Thread : thread[t].pc \in P}

(* Where a connection has been counted by one of a semaphore and the queue,
   and not yet by the other. *)
OfFill == {"fill", "item"}
OfIdle == {"slot", "idle"}

SlotsInv ==
  On("EpollReactorThreadPoolHSHA2") =>
    /\ sem \in [Idle : Nat, Fill : Nat]
    /\ Len(queue) = sem.Fill + Cardinality(Holders(OfFill))
    /\ sem.Idle + Len(queue) + Cardinality(Holders(OfIdle)) = BufferSize

LEMMA HoldersFinite ==
  ASSUME NEW P
  PROVE  IsFiniteSet(Holders(P)) /\ Cardinality(Holders(P)) \in Nat
  <1>1. IsFiniteSet(Thread)
    <2>1. 1 \in Int /\ Threads \in Int
      BY EchoConnAssumption
    <2>2. QED
      BY <2>1, FS_Interval DEF Thread
  <1>2. IsFiniteSet(Holders(P))
    BY <1>1, FS_Subset DEF Holders
  <1>3. QED
    BY <1>2, FS_CardinalityType

(* Thread t goes to another place. *)
MovesTo(t, place) ==
  /\ \A u \in Thread \ {t} : thread'[u].pc = thread[u].pc
  /\ thread'[t].pc = place

LEMMA HoldersMove ==
  ASSUME NEW t \in Thread, NEW place, MovesTo(t, place), NEW P
  PROVE  /\ thread[t].pc \in P /\ place \in P => Holders(P)' = Holders(P)
         /\ thread[t].pc \notin P /\ place \notin P => Holders(P)' = Holders(P)
         /\ thread[t].pc \notin P /\ place \in P
              => Cardinality(Holders(P)') = Cardinality(Holders(P)) + 1
         /\ thread[t].pc \in P /\ place \notin P
              => Cardinality(Holders(P)') = Cardinality(Holders(P)) - 1
  <1>1. \A u \in Thread : u # t => (thread'[u].pc \in P <=> thread[u].pc \in P)
    BY DEF MovesTo
  <1>2. thread'[t].pc \in P <=> place \in P
    BY DEF MovesTo
  <1>3. /\ \A u : u \in Holders(P) <=> u \in Thread /\ thread[u].pc \in P
        /\ \A u : u \in Holders(P)' <=> u \in Thread /\ thread'[u].pc \in P
    BY DEF Holders
  <1>4. IsFiniteSet(Holders(P)) /\ Cardinality(Holders(P)) \in Nat
    BY HoldersFinite
  <1>5. CASE (thread[t].pc \in P) <=> (place \in P)
    <2>1. Holders(P)' = Holders(P)
      BY <1>1, <1>2, <1>3, <1>5
    <2>2. QED
      BY <1>5, <2>1
  <1>6. CASE thread[t].pc \notin P /\ place \in P
    <2>1. Holders(P)' = Holders(P) \cup {t} /\ t \notin Holders(P)
      BY <1>1, <1>2, <1>3, <1>6
    <2>2. QED
      BY <1>4, <1>6, <2>1, FS_AddElement
  <1>7. CASE thread[t].pc \in P /\ place \notin P
    <2>1. Holders(P)' = Holders(P) \ {t} /\ t \in Holders(P)
      BY <1>1, <1>2, <1>3, <1>7
    <2>2. QED
      BY <1>4, <1>7, <2>1, FS_RemoveElement
  <1>8. QED
    BY <1>5, <1>6, <1>7

LEMMA SlotsInit == ServersInit => SlotsInv
  <1> SUFFICES ASSUME ServersInit, On("EpollReactorThreadPoolHSHA2")
               PROVE  /\ sem \in [Idle : Nat, Fill : Nat]
                      /\ Len(queue) = sem.Fill + Cardinality(Holders(OfFill))
                      /\ sem.Idle + Len(queue) + Cardinality(Holders(OfIdle)) = BufferSize
    BY DEF SlotsInv
  <1>1. /\ sem = [Idle |-> BufferSize, Fill |-> 0] /\ thread = [t \in Thread |-> Idler]
        /\ queue = <<>>
    BY DEF ServersInit, HandOffInit, On
  <1>2. \A t \in Thread : thread[t].pc = "top"
    BY <1>1 DEF Idler
  <1>3. Holders(OfFill) = {} /\ Holders(OfIdle) = {}
    BY <1>2 DEF Holders, OfFill, OfIdle
  <1>4. QED
    BY <1>1, <1>3, FS_EmptySet, HandOffAssumption

(* A step far from the queue. *)
LEMMA SlotsApart ==
  ASSUME SlotsInv, NEW t \in Thread, NEW place, MovesTo(t, place),
         thread[t].pc \notin OfFill \cup OfIdle, place \notin OfFill \cup OfIdle,
         UNCHANGED <<queue, sem, server>>
  PROVE  SlotsInv'
  <1>1. Holders(OfFill)' = Holders(OfFill) /\ Holders(OfIdle)' = Holders(OfIdle)
    BY HoldersMove
  <1>2. QED
    BY <1>1 DEF SlotsInv, On

LEMMA GotoMoves ==
  ASSUME ThreadsOK, NEW t \in Thread, NEW place, NEW c, Goto(t, place, c)
  PROVE  MovesTo(t, place)
  BY DEF ThreadsOK, Goto, MovesTo, IsThread

LEMMA TakeMoves ==
  ASSUME ThreadsOK, NEW t \in Thread, NEW s, TakeEvent(t, s)
  PROVE  thread[t].pc = "events" /\ (MovesTo(t, "top") \/ MovesTo(t, "events"))
  BY DEF ThreadsOK, TakeEvent, MovesTo, IsThread

LEMMA IoSlots ==
  ASSUME OwnInv, SlotsInv, NEW t \in Thread, ioHandler(t), UNCHANGED server
  PROVE  SlotsInv'
  <1>0. {"top", "events", "push"} \cap (OfFill \cup OfIdle) = {}
    BY DEF OfFill, OfIdle
  <1>1. ThreadsOK
    BY DEF OwnInv
  <1>2. ASSUME NEW s, TakeEvent(t, s), UNCHANGED <<queue, sem>> PROVE SlotsInv'
    BY <1>0, <1>1, <1>2, TakeMoves, SlotsApart
  <1>3. CASE ListenWait(t) /\ UNCHANGED sem
    <2>1. thread[t].pc = "top" /\ MovesTo(t, "events") /\ UNCHANGED queue
      BY <1>1, <1>3 DEF ListenWait, EpollWait, MovesTo, ThreadsOK, IsThread
    <2>2. QED
      BY <1>0, <1>3, <2>1, SlotsApart
  <1>4. CASE LoopAccept(t, All, [c \in Client |-> NewOneShot(conn[c], t)]) /\ UNCHANGED sem
    BY <1>2, <1>4 DEF LoopAccept
  <1>5. CASE \E c \in Client : WriteAnswer(t, c)
    BY <1>2, <1>5 DEF WriteAnswer, Handle
  <1>6. CASE \E c \in Client : ReadRequest(t, c)
    <2>1. PICK c \in Client : ReadRequest(t, c)
      BY <1>6
    <2>2. /\ thread[t].pc = "events" /\ UNCHANGED <<queue, sem>>
          /\ \/ thread' = [thread EXCEPT ![t].batch = @ \ {c}, ![t].pc = "push", ![t].cur = c]
             \/ TakeEvent(t, c)
      BY <2>1 DEF ReadRequest, At
    <2>3. CASE thread' = [thread EXCEPT ![t].batch = @ \ {c}, ![t].pc = "push", ![t].cur = c]
      <3>1. MovesTo(t, "push")
        BY <1>1, <2>3 DEF MovesTo, ThreadsOK, IsThread
      <3>2. QED
        BY <1>0, <2>2, <3>1, SlotsApart
    <2>4. QED
      BY <1>2, <2>2, <2>3
  <1>7. QED
    BY <1>3, <1>4, <1>5, <1>6 DEF ioHandler

LEMMA PushSlots ==
  ASSUME OwnInv, SlotsInv, On("EpollReactorThreadPoolHSHA2"), NEW t \in Thread, pushToQueue2(t),
         UNCHANGED server
  PROVE  SlotsInv'
  <1> DEFINE l  == Len(queue)
             f  == sem.Fill
             i  == sem.Idle
             hf == Cardinality(Holders(OfFill))
             hi == Cardinality(Holders(OfIdle))
  <1>0. ThreadsOK /\ queue \in Seq(Client) /\ sem \in [Idle : Nat, Fill : Nat]
    BY DEF OwnInv, InQueue, SlotsInv
  <1>1. /\ l \in Nat /\ f \in Nat /\ i \in Nat /\ hf \in Nat /\ hi \in Nat /\ BufferSize \in Nat
        /\ l = f + hf /\ i + l + hi = BufferSize
    BY <1>0, HoldersFinite, HandOffAssumption DEF SlotsInv
  <1>2. SUFFICES sem' \in [Idle : Nat, Fill : Nat] /\ l' = f' + hf' /\ i' + l' + hi' = BufferSize
    BY DEF SlotsInv
  <1> HIDE DEF l, f, i, hf, hi
  <1>3. CASE /\ At(t, "push") /\ sem.Idle > 0 /\ sem' = [sem EXCEPT !.Idle = @ - 1]
             /\ Goto(t, "slot", thread[t].cur) /\ UNCHANGED queue
    <2>1. MovesTo(t, "slot") /\ thread[t].pc = "push"
      BY <1>0, <1>3, GotoMoves DEF At
    <2>2. hf' = hf /\ hi' = hi + 1
      BY <2>1, HoldersMove DEF OfFill, OfIdle, hf, hi
    <2>3. sem' \in [Idle : Nat, Fill : Nat] /\ sem'.Idle = sem.Idle - 1 /\ sem'.Fill = sem.Fill
      BY <1>0, <1>3
    <2>4. i' = i - 1 /\ f' = f
      BY <2>3 DEF i, f
    <2>5. l' = l
      BY <1>0, <1>3 DEF l
    <2>6. QED
      BY <1>1, <2>2, <2>3, <2>4, <2>5
  <1>4. CASE At(t, "slot") /\ Push(t, "fill")
    <2>1. MovesTo(t, "fill") /\ thread[t].pc = "slot"
      BY <1>0, <1>4, GotoMoves DEF At, Push
    <2>2. hf' = hf + 1 /\ hi' = hi - 1
      BY <2>1, HoldersMove DEF OfFill, OfIdle, hf, hi
    <2>3. sem' \in [Idle : Nat, Fill : Nat] /\ sem'.Idle = sem.Idle /\ sem'.Fill = sem.Fill
      BY <1>0, <1>4 DEF Push
    <2>4. i' = i /\ f' = f
      BY <2>3 DEF i, f
    <2>5. l' = l + 1
      BY <1>0, <1>4 DEF l, Push
    <2>6. QED
      BY <1>1, <2>2, <2>3, <2>4, <2>5
  <1>5. CASE /\ At(t, "fill") /\ sem' = [sem EXCEPT !.Fill = @ + 1]
             /\ Goto(t, Onward(t), 0) /\ UNCHANGED queue
    <2>1. MovesTo(t, Onward(t)) /\ thread[t].pc = "fill" /\ Onward(t) \notin OfFill \cup OfIdle
      BY <1>0, <1>5, GotoMoves DEF At, Onward, OfFill, OfIdle
    <2>2. hf' = hf - 1 /\ hi' = hi
      BY <2>1, HoldersMove DEF OfFill, OfIdle, hf, hi
    <2>3. sem' \in [Idle : Nat, Fill : Nat] /\ sem'.Idle = sem.Idle /\ sem'.Fill = sem.Fill + 1
      BY <1>0, <1>5
    <2>4. i' = i /\ f' = f + 1
      BY <2>3 DEF i, f
    <2>5. l' = l
      BY <1>0, <1>5 DEF l
    <2>6. QED
      BY <1>1, <2>2, <2>3, <2>4, <2>5
  <1>6. QED
    BY <1>3, <1>4, <1>5 DEF pushToQueue2

LEMMA TakeSlots ==
  ASSUME OwnInv, SlotsInv, On("EpollReactorThreadPoolHSHA2"), NEW t \in Thread, getQueueData2(t),
         UNCHANGED server
  PROVE  SlotsInv'
  <1> DEFINE l  == Len(queue)
             f  == sem.Fill
             i  == sem.Idle
             hf == Cardinality(Holders(OfFill))
             hi == Cardinality(Holders(OfIdle))
  <1>0. ThreadsOK /\ queue \in Seq(Client) /\ sem \in [Idle : Nat, Fill : Nat]
    BY DEF OwnInv, InQueue, SlotsInv
  <1>1. /\ l \in Nat /\ f \in Nat /\ i \in Nat /\ hf \in Nat /\ hi \in Nat /\ BufferSize \in Nat
        /\ l = f + hf /\ i + l + hi = BufferSize
    BY <1>0, HoldersFinite, HandOffAssumption DEF SlotsInv
  <1>2. SUFFICES sem' \in [Idle : Nat, Fill : Nat] /\ l' = f' + hf' /\ i' + l' + hi' = BufferSize
    BY DEF SlotsInv
  <1> HIDE DEF l, f, i, hf, hi
  <1>3. CASE /\ At(t, "top") /\ sem.Fill > 0 /\ sem' = [sem EXCEPT !.Fill = @ - 1]
             /\ Goto(t, "item", 0) /\ UNCHANGED queue
    <2>1. MovesTo(t, "item") /\ thread[t].pc = "top"
      BY <1>0, <1>3, GotoMoves DEF At
    <2>2. hf' = hf + 1 /\ hi' = hi
      BY <2>1, HoldersMove DEF OfFill, OfIdle, hf, hi
    <2>3. sem' \in [Idle : Nat, Fill : Nat] /\ sem'.Idle = sem.Idle /\ sem'.Fill = sem.Fill - 1
      BY <1>0, <1>3
    <2>4. i' = i /\ f' = f - 1
      BY <2>3 DEF i, f
    <2>5. l' = l
      BY <1>0, <1>3 DEF l
    <2>6. QED
      BY <1>1, <2>2, <2>3, <2>4, <2>5
  <1>4. CASE At(t, "item") /\ TakeFront(t) /\ Goto(t, "idle", Head(queue)) /\ UNCHANGED sem
    <2>1. MovesTo(t, "idle") /\ thread[t].pc = "item"
      BY <1>0, <1>4, GotoMoves DEF At
    <2>2. hf' = hf - 1 /\ hi' = hi + 1
      BY <2>1, HoldersMove DEF OfFill, OfIdle, hf, hi
    <2>3. sem' \in [Idle : Nat, Fill : Nat] /\ sem'.Idle = sem.Idle /\ sem'.Fill = sem.Fill
      BY <1>0, <1>4
    <2>4. i' = i /\ f' = f
      BY <2>3 DEF i, f
    <2>5. l' = l - 1
      BY <1>0, <1>4 DEF l, TakeFront
    <2>6. QED
      BY <1>1, <2>2, <2>3, <2>4, <2>5
  <1>5. CASE /\ At(t, "idle") /\ sem' = [sem EXCEPT !.Idle = @ + 1]
             /\ Goto(t, "work", thread[t].cur) /\ UNCHANGED queue
    <2>1. MovesTo(t, "work") /\ thread[t].pc = "idle"
      BY <1>0, <1>5, GotoMoves DEF At
    <2>2. hf' = hf /\ hi' = hi - 1
      BY <2>1, HoldersMove DEF OfFill, OfIdle, hf, hi
    <2>3. sem' \in [Idle : Nat, Fill : Nat] /\ sem'.Idle = sem.Idle + 1 /\ sem'.Fill = sem.Fill
      BY <1>0, <1>5
    <2>4. i' = i + 1 /\ f' = f
      BY <2>3 DEF i, f
    <2>5. l' = l
      BY <1>0, <1>5 DEF l
    <2>6. QED
      BY <1>1, <2>2, <2>3, <2>4, <2>5
  <1>6. QED
    BY <1>3, <1>4, <1>5 DEF getQueueData2

LEMMA SlotsSame ==
  ASSUME SlotsInv, UNCHANGED <<thread, queue, sem, server>>
  PROVE  SlotsInv'
  BY DEF SlotsInv, Holders, On, OfFill, OfIdle

LEMMA SlotsStep ==
  ASSUME Owned, SlotsInv, [ServersNext]_serverVars
  PROVE  SlotsInv'
  <1>0. UNCHANGED server
    BY DEF ServersNext, Serve, ClientStep, HangupStep, Plain, Scheduled, Pooled, serverVars
  <1>1. CASE ~ On("EpollReactorThreadPoolHSHA2")
    BY <1>0, <1>1 DEF SlotsInv, On
  <1>2. CASE On("EpollReactorThreadPoolHSHA2") /\ HSHA2(Io, Takers, With("direct"))
    <2>1. OwnInv
      BY <1>2 DEF Owned, OneProcess, On
    <2>2. CASE \E t \in Io : ioHandler(t)
      BY <1>0, <2>1, <2>2, IoThreads, IoSlots
    <2>3. CASE \E t \in Io : pushToQueue2(t)
      BY <1>0, <1>2, <2>1, <2>3, IoThreads, PushSlots
    <2>4. CASE \E t \in Takers : getQueueData2(t)
      BY <1>0, <1>2, <2>1, <2>4, IoThreads, TakeSlots
    <2>5. CASE \E t \in Takers : Work(t, With("direct"))
      <3>1. PICK t \in Thread : Work(t, With("direct"))
        BY <2>5, IoThreads
      <3>2. /\ thread[t].pc = "work" /\ UNCHANGED <<queue, sem>>
            /\ Goto(t, "top", 0) \/ UNCHANGED thread
        BY <3>1 DEF Work, At
      <3>3. CASE Goto(t, "top", 0)
        <4>1. MovesTo(t, "top")
          BY <2>1, <3>3, GotoMoves DEF OwnInv
        <4>2. QED
          BY <1>0, <3>2, <4>1, SlotsApart DEF OfFill, OfIdle
      <3>4. QED
        BY <1>0, <3>2, <3>3, SlotsSame
    <2>6. QED
      BY <1>2, <2>2, <2>3, <2>4, <2>5 DEF HSHA2
  <1>3. CASE On("EpollReactorThreadPoolHSHA2") /\ \E c \in Client : Complete(c) /\ Scheduled
    BY <1>3, SlotsSame DEF Complete, Scheduled
  <1>4. CASE ClientStep \/ HangupStep
    BY <1>4, SlotsSame DEF ClientStep, HangupStep
  <1>5. CASE UNCHANGED serverVars
    BY <1>5, SlotsSame DEF serverVars, echoVars
  <1>6. QED
    BY <1>1, <1>2, <1>3, <1>4, <1>5 DEF ServersNext, Serve, On, OnRing

(* HSHA2: the queue never has more than the buffer holds, and every slot is
   with one of the semaphores, the queue, or a thread between the two. *)
THEOREM SlotsKept == ServersSpec => []SlotsAccount
  <1>1. ServersInit => Owned /\ SlotsInv
    BY OwnInit, SlotsInit
  <1>2. Owned /\ SlotsInv /\ [ServersNext]_serverVars => Owned' /\ SlotsInv'
    BY OwnStep, SlotsStep
  <1>3. SlotsInv => SlotsAccount
    BY DEF SlotsInv, SlotsAccount, Holders, OfFill, OfIdle
  <1>4. QED
    BY <1>1, <1>2, <1>3, PTL DEF ServersSpec
=============================================================================
