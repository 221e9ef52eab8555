------------------------------ MODULE Servers ------------------------------
(***************************************************************************)
(* An echo server, whichever of those of src/ConcurrencyModel and with     *)
(* whichever of its options, and its clients.                              *)
(***************************************************************************)
EXTENDS HandOff, MasterSub, Uring

VARIABLE server   \* its name, its options and how many Consumers it has

serverVars == <<echoVars, sem, pool, server>>

Thread == 1 .. Threads

(* The threads, or processes, that do the same in a server with a pool. *)
Workers == 1 .. Threads - 1

(* The command line's switches, as far as a server has them; "io" stands for
   several io threads and one worker, and without it there are several workers. *)
Options(name) ==
  CASE name = "Epoll" -> SUBSET {"la"}
    [] name = "EpollReactorSingleProcess" -> SUBSET {"multiio", "la", "writefirst"}
    [] name \in {"EpollReactorThreadPoolHSHA1", "EpollReactorThreadPoolHSHA2"} -> SUBSET {"direct", "io"}
    [] name \in {"EpollReactorThreadPoolMS", "EpollReactorProcessPoolMS"} -> SUBSET {"main read"}
    [] OTHER -> {{}}

(* Those whose threads listen each on a socket of its own. *)
OwnSocket == {"ProcessPool2", "ThreadPool", "EpollReactorThreadPool",
              "EpollReactorProcessPoolCoroutine", "IoUringProactorThreadPool"}

HandOver == {"EpollReactorThreadPoolHSHA1", "EpollReactorThreadPoolHSHA2"}

WithConsumers == {"EpollReactorSingleProcessCoroutineHSHA1", "EpollReactorSingleProcessCoroutineHSHA2",
                  "IoUringProactorSingleProcessCoroutineHSHA1", "IoUringProactorSingleProcessCoroutineHSHA2"}

WithCoroutines == WithConsumers \cup
  {"EpollReactorSingleProcessCoroutine", "EpollReactorProcessPoolCoroutine",
   "IoUringProactorSingleProcessCoroutine"}

OnRing == {"IoUringProactorSingleProcess", "IoUringProactorThreadPool",
           "IoUringProactorSingleProcessCoroutine", "IoUringProactorSingleProcessCoroutineHSHA1",
           "IoUringProactorSingleProcessCoroutineHSHA2"}

Names == OwnSocket \cup HandOver \cup WithCoroutines \cup
  {"SingleProcess", "MultiThread", "MultiProcess", "ProcessPool1", "LeaderAndFollower",
   "Epoll", "Poll", "Select", "PollReactorSingleProcess", "SelectReactorSingleProcess",
   "EpollReactorSingleProcess", "EpollReactorSingleProcessET", "EpollReactorThreadPoolMS",
   "EpollReactorProcessPoolMS", "IoUringProactorSingleProcess"}

On(name)    == server.name = name
With(option) == option \in server.options

(* The io threads and the workers of a half-sync half-async server: one and
   the others, or all others and one. *)
Io    == IF With("io") THEN Workers ELSE {1}
Takers == Thread \ Io

Listeners == IF server.name \in OwnSocket THEN Workers
             ELSE IF server.name \in HandOver THEN Io ELSE {1}

ServersInit ==
  /\ \E name \in Names, idle \in 1 .. PoolSize, consumers \in 1 .. Consumers :
       \E options \in Options(name) :
         /\ server = [name |-> name, options |-> options]
         /\ pool = [t \in Thread |->
              IF name \in WithConsumers THEN PoolInit(1, consumers)
              ELSE IF name \in WithCoroutines THEN PoolInit(idle, 0) ELSE PoolInit(1, 0)]
  /\ queue = IF On("EpollReactorProcessPoolMS") THEN [t \in Subs |-> <<>>] ELSE <<>>
  /\ thread = [t \in Thread |-> Idler]
  /\ HandOffInit /\ ClientInit
-----------------------------------------------------------------------------
Plain     == UNCHANGED <<sem, pool, server>>
Scheduled == UNCHANGED <<sem, server>>
Pooled    == UNCHANGED <<pool, server>>

(* A step of the server, or of the kernel for it. *)
Serve ==
  \/ On("SingleProcess") /\ SingleProcess /\ Plain
  \/ On("MultiThread") /\ MultiThread /\ Plain
  \/ On("MultiProcess") /\ MultiProcess /\ Plain
  \/ On("ProcessPool1") /\ (\E t \in Workers : ProcessPool1(t)) /\ Plain
  \/ On("ProcessPool2") /\ (\E t \in Workers : ProcessPool2(t)) /\ Plain
  \/ On("ThreadPool") /\ (\E t \in Workers : ThreadPool(t)) /\ Plain
  \/ On("LeaderAndFollower") /\ (\E t \in Workers : LeaderAndFollower(t)) /\ Plain
  \/ On("Epoll") /\ Epoll(With("la")) /\ Plain
  \/ On("Poll") /\ Poll /\ Plain
  \/ On("Select") /\ Select /\ Plain
  \/ On("PollReactorSingleProcess") /\ PollReactorSingleProcess /\ Plain
  \/ On("SelectReactorSingleProcess") /\ SelectReactorSingleProcess /\ Plain
  \/ /\ On("EpollReactorSingleProcess")
     /\ EpollReactorSingleProcess(With("multiio"), With("la"), With("writefirst")) /\ Plain
  \/ On("EpollReactorSingleProcessET") /\ EpollReactorSingleProcessET /\ Plain
  \/ On("EpollReactorThreadPool") /\ (\E t \in Workers : EpollReactorThreadPool(t)) /\ Plain
  \/ On("EpollReactorThreadPoolMS") /\ EpollReactorThreadPoolMS(With("main read")) /\ Plain
  \/ On("EpollReactorProcessPoolMS") /\ EpollReactorProcessPoolMS(With("main read")) /\ Plain
  \/ On("EpollReactorThreadPoolHSHA1") /\ HSHA1(Io, Takers, With("direct")) /\ Pooled
  \/ On("EpollReactorThreadPoolHSHA2") /\ HSHA2(Io, Takers, With("direct")) /\ Pooled
  \/ On("EpollReactorSingleProcessCoroutine") /\ EpollReactorSingleProcessCoroutine /\ Scheduled
  \/ /\ On("EpollReactorProcessPoolCoroutine")
     /\ (\E t \in Workers : EpollReactorProcessPoolCoroutine(t)) /\ Scheduled
  \/ /\ On("EpollReactorSingleProcessCoroutineHSHA1")
     /\ EpollReactorSingleProcessCoroutineHSHA1 /\ Scheduled
  \/ /\ On("EpollReactorSingleProcessCoroutineHSHA2")
     /\ EpollReactorSingleProcessCoroutineHSHA2 /\ Scheduled
  \/ On("IoUringProactorSingleProcess") /\ IoUringProactorSingleProcess /\ Scheduled
  \/ /\ On("IoUringProactorThreadPool")
     /\ (\E t \in Workers : IoUringProactorThreadPool(t)) /\ Scheduled
  \/ /\ On("IoUringProactorSingleProcessCoroutine")
     /\ IoUringProactorSingleProcessCoroutine /\ Scheduled
  \/ /\ On("IoUringProactorSingleProcessCoroutineHSHA1")
     /\ IoUringProactorSingleProcessCoroutineHSHA1 /\ Scheduled
  \/ /\ On("IoUringProactorSingleProcessCoroutineHSHA2")
     /\ IoUringProactorSingleProcessCoroutineHSHA2 /\ Scheduled
  \/ \E c \in Client : Complete(c) /\ Scheduled
  \/ \E t \in Workers, c \in Client : server.name \in OnRing /\ CompleteAccept(t, c) /\ Scheduled

(* A client keeps to the protocol until it is done. *)
ClientStep ==
  \E c \in Client :
    /\ \/ \E l \in Listeners : Connect(c, l)
       \/ Ask(c) \/ Send(c) \/ Take(c) \/ Leave(c)
    /\ UNCHANGED <<thread, queue, sem, pool, server>>

HangupStep == \E c \in Client : Hangup(c) /\ UNCHANGED <<thread, queue, sem, pool, server>>

ServersNext == Serve \/ ClientStep \/ HangupStep

(* Neither the server nor the clients stop while they can go on; no client
   has to give up. *)
ServersSpec ==
  ServersInit /\ [][ServersNext]_serverVars /\ WF_serverVars(Serve) /\ WF_serverVars(ClientStep)
-----------------------------------------------------------------------------
(* The process has come to its end. *)
Aborted == \E t \in Thread : At(t, "aborted")

(* The connection has been handed over, and no Consumer is left to take it. *)
Abandoned(c) == conn[c].cid = "producer" /\ pool[1].waiting = 0

(* In the end every request that a client has sent has its whole answer: no
   event, notification, completion or hand-over that a connection needs is
   lost, in any server.  Only who came after the last Consumer is left alone. *)
Answered == <>[](Aborted \/ \A c \in Client : Abandoned(c) \/ conn[c].want = 0)

(* In the end every client has gone, and the server has closed its
   descriptor, in each of its processes that had a copy; again but for those
   who came after the last Consumer. *)
Released ==
  <>[](Aborted \/ \A c \in Client :
         \/ Abandoned(c)
         \/ conn[c].phase = "down" /\ conn[c].listener = 0 /\ conn[c].fds = {})

(* What has been encoded and not yet been written, and what has been written
   and not yet been read, are together what the client waits for, or there
   is no answer on its way. *)
AnswerExact ==
  \A c \in Client :
    LET k == conn[c]
        done == k.send_len + IF k.op = "written" THEN k.res ELSE 0
    IN  k.phase = "up" => k.outbox + (k.pkt.use_len - done) \in {0, k.want}

(* Where a server of one process refers to connection c. *)
References(c) ==
  Cardinality({t \in Thread : c \in thread[t].batch}) + Cardinality({t \in Thread : thread[t].cur = c})
  + IF server.name = "EpollReactorProcessPoolMS" THEN 0
    ELSE Cardinality({i \in DOMAIN queue : queue[i] = c})

(* No two threads have the same connection, none has it while it can be
   reported to another, and none has one that has been deleted. *)
SoleOwner ==
  server.name \notin {"MultiProcess", "EpollReactorProcessPoolMS"} =>
    \A c \in Client : /\ References(c) <= 1
                      /\ References(c) = 1 => conn[c].fds # {}
                      /\ server.name \in HandOver /\ (\E t \in Takers : thread[t].cur = c)
                           => ~ conn[c].event.armed

(* HSHA2: the two semaphores agree with the queue, and bound it. *)
SlotsAccount ==
  On("EpollReactorThreadPoolHSHA2") =>
    LET Places(P) == Cardinality({t \in Thread : thread[t].pc \in P})
    IN  /\ Len(queue) = sem.Fill + Places({"fill", "item"})
        /\ sem.Idle + Len(queue) + Places({"slot", "idle"}) = BufferSize
=============================================================================
