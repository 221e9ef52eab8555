----------------------------- MODULE BenchClient -----------------------------
(***************************************************************************)
(* The first load generator, src/BenchMark: one thread's clients, each a   *)
(* state machine that an event of its descriptor moves on, under a manager *)
(* that every millisecond replaces the clients that have failed, finished  *)
(* or taken too long, and restarts those the rate limit has stopped.  Its  *)
(* loop and its timers are a copy of those of src/EventDriven.             *)
(*                                                                         *)
(* A descriptor is named by its client: a new client has a new one.        *)
(***************************************************************************)
EXTENDS EventLoop, FiniteSetsExt

CONSTANTS
  Clients,       \* client_count
  RateLimit,     \* rate_limit
  MaxReq,        \* max_req_count
  CheckTicks,    \* the period of clientManagerCheck
  ConnectTicks, IoTicks,   \* the time-outs of IsValid
  RefreshTicks,  \* the period of rateLimitRefresh
  RunTicks,      \* run_time
  MaxWon         \* bound: requests that succeed in a behaviour

ASSUME BenchClientAssumption ==
  /\ Clients \in Nat \ {0} /\ Fds = 1 .. Clients
  /\ {CheckTicks, ConnectTicks, IoTicks, RefreshTicks, RunTicks, MaxReq} \subseteq Nat \ {0}
  /\ RateLimit \in Nat /\ MaxWon \in Nat
  /\ MaxTimers >= 3   \* those that are registered at the start

VARIABLES
  status, part,      \* EchoClient: status_, and whether send_len_ is not 0
  age,               \* ticks since the time IsValid looks at, or since the client ended
  success_count,
  failure_count,
  kind_count,        \* connect_, read_ and write_failure_count_, together
  temp_rate_limit,
  sum_success,       \* SumStat
  won                \* requests that have succeeded

failVars   == <<failure_count, kind_count>>
clientVars == <<status, part, age, success_count, failVars>>
benchVars  == <<loopVars, clientVars, temp_rate_limit, sum_success, won>>

Client == 1 .. Clients

ClientStatus == {"Connecting", "ConnectSuccess", "SendRequest", "RecvResponse",
                 "Success", "Failure", "Finish", "Stop"}

Global(kind) == <<kind, 0>>

TimeOut(s) == CASE s = "Connecting" -> ConnectTicks
                [] s \in {"SendRequest", "RecvResponse"} -> IoTicks
                [] OTHER -> 0

Timed == {"Connecting", "SendRequest", "RecvResponse"}
Ended == {"Failure", "Finish"}
-----------------------------------------------------------------------------
(* What an event makes of client c: the new status, and whether the time
   that IsValid looks at is taken anew. *)
Become(c, s) ==
  /\ status' = [status EXCEPT ![c] = s]
  /\ age' = [age EXCEPT ![c] = 0]

countVars == <<success_count, won, sum_success>>

(* A handler returns true. *)
Fine(c) == UNCHANGED failVars

(* It returns false, having counted a failure of a kind, or of none: Deal
   counts the failure, clears the event and closes the descriptor. *)
Fails(c, kinds) ==
  /\ Become(c, "Failure") /\ ClearEvent(c)
  /\ failure_count' = [failure_count EXCEPT ![c] = @ + 1]
  /\ kind_count' = [kind_count EXCEPT ![c] = @ + kinds]
  /\ UNCHANGED <<part, success_count, won>>

DealFails(c, kinds) == Fails(c, kinds) /\ UNCHANGED temp_rate_limit

checkConnect(c) ==
  /\ status[c] = "Connecting"
  /\ \/ Become(c, "ConnectSuccess") /\ Fine(c)
        /\ UNCHANGED <<interest, part, success_count, won, temp_rate_limit>>
     \/ DealFails(c, 1)

(* Mutant: the event of a stopped client is not cleared. *)
StopKeepsEvent(c) ==
  /\ temp_rate_limit <= 0
  /\ Become(c, "Stop") /\ Fine(c)
  /\ UNCHANGED <<interest, part, success_count, won, temp_rate_limit>>

(* The rate limit is used up: the event is cleared, not the descriptor. *)
StopSending(c) ==
  /\ temp_rate_limit <= 0
  /\ Become(c, "Stop") /\ ClearEvent(c) /\ Fine(c)
  /\ UNCHANGED <<part, success_count, won, temp_rate_limit>>

(* A write: nothing or a part, all of the request, or an error. *)
WriteSome(c) ==
  /\ temp_rate_limit > 0 /\ temp_rate_limit' = temp_rate_limit - 1
  /\ \/ /\ Become(c, "SendRequest") /\ Fine(c)
        /\ part' \in {part, [part EXCEPT ![c] = TRUE]} /\ UNCHANGED interest
     \/ /\ Become(c, "RecvResponse") /\ ModEvent(c, "read") /\ Fine(c)
        /\ part' = [part EXCEPT ![c] = TRUE]
  /\ UNCHANGED <<success_count, won>>

WriteFails(c) ==
  /\ temp_rate_limit > 0 /\ temp_rate_limit' = temp_rate_limit - 1
  /\ Fails(c, 1)

sendRequest(c) ==
  /\ status[c] \in {"ConnectSuccess", "SendRequest"}
  /\ StopSending(c) \/ WriteSome(c) \/ WriteFails(c)

recvResponse(c) ==
  /\ status[c] = "RecvResponse"
  /\ \/ Become(c, "Finish") /\ ClearEvent(c) /\ Fine(c)      \* the server closes
     \/ Become(c, "RecvResponse") /\ UNCHANGED interest /\ Fine(c)    \* a part, or nothing
     \/ Become(c, "Success") /\ ModEvent(c, "write") /\ Fine(c)
  /\ UNCHANGED <<part, success_count, won, temp_rate_limit>>

(* An error of read. *)
recvFails(c) == status[c] = "RecvResponse" /\ DealFails(c, 1)

(* No kind is counted: the answer is not the message sent, or Deal has no
   branch for the status. *)
failsUncounted(c) == status[c] \in {"RecvResponse", "Stop"} \cup Ended /\ DealFails(c, 0)

dealSuccess(c) ==
  /\ status[c] = "Success" /\ won < MaxWon
  /\ success_count' = [success_count EXCEPT ![c] = @ + 1] /\ won' = won + 1
  /\ part' = [part EXCEPT ![c] = FALSE]
  /\ IF success_count'[c] >= MaxReq THEN Become(c, "Finish") /\ ClearEvent(c)
     ELSE Become(c, "SendRequest") /\ UNCHANGED interest
  /\ Fine(c) /\ UNCHANGED temp_rate_limit

Deal(c) ==
  /\ TakeEvent(c) /\ UNCHANGED <<timer, sum_success>>
  /\ \/ checkConnect(c) \/ sendRequest(c) \/ recvResponse(c) \/ recvFails(c) \/ dealSuccess(c)
     \/ failsUncounted(c)
-----------------------------------------------------------------------------
(***************************************************************************)
(* The manager.                                                            *)
(***************************************************************************)
TimedOut(c) == status[c] \in Timed /\ age[c] >= TimeOut(status[c])

IsValid(c) == status[c] \notin Ended /\ ~ TimedOut(c)

(* Connect: made at once, under way, or failed; a descriptor for which it
   has failed is not registered, and never closed. *)
Connects == {"ConnectSuccess", "Connecting", "Failure"}

Restarts(c) == status[c] = "Stop" /\ temp_rate_limit > 0

EventOf(s) == CASE s \in {"Connecting", "ConnectSuccess", "SendRequest", "Success"} -> "write"
                [] s = "RecvResponse" -> "read"
                [] OTHER -> "none"

(* getDealStat of the clients of S, with its assert. *)
DealStat(S) == MapThenSumSet(LAMBDA c : success_count[c], S)
StatAssert(S) == \A c \in S : failure_count[c] = kind_count[c]

NewTimer(kind, ticks) == FreeIds(timer) # {} /\ timer' = Register(Fired, ticks, Global(kind))

(* Whom the manager counts: mutant, it counts before it looks at IsValid. *)
CountedAll(Old) == Client

Counted(Old) == Old

(* IsValid clears the events of those that take too long, and asserts that
   they had one. *)
TimedOutWatched == \A c \in Client : TimedOut(c) => interest[c] # "none"

(* Every client that is not valid is counted and replaced by a new one, which
   connects; every other one is restarted if it may be, or left alone.  What
   IsValid adds to a failure's two counts is the same, and goes with it. *)
CheckClientStatusAndDeal ==
  LET Old == {c \in Client : ~ IsValid(c)}
      Kept == {c \in Client : c \notin Old /\ ~ Restarts(c)}
  IN  /\ TimedOutWatched
      /\ StatAssert(Counted(Old)) /\ sum_success' = sum_success + DealStat(Counted(Old))
      /\ status' \in [Client -> ClientStatus]
      /\ \A c \in Client :
           /\ c \in Old => status'[c] \in Connects
           /\ c \in Kept => status'[c] = status[c]
           /\ c \notin Old \cup Kept => status'[c] = "SendRequest" /\ interest[c] = "none"
      /\ interest' = [c \in Client |-> IF c \in Kept THEN interest[c] ELSE EventOf(status'[c])]
      /\ age' = [c \in Client |-> IF c \in Kept THEN age[c] ELSE 0]
      /\ part' = [c \in Client |-> c \notin Old /\ part[c]]
      /\ success_count' = [c \in Client |-> IF c \in Old THEN 0 ELSE success_count[c]]
      /\ failure_count' = [c \in Client |->
           IF status'[c] = "Failure" THEN 1 ELSE IF c \in Old THEN 0 ELSE failure_count[c]]
      /\ kind_count' = [c \in Client |->
           IF status'[c] = "Failure" THEN 1 ELSE IF c \in Old THEN 0 ELSE kind_count[c]]

(* Mutant: the check is not registered again. *)
clientManagerCheckOnce ==
  /\ RunTimer(Global("check")) /\ timer' = Fired
  /\ CheckClientStatusAndDeal
  /\ UNCHANGED <<is_running, temp_rate_limit, won>>

clientManagerCheck ==
  /\ RunTimer(Global("check")) /\ NewTimer("check", CheckTicks)
  /\ CheckClientStatusAndDeal
  /\ UNCHANGED <<is_running, temp_rate_limit, won>>

rateLimitRefresh ==
  /\ RunTimer(Global("refresh")) /\ NewTimer("refresh", RefreshTicks)
  /\ temp_rate_limit' = RateLimit
  /\ UNCHANGED <<interest, is_running, clientVars, sum_success, won>>

(* The counts of the clients that are valid at the end, and no others. *)
threadExit ==
  LET Valid == {c \in Client : IsValid(c)}
      Late(count) == [c \in Client |-> IF TimedOut(c) THEN count[c] + 1 ELSE count[c]]
  IN  /\ RunTimer(Global("exit")) /\ timer' = Fired /\ TimedOutWatched
      /\ StatAssert(Valid) /\ sum_success' = sum_success + DealStat(Valid)
      /\ interest' = [c \in Client |-> IF TimedOut(c) THEN "none" ELSE interest[c]]
      /\ failure_count' = Late(failure_count) /\ kind_count' = Late(kind_count)
      /\ is_running' = FALSE
      /\ UNCHANGED <<status, part, age, success_count, temp_rate_limit, won>>
-----------------------------------------------------------------------------
HandlerTimers ==
  {[id |-> 1, left |-> RunTicks, handler |-> Global("exit")],
   [id |-> 2, left |-> CheckTicks, handler |-> Global("check")],
   [id |-> 3, left |-> RefreshTicks, handler |-> Global("refresh")]}

BenchInit ==
  /\ status \in [Client -> Connects]
  /\ LoopInit(HandlerTimers, [c \in Client |-> EventOf(status[c])])
  /\ temp_rate_limit = RateLimit /\ sum_success = 0 /\ won = 0
  /\ part = [c \in Client |-> FALSE] /\ age = [c \in Client |-> 0]
  /\ success_count = [c \in Client |-> 0]
  /\ failure_count = [c \in Client |-> IF status[c] = "Failure" THEN 1 ELSE 0]
  /\ kind_count = failure_count

BenchTick ==
  /\ Tick
  /\ age' = [c \in Client |-> IF status[c] \in Timed \cup Ended THEN age[c] + 1 ELSE age[c]]
  /\ UNCHANGED <<status, part, success_count, failVars, temp_rate_limit, sum_success, won>>

BenchNext ==
  \/ (LoopStep \/ WaitEvents) /\ UNCHANGED <<clientVars, temp_rate_limit, sum_success, won>>
  \/ BenchTick \/ clientManagerCheck \/ rateLimitRefresh \/ threadExit
  \/ \E c \in Client : Deal(c)

BenchSpec == BenchInit /\ [][BenchNext]_benchVars
-----------------------------------------------------------------------------
(***************************************************************************)
(* What epoll watches of a client's descriptor is what its status waits    *)
(* for: nothing is registered for a client that has ended, which is about  *)
(* to be deleted, nor for one that is stopped, and every other one has the *)
(* event that moves it on (client.hpp 130-286).                            *)
(***************************************************************************)
EventOfStatus ==
  is_running => \A c \in Client : interest[c] = EventOf(status[c])

(***************************************************************************)
(* A client that has failed, finished or exceeded its time-out is replaced *)
(* by the next check, which is never far: timers are not lost, whatever    *)
(* keeps the loop busy (clientmanager.hpp 43-59, client.hpp 89-118).       *)
(***************************************************************************)
ReplacedInTime ==
  is_running => \A c \in Client : age[c] <= TimeOut(status[c]) + CheckTicks + MaxLate

(* The assert of getDealStat (clientmanager.hpp 72): a client that has failed
   has failed in one of the three ways that are counted. *)
AccountsAgree == StatAssert(Client)

(* No success is lost or counted twice while clients come and go. *)
SuccessesKept == is_running => won = sum_success + DealStat(Client)
=============================================================================
