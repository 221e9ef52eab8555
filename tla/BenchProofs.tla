----------------------------- MODULE BenchProofs -----------------------------
(***************************************************************************)
(* Theorems about module BenchClient, for any number of clients and timers *)
(* and any time-outs: registrations follow the clients' states, the check  *)
(* that replaces clients is never lost, and the counts it adds up agree    *)
(* with what the clients have done.                                        *)
(***************************************************************************)
EXTENDS BenchClient, EventLoopProofs

Handlers == {NoHandler, Global("check"), Global("refresh"), Global("exit")}

BenchTypes ==
  /\ status \in [Client -> ClientStatus] /\ interest \in [Client -> {"none", "read", "write"}]
  /\ age \in [Client -> Nat] /\ success_count \in [Client -> Nat]
  /\ sum_success \in Int /\ won \in Nat

(* The manager ends the loop in its last timer, and no handler runs then. *)
EndInv == ~ is_running => loop \in {"top", "exit"}

(* The check that will replace clients is armed, and so near that no client
   is left for more than a period of it beyond its time-out. *)
CheckInv ==
  /\ \A c \in Client : status[c] \notin Timed \cup Ended => age[c] = 0
  /\ is_running =>
       \E t \in Live :
         /\ t.handler = Global("check") /\ t.left <= CheckTicks
         /\ \A c \in Client : age[c] + t.left <= TimeOut(status[c]) + CheckTicks

BenchInv == LoopInv(Handlers) /\ BenchTypes /\ EndInv /\ EventOfStatus /\ CheckInv
-----------------------------------------------------------------------------
LEMMA HandlersDiffer ==
  /\ \A k, l \in {"check", "refresh", "exit"} : Global(k) = Global(l) => k = l
  /\ \A k \in {"check", "refresh", "exit"} : Global(k) \in Handlers
  BY DEF Global, Handlers

LEMMA TimeOutType ==
  ASSUME NEW s \in ClientStatus
  PROVE  TimeOut(s) \in Nat /\ (s \notin Timed => TimeOut(s) = 0)
  BY BenchClientAssumption DEF TimeOut, Timed, ClientStatus

LEMMA EventOfType == \A s \in ClientStatus : EventOf(s) \in {"none", "read", "write"}
  BY DEF EventOf, ClientStatus

LEMMA BenchInitInv == BenchInit => BenchInv
  <1> SUFFICES ASSUME BenchInit PROVE BenchInv
    OBVIOUS
  <1>1. HandlerTimers \in SUBSET TimerSet(Handlers)
    BY BenchClientAssumption, EventLoopAssumption
       DEF HandlerTimers, TimerSet, Handlers, Lefts, Tid
  <1>2. \A r, s \in HandlerTimers : r.id = s.id => r = s
    BY DEF HandlerTimers
  <1>3. LoopInv(Handlers) /\ Live = HandlerTimers
    BY <1>1, <1>2, LoopInitInv DEF BenchInit
  <1>4. Connects \subseteq ClientStatus
    BY DEF Connects, ClientStatus
  <1>5. EventOfStatus
    BY DEF BenchInit, LoopInit, EventOfStatus
  <1>6. BenchTypes
    BY <1>4, EventOfType DEF BenchInit, LoopInit, BenchTypes
  <1>7. CheckInv
    <2> DEFINE t == [id |-> 2, left |-> CheckTicks, handler |-> Global("check")]
    <2>1. t \in Live /\ t.handler = Global("check") /\ t.left = CheckTicks
      BY <1>3 DEF HandlerTimers
    <2>2. \A c \in Client : age[c] = 0 /\ TimeOut(status[c]) \in Nat
      BY <1>4, TimeOutType DEF BenchInit
    <2> HIDE DEF t
    <2>3. QED
      BY <2>1, <2>2, BenchClientAssumption DEF CheckInv
  <1>8. QED
    BY <1>3, <1>5, <1>6, <1>7 DEF BenchInv, EndInv, BenchInit, LoopInit
-----------------------------------------------------------------------------
(***************************************************************************)
(* An event moves one client on.                                           *)
(***************************************************************************)
(* To status s, with w requests that succeeded. *)
Moves(c, s, w) ==
  /\ status' = [status EXCEPT ![c] = s] /\ age' = [age EXCEPT ![c] = 0]
  /\ interest' = [interest EXCEPT ![c] = EventOf(s)]
  /\ success_count' = [success_count EXCEPT ![c] = @ + w] /\ won' = won + w
  /\ loop = "events" /\ fired' \subseteq fired
  /\ UNCHANGED <<timer, timer_data, time_out_ms, loop, is_running, sum_success>>

LEMMA DealMoves ==
  ASSUME BenchInv, NEW c \in Client, Deal(c)
  PROVE  \E s \in ClientStatus, w \in {0, 1} : Moves(c, s, w)
  <1> USE DEF BenchInv, BenchTypes, EndInv, EventOfStatus, EventOf, Become, Fine, ClientStatus,
              Deal, TakeEvent, Moves, ModEvent, ClearEvent
  <1>1. is_running /\ interest[c] = EventOf(status[c])
    OBVIOUS
  <1>2. CASE checkConnect(c)
    <2>1. Moves(c, "ConnectSuccess", 0) \/ Moves(c, "Failure", 0)
      BY <1>1, <1>2 DEF checkConnect, DealFails, Fails
    <2>2. QED
      BY <2>1
  <1>3. CASE sendRequest(c)
    <2>1. CASE StopSending(c)
      <3>1. Moves(c, "Stop", 0)
        BY <1>1, <1>3, <2>1 DEF sendRequest, StopSending
      <3>2. QED
        BY <3>1
    <2>2. CASE WriteSome(c)
      <3>1. Moves(c, "SendRequest", 0) \/ Moves(c, "RecvResponse", 0)
        BY <1>1, <1>3, <2>2 DEF sendRequest, WriteSome
      <3>2. QED
        BY <3>1
    <2>3. CASE WriteFails(c)
      <3>1. Moves(c, "Failure", 0)
        BY <1>1, <1>3, <2>3 DEF sendRequest, WriteFails, Fails
      <3>2. QED
        BY <3>1
    <2>4. QED
      BY <1>3, <2>1, <2>2, <2>3 DEF sendRequest
  <1>4. CASE recvResponse(c)
    <2>1. \/ Moves(c, "Finish", 0) \/ Moves(c, "RecvResponse", 0)
          \/ Moves(c, "Success", 0)
      BY <1>1, <1>4 DEF recvResponse
    <2>2. QED
      BY <2>1
  <1>5. CASE recvFails(c)
    <2>1. Moves(c, "Failure", 0)
      BY <1>1, <1>5 DEF recvFails, DealFails, Fails
    <2>2. QED
      BY <2>1
  <1>6. CASE dealSuccess(c)
    <2>1. Moves(c, "Finish", 1) \/ Moves(c, "SendRequest", 1)
      BY <1>1, <1>6 DEF dealSuccess
    <2>2. QED
      BY <2>1
  <1>7. CASE failsUncounted(c)
    <2>1. Moves(c, "Failure", 0)
      BY <1>1, <1>7 DEF failsUncounted, DealFails, Fails
    <2>2. QED
      BY <2>1
  <1>8. QED
    BY <1>2, <1>3, <1>4, <1>5, <1>6, <1>7

LEMMA DealKeeps ==
  ASSUME BenchInv, NEW c \in Client, Deal(c)
  PROVE  BenchInv'
  <1> USE DEF BenchInv
  <1>1. PICK s \in ClientStatus, w \in {0, 1} : Moves(c, s, w)
    BY DealMoves
  <1>2. LoopInv(Handlers)'
    BY <1>1, HandlerKeeps DEF Moves, LoopInv
  <1>3. BenchTypes'
    BY <1>1, EventOfType DEF Moves, BenchTypes
  <1>4. EndInv' /\ EventOfStatus'
    BY <1>1 DEF Moves, EndInv, EventOfStatus, BenchTypes
  <1>5. \A d \in Client : \/ age'[d] = age[d] /\ status'[d] = status[d]
                          \/ age'[d] = 0 /\ status'[d] \in ClientStatus
    BY <1>1 DEF Moves, BenchTypes
  <1>6. CheckInv'
    <2>1. \A d \in Client : status'[d] \notin Timed \cup Ended => age'[d] = 0
      BY <1>5 DEF CheckInv
    <2>2. ASSUME is_running
          PROVE  \E t \in Live' :
                   /\ t.handler = Global("check") /\ t.left <= CheckTicks
                   /\ \A d \in Client : age'[d] + t.left <= TimeOut(status'[d]) + CheckTicks
      <3>1. PICK t \in Live :
              /\ t.handler = Global("check") /\ t.left <= CheckTicks
              /\ \A d \in Client : age[d] + t.left <= TimeOut(status[d]) + CheckTicks
        BY <2>2 DEF CheckInv
      <3>2. t \in Live' /\ t.left \in Int
        BY <1>1, LiveIsArmed
           DEF Moves, ArmedOf, AllOf, LoopInv, TimersOK, TimerStates, TimerSet, Lefts
      <3>3. \A d \in Client : age'[d] + t.left <= TimeOut(status'[d]) + CheckTicks
        BY <1>5, <3>1, <3>2, TimeOutType, BenchClientAssumption
      <3>4. QED
        BY <3>1, <3>2, <3>3
    <2>3. QED
      BY <1>1, <2>1, <2>2 DEF CheckInv, Moves
  <1>7. QED
    BY <1>2, <1>3, <1>4, <1>6
-----------------------------------------------------------------------------
(***************************************************************************)
(* The loop's steps, and the manager's.                                    *)
(***************************************************************************)
LEMMA LoopKeeps ==
  ASSUME BenchInv, LoopStep \/ WaitEvents,
         UNCHANGED <<clientVars, temp_rate_limit, sum_success, won>>
  PROVE  BenchInv'
  <1> USE DEF BenchInv, clientVars
  <1>1. LoopInv(Handlers)' /\ Live' = Live
    BY LoopStepKeeps
  <1>2. UNCHANGED <<interest, is_running>>
    BY DEF LoopStep, DropCancelled, TakeTimer, LoopExit, WaitTimeOut, WaitEvents, EventsDone,
           RunQuietly
  <1>3. EndInv'
    BY DEF EndInv, LoopStep, DropCancelled, TakeTimer, LoopExit, WaitTimeOut, WaitEvents,
           EventsDone, RunQuietly
  <1>4. BenchTypes' /\ EventOfStatus' /\ CheckInv'
    BY <1>1, <1>2 DEF BenchTypes, EventOfStatus, CheckInv
  <1>5. QED
    BY <1>1, <1>3, <1>4

LEMMA TimeKeeps ==
  ASSUME BenchInv, BenchTick
  PROVE  BenchInv'
  <1> USE DEF BenchInv
  <1>1. LoopInv(Handlers)' /\ Live' = {Later(s) : s \in Live}
    BY TickKeeps DEF BenchTick
  <1>2. UNCHANGED <<loop, interest, is_running, status, success_count, sum_success, won>>
    BY DEF BenchTick, Tick
  <1>3. age' = [c \in Client |-> IF status[c] \in Timed \cup Ended THEN age[c] + 1 ELSE age[c]]
    BY DEF BenchTick
  <1>4. BenchTypes' /\ EndInv' /\ EventOfStatus'
    BY <1>2, <1>3 DEF BenchTypes, EndInv, EventOfStatus
  <1>5. \A s \in Live : /\ Later(s).handler = s.handler /\ Later(s).left = s.left - 1
                        /\ s.left \in Int
    BY LiveIsArmed DEF LoopInv, ArmedOf, AllOf, TimersOK, TimerStates, TimerSet, Lefts, Later
  <1>6. CheckInv'
    <2>1. \A c \in Client : status'[c] \notin Timed \cup Ended => age'[c] = 0
      BY <1>2, <1>3 DEF CheckInv
    <2>2. ASSUME is_running
          PROVE  \E t \in Live' :
                   /\ t.handler = Global("check") /\ t.left <= CheckTicks
                   /\ \A c \in Client : age'[c] + t.left <= TimeOut(status'[c]) + CheckTicks
      <3>1. PICK t \in Live :
              /\ t.handler = Global("check") /\ t.left <= CheckTicks
              /\ \A c \in Client : age[c] + t.left <= TimeOut(status[c]) + CheckTicks
        BY <2>2 DEF CheckInv
      <3>2. Later(t) \in Live' /\ Later(t).left <= CheckTicks
        BY <1>1, <1>5, <3>1, BenchClientAssumption
      <3>3. ASSUME NEW c \in Client
            PROVE  age'[c] + Later(t).left <= TimeOut(status'[c]) + CheckTicks
        <4>1. age[c] \in Nat /\ age'[c] <= age[c] + 1 /\ age'[c] \in Nat
          BY <1>3 DEF BenchTypes
        <4>2. TimeOut(status[c]) \in Nat /\ CheckTicks \in Nat
          BY TimeOutType, BenchClientAssumption DEF BenchTypes
        <4>3. QED
          BY <1>2, <1>5, <3>1, <4>1, <4>2
      <3>4. QED
        BY <1>5, <3>1, <3>2, <3>3
    <2>3. QED
      BY <1>2, <2>1, <2>2 DEF CheckInv
  <1>7. QED
    BY <1>1, <1>4, <1>6

(* A handler that arms its timer again: no other timer is touched. *)
LEMMA TimerAgain ==
  ASSUME BenchInv, NEW kind \in {"check", "refresh"}, NEW ticks \in Nat,
         RunTimer(Global(kind)), NewTimer(kind, ticks), UNCHANGED is_running
  PROVE  /\ LoopInv(Handlers)' /\ loop' = "top" /\ is_running
         /\ \E t \in Live' : t.handler = Global(kind) /\ t.left = ticks
         /\ \A t \in Live : t.handler # Global(kind) => t \in Live'
  <1> USE DEF BenchInv
  <1>1. /\ timer_data \in Live /\ timer_data.handler = Global(kind)
        /\ loop' = "top" /\ fired' = {} /\ timer_data' = NoTimer /\ time_out_ms' = time_out_ms
        /\ TimersOK(Fired, NoTimer, Handlers) /\ ArmedOf(Fired, NoTimer) = Live \ {timer_data}
    BY FiredGone
  <1> DEFINE new == [id |-> NewId(Fired), left |-> ticks, handler |-> Global(kind)]
  <1>2. FreeIds(Fired) # {} /\ timer' = Register(Fired, ticks, Global(kind))
    BY <1>1, FiredGone DEF NewTimer
  <1>3. Global(kind) \in Handlers
    BY HandlersDiffer
  <1>4. TimersOK(timer', NoTimer, Handlers) /\ ArmedOf(timer', NoTimer) = (Live \ {timer_data}) \cup {new}
    BY <1>1, <1>2, <1>3, RegisterArms
  <1>5. Live' = (Live \ {timer_data}) \cup {new}
    BY <1>1, <1>4, LiveIsArmed
  <1>6. new.handler = Global(kind) /\ new.left = ticks
    OBVIOUS
  <1> HIDE DEF new
  <1>7. is_running
    BY DEF EndInv, RunTimer
  <1>8. LoopInv(Handlers)'
    BY <1>1, <1>4, HandlerKeeps DEF LoopInv
  <1>9. QED
    BY <1>1, <1>5, <1>6, <1>7, <1>8
-----------------------------------------------------------------------------
(***************************************************************************)
(* Sums over finite sets: what MapThenSumSet, a recursive function of the  *)
(* library, computes.  Induction is by a least counterexample.             *)
(***************************************************************************)
LEMMA SmallestBad ==
  ASSUME NEW S, IsFiniteSet(S), NEW Bad \in SUBSET (SUBSET S), Bad # {}
  PROVE  \E s \in Bad : IsFiniteSet(s) /\ \A x \in s : s \ {x} \notin Bad
  <1> DEFINE Sizes == {Cardinality(s) : s \in Bad}
  <1>1. \A s \in Bad : IsFiniteSet(s) /\ Cardinality(s) \in Nat
    BY FS_Subset, FS_CardinalityType
  <1>2. \E i \in Sizes : \A j \in Sizes : i <= j
    <2>1. Sizes \in SUBSET Nat /\ Sizes # {}
      BY <1>1
    <2> HIDE DEF Sizes
    <2>2. QED
      BY <2>1, LeastId
  <1>3. PICK s \in Bad : \A t \in Bad : Cardinality(s) <= Cardinality(t)
    BY <1>2
  <1>4. ASSUME NEW x \in s, s \ {x} \in Bad PROVE FALSE
    <2>1. Cardinality(s \ {x}) = Cardinality(s) - 1
      BY <1>1, FS_RemoveElement
    <2>2. QED
      BY <1>1, <1>3, <1>4, <2>1
  <1>5. QED
    BY <1>1, <1>3, <1>4

Pick(s) == CHOOSE x \in s : TRUE

LEMMA PickIn == ASSUME NEW s, s # {} PROVE Pick(s) \in s
  BY DEF Pick

(* The sum of f over a set, and the function that computes those of all its
   subsets. *)
SumOver(f, S) == MapThenSumSet(LAMBDA x : f[x], S)

IsSum(g, f, D) ==
  g = [s \in D |-> IF s = {} THEN 0 ELSE f[Pick(s)] + g[s \ {Pick(s)}]]

LEMMA SumExists ==
  ASSUME NEW f, NEW S, IsFiniteSet(S)
  PROVE  \E g : IsSum(g, f, SUBSET S)
  <1> DEFINE Small(n) == {s \in SUBSET S : Cardinality(s) <= n}
             Done     == {n \in Nat : \E g : IsSum(g, f, Small(n))}
  <1>1. \A s \in SUBSET S : IsFiniteSet(s) /\ Cardinality(s) \in Nat /\ Cardinality(s) <= Cardinality(S)
    BY FS_Subset, FS_CardinalityType
  <1>2. 0 \in Done
    <2>1. \A s \in Small(0) : s = {}
      BY <1>1, FS_EmptySet
    <2>2. IsSum([s \in Small(0) |-> 0], f, Small(0))
      BY <2>1 DEF IsSum
    <2>3. QED
      BY <2>2
  <1>3. ASSUME NEW n \in Nat, n \in Done PROVE n + 1 \in Done
    <2>1. PICK g : IsSum(g, f, Small(n))
      BY <1>3
    <2> DEFINE h == [s \in Small(n + 1) |-> IF s = {} THEN 0 ELSE f[Pick(s)] + g[s \ {Pick(s)}]]
    <2>2. ASSUME NEW s \in Small(n) PROVE s \in Small(n + 1) /\ h[s] = g[s]
      <3>1. s \in Small(n + 1)
        BY <1>1
      <3> HIDE DEF Small
      <3>2. g[s] = IF s = {} THEN 0 ELSE f[Pick(s)] + g[s \ {Pick(s)}]
        BY <2>1 DEF IsSum
      <3>3. QED
        BY <3>1, <3>2
    <2>3. ASSUME NEW s \in Small(n + 1), s # {}
          PROVE  s \ {Pick(s)} \in Small(n)
      <3>1. Pick(s) \in s /\ s \in SUBSET S
        BY <2>3, PickIn
      <3>2. Cardinality(s \ {Pick(s)}) = Cardinality(s) - 1
        BY <1>1, <3>1, FS_RemoveElement
      <3>3. QED
        BY <1>1, <3>1, <3>2
    <2>4. IsSum(h, f, Small(n + 1))
      <3> HIDE DEF Small
      <3>1. \A s \in Small(n + 1) : s # {} => h[s \ {Pick(s)}] = g[s \ {Pick(s)}]
        BY <2>2, <2>3
      <3>2. QED
        BY <3>1 DEF IsSum
    <2> HIDE DEF h, Small
    <2>5. QED
      BY <2>4
  <1>4. \A n \in Nat : n \in Done
    <2>1. SUFFICES ASSUME Nat \ Done # {} PROVE FALSE
      OBVIOUS
    <2>2. PICK n \in Nat \ Done : \A m \in Nat \ Done : n <= m
      BY <2>1, LeastId
    <2> HIDE DEF Done
    <2>3. n # 0 /\ n - 1 \in Nat
      BY <1>2, <2>2
    <2>4. n - 1 \in Done
      BY <2>2, <2>3
    <2>5. QED
      BY <1>3, <2>2, <2>3, <2>4
  <1>5. Cardinality(S) \in Done
    BY <1>1, <1>4
  <1>6. Small(Cardinality(S)) = SUBSET S
    BY <1>1
  <1>7. QED
    BY <1>5, <1>6

LEMMA SumOverIs ==
  ASSUME NEW f, NEW S, IsFiniteSet(S)
  PROVE  \E g : IsSum(g, f, SUBSET S) /\ SumOver(f, S) = g[S]
  <1> DEFINE h == CHOOSE g : IsSum(g, f, SUBSET S)
  <1>1. IsSum(h, f, SUBSET S)
    BY SumExists
  <1>2. SumOver(f, S) = h[S]
    BY DEF SumOver, MapThenSumSet, MapThenFoldSet, IsSum, Pick
  <1>3. QED
    BY <1>1, <1>2

(* The sum depends on nothing but the values of the function on the set. *)
Same(f, e, D) == \A x \in D : f[x] = e[x]

LEMMA SumAgree ==
  ASSUME NEW f, NEW e, NEW S, IsFiniteSet(S), NEW T, T \subseteq S,
         Same(f, e, T), NEW g, IsSum(g, f, SUBSET S), NEW h, IsSum(h, e, SUBSET T)
  PROVE  Same(g, h, SUBSET T)
  <1> DEFINE Bad == {s \in SUBSET T : g[s] # h[s]}
  <1>1. SUFFICES ASSUME Bad # {} PROVE FALSE
    BY DEF Same
  <1>2. PICK s \in Bad : \A x \in s : s \ {x} \notin Bad
    <2>1. IsFiniteSet(T)
      BY FS_Subset
    <2>2. QED
      BY <1>1, <2>1, SmallestBad
  <1>3. /\ g[s] = IF s = {} THEN 0 ELSE f[Pick(s)] + g[s \ {Pick(s)}]
        /\ h[s] = IF s = {} THEN 0 ELSE e[Pick(s)] + h[s \ {Pick(s)}]
    BY DEF IsSum
  <1>4. s # {}
    BY <1>3
  <1>5. Pick(s) \in s /\ Pick(s) \in T
    BY <1>4, PickIn
  <1>6. g[s \ {Pick(s)}] = h[s \ {Pick(s)}] /\ f[Pick(s)] = e[Pick(s)]
    BY <1>2, <1>5 DEF Same
  <1>7. QED
    BY <1>3, <1>6

LEMMA SumSame ==
  ASSUME NEW f, NEW e, NEW S, IsFiniteSet(S), \A x \in S : f[x] = e[x]
  PROVE  SumOver(f, S) = SumOver(e, S)
  <1>1. PICK g : IsSum(g, f, SUBSET S) /\ SumOver(f, S) = g[S]
    BY SumOverIs
  <1>2. PICK h : IsSum(h, e, SUBSET S) /\ SumOver(e, S) = h[S]
    BY SumOverIs
  <1>3. Same(f, e, S)
    BY DEF Same
  <1>4. Same(g, h, SUBSET S)
    BY <1>1, <1>2, <1>3, SumAgree
  <1>5. QED
    BY <1>1, <1>2, <1>4 DEF Same

LEMMA SumEmpty == ASSUME NEW f PROVE SumOver(f, {}) = 0
  <1>1. PICK g : IsSum(g, f, SUBSET {}) /\ SumOver(f, {}) = g[{}]
    BY SumOverIs, FS_EmptySet
  <1>2. QED
    BY <1>1 DEF IsSum

LEMMA SumPick ==
  ASSUME NEW f, NEW S, IsFiniteSet(S), S # {}
  PROVE  SumOver(f, S) = f[Pick(S)] + SumOver(f, S \ {Pick(S)})
  <1> DEFINE T == S \ {Pick(S)}
  <1>1. PICK g : IsSum(g, f, SUBSET S) /\ SumOver(f, S) = g[S]
    BY SumOverIs
  <1>2. IsFiniteSet(T)
    BY FS_Subset
  <1>3. PICK h : IsSum(h, f, SUBSET T) /\ SumOver(f, T) = h[T]
    BY <1>2, SumOverIs
  <1>4. g[T] = h[T]
    <2>1. Same(f, f, T) /\ T \subseteq S
      BY DEF Same
    <2> HIDE DEF T
    <2>2. Same(g, h, SUBSET T)
      BY <1>1, <1>3, <2>1, SumAgree
    <2>3. QED
      BY <2>2 DEF Same
  <1>5. g[S] = f[Pick(S)] + g[T]
    BY <1>1 DEF IsSum
  <1>6. QED
    BY <1>1, <1>3, <1>4, <1>5

LEMMA SumType ==
  ASSUME NEW f, NEW S, IsFiniteSet(S), \A x \in S : f[x] \in Nat
  PROVE  SumOver(f, S) \in Nat
  <1> DEFINE Bad == {s \in SUBSET S : SumOver(f, s) \notin Nat}
  <1>1. SUFFICES ASSUME Bad # {} PROVE FALSE
    OBVIOUS
  <1>2. PICK s \in Bad : IsFiniteSet(s) /\ \A x \in s : s \ {x} \notin Bad
    BY <1>1, SmallestBad
  <1>3. s # {}
    BY SumEmpty
  <1>4. Pick(s) \in s /\ SumOver(f, s) = f[Pick(s)] + SumOver(f, s \ {Pick(s)})
    BY <1>2, <1>3, PickIn, SumPick
  <1>5. QED
    BY <1>2, <1>4

(* Any member may be taken from the sum first. *)
LEMMA SumTake ==
  ASSUME NEW f, NEW S, IsFiniteSet(S), \A x \in S : f[x] \in Nat
  PROVE  \A x \in S : SumOver(f, S) = f[x] + SumOver(f, S \ {x})
  <1> DEFINE Bad == {s \in SUBSET S : \E x \in s : SumOver(f, s) # f[x] + SumOver(f, s \ {x})}
  <1>1. SUFFICES ASSUME Bad # {} PROVE FALSE
    OBVIOUS
  <1>2. PICK s \in Bad : IsFiniteSet(s) /\ \A x \in s : s \ {x} \notin Bad
    BY <1>1, SmallestBad
  <1>3. PICK x \in s : SumOver(f, s) # f[x] + SumOver(f, s \ {x})
    OBVIOUS
  <1> DEFINE y == Pick(s)
  <1>4. y \in s /\ SumOver(f, s) = f[y] + SumOver(f, s \ {y})
    BY <1>2, <1>3, PickIn, SumPick
  <1> HIDE DEF y
  <1>5. x # y
    BY <1>3, <1>4
  <1>6. /\ SumOver(f, s \ {y}) = f[x] + SumOver(f, (s \ {y}) \ {x})
        /\ SumOver(f, s \ {x}) = f[y] + SumOver(f, (s \ {x}) \ {y})
    BY <1>2, <1>4, <1>5
  <1>7. (s \ {y}) \ {x} = (s \ {x}) \ {y}
    OBVIOUS
  <1>8. SumOver(f, (s \ {x}) \ {y}) \in Nat /\ f[x] \in Nat /\ f[y] \in Nat
    <2>1. IsFiniteSet((s \ {x}) \ {y})
      BY <1>2, FS_Subset
    <2>2. QED
      BY <1>4, <2>1, SumType
  <1> DEFINE rest == SumOver(f, (s \ {x}) \ {y})
  <1>9. SumOver(f, s) = f[y] + (f[x] + rest) /\ SumOver(f, s \ {x}) = f[y] + rest
    BY <1>4, <1>6, <1>7
  <1>10. rest \in Nat /\ f[x] \in Nat /\ f[y] \in Nat
    BY <1>8
  <1> HIDE DEF rest
  <1>11. f[y] + (f[x] + rest) = f[x] + (f[y] + rest)
    BY <1>10
  <1>12. QED
    BY <1>3, <1>9, <1>11

LEMMA SumSplit ==
  ASSUME NEW f, NEW S, IsFiniteSet(S), \A x \in S : f[x] \in Nat, NEW A \in SUBSET S
  PROVE  SumOver(f, S) = SumOver(f, A) + SumOver(f, S \ A)
  <1> DEFINE Bad == {s \in SUBSET S : SumOver(f, S) # SumOver(f, s) + SumOver(f, S \ s)}
  <1>1. SUFFICES ASSUME Bad # {} PROVE FALSE
    OBVIOUS
  <1>2. PICK s \in Bad : IsFiniteSet(s) /\ \A x \in s : s \ {x} \notin Bad
    BY <1>1, SmallestBad
  <1>3. PICK x : x \in s
    <2>1. SumOver(f, S) \in Nat /\ S \ {} = S
      BY SumType
    <2>2. QED
      BY <2>1, SumEmpty
  <1>4. SumOver(f, S) = SumOver(f, s \ {x}) + SumOver(f, S \ (s \ {x}))
    BY <1>2, <1>3
  <1>5. SumOver(f, s) = f[x] + SumOver(f, s \ {x})
    BY <1>2, <1>3, SumTake
  <1>6. SumOver(f, S \ (s \ {x})) = f[x] + SumOver(f, S \ s)
    <2>1. IsFiniteSet(S \ (s \ {x})) /\ x \in S \ (s \ {x})
      BY <1>3, FS_Subset
    <2>2. (S \ (s \ {x})) \ {x} = S \ s
      BY <1>3
    <2>3. SumOver(f, S \ (s \ {x})) = f[x] + SumOver(f, (S \ (s \ {x})) \ {x})
      BY <2>1, SumTake
    <2>4. QED
      BY <2>2, <2>3
  <1>7. SumOver(f, s \ {x}) \in Nat /\ SumOver(f, S \ s) \in Nat /\ f[x] \in Nat
    <2>1. IsFiniteSet(s \ {x}) /\ IsFiniteSet(S \ s)
      BY FS_Subset
    <2>2. QED
      BY <1>3, <2>1, SumType
  <1>8. QED
    BY <1>4, <1>5, <1>6, <1>7

LEMMA SumZero ==
  ASSUME NEW f, NEW S, IsFiniteSet(S), \A x \in S : f[x] = 0
  PROVE  SumOver(f, S) = 0
  <1> DEFINE Bad == {s \in SUBSET S : SumOver(f, s) # 0}
  <1>1. SUFFICES ASSUME Bad # {} PROVE FALSE
    OBVIOUS
  <1>2. PICK s \in Bad : IsFiniteSet(s) /\ \A x \in s : s \ {x} \notin Bad
    BY <1>1, SmallestBad
  <1>3. s # {}
    BY SumEmpty
  <1>4. Pick(s) \in s /\ SumOver(f, s) = f[Pick(s)] + SumOver(f, s \ {Pick(s)})
    BY <1>2, <1>3, PickIn, SumPick
  <1>5. QED
    BY <1>2, <1>4
-----------------------------------------------------------------------------
(***************************************************************************)
(* The manager.                                                            *)
(***************************************************************************)
LEMMA ClientsFinite == IsFiniteSet(Client) /\ \A S \in SUBSET Client : IsFiniteSet(S)
  <1>1. 1 \in Int /\ Clients \in Int
    BY BenchClientAssumption
  <1>2. IsFiniteSet(Client)
    BY <1>1, FS_Interval DEF Client
  <1>3. QED
    BY <1>2, FS_Subset

LEMMA DealStatIs ==
  ASSUME BenchTypes, NEW S \in SUBSET Client
  PROVE  DealStat(S) = SumOver(success_count, S) /\ DealStat(S) \in Nat
  <1>1. DealStat(S) = SumOver(success_count, S)
    BY DEF DealStat, SumOver
  <1>2. IsFiniteSet(S) /\ \A c \in S : success_count[c] \in Nat
    BY ClientsFinite DEF BenchTypes
  <1>3. QED
    BY <1>1, <1>2, SumType

LEMMA DealStatNext == DealStat(Client)' = SumOver(success_count', Client)
  BY DEF DealStat, SumOver, MapThenSumSet, MapThenFoldSet

(* What a check does, with the clients it replaces and those it leaves. *)
Checks(Old, Kept) ==
  /\ Old = {c \in Client : ~ IsValid(c)} /\ Kept \subseteq Client \ Old
  /\ status' \in [Client -> ClientStatus]
  /\ \A c \in Kept : status'[c] = status[c]
  /\ interest' = [c \in Client |-> EventOf(status'[c])]
  /\ age' = [c \in Client |-> IF c \in Kept THEN age[c] ELSE 0]
  /\ success_count' = [c \in Client |-> IF c \in Old THEN 0 ELSE success_count[c]]
  /\ sum_success' = sum_success + DealStat(Old) /\ won' = won

LEMMA ChecksDo ==
  ASSUME BenchInv, clientManagerCheck
  PROVE  \E Old, Kept \in SUBSET Client : Checks(Old, Kept)
  <1> DEFINE Old == {c \in Client : ~ IsValid(c)}
             Kept == {c \in Client : c \notin Old /\ ~ Restarts(c)}
  <1>1. \A c \in Client : interest[c] = EventOf(status[c])
    BY DEF BenchInv, EndInv, EventOfStatus, clientManagerCheck, RunTimer
  <1>2. /\ interest' = [c \in Client |-> IF c \in Kept THEN interest[c] ELSE EventOf(status'[c])]
        /\ \A c \in Kept : status'[c] = status[c]
    BY DEF clientManagerCheck, CheckClientStatusAndDeal
  <1>3. interest' = [c \in Client |-> EventOf(status'[c])]
    BY <1>1, <1>2
  <1>4. Checks(Old, Kept)
    BY <1>3 DEF clientManagerCheck, CheckClientStatusAndDeal, Checks, Counted
  <1>5. Old \in SUBSET Client /\ Kept \in SUBSET Client
    OBVIOUS
  <1> HIDE DEF Old, Kept
  <1>6. QED
    BY <1>4, <1>5

(* A client that a check leaves alone has not reached its time-out, and by
   the next one, which is armed, it is at most a period beyond it. *)
LEMMA CheckKeeps ==
  ASSUME BenchInv, clientManagerCheck
  PROVE  BenchInv'
  <1> USE DEF BenchInv
  <1>1. CheckTicks \in Nat
    BY BenchClientAssumption
  <1>2. /\ LoopInv(Handlers)' /\ loop' = "top" /\ is_running
        /\ \E t \in Live' : t.handler = Global("check") /\ t.left = CheckTicks
        /\ is_running' = is_running
    BY <1>1, TimerAgain DEF clientManagerCheck
  <1>3. PICK Old \in SUBSET Client, Kept \in SUBSET Client : Checks(Old, Kept)
    BY ChecksDo
  <1>4. BenchTypes'
    <2>1. DealStat(Old) \in Nat
      BY DealStatIs
    <2>2. interest' \in [Client -> {"none", "read", "write"}]
      BY <1>3, EventOfType DEF Checks
    <2>3. QED
      BY <1>3, <2>1, <2>2 DEF Checks, BenchTypes
  <1>5. EndInv' /\ EventOfStatus'
    BY <1>2, <1>3 DEF Checks, EndInv, EventOfStatus
  <1>6. \A c \in Client : \/ age'[c] = 0
                          \/ c \in Kept /\ age'[c] = age[c] /\ status'[c] = status[c]
    BY <1>3 DEF Checks
  <1>7. ASSUME NEW c \in Client PROVE age'[c] <= TimeOut(status'[c]) /\ age'[c] \in Nat
    <2>1. TimeOut(status'[c]) \in Nat /\ age'[c] \in Nat /\ TimeOut(status[c]) \in Nat
      BY <1>4, TimeOutType DEF BenchTypes
    <2>2. CASE age'[c] = 0
      BY <2>1, <2>2
    <2>3. CASE c \in Kept /\ age'[c] = age[c] /\ status'[c] = status[c]
      <3>1. status[c] \notin Ended /\ (status[c] \in Timed => ~ (age[c] >= TimeOut(status[c])))
        BY <1>3, <2>3 DEF Checks, IsValid, TimedOut
      <3>2. status[c] \notin Timed => age[c] = 0
        BY <3>1 DEF CheckInv
      <3>3. QED
        BY <2>1, <2>3, <3>1, <3>2
    <2>4. QED
      BY <1>6, <2>2, <2>3
  <1>8. CheckInv'
    <2>1. \A c \in Client : status'[c] \notin Timed \cup Ended => age'[c] = 0
      BY <1>6 DEF CheckInv
    <2>2. \A c \in Client : age'[c] + CheckTicks <= TimeOut(status'[c]) + CheckTicks
      <3>1. \A c \in Client : TimeOut(status'[c]) \in Nat
        BY <1>4, TimeOutType DEF BenchTypes
      <3>2. QED
        BY <1>1, <1>7, <3>1
    <2>3. QED
      BY <1>1, <1>2, <2>1, <2>2 DEF CheckInv
  <1>9. QED
    BY <1>2, <1>4, <1>5, <1>8

LEMMA RefreshKeeps ==
  ASSUME BenchInv, rateLimitRefresh
  PROVE  BenchInv'
  <1> USE DEF BenchInv
  <1>1. RefreshTicks \in Nat /\ UNCHANGED is_running
    BY BenchClientAssumption DEF rateLimitRefresh
  <1>2. /\ LoopInv(Handlers)' /\ loop' = "top" /\ is_running
        /\ \A t \in Live : t.handler # Global("refresh") => t \in Live'
    BY <1>1, TimerAgain DEF rateLimitRefresh
  <1>3. UNCHANGED <<interest, is_running, status, age, success_count, sum_success, won>>
    BY DEF rateLimitRefresh, clientVars
  <1>4. BenchTypes' /\ EndInv' /\ EventOfStatus'
    BY <1>2, <1>3 DEF BenchTypes, EndInv, EventOfStatus
  <1>5. CheckInv'
    <2>1. PICK t \in Live :
            /\ t.handler = Global("check") /\ t.left <= CheckTicks
            /\ \A c \in Client : age[c] + t.left <= TimeOut(status[c]) + CheckTicks
      BY <1>2 DEF CheckInv
    <2>2. t \in Live'
      BY <1>2, <2>1, HandlersDiffer
    <2>3. QED
      BY <1>3, <2>1, <2>2 DEF CheckInv
  <1>6. QED
    BY <1>2, <1>4, <1>5

LEMMA ExitKeeps ==
  ASSUME BenchInv, threadExit
  PROVE  BenchInv'
  <1> USE DEF BenchInv
  <1>1. /\ RunTimer(Global("exit")) /\ timer' = Fired /\ is_running' = FALSE
        /\ interest' = [c \in Client |-> IF TimedOut(c) THEN "none" ELSE interest[c]]
        /\ sum_success' = sum_success + DealStat({c \in Client : IsValid(c)})
        /\ UNCHANGED <<status, age, success_count, won>>
    BY DEF threadExit
  <1>2. /\ loop' = "top" /\ fired' = {} /\ timer_data' = NoTimer /\ time_out_ms' = time_out_ms
        /\ TimersOK(Fired, NoTimer, Handlers)
    BY <1>1, FiredGone
  <1>3. LoopInv(Handlers)'
    BY <1>1, <1>2, HandlerKeeps
  <1>4. BenchTypes'
    <2>1. DealStat({c \in Client : IsValid(c)}) \in Nat
      BY DealStatIs
    <2>2. QED
      BY <1>1, <2>1 DEF BenchTypes
  <1>5. EndInv' /\ EventOfStatus' /\ CheckInv'
    BY <1>1, <1>2 DEF EndInv, EventOfStatus, CheckInv
  <1>6. QED
    BY <1>3, <1>4, <1>5

LEMMA BenchNextKeeps == BenchInv /\ [BenchNext]_benchVars => BenchInv'
  <1> SUFFICES ASSUME BenchInv, [BenchNext]_benchVars PROVE BenchInv'
    OBVIOUS
  <1>1. CASE (LoopStep \/ WaitEvents) /\ UNCHANGED <<clientVars, temp_rate_limit, sum_success, won>>
    BY <1>1, LoopKeeps
  <1>2. CASE BenchTick
    BY <1>2, TimeKeeps
  <1>3. CASE clientManagerCheck
    BY <1>3, CheckKeeps
  <1>4. CASE rateLimitRefresh
    BY <1>4, RefreshKeeps
  <1>5. CASE threadExit
    BY <1>5, ExitKeeps
  <1>6. ASSUME NEW c \in Client, Deal(c) PROVE BenchInv'
    BY <1>6, DealKeeps
  <1>7. CASE UNCHANGED benchVars
    <2> USE <1>7 DEF benchVars, loopVars, clientVars
    <2>1. LoopInv(Handlers)' /\ Live' = Live
      BY DEF BenchInv, LoopInv, SleepsInTime, Live, Heap, Popped
    <2>2. BenchTypes' /\ EndInv' /\ EventOfStatus' /\ CheckInv'
      BY <2>1 DEF BenchInv, BenchTypes, EndInv, EventOfStatus, CheckInv
    <2>3. QED
      BY <2>1, <2>2 DEF BenchInv
  <1>8. QED
    BY <1>1, <1>2, <1>3, <1>4, <1>5, <1>6, <1>7 DEF BenchNext

LEMMA BenchInvariant == BenchSpec => []BenchInv
  BY BenchInitInv, BenchNextKeeps, PTL DEF BenchSpec

(***************************************************************************)
(* The accounts of the timers hold throughout a run of the first load      *)
(* generator too, and its loop never sleeps past a timer that is to fire   *)
(* (the copies of timer.hpp and eventloop.hpp under src/BenchMark).        *)
(***************************************************************************)
THEOREM BenchTimersKept == BenchSpec => [](TimerAccounts /\ SleepsInTime)
  <1>1. BenchInv => TimerAccounts /\ SleepsInTime
    BY AccountsFollow DEF BenchInv, LoopInv
  <1>2. QED
    BY <1>1, BenchInvariant, PTL

(***************************************************************************)
(* What epoll watches of a client is what its status waits for, whatever   *)
(* order events, the check and the rate limit come in.                     *)
(***************************************************************************)
THEOREM RegistrationsFollow == BenchSpec => []EventOfStatus
  <1>1. BenchInv => EventOfStatus
    BY DEF BenchInv
  <1>2. QED
    BY <1>1, BenchInvariant, PTL

(***************************************************************************)
(* No client stays failed, finished or too slow for longer than a period   *)
(* of the check and what timers may be late by: the timer of the check is  *)
(* always armed, and as near as the oldest client requires.                *)
(***************************************************************************)
THEOREM ReplacedSoon == BenchSpec => []ReplacedInTime
  <1>1. BenchInv => ReplacedInTime
    <2> SUFFICES ASSUME BenchInv, is_running, NEW c \in Client
                 PROVE  age[c] <= TimeOut(status[c]) + CheckTicks + MaxLate
      BY DEF ReplacedInTime
    <2>1. PICK t \in Live : age[c] + t.left <= TimeOut(status[c]) + CheckTicks
      BY DEF BenchInv, CheckInv
    <2>2. t.left \in Int /\ t.left >= -MaxLate
      BY LiveIsArmed DEF BenchInv, LoopInv, ArmedOf, AllOf, TimersOK, TimerStates, TimerSet, Lefts
    <2>3. age[c] \in Nat /\ TimeOut(status[c]) \in Nat /\ CheckTicks \in Nat /\ MaxLate \in Nat
      BY TimeOutType, BenchClientAssumption, EventLoopAssumption DEF BenchInv, BenchTypes
    <2>4. QED
      BY <2>1, <2>2, <2>3
  <1>2. QED
    BY <1>1, BenchInvariant, PTL
-----------------------------------------------------------------------------
(***************************************************************************)
(* The counts.                                                             *)
(***************************************************************************)
(* What the clients of a check have counted goes to the manager's sum. *)
LEMMA CheckMovesCounts ==
  ASSUME BenchInv, clientManagerCheck
  PROVE  sum_success' + DealStat(Client)' = sum_success + DealStat(Client)
  <1> USE DEF BenchInv
  <1>1. PICK Old \in SUBSET Client, Kept \in SUBSET Client : Checks(Old, Kept)
    BY ChecksDo
  <1>2. BenchTypes'
    BY CheckKeeps
  <1> DEFINE Rest == Client \ Old
  <1>3. /\ DealStat(Client)' = SumOver(success_count', Client)
        /\ DealStat(Client) = SumOver(success_count, Client)
        /\ DealStat(Old) = SumOver(success_count, Old)
    BY DealStatIs, DealStatNext
  <1>4. /\ \A c \in Client : success_count[c] \in Nat /\ success_count'[c] \in Nat
        /\ IsFiniteSet(Client) /\ IsFiniteSet(Old) /\ IsFiniteSet(Rest)
    BY <1>2, ClientsFinite DEF BenchTypes
  <1>5. /\ \A c \in Old : success_count'[c] = 0
        /\ \A c \in Rest : success_count'[c] = success_count[c]
    BY <1>1 DEF Checks
  <1>6. SumOver(success_count', Old) = 0
    BY <1>4, <1>5, SumZero
  <1>7. SumOver(success_count', Rest) = SumOver(success_count, Rest)
    BY <1>4, <1>5, SumSame
  <1>8. /\ SumOver(success_count, Client)
             = SumOver(success_count, Old) + SumOver(success_count, Rest)
        /\ SumOver(success_count', Client)
             = SumOver(success_count', Old) + SumOver(success_count', Rest)
    BY <1>4, SumSplit
  <1>9. SumOver(success_count, Old) \in Nat /\ SumOver(success_count, Rest) \in Nat
    BY <1>4, SumType
  <1>10. sum_success' = sum_success + DealStat(Old) /\ sum_success \in Int
    BY <1>1 DEF Checks, BenchTypes
  <1>11. QED
    BY <1>3, <1>6, <1>7, <1>8, <1>9, <1>10

(* An answer that is right is counted, by its client and once. *)
LEMMA DealMovesCounts ==
  ASSUME BenchInv, NEW c \in Client, Deal(c)
  PROVE  /\ won' - DealStat(Client)' = won - DealStat(Client)
         /\ UNCHANGED <<sum_success, is_running>>
  <1> USE DEF BenchInv
  <1>1. PICK s \in ClientStatus, w \in {0, 1} : Moves(c, s, w)
    BY DealMoves
  <1>2. BenchTypes'
    BY DealKeeps
  <1> DEFINE Rest == Client \ {c}
  <1>3. /\ DealStat(Client)' = SumOver(success_count', Client)
        /\ DealStat(Client) = SumOver(success_count, Client)
    BY DealStatIs, DealStatNext
  <1>4. /\ \A d \in Client : success_count[d] \in Nat /\ success_count'[d] \in Nat
        /\ IsFiniteSet(Client) /\ IsFiniteSet(Rest)
    BY <1>2, ClientsFinite DEF BenchTypes
  <1>5. /\ success_count'[c] = success_count[c] + w /\ won' = won + w /\ won \in Nat
        /\ \A d \in Rest : success_count'[d] = success_count[d]
    BY <1>1 DEF Moves, BenchTypes
  <1>6. SumOver(success_count', Rest) = SumOver(success_count, Rest)
    BY <1>4, <1>5, SumSame
  <1>7. /\ SumOver(success_count, Client) = success_count[c] + SumOver(success_count, Rest)
        /\ SumOver(success_count', Client) = success_count'[c] + SumOver(success_count', Rest)
    BY <1>4, SumTake
  <1>8. SumOver(success_count, Rest) \in Nat
    BY <1>4, SumType
  <1>9. UNCHANGED <<sum_success, is_running>>
    BY <1>1 DEF Moves
  <1>10. QED
    BY <1>3, <1>4, <1>5, <1>6, <1>7, <1>8, <1>9

(***************************************************************************)
(* No success is lost or counted twice, for any number of clients, while   *)
(* they come and go: what the manager has added up and what the clients    *)
(* still hold is what has been answered.                                   *)
(***************************************************************************)
THEOREM NoSuccessLost == BenchSpec => []SuccessesKept
  <1>1. BenchInit => SuccessesKept
    <2> SUFFICES ASSUME BenchInit PROVE won = sum_success + DealStat(Client)
      BY DEF SuccessesKept
    <2>1. \A c \in Client : success_count[c] = 0
      BY DEF BenchInit
    <2>2. SumOver(success_count, Client) = 0
      BY <2>1, ClientsFinite, SumZero
    <2>3. DealStat(Client) = SumOver(success_count, Client)
      BY DEF DealStat, SumOver
    <2>4. QED
      BY <2>2, <2>3 DEF BenchInit
  <1>2. BenchInv /\ SuccessesKept /\ [BenchNext]_benchVars => SuccessesKept'
    <2> SUFFICES ASSUME BenchInv, SuccessesKept, [BenchNext]_benchVars, is_running'
                 PROVE  won' = sum_success' + DealStat(Client)'
      BY DEF SuccessesKept
    <2>1. /\ DealStat(Client) \in Nat /\ DealStat(Client)' \in Nat
          /\ won \in Nat /\ won' \in Nat /\ sum_success \in Int /\ sum_success' \in Int
      <3>1. BenchTypes /\ BenchTypes'
        BY BenchNextKeeps DEF BenchInv
      <3>2. DealStat(Client) \in Nat
        BY <3>1, DealStatIs
      <3>3. DealStat(Client)' \in Nat
        <4>1. DealStat(Client)' = SumOver(success_count', Client)
          BY DealStatNext
        <4>2. \A c \in Client : success_count'[c] \in Nat
          BY <3>1 DEF BenchTypes
        <4>3. QED
          BY <4>1, <4>2, ClientsFinite, SumType
      <3>4. QED
        BY <3>1, <3>2, <3>3 DEF BenchTypes
    <2>2. ASSUME NEW c \in Client, Deal(c) PROVE won' = sum_success' + DealStat(Client)'
      <3>1. /\ won' - DealStat(Client)' = won - DealStat(Client)
            /\ UNCHANGED <<sum_success, is_running>>
        BY <2>2, DealMovesCounts
      <3>2. won = sum_success + DealStat(Client)
        BY <3>1 DEF SuccessesKept
      <3>3. QED
        BY <2>1, <3>1, <3>2
    <2>3. CASE clientManagerCheck
      <3>1. UNCHANGED <<won, is_running>>
        BY <2>3 DEF clientManagerCheck
      <3>2. QED
        BY <2>1, <2>3, <3>1, CheckMovesCounts DEF SuccessesKept
    <2>4. CASE UNCHANGED <<success_count, won, sum_success, is_running>>
      <3>1. DealStat(Client) = SumOver(success_count, Client)
        BY DealStatIs DEF BenchInv
      <3>2. QED
        BY <2>4, <3>1, DealStatNext DEF SuccessesKept
    <2>5. CASE (LoopStep \/ WaitEvents) /\ UNCHANGED <<clientVars, temp_rate_limit, sum_success, won>>
      BY <2>4, <2>5
         DEF clientVars, LoopStep, DropCancelled, TakeTimer, LoopExit, WaitTimeOut, WaitEvents,
             EventsDone, RunQuietly
    <2>6. CASE BenchTick \/ rateLimitRefresh \/ UNCHANGED benchVars
      BY <2>4, <2>6 DEF BenchTick, Tick, rateLimitRefresh, benchVars, clientVars, loopVars
    <2>7. CASE threadExit
      BY <2>7 DEF threadExit
    <2>8. QED
      BY <2>2, <2>3, <2>5, <2>6, <2>7 DEF BenchNext
  <1>3. QED
    BY <1>1, <1>2, BenchInvariant, PTL DEF BenchSpec
=============================================================================
