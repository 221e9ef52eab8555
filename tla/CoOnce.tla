------------------------------- MODULE CoOnce -------------------------------
(***************************************************************************)
(* CallOnce and SingleFlight of src/Coroutine: of the coroutines that call *)
(* Do on an object, the first runs the function, which may yield, and the  *)
(* others wait until it has returned.  A CallOnce stays finished; a        *)
(* SingleFlight begins anew when CoSingleFlightResume finds it finished.   *)
(***************************************************************************)
EXTENDS CoWait

VARIABLES
  do_state,     \* of each object: "init", "call" or "finish"
  do_waiters,   \* suspend_cid_set of each object
  doing,        \* the object whose function the coroutine is running
  ran           \* how often the function of the object has begun

onceVars == <<do_state, do_waiters, doing, ran>>

Objects == {"once", "flight"}

(* Mutant: the state is set only after the function has returned. *)
DoCallUnmarked(c, o) ==
  /\ Call(c) /\ doing[c] = "none"
  /\ do_state[o] = "init"
  /\ doing' = [doing EXCEPT ![c] = o]
  /\ ran' = [ran EXCEPT ![o] = @ + 1]
  /\ UNCHANGED <<do_state, do_waiters, waitVars, state, switchVars, restVars>>

(* The first caller goes into the function. *)
DoCall(c, o) ==
  /\ Call(c) /\ doing[c] = "none"
  /\ do_state[o] = "init"
  /\ do_state' = [do_state EXCEPT ![o] = "call"]
  /\ doing' = [doing EXCEPT ![c] = o]
  /\ ran' = [ran EXCEPT ![o] = @ + 1]
  /\ UNCHANGED <<do_waiters, waitVars, state, switchVars, restVars>>

(* Mutant: the function's return leaves the state alone. *)
DoReturnUnmarked(c, o) ==
  /\ Brief(c) /\ doing[c] = o
  /\ doing' = [doing EXCEPT ![c] = "none"]
  /\ UNCHANGED <<do_state, do_waiters, ran>>

(* The function has returned. *)
DoReturn(c, o) ==
  /\ Brief(c) /\ doing[c] = o
  /\ do_state' = [do_state EXCEPT ![o] = "finish"]
  /\ doing' = [doing EXCEPT ![c] = "none"]
  /\ UNCHANGED <<do_waiters, ran>>

(* The others: wait, or leave once it is finished.  The first test of the
   state tells "init" apart only when the call begins. *)
DoWait(c, o) ==
  /\ Enter(c, o) /\ doing[c] = "none"
  /\ wait_in[c] = "none" => do_state[o] # "init"
  /\ \/ /\ do_state[o] = "finish"
        /\ do_waiters' = [do_waiters EXCEPT ![o] = @ \ {c}]
        /\ GoOn(c)
     \/ /\ do_state[o] # "finish"
        /\ do_waiters' = [do_waiters EXCEPT ![o] = @ \cup {c}]
        /\ YieldIn(c, o)
  /\ UNCHANGED <<do_state, doing, ran, visitVars, restVars>>

(* A body does not return from inside the function. *)
OnceOther(c) ==
  /\ OtherStep(c)
  /\ state'[c] = "idle" => doing[c] = "none"
  /\ UNCHANGED onceVars
-----------------------------------------------------------------------------
(* Mutant: a flight begins anew when it is looked at, before its waiters have
   been resumed. *)
OnceVisitResets(o) ==
  /\ Look /\ visiting = "none" /\ o \in unvisited
  /\ in_run /\ o = "flight" => "once" \notin unvisited
  /\ unvisited' = unvisited \ {o}
  /\ IF do_state[o] = "finish" /\ do_waiters[o] # {}
     THEN visiting' = o /\ cid_set' = do_waiters[o]
     ELSE UNCHANGED <<visiting, cid_set>>
  /\ do_state' = IF o = "flight" /\ do_state[o] = "finish"
                 THEN [do_state EXCEPT ![o] = "init"] ELSE do_state
  /\ UNCHANGED <<do_waiters, doing, ran>>

(* CoCallOnceResume and CoSingleFlightResume look at an object; a finished
   flight without waiters begins anew. *)
OnceVisit(o) ==
  /\ Look /\ visiting = "none" /\ o \in unvisited
  /\ in_run /\ o = "flight" => "once" \notin unvisited
  /\ unvisited' = unvisited \ {o}
  /\ IF do_state[o] = "finish" /\ do_waiters[o] # {}
     THEN visiting' = o /\ cid_set' = do_waiters[o]
     ELSE UNCHANGED <<visiting, cid_set>>
  /\ do_state' = IF o = "flight" /\ do_state[o] = "finish" /\ do_waiters[o] = {}
                 THEN [do_state EXCEPT ![o] = "init"] ELSE do_state
  /\ UNCHANGED <<do_waiters, doing, ran>>

OnceResume ==
  /\ \E c \in cid_set : Wake(c) /\ cid_set' = cid_set \ {c}
  /\ UNCHANGED <<unvisited, visiting, onceVars>>

(* All waiters have been resumed, and must be gone (the assert). *)
OnceVisited(o) ==
  /\ Look /\ visiting = o /\ cid_set = {}
  /\ do_waiters[o] = {}
  /\ visiting' = "none"
  /\ do_state' = IF o = "flight" THEN [do_state EXCEPT ![o] = "init"] ELSE do_state
  /\ UNCHANGED <<unvisited, cid_set, do_waiters, doing, ran>>
-----------------------------------------------------------------------------
OnceInit ==
  /\ do_state = [o \in Objects |-> "init"]
  /\ do_waiters = [o \in Objects |-> {}]
  /\ doing = [c \in Cid |-> "none"]
  /\ ran = [o \in Objects |-> 0]

OnceThread ==
  \/ (OtherLoop \/ SyncEnd(Objects)) /\ UNCHANGED onceVars
  \/ OnceResume
  \/ \E o \in Objects : OnceVisit(o) \/ OnceVisited(o)
  \/ \E c \in Cid : OnceOther(c)
                    \/ \E o \in Objects : DoCall(c, o) \/ DoReturn(c, o) \/ DoWait(c, o)

OnceCall == (OtherCall \/ ManualSync) /\ UNCHANGED onceVars

OnceNext == OnceThread \/ OnceCall

OnceSpec == WaitInit(Objects) /\ OnceInit /\ [][OnceNext]_<<schedVars, waitVars, onceVars>>
-----------------------------------------------------------------------------
(* One coroutine runs the function while the state says so, nobody does
   otherwise, and a CallOnce runs it once. *)
OneCall ==
  /\ \A o \in Objects :
       Cardinality({c \in Cid : doing[c] = o}) = IF do_state[o] = "call" THEN 1 ELSE 0
  /\ ran["once"] = IF do_state["once"] = "init" THEN 0 ELSE 1

(* The ids noted are those of the coroutines asleep in Do.  Nobody sleeps
   when no call is to come to wake him, and those resumed by the end of a
   visit are gone, as callonce.cpp:24 and singleflight.cpp:25 assert. *)
DoWaitersKept ==
  is_master =>
    \A o \in Objects :
      /\ do_waiters[o] = {c \in Cid : Asleep(c, o)}
      /\ do_waiters[o] # {} => do_state[o] # "init"
      /\ visiting = o => do_waiters[o] = cid_set
=============================================================================
