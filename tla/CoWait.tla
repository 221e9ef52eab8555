------------------------------- MODULE CoWait -------------------------------
(***************************************************************************)
(* What the synchronisation primitives of src/Coroutine/sync have in       *)
(* common.  A coroutine whose call has to wait notes its id in the         *)
(* primitive and yields inside the call; whoever resumes it, the call      *)
(* tests its condition again.  Run's scan resumes it unasked; a main       *)
(* program without Run leaves it to the primitive's CoXxxResume, which     *)
(* goes through the registered objects and, for some primitives, through   *)
(* a copy of the ids noted in each.                                        *)
(***************************************************************************)
EXTENDS Schedule

VARIABLES
  wait_in,    \* the call inside which a coroutine has yielded, or "none"
  unvisited,  \* objects CoXxxResume has still to look at: all of them,
              \* unless it is in progress
  visiting,   \* the object whose loop it is in, or "none"
  cid_set     \* the local copy of ids: those it has still to resume

visitVars == <<unvisited, visiting, cid_set>>
waitVars  == <<wait_in, visitVars>>

(* What a call leaves alone, whether it returns or yields. *)
restVars == <<at, batchVars, mainVars, not_idle_count, batch_finish_cid_list, created>>

(* The body is in its own code, not inside a call. *)
Free(c) == InBody(c) /\ wait_in[c] = "none"

(* c calls a primitive; the calls of one body are bounded. *)
Call(c) ==
  /\ Free(c) /\ calls[c] < MaxCalls /\ Disciplined(c)
  /\ calls' = [calls EXCEPT ![c] = @ + 1]

(* c makes the call, or goes round its loop again after a resume. *)
Enter(c, call) ==
  \/ Call(c)
  \/ /\ Running(c) /\ wait_in[c] = call
     /\ UNCHANGED calls

(* The call returns, and the body goes on. *)
GoOn(c) ==
  /\ wait_in' = [wait_in EXCEPT ![c] = "none"]
  /\ UNCHANGED <<state, switchVars>>

YieldIn(c, call) ==
  /\ CoroutineYield(c)
  /\ wait_in' = [wait_in EXCEPT ![c] = call]

(* A call that neither waits nor is bounded. *)
Brief(c) == Free(c) /\ UNCHANGED <<schedVars, waitVars>>

(* What bodies do besides: everything of Schedule, outside the calls. *)
OtherStep(c) == Free(c) /\ CoroutineStep(c) /\ UNCHANGED waitVars
-----------------------------------------------------------------------------
(* CoXxxResume resumes c and is suspended until c yields or returns. *)
Wake(c) ==
  /\ CoroutineResume(c)
  /\ UNCHANGED <<wait_in, calls, restVars>>

(* Its steps without a switch. *)
Look == MainAt("sync") /\ UNCHANGED <<schedVars, wait_in>>

(* It returns when all of Objects have been visited. *)
SyncEnd(Objects) ==
  /\ MainAt("sync") /\ unvisited = {} /\ visiting = "none"
  /\ unvisited' = Objects
  /\ phase' = IF in_run THEN "test" ELSE "main"
  /\ UNCHANGED <<wait_in, visiting, cid_set, idx, todo, in_run, coVars, batchVars,
                 switchVars, not_idle_count, batch_finish_cid_list, created>>

(* The main program's own call of CoXxxResume. *)
ManualSync ==
  /\ MainAt("main") /\ "manual" \in Drivers
  /\ phase' = "sync"
  /\ UNCHANGED <<waitVars, idx, todo, in_run, coVars, batchVars, switchVars,
                 not_idle_count, batch_finish_cid_list, created>>

(* Without Run, the main program resumes the coroutines it knows to be able
   to go on, and leaves those that wait to CoXxxResume. *)
OtherCall ==
  /\ \/ MainCreate \/ Run \/ BatchFinish
     \/ \E c \in Cid : wait_in[c] = "none" /\ (ManualResume(c) \/ BatchStart(c))
  /\ UNCHANGED waitVars

OtherLoop == LoopStep /\ UNCHANGED waitVars

WaitInit(Objects) ==
  /\ Init
  /\ wait_in = [c \in Cid |-> "none"]
  /\ unvisited = Objects /\ visiting = "none" /\ cid_set = {}

Asleep(c, call) == state[c] = "suspend" /\ wait_in[c] = call
=============================================================================
