------------------------------- MODULE CoSync -------------------------------
(***************************************************************************)
(* The synchronisation primitives together: a program whose coroutines use *)
(* one kind of them, whichever, under the scheduler of module Schedule.    *)
(***************************************************************************)
EXTENDS CoRWLock, CoCond, CoChannel, CoOnce

VARIABLE primitive   \* the kind of primitive the program uses

syncVars == <<schedVars, waitVars, rwVars, condVars, channelVars, onceVars, primitive>>

ObjectsOf(p) == CASE p = "rwlock"  -> RWLock
                  [] p = "cond"    -> Cond
                  [] p = "channel" -> Semaphores
                  [] p = "once"    -> Objects

SyncInit ==
  /\ primitive \in {"rwlock", "cond", "channel", "once"}
  /\ WaitInit(ObjectsOf(primitive))
  /\ RWInit /\ CondInit /\ ChannelInit /\ OnceInit

SyncThread ==
  /\ \/ primitive = "rwlock" /\ RWThread /\ UNCHANGED <<condVars, channelVars, onceVars>>
     \/ primitive = "cond" /\ CondThread /\ UNCHANGED <<rwVars, channelVars, onceVars>>
     \/ primitive = "channel" /\ ChannelThread /\ UNCHANGED <<rwVars, condVars, onceVars>>
     \/ primitive = "once" /\ OnceThread /\ UNCHANGED <<rwVars, condVars, channelVars>>
  /\ UNCHANGED primitive

SyncCall ==
  /\ OtherCall \/ ManualSync
  /\ UNCHANGED <<rwVars, condVars, channelVars, onceVars, primitive>>

SyncNext == SyncThread \/ SyncCall

(* As in Schedule: the thread runs on once it is inside a call. *)
SyncSpec == SyncInit /\ [][SyncNext]_syncVars /\ WF_syncVars(SyncThread)
-----------------------------------------------------------------------------
(* c can go on as soon as it is resumed. *)
Ready(c) == state[c] # "idle" /\ ~ CondBlocked(c) /\ ~ SemBlocked(c)

(* Run goes on until all coroutines have finished; if it cannot, it comes to
   a point where each one left waits for an item or a unit that is not
   there.  Neither a lock nor a Do ever keeps it from returning. *)
SyncProgress == in_run ~> (~ in_run /\ Idle = Cid) \/ \A c \in Cid : ~ Ready(c)
=============================================================================
