--------------------------- MODULE AbstractMutex ---------------------------
(***************************************************************************)
(* What a set of non-reentrant mutexes promises: a mutex has at most one   *)
(* owner, a client asks for one mutex at a time and gets it only while     *)
(* nobody owns it, only the owner releases it, and a client that waits     *)
(* does so until it gets the mutex.  Whom a free mutex goes to is open.    *)
(***************************************************************************)
CONSTANTS
  Clients,
  Mutexes,
  Nobody,   \* the owner of a free mutex
  None      \* what a client waits for when it does not wait

VARIABLES
  owner,    \* the client that owns the mutex, or Nobody
  waits     \* the mutex the client waits for, or None

Init ==
  /\ owner = [m \in Mutexes |-> Nobody]
  /\ waits = [c \in Clients |-> None]

(* A client that finds the mutex owned begins to wait. *)
Request(c, m) ==
  /\ waits[c] = None
  /\ owner[m] \notin {Nobody, c}
  /\ waits' = [waits EXCEPT ![c] = m]
  /\ UNCHANGED owner

(* A client that waits for m, or does not wait at all, gets it. *)
Grant(c, m) ==
  /\ waits[c] \in {m, None}
  /\ owner[m] = Nobody
  /\ owner' = [owner EXCEPT ![m] = c]
  /\ waits' = [waits EXCEPT ![c] = None]

Release(c, m) ==
  /\ waits[c] = None
  /\ owner[m] = c
  /\ owner' = [owner EXCEPT ![m] = Nobody]
  /\ UNCHANGED waits

Next == \E c \in Clients, m \in Mutexes : Request(c, m) \/ Grant(c, m) \/ Release(c, m)

Spec == Init /\ [][Next]_<<owner, waits>>
=============================================================================
