--------------------------- MODULE AbstractRWLock ---------------------------
(***************************************************************************)
(* What a read-write lock promises: one writer, or any number of readers,  *)
(* never both; a client gets the lock in a mode it has asked for, and only *)
(* who holds it lets go of it.  Whom a free lock goes to is open.          *)
(***************************************************************************)
CONSTANTS
  Clients,
  Nobody      \* the writer of a lock that nobody writes under

VARIABLES
  writer,     \* the client that holds the lock for writing, or Nobody
  readers,    \* the clients that hold it for reading
  waits       \* "wrlock", "rdlock" or "none"

Init == writer = Nobody /\ readers = {} /\ waits = [c \in Clients |-> "none"]

Request(c, mode) ==
  /\ waits[c] = "none"
  /\ writer # c /\ c \notin readers
  /\ writer # Nobody \/ (mode = "wrlock" /\ readers # {})
  /\ waits' = [waits EXCEPT ![c] = mode]
  /\ UNCHANGED <<writer, readers>>

GrantWrite(c) ==
  /\ waits[c] \in {"none", "wrlock"}
  /\ writer = Nobody /\ readers = {}
  /\ writer' = c
  /\ waits' = [waits EXCEPT ![c] = "none"]
  /\ UNCHANGED readers

GrantRead(c) ==
  /\ waits[c] \in {"none", "rdlock"}
  /\ writer = Nobody /\ c \notin readers
  /\ readers' = readers \cup {c}
  /\ waits' = [waits EXCEPT ![c] = "none"]
  /\ UNCHANGED writer

Release(c) ==
  /\ waits[c] = "none"
  /\ \/ writer = c /\ writer' = Nobody /\ UNCHANGED readers
     \/ c \in readers /\ readers' = readers \ {c} /\ UNCHANGED writer
  /\ UNCHANGED waits

Next == \E c \in Clients :
          \/ GrantWrite(c) \/ GrantRead(c) \/ Release(c)
          \/ \E mode \in {"wrlock", "rdlock"} : Request(c, mode)

Spec == Init /\ [][Next]_<<writer, readers, waits>>
=============================================================================
