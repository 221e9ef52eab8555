---------------------------- MODULE BoundedFifo ----------------------------
(***************************************************************************)
(* What a channel promises: what is sent is received once, in the order of *)
(* the sends, and never more than Size of it is under way.                 *)
(***************************************************************************)
EXTENDS Sequences, Naturals

CONSTANTS Data, Size

VARIABLE queue

Init == queue = <<>>

Send(d) == Len(queue) < Size /\ queue' = Append(queue, d)

Receive == queue # <<>> /\ queue' = Tail(queue)

Next == Receive \/ \E d \in Data : Send(d)

Spec == Init /\ [][Next]_queue
=============================================================================
