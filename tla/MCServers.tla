----------------------------- MODULE MCServers -----------------------------
(* Two clients; one of them has two requests, of which the second is longer. *)
EXTENDS Servers

RequestsOf == <<2, 1>>
=============================================================================
