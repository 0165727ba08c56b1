--------------------------- MODULE MCConnSessions ---------------------------
(* Instances of ConnSessions for TLC: the lifecycle calls included. *)
EXTENDS ConnSessions

Both == {"pause", "stop"}
Pauses == {"pause"}
Neither == {}
=============================================================================
