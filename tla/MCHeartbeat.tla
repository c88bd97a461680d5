------------------------------ MODULE MCHeartbeat ------------------------------
(* A small instance of the heartbeat. *)
EXTENDS Heartbeat
=============================================================================
