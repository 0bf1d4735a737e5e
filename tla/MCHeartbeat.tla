---------------------------- MODULE MCHeartbeat ----------------------------
(* Instances of Heartbeat for TLC. *)
EXTENDS Heartbeat

CONSTANTS w1, w2, r1, r2
=============================================================================
