------------------------------ MODULE MCHeartbeat ------------------------------
(***************************************************************************)
(* Small instances of Heartbeat for TLC.                                   *)
(***************************************************************************)
EXTENDS Heartbeat

CONSTANTS f1, p1, p2
=============================================================================
