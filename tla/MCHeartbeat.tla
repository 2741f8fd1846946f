---------------------------- MODULE MCHeartbeat ----------------------------
(***************************************************************************)
(* The heartbeat with a sender that waits less than a pulse, and a receiver*)
(* that waits longer than a pulse, as the registering service and the      *)
(* client program set it.                                                  *)
(***************************************************************************)
EXTENDS Heartbeat
=============================================================================
