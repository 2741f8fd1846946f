-------------------------- MODULE MCServiceManager --------------------------
(***************************************************************************)
(* The service manager on small instances.  The manager never looks into   *)
(* an actor handle, so the cfg files give it one actor.                    *)
(***************************************************************************)
EXTENDS ServiceManager
=============================================================================
