-------------------------- MODULE MCDataContainer --------------------------
(***************************************************************************)
(* A data container on a small instance.                                   *)
(***************************************************************************)
EXTENDS DataContainer
=============================================================================
