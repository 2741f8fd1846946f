------------------------ MODULE MCSimpleDistributor ------------------------
(***************************************************************************)
(* The simple distributor on small instances.                              *)
(***************************************************************************)
EXTENDS SimpleDistributor

AllConfigurations == [retryOnFailure : BOOLEAN, maxNumberOfRetries : 0 .. 3]
=============================================================================
