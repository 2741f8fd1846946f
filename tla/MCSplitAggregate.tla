-------------------------- MODULE MCSplitAggregate --------------------------
(***************************************************************************)
(* The split and aggregate distributor on small instances.                 *)
(***************************************************************************)
EXTENDS SplitAggregate

Configuration(retry, canReply, limit) ==
    [retryOnFailure |-> retry, canReplyOnFailedSubtask |-> canReply, maxRetryCount |-> limit]

\* Without retryOnFailure the limit is not read.
AllConfigurations ==
    {Configuration(FALSE, canReply, 3) : canReply \in BOOLEAN} \cup
    {Configuration(TRUE, canReply, limit) : canReply \in BOOLEAN, limit \in 0 .. 2}

DefaultConfiguration == {Configuration(FALSE, FALSE, 3)}

RetryingConfiguration == {Configuration(TRUE, FALSE, 2)}
=============================================================================
