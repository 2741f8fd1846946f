------------------------- MODULE SimpleDistributor -------------------------
(***************************************************************************)
(* simple_distributor: a task asks the registering service for a runner    *)
(* and is then requested from that runner, whose answer is passed on.      *)
(*                                                                         *)
(* distribute makes a response promise each time it runs.  The first time  *)
(* it answers a request and gets a promise to its sender.  A retry runs in *)
(* the handler of a RESPONSE: there CAF gives out an invalid promise, that *)
(* drops what it is delivered, and the promise of the first time, that no  *)
(* continuation holds any more, delivers sec::broken_promise.              *)
(*                                                                         *)
(* The registering service and the runners are the environment: they       *)
(* answer in any order, and may fail.                                      *)
(***************************************************************************)
EXTENDS Naturals

CONSTANTS Tasks,
          MaxFailures,           \* bound on the failures of finds and runners
          Configurations,        \* constructor arguments
          NotAsked, NoAnswer,
          RunnerError,           \* the error that a runner answered
          BrokenPromise,         \* sec::broken_promise
          RetryLimitSurpassed    \* lfge_errors::retry_limit_surpassed

Refusals == {RunnerError, BrokenPromise, RetryLimitSurpassed}

ASSUME SimpleDistributorAssumption ==
    /\ MaxFailures \in Nat
    /\ Configurations \subseteq [retryOnFailure : BOOLEAN, maxNumberOfRetries : Nat]
    /\ NotAsked \notin Nat
    /\ NoAnswer \notin Refusals

\* A request that waits for a runner (find) or a result (run), or that was
\* answered with an error not handled yet (findFailed, runFailed), with what
\* its continuations captured: retryCount, and whether the promise is valid.
Requests ==
    [stage : {"find", "run", "findFailed", "runFailed"}, retryCount : Nat, valid : BOOLEAN]

\* No request of the task is waited for.
Idle == [stage |-> "idle", retryCount |-> 0, valid |-> FALSE]

VARIABLES config,      \* the constructor arguments
          request,     \* the request of each task: it never has two
          failures,    \* what is left of MaxFailures
          pieces,      \* history: 1 for a task that was handed in
          hurt,        \* history: tasks for which a find or a runner failed
          treated,     \* history: tasks that a runner has treated
          answer       \* what the client of a task was answered

vars == <<config, request, failures, pieces, hurt, treated, answer>>

retryOnFailure == config.retryOnFailure
maxNumberOfRetries == config.maxNumberOfRetries

-----------------------------------------------------------------------------
Init ==
    /\ config \in Configurations
    /\ request = [t \in Tasks |-> Idle]
    /\ failures = MaxFailures
    /\ pieces = [t \in Tasks |-> NotAsked]
    /\ hurt = {}
    /\ treated = {}
    /\ answer = [t \in Tasks |-> NoAnswer]

\* Deliberately wrong variant: the promise is not handed to the continuations.
DistributeWithoutPromise(t, retryCount, valid) ==
    request' = [request EXCEPT ![t] =
                   [stage |-> "find", retryCount |-> retryCount, valid |-> FALSE]]

\* distribute: the find request with a promise.
Distribute(t, retryCount, valid) ==
    request' = [request EXCEPT ![t] =
                   [stage |-> "find", retryCount |-> retryCount, valid |-> valid]]

Becomes(t, stage) == request' = [request EXCEPT ![t].stage = stage]
Forget(t) == request' = [request EXCEPT ![t] = Idle]

\* response_promise::deliver: an invalid promise drops the answer.
Deliver(t, what) ==
    answer' = [answer EXCEPT ![t] = IF request[t].valid THEN what ELSE @]

\* The result of a task is known by the task.
ResultOf(t) == [i \in 1 .. 1 |-> [task |-> t, index |-> i]]

\* Deliberately wrong variant: the promise is lost when the handler returns.
HandInLosingPromise(t) ==
    /\ pieces[t] = NotAsked
    /\ pieces' = [pieces EXCEPT ![t] = 1]
    /\ Distribute(t, 0, FALSE)
    /\ answer' = [answer EXCEPT ![t] = BrokenPromise]
    /\ UNCHANGED <<config, failures, hurt, treated>>

\* make_behavior: the message handler.
HandIn(t) ==
    /\ pieces[t] = NotAsked
    /\ pieces' = [pieces EXCEPT ![t] = 1]
    /\ Distribute(t, 0, TRUE)
    /\ UNCHANGED <<config, failures, hurt, treated, answer>>

RunnerFound(t) ==
    /\ request[t].stage = "find"
    /\ Becomes(t, "run")
    /\ UNCHANGED <<config, failures, pieces, hurt, treated, answer>>

\* The runner treats the task, and its result is delivered.
ResultReceived(t) ==
    /\ request[t].stage = "run"
    /\ treated' = treated \cup {t}
    /\ Deliver(t, ResultOf(t))
    /\ Forget(t)
    /\ UNCHANGED <<config, failures, pieces, hurt>>

\* The environment: no runner is registered, or the runner fails or dies.
Fails(t) ==
    /\ failures > 0
    /\ failures' = failures - 1
    /\ \/ request[t].stage = "find" /\ Becomes(t, "findFailed")
       \/ request[t].stage = "run" /\ Becomes(t, "runFailed")
    /\ hurt' = hurt \cup {t}
    /\ UNCHANGED <<config, pieces, treated, answer>>

RunnerErrorReceived(t) ==
    /\ request[t].stage = "runFailed"
    /\ Deliver(t, RunnerError)
    /\ Forget(t)
    /\ UNCHANGED <<config, failures, pieces, hurt, treated>>

\* Deliberately wrong variant: one retry too many.
MayRetryOnceMore(t) == retryOnFailure /\ request[t].retryCount <= maxNumberOfRetries

MayRetry(t) == retryOnFailure /\ request[t].retryCount < maxNumberOfRetries

\* Deliberately wrong variant: the retry keeps the promise it replaces.
RetryLeaking(t) ==
    /\ request[t].stage = "findFailed" /\ MayRetry(t)
    /\ Distribute(t, request[t].retryCount + 1, FALSE)
    /\ UNCHANGED <<config, failures, pieces, hurt, treated, answer>>

\* The retry: distribute again, while the old promise is broken.
FindErrorRetried(t) ==
    /\ request[t].stage = "findFailed" /\ MayRetry(t)
    /\ Distribute(t, request[t].retryCount + 1, FALSE)
    /\ Deliver(t, BrokenPromise)
    /\ UNCHANGED <<config, failures, pieces, hurt, treated>>

FindErrorDelivered(t) ==
    /\ request[t].stage = "findFailed" /\ ~ MayRetry(t)
    /\ Deliver(t, RetryLimitSurpassed)
    /\ Forget(t)
    /\ UNCHANGED <<config, failures, pieces, hurt, treated>>

-----------------------------------------------------------------------------
Answered(t) ==
    \/ RunnerFound(t)
    \/ ResultReceived(t)
    \/ RunnerErrorReceived(t)
    \/ FindErrorRetried(t)
    \/ FindErrorDelivered(t)

Next ==
    \/ \E t \in Tasks : HandIn(t)
    \/ \E t \in Tasks : Fails(t)
    \/ \E t \in Tasks : Answered(t)

Spec == Init /\ [][Next]_vars

\* The registering service and the runners answer every request (a runner
\* that dies makes CAF answer an error), and the distributor is scheduled.
FairSpec == Spec /\ \A t \in Tasks : WF_vars(Answered(t))

-----------------------------------------------------------------------------
(***************************************************************************)
(* Properties                                                              *)
(***************************************************************************)

\* The type invariant; the retries stay within maxNumberOfRetries.
TypeOK ==
    /\ config \in Configurations
    /\ request \in [Tasks -> Requests \cup {Idle}]
    /\ \A t \in Tasks : request[t].retryCount <= maxNumberOfRetries
    /\ failures \in 0 .. MaxFailures
    /\ pieces \in [Tasks -> {1, NotAsked}]
    /\ hurt \subseteq Tasks
    /\ treated \subseteq Tasks
    /\ \A t \in Tasks : answer[t] \in {ResultOf(t), NoAnswer} \cup Refusals

\* The distributor is a TaskService, for whatever fails: a client gets one
\* answer, its own result, or an error if a find or the runner failed.
TaskServiceOf == INSTANCE TaskService WITH MaxPieces <- 1, overtaxed <- FALSE
ImplementsTaskService == TaskServiceOf!Spec

\* Every task that is handed in is answered.
EveryTaskAnswered == \A t \in Tasks : pieces[t] # NotAsked ~> answer[t] # NoAnswer

\* Without retries no work is lost: a task is treated only while its client
\* waits for it, so a treated task is answered with its result.
NoWorkIsLost ==
    ~ retryOnFailure => \A t \in treated : answer[t] = ResultOf(t)

\* "Actor which task distributor will reply after treating the task": a
\* treated task is answered with its result, with retries too.
RepliesAfterTreating == \A t \in treated : answer[t] = ResultOf(t)
=============================================================================
