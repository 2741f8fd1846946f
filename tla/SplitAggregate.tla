--------------------------- MODULE SplitAggregate ---------------------------
(***************************************************************************)
(* split_and_aggregate_distributor: a task is split into subtasks, each of *)
(* them asks the registering service for a runner and is then requested    *)
(* from that runner, and the results are aggregated.                       *)
(*                                                                         *)
(* A task is an element of the list tasks_pending.  The two pairs of       *)
(* continuations of a subtask keep an ITERATOR into that list, and nothing *)
(* tells them when the element is erased, so an element is modelled as a   *)
(* node at an address that can be freed and be used again.  A continuation *)
(* whose node is gone is undefined behaviour: it ends the process, or has  *)
(* no effect, or works on the task that now lives at the address.          *)
(*                                                                         *)
(* The registering service and the runners are the environment: they       *)
(* answer in any order, and may fail MaxFailures times.                    *)
(***************************************************************************)
EXTENDS Naturals, Sequences

CONSTANTS Tasks,
          Nodes,           \* addresses of list elements
          MaxPieces,       \* bound on what splitterFunction returns
          MaxFailures,     \* bound on the failures of finds and runners
          Configurations,  \* constructor arguments
          NotAsked, NoAnswer,
          NoResult,        \* the default-constructed SubtaskResponseType
          Error,           \* the caf::error of the subtask that failed last
          Free             \* no list element at the address

Indices == 1 .. MaxPieces

\* The result of a subtask is known by the subtask it belongs to.
Results == [task : Tasks, index : Indices]

\* The struct task.
TaskNodes ==
    [task : Tasks, result : Seq(Results \cup {NoResult}), retries : Seq(Nat),
     hasRes : Seq(BOOLEAN)]

ASSUME SplitAggregateAssumption ==
    /\ MaxPieces \in Nat
    /\ MaxFailures \in Nat
    /\ Configurations \subseteq
          [retryOnFailure : BOOLEAN, canReplyOnFailedSubtask : BOOLEAN, maxRetryCount : Nat]
    /\ NotAsked \notin Nat
    /\ NoAnswer # Error /\ NoAnswer \notin Seq(Results \cup {NoResult})
    /\ NoResult \notin Results
    /\ Free \notin TaskNodes

\* A request that D waits for: for a runner (find), for a result (run), or
\* one that has been answered with an error not handled yet (failed).  The
\* iterator is the node; of is the task whose subtask was asked for.
Continuations == [stage : {"find", "run", "failed"}, node : Nodes, index : Indices, of : Tasks]

VARIABLES config,          \* the constructor arguments
          pending,         \* tasks_pending: what is at each address
          inflight,        \* how many requests of a kind are not handled yet
          crashed,         \* undefined behaviour has ended the process
          failures,        \* what is left of MaxFailures
          pieces,          \* history: the number of subtasks of a task
          hurt,            \* history: tasks of which a subtask has failed
          answer,          \* what the client of a task was answered
          overtaxed        \* history: more went wrong than the code is written for

vars == <<config, pending, inflight, crashed, failures, pieces, hurt, answer, overtaxed>>

retryOnFailure == config.retryOnFailure
canReplyOnFailedSubtask == config.canReplyOnFailedSubtask
maxRetryCount == config.maxRetryCount

-----------------------------------------------------------------------------
\* With no retry allowed every subtask without a result counts as given up.
Init ==
    /\ config \in Configurations
    /\ pending = [n \in Nodes |-> Free]
    /\ inflight = [c \in Continuations |-> 0]
    /\ crashed = FALSE
    /\ failures = MaxFailures
    /\ pieces = [t \in Tasks |-> NotAsked]
    /\ hurt = {}
    /\ answer = [t \in Tasks |-> NoAnswer]
    /\ overtaxed = (config.retryOnFailure /\ config.maxRetryCount = 0)

\* Deliberately wrong variant: hasRes is not resized.
NewNodeUnsized(t, size) ==
    [task    |-> t,
     result  |-> [i \in 1 .. size |-> NoResult],
     retries |-> [i \in 1 .. size |-> 0],
     hasRes  |-> <<>>]

\* The constructor of task.
NewNode(t, size) ==
    [task    |-> t,
     result  |-> [i \in 1 .. size |-> NoResult],
     retries |-> [i \in 1 .. size |-> 0],
     hasRes  |-> [i \in 1 .. size |-> FALSE]]

Size(node) == DOMAIN node.hasRes

\* Deliberately wrong variant: a task is finished with any result.
HasFinishedWithAny(node) == \E i \in Size(node) : node.hasRes[i]

\* hasFinishedTheTreatment: a subtask on its last retry counts as finished.
HasFinishedTheTreatment(node) ==
    \A i \in Size(node) :
       node.hasRes[i] \/ (retryOnFailure /\ node.retries[i] >= maxRetryCount)

Find(n, i, t) == [stage |-> "find", node |-> n, index |-> i, of |-> t]

\* The iterator of c points to a task, and to one that has such a subtask.
IsValid(c) ==
    /\ pending[c.node] # Free
    /\ c.index \in Size(pending[c.node])

\* c is handled, and a request of c's subtask is sent in its place.
Handled(c) == inflight' = [inflight EXCEPT ![c] = @ - 1]
HandledBySending(c, d) == inflight' = [inflight EXCEPT ![c] = @ - 1, ![d] = @ + 1]

-----------------------------------------------------------------------------
\* make_behavior: the message handler.  The size of what splitterFunction
\* returns is any; no subtask, no request, and no answer ever.
Request(t) ==
    /\ pieces[t] = NotAsked
    /\ \E size \in 0 .. MaxPieces, n \in {m \in Nodes : pending[m] = Free} :
          /\ pieces' = [pieces EXCEPT ![t] = size]
          /\ pending' = [pending EXCEPT ![n] = NewNode(t, size)]
          /\ inflight' = [c \in Continuations |->
                            IF \E i \in 1 .. size : c = Find(n, i, t)
                            THEN inflight[c] + 1 ELSE inflight[c]]
    /\ UNCHANGED <<config, crashed, failures, hurt, answer, overtaxed>>

\* distributeOne, a runner was found: the subtask AT THE ITERATOR is sent.
RunnerFound(c) ==
    /\ c.stage = "find" /\ inflight[c] > 0 /\ IsValid(c)
    /\ HandledBySending(c, [c EXCEPT !.stage = "run", !.of = pending[c.node].task])
    /\ UNCHANGED <<config, pending, crashed, failures, pieces, hurt, answer, overtaxed>>

\* distributeOne, a result: it is stored, and the task may be finished.
ResultReceived(c) ==
    LET node == [pending[c.node] EXCEPT
                    !.result[c.index] = [task |-> c.of, index |-> c.index],
                    !.hasRes[c.index] = TRUE]
    IN  /\ c.stage = "run" /\ inflight[c] > 0 /\ IsValid(c)
        /\ Handled(c)
        /\ IF HasFinishedTheTreatment(node)
           THEN /\ answer' = [answer EXCEPT ![node.task] = node.result]
                /\ pending' = [pending EXCEPT ![c.node] = Free]
           ELSE /\ pending' = [pending EXCEPT ![c.node] = node]
                /\ UNCHANGED answer
        /\ UNCHANGED <<config, crashed, failures, pieces, hurt, overtaxed>>

\* The environment: no runner is registered, or the runner fails or dies.
Fails(c) ==
    /\ c.stage \in {"find", "run"} /\ inflight[c] > 0
    /\ failures > 0
    /\ failures' = failures - 1
    /\ HandledBySending(c, [c EXCEPT !.stage = "failed"])
    /\ hurt' = hurt \cup {c.of}
    /\ UNCHANGED <<config, pending, crashed, pieces, answer, overtaxed>>

MayRetry(node, i) == retryOnFailure /\ node.retries[i] < maxRetryCount

\* Deliberately wrong variant: the retry sends the first subtask again.
RetryFirst(c) ==
    LET node == pending[c.node]
    IN  /\ MayRetry(node, c.index)
        /\ pending' = [pending EXCEPT ![c.node].retries[c.index] = @ + 1]
        /\ HandledBySending(c, Find(c.node, 1, node.task))
        /\ UNCHANGED answer

\* Deliberately wrong variant: the retry is counted, but not sent.
RetryForgotten(c) ==
    /\ MayRetry(pending[c.node], c.index)
    /\ pending' = [pending EXCEPT ![c.node].retries[c.index] = @ + 1]
    /\ Handled(c)
    /\ UNCHANGED answer

\* retryIfNeeded, with a retry ...
Retry(c) ==
    LET node == pending[c.node]
    IN  /\ MayRetry(node, c.index)
        /\ pending' = [pending EXCEPT ![c.node].retries[c.index] = @ + 1]
        /\ HandledBySending(c, Find(c.node, c.index, node.task))
        /\ UNCHANGED answer

\* ... and without: the client is answered the error and the task erased,
\* unless it may be answered without that subtask.
GiveUp(c) ==
    LET node == pending[c.node]
    IN  /\ ~ MayRetry(node, c.index)
        /\ Handled(c)
        /\ IF canReplyOnFailedSubtask
           THEN UNCHANGED <<answer, pending>>
           ELSE /\ answer' = [answer EXCEPT ![node.task] = Error]
                /\ pending' = [pending EXCEPT ![c.node] = Free]

\* No retry is left after this failure, and the task waits for more than the
\* subtask that failed, or may be answered without it.
Overtaxes(c) ==
    LET node == pending[c.node]
    IN  /\ ~ (retryOnFailure /\ node.retries[c.index] + 1 < maxRetryCount)
        /\ \/ canReplyOnFailedSubtask
           \/ \E j \in Size(node) \ {c.index} : ~ node.hasRes[j]

ErrorReceived(c) ==
    /\ c.stage = "failed" /\ inflight[c] > 0 /\ IsValid(c)
    /\ Retry(c) \/ GiveUp(c)
    /\ overtaxed' = (overtaxed \/ Overtaxes(c))
    /\ UNCHANGED <<config, crashed, failures, pieces, hurt>>

\* A continuation with a dangling iterator: it has no effect ...
StrayHasNoEffect(c) ==
    /\ inflight[c] > 0 /\ ~ IsValid(c)
    /\ Handled(c)
    /\ UNCHANGED <<config, pending, crashed, failures, pieces, hurt, answer, overtaxed>>

\* ... or ends the process.
StrayCrashes(c) ==
    /\ inflight[c] > 0 /\ ~ IsValid(c)
    /\ crashed' = TRUE
    /\ UNCHANGED <<config, pending, inflight, failures, pieces, hurt, answer, overtaxed>>

-----------------------------------------------------------------------------
Answered(c) ==
    /\ ~ crashed
    /\ \/ RunnerFound(c)
       \/ ResultReceived(c)
       \/ ErrorReceived(c)
       \/ StrayHasNoEffect(c)
       \/ StrayCrashes(c)

Environment ==
    /\ ~ crashed
    /\ \/ \E t \in Tasks : Request(t)
       \/ \E c \in Continuations : Fails(c)

Next == Environment \/ \E c \in Continuations : Answered(c)

Spec == Init /\ [][Next]_vars

\* The registering service and the runners answer every request (a runner
\* that dies makes CAF answer an error), and the distributor is scheduled.
FairSpec == Spec /\ \A c \in Continuations : WF_vars(Answered(c))

-----------------------------------------------------------------------------
(***************************************************************************)
(* Properties                                                              *)
(***************************************************************************)
HasOneSize(node) ==
    /\ Len(node.hasRes) <= MaxPieces
    /\ Len(node.result) = Len(node.hasRes)
    /\ Len(node.retries) = Len(node.hasRes)

Aggregates == Seq(Results \cup {NoResult})

\* The type invariant: above all, the three vectors of a task have one size.
TypeOK ==
    /\ config \in Configurations
    /\ pending \in [Nodes -> TaskNodes \cup {Free}]
    /\ \A n \in Nodes : pending[n] # Free => HasOneSize(pending[n])
    /\ inflight \in [Continuations -> Nat]
    /\ crashed \in BOOLEAN
    /\ failures \in 0 .. MaxFailures
    /\ pieces \in [Tasks -> (0 .. MaxPieces) \cup {NotAsked}]
    /\ hurt \subseteq Tasks
    /\ answer \in [Tasks -> Aggregates \cup {NoAnswer, Error}]
    /\ overtaxed \in BOOLEAN

\* As long as no failure overtaxed it, the distributor is a TaskService: an
\* aggregate is complete and made of the task's own results, each in its
\* place, and a task is refused only if one of its own subtasks failed.
TaskServiceOf == INSTANCE TaskService WITH Refusals <- {Error}
ImplementsTaskService == TaskServiceOf!Spec

\* Until then every task that has subtasks is answered.
EveryTaskAnswered ==
    \A t \in Tasks :
       pieces[t] \notin {NotAsked, 0} ~> answer[t] # NoAnswer \/ overtaxed

\* Until then no continuation holds the iterator of an erased task: all that
\* tasks_pending.erase can leave behind comes from overtaxing failures.
IteratorsAreValid ==
    ~ overtaxed => ~ crashed /\ \A c \in Continuations : inflight[c] > 0 => IsValid(c)

\* Until then no subtask is worked on twice at a time or once it has a result.
OneRequestPerSubtask ==
    ~ overtaxed =>
       \A c \in Continuations : inflight[c] > 0 =>
          /\ inflight[c] = 1
          /\ ~ pending[c.node].hasRes[c.index]
          /\ \A d \in Continuations :
                inflight[d] > 0 /\ d.node = c.node /\ d.index = c.index => d = c

\* Whatever fails, a subtask of a pending task that has no result is worked
\* on, or was given up under canReplyOnFailedSubtask.
NothingForgotten ==
    \A n \in {m \in Nodes : pending[m] # Free} : \A i \in Size(pending[n]) :
       \/ pending[n].hasRes[i]
       \/ \E c \in Continuations : inflight[c] > 0 /\ c.node = n /\ c.index = i
       \/ canReplyOnFailedSubtask /\ ~ MayRetry(pending[n], i)

\* README: the resource manager aggregates the results.  An aggregate that a
\* client gets holds a result of every subtask, if none was given up.
AggregatesAllResults ==
    \A t \in Tasks :
       answer[t] \in Aggregates => \A i \in DOMAIN answer[t] : answer[t][i] # NoResult

\* The aggregate that a client gets holds results of its own task only.
AggregatesOwnResults ==
    \A t \in Tasks :
       answer[t] \in Aggregates =>
          \A i \in DOMAIN answer[t] : answer[t][i] # NoResult => answer[t][i].task = t
=============================================================================
