---------------------- MODULE SimpleDistributor_proofs ----------------------
(***************************************************************************)
(* Proofs about the simple distributor, for any number of tasks and        *)
(* failures and every configuration.                                       *)
(***************************************************************************)
EXTENDS SimpleDistributor, TLAPS

-----------------------------------------------------------------------------
(***************************************************************************)
(* The inductive invariant                                                 *)
(***************************************************************************)

IsAsked(t) == request[t].stage # "idle"

Answers == answer = [t \in Tasks |-> answer[t]]

\* A promise is answered once: a valid one is for a client without an answer,
\* and only a retry leaves a request with an invalid one.
PromiseInOrder(t) ==
    /\ pieces[t] = NotAsked => answer[t] = NoAnswer
    /\ IsAsked(t) => pieces[t] = 1
    /\ IsAsked(t) /\ request[t].valid => answer[t] = NoAnswer
    /\ IsAsked(t) /\ ~ request[t].valid => retryOnFailure
    /\ request[t].stage \in {"findFailed", "runFailed"} => t \in hurt

\* A task is treated when it is not asked for any more.
TreatedInOrder(t) ==
    t \in treated =>
       /\ pieces[t] = 1 /\ ~ IsAsked(t)
       /\ ~ retryOnFailure => answer[t] = ResultOf(t)

IInv ==
    /\ TypeOK
    /\ Answers
    /\ \A t \in Tasks : PromiseInOrder(t) /\ TreatedInOrder(t)

-----------------------------------------------------------------------------
(***************************************************************************)
(* The steps                                                               *)
(***************************************************************************)

LEMMA Limits == TypeOK => maxNumberOfRetries \in Nat
  BY SimpleDistributorAssumption DEF TypeOK, maxNumberOfRetries

\* The request of a task becomes r.
LEMMA RequestEffect ==
    ASSUME TypeOK, NEW t \in Tasks, NEW r \in Requests \cup {Idle},
           r.retryCount <= maxNumberOfRetries,
           request' = [request EXCEPT ![t] = r], UNCHANGED config
    PROVE  /\ request' \in [Tasks -> Requests \cup {Idle}]
           /\ \A u \in Tasks : request'[u].retryCount <= maxNumberOfRetries'
           /\ request'[t] = r
           /\ \A u \in Tasks \ {t} : request'[u] = request[u]
  BY DEF TypeOK, maxNumberOfRetries

\* What every step but the first of a task does to the request and the
\* answer of the task.
RequestOf(t, r) ==
    /\ r \in Requests \cup {Idle}
    /\ r.retryCount <= maxNumberOfRetries
    /\ request' = [request EXCEPT ![t] = r]

LEMMA DistributeEffect ==
    ASSUME NEW t \in Tasks, NEW k \in Nat, k <= maxNumberOfRetries, NEW v \in BOOLEAN,
           Distribute(t, k, v)
    PROVE  RequestOf(t, [stage |-> "find", retryCount |-> k, valid |-> v])
  BY DEF Distribute, RequestOf, Requests

LEMMA BecomesEffect ==
    ASSUME TypeOK, NEW t \in Tasks, IsAsked(t),
           NEW s \in {"find", "run", "findFailed", "runFailed"}, Becomes(t, s)
    PROVE  RequestOf(t, [stage |-> s, retryCount |-> request[t].retryCount,
                         valid |-> request[t].valid])
<1>1. request[t] \in Requests /\ request[t].retryCount <= maxNumberOfRetries
  BY DEF TypeOK, IsAsked, Idle
<1>2. [request[t] EXCEPT !.stage = s] =
         [stage |-> s, retryCount |-> request[t].retryCount, valid |-> request[t].valid]
  BY <1>1 DEF Requests
<1>3. request' = [request EXCEPT ![t] = [request[t] EXCEPT !.stage = s]]
  BY DEF Becomes
<1>4. QED
  BY <1>1, <1>2, <1>3 DEF RequestOf, Requests

LEMMA ForgetEffect ==
    ASSUME TypeOK, NEW t \in Tasks, Forget(t)
    PROVE  RequestOf(t, Idle)
  BY Limits DEF Forget, RequestOf, Idle

\* A promise that is valid delivers, and any other does not.
LEMMA DeliverEffect ==
    ASSUME Answers, NEW t \in Tasks, NEW what, Deliver(t, what)
    PROVE  /\ Answers'
           /\ request[t].valid => answer' = [answer EXCEPT ![t] = what] /\ answer'[t] = what
           /\ ~ request[t].valid => UNCHANGED answer
           /\ \A u \in Tasks \ {t} : answer'[u] = answer[u]
<1>1. CASE request[t].valid
  BY <1>1 DEF Deliver, Answers
<1>2. CASE ~ request[t].valid
  BY <1>2 DEF Deliver, Answers
<1>3. QED
  BY <1>1, <1>2
\* A step of the task t leaves the other tasks in order.
LEMMA OthersInOrder ==
    ASSUME IInv, NEW t \in Tasks, NEW r, RequestOf(t, r), UNCHANGED config,
           Answers', \A u \in Tasks \ {t} : answer'[u] = answer[u],
           answer'[t] \in {ResultOf(t), NoAnswer} \cup Refusals,
           pieces' \in [Tasks -> {1, NotAsked}],
           \A u \in Tasks \ {t} : pieces'[u] = pieces[u],
           failures' \in 0 .. MaxFailures,
           hurt' \in {hurt, hurt \cup {t}}, treated' \in {treated, treated \cup {t}},
           PromiseInOrder(t)', TreatedInOrder(t)'
    PROVE  IInv'
<1>1. /\ request' \in [Tasks -> Requests \cup {Idle}]
      /\ \A u \in Tasks : request'[u].retryCount <= maxNumberOfRetries'
      /\ \A u \in Tasks \ {t} : request'[u] = request[u]
  BY RequestEffect DEF IInv, RequestOf
<1>2. TypeOK'
  BY <1>1 DEF IInv, TypeOK, ResultOf
<1>3. ASSUME NEW u \in Tasks \ {t}
      PROVE  PromiseInOrder(u)' /\ TreatedInOrder(u)'
  BY <1>1, <1>3 DEF IInv, PromiseInOrder, TreatedInOrder, IsAsked, ResultOf, retryOnFailure
<1>4. QED
  BY <1>2, <1>3 DEF IInv

LEMMA AfterHandIn ==
    ASSUME IInv, NEW t \in Tasks, HandIn(t)
    PROVE  IInv'
<1> DEFINE r == [stage |-> "find", retryCount |-> 0, valid |-> TRUE]
<1>1. RequestOf(t, r)
  <2>1. 0 \in Nat /\ 0 <= maxNumberOfRetries /\ TRUE \in BOOLEAN
    BY Limits DEF IInv
  <2>2. Distribute(t, 0, TRUE)
    BY DEF HandIn
  <2>3. QED
    BY <2>1, <2>2, DistributeEffect
<1>2. request'[t] = r /\ UNCHANGED config
  BY <1>1, RequestEffect DEF IInv, RequestOf, HandIn
<1>3. /\ pieces' \in [Tasks -> {1, NotAsked}] /\ pieces'[t] = 1
      /\ \A u \in Tasks \ {t} : pieces'[u] = pieces[u]
      /\ UNCHANGED <<failures, hurt, treated, answer>>
      /\ pieces[t] = NotAsked
  BY DEF HandIn, IInv, TypeOK
<1>4. answer[t] = NoAnswer /\ t \notin treated
  BY <1>3, SimpleDistributorAssumption DEF IInv, PromiseInOrder, TreatedInOrder
<1>5. PromiseInOrder(t)'
  BY <1>2, <1>3, <1>4, SimpleDistributorAssumption DEF PromiseInOrder, IsAsked
<1>6. TreatedInOrder(t)'
  BY <1>3, <1>4 DEF TreatedInOrder
<1>7. /\ Answers' /\ \A u \in Tasks \ {t} : answer'[u] = answer[u]
      /\ answer'[t] \in {ResultOf(t), NoAnswer} \cup Refusals
      /\ failures' \in 0 .. MaxFailures
  BY <1>3 DEF IInv, TypeOK, Answers
<1>8. QED
  BY <1>1, <1>2, <1>3, <1>5, <1>6, <1>7, OthersInOrder

\* A request of t turns into the next one, and its promise with it.
LEMMA AfterMove ==
    ASSUME IInv, NEW t \in Tasks, RunnerFound(t) \/ Fails(t)
    PROVE  IInv'
<1>1. PICK s \in {"find", "run", "findFailed", "runFailed"} :
         Becomes(t, s) /\ (s = "run" \/ t \in hurt')
  BY DEF RunnerFound, Fails
<1> DEFINE r == [stage |-> s, retryCount |-> request[t].retryCount,
                 valid |-> request[t].valid]
<1>2. IsAsked(t)
  BY DEF RunnerFound, Fails, IsAsked
<1>3. RequestOf(t, r)
  BY <1>1, <1>2, BecomesEffect DEF IInv
<1>4. /\ UNCHANGED <<config, pieces, treated, answer>>
      /\ hurt' \in {hurt, hurt \cup {t}}
      /\ failures' \in 0 .. MaxFailures
  BY SimpleDistributorAssumption DEF RunnerFound, Fails, IInv, TypeOK
<1>5. request'[t] = r
  BY <1>3, <1>4, RequestEffect DEF IInv, RequestOf
<1>6. PromiseInOrder(t)'
  BY <1>1, <1>2, <1>4, <1>5 DEF IInv, PromiseInOrder, IsAsked, retryOnFailure
<1>7. TreatedInOrder(t)'
  BY <1>2, <1>4 DEF IInv, TreatedInOrder
<1>8. /\ Answers' /\ \A u \in Tasks \ {t} : answer'[u] = answer[u]
      /\ answer'[t] \in {ResultOf(t), NoAnswer} \cup Refusals
      /\ pieces' \in [Tasks -> {1, NotAsked}]
      /\ \A u \in Tasks \ {t} : pieces'[u] = pieces[u]
  BY <1>4 DEF IInv, TypeOK, Answers
<1>9. QED
  BY <1>3, <1>4, <1>6, <1>7, <1>8, OthersInOrder

\* The request of t ends, with a result or an error for the client.
LEMMA AfterEnd ==
    ASSUME IInv, NEW t \in Tasks, IsAsked(t), Forget(t),
           NEW what, Deliver(t, what), what \in {ResultOf(t)} \cup Refusals,
           treated' = treated \/ (what = ResultOf(t) /\ treated' = treated \cup {t}),
           UNCHANGED <<config, failures, pieces, hurt>>
    PROVE  IInv'
<1>1. /\ pieces[t] = 1
      /\ t \notin treated
      /\ retryOnFailure \/ request[t].valid
  BY DEF IInv, PromiseInOrder, TreatedInOrder
<1>2. RequestOf(t, Idle)
  BY ForgetEffect DEF IInv
<1>3. request'[t] = Idle
  BY <1>2, RequestEffect DEF IInv, RequestOf
<1>4. /\ Answers'
      /\ request[t].valid => answer'[t] = what
      /\ ~ request[t].valid => UNCHANGED answer
      /\ \A u \in Tasks \ {t} : answer'[u] = answer[u]
  BY DeliverEffect DEF IInv
<1>5. answer'[t] \in {ResultOf(t), NoAnswer} \cup Refusals
  BY <1>4 DEF IInv, TypeOK
<1>6. PromiseInOrder(t)'
  BY <1>1, <1>3, SimpleDistributorAssumption DEF PromiseInOrder, IsAsked, Idle
<1>7. TreatedInOrder(t)'
  <2>1. CASE what = ResultOf(t)
    BY <1>1, <1>3, <1>4, <2>1 DEF TreatedInOrder, IsAsked, Idle, retryOnFailure, ResultOf
  <2>2. CASE treated' = treated
    BY <1>1, <2>2 DEF TreatedInOrder
  <2>3. QED
    BY <2>1, <2>2
<1>8. pieces' \in [Tasks -> {1, NotAsked}] /\ failures' \in 0 .. MaxFailures
  BY DEF IInv, TypeOK
<1>9. QED
  BY <1>2, <1>4, <1>5, <1>6, <1>7, <1>8, OthersInOrder

LEMMA AfterRetry ==
    ASSUME IInv, NEW t \in Tasks, FindErrorRetried(t)
    PROVE  IInv'
<1> DEFINE k == request[t].retryCount + 1
           r == [stage |-> "find", retryCount |-> k, valid |-> FALSE]
<1>1. IsAsked(t) /\ retryOnFailure /\ request[t].retryCount < maxNumberOfRetries
  BY DEF FindErrorRetried, MayRetry, IsAsked
<1>2. request[t] \in Requests
  BY <1>1 DEF IInv, TypeOK, IsAsked, Idle
<1>3. k \in Nat /\ k <= maxNumberOfRetries
  BY <1>1, <1>2, Limits DEF IInv, Requests
<1>4. RequestOf(t, r)
  BY <1>3, DistributeEffect DEF FindErrorRetried
<1>5. UNCHANGED <<config, failures, pieces, hurt, treated>> /\ Deliver(t, BrokenPromise)
  BY DEF FindErrorRetried
<1>6. request'[t] = r
  BY <1>4, <1>5, RequestEffect DEF IInv, RequestOf
<1>7. /\ Answers'
      /\ request[t].valid => answer'[t] = BrokenPromise
      /\ ~ request[t].valid => UNCHANGED answer
      /\ \A u \in Tasks \ {t} : answer'[u] = answer[u]
  BY <1>5, DeliverEffect DEF IInv
<1>8. answer'[t] \in {ResultOf(t), NoAnswer} \cup Refusals
  BY <1>7 DEF IInv, TypeOK, Refusals
<1>9. PromiseInOrder(t)'
  BY <1>1, <1>5, <1>6, SimpleDistributorAssumption
     DEF IInv, PromiseInOrder, IsAsked, retryOnFailure
<1>10. TreatedInOrder(t)'
  BY <1>1, <1>5 DEF IInv, TreatedInOrder
<1>11. pieces' \in [Tasks -> {1, NotAsked}] /\ failures' \in 0 .. MaxFailures
  BY <1>5 DEF IInv, TypeOK
<1>12. QED
  BY <1>4, <1>5, <1>7, <1>8, <1>9, <1>10, <1>11, OthersInOrder

LEMMA AfterAnswer ==
    ASSUME IInv, NEW t \in Tasks, Answered(t)
    PROVE  IInv'
<1>1. CASE RunnerFound(t)
  BY <1>1, AfterMove
<1>2. CASE ResultReceived(t)
  BY <1>2, AfterEnd DEF ResultReceived, IsAsked
<1>3. CASE RunnerErrorReceived(t)
  BY <1>3, AfterEnd DEF RunnerErrorReceived, IsAsked, Refusals
<1>4. CASE FindErrorRetried(t)
  BY <1>4, AfterRetry
<1>5. CASE FindErrorDelivered(t)
  BY <1>5, AfterEnd DEF FindErrorDelivered, IsAsked, Refusals
<1>6. QED
  BY <1>1, <1>2, <1>3, <1>4, <1>5 DEF Answered

LEMMA IInvStep == IInv /\ [Next]_vars => IInv'
<1> SUFFICES ASSUME IInv, [Next]_vars
             PROVE  IInv'
  OBVIOUS
<1>1. CASE UNCHANGED vars
  BY <1>1 DEF IInv, TypeOK, Answers, PromiseInOrder, TreatedInOrder, IsAsked, ResultOf,
     maxNumberOfRetries, retryOnFailure, vars
<1>2. QED
  BY <1>1, AfterHandIn, AfterMove, AfterAnswer DEF Next

LEMMA IInvInit == Init => IInv
<1> SUFFICES ASSUME Init
             PROVE  IInv
  OBVIOUS
<1>1. /\ maxNumberOfRetries \in Nat /\ MaxFailures \in Nat /\ NotAsked # 1
  BY SimpleDistributorAssumption DEF Init, maxNumberOfRetries
<1>2. TypeOK
  BY <1>1 DEF Init, TypeOK, Idle
<1>3. Answers
  BY DEF Init, Answers
<1>4. \A t \in Tasks : PromiseInOrder(t) /\ TreatedInOrder(t)
  BY DEF Init, PromiseInOrder, TreatedInOrder, IsAsked, Idle
<1>5. QED
  BY <1>2, <1>3, <1>4 DEF IInv
\* The inductive invariant: promises and treated tasks are in order.
THEOREM SimpleDistributorInvariant == Spec => []IInv
  BY IInvInit, IInvStep, PTL DEF Spec

\* Everything keeps its type, and no request is retried more often than
\* maxNumberOfRetries says (distribute).
THEOREM SimpleDistributorTypeCorrect == Spec => []TypeOK
<1>1. IInv => TypeOK
  BY DEF IInv
<1>2. QED
  BY <1>1, SimpleDistributorInvariant, PTL

\* Without retries a task that a runner treated is answered with its result:
\* the promise of distribute is valid until then.
THEOREM NoWorkIsLostHolds == Spec => []NoWorkIsLost
<1>1. IInv => NoWorkIsLost
  BY DEF IInv, TypeOK, TreatedInOrder, NoWorkIsLost
<1>2. QED
  BY <1>1, SimpleDistributorInvariant, PTL

-----------------------------------------------------------------------------
(***************************************************************************)
(* The distributor implements TaskService                                  *)
(***************************************************************************)

\* What is delivered answers an open task, or nothing at all.
LEMMA Delivers ==
    ASSUME IInv, NEW t \in Tasks, IsAsked(t), NEW what, Deliver(t, what),
           what = ResultOf(t) \/ (t \in hurt /\ what \in Refusals),
           UNCHANGED <<pieces, hurt>>
    PROVE  TaskServiceOf!Next \/ UNCHANGED (TaskServiceOf!vars)
<1>1. pieces[t] = 1 /\ pieces[t] # NotAsked
  BY SimpleDistributorAssumption DEF IInv, PromiseInOrder
<1>2. TaskServiceOf!Aggregate(t) = ResultOf(t)
  BY <1>1 DEF TaskServiceOf!Aggregate, ResultOf
<1>3. /\ request[t].valid => answer' = [answer EXCEPT ![t] = what]
      /\ ~ request[t].valid => UNCHANGED answer
  BY DeliverEffect DEF IInv
<1>4. CASE request[t].valid
  <2>1. TaskServiceOf!IsOpen(t)
    BY <1>1, <1>4 DEF IInv, PromiseInOrder, TaskServiceOf!IsOpen
  <2>2. CASE what = ResultOf(t)
    BY <1>2, <1>3, <1>4, <2>1, <2>2
       DEF TaskServiceOf!Complete, TaskServiceOf!KeepPromise, TaskServiceOf!Next
  <2>3. CASE t \in hurt /\ what \in Refusals
    BY <1>3, <1>4, <2>1, <2>3
       DEF TaskServiceOf!Refuse, TaskServiceOf!KeepPromise, TaskServiceOf!Next
  <2>4. QED
    BY <2>2, <2>3
<1>5. CASE ~ request[t].valid
  BY <1>3, <1>5 DEF TaskServiceOf!vars
<1>6. QED
  BY <1>4, <1>5

LEMMA ImplementsStep == IInv /\ [Next]_vars => [TaskServiceOf!Next]_(TaskServiceOf!vars)
<1> SUFFICES ASSUME IInv, [Next]_vars
             PROVE  TaskServiceOf!Next \/ UNCHANGED (TaskServiceOf!vars)
  OBVIOUS
<1>1. CASE UNCHANGED vars
  BY <1>1 DEF vars, TaskServiceOf!vars
<1>2. ASSUME NEW t \in Tasks, HandIn(t)
      PROVE  TaskServiceOf!Next
  <2>1. TaskServiceOf!Ask(t)
    BY <1>2 DEF HandIn, TaskServiceOf!Ask
  <2>2. QED
    BY <2>1 DEF TaskServiceOf!KeepPromise, TaskServiceOf!Next
<1>3. ASSUME NEW t \in Tasks, Fails(t)
      PROVE  TaskServiceOf!Next
  <2>1. pieces[t] # NotAsked
    BY <1>3, SimpleDistributorAssumption DEF Fails, IInv, PromiseInOrder, IsAsked
  <2>2. TaskServiceOf!PieceFails(t)
    BY <1>3, <2>1 DEF Fails, TaskServiceOf!PieceFails
  <2>3. QED
    BY <2>2 DEF TaskServiceOf!KeepPromise, TaskServiceOf!Next
<1>4. ASSUME NEW t \in Tasks, Answered(t)
      PROVE  TaskServiceOf!Next \/ UNCHANGED (TaskServiceOf!vars)
  <2>1. CASE RunnerFound(t)
    BY <2>1 DEF RunnerFound, TaskServiceOf!vars
  <2>2. CASE ResultReceived(t)
    BY <2>2, Delivers DEF ResultReceived, IsAsked
  <2>3. CASE RunnerErrorReceived(t)
    <3>1. IsAsked(t) /\ t \in hurt /\ RunnerError \in Refusals
      BY <2>3 DEF RunnerErrorReceived, IsAsked, IInv, PromiseInOrder, Refusals
    <3>2. QED
      BY <2>3, <3>1, Delivers DEF RunnerErrorReceived
  <2>4. CASE FindErrorRetried(t)
    <3>1. IsAsked(t) /\ t \in hurt /\ BrokenPromise \in Refusals
      BY <2>4 DEF FindErrorRetried, IsAsked, IInv, PromiseInOrder, Refusals
    <3>2. QED
      BY <2>4, <3>1, Delivers DEF FindErrorRetried
  <2>5. CASE FindErrorDelivered(t)
    <3>1. IsAsked(t) /\ t \in hurt /\ RetryLimitSurpassed \in Refusals
      BY <2>5 DEF FindErrorDelivered, IsAsked, IInv, PromiseInOrder, Refusals
    <3>2. QED
      BY <2>5, <3>1, Delivers DEF FindErrorDelivered
  <2>6. QED
    BY <1>4, <2>1, <2>2, <2>3, <2>4, <2>5 DEF Answered
<1>5. QED
  BY <1>1, <1>2, <1>3, <1>4 DEF Next

LEMMA ImplementsInit == Init => TaskServiceOf!Init
  BY DEF Init, TaskServiceOf!Init

\* The simple distributor is a TaskService, whatever fails and with retries
\* or without: a client gets one answer, its own result, or an error after a
\* find or the runner of its own task failed.
THEOREM SimpleDistributorImplements == Spec => ImplementsTaskService
  BY ImplementsInit, ImplementsStep, SimpleDistributorInvariant, PTL
     DEF Spec, ImplementsTaskService, TaskServiceOf!Spec
=============================================================================
