----------------------- MODULE SplitAggregate_proofs -----------------------
(***************************************************************************)
(* Proofs about the split and aggregate distributor, for any number of     *)
(* tasks, subtasks, addresses and failures and every configuration.        *)
(***************************************************************************)
EXTENDS SplitAggregate, SequenceTheorems, TLAPS

-----------------------------------------------------------------------------
(***************************************************************************)
(* The inductive invariant                                                 *)
(***************************************************************************)

\* There is a task at the address n.
Lives(n) == pending[n] # Free

\* Whatever fails: a task is pending at one address at most, with as many
\* subtasks as the splitter made, and as long as its client has no answer.
Bookkeeping ==
    /\ \A t \in Tasks : pieces[t] = NotAsked => answer[t] = NoAnswer
    /\ \A n \in Nodes : Lives(n) =>
          /\ pieces[pending[n].task] = Len(pending[n].hasRes)
          /\ answer[pending[n].task] = NoAnswer
    /\ \A n, m \in Nodes :
          Lives(n) /\ Lives(m) /\ pending[n].task = pending[m].task => n = m

\* The request of c is the only one for a subtask of a pending task that has
\* no result yet.
IsInOrder(c) ==
    /\ inflight[c] = 1
    /\ IsValid(c)
    /\ c.of = pending[c.node].task
    /\ ~ pending[c.node].hasRes[c.index]
    /\ c.stage = "failed" => c.of \in hurt
    /\ \A d \in Continuations :
          inflight[d] > 0 /\ d.node = c.node /\ d.index = c.index => d = c

\* A subtask with a result has its own, and one without has a retry left
\* unless it is the last one without.
NodeInOrder(node) ==
    \A i \in Size(node) :
       /\ node.hasRes[i] => node.result[i] = [task |-> node.task, index |-> i]
       /\ \/ node.hasRes[i]
          \/ retryOnFailure => node.retries[i] < maxRetryCount
          \/ \A j \in Size(node) \ {i} : node.hasRes[j]

\* As long as no failure overtaxed the distributor.
InOrder ==
    ~ overtaxed =>
       /\ ~ crashed
       /\ retryOnFailure => maxRetryCount > 0
       /\ \A c \in Continuations : inflight[c] > 0 => IsInOrder(c)
       /\ \A n \in Nodes : Lives(n) => NodeInOrder(pending[n])

IInv == TypeOK /\ Bookkeeping /\ InOrder

-----------------------------------------------------------------------------
(***************************************************************************)
(* Tasks and requests                                                      *)
(***************************************************************************)

\* ResultReceived stores a result, Retry counts a retry.
Stored(node, t, i) ==
    [node EXCEPT !.result[i] = [task |-> t, index |-> i], !.hasRes[i] = TRUE]
Retried(node, i) == [node EXCEPT !.retries[i] = @ + 1]

IsNode(node) == node \in TaskNodes /\ HasOneSize(node)

LEMMA NodeSize ==
    ASSUME NEW node, IsNode(node)
    PROVE  /\ Len(node.hasRes) \in 0 .. MaxPieces
           /\ Size(node) = 1 .. Len(node.hasRes)
           /\ DOMAIN node.result = Size(node)
           /\ DOMAIN node.retries = Size(node)
           /\ node.task \in Tasks
           /\ \A i \in Size(node) : i \in Nat /\ node.retries[i] \in Nat
           /\ Size(node) \subseteq Indices
           /\ node # Free
<1>1. MaxPieces \in Nat /\ Free \notin TaskNodes
  BY SplitAggregateAssumption
<1>2. /\ node.result \in Seq(Results \cup {NoResult})
      /\ node.retries \in Seq(Nat)
      /\ node.hasRes \in Seq(BOOLEAN)
      /\ node.task \in Tasks
  BY DEF IsNode, TaskNodes
<1>3. /\ Len(node.hasRes) \in Nat
      /\ Len(node.hasRes) <= MaxPieces
      /\ Len(node.result) = Len(node.hasRes)
      /\ Len(node.retries) = Len(node.hasRes)
  BY <1>2, LenProperties DEF IsNode, HasOneSize
<1>4. /\ DOMAIN node.hasRes = 1 .. Len(node.hasRes)
      /\ DOMAIN node.result = 1 .. Len(node.hasRes)
      /\ DOMAIN node.retries = 1 .. Len(node.hasRes)
  BY <1>2, <1>3, LenProperties
<1>5. \A i \in 1 .. Len(node.hasRes) : node.retries[i] \in Nat
  BY <1>2, <1>3, ElementOfSeq
<1>6. QED
  BY <1>1, <1>2, <1>3, <1>4, <1>5 DEF Size, Indices, IsNode

\* A vector of equal elements, as resize makes it.
LEMMA ResizedVector ==
    ASSUME NEW S, NEW v \in S, NEW k \in Nat
    PROVE  /\ [i \in 1 .. k |-> v] \in Seq(S)
           /\ Len([i \in 1 .. k |-> v]) = k
  OBVIOUS

LEMMA NewNodeProperties ==
    ASSUME NEW t \in Tasks, NEW size \in 0 .. MaxPieces
    PROVE  /\ IsNode(NewNode(t, size))
           /\ NewNode(t, size).task = t
           /\ Len(NewNode(t, size).hasRes) = size
           /\ \A i \in 1 .. size : /\ ~ NewNode(t, size).hasRes[i]
                                   /\ NewNode(t, size).retries[i] = 0
<1>1. size \in Nat /\ size <= MaxPieces
  BY SplitAggregateAssumption
<1>2. NewNode(t, size) \in TaskNodes
  BY <1>1, ResizedVector DEF NewNode, TaskNodes
<1>3. HasOneSize(NewNode(t, size)) /\ Len(NewNode(t, size).hasRes) = size
  BY <1>1, ResizedVector DEF NewNode, HasOneSize
<1>4. QED
  BY <1>2, <1>3 DEF NewNode, IsNode

\* A flag that is set in a vector.
LEMMA FlagSet ==
    ASSUME NEW s \in Seq(BOOLEAN), NEW i \in 1 .. Len(s)
    PROVE  /\ [s EXCEPT ![i] = TRUE] \in Seq(BOOLEAN)
           /\ Len([s EXCEPT ![i] = TRUE]) = Len(s)
           /\ [s EXCEPT ![i] = TRUE][i]
           /\ \A j \in 1 .. Len(s) : j # i => [s EXCEPT ![i] = TRUE][j] = s[j]
<1> DEFINE v == [s EXCEPT ![i] = TRUE]
<1>1. Len(s) \in Nat /\ DOMAIN s = 1 .. Len(s)
  BY LenProperties
<1>2. v \in [1 .. Len(s) -> BOOLEAN]
  BY <1>1
<1>3. v \in Seq(BOOLEAN) /\ Len(v) = Len(s)
  BY <1>1, <1>2
<1>4. QED
  BY <1>1, <1>3

\* new is the element node after the result of its subtask i was stored.
HasStored(new, node, t, i) ==
    /\ IsNode(new)
    /\ new.task = node.task
    /\ new.retries = node.retries
    /\ Len(new.hasRes) = Len(node.hasRes)
    /\ new.hasRes[i]
    /\ new.result[i] = [task |-> t, index |-> i]
    /\ \A j \in Size(node) \ {i} : /\ new.hasRes[j] <=> node.hasRes[j]
                                   /\ new.result[j] = node.result[j]

LEMMA StoredProperties ==
    ASSUME NEW node, IsNode(node), NEW t \in Tasks, NEW i \in Size(node)
    PROVE  HasStored(Stored(node, t, i), node, t, i)
<1> DEFINE new    == Stored(node, t, i)
           item   == [task |-> t, index |-> i]
           result == [node.result EXCEPT ![i] = item]
           hasRes == [node.hasRes EXCEPT ![i] = TRUE]
<1>1. /\ i \in 1 .. Len(node.hasRes) /\ i \in Indices
      /\ Len(node.result) = Len(node.hasRes)
  BY NodeSize DEF IsNode, HasOneSize
<1>2. item \in Results \cup {NoResult}
  BY <1>1 DEF Results
<1>3. /\ node.result \in Seq(Results \cup {NoResult})
      /\ node.hasRes \in Seq(BOOLEAN)
  BY DEF IsNode, TaskNodes
<1>4. /\ result \in Seq(Results \cup {NoResult}) /\ Len(result) = Len(node.result)
      /\ \A j \in 1 .. Len(node.result) : result[j] = IF j = i THEN item ELSE node.result[j]
  BY <1>1, <1>2, <1>3, ExceptSeq
<1>5. /\ hasRes \in Seq(BOOLEAN) /\ Len(hasRes) = Len(node.hasRes)
      /\ hasRes[i] /\ \A j \in 1 .. Len(node.hasRes) : j # i => hasRes[j] = node.hasRes[j]
  BY <1>1, <1>3, FlagSet
<1> HIDE DEF item
<1>6. /\ new = [node EXCEPT !.result = result, !.hasRes = hasRes]
      /\ new.task = node.task /\ new.retries = node.retries
      /\ new.result = result /\ new.hasRes = hasRes
  BY DEF Stored, IsNode, TaskNodes, item
<1> HIDE DEF new, result, hasRes
<1>7. new \in TaskNodes
  BY <1>4, <1>5, <1>6 DEF IsNode, TaskNodes
<1>8. HasOneSize(new)
  BY <1>4, <1>5, <1>6 DEF IsNode, HasOneSize
<1>9. Size(node) = 1 .. Len(node.hasRes)
  BY NodeSize
<1>10. QED
  BY <1>1, <1>4, <1>5, <1>6, <1>7, <1>8, <1>9 DEF IsNode, new, item, HasStored

LEMMA RetriedProperties ==
    ASSUME NEW node, IsNode(node), NEW i \in Size(node)
    PROVE  LET new == Retried(node, i)
           IN  /\ IsNode(new)
               /\ new.task = node.task
               /\ new.result = node.result
               /\ new.hasRes = node.hasRes
               /\ new.retries[i] = node.retries[i] + 1
               /\ \A j \in Size(node) \ {i} : new.retries[j] = node.retries[j]
<1> DEFINE new     == Retried(node, i)
           item    == node.retries[i] + 1
           retries == [node.retries EXCEPT ![i] = item]
<1>1. /\ i \in 1 .. Len(node.retries) /\ item \in Nat
      /\ Size(node) = 1 .. Len(node.retries)
  BY NodeSize DEF IsNode, HasOneSize
<1>2. node.retries \in Seq(Nat)
  BY DEF IsNode, TaskNodes
<1>3. /\ retries \in Seq(Nat) /\ Len(retries) = Len(node.retries)
      /\ \A j \in 1 .. Len(node.retries) : retries[j] = IF j = i THEN item ELSE node.retries[j]
  BY <1>1, <1>2, ExceptSeq
<1>4. /\ new = [node EXCEPT !.retries = retries]
      /\ new.task = node.task /\ new.result = node.result
      /\ new.hasRes = node.hasRes /\ new.retries = retries
  BY DEF Retried, IsNode, TaskNodes
<1> HIDE DEF new, retries, item
<1>5. new \in TaskNodes
  BY <1>3, <1>4 DEF IsNode, TaskNodes
<1>6. HasOneSize(new)
  BY <1>3, <1>4 DEF IsNode, HasOneSize
<1>7. QED
  BY <1>1, <1>3, <1>4, <1>5, <1>6 DEF IsNode, new, item
-----------------------------------------------------------------------------
(***************************************************************************)
(* Type correctness                                                        *)
(***************************************************************************)

LEMMA PendingIsNode ==
    ASSUME TypeOK, NEW n \in Nodes, Lives(n)
    PROVE  IsNode(pending[n])
  BY DEF TypeOK, Lives, IsNode

LEMMA ValidIsNode ==
    ASSUME TypeOK, NEW c \in Continuations, IsValid(c)
    PROVE  /\ c.node \in Nodes /\ c.of \in Tasks
           /\ Lives(c.node)
           /\ IsNode(pending[c.node])
           /\ c.index \in Size(pending[c.node])
           /\ pending[c.node].task \in Tasks
<1>1. c.node \in Nodes /\ c.of \in Tasks /\ Lives(c.node) /\ c.index \in Size(pending[c.node])
  BY DEF Continuations, IsValid, Lives
<1>2. QED
  BY <1>1, PendingIsNode, NodeSize

\* What becomes of one address.
LEMMA PendingType ==
    ASSUME TypeOK, NEW n \in Nodes, NEW v, IsNode(v) \/ v = Free,
           pending' = [pending EXCEPT ![n] = v]
    PROVE  /\ pending' \in [Nodes -> TaskNodes \cup {Free}]
           /\ \A m \in Nodes : pending'[m] # Free => HasOneSize(pending'[m])
  BY DEF TypeOK, IsNode

\* What the requests become when c is handled, and d is sent in its place.
Left(c) ==
    /\ inflight' \in [Continuations -> Nat]
    /\ inflight'[c] = inflight[c] - 1
    /\ \A e \in Continuations \ {c} : inflight'[e] = inflight[e]

Moved(c, d) ==
    /\ inflight' \in [Continuations -> Nat]
    /\ inflight'[c] = inflight[c] - 1
    /\ inflight'[d] = inflight[d] + 1
    /\ \A e \in Continuations \ {c, d} : inflight'[e] = inflight[e]

\* d is the request of c's subtask in the given stage.
Follows(d, c, stage, t) ==
    d \in Continuations /\ d.stage = stage /\ d.node = c.node /\ d.index = c.index /\ d.of = t

LEMMA HandledEffect ==
    ASSUME TypeOK, NEW c \in Continuations, inflight[c] > 0, Handled(c)
    PROVE  Left(c)
  BY DEF TypeOK, Handled, Left

LEMMA SendingEffect ==
    ASSUME TypeOK, NEW c \in Continuations, inflight[c] > 0,
           NEW d \in Continuations, c # d, HandledBySending(c, d)
    PROVE  Moved(c, d)
  BY DEF TypeOK, HandledBySending, Moved

LEMMA RunnerFoundEffect ==
    ASSUME TypeOK, NEW c \in Continuations, RunnerFound(c)
    PROVE  \E d \in Continuations :
              Follows(d, c, "run", pending[c.node].task) /\ Moved(c, d)
<1> DEFINE d == [c EXCEPT !.stage = "run", !.of = pending[c.node].task]
<1>1. c.stage = "find" /\ IsValid(c) /\ inflight[c] > 0 /\ HandledBySending(c, d)
  BY DEF RunnerFound
<1>2. pending[c.node].task \in Tasks
  BY <1>1, ValidIsNode
<1>3. Follows(d, c, "run", pending[c.node].task)
  BY <1>2 DEF Continuations, Follows
<1> HIDE DEF d
<1>4. d \in Continuations /\ c # d
  BY <1>1, <1>3 DEF Follows
<1>5. QED
  BY <1>1, <1>3, <1>4, SendingEffect

LEMMA FailsEffect ==
    ASSUME TypeOK, NEW c \in Continuations, Fails(c)
    PROVE  \E d \in Continuations : Follows(d, c, "failed", c.of) /\ Moved(c, d)
<1> DEFINE d == [c EXCEPT !.stage = "failed"]
<1>1. c.stage # "failed" /\ inflight[c] > 0 /\ HandledBySending(c, d)
  BY DEF Fails
<1>2. Follows(d, c, "failed", c.of)
  BY DEF Continuations, Follows
<1> HIDE DEF d
<1>3. d \in Continuations /\ c # d
  BY <1>1, <1>2 DEF Follows
<1>4. QED
  BY <1>1, <1>2, <1>3, SendingEffect

LEMMA RetryEffect ==
    ASSUME TypeOK, NEW c \in Continuations, ErrorReceived(c), Retry(c)
    PROVE  \E d \in Continuations :
              Follows(d, c, "find", pending[c.node].task) /\ Moved(c, d)
<1> DEFINE d == Find(c.node, c.index, pending[c.node].task)
<1>1. /\ c.stage = "failed" /\ IsValid(c) /\ inflight[c] > 0
      /\ HandledBySending(c, d)
  BY DEF ErrorReceived, Retry
<1>2. pending[c.node].task \in Tasks
  BY <1>1, ValidIsNode
<1>3. Follows(d, c, "find", pending[c.node].task)
  BY <1>2 DEF Continuations, Find, Follows
<1> HIDE DEF d
<1>4. d \in Continuations /\ c # d
  BY <1>1, <1>3 DEF Follows
<1>5. QED
  BY <1>1, <1>3, <1>4, SendingEffect

\* An answer that a step gives is an aggregate or an error.
LEMMA AnswerType ==
    ASSUME TypeOK, NEW t \in Tasks, NEW v, v \in Aggregates \cup {Error},
           answer' = [answer EXCEPT ![t] = v]
    PROVE  answer' \in [Tasks -> Aggregates \cup {NoAnswer, Error}]
  BY DEF TypeOK

LEMMA ResultStored ==
    ASSUME TypeOK, NEW c \in Continuations, IsValid(c)
    PROVE  HasStored(Stored(pending[c.node], c.of, c.index), pending[c.node], c.of, c.index)
  BY ValidIsNode, StoredProperties

LEMMA TypeRequest ==
    ASSUME TypeOK, NEW t \in Tasks, Request(t)
    PROVE  TypeOK'
<1>1. PICK size \in 0 .. MaxPieces, n \in {m \in Nodes : pending[m] = Free} :
          /\ pieces' = [pieces EXCEPT ![t] = size]
          /\ pending' = [pending EXCEPT ![n] = NewNode(t, size)]
          /\ inflight' = [c \in Continuations |->
                            IF \E i \in 1 .. size : c = Find(n, i, t)
                            THEN inflight[c] + 1 ELSE inflight[c]]
  BY DEF Request
<1>2. /\ pending' \in [Nodes -> TaskNodes \cup {Free}]
      /\ \A m \in Nodes : pending'[m] # Free => HasOneSize(pending'[m])
  BY <1>1, NewNodeProperties, PendingType
<1>3. inflight' \in [Continuations -> Nat]
  BY <1>1 DEF TypeOK
<1>4. pieces' \in [Tasks -> (0 .. MaxPieces) \cup {NotAsked}]
  BY <1>1 DEF TypeOK
<1>5. QED
  BY <1>2, <1>3, <1>4 DEF TypeOK, Request

LEMMA TypeRunnerFound ==
    ASSUME TypeOK, NEW c \in Continuations, RunnerFound(c)
    PROVE  TypeOK'
<1>1. inflight' \in [Continuations -> Nat]
  BY RunnerFoundEffect DEF Moved
<1>2. QED
  BY <1>1 DEF TypeOK, RunnerFound

LEMMA TypeResultReceived ==
    ASSUME TypeOK, NEW c \in Continuations, ResultReceived(c)
    PROVE  TypeOK'
<1> DEFINE node == Stored(pending[c.node], c.of, c.index)
<1>1. /\ c.node \in Nodes /\ IsNode(node) /\ node.task \in Tasks
  BY ValidIsNode, ResultStored, NodeSize DEF ResultReceived, HasStored
<1>2. node.result \in Aggregates
  BY <1>1 DEF IsNode, TaskNodes, Aggregates
<1>3. inflight' \in [Continuations -> Nat]
  BY HandledEffect DEF ResultReceived, Left
<1>4. /\ \/ /\ answer' = [answer EXCEPT ![node.task] = node.result]
            /\ pending' = [pending EXCEPT ![c.node] = Free]
         \/ /\ pending' = [pending EXCEPT ![c.node] = node]
            /\ UNCHANGED answer
      /\ UNCHANGED <<config, crashed, failures, pieces, hurt, overtaxed>>
  BY DEF ResultReceived, Stored
<1> HIDE DEF node
<1>5. /\ pending' \in [Nodes -> TaskNodes \cup {Free}]
      /\ \A m \in Nodes : pending'[m] # Free => HasOneSize(pending'[m])
  BY <1>1, <1>4, PendingType
<1>6. answer' \in [Tasks -> Aggregates \cup {NoAnswer, Error}]
  BY <1>1, <1>2, <1>4, AnswerType DEF TypeOK
<1>7. QED
  BY <1>3, <1>4, <1>5, <1>6 DEF TypeOK

LEMMA TypeFails ==
    ASSUME TypeOK, NEW c \in Continuations, Fails(c)
    PROVE  TypeOK'
<1>1. inflight' \in [Continuations -> Nat]
  BY FailsEffect DEF Moved
<1>2. c.of \in Tasks /\ MaxFailures \in Nat
  BY SplitAggregateAssumption DEF Continuations
<1>3. hurt' \subseteq Tasks /\ failures' \in 0 .. MaxFailures
  BY <1>2 DEF Fails, TypeOK
<1>4. QED
  BY <1>1, <1>3 DEF TypeOK, Fails

LEMMA TypeErrorReceived ==
    ASSUME TypeOK, NEW c \in Continuations, ErrorReceived(c)
    PROVE  TypeOK'
<1> DEFINE old  == pending[c.node]
           node == Retried(pending[c.node], c.index)
<1>1. c.node \in Nodes /\ IsNode(old) /\ old.task \in Tasks /\ IsNode(node)
  BY ValidIsNode, RetriedProperties DEF ErrorReceived
<1>2. inflight' \in [Continuations -> Nat]
  <2>1. CASE Retry(c)
    BY <2>1, RetryEffect DEF Moved
  <2>2. CASE GiveUp(c)
    BY <2>2, HandledEffect DEF ErrorReceived, GiveUp, Left
  <2>3. QED
    BY <2>1, <2>2 DEF ErrorReceived
<1>3. /\ \/ /\ pending' = [pending EXCEPT ![c.node] = node]
            /\ UNCHANGED answer
         \/ UNCHANGED <<answer, pending>>
         \/ /\ answer' = [answer EXCEPT ![old.task] = Error]
            /\ pending' = [pending EXCEPT ![c.node] = Free]
      /\ UNCHANGED <<config, crashed, failures, pieces, hurt>>
      /\ overtaxed' = (overtaxed \/ Overtaxes(c))
  BY <1>1 DEF ErrorReceived, Retry, GiveUp, Retried, TypeOK
<1> HIDE DEF node, old
<1>4. /\ pending' \in [Nodes -> TaskNodes \cup {Free}]
      /\ \A m \in Nodes : pending'[m] # Free => HasOneSize(pending'[m])
  <2>1. CASE UNCHANGED pending
    BY <2>1 DEF TypeOK
  <2>2. CASE ~ UNCHANGED pending
    BY <1>1, <1>3, <2>2, PendingType
  <2>3. QED
    BY <2>1, <2>2
<1>5. answer' \in [Tasks -> Aggregates \cup {NoAnswer, Error}]
  BY <1>1, <1>3, AnswerType DEF TypeOK
<1>6. overtaxed' \in BOOLEAN
  BY <1>3
<1>7. QED
  BY <1>2, <1>3, <1>4, <1>5, <1>6 DEF TypeOK

LEMMA TypeStray ==
    ASSUME TypeOK, NEW c \in Continuations, StrayHasNoEffect(c) \/ StrayCrashes(c)
    PROVE  TypeOK'
<1>1. CASE StrayHasNoEffect(c)
  <2>1. inflight' \in [Continuations -> Nat]
    BY <1>1, HandledEffect DEF StrayHasNoEffect, Left
  <2>2. QED
    BY <1>1, <2>1 DEF TypeOK, StrayHasNoEffect
<1>2. CASE StrayCrashes(c)
  BY <1>2 DEF TypeOK, StrayCrashes
<1>3. QED
  BY <1>1, <1>2

LEMMA TypeStep == TypeOK /\ [Next]_vars => TypeOK'
<1> SUFFICES ASSUME TypeOK, [Next]_vars
             PROVE  TypeOK'
  OBVIOUS
<1>1. CASE UNCHANGED vars
  BY <1>1 DEF TypeOK, vars
<1>2. CASE \E t \in Tasks : Request(t)
  BY <1>2, TypeRequest
<1>3. CASE \E c \in Continuations : Fails(c)
  BY <1>3, TypeFails
<1>4. CASE \E c \in Continuations : Answered(c)
  BY <1>4, TypeRunnerFound, TypeResultReceived, TypeErrorReceived, TypeStray DEF Answered
<1>5. QED
  BY <1>1, <1>2, <1>3, <1>4 DEF Next, Environment

LEMMA TypeInit == Init => TypeOK
<1> SUFFICES ASSUME Init
             PROVE  TypeOK
  OBVIOUS
<1>1. config \in [retryOnFailure : BOOLEAN, canReplyOnFailedSubtask : BOOLEAN,
                  maxRetryCount : Nat]
  BY SplitAggregateAssumption DEF Init
<1>2. overtaxed \in BOOLEAN
  BY <1>1 DEF Init
<1>3. failures \in 0 .. MaxFailures
  BY SplitAggregateAssumption DEF Init
<1>4. QED
  BY <1>2, <1>3 DEF Init, TypeOK

\* The three vectors of a task keep one size, and everything keeps its type,
\* whatever fails and whatever a dangling iterator does (tasks_pending and
\* the struct task).
THEOREM SplitAggregateTypeCorrect == Spec => []TypeOK
  BY TypeInit, TypeStep, PTL DEF Spec
-----------------------------------------------------------------------------
(***************************************************************************)
(* The books                                                               *)
(***************************************************************************)

LEMMA RequestEffect ==
    ASSUME TypeOK, NEW t \in Tasks, Request(t)
    PROVE  \E size \in 0 .. MaxPieces, n \in Nodes :
              /\ pending[n] = Free
              /\ pending' = [pending EXCEPT ![n] = NewNode(t, size)]
              /\ pieces[t] = NotAsked
              /\ pieces' = [pieces EXCEPT ![t] = size]
              /\ inflight' = [c \in Continuations |->
                                IF \E i \in 1 .. size : c = Find(n, i, t)
                                THEN inflight[c] + 1 ELSE inflight[c]]
              /\ UNCHANGED <<config, crashed, failures, hurt, answer, overtaxed>>
  BY DEF Request

LEMMA ResultReceivedEffect ==
    ASSUME NEW c \in Continuations, ResultReceived(c)
    PROVE  LET node == Stored(pending[c.node], c.of, c.index)
           IN  /\ c.stage = "run" /\ inflight[c] > 0 /\ IsValid(c)
               /\ Handled(c)
               /\ \/ /\ HasFinishedTheTreatment(node)
                     /\ answer' = [answer EXCEPT ![node.task] = node.result]
                     /\ pending' = [pending EXCEPT ![c.node] = Free]
                  \/ /\ ~ HasFinishedTheTreatment(node)
                     /\ pending' = [pending EXCEPT ![c.node] = node]
                     /\ UNCHANGED answer
               /\ UNCHANGED <<config, crashed, failures, pieces, hurt, overtaxed>>
  BY DEF ResultReceived, Stored

\* A subtask is retried, or left alone, or its task is refused.
LEMMA ErrorReceivedEffect ==
    ASSUME TypeOK, NEW c \in Continuations, ErrorReceived(c)
    PROVE  /\ c.stage = "failed" /\ inflight[c] > 0 /\ IsValid(c)
           /\ \/ /\ Retry(c)
                 /\ MayRetry(pending[c.node], c.index)
                 /\ pending' = [pending EXCEPT ![c.node] = Retried(pending[c.node], c.index)]
                 /\ UNCHANGED answer
              \/ /\ ~ MayRetry(pending[c.node], c.index)
                 /\ canReplyOnFailedSubtask
                 /\ Handled(c)
                 /\ UNCHANGED <<answer, pending>>
              \/ /\ ~ MayRetry(pending[c.node], c.index)
                 /\ ~ canReplyOnFailedSubtask
                 /\ Handled(c)
                 /\ answer' = [answer EXCEPT ![pending[c.node].task] = Error]
                 /\ pending' = [pending EXCEPT ![c.node] = Free]
           /\ UNCHANGED <<config, crashed, failures, pieces, hurt>>
           /\ overtaxed' = (overtaxed \/ Overtaxes(c))
<1>1. c.node \in Nodes
  BY DEF Continuations
<1>2. QED
  BY <1>1 DEF ErrorReceived, Retry, GiveUp, Retried, TypeOK

\* An element changes, but stays the same task with as many subtasks.
LEMMA BooksKept ==
    ASSUME TypeOK, Bookkeeping, NEW n \in Nodes, Lives(n), NEW v,
           v.task = pending[n].task, Len(v.hasRes) = Len(pending[n].hasRes),
           pending' = [pending EXCEPT ![n] = v], UNCHANGED <<pieces, answer>>
    PROVE  Bookkeeping'
  BY DEF Bookkeeping, Lives, TypeOK

\* An element is erased when its task is answered.
LEMMA BooksClosed ==
    ASSUME TypeOK, Bookkeeping, NEW n \in Nodes, Lives(n), NEW v,
           answer' = [answer EXCEPT ![pending[n].task] = v],
           pending' = [pending EXCEPT ![n] = Free], UNCHANGED pieces
    PROVE  Bookkeeping'
<1>1. /\ pending[n].task \in Tasks /\ pieces[pending[n].task] # NotAsked
      /\ \A m \in Nodes : Lives(m) => pending[m].task \in Tasks
  <2>1. \A m \in Nodes : Lives(m) => IsNode(pending[m])
    BY PendingIsNode
  <2>2. \A m \in Nodes : Lives(m) => pending[m].task \in Tasks
    BY <2>1, NodeSize
  <2>3. Len(pending[n].hasRes) \in Nat
    BY <2>1, NodeSize, SplitAggregateAssumption
  <2>4. QED
    BY <2>2, <2>3, SplitAggregateAssumption DEF Bookkeeping
<1>2. /\ answer'[pending[n].task] = v
      /\ \A t \in Tasks \ {pending[n].task} : answer'[t] = answer[t]
  BY <1>1 DEF TypeOK
<1>3. pending'[n] = Free /\ \A m \in Nodes \ {n} : pending'[m] = pending[m]
  BY DEF TypeOK
<1>4. \A m \in Nodes : Lives(m)' => m # n /\ Lives(m)
  BY <1>3 DEF Lives
<1>5. \A t \in Tasks : pieces'[t] = NotAsked => answer'[t] = NoAnswer
  BY <1>1, <1>2 DEF Bookkeeping
<1>6. \A m \in Nodes : Lives(m)' =>
         /\ pieces'[pending'[m].task] = Len(pending'[m].hasRes)
         /\ answer'[pending'[m].task] = NoAnswer
  BY <1>1, <1>2, <1>3, <1>4 DEF Bookkeeping
<1>7. \A l, m \in Nodes :
         Lives(l)' /\ Lives(m)' /\ pending'[l].task = pending'[m].task => l = m
  BY <1>3, <1>4 DEF Bookkeeping
<1>8. QED
  BY <1>5, <1>6, <1>7 DEF Bookkeeping

\* A task is handed in: it was not pending, since it was not asked for.
LEMMA BooksOpened ==
    ASSUME TypeOK, Bookkeeping, NEW t \in Tasks, Request(t)
    PROVE  Bookkeeping'
<1>1. PICK size \in 0 .. MaxPieces, n \in Nodes :
          /\ pending[n] = Free
          /\ pending' = [pending EXCEPT ![n] = NewNode(t, size)]
          /\ pieces[t] = NotAsked
          /\ pieces' = [pieces EXCEPT ![t] = size]
          /\ UNCHANGED answer
  BY RequestEffect
<1>2. NewNode(t, size).task = t /\ Len(NewNode(t, size).hasRes) = size
  BY NewNodeProperties
<1>3. /\ pending'[n] = NewNode(t, size)
      /\ \A m \in Nodes \ {n} : pending'[m] = pending[m]
  BY <1>1 DEF TypeOK
<1>4. \A m \in Nodes : Lives(m) => pending[m].task \in Tasks \ {t}
  <2> SUFFICES ASSUME NEW m \in Nodes, Lives(m)
               PROVE  pending[m].task \in Tasks \ {t}
    OBVIOUS
  <2>1. pending[m].task \in Tasks /\ Len(pending[m].hasRes) \in Nat
    BY PendingIsNode, NodeSize, SplitAggregateAssumption
  <2>2. QED
    BY <1>1, <2>1, SplitAggregateAssumption DEF Bookkeeping
<1>5. /\ pieces'[t] = size /\ size \in Nat
      /\ \A u \in Tasks \ {t} : pieces'[u] = pieces[u]
  BY <1>1, SplitAggregateAssumption DEF TypeOK
<1>6. \A u \in Tasks : pieces'[u] = NotAsked => answer'[u] = NoAnswer
  BY <1>1, <1>5, SplitAggregateAssumption DEF Bookkeeping
<1>7. \A m \in Nodes : Lives(m)' =>
         /\ pieces'[pending'[m].task] = Len(pending'[m].hasRes)
         /\ answer'[pending'[m].task] = NoAnswer
  BY <1>1, <1>2, <1>3, <1>4, <1>5 DEF Bookkeeping, Lives
<1>8. \A l, m \in Nodes :
         Lives(l)' /\ Lives(m)' /\ pending'[l].task = pending'[m].task => l = m
  BY <1>2, <1>3, <1>4 DEF Bookkeeping, Lives
<1>9. QED
  BY <1>6, <1>7, <1>8 DEF Bookkeeping

LEMMA BooksStep == TypeOK /\ Bookkeeping /\ [Next]_vars => Bookkeeping'
<1> SUFFICES ASSUME TypeOK, Bookkeeping, [Next]_vars
             PROVE  Bookkeeping'
  OBVIOUS
<1>1. CASE UNCHANGED <<pending, pieces, answer>>
  BY <1>1 DEF Bookkeeping, Lives
<1>2. CASE \E t \in Tasks : Request(t)
  BY <1>2, BooksOpened
<1>3. ASSUME NEW c \in Continuations, ResultReceived(c)
      PROVE  Bookkeeping'
  <2> DEFINE node == Stored(pending[c.node], c.of, c.index)
  <2>1. c.node \in Nodes /\ Lives(c.node)
    BY <1>3, ValidIsNode DEF ResultReceived
  <2>2. node.task = pending[c.node].task /\ Len(node.hasRes) = Len(pending[c.node].hasRes)
    BY <1>3, ValidIsNode, ResultStored DEF ResultReceived, HasStored
  <2>3. /\ \/ /\ answer' = [answer EXCEPT ![node.task] = node.result]
              /\ pending' = [pending EXCEPT ![c.node] = Free]
           \/ /\ pending' = [pending EXCEPT ![c.node] = node]
              /\ UNCHANGED answer
        /\ UNCHANGED pieces
    BY <1>3, ResultReceivedEffect
  <2> HIDE DEF node
  <2>4. QED
    BY <2>1, <2>2, <2>3, BooksKept, BooksClosed
<1>4. ASSUME NEW c \in Continuations, ErrorReceived(c)
      PROVE  Bookkeeping'
  <2> DEFINE node == Retried(pending[c.node], c.index)
  <2>1. c.node \in Nodes /\ Lives(c.node)
    BY <1>4, ValidIsNode DEF ErrorReceived
  <2>2. node.task = pending[c.node].task /\ Len(node.hasRes) = Len(pending[c.node].hasRes)
    BY <1>4, ValidIsNode, RetriedProperties DEF ErrorReceived
  <2>3. /\ \/ /\ pending' = [pending EXCEPT ![c.node] = node]
              /\ UNCHANGED answer
           \/ UNCHANGED <<answer, pending>>
           \/ /\ answer' = [answer EXCEPT ![pending[c.node].task] = Error]
              /\ pending' = [pending EXCEPT ![c.node] = Free]
        /\ UNCHANGED pieces
    BY <1>4, ErrorReceivedEffect
  <2> HIDE DEF node
  <2>4. QED
    BY <1>1, <2>1, <2>2, <2>3, BooksKept, BooksClosed
<1>5. CASE \E c \in Continuations : Fails(c) \/ RunnerFound(c) \/ StrayHasNoEffect(c) \/ StrayCrashes(c)
  BY <1>1, <1>5 DEF Fails, RunnerFound, StrayHasNoEffect, StrayCrashes
<1>6. QED
  BY <1>1, <1>2, <1>3, <1>4, <1>5 DEF Next, Environment, Answered, vars
-----------------------------------------------------------------------------
(***************************************************************************)
(* No subtask is forgotten                                                 *)
(***************************************************************************)

\* A request is under way for the subtask i of the task at n.
Requested(n, i) ==
    \E c \in Continuations : inflight[c] > 0 /\ c.node = n /\ c.index = i

Remembered(n, i) ==
    \/ pending[n].hasRes[i]
    \/ Requested(n, i)
    \/ canReplyOnFailedSubtask /\ ~ MayRetry(pending[n], i)

LEMMA NothingForgottenIs ==
    NothingForgotten <=>
       \A n \in Nodes : Lives(n) => \A i \in Size(pending[n]) : Remembered(n, i)
  BY DEF NothingForgotten, Remembered, Requested, Lives

LEMMA RequestedAfterMove ==
    ASSUME TypeOK, NEW c \in Continuations, NEW d \in Continuations,
           NEW stage, NEW t, Follows(d, c, stage, t), Moved(c, d),
           NEW n, NEW i, Requested(n, i)
    PROVE  Requested(n, i)'
<1>1. PICK e \in Continuations : inflight[e] > 0 /\ e.node = n /\ e.index = i
  BY DEF Requested
<1>2. inflight[d] \in Nat
  BY DEF TypeOK
<1>3. CASE e \in {c, d}
  BY <1>1, <1>2, <1>3 DEF Follows, Moved, Requested
<1>4. CASE e \notin {c, d}
  BY <1>1, <1>4 DEF Moved, Requested
<1>5. QED
  BY <1>3, <1>4

LEMMA RequestedAfterLeft ==
    ASSUME NEW c \in Continuations, Left(c),
           NEW n, NEW i, Requested(n, i), c.node # n \/ c.index # i
    PROVE  Requested(n, i)'
  BY DEF Left, Requested

LEMMA RememberedAfterRequest ==
    ASSUME TypeOK, NothingForgotten, NEW t \in Tasks, Request(t)
    PROVE  NothingForgotten'
<1>1. PICK size \in 0 .. MaxPieces, n \in Nodes :
          /\ pending' = [pending EXCEPT ![n] = NewNode(t, size)]
          /\ inflight' = [c \in Continuations |->
                            IF \E i \in 1 .. size : c = Find(n, i, t)
                            THEN inflight[c] + 1 ELSE inflight[c]]
          /\ UNCHANGED config
  BY RequestEffect
<1>2. /\ pending'[n] = NewNode(t, size)
      /\ \A m \in Nodes \ {n} : pending'[m] = pending[m]
  BY <1>1 DEF TypeOK
<1>3. inflight \in [Continuations -> Nat]
  BY DEF TypeOK
<1>4. Size(NewNode(t, size)) = 1 .. size
  BY NewNodeProperties, NodeSize
<1>5. ASSUME NEW i \in 1 .. size
      PROVE  Requested(n, i)'
  <2> DEFINE c == Find(n, i, t)
  <2>1. c \in Continuations /\ c.node = n /\ c.index = i
    BY SplitAggregateAssumption DEF Find, Continuations, Indices
  <2>2. inflight'[c] = inflight[c] + 1 /\ inflight[c] \in Nat
    BY <1>1, <1>3, <2>1
  <2> HIDE DEF c
  <2>3. QED
    BY <2>1, <2>2 DEF Requested
<1>6. ASSUME NEW m \in Nodes, NEW i, Requested(m, i)
      PROVE  Requested(m, i)'
  BY <1>1, <1>3, <1>6 DEF Requested
<1>7. ASSUME NEW m \in Nodes \ {n}, Lives(m)', NEW i \in Size(pending'[m])
      PROVE  Remembered(m, i)'
  <2>1. Remembered(m, i)
    BY <1>2, <1>7, NothingForgottenIs DEF Lives
  <2>2. QED
    BY <1>1, <1>2, <1>6, <2>1 DEF Remembered, MayRetry, retryOnFailure, maxRetryCount,
       canReplyOnFailedSubtask
<1>8. \A m \in Nodes : Lives(m)' => \A i \in Size(pending'[m]) : Remembered(m, i)'
  BY <1>2, <1>4, <1>5, <1>7 DEF Remembered
<1>9. QED
  BY <1>8, NothingForgottenIs DEF NothingForgotten, Remembered, Requested, Lives

\* Requests move on, and no task changes.
LEMMA RememberedAfterMove ==
    ASSUME TypeOK, NothingForgotten, NEW c \in Continuations, NEW d \in Continuations,
           NEW stage, NEW t, Follows(d, c, stage, t), Moved(c, d),
           UNCHANGED <<config, pending>>
    PROVE  NothingForgotten'
<1>1. \A n, i : Requested(n, i) => Requested(n, i)'
  BY RequestedAfterMove
<1>2. QED
  BY <1>1 DEF NothingForgotten, Requested, MayRetry, retryOnFailure, maxRetryCount,
     canReplyOnFailedSubtask

LEMMA RememberedAfterResult ==
    ASSUME TypeOK, NothingForgotten, NEW c \in Continuations, ResultReceived(c)
    PROVE  NothingForgotten'
<1> DEFINE old  == pending[c.node]
           node == Stored(pending[c.node], c.of, c.index)
<1>1. /\ c.node \in Nodes /\ Lives(c.node) /\ c.index \in Size(old)
      /\ c.of \in Tasks /\ IsNode(old)
  BY ValidIsNode DEF ResultReceived
<1>2. /\ IsNode(node) /\ node.hasRes[c.index] /\ node.retries = old.retries
      /\ Size(node) = Size(old)
      /\ \A j \in Size(old) \ {c.index} : node.hasRes[j] <=> old.hasRes[j]
  <2>1. /\ IsNode(node) /\ node.hasRes[c.index] /\ node.retries = old.retries
        /\ Len(node.hasRes) = Len(old.hasRes)
        /\ \A j \in Size(old) \ {c.index} : node.hasRes[j] <=> old.hasRes[j]
    <3>1. HasStored(node, old, c.of, c.index)
      BY ResultStored DEF ResultReceived
    <3> HIDE DEF node, old
    <3>2. QED
      BY <3>1 DEF HasStored
  <2>2. Size(node) = Size(old)
    BY <1>1, <2>1, NodeSize
  <2>3. QED
    BY <2>1, <2>2
<1>3. /\ pending'[c.node] \in {Free, node}
      /\ \A m \in Nodes \ {c.node} : pending'[m] = pending[m]
      /\ UNCHANGED config
  BY <1>1, ResultReceivedEffect DEF TypeOK
<1> HIDE DEF node
<1>4. Left(c)
  BY ResultReceivedEffect, HandledEffect
<1>5. ASSUME NEW n \in Nodes, Lives(n)', NEW i \in Size(pending'[n])
      PROVE  Remembered(n, i)'
  <2>1. CASE n = c.node /\ i = c.index
    BY <1>2, <1>3, <1>5, <2>1 DEF Remembered, Lives
  <2>2. CASE n # c.node \/ i # c.index
    <3>1. Lives(n) /\ i \in Size(pending[n])
      BY <1>1, <1>2, <1>3, <1>5 DEF Lives
    <3>2. Remembered(n, i)
      BY <3>1, NothingForgottenIs
    <3>3. Requested(n, i) => Requested(n, i)'
      BY <1>4, <2>2, RequestedAfterLeft
    <3>4. /\ pending'[n].hasRes[i] <=> pending[n].hasRes[i]
          /\ pending'[n].retries = pending[n].retries
      BY <1>2, <1>3, <1>5, <2>2, <3>1 DEF Lives
    <3>5. QED
      BY <1>3, <3>2, <3>3, <3>4 DEF Remembered, MayRetry, retryOnFailure, maxRetryCount,
         canReplyOnFailedSubtask
  <2>3. QED
    BY <2>1, <2>2
<1>6. QED
  BY <1>5 DEF NothingForgotten, Remembered, Requested, Lives

LEMMA RememberedAfterError ==
    ASSUME TypeOK, NothingForgotten, NEW c \in Continuations, ErrorReceived(c)
    PROVE  NothingForgotten'
<1> DEFINE old  == pending[c.node]
           node == Retried(pending[c.node], c.index)
<1>1. /\ c.node \in Nodes /\ Lives(c.node) /\ c.index \in Size(old) /\ IsNode(old)
      /\ inflight[c] > 0
  BY ValidIsNode, ErrorReceivedEffect
<1>2. UNCHANGED config
  BY ErrorReceivedEffect
<1>3. CASE Retry(c) /\ pending' = [pending EXCEPT ![c.node] = node]
  <2>1. /\ node.hasRes = old.hasRes
        /\ \A j \in Size(old) \ {c.index} : node.retries[j] = old.retries[j]
    BY <1>1, RetriedProperties
  <2>2. /\ pending'[c.node] = node
        /\ \A m \in Nodes \ {c.node} : pending'[m] = pending[m]
    BY <1>1, <1>3 DEF TypeOK
  <2> HIDE DEF node
  <2>3. PICK d \in Continuations : Follows(d, c, "find", old.task) /\ Moved(c, d)
    BY <1>3, RetryEffect
  <2>4. \A n, i : Requested(n, i) => Requested(n, i)'
    BY <2>3, RequestedAfterMove
  <2>5. ASSUME NEW n \in Nodes, Lives(n)', NEW i \in Size(pending'[n])
        PROVE  Remembered(n, i)'
    <3>1. Lives(n) /\ i \in Size(pending[n])
      BY <1>1, <2>1, <2>2, <2>5 DEF Lives, Size
    <3>2. Remembered(n, i) /\ pending'[n].hasRes = pending[n].hasRes
      BY <2>1, <2>2, <3>1, NothingForgottenIs
    <3>3. CASE n = c.node /\ i = c.index
      <4>1. Requested(n, i)
        BY <1>1, <3>3 DEF Requested
      <4>2. QED
        BY <2>4, <4>1 DEF Remembered
    <3>4. CASE n # c.node \/ i # c.index
      <4>1. pending'[n].retries[i] = pending[n].retries[i]
        BY <2>1, <2>2, <3>1, <3>4
      <4>2. QED
        BY <1>2, <2>4, <3>2, <4>1 DEF Remembered, MayRetry, retryOnFailure, maxRetryCount,
           canReplyOnFailedSubtask
    <3>5. QED
      BY <3>3, <3>4
  <2>6. QED
    BY <2>5 DEF NothingForgotten, Remembered, Requested, Lives
<1>4. CASE /\ ~ MayRetry(old, c.index) /\ Handled(c)
           /\ \/ canReplyOnFailedSubtask /\ UNCHANGED pending
              \/ pending' = [pending EXCEPT ![c.node] = Free]
  <2>1. /\ pending'[c.node] = Free \/ (canReplyOnFailedSubtask /\ UNCHANGED pending)
        /\ \A m \in Nodes \ {c.node} : pending'[m] = pending[m]
    BY <1>1, <1>4 DEF TypeOK
  <2>2. Left(c)
    BY <1>1, <1>4, HandledEffect
  <2>3. ASSUME NEW n \in Nodes, Lives(n)', NEW i \in Size(pending'[n])
        PROVE  Remembered(n, i)'
    <3>1. /\ pending'[n] = pending[n] /\ Lives(n)
          /\ n = c.node => canReplyOnFailedSubtask
      BY <2>1, <2>3 DEF Lives
    <3>2. Remembered(n, i)
      BY <2>3, <3>1, NothingForgottenIs
    <3>3. CASE n = c.node /\ i = c.index
      BY <1>2, <1>4, <3>1, <3>3 DEF Remembered, MayRetry, retryOnFailure, maxRetryCount,
         canReplyOnFailedSubtask
    <3>4. CASE n # c.node \/ i # c.index
      <4>1. Requested(n, i) => Requested(n, i)'
        BY <2>2, <3>4, RequestedAfterLeft
      <4>2. QED
        BY <1>2, <3>1, <3>2, <4>1 DEF Remembered, MayRetry, retryOnFailure, maxRetryCount,
           canReplyOnFailedSubtask
    <3>5. QED
      BY <3>3, <3>4
  <2>4. QED
    BY <2>3 DEF NothingForgotten, Remembered, Requested, Lives
<1>5. QED
  BY <1>3, <1>4, ErrorReceivedEffect

\* The request whose iterator dangles is for no subtask of a pending task.
LEMMA RememberedAfterStray ==
    ASSUME TypeOK, NothingForgotten, NEW c \in Continuations, StrayHasNoEffect(c)
    PROVE  NothingForgotten'
<1>1. Left(c)
  BY HandledEffect DEF StrayHasNoEffect
<1>2. UNCHANGED <<config, pending>> /\ ~ IsValid(c)
  BY DEF StrayHasNoEffect
<1>3. ASSUME NEW n \in Nodes, Lives(n)', NEW i \in Size(pending'[n])
      PROVE  Remembered(n, i)'
  <2>1. Lives(n) /\ i \in Size(pending[n]) /\ Remembered(n, i)
    BY <1>2, <1>3, NothingForgottenIs DEF Lives
  <2>2. c.node # n \/ c.index # i
    BY <1>2, <2>1 DEF IsValid, Lives
  <2>3. Requested(n, i) => Requested(n, i)'
    BY <1>1, <2>2, RequestedAfterLeft
  <2>4. QED
    BY <1>2, <2>1, <2>3 DEF Remembered, MayRetry, retryOnFailure, maxRetryCount,
       canReplyOnFailedSubtask
<1>4. QED
  BY <1>3 DEF NothingForgotten, Remembered, Requested, Lives

LEMMA NothingForgottenStep == TypeOK /\ NothingForgotten /\ [Next]_vars => NothingForgotten'
<1> SUFFICES ASSUME TypeOK, NothingForgotten, [Next]_vars
             PROVE  NothingForgotten'
  OBVIOUS
<1>1. CASE UNCHANGED <<config, pending, inflight>>
  BY <1>1 DEF NothingForgotten, MayRetry, retryOnFailure, maxRetryCount,
     canReplyOnFailedSubtask
<1>2. ASSUME NEW c \in Continuations, RunnerFound(c)
      PROVE  NothingForgotten'
  <2>1. UNCHANGED <<config, pending>>
    BY <1>2 DEF RunnerFound
  <2>2. QED
    BY <1>2, <2>1, RunnerFoundEffect, RememberedAfterMove
<1>3. ASSUME NEW c \in Continuations, Fails(c)
      PROVE  NothingForgotten'
  <2>1. UNCHANGED <<config, pending>>
    BY <1>3 DEF Fails
  <2>2. QED
    BY <1>3, <2>1, FailsEffect, RememberedAfterMove
<1>4. CASE \E c \in Continuations : StrayCrashes(c)
  BY <1>1, <1>4 DEF StrayCrashes
<1>5. QED
  BY <1>1, <1>2, <1>3, <1>4, RememberedAfterRequest, RememberedAfterResult,
     RememberedAfterError, RememberedAfterStray DEF Next, Environment, Answered, vars

LEMMA NothingForgottenInit == Init => NothingForgotten
  BY DEF Init, NothingForgotten

\* Whatever fails and whatever a dangling iterator does, a subtask of a
\* pending task without a result is worked on, or was given up as
\* canReplyOnFailedSubtask says (distributeOne and retryIfNeeded).
THEOREM NothingForgottenHolds == Spec => []NothingForgotten
  BY TypeInit, TypeStep, NothingForgottenInit, NothingForgottenStep, PTL DEF Spec

-----------------------------------------------------------------------------
(***************************************************************************)
(* Whoever waits has a pending task                                        *)
(***************************************************************************)
IsPending(t) == \E n \in Nodes : Lives(n) /\ pending[n].task = t

IsUnfinished(n) == \E i \in Size(pending[n]) : ~ pending[n].hasRes[i]

\* A task is erased only with an answer, and finished as soon as nothing is missing.
Pends ==
    /\ \A t \in Tasks : pieces[t] # NotAsked /\ answer[t] = NoAnswer => IsPending(t)
    /\ \A n \in Nodes : Lives(n) /\ Len(pending[n].hasRes) # 0 => IsUnfinished(n)

LEMMA PendsOpened ==
    ASSUME TypeOK, Pends, NEW t \in Tasks, Request(t)
    PROVE  Pends'
<1>1. PICK size \in 0 .. MaxPieces, n \in Nodes :
          /\ pending[n] = Free
          /\ pending' = [pending EXCEPT ![n] = NewNode(t, size)]
          /\ pieces' = [pieces EXCEPT ![t] = size]
          /\ UNCHANGED answer
  BY RequestEffect
<1> DEFINE node == NewNode(t, size)
<1>2. IsNode(node) /\ node.task = t /\ Len(node.hasRes) = size /\ size \in Nat
      /\ \A i \in Size(node) : ~ node.hasRes[i]
  BY NewNodeProperties, SplitAggregateAssumption DEF NewNode, Size
<1> HIDE DEF node
<1>3. /\ pending'[n] = node /\ Lives(n)'
      /\ \A m \in Nodes \ {n} : pending'[m] = pending[m]
      /\ \A m \in Nodes : Lives(m) => m # n /\ Lives(m)' /\ pending'[m] = pending[m]
  <2>1. /\ pending'[n] = node
        /\ \A m \in Nodes \ {n} : pending'[m] = pending[m]
    BY <1>1 DEF TypeOK, node
  <2>2. node # Free
    BY <1>2, SplitAggregateAssumption DEF IsNode
  <2>3. QED
    BY <1>1, <2>1, <2>2 DEF Lives
<1>4. ASSUME NEW u \in Tasks, pieces'[u] # NotAsked, answer'[u] = NoAnswer
      PROVE  IsPending(u)'
  <2>1. CASE u = t
    BY <1>2, <1>3, <2>1 DEF IsPending
  <2>2. CASE u # t
    <3>1. pieces[u] # NotAsked /\ answer[u] = NoAnswer
      BY <1>1, <1>4, <2>2 DEF TypeOK
    <3>2. QED
      BY <1>3, <3>1 DEF Pends, IsPending
  <2>3. QED
    BY <2>1, <2>2
<1>5. ASSUME NEW m \in Nodes, Lives(m)', Len(pending'[m].hasRes) # 0
      PROVE  IsUnfinished(m)'
  <2>1. CASE m = n
    <3>1. 1 \in Size(node)
      BY <1>2, <1>3, <1>5, <2>1, NodeSize
    <3>2. QED
      BY <1>2, <1>3, <2>1, <3>1 DEF IsUnfinished, Size
  <2>2. CASE m # n
    BY <1>3, <1>5, <2>2 DEF Pends, IsUnfinished, Lives, Size
  <2>3. QED
    BY <2>1, <2>2
<1>6. QED
  BY <1>4, <1>5 DEF Pends

\* An element changes, and still misses a subtask.
LEMMA PendsKept ==
    ASSUME TypeOK, Pends, NEW n \in Nodes, Lives(n), NEW v, v # Free,
           v.task = pending[n].task,
           Len(v.hasRes) # 0 => \E i \in Size(v) : ~ v.hasRes[i],
           pending' = [pending EXCEPT ![n] = v], UNCHANGED <<pieces, answer>>
    PROVE  Pends'
<1>1. pending'[n] = v /\ \A m \in Nodes \ {n} : pending'[m] = pending[m]
  BY DEF TypeOK
<1>2. \A m \in Nodes : Lives(m) => Lives(m)' /\ pending'[m].task = pending[m].task
  BY <1>1 DEF Lives
<1>3. ASSUME NEW t \in Tasks, pieces'[t] # NotAsked, answer'[t] = NoAnswer
      PROVE  IsPending(t)'
  BY <1>2, <1>3 DEF Pends, IsPending
<1>4. ASSUME NEW m \in Nodes, Lives(m)', Len(pending'[m].hasRes) # 0
      PROVE  IsUnfinished(m)'
  <2>1. CASE m = n
    BY <1>1, <1>4, <2>1 DEF IsUnfinished, Size
  <2>2. CASE m # n
    BY <1>1, <1>4, <2>2 DEF Pends, IsUnfinished, Lives, Size
  <2>3. QED
    BY <2>1, <2>2
<1>5. QED
  BY <1>3, <1>4 DEF Pends

\* An element is erased when its task is answered.
LEMMA PendsClosed ==
    ASSUME TypeOK, Pends, NEW n \in Nodes, Lives(n), NEW v, v # NoAnswer,
           answer' = [answer EXCEPT ![pending[n].task] = v],
           pending' = [pending EXCEPT ![n] = Free], UNCHANGED pieces
    PROVE  Pends'
<1>1. pending[n].task \in Tasks
  BY PendingIsNode, NodeSize
<1>2. pending'[n] = Free /\ \A m \in Nodes \ {n} : pending'[m] = pending[m]
  BY DEF TypeOK
<1>3. ASSUME NEW t \in Tasks, pieces'[t] # NotAsked, answer'[t] = NoAnswer
      PROVE  IsPending(t)'
  <2>1. t # pending[n].task /\ answer[t] = NoAnswer
    BY <1>1, <1>3 DEF TypeOK
  <2>2. PICK m \in Nodes : Lives(m) /\ pending[m].task = t
    BY <1>3, <2>1 DEF Pends, IsPending
  <2>3. Lives(m)' /\ pending'[m].task = t
    BY <1>2, <2>1, <2>2 DEF Lives
  <2>4. QED
    BY <2>3 DEF IsPending
<1>4. ASSUME NEW m \in Nodes, Lives(m)', Len(pending'[m].hasRes) # 0
      PROVE  IsUnfinished(m)'
  <2>1. m # n /\ pending'[m] = pending[m]
    BY <1>2, <1>4 DEF Lives
  <2>2. QED
    BY <1>4, <2>1 DEF Pends, IsUnfinished, Lives, Size
<1>5. QED
  BY <1>3, <1>4 DEF Pends

LEMMA PendsResult ==
    ASSUME TypeOK, Pends, NEW c \in Continuations, ResultReceived(c)
    PROVE  Pends'
<1> DEFINE node == Stored(pending[c.node], c.of, c.index)
<1>1. c.node \in Nodes /\ Lives(c.node)
  BY ValidIsNode DEF ResultReceived
<1>2. IsNode(node) /\ node.task = pending[c.node].task
  BY ValidIsNode, ResultStored DEF ResultReceived, HasStored
<1>3. /\ \/ /\ answer' = [answer EXCEPT ![node.task] = node.result]
            /\ pending' = [pending EXCEPT ![c.node] = Free]
         \/ /\ ~ HasFinishedTheTreatment(node)
            /\ pending' = [pending EXCEPT ![c.node] = node]
            /\ UNCHANGED answer
      /\ UNCHANGED pieces
  BY ResultReceivedEffect
<1> HIDE DEF node
<1>4. node # Free /\ node.result # NoAnswer
  <2>1. node.result \in Seq(Results \cup {NoResult})
    BY <1>2 DEF IsNode, TaskNodes
  <2>2. QED
    BY <1>2, <2>1, SplitAggregateAssumption DEF IsNode
<1>5. ~ HasFinishedTheTreatment(node) => \E i \in Size(node) : ~ node.hasRes[i]
  BY DEF HasFinishedTheTreatment
<1>6. QED
  BY <1>1, <1>2, <1>3, <1>4, <1>5, PendsKept, PendsClosed

LEMMA PendsError ==
    ASSUME TypeOK, Pends, NEW c \in Continuations, ErrorReceived(c)
    PROVE  Pends'
<1> DEFINE node == Retried(pending[c.node], c.index)
<1>1. c.node \in Nodes /\ Lives(c.node)
  BY ValidIsNode DEF ErrorReceived
<1>2. IsNode(node) /\ node.task = pending[c.node].task
      /\ node.hasRes = pending[c.node].hasRes
  BY ValidIsNode, RetriedProperties DEF ErrorReceived
<1>3. /\ \/ /\ pending' = [pending EXCEPT ![c.node] = node]
            /\ UNCHANGED answer
         \/ UNCHANGED <<answer, pending>>
         \/ /\ answer' = [answer EXCEPT ![pending[c.node].task] = Error]
            /\ pending' = [pending EXCEPT ![c.node] = Free]
      /\ UNCHANGED pieces
  BY ErrorReceivedEffect
<1> HIDE DEF node
<1>4. node # Free /\ Error # NoAnswer
  BY <1>2, SplitAggregateAssumption DEF IsNode
<1>5. Len(node.hasRes) # 0 => \E i \in Size(node) : ~ node.hasRes[i]
  BY <1>1, <1>2 DEF Pends, IsUnfinished, Size
<1>6. CASE UNCHANGED <<answer, pending>>
  BY <1>3, <1>6 DEF Pends, IsPending, IsUnfinished, Lives
<1>7. QED
  BY <1>1, <1>2, <1>3, <1>4, <1>5, <1>6, PendsKept, PendsClosed

LEMMA PendsStep == TypeOK /\ Pends /\ [Next]_vars => Pends'
<1> SUFFICES ASSUME TypeOK, Pends, [Next]_vars
             PROVE  Pends'
  OBVIOUS
<1>1. CASE UNCHANGED <<pending, pieces, answer>>
  BY <1>1 DEF Pends, IsPending, IsUnfinished, Lives
<1>2. CASE \E c \in Continuations : Fails(c) \/ RunnerFound(c) \/ StrayHasNoEffect(c) \/ StrayCrashes(c)
  BY <1>1, <1>2 DEF Fails, RunnerFound, StrayHasNoEffect, StrayCrashes
<1>3. QED
  BY <1>1, <1>2, PendsOpened, PendsResult, PendsError DEF Next, Environment, Answered, vars

LEMMA PendsInit == Init => Pends
  BY DEF Init, Pends, Lives

-----------------------------------------------------------------------------
(***************************************************************************)
(* Iterators and requests are in order until a failure overtaxes D         *)
(***************************************************************************)

RequestsInOrder == \A c \in Continuations : inflight[c] > 0 => IsInOrder(c)
NodesInOrder == \A n \in Nodes : Lives(n) => NodeInOrder(pending[n])

\* Every element keeps its subtasks and what is known to be finished.
SubtasksKept ==
    \A n \in Nodes : Lives(n) =>
       /\ Lives(n)'
       /\ pending'[n].task = pending[n].task
       /\ pending'[n].hasRes = pending[n].hasRes

\* The request d takes the place of c.
LEMMA MoveInOrder ==
    ASSUME TypeOK, RequestsInOrder, NEW c \in Continuations, inflight[c] > 0,
           NEW d \in Continuations, NEW stage,
           Follows(d, c, stage, pending[c.node].task), stage # c.stage, Moved(c, d),
           stage = "failed" => c.of \in hurt', hurt \subseteq hurt', SubtasksKept
    PROVE  RequestsInOrder'
<1>1. IsInOrder(c) /\ inflight \in [Continuations -> Nat]
  BY DEF RequestsInOrder, TypeOK
<1>2. d # c /\ d.node = c.node /\ d.index = c.index /\ d.of = c.of /\ d.stage = stage
  BY <1>1 DEF Follows, IsInOrder
<1>3. inflight[d] = 0
  BY <1>1, <1>2 DEF IsInOrder
<1>4. inflight'[c] = 0 /\ inflight'[d] = 1
  BY <1>1, <1>3 DEF IsInOrder, Moved
<1>5. ASSUME NEW e \in Continuations, inflight'[e] > 0, e # d
      PROVE  inflight[e] > 0 /\ inflight'[e] = inflight[e] /\ e # c
  BY <1>4, <1>5 DEF Moved
<1>6. ASSUME NEW e \in Continuations, IsValid(e)
      PROVE  /\ IsValid(e)'
             /\ pending'[e.node].task = pending[e.node].task
             /\ pending'[e.node].hasRes = pending[e.node].hasRes
  <2>1. e.node \in Nodes /\ Lives(e.node)
    BY <1>6 DEF Continuations, IsValid, Lives
  <2>2. QED
    BY <1>6, <2>1 DEF SubtasksKept, IsValid, Lives, Size
<1>7. IsInOrder(d)'
  <2>1. IsValid(d) /\ IsValid(c)
    BY <1>1, <1>2 DEF IsInOrder, IsValid
  <2>2. /\ IsValid(d)'
        /\ d.of = pending'[d.node].task
        /\ ~ pending'[d.node].hasRes[d.index]
    BY <1>1, <1>2, <1>6, <2>1 DEF IsInOrder
  <2>3. d.stage = "failed" => d.of \in hurt'
    BY <1>2
  <2>4. ASSUME NEW e \in Continuations, inflight'[e] > 0, e.node = d.node, e.index = d.index
        PROVE  e = d
    BY <1>1, <1>2, <1>5, <2>4 DEF IsInOrder
  <2>5. QED
    BY <1>4, <2>2, <2>3, <2>4 DEF IsInOrder
<1>8. ASSUME NEW e \in Continuations, inflight'[e] > 0, e # d
      PROVE  IsInOrder(e)'
  <2>1. inflight[e] > 0 /\ inflight'[e] = inflight[e] /\ e # c
    BY <1>5, <1>8
  <2>2. IsInOrder(e)
    BY <2>1 DEF RequestsInOrder
  <2>3. /\ inflight'[e] = 1
        /\ IsValid(e)'
        /\ e.of = pending'[e.node].task
        /\ ~ pending'[e.node].hasRes[e.index]
        /\ e.stage = "failed" => e.of \in hurt'
    BY <1>6, <2>1, <2>2 DEF IsInOrder
  <2>4. ASSUME NEW f \in Continuations, inflight'[f] > 0, f.node = e.node, f.index = e.index
        PROVE  f = e
    <3>1. CASE f = d
      BY <1>1, <1>2, <2>1, <2>4, <3>1 DEF IsInOrder
    <3>2. CASE f # d
      BY <1>5, <2>2, <2>4, <3>2 DEF IsInOrder
    <3>3. QED
      BY <3>1, <3>2
  <2>5. QED
    BY <2>3, <2>4 DEF IsInOrder
<1>9. QED
  BY <1>7, <1>8 DEF RequestsInOrder

\* What c has left behind does not concern the other requests.
LEMMA LeftInOrder ==
    ASSUME TypeOK, RequestsInOrder, NEW c \in Continuations, inflight[c] > 0, Left(c),
           UNCHANGED hurt,
           \A e \in Continuations \ {c} : inflight[e] > 0 =>
              /\ IsValid(e)'
              /\ pending'[e.node].task = pending[e.node].task
              /\ ~ pending'[e.node].hasRes[e.index]
    PROVE  RequestsInOrder'
<1>1. inflight'[c] = 0
  BY DEF RequestsInOrder, IsInOrder, Left
<1>2. ASSUME NEW e \in Continuations, inflight'[e] > 0
      PROVE  inflight[e] > 0 /\ inflight'[e] = inflight[e] /\ e # c
  BY <1>1, <1>2 DEF Left
<1>3. ASSUME NEW e \in Continuations, inflight'[e] > 0
      PROVE  IsInOrder(e)'
  <2>1. inflight[e] > 0 /\ inflight'[e] = inflight[e] /\ e # c
    BY <1>2, <1>3
  <2>2. IsInOrder(e)
    BY <2>1 DEF RequestsInOrder
  <2>3. /\ inflight'[e] = 1
        /\ IsValid(e)'
        /\ e.of = pending'[e.node].task
        /\ ~ pending'[e.node].hasRes[e.index]
        /\ e.stage = "failed" => e.of \in hurt'
    BY <2>1, <2>2 DEF IsInOrder
  <2>4. ASSUME NEW f \in Continuations, inflight'[f] > 0, f.node = e.node, f.index = e.index
        PROVE  f = e
    BY <1>2, <2>2, <2>4 DEF IsInOrder
  <2>5. QED
    BY <2>3, <2>4 DEF IsInOrder
<1>4. QED
  BY <1>3 DEF RequestsInOrder
Orderly ==
    /\ ~ crashed
    /\ retryOnFailure => maxRetryCount > 0
    /\ RequestsInOrder
    /\ NodesInOrder

LEMMA InOrderIs == InOrder <=> (~ overtaxed => Orderly)
  BY DEF InOrder, Orderly, RequestsInOrder, NodesInOrder

\* A task that hasFinishedTheTreatment with the result of c has all results:
\* no other subtask is given up on its last retry.
LEMMA FinishedIsComplete ==
    ASSUME TypeOK, NEW c \in Continuations, IsValid(c), IsInOrder(c),
           NodeInOrder(pending[c.node]),
           HasFinishedTheTreatment(Stored(pending[c.node], c.of, c.index))
    PROVE  \A j \in Size(pending[c.node]) \ {c.index} : pending[c.node].hasRes[j]
<1> DEFINE old  == pending[c.node]
           node == Stored(pending[c.node], c.of, c.index)
<1>1. /\ IsNode(old) /\ c.index \in Size(old) /\ c.of \in Tasks
      /\ \A j \in Size(old) : old.retries[j] \in Nat
  BY ValidIsNode, NodeSize
<1>2. /\ IsNode(node) /\ node.retries = old.retries
      /\ Len(node.hasRes) = Len(old.hasRes)
      /\ \A j \in Size(old) \ {c.index} : node.hasRes[j] <=> old.hasRes[j]
  <2>1. HasStored(node, old, c.of, c.index)
    BY ResultStored
  <2> HIDE DEF node, old
  <2>2. QED
    BY <2>1 DEF HasStored
<1>3. Size(node) = Size(old)
  BY <1>1, <1>2, NodeSize
<1>4. maxRetryCount \in Nat
  BY SplitAggregateAssumption DEF TypeOK, maxRetryCount
<1>5. ~ old.hasRes[c.index]
  BY DEF IsInOrder
<1> HIDE DEF node
<1>6. ASSUME NEW j \in Size(old) \ {c.index}
      PROVE  old.hasRes[j]
  <2>1. node.hasRes[j] \/ (retryOnFailure /\ old.retries[j] >= maxRetryCount)
    BY <1>2, <1>3, <1>6 DEF HasFinishedTheTreatment, node
  <2>2. \/ old.hasRes[j]
        \/ retryOnFailure => old.retries[j] < maxRetryCount
        \/ \A k \in Size(old) \ {j} : old.hasRes[k]
    BY <1>6 DEF NodeInOrder
  <2>3. old.retries[j] \in Nat
    BY <1>1
  <2>4. QED
    BY <1>1, <1>2, <1>4, <1>5, <1>6, <2>1, <2>2, <2>3
<1>7. QED
  BY <1>6

\* What is stored completes the results of the task.
LEMMA StoredIsAggregate ==
    ASSUME TypeOK, NEW c \in Continuations, IsValid(c), IsInOrder(c),
           NodeInOrder(pending[c.node]),
           \A j \in Size(pending[c.node]) \ {c.index} : pending[c.node].hasRes[j]
    PROVE  Stored(pending[c.node], c.of, c.index).result =
              [i \in 1 .. Len(pending[c.node].hasRes) |->
                  [task |-> pending[c.node].task, index |-> i]]
<1> DEFINE old  == pending[c.node]
           node == Stored(pending[c.node], c.of, c.index)
<1>1. /\ IsNode(old) /\ c.index \in Size(old) /\ c.of = old.task
      /\ Size(old) = 1 .. Len(old.hasRes)
  BY ValidIsNode, NodeSize DEF IsInOrder
<1>2. /\ IsNode(node)
      /\ Len(node.hasRes) = Len(old.hasRes)
      /\ node.result[c.index] = [task |-> c.of, index |-> c.index]
      /\ \A j \in Size(old) \ {c.index} : node.result[j] = old.result[j]
  <2>1. HasStored(node, old, c.of, c.index)
    BY ResultStored
  <2> HIDE DEF node, old
  <2>2. QED
    BY <2>1 DEF HasStored
<1> HIDE DEF node
<1>3. \A i \in 1 .. Len(old.hasRes) : node.result[i] = [task |-> old.task, index |-> i]
  BY <1>1, <1>2 DEF NodeInOrder
<1>4. node.result \in Seq(Results \cup {NoResult}) /\ Len(node.result) = Len(old.hasRes)
  BY <1>2 DEF IsNode, TaskNodes, HasOneSize
<1>5. node.result \in [1 .. Len(old.hasRes) -> Results \cup {NoResult}]
  BY <1>4, LenProperties
<1>6. QED
  BY <1>3, <1>5 DEF node

LEMMA OrderAfterRequest ==
    ASSUME TypeOK, Orderly, NEW t \in Tasks, Request(t)
    PROVE  Orderly'
<1>1. PICK size \in 0 .. MaxPieces, n \in Nodes :
          /\ pending[n] = Free
          /\ pending' = [pending EXCEPT ![n] = NewNode(t, size)]
          /\ inflight' = [c \in Continuations |->
                            IF \E i \in 1 .. size : c = Find(n, i, t)
                            THEN inflight[c] + 1 ELSE inflight[c]]
          /\ UNCHANGED <<config, crashed, hurt>>
  BY RequestEffect
<1> DEFINE node == NewNode(t, size)
<1>2. /\ pending'[n] = node
      /\ \A m \in Nodes \ {n} : pending'[m] = pending[m]
  BY <1>1 DEF TypeOK
<1>3. /\ IsNode(node) /\ node.task = t /\ Size(node) = 1 .. size
      /\ \A i \in 1 .. size : ~ node.hasRes[i] /\ node.retries[i] = 0
      /\ node # Free
  BY NewNodeProperties, NodeSize
<1> HIDE DEF node
<1>4. ASSUME NEW c \in Continuations, c.node = n
      PROVE  inflight[c] = 0
  BY <1>1, <1>4 DEF Orderly, RequestsInOrder, IsInOrder, IsValid, TypeOK
<1>5. ASSUME NEW c \in Continuations, inflight'[c] > 0, c.node = n
      PROVE  IsInOrder(c)'
  <2>1. PICK i \in 1 .. size : c = Find(n, i, t)
    BY <1>1, <1>4, <1>5
  <2>2. /\ inflight'[c] = 1
        /\ c.index = i /\ c.of = t /\ c.stage = "find"
    BY <1>1, <1>4, <1>5, <2>1 DEF Find
  <2>3. ASSUME NEW d \in Continuations, inflight'[d] > 0, d.node = c.node, d.index = c.index
        PROVE  d = c
    <3>1. PICK j \in 1 .. size : d = Find(n, j, t)
      BY <1>1, <1>4, <1>5, <2>3
    <3>2. QED
      BY <2>1, <2>2, <2>3, <3>1 DEF Find
  <2>4. IsValid(c)' /\ ~ pending'[c.node].hasRes[c.index] /\ c.of = pending'[c.node].task
    BY <1>2, <1>3, <1>5, <2>2 DEF IsValid, Size
  <2>5. QED
    BY <2>2, <2>3, <2>4 DEF IsInOrder
<1>6. ASSUME NEW c \in Continuations, inflight'[c] > 0, c.node # n
      PROVE  IsInOrder(c)'
  <2>1. \A d \in Continuations : d.node # n => inflight'[d] = inflight[d]
    BY <1>1 DEF Find
  <2>2. inflight[c] > 0 /\ inflight'[c] = inflight[c]
    BY <1>6, <2>1
  <2>3. IsInOrder(c)
    BY <2>2 DEF Orderly, RequestsInOrder
  <2>4. pending'[c.node] = pending[c.node]
    BY <1>2, <1>6 DEF Continuations
  <2>5. QED
    BY <1>1, <1>6, <2>1, <2>2, <2>3, <2>4 DEF IsInOrder, IsValid, Size
<1>7. RequestsInOrder'
  BY <1>5, <1>6 DEF RequestsInOrder
<1>8. NodeInOrder(node)'
  BY <1>1, <1>3 DEF NodeInOrder, Orderly, retryOnFailure, maxRetryCount
<1>9. NodesInOrder'
  BY <1>1, <1>2, <1>8 DEF NodesInOrder, NodeInOrder, Lives, Orderly, retryOnFailure,
     maxRetryCount
<1>10. QED
  BY <1>1, <1>7, <1>9 DEF Orderly, retryOnFailure, maxRetryCount

\* Requests move on, and no task changes.
LEMMA OrderAfterMove ==
    ASSUME TypeOK, Orderly, NEW c \in Continuations, RunnerFound(c) \/ Fails(c)
    PROVE  Orderly'
<1>1. /\ inflight[c] > 0 /\ c.stage # "failed"
      /\ UNCHANGED <<config, pending, crashed>>
      /\ hurt \subseteq hurt'
      /\ Fails(c) => c.of \in hurt'
  BY DEF RunnerFound, Fails
<1>2. IsInOrder(c)
  BY <1>1 DEF Orderly, RequestsInOrder
<1>3. SubtasksKept
  BY <1>1 DEF SubtasksKept, Lives
<1>4. RequestsInOrder'
  <2>1. CASE RunnerFound(c)
    <3>1. PICK d \in Continuations :
              Follows(d, c, "run", pending[c.node].task) /\ Moved(c, d)
      BY <2>1, RunnerFoundEffect
    <3>2. c.stage # "run"
      BY <2>1 DEF RunnerFound
    <3>3. QED
      BY <1>1, <1>3, <3>1, <3>2, MoveInOrder DEF Orderly
  <2>2. CASE Fails(c)
    <3>1. PICK d \in Continuations : Follows(d, c, "failed", c.of) /\ Moved(c, d)
      BY <2>2, FailsEffect
    <3>2. Follows(d, c, "failed", pending[c.node].task)
      BY <1>2, <3>1 DEF IsInOrder
    <3>3. QED
      BY <1>1, <1>3, <2>2, <3>1, <3>2, MoveInOrder DEF Orderly
  <2>3. QED
    BY <2>1, <2>2
<1>5. NodesInOrder'
  BY <1>1 DEF Orderly, NodesInOrder, NodeInOrder, Lives, retryOnFailure, maxRetryCount
<1>6. QED
  BY <1>1, <1>4, <1>5 DEF Orderly, retryOnFailure, maxRetryCount

LEMMA OrderAfterResult ==
    ASSUME TypeOK, Orderly, NEW c \in Continuations, ResultReceived(c)
    PROVE  Orderly'
<1> DEFINE old  == pending[c.node]
           node == Stored(pending[c.node], c.of, c.index)
<1>1. /\ c.node \in Nodes /\ Lives(c.node) /\ inflight[c] > 0 /\ IsValid(c)
      /\ IsInOrder(c) /\ NodeInOrder(old)
  BY ValidIsNode DEF ResultReceived, Orderly, RequestsInOrder, NodesInOrder
<1>2. IsNode(old) /\ c.index \in Size(old)
  BY ValidIsNode DEF ResultReceived
<1>3. /\ IsNode(node) /\ node.retries = old.retries /\ node.task = old.task
      /\ Len(node.hasRes) = Len(old.hasRes)
      /\ node.hasRes[c.index] /\ node.result[c.index] = [task |-> c.of, index |-> c.index]
      /\ \A j \in Size(old) \ {c.index} : /\ node.hasRes[j] <=> old.hasRes[j]
                                          /\ node.result[j] = old.result[j]
  <2>1. HasStored(node, old, c.of, c.index)
    BY ResultStored DEF ResultReceived
  <2> HIDE DEF node, old
  <2>2. QED
    BY <2>1 DEF HasStored
<1>4. Size(node) = Size(old)
  BY <1>2, <1>3, NodeSize
<1>5. Left(c) /\ UNCHANGED <<config, crashed, hurt>>
  BY ResultReceivedEffect, HandledEffect
<1>6. \A n \in Nodes \ {c.node} : pending'[n] = pending[n]
  BY ResultReceivedEffect DEF TypeOK
<1>7. \/ HasFinishedTheTreatment(node) /\ pending'[c.node] = Free
      \/ pending'[c.node] = node
  BY <1>1, ResultReceivedEffect DEF TypeOK
<1> HIDE DEF node
<1>8. ASSUME NEW e \in Continuations \ {c}, inflight[e] > 0
      PROVE  /\ IsValid(e)'
             /\ pending'[e.node].task = pending[e.node].task
             /\ ~ pending'[e.node].hasRes[e.index]
  <2>1. IsInOrder(e) /\ e.node \in Nodes
    BY <1>8 DEF Orderly, RequestsInOrder, Continuations
  <2>2. CASE e.node # c.node
    BY <1>6, <2>1, <2>2 DEF IsInOrder, IsValid
  <2>3. CASE e.node = c.node
    <3>1. e.index # c.index
      BY <1>1, <1>8, <2>3 DEF IsInOrder
    <3>2. e.index \in Size(old) /\ ~ old.hasRes[e.index]
      BY <2>1, <2>3 DEF IsInOrder, IsValid
    <3>3. ~ HasFinishedTheTreatment(node)
      BY <1>1, <3>1, <3>2, FinishedIsComplete DEF node
    <3>4. pending'[c.node] = node /\ node # Free
      BY <1>3, <1>7, <3>3, NodeSize
    <3>5. QED
      BY <1>3, <1>4, <2>3, <3>1, <3>2, <3>4 DEF IsValid
  <2>4. QED
    BY <2>2, <2>3
<1>9. RequestsInOrder'
  BY <1>1, <1>5, <1>8, LeftInOrder DEF Orderly
<1>10. NodeInOrder(node)
  BY <1>1, <1>2, <1>3, <1>4 DEF NodeInOrder, IsInOrder
<1>11. NodesInOrder'
  BY <1>5, <1>6, <1>7, <1>10 DEF Orderly, NodesInOrder, NodeInOrder, Lives, retryOnFailure,
     maxRetryCount
<1>12. QED
  BY <1>5, <1>9, <1>11 DEF Orderly, retryOnFailure, maxRetryCount

LEMMA OrderAfterError ==
    ASSUME TypeOK, Orderly, NEW c \in Continuations, ErrorReceived(c), ~ Overtaxes(c)
    PROVE  Orderly'
<1> DEFINE old  == pending[c.node]
           node == Retried(pending[c.node], c.index)
<1>1. /\ c.node \in Nodes /\ Lives(c.node) /\ inflight[c] > 0 /\ IsValid(c)
      /\ IsInOrder(c) /\ NodeInOrder(old) /\ c.stage = "failed"
  BY ValidIsNode DEF ErrorReceived, Orderly, RequestsInOrder, NodesInOrder
<1>2. IsNode(old) /\ c.index \in Size(old)
  BY ValidIsNode DEF ErrorReceived
<1>3. UNCHANGED <<config, crashed, hurt>>
  BY ErrorReceivedEffect
<1>4. \/ retryOnFailure /\ old.retries[c.index] + 1 < maxRetryCount
      \/ ~ canReplyOnFailedSubtask /\ \A j \in Size(old) \ {c.index} : old.hasRes[j]
  BY DEF Overtaxes
<1>5. CASE Retry(c) /\ pending' = [pending EXCEPT ![c.node] = node]
  <2>1. /\ IsNode(node) /\ node.task = old.task
        /\ node.result = old.result /\ node.hasRes = old.hasRes
        /\ node.retries[c.index] = old.retries[c.index] + 1
        /\ \A j \in Size(old) \ {c.index} : node.retries[j] = old.retries[j]
    BY ValidIsNode, RetriedProperties DEF ErrorReceived
  <2>2. Size(node) = Size(old) /\ node # Free
    BY <2>1, NodeSize DEF Size
  <2>3. /\ pending'[c.node] = node
        /\ \A n \in Nodes \ {c.node} : pending'[n] = pending[n]
    BY <1>1, <1>5 DEF TypeOK
  <2> HIDE DEF node
  <2>4. PICK d \in Continuations : Follows(d, c, "find", old.task) /\ Moved(c, d)
    BY <1>5, RetryEffect
  <2>5. SubtasksKept
    BY <2>1, <2>2, <2>3 DEF SubtasksKept, Lives
  <2>6. RequestsInOrder'
    BY <1>1, <1>3, <2>4, <2>5, MoveInOrder DEF Orderly
  <2>7. NodeInOrder(node)
    BY <1>1, <1>4, <2>1, <2>2 DEF NodeInOrder
  <2>8. NodesInOrder'
    BY <1>3, <2>3, <2>7 DEF Orderly, NodesInOrder, NodeInOrder, Lives, retryOnFailure,
       maxRetryCount
  <2>9. QED
    BY <1>3, <2>6, <2>8 DEF Orderly, retryOnFailure, maxRetryCount
<1>6. CASE /\ ~ MayRetry(old, c.index) /\ ~ canReplyOnFailedSubtask /\ Handled(c)
           /\ pending' = [pending EXCEPT ![c.node] = Free]
  <2>1. /\ pending'[c.node] = Free
        /\ \A n \in Nodes \ {c.node} : pending'[n] = pending[n]
    BY <1>1, <1>6 DEF TypeOK
  <2>2. old.retries[c.index] \in Nat /\ maxRetryCount \in Nat
    <3>1. old.retries[c.index] \in Nat
      BY <1>2, NodeSize
    <3>2. maxRetryCount \in Nat
      BY SplitAggregateAssumption DEF TypeOK, maxRetryCount
    <3>3. QED
      BY <3>1, <3>2
  <2>3. \A j \in Size(old) \ {c.index} : old.hasRes[j]
    BY <1>4, <1>6, <2>2 DEF MayRetry
  <2>4. ASSUME NEW e \in Continuations \ {c}, inflight[e] > 0
        PROVE  e.node # c.node /\ e.node \in Nodes /\ IsInOrder(e)
    <3>1. IsInOrder(e) /\ e.node \in Nodes
      BY <2>4 DEF Orderly, RequestsInOrder, Continuations
    <3>2. ASSUME e.node = c.node
          PROVE  FALSE
      <4>1. e.index # c.index
        BY <1>1, <2>4, <3>2 DEF IsInOrder
      <4>2. e.index \in Size(old) /\ ~ old.hasRes[e.index]
        BY <3>1, <3>2 DEF IsInOrder, IsValid
      <4>3. QED
        BY <2>3, <4>1, <4>2
    <3>3. QED
      BY <3>1, <3>2
  <2>5. Left(c)
    BY <1>1, <1>6, HandledEffect
  <2>6. ASSUME NEW e \in Continuations \ {c}, inflight[e] > 0
        PROVE  /\ IsValid(e)'
               /\ pending'[e.node].task = pending[e.node].task
               /\ ~ pending'[e.node].hasRes[e.index]
    BY <2>1, <2>4, <2>6 DEF IsInOrder, IsValid
  <2>7. RequestsInOrder'
    BY <1>1, <1>3, <2>5, <2>6, LeftInOrder DEF Orderly
  <2>8. NodesInOrder'
    BY <1>3, <2>1 DEF Orderly, NodesInOrder, NodeInOrder, Lives, retryOnFailure, maxRetryCount
  <2>9. QED
    BY <1>3, <2>7, <2>8 DEF Orderly, retryOnFailure, maxRetryCount
<1>7. ~ (~ MayRetry(old, c.index) /\ canReplyOnFailedSubtask)
  <2>1. old.retries[c.index] \in Nat /\ maxRetryCount \in Nat
    <3>1. old.retries[c.index] \in Nat
      BY <1>2, NodeSize
    <3>2. maxRetryCount \in Nat
      BY SplitAggregateAssumption DEF TypeOK, maxRetryCount
    <3>3. QED
      BY <3>1, <3>2
  <2>2. QED
    BY <1>4, <2>1 DEF MayRetry
<1>8. QED
  BY <1>5, <1>6, <1>7, ErrorReceivedEffect
LEMMA InOrderStep == TypeOK /\ InOrder /\ [Next]_vars => InOrder'
<1> SUFFICES ASSUME TypeOK, InOrder, [Next]_vars, ~ overtaxed'
             PROVE  Orderly'
  BY InOrderIs DEF InOrder, Orderly, RequestsInOrder, NodesInOrder
<1>1. CASE UNCHANGED vars
  BY <1>1, InOrderIs DEF vars, Orderly, RequestsInOrder, NodesInOrder, IsInOrder, IsValid,
     NodeInOrder, Lives, Size, retryOnFailure, maxRetryCount
<1>2. ~ overtaxed => Orderly
  BY InOrderIs
<1>3. ASSUME NEW t \in Tasks, Request(t)
      PROVE  Orderly'
  BY <1>2, <1>3, OrderAfterRequest DEF Request
<1>4. ASSUME NEW c \in Continuations, Fails(c) \/ RunnerFound(c)
      PROVE  Orderly'
  BY <1>2, <1>4, OrderAfterMove DEF Fails, RunnerFound
<1>5. ASSUME NEW c \in Continuations, ResultReceived(c)
      PROVE  Orderly'
  BY <1>2, <1>5, OrderAfterResult DEF ResultReceived
<1>6. ASSUME NEW c \in Continuations, ErrorReceived(c)
      PROVE  Orderly'
  BY <1>2, <1>6, OrderAfterError DEF ErrorReceived
<1>7. ASSUME NEW c \in Continuations, StrayHasNoEffect(c) \/ StrayCrashes(c)
      PROVE  Orderly'
  <2>1. ~ overtaxed /\ inflight[c] > 0 /\ ~ IsValid(c)
    BY <1>7 DEF StrayHasNoEffect, StrayCrashes
  <2>2. QED
    BY <1>2, <2>1 DEF Orderly, RequestsInOrder, IsInOrder
<1>8. QED
  BY <1>1, <1>3, <1>4, <1>5, <1>6, <1>7 DEF Next, Environment, Answered

LEMMA IInvInit == Init => IInv
<1> SUFFICES ASSUME Init
             PROVE  IInv
  OBVIOUS
<1>1. TypeOK
  BY TypeInit
<1>2. Bookkeeping
  BY DEF Init, Bookkeeping, Lives
<1>3. maxRetryCount \in Nat
  BY <1>1, SplitAggregateAssumption DEF TypeOK, maxRetryCount
<1>4. ~ overtaxed => (retryOnFailure => maxRetryCount > 0)
  <2>1. ~ overtaxed => ~ (retryOnFailure /\ maxRetryCount = 0)
    BY Zenon DEF Init, retryOnFailure, maxRetryCount
  <2>2. QED
    BY <1>3, <2>1
<1>5. Orderly \/ overtaxed
  BY <1>4 DEF Init, Orderly, RequestsInOrder, NodesInOrder, Lives
<1>6. QED
  BY <1>1, <1>2, <1>5, InOrderIs DEF IInv

LEMMA IInvStep == IInv /\ [Next]_vars => IInv'
  BY TypeStep, BooksStep, InOrderStep DEF IInv

\* The inductive invariant: the books of tasks_pending always, and order among
\* iterators, requests and results until a failure overtaxed the distributor.
THEOREM SplitAggregateInvariant == Spec => []IInv
  BY IInvInit, IInvStep, PTL DEF Spec

\* Before any failure overtaxed the distributor, every continuation's
\* iterator points to a pending task with such a subtask, whatever was erased
\* from tasks_pending and whatever address was used again.
THEOREM IteratorsAreValidHolds == Spec => []IteratorsAreValid
<1>1. IInv => IteratorsAreValid
  BY DEF IInv, InOrder, IsInOrder, IteratorsAreValid
<1>2. QED
  BY <1>1, SplitAggregateInvariant, PTL

\* Before that, no subtask is with two runners, or with one after its result
\* was stored (distributeOne and retryIfNeeded).
THEOREM OneRequestPerSubtaskHolds == Spec => []OneRequestPerSubtask
<1>1. IInv => OneRequestPerSubtask
  BY DEF IInv, InOrder, IsInOrder, OneRequestPerSubtask
<1>2. QED
  BY <1>1, SplitAggregateInvariant, PTL

-----------------------------------------------------------------------------
(***************************************************************************)
(* The distributor implements TaskService                                  *)
(***************************************************************************)

LEMMA AsksOrFails ==
    ASSUME IInv, ~ overtaxed, NEW t \in Tasks,
           Request(t) \/ \E c \in Continuations : Fails(c) /\ c.of = t
    PROVE  TaskServiceOf!Ask(t) \/ TaskServiceOf!PieceFails(t)
<1>1. CASE Request(t)
  BY <1>1 DEF Request, TaskServiceOf!Ask
<1>2. CASE \E c \in Continuations : Fails(c) /\ c.of = t
  <2>1. PICK c \in Continuations : Fails(c) /\ c.of = t
    BY <1>2
  <2>2. IsInOrder(c)
    BY <2>1 DEF IInv, InOrder, Fails
  <2>3. IsValid(c) /\ pending[c.node].task = t /\ TypeOK
    BY <2>1, <2>2 DEF IsInOrder, IInv
  <2>4. c.node \in Nodes /\ Lives(c.node) /\ IsNode(pending[c.node])
    BY <2>3, ValidIsNode
  <2>5. pieces[t] = Len(pending[c.node].hasRes) /\ pieces[t] \in Nat
    BY <2>3, <2>4, NodeSize, SplitAggregateAssumption DEF IInv, Bookkeeping
  <2>6. pieces[t] # NotAsked
    BY <2>5, SplitAggregateAssumption
  <2>7. QED
    BY <2>1, <2>6 DEF Fails, TaskServiceOf!PieceFails
<1>3. QED
  BY <1>1, <1>2

\* A pending task is open.
LEMMA PendingIsOpen ==
    ASSUME IInv, NEW c \in Continuations, IsValid(c)
    PROVE  /\ pending[c.node].task \in Tasks
           /\ pieces[pending[c.node].task] = Len(pending[c.node].hasRes)
           /\ TaskServiceOf!IsOpen(pending[c.node].task)
<1>1. /\ c.node \in Nodes /\ Lives(c.node) /\ IsNode(pending[c.node])
      /\ pending[c.node].task \in Tasks
  BY ValidIsNode DEF IInv
<1>2. /\ pieces[pending[c.node].task] = Len(pending[c.node].hasRes)
      /\ answer[pending[c.node].task] = NoAnswer
  BY <1>1 DEF IInv, Bookkeeping
<1>3. Len(pending[c.node].hasRes) \in Nat
  BY <1>1, NodeSize, SplitAggregateAssumption
<1>4. QED
  BY <1>1, <1>2, <1>3, SplitAggregateAssumption DEF TaskServiceOf!IsOpen

LEMMA Completes ==
    ASSUME IInv, ~ overtaxed, NEW c \in Continuations, ResultReceived(c)
    PROVE  (\E t \in Tasks : TaskServiceOf!Complete(t)) \/ UNCHANGED (TaskServiceOf!vars)
<1> DEFINE old  == pending[c.node]
           node == Stored(pending[c.node], c.of, c.index)
<1>1. /\ TypeOK /\ IsValid(c) /\ IsInOrder(c) /\ NodeInOrder(old)
  BY ValidIsNode DEF IInv, InOrder, ResultReceived
<1>2. node.task = old.task
  <2>1. HasStored(node, old, c.of, c.index)
    BY <1>1, ResultStored
  <2>2. QED
    BY <2>1 DEF HasStored
<1>3. /\ old.task \in Tasks /\ pieces[old.task] = Len(old.hasRes)
      /\ TaskServiceOf!IsOpen(old.task)
  BY <1>1, PendingIsOpen
<1>4. CASE /\ HasFinishedTheTreatment(node)
           /\ answer' = [answer EXCEPT ![node.task] = node.result]
  <2>1. \A j \in Size(old) \ {c.index} : old.hasRes[j]
    BY <1>1, <1>4, FinishedIsComplete
  <2>2. node.result = [i \in 1 .. Len(old.hasRes) |-> [task |-> old.task, index |-> i]]
    BY <1>1, <2>1, StoredIsAggregate
  <2>3. node.result = TaskServiceOf!Aggregate(old.task)
    BY <1>3, <2>2 DEF TaskServiceOf!Aggregate
  <2>4. UNCHANGED <<pieces, hurt>>
    BY ResultReceivedEffect
  <2>5. TaskServiceOf!Complete(old.task)
    BY <1>2, <1>3, <1>4, <2>3, <2>4 DEF TaskServiceOf!Complete
  <2>6. QED
    BY <1>3, <2>5
<1>5. CASE UNCHANGED answer
  BY <1>5, ResultReceivedEffect DEF TaskServiceOf!vars
<1>6. QED
  BY <1>4, <1>5, ResultReceivedEffect

LEMMA Refuses ==
    ASSUME IInv, ~ overtaxed, NEW c \in Continuations, ErrorReceived(c), UNCHANGED overtaxed
    PROVE  (\E t \in Tasks : TaskServiceOf!Refuse(t)) \/ UNCHANGED (TaskServiceOf!vars)
<1>1. /\ TypeOK /\ IsValid(c) /\ IsInOrder(c) /\ c.stage = "failed"
      /\ UNCHANGED <<pieces, hurt>>
  BY ErrorReceivedEffect DEF IInv, InOrder
<1>2. pending[c.node].task \in Tasks /\ TaskServiceOf!IsOpen(pending[c.node].task)
  BY <1>1, PendingIsOpen
<1>3. pending[c.node].task \in hurt
  BY <1>1 DEF IsInOrder
<1>4. CASE answer' = [answer EXCEPT ![pending[c.node].task] = Error]
  BY <1>1, <1>2, <1>3, <1>4 DEF TaskServiceOf!Refuse
<1>5. CASE UNCHANGED answer
  BY <1>1, <1>5 DEF TaskServiceOf!vars
<1>6. QED
  BY <1>1, <1>4, <1>5, ErrorReceivedEffect

LEMMA ImplementsStep ==
    IInv /\ [Next]_vars => [TaskServiceOf!Next]_(TaskServiceOf!vars)
<1> SUFFICES ASSUME IInv, [Next]_vars
             PROVE  TaskServiceOf!Next \/ UNCHANGED (TaskServiceOf!vars)
  OBVIOUS
<1>1. overtaxed \in BOOLEAN /\ TypeOK
  BY DEF IInv, TypeOK
<1>2. overtaxed' = overtaxed \/ \E c \in Continuations : overtaxed' = (overtaxed \/ Overtaxes(c))
  BY DEF Next, Environment, Answered, Request, RunnerFound, ResultReceived, Fails,
     ErrorReceived, StrayHasNoEffect, StrayCrashes, vars
<1>3. CASE overtaxed' = TRUE
  BY <1>3 DEF TaskServiceOf!Next
<1>4. CASE overtaxed = FALSE /\ overtaxed' = FALSE
  <2>1. ~ overtaxed /\ UNCHANGED overtaxed
    BY <1>4
  <2>2. CASE \E t \in Tasks : Request(t) \/ \E c \in Continuations : Fails(c) /\ c.of = t
    BY <1>4, <2>1, <2>2, AsksOrFails DEF TaskServiceOf!Next, TaskServiceOf!KeepPromise
  <2>3. CASE \E c \in Continuations : ResultReceived(c)
    BY <1>4, <2>1, <2>3, Completes DEF TaskServiceOf!Next, TaskServiceOf!KeepPromise
  <2>4. CASE \E c \in Continuations : ErrorReceived(c)
    BY <1>4, <2>1, <2>4, Refuses DEF TaskServiceOf!Next, TaskServiceOf!KeepPromise
  <2>5. CASE \/ UNCHANGED vars
             \/ \E c \in Continuations :
                   RunnerFound(c) \/ StrayHasNoEffect(c) \/ StrayCrashes(c)
    BY <2>5 DEF vars, RunnerFound, StrayHasNoEffect, StrayCrashes, TaskServiceOf!vars
  <2>6. \A c \in Continuations : c.of \in Tasks
    BY DEF Continuations
  <2>7. QED
    BY <2>2, <2>3, <2>4, <2>5, <2>6 DEF Next, Environment, Answered
<1>5. QED
  BY <1>1, <1>2, <1>3, <1>4

LEMMA ImplementsInit == Init => TaskServiceOf!Init
<1> SUFFICES ASSUME Init
             PROVE  TaskServiceOf!Init
  OBVIOUS
<1>1. overtaxed \in BOOLEAN
  BY TypeInit DEF TypeOK
<1>2. QED
  BY <1>1 DEF Init, TaskServiceOf!Init

\* The split and aggregate distributor is a TaskService: until a failure
\* overtaxes it, a client gets one answer, the results of all the subtasks of
\* its own task in their places, or an error after one of them failed.
THEOREM SplitAggregateImplements == Spec => ImplementsTaskService
  BY ImplementsInit, ImplementsStep, SplitAggregateInvariant, PTL
     DEF Spec, ImplementsTaskService, TaskServiceOf!Spec
=============================================================================
