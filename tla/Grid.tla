------------------------------ MODULE Grid --------------------------------
(***************************************************************************)
(* The grid engine as caf_main starts it (resource_manager/src/entry.cpp,  *)
(* client/entry.cpp): a tester hands tasks to a split and aggregate        *)
(* distributor, which asks the registering service for a runner for each   *)
(* subtask, and the runners treat the subtasks.                            *)
(*                                                                         *)
(* The subtasks of a task are asked for in one burst and then go their own *)
(* ways, over both mailboxes of the registry, through rounds that change   *)
(* meanwhile, to several runners.  A task whose subtask fails is erased    *)
(* while the others still hold its iterator, and the next task, in the     *)
(* mailbox by then or sent before the tester learns of the error, may take *)
(* over the element.  Distributor and registering service are actors of    *)
(* ONE process: undefined behaviour of either ends both.                   *)
(***************************************************************************)
EXTENDS GridRunners

CONSTANTS Tasks,
          Nodes,           \* addresses of the elements of tasks_pending
          MaxPieces,       \* how many subtasks the splitter of caf_main makes
          MaxFailures,     \* of the distributor; more than there can be
          NotAsked, NoResult, Error, Free

VARIABLES config, pending, inflight, failures, pieces, hurt, overtaxed,  \* of the distributor
          reply,           \* what the distributor answered the tester to a task
          handed,          \* tasks the tester has sent to the mailbox of the distributor
          testing          \* the tester has not ended

\* caf_main gives the functions and leaves the other arguments to their defaults.
Configurations ==
    {[retryOnFailure |-> FALSE, canReplyOnFailedSubtask |-> FALSE, maxRetryCount |-> 3]}

Distributor == INSTANCE SplitAggregate WITH answer <- reply

distributorVars == <<config, pending, inflight, failures, pieces, hurt, overtaxed, reply>>

\* All of Registration but crashed, which is the distributor's as well.
serviceVars == <<inbox, registry, managers, monitors, environment, asked, answer, history>>

testerVars == <<handed, testing>>

gridVars == <<vars, distributorVars, runnerVars, testerVars>>

Continuations == Distributor!Continuations

\* The requests that the distributor waits for.
Outstanding == {c \in Continuations : inflight[c] > 0}

\* Without retries each subtask asks for a runner once: it is the client.
Subtask(t, i) == [task |-> t, index |-> i]
Asker(c) == Subtask(c.of, c.index)

\* The last lines are what the distributor assumes of the constants.
ASSUME GridAssumption ==
    /\ Clients = Distributor!Results
    /\ MaxPieces \in Nat \ {0}
    /\ MaxFailures \in Nat /\ Cardinality(Clients) <= MaxFailures
    /\ NotAsked \notin Nat
    /\ NoAnswer # Error /\ NoAnswer \notin Distributor!Aggregates
    /\ NoResult \notin Distributor!Results
    /\ Free \notin Distributor!TaskNodes
    /\ Error \notin Distributor!Aggregates

GridInit ==
    /\ Init
    /\ Distributor!Init
    /\ RunnersInit
    /\ handed = <<>>
    /\ testing = TRUE

-----------------------------------------------------------------------------
(***************************************************************************)
(* The tester and the distributor                                          *)
(***************************************************************************)
IsSent(t) == t \in ToSet(handed) \/ pieces[t] # NotAsked

\* The start_atom handler of the tester, which waits for no reply to earlier tasks.
TesterSends(t) ==
    /\ testing
    /\ ~ IsSent(t)
    /\ Spend({"ask"})
    /\ handed' = Append(handed, t)
    /\ UNCHANGED <<inbox, registry, managers, monitors, alive, asked, answer, crashed,
                   history, distributorVars, runnerVars, testing>>

\* The tester has no handler for errors: the default one ends it when it takes the
\* error of a task out of its mailbox, and until then it sends further tasks.
TesterEnds ==
    /\ testing
    /\ \E t \in Tasks : reply[t] = Error
    /\ testing' = FALSE
    /\ UNCHANGED <<vars, distributorVars, runnerVars, handed>>

\* Deliberately wrong variant: no runner is asked for the last subtask.
TaskReceivedShort(t) ==
    /\ handed # <<>> /\ Head(handed) = t
    /\ handed' = Tail(handed)
    /\ Distributor!Request(t) /\ pieces'[t] = MaxPieces
    /\ asked' = [c \in Clients |-> IF c.task = t THEN serviceName ELSE asked[c]]
    /\ inbox' = inbox \o [i \in 1 .. MaxPieces - 1 |->
                    [type |-> "find", service |-> serviceName, client |-> Subtask(t, i)]]
    /\ UNCHANGED <<registry, managers, monitors, environment, answer, history,
                   runnerVars, testing>>

\* The message handler of the distributor: push_front, at an address that an erased
\* task may have left, and one find per subtask, in order.
TaskReceived(t) ==
    /\ handed # <<>> /\ Head(handed) = t
    /\ handed' = Tail(handed)
    /\ Distributor!Request(t) /\ pieces'[t] = MaxPieces
    /\ asked' = [c \in Clients |-> IF c.task = t THEN serviceName ELSE asked[c]]
    /\ inbox' = inbox \o [i \in 1 .. MaxPieces |->
                    [type |-> "find", service |-> serviceName, client |-> Subtask(t, i)]]
    /\ UNCHANGED <<registry, managers, monitors, environment, answer, history,
                   runnerVars, testing>>

\* The subtask at the iterator is sent to the address that was answered.
RunnerFound(c) ==
    /\ c.stage = "find" /\ answer[Asker(c)] \in Entries
    /\ Distributor!RunnerFound(c)
    /\ Arrives([c EXCEPT !.stage = "run", !.of = pending[c.node].task],
               answer[Asker(c)].actor)
    /\ UNCHANGED <<serviceVars, testerVars>>

FindFails(c) ==
    /\ c.stage = "find" /\ answer[Asker(c)] \in {ServiceNotFound, RuntimeError}
    /\ Distributor!Fails(c)
    /\ UNCHANGED <<serviceVars, runnerVars, testerVars>>

\* The request comes back from the mailbox of a dead runner.
RunnerFails(c) ==
    /\ \E r \in Runners : \E i \in DOMAIN tasks[r] : tasks[r][i] = c /\ Bounces(r, i)
    /\ Distributor!Fails(c)
    /\ UNCHANGED <<serviceVars, testerVars>>

\* Without retries the error of a subtask is the reply to the task at the iterator.
ErrorReceived(c) ==
    /\ Distributor!ErrorReceived(c)
    /\ UNCHANGED <<serviceVars, runnerVars, testerVars>>

\* A response whose iterator dangles (see SplitAggregate).
IsStray(c) == Distributor!StrayHasNoEffect(c) \/ Distributor!StrayCrashes(c)

StrayReceived(c) ==
    /\ \/ c.stage = "failed"
       \/ c.stage = "find" /\ answer[Asker(c)] \in Entries
    /\ IsStray(c)
    /\ UNCHANGED <<serviceVars, runnerVars, testerVars>>

DistributorStep(c) ==
    /\ ~ crashed
    /\ \/ RunnerFound(c)
       \/ FindFails(c)
       \/ RunnerFails(c)
       \/ ErrorReceived(c)
       \/ StrayReceived(c)

-----------------------------------------------------------------------------
(***************************************************************************)
(* The runners, and the whole                                              *)
(***************************************************************************)
\* Deliberately wrong variant: a subtask is not answered when it took long.
RunnerTreatsSilently(r) ==
    /\ Treats(r)
    /\ IF r \in busy
       THEN UNCHANGED <<distributorVars, crashed>>
       ELSE Distributor!ResultReceived(Head(tasks[r])) \/ IsStray(Head(tasks[r]))
    /\ UNCHANGED <<serviceVars, testerVars>>

\* The handler of a subtask ends, and its result goes to the distributor.
RunnerTreats(r) ==
    /\ Treats(r)
    /\ Distributor!ResultReceived(Head(tasks[r])) \/ IsStray(Head(tasks[r]))
    /\ UNCHANGED <<serviceVars, testerVars>>

RunnerStep(r) == ~ crashed /\ RunnerTreats(r)

TesterStep == ~ crashed /\ (TesterEnds \/ \E t \in Tasks : TesterSends(t))

TaskStep == ~ crashed /\ \E t \in Tasks : TaskReceived(t)

Beside == UNCHANGED <<distributorVars, testerVars>>

\* Steps of the registering service, and of runners and monitors beside it.
RegistryStepHere == RegistryStep /\ Beside /\ UNCHANGED runnerVars

ManagerStepHere(m) == ManagerStep(m) /\ Beside /\ UNCHANGED runnerVars

MonitoringStep(e) == ~ crashed /\ MonitorGivesUp(e) /\ Beside /\ UNCHANGED runnerVars

RunnersBeside ==
    /\ ~ crashed
    /\ \/ RunnerActs /\ UNCHANGED runnerVars
       \/ \E e \in Enrolments : FalseAlarm(e)
       \/ \E r \in Runners : ReceiverEndsRunner(r)
       \/ RunnersTrouble
    /\ Beside

GridNext ==
    \/ RegistryStepHere
    \/ \E m \in Managers : ManagerStepHere(m)
    \/ RunnersBeside
    \/ \E e \in Enrolments : MonitoringStep(e)
    \/ \E c \in Outstanding : DistributorStep(c)
    \/ \E r \in Runners : RunnerStep(r)
    \/ TesterStep
    \/ TaskStep

GridSpec == GridInit /\ [][GridNext]_gridVars

\* CAF runs the actors that have messages, and monitors whose timers are due, in
\* any order: what they are given to do is finite.  A long task ends in the end,
\* except on a runner that may hang; testers, registrations, receivers and false
\* alarms owe nothing.
GridFairness ==
    /\ WF_gridVars(RegistryStepHere)
    /\ WF_gridVars(\E m \in Managers : ManagerStepHere(m))
    /\ WF_gridVars(\E e \in Enrolments : MonitoringStep(e))
    /\ WF_gridVars(TaskStep)
    /\ WF_gridVars(\E c \in Outstanding : DistributorStep(c))
    /\ \A r \in Runners : WF_gridVars((r \notin busy \/ r \notin Hanging) /\ RunnerStep(r))

-----------------------------------------------------------------------------
(***************************************************************************)
(* Properties                                                              *)
(***************************************************************************)
IsFindOf(msg, client) == msg.type = "find" /\ msg.client = client

\* Where a client's find is: at <<0, i>> in the mailbox of the registering service,
\* or at <<m, i>> in that of the manager m.
FindsUnderWay(client) ==
    {<<0, i>> : i \in {j \in DOMAIN inbox : IsFindOf(inbox[j], client)}} \cup
    UNION {{<<m, i>> : i \in {j \in DOMAIN box[m] : IsFindOf(box[m][j], client)}} :
              m \in Managers}

Held(c) == UNION {{<<r, i>> : i \in {j \in DOMAIN tasks[r] : tasks[r][j] = c}} : r \in Runners}

\* distributeOne: every request of the distributor is in exactly one place, even
\* when tasks have failed and iterators dangle.  A find is in one mailbox of the
\* registering service or its managers, or answered; a subtask is in the mailbox
\* of one runner.  None is lost on the way between the three, and none doubled.
RequestsAreInOnePlace ==
    ~ crashed =>
       /\ \A s \in Clients : asked[s] # NoService =>
             Cardinality(FindsUnderWay(s)) = IF answer[s] = NoAnswer THEN 1 ELSE 0
       /\ \A c \in Continuations : c.stage = "run" => Cardinality(Held(c)) = inflight[c]

\* A request is where somebody will handle it: a find is in a mailbox or answered, a
\* subtask in the mailbox of a runner, and an error has come back.
IsUnderWay(c) ==
    /\ inflight[c] > 0
    /\ c.stage = "find" => FindsUnderWay(Asker(c)) # {} \/ answer[Asker(c)] # NoAnswer
    /\ c.stage = "run" => Held(c) # {}

\* Nobody waits in vain: a task that was received and not answered is pending, and
\* some of its subtasks have no result; each of those is under way, whatever has
\* failed, and whosever continuations point to its element as well.
EveryTaskIsUnderWay ==
    ~ crashed =>
       \A t \in Tasks : pieces[t] # NotAsked /\ reply[t] = NoAnswer =>
          \E n \in Nodes :
             /\ pending[n] # Free /\ pending[n].task = t
             /\ \E i \in DOMAIN pending[n].hasRes : ~ pending[n].hasRes[i]
             /\ \A i \in DOMAIN pending[n].hasRes :
                   \/ pending[n].hasRes[i]
                   \/ \E c \in Continuations : c.node = n /\ c.index = i /\ IsUnderWay(c)

\* A task fails only because somebody who was given a subtask has died, or because
\* whoever asked for a runner did so when none was registered, and then was told so
\* (but see FindSucceeds for the causes).  Unregistrations, emptied managers, long
\* tasks and false alarms do no harm to it: a runner that was given up and forgotten
\* with subtasks in its mailbox still treats them, as long as it lives.
NoNeedlessFailure ==
    overtaxed \/ (\E t \in Tasks : reply[t] = Error) =>
       \/ causes # {}
       \/ \E s \in Clients :
             \/ answer[s] \in Entries /\ answer[s].actor \notin alive
             \/ answer[s] \in {ServiceNotFound, RuntimeError} /\ s \notin promised

\* What the distributor promises (TaskService) it keeps in the grid: whatever the
\* registry answers and the runners do, and in whatever order, a tester is answered
\* once, with the results of all the subtasks of its own task in their places or,
\* after one of them failed, with an error - as long as nothing overtaxes it.
ServesTasks == Distributor!ImplementsTaskService

\* A subtask of what is at the address of the task is at a runner that hangs.
IsStuck(t) ==
    \E r \in busy \cap Hanging : \E i \in DOMAIN tasks[r] :
       LET node == pending[tasks[r][i].node] IN node # Free /\ node.task = t

\* Every task that was sent is answered while the process lives, unless its runner
\* hangs: also one that takes over the element of a failed task whose continuations
\* still point to it, and one that its tester left behind.
OnlyStuckTasksWait ==
    \A t \in Tasks : IsSent(t) ~> reply[t] # NoAnswer \/ IsStuck(t) \/ crashed

\* A runner that died, or hangs, is forgotten: from some time on no subtask is
\* sent to it.
GoneAreForgotten ==
    \A r \in Runners :
       <>[](r \notin alive \/ r \in busy) =>
          <>[](crashed \/ \A e \in enrolled : e.runner = r => ~ Listed(e))
=============================================================================
