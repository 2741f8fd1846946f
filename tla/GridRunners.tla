----------------------------- MODULE GridRunners -----------------------------
(***************************************************************************)
(* The runners of the client program (client/entry.cpp) beside the         *)
(* registering service: a runner treats the requests in its mailbox one    *)
(* after the other, and has a heartbeat_receiver that ends it when no      *)
(* monitor is heard any more.  What a request is, and whom its result goes *)
(* to, is left to the modules that add a distributor.                      *)
(*                                                                         *)
(* Registration leaves open who is given up and who ends.  Here a monitor  *)
(* must give up a runner that is dead or in a long task, and may give up   *)
(* any other; a receiver ends its runner when nobody watches it.           *)
(***************************************************************************)
EXTENDS Registration

CONSTANTS serviceName,       \* of the distributor
          MaxTroubles,       \* bound on what goes wrong with runners
          Hanging            \* runners whose long tasks need not end

VARIABLES tasks,        \* requests in the mailbox of each runner, dead or alive
          busy,         \* runners in a task that takes longer than three pulses
          troubles      \* what is left of MaxTroubles

runnerVars == <<tasks, busy, troubles>>

ASSUME GridRunnersAssumption ==
    /\ serviceName \in Services
    /\ MaxTroubles \in Nat
    /\ Hanging \subseteq Runners

RunnersInit ==
    /\ tasks = [r \in Runners |-> <<>>]
    /\ busy = {}
    /\ troubles = MaxTroubles

-----------------------------------------------------------------------------
(***************************************************************************)
(* Requests                                                                *)
(***************************************************************************)
Arrives(request, r) ==
    /\ tasks' = [tasks EXCEPT ![r] = Append(@, request)]
    /\ UNCHANGED <<busy, troubles>>

\* The handler of a request ends, and its result is sent.
Treats(r) ==
    /\ r \in alive /\ tasks[r] # <<>>
    /\ tasks' = [tasks EXCEPT ![r] = Tail(@)]
    /\ busy' = busy \ {r}
    /\ UNCHANGED troubles

\* A request to a runner that is dead, or dies with it, is answered an error;
\* nothing orders these errors.
Bounces(r, i) ==
    /\ r \notin alive /\ i \in DOMAIN tasks[r]
    /\ tasks' = [tasks EXCEPT ![r] = RemoveAt(@, i)]
    /\ UNCHANGED <<busy, troubles>>

-----------------------------------------------------------------------------
(***************************************************************************)
(* What may happen to a runner                                             *)
(***************************************************************************)
Trouble == troubles > 0 /\ troubles' = troubles - 1

\* A runner is in one handler for longer than a monitor waits for heartbeats.
TaskTakesLong(r) ==
    /\ r \in alive \ busy /\ tasks[r] # <<>>
    /\ Trouble
    /\ busy' = busy \cup {r}
    /\ UNCHANGED <<vars, tasks>>

IsWatched(r) == \E e \in Enrolments : e.runner = r /\ monitors[e] > 0

\* afterTimeout of the receiver: no monitor sends heartbeats.
HearsNothing(r) == ~ IsWatched(r)

Ends(r) ==
    /\ RunnerDies(r)
    /\ busy' = busy \ {r}
    /\ UNCHANGED tasks

\* The receiver sends its runner an exit message, taken between two handlers.
\* A runner that was never registered has not heard a heartbeat either.
ReceiverEndsRunner(r) ==
    /\ r \notin busy /\ HearsNothing(r)
    /\ Ends(r)
    /\ IF \A e \in enrolled : e.runner # r THEN Trouble ELSE UNCHANGED troubles

RunnerCrashes(r) ==
    /\ Ends(r)
    /\ Trouble

\* A monitor gives up a runner that is dead or in a long task: it hears no reply.
MonitorGivesUp(e) ==
    /\ e.runner \notin alive \/ e.runner \in busy
    /\ MonitorReports(e)
    /\ UNCHANGED <<registry, managers, environment, asked, answer, crashed, history>>

\* It may give up a runner that lives and is in no long task: heartbeats wait behind
\* short subtasks in its mailbox, or on the way, for longer than the timeout.
FalseAlarm(e) ==
    /\ e.runner \notin busy
    /\ MonitorFiresFalsely(e)
    /\ UNCHANGED runnerVars

\* A runner in a long task does nothing else.
RunnerActs ==
    \/ \E r \in Runners \ busy, s \in Services : RunnerRegisters(r, s)
    \/ \E e \in enrolled : e.runner \notin busy /\ RunnerUnregisters(e)

RunnersTrouble == \E r \in Runners : TaskTakesLong(r) \/ RunnerCrashes(r)

ServiceStep == RegistryStep \/ \E m \in Managers : ManagerStep(m)

=============================================================================
