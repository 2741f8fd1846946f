----------------------------- MODULE Grid_proofs -----------------------------
(***************************************************************************)
(* Proofs about the grid as a whole, for any number of runners, tasks,     *)
(* subtasks, list elements and registrations: what is proved of the        *)
(* registering service on its own holds beside a distributor, no request   *)
(* is lost or doubled between distributor, registering service, managers   *)
(* and runners, every task that waits waits for somebody, and no task      *)
(* fails without a death or an empty registry.                             *)
(***************************************************************************)
EXTENDS Grid, Registration_proofs, FiniteSetTheorems

DistributorProofs == INSTANCE SplitAggregate_proofs WITH answer <- reply

-----------------------------------------------------------------------------
(***************************************************************************)
(* What the steps of the grid are to the registering service               *)
(***************************************************************************)

\* A task asks for all of its subtasks in one burst.
Bursts(t) ==
    /\ asked' = [c \in Clients |-> IF c.task = t THEN serviceName ELSE asked[c]]
    /\ inbox' = inbox \o [i \in 1 .. MaxPieces |->
                    [type |-> "find", service |-> serviceName, client |-> Subtask(t, i)]]
    /\ budget' \in [Spending -> Nat]
    /\ UNCHANGED <<registry, managers, monitors, alive, answer, crashed, history>>

\* Distributor and runners leave everything alone but the process.
Idles == UNCHANGED serviceVars /\ crashed' \in BOOLEAN

LEMMA MonitorGivesUpEffect ==
    ASSUME TypeInv, NEW e \in Enrolments, MonitorGivesUp(e)
    PROVE  EnvironmentEffect
<1> DEFINE msg == [type |-> "unregister", service |-> e.service, id |-> e.id]
<1>1. /\ monitors' \in [Enrolments -> Nat]
      /\ msg \in RegistryMessages /\ msg.type # "find"
      /\ inbox' = Append(inbox, msg)
      /\ \A f \in Enrolments : f # e => monitors'[f] = monitors[f]
  BY ReportEffect DEF MonitorGivesUp, TypeInv
<1>2. UNCHANGED <<registry, managers, environment, asked, answer, crashed, history>>
  BY DEF MonitorGivesUp
<1>3. \A f \in Enrolments :
         \/ monitors'[f] = monitors[f]
         \/ msg = [type |-> "unregister", service |-> f.service, id |-> f.id]
  BY <1>1
<1> HIDE DEF msg
<1>4. /\ budget \in [Spending -> Nat] /\ alive \subseteq Runners
      /\ asked \in [Clients -> Services \cup {NoService}]
  BY DEF TypeInv, TypeOK
<1>5. QED
  BY <1>1, <1>2, <1>3, <1>4 DEF EnvironmentEffect, environment

LEMMA TaskReceivedEffect ==
    ASSUME TypeInv, NEW t \in Tasks, TaskReceived(t)
    PROVE  /\ Bursts(t)
           /\ pieces[t] = NotAsked
           /\ UNCHANGED runnerVars
<1>1. budget' \in [Spending -> Nat] /\ UNCHANGED alive
  BY DEF TaskReceived, environment, TypeInv, TypeOK
<1>2. pieces[t] = NotAsked /\ crashed' = crashed
  BY DEF TaskReceived, Distributor!Request
<1>3. QED
  BY <1>1, <1>2 DEF TaskReceived, Bursts

\* The tester takes nothing from the registering service or from a runner.
LEMMA TesterEffect ==
    ASSUME TypeInv, TesterStep
    PROVE  /\ UNCHANGED <<distributorVars, runnerVars>>
           /\ UNCHANGED <<alive, inbox, asked, monitors>>
           /\ EnvironmentEffect
<1>1. /\ budget \in [Spending -> Nat] /\ alive \subseteq Runners
      /\ asked \in [Clients -> Services \cup {NoService}]
      /\ monitors \in [Enrolments -> Nat]
  BY DEF TypeInv, TypeOK
<1>2. ASSUME NEW t \in Tasks, TesterSends(t)
      PROVE  /\ UNCHANGED <<distributorVars, runnerVars>>
             /\ UNCHANGED <<alive, inbox, asked, monitors>>
             /\ EnvironmentEffect
  <2>1. budget' \in [Spending -> Nat]
    BY <1>2, SpendType DEF TesterSends, TypeInv
  <2>2. /\ UNCHANGED <<inbox, registry, managers, monitors, alive, asked, answer, crashed>>
        /\ UNCHANGED <<history, distributorVars, runnerVars>>
    BY <1>2 DEF TesterSends
  <2>3. QED
    BY <1>1, <2>1, <2>2 DEF EnvironmentEffect
<1>3. CASE TesterEnds
  <2>1. /\ UNCHANGED <<inbox, registry, managers, monitors, environment, asked, answer>>
        /\ UNCHANGED <<crashed, history, distributorVars, runnerVars>>
    BY <1>3 DEF TesterEnds, vars
  <2>2. QED
    BY <1>1, <2>1 DEF EnvironmentEffect, environment
<1>4. QED
  BY <1>2, <1>3 DEF TesterStep

LEMMA DistributorIdles ==
    ASSUME TypeInv,
           \/ \E c \in Outstanding : DistributorStep(c)
           \/ \E r \in Runners : RunnerStep(r)
    PROVE  Idles
<1>1. crashed \in BOOLEAN
  BY DEF TypeInv, TypeOK
<1>2. ASSUME NEW c, DistributorStep(c)
      PROVE  Idles
  <2>1. UNCHANGED serviceVars
    BY <1>2 DEF DistributorStep, RunnerFound, FindFails, RunnerFails, ErrorReceived,
       StrayReceived
  <2>2. crashed' = crashed \/ crashed' = TRUE
    BY <1>2 DEF DistributorStep, RunnerFound, FindFails, RunnerFails, ErrorReceived,
       StrayReceived, IsStray, Distributor!RunnerFound, Distributor!Fails,
       Distributor!ErrorReceived, Distributor!StrayHasNoEffect, Distributor!StrayCrashes
  <2>3. QED
    BY <1>1, <2>1, <2>2 DEF Idles
<1>3. ASSUME NEW r, RunnerStep(r)
      PROVE  Idles
  <2>1. UNCHANGED serviceVars
    BY <1>3 DEF RunnerStep, RunnerTreats
  <2>2. crashed' = crashed \/ crashed' = TRUE
    BY <1>3 DEF RunnerStep, RunnerTreats, IsStray, Distributor!ResultReceived,
       Distributor!StrayHasNoEffect, Distributor!StrayCrashes
  <2>3. QED
    BY <1>1, <2>1, <2>2 DEF Idles
<1>4. QED
  BY <1>2, <1>3

\* What runners do beside their tasks is known to the registering service.
LEMMA RunnersBesideStep ==
    ASSUME RunnersBeside
    PROVE  [Next]_vars
<1>1. ~ crashed
  BY DEF RunnersBeside
<1>2. CASE RunnerActs
  BY <1>1, <1>2 DEF RunnerActs, Next, EnvironmentStep
<1>3. ASSUME NEW r \in Runners, ReceiverEndsRunner(r) \/ RunnerCrashes(r)
      PROVE  [Next]_vars
  BY <1>1, <1>3 DEF ReceiverEndsRunner, RunnerCrashes, Ends, Next, EnvironmentStep
<1>4. ASSUME NEW r \in Runners, TaskTakesLong(r)
      PROVE  [Next]_vars
  BY <1>4 DEF TaskTakesLong
<1>5. ASSUME NEW e \in Enrolments, FalseAlarm(e)
      PROVE  [Next]_vars
  BY <1>1, <1>5 DEF FalseAlarm, Next, EnvironmentStep
<1>6. QED
  BY <1>2, <1>3, <1>4, <1>5 DEF RunnersBeside, RunnersTrouble

LEMMA GridSteps ==
    ASSUME TypeInv, GridNext
    PROVE  \/ [Next]_vars
           \/ EnvironmentEffect
           \/ \E t \in Tasks : TaskReceived(t)
           \/ Idles
<1>1. CASE RegistryStepHere \/ \E m \in Managers : ManagerStepHere(m)
  BY <1>1 DEF RegistryStepHere, ManagerStepHere, Next
<1>2. CASE \E e \in Enrolments : MonitoringStep(e)
  BY <1>2, MonitorGivesUpEffect DEF MonitoringStep
<1>3. QED
  BY <1>1, <1>2, RunnersBesideStep, TesterEffect, DistributorIdles DEF GridNext, TaskStep

\* The subtasks of a task are clients, and its burst is a sequence of requests.
FindAt(t, k) == [type |-> "find", service |-> serviceName, client |-> Subtask(t, k)]

LEMMA SubtasksAreClients ==
    /\ \A t \in Tasks, k \in 1 .. MaxPieces : Subtask(t, k) \in Clients /\ Subtask(t, k).task = t
    /\ \A t, u : \A k, j : Subtask(t, k) = Subtask(u, j) => t = u /\ k = j
    /\ \A c \in Clients : c.task \in Tasks /\ c.index \in 1 .. MaxPieces
                             /\ c = Subtask(c.task, c.index)
    /\ \A c \in Continuations : Asker(c) \in Clients
<1>1. Clients = [task : Tasks, index : 1 .. MaxPieces]
  BY GridAssumption DEF Distributor!Results, Distributor!Indices
<1>2. \A t, u : \A k, j : Subtask(t, k) = Subtask(u, j) => t = u /\ k = j
  <2>1. SUFFICES ASSUME NEW t, NEW u, NEW k, NEW j, Subtask(t, k) = Subtask(u, j)
                 PROVE  t = u /\ k = j
    OBVIOUS
  <2>2. Subtask(t, k).task = t /\ Subtask(t, k).index = k
    BY DEF Subtask
  <2>3. Subtask(u, j).task = u /\ Subtask(u, j).index = j
    BY DEF Subtask
  <2>4. QED
    BY <2>1, <2>2, <2>3
<1>3. \A c \in Continuations : Asker(c) \in Clients
  BY <1>1 DEF Continuations, Distributor!Continuations, Distributor!Indices, Asker, Subtask
<1>4. QED
  BY <1>1, <1>2, <1>3 DEF Subtask

LEMMA BurstProperties ==
    ASSUME TypeInv, NEW t \in Tasks, Bursts(t)
    PROVE  /\ inbox \in Seq(RegistryMessages) /\ inbox' \in Seq(RegistryMessages)
           /\ Len(inbox) \in Nat
           /\ \A i \in DOMAIN inbox : i \in DOMAIN inbox' /\ inbox'[i] = inbox[i]
           /\ \A i \in DOMAIN inbox' :
                 \/ i \in DOMAIN inbox /\ inbox'[i] = inbox[i]
                 \/ \E k \in 1 .. MaxPieces : i = Len(inbox) + k /\ inbox'[i] = FindAt(t, k)
           /\ \A k \in 1 .. MaxPieces :
                 /\ Len(inbox) + k \in DOMAIN inbox' /\ Len(inbox) + k \notin DOMAIN inbox
                 /\ inbox'[Len(inbox) + k] = FindAt(t, k)
           /\ \A k \in 1 .. MaxPieces : FindAt(t, k) \in RegistryMessages
<1> DEFINE burst == [i \in 1 .. MaxPieces |-> FindAt(t, i)]
<1>1. inbox \in Seq(RegistryMessages) /\ MaxPieces \in Nat /\ serviceName \in Services
  BY GridAssumption, GridRunnersAssumption DEF TypeInv, TypeOK
<1>2. \A k \in 1 .. MaxPieces : FindAt(t, k) \in RegistryMessages
  BY <1>1, RegistryMessageTypes, SubtasksAreClients DEF FindAt
<1>3. burst \in Seq(RegistryMessages) /\ Len(burst) = MaxPieces
      /\ \A k \in 1 .. MaxPieces : burst[k] = FindAt(t, k)
  BY <1>1, <1>2
<1>4. inbox' = inbox \o burst
  BY DEF Bursts, FindAt
<1> HIDE DEF burst
<1>5. inbox' \in Seq(RegistryMessages) /\ Len(inbox') = Len(inbox) + MaxPieces
      /\ \A i \in 1 .. Len(inbox') :
            inbox'[i] = IF i <= Len(inbox) THEN inbox[i] ELSE burst[i - Len(inbox)]
  <2>1. inbox \o burst \in Seq(RegistryMessages)
        /\ Len(inbox \o burst) = Len(inbox) + Len(burst)
        /\ \A i \in 1 .. Len(inbox) + Len(burst) :
              (inbox \o burst)[i] = IF i <= Len(inbox) THEN inbox[i] ELSE burst[i - Len(inbox)]
    BY <1>1, <1>3, ConcatProperties
  <2>2. QED
    BY <1>3, <1>4, <2>1
<1>6. PICK n \in Nat : n = Len(inbox)
  BY <1>1
<1>7. DOMAIN inbox = 1 .. n /\ DOMAIN inbox' = 1 .. (n + MaxPieces)
  BY <1>1, <1>5, <1>6
<1>8. \A i \in 1 .. (n + MaxPieces) : i \in 1 .. n \/ (i - n \in 1 .. MaxPieces /\ i = n + (i - n))
  BY <1>1
<1>9. \A k \in 1 .. MaxPieces : n + k \in 1 .. (n + MaxPieces) /\ n + k \notin 1 .. n
                                   /\ ~ (n + k <= n) /\ n + k - n = k
  BY <1>1
<1>10. \A i \in DOMAIN inbox : i \in DOMAIN inbox' /\ inbox'[i] = inbox[i]
  BY <1>1, <1>5, <1>6, <1>7
<1>11. \A k \in 1 .. MaxPieces : inbox'[n + k] = FindAt(t, k)
  <2>1. \A k \in 1 .. MaxPieces : n + k \in 1 .. Len(inbox') /\ ~ (n + k <= Len(inbox))
                                   /\ n + k - Len(inbox) = k
    BY <1>3, <1>5, <1>6, <1>9
  <2>2. QED
    BY <1>3, <1>5, <2>1
<1>12. \A i \in DOMAIN inbox' :
          \/ i \in DOMAIN inbox /\ inbox'[i] = inbox[i]
          \/ \E k \in 1 .. MaxPieces : i = n + k /\ inbox'[i] = FindAt(t, k)
  BY <1>7, <1>8, <1>10, <1>11
<1>13. QED
  BY <1>1, <1>2, <1>5, <1>6, <1>7, <1>9, <1>10, <1>11, <1>12

-----------------------------------------------------------------------------
(***************************************************************************)
(* The registering service beside a distributor                            *)
(***************************************************************************)

\* What is proved in Registration_proofs, in one: types, no answer but of somebody
\* enrolled, one request of a client at a time, and nobody lost but for the causes.
ServiceInv == TypeInv /\ Traced /\ Single /\ Keeping

\* Whoever has no task received has asked for nothing.
AskedWithTask ==
    \A t \in Tasks : pieces[t] = NotAsked =>
       \A c \in Clients : c.task = t => asked[c] = NoService

LEMMA ServiceIdle ==
    ASSUME ServiceInv, Idles
    PROVE  ServiceInv'
<1>1. TypeInv'
  BY DEF ServiceInv, Idles, TypeInv, TypeOK, Spawned, IsRegistered, serviceVars, registry,
     managers, environment, history
<1>2. Traced'
  BY DEF ServiceInv, Idles, serviceVars, Traced, TracedTo, EnrolledAt, InboxTraced,
     UnaskedUnanswered, AnswersEnrolled, registry, managers, history
<1>3. Single'
  BY SingleStutter DEF ServiceInv, Idles, serviceVars, managers, history
<1>4. Keeping'
  BY KeepingStutter DEF ServiceInv, Idles, serviceVars, registry, managers, history
<1>5. QED
  BY <1>1, <1>2, <1>3, <1>4 DEF ServiceInv

LEMMA ServiceEnvironment ==
    ASSUME ServiceInv, EnvironmentEffect
    PROVE  ServiceInv'
<1>1. Keeping'
  BY KeepingStutter DEF ServiceInv, EnvironmentEffect, registry, managers, history
<1>2. QED
  BY <1>1, TypeEnvironment, TracedEnvironment, SingleEnvironment DEF ServiceInv

\* The clients of the task asked for nothing before, and nothing of them is under way.
LEMMA BurstAsks ==
    ASSUME ServiceInv, NEW t \in Tasks, Bursts(t),
           \A c \in Clients : c.task = t => asked[c] = NoService
    PROVE  /\ \A c \in Clients : c.task # t => asked'[c] = asked[c]
           /\ \A c \in Clients : c.task = t => asked'[c] = serviceName
           /\ \A c \in Clients : asked[c] # NoService => c.task # t /\ asked'[c] = asked[c]
           /\ \A c \in Clients : c.task = t => Waiting(c)
           /\ \A i \in DOMAIN inbox : inbox[i].type = "find" =>
                 inbox[i].client \in Clients /\ inbox[i].client.task # t
           /\ \A m \in Managers : \A j \in DOMAIN box[m] : box[m][j].type = "find" =>
                 /\ box[m][j].client \in Clients /\ box[m][j].client.task # t
                 /\ asked[box[m][j].client] = managerOf[m] /\ managerOf[m] # NoService
<1>1. asked' = [c \in Clients |-> IF c.task = t THEN serviceName ELSE asked[c]]
  BY DEF Bursts
<1>2. /\ inbox \in Seq(RegistryMessages)
      /\ asked \in [Clients -> Services \cup {NoService}]
      /\ box \in [Managers -> Seq(ManagerMessages)]
      /\ promised \subseteq Clients
  BY DEF ServiceInv, TypeInv, TypeOK
<1>3. ASSUME NEW i \in DOMAIN inbox, inbox[i].type = "find"
      PROVE  inbox[i].client \in Clients /\ inbox[i].client.task # t
  <2>1. /\ inbox[i].client \in Clients /\ inbox[i].service \in Services
        /\ asked[inbox[i].client] = inbox[i].service
    BY <1>2, <1>3, RegistryMessageFields DEF ServiceInv, Traced, InboxTraced
  <2>2. QED
    BY <2>1, NotServices
<1>4. ASSUME NEW m \in Managers, NEW j \in DOMAIN box[m], box[m][j].type = "find"
      PROVE  /\ box[m][j].client \in Clients /\ box[m][j].client.task # t
             /\ asked[box[m][j].client] = managerOf[m] /\ managerOf[m] # NoService
  <2>1. box[m][j] \in ManagerMessages /\ box[m] # <<>>
    BY <1>2
  <2>2. box[m][j].client \in Clients
    BY <1>4, <2>1, ManagerMessageFields
  <2>3. managerOf[m] \in Services
    BY <2>1 DEF ServiceInv, TypeInv, Spawned
  <2>4. asked[box[m][j].client] = managerOf[m]
    BY <1>4 DEF ServiceInv, Traced, TracedTo
  <2>5. QED
    BY <2>2, <2>3, <2>4, NotServices
<1>5. ASSUME NEW c \in Clients, c.task = t
      PROVE  Waiting(c)
  <2>1. answer[c] = NoAnswer /\ c \notin promised
    BY <1>5 DEF ServiceInv, Traced, UnaskedUnanswered, Single
  <2>2. \A m \in Managers : \A j \in DOMAIN box[m] : box[m][j] # FindOf(c)
    BY <1>4, <1>5 DEF FindOf
  <2>3. QED
    BY <2>1, <2>2 DEF Waiting
<1>6. QED
  BY <1>1, <1>3, <1>4, <1>5

LEMMA ServiceBurst ==
    ASSUME ServiceInv, NEW t \in Tasks, Bursts(t),
           \A c \in Clients : c.task = t => asked[c] = NoService
    PROVE  ServiceInv'
<1>0. /\ TypeInv /\ TypeOK /\ Traced /\ Single /\ Keeping /\ serviceName \in Services
      /\ promised \subseteq Clients
  BY GridRunnersAssumption DEF ServiceInv, TypeInv, TypeOK
<1>1. UNCHANGED <<registry, managers, monitors, alive, answer, crashed, history>>
      /\ budget' \in [Spending -> Nat]
  BY DEF Bursts
<1>2. TypeInv'
  <2>1. asked' \in [Clients -> Services \cup {NoService}]
    BY <1>0 DEF Bursts, TypeOK
  <2>2. inbox' \in Seq(RegistryMessages)
    BY <1>0, BurstProperties
  <2>3. TypeOK'
    BY <1>0, <1>1, <2>1, <2>2 DEF TypeOK, registry, managers, history
  <2>4. Spawned'
    BY <1>0, <1>1 DEF TypeInv, Spawned, IsRegistered, registry, managers
  <2>5. QED
    BY <2>3, <2>4 DEF TypeInv
<1>3. Traced'
  <2>1. ASSUME NEW m \in Managers
        PROVE  TracedTo(m)'
    <3>1. TracedTo(m) /\ UNCHANGED <<idsAndActors, box, managerOf, enrolled>>
      BY <1>0, <1>1 DEF Traced, registry, managers, history
    <3>2. \A j \in DOMAIN box[m] : box[m][j].type = "find" =>
             asked'[box[m][j].client] = managerOf[m]
      BY BurstAsks
    <3>3. QED
      BY <3>1, <3>2 DEF TracedTo, EnrolledAt
  <2>2. ASSUME NEW i \in DOMAIN inbox', inbox'[i].type = "find"
        PROVE  asked'[inbox'[i].client] = inbox'[i].service
    <3>1. CASE i \in DOMAIN inbox /\ inbox'[i] = inbox[i]
      <4>1. inbox[i].client \in Clients /\ inbox[i].client.task # t
            /\ asked[inbox[i].client] = inbox[i].service
        BY <1>0, <2>2, <3>1, BurstAsks DEF Traced, InboxTraced
      <4>2. QED
        BY <3>1, <4>1, BurstAsks
    <3>2. ASSUME NEW k \in 1 .. MaxPieces, inbox'[i] = FindAt(t, k)
          PROVE  asked'[inbox'[i].client] = inbox'[i].service
      <4>1. inbox'[i].client = Subtask(t, k) /\ inbox'[i].service = serviceName
        BY <3>2 DEF FindAt
      <4>2. QED
        BY <4>1, BurstAsks, SubtasksAreClients
    <3>3. QED
      BY <1>0, <3>1, <3>2, BurstProperties
  <2>3. UnaskedUnanswered' /\ AnswersEnrolled'
    <3>1. \A c \in Clients : asked'[c] = NoService => asked[c] = NoService
      BY BurstAsks
    <3>2. \A c \in Clients : answer[c] \in Entries => asked'[c] = asked[c]
      BY <1>0, BurstAsks, NotServices DEF Traced, UnaskedUnanswered
    <3>3. QED
      BY <1>0, <1>1, <3>1, <3>2 DEF Traced, UnaskedUnanswered, AnswersEnrolled, history
  <2>4. QED
    BY <2>1, <2>2, <2>3 DEF Traced, InboxTraced
<1>4. Single'
  <2>1. \A c : Waiting(c) => Waiting(c)'
    BY <1>1 DEF Waiting, FindOf, managers, history
  <2>2. ASSUME NEW i \in DOMAIN inbox', inbox'[i].type = "find"
        PROVE  \/ /\ i \in DOMAIN inbox /\ inbox'[i] = inbox[i]
                  /\ inbox[i].client.task # t
               \/ \E k \in 1 .. MaxPieces : /\ i = Len(inbox) + k
                                            /\ inbox'[i].client = Subtask(t, k)
                                            /\ inbox'[i].client.task = t
    <3>1. CASE i \in DOMAIN inbox /\ inbox'[i] = inbox[i]
      BY <2>2, <3>1, BurstAsks
    <3>2. ASSUME NEW k \in 1 .. MaxPieces, i = Len(inbox) + k, inbox'[i] = FindAt(t, k)
          PROVE  inbox'[i].client = Subtask(t, k) /\ inbox'[i].client.task = t
      BY <3>2, SubtasksAreClients DEF FindAt
    <3>3. QED
      BY <1>0, <3>1, <3>2, BurstProperties
  <2>3. \A i, j \in DOMAIN inbox' :
           inbox'[i].type = "find" /\ inbox'[j].type = "find"
              /\ inbox'[i].client = inbox'[j].client => i = j
    BY <1>0, <2>2, SubtasksAreClients DEF Single
  <2>4. ASSUME NEW i \in DOMAIN inbox', inbox'[i].type = "find"
        PROVE  Waiting(inbox[i].client)'
    <3>1. PICK d : d = inbox'[i].client /\ Waiting(d)
      BY <1>0, <2>2, <2>4, BurstAsks, SubtasksAreClients DEF Single
    <3>2. Waiting(d)'
      BY <2>1, <3>1
    <3>3. QED
      BY <3>1, <3>2 DEF Waiting, FindOf
  <2>5. \A d \in promised' : asked'[d] # NoService
    BY <1>0, <1>1, BurstAsks DEF Single, history
  <2>6. QED
    BY <2>3, <2>4, <2>5 DEF Single
<1>5. Keeping'
  BY <1>0, <1>1, KeepingStutter DEF registry, managers, history
<1>6. QED
  BY <1>2, <1>3, <1>4, <1>5 DEF ServiceInv

LEMMA ServiceInvStep ==
    ASSUME ServiceInv, AskedWithTask, [GridNext]_gridVars
    PROVE  ServiceInv'
<1>1. ASSUME [Next]_vars
      PROVE  ServiceInv'
  BY <1>1, TypeStep, TracedStep, SingleStep, KeepingStep DEF ServiceInv
<1>2. ASSUME NEW t \in Tasks, TaskReceived(t)
      PROVE  ServiceInv'
  <2>1. Bursts(t) /\ pieces[t] = NotAsked
    BY <1>2, TaskReceivedEffect DEF ServiceInv
  <2>2. QED
    BY <2>1, ServiceBurst DEF AskedWithTask
<1>3. CASE GridNext
  BY <1>1, <1>2, <1>3, GridSteps, ServiceEnvironment, ServiceIdle DEF ServiceInv
<1>4. CASE UNCHANGED gridVars
  BY <1>1, <1>4 DEF gridVars
<1>5. QED
  BY <1>3, <1>4

-----------------------------------------------------------------------------
(***************************************************************************)
(* The distributor beside the registering service                          *)
(***************************************************************************)

\* A step of the grid is a step of the distributor as SplitAggregate has it, or
\* leaves it alone, unless the registering service ends the process.
LEMMA DistributorTaskReceived ==
    ASSUME NEW t \in Tasks, TaskReceived(t), ~ crashed
    PROVE  DistributorProofs!Next
<1>1. DistributorProofs!Request(t)
  BY DEF TaskReceived, Distributor!Request, DistributorProofs!Request, Distributor!NewNode,
     DistributorProofs!NewNode, Distributor!Find, DistributorProofs!Find,
     Distributor!Continuations, DistributorProofs!Continuations,
     Distributor!Indices, DistributorProofs!Indices
<1>2. QED
  BY <1>1 DEF DistributorProofs!Next, DistributorProofs!Environment

LEMMA SameContinuations ==
    Continuations = DistributorProofs!Continuations
  BY DEF Continuations, Distributor!Continuations, DistributorProofs!Continuations,
     Distributor!Indices, DistributorProofs!Indices

LEMMA SameRunnerFound ==
    ASSUME NEW c, Distributor!RunnerFound(c)
    PROVE  DistributorProofs!RunnerFound(c)
  BY DEF Distributor!RunnerFound, DistributorProofs!RunnerFound,
     Distributor!IsValid, DistributorProofs!IsValid, Distributor!Size, DistributorProofs!Size,
     Distributor!HandledBySending, DistributorProofs!HandledBySending

LEMMA SameFails ==
    ASSUME NEW c, Distributor!Fails(c)
    PROVE  DistributorProofs!Fails(c)
  BY DEF Distributor!Fails, DistributorProofs!Fails,
     Distributor!HandledBySending, DistributorProofs!HandledBySending

LEMMA SameResultReceived ==
    ASSUME NEW c, Distributor!ResultReceived(c)
    PROVE  DistributorProofs!ResultReceived(c)
  BY DEF Distributor!ResultReceived, DistributorProofs!ResultReceived,
     Distributor!IsValid, DistributorProofs!IsValid, Distributor!Size, DistributorProofs!Size,
     Distributor!Handled, DistributorProofs!Handled,
     Distributor!HasFinishedTheTreatment, DistributorProofs!HasFinishedTheTreatment,
     Distributor!retryOnFailure, DistributorProofs!retryOnFailure,
     Distributor!maxRetryCount, DistributorProofs!maxRetryCount

LEMMA SameErrorReceived ==
    ASSUME NEW c, Distributor!ErrorReceived(c)
    PROVE  DistributorProofs!ErrorReceived(c)
  BY DEF Distributor!ErrorReceived, DistributorProofs!ErrorReceived,
     Distributor!IsValid, DistributorProofs!IsValid, Distributor!Size, DistributorProofs!Size,
     Distributor!Handled, DistributorProofs!Handled, Distributor!Find, DistributorProofs!Find,
     Distributor!HandledBySending, DistributorProofs!HandledBySending,
     Distributor!Retry, DistributorProofs!Retry, Distributor!GiveUp, DistributorProofs!GiveUp,
     Distributor!MayRetry, DistributorProofs!MayRetry,
     Distributor!Overtaxes, DistributorProofs!Overtaxes,
     Distributor!retryOnFailure, DistributorProofs!retryOnFailure,
     Distributor!canReplyOnFailedSubtask, DistributorProofs!canReplyOnFailedSubtask,
     Distributor!maxRetryCount, DistributorProofs!maxRetryCount

LEMMA SameStray ==
    ASSUME NEW c, IsStray(c)
    PROVE  DistributorProofs!StrayHasNoEffect(c) \/ DistributorProofs!StrayCrashes(c)
  BY DEF IsStray, Distributor!StrayHasNoEffect, DistributorProofs!StrayHasNoEffect,
     Distributor!StrayCrashes, DistributorProofs!StrayCrashes,
     Distributor!IsValid, DistributorProofs!IsValid, Distributor!Size, DistributorProofs!Size,
     Distributor!Handled, DistributorProofs!Handled

\* What SplitAggregate assumes of its constants, GridAssumption says of ours.
LEMMA DistributorAssumption ==
    /\ MaxPieces \in Nat
    /\ MaxFailures \in Nat
    /\ Configurations \subseteq
          [retryOnFailure : BOOLEAN, canReplyOnFailedSubtask : BOOLEAN, maxRetryCount : Nat]
    /\ NotAsked \notin Nat
    /\ NoAnswer # Error
    /\ NoAnswer \notin Seq(DistributorProofs!Results \cup {NoResult})
    /\ NoResult \notin DistributorProofs!Results
    /\ Free \notin DistributorProofs!TaskNodes
<1>1. /\ DistributorProofs!Results = Distributor!Results
      /\ DistributorProofs!TaskNodes = Distributor!TaskNodes
  BY DEF DistributorProofs!Results, Distributor!Results, DistributorProofs!Indices,
     Distributor!Indices, DistributorProofs!TaskNodes, Distributor!TaskNodes
<1>2. QED
  BY <1>1, GridAssumption DEF Configurations, Distributor!Aggregates

LEMMA DistributorInit ==
    ASSUME GridInit
    PROVE  DistributorProofs!IInv
<1>1. DistributorProofs!Init
  BY DEF GridInit, Distributor!Init, DistributorProofs!Init,
     Distributor!Continuations, DistributorProofs!Continuations,
     Distributor!Indices, DistributorProofs!Indices
<1>2. QED
  BY <1>1, DistributorProofs!IInvInit, DistributorAssumption

\* The mailboxes of the runners hold requests of the distributor.
TasksType == tasks \in [Runners -> Seq(Continuations)]

LEMMA DistributorSteps ==
    ASSUME TasksType, GridNext
    PROVE  DistributorProofs!Next \/ UNCHANGED distributorVars
<1>1. CASE \/ RegistryStepHere \/ RunnersBeside
           \/ \E m \in Managers : ManagerStepHere(m)
           \/ \E e \in Enrolments : MonitoringStep(e)
           \/ TesterStep
  BY <1>1 DEF RegistryStepHere, RunnersBeside, ManagerStepHere, MonitoringStep, Beside,
     TesterStep, TesterSends, TesterEnds
<1>2. CASE TaskStep
  BY <1>2, DistributorTaskReceived DEF TaskStep
<1>3. ASSUME NEW c \in Outstanding, DistributorStep(c)
      PROVE  DistributorProofs!Next
  <2>1. c \in DistributorProofs!Continuations /\ ~ crashed
    BY <1>3, SameContinuations DEF Outstanding, DistributorStep
  <2>2. CASE RunnerFound(c)
    BY <2>1, <2>2, SameRunnerFound
    DEF RunnerFound, DistributorProofs!Next, DistributorProofs!Answered
  <2>3. CASE FindFails(c) \/ RunnerFails(c)
    BY <2>1, <2>3, SameFails
    DEF FindFails, RunnerFails, DistributorProofs!Next, DistributorProofs!Environment
  <2>4. CASE ErrorReceived(c)
    BY <2>1, <2>4, SameErrorReceived
    DEF ErrorReceived, DistributorProofs!Next, DistributorProofs!Answered
  <2>5. CASE StrayReceived(c)
    BY <2>1, <2>5, SameStray
    DEF StrayReceived, DistributorProofs!Next, DistributorProofs!Answered
  <2>6. QED
    BY <1>3, <2>2, <2>3, <2>4, <2>5 DEF DistributorStep
<1>4. ASSUME NEW r \in Runners, RunnerStep(r)
      PROVE  DistributorProofs!Next
  <2>1. /\ ~ crashed /\ tasks[r] # <<>>
        /\ Distributor!ResultReceived(Head(tasks[r])) \/ IsStray(Head(tasks[r]))
    BY <1>4 DEF RunnerStep, RunnerTreats, Treats
  <2>2. Head(tasks[r]) \in Continuations
    BY <2>1, TailOf DEF TasksType
  <2>3. QED
    BY <2>1, <2>2, SameContinuations, SameResultReceived, SameStray
    DEF DistributorProofs!Next, DistributorProofs!Answered
<1>5. QED
  BY <1>1, <1>2, <1>3, <1>4 DEF GridNext

\* Nothing happens once the process has ended.
LEMMA NotCrashedYet ==
    ASSUME GridNext
    PROVE  ~ crashed
  BY DEF GridNext, RegistryStepHere, RegistryStep, ManagerStepHere, ManagerStep, RunnersBeside,
     MonitoringStep, DistributorStep, RunnerStep, TesterStep, TaskStep

\* The distributor keeps its invariant until the process ends, also when the
\* registering service ends it.
LEMMA DistributorInvStep ==
    ASSUME ServiceInv', TasksType, DistributorProofs!IInv, GridNext
    PROVE  crashed' \/ DistributorProofs!IInv'
<1>1. CASE DistributorProofs!Next
  BY <1>1, DistributorProofs!IInvStep, DistributorAssumption
<1>2. CASE UNCHANGED distributorVars /\ UNCHANGED crashed
  <2>1. UNCHANGED DistributorProofs!vars
    BY <1>2 DEF distributorVars, DistributorProofs!vars
  <2>2. QED
    BY <2>1, DistributorProofs!IInvStep, DistributorAssumption
<1>3. CASE UNCHANGED distributorVars /\ crashed' # crashed
  <2>1. crashed \in BOOLEAN /\ crashed' \in BOOLEAN
    BY DEF ServiceInv, TypeInv, TypeOK, DistributorProofs!IInv, DistributorProofs!TypeOK
  <2>2. ~ crashed
    BY NotCrashedYet
  <2>3. QED
    BY <1>3, <2>1, <2>2
<1>4. QED
  BY <1>1, <1>2, <1>3, DistributorSteps

\* Only a task that is received asks for runners and is split.
LEMMA OnlyTaskReceivedAsks ==
    ASSUME GridNext
    PROVE  UNCHANGED <<asked, pieces>> \/ \E t \in Tasks : TaskReceived(t)
<1>1. CASE RegistryStep /\ Beside
  BY <1>1 DEF RegistryStep, HandleRegister, HandleRegisterAs, HandleUnregister,
     HandleUnregisterAll, HandleRemove, HandleRemoveCrashes, HandleFind, HandleExit,
     HandleExitCrashes, Beside, distributorVars
<1>2. CASE Beside /\ \E m \in Managers : ManagerStep(m)
  BY <1>2 DEF ManagerStep, ManagerAdds, ManagerRemoves, ManagerRemoveCrashes, ManagerAnswers,
     ManagerExits, Beside, distributorVars
<1>3. CASE RunnersBeside
  BY <1>3 DEF RunnersBeside, RunnerActs, RunnerRegisters, RunnerUnregisters,
     FalseAlarm, MonitorFiresFalsely, MonitorReports,
     ReceiverEndsRunner, RunnersTrouble, TaskTakesLong, RunnerCrashes, Ends, RunnerDies,
     vars, Beside, distributorVars
<1>4. CASE \E e \in Enrolments : MonitoringStep(e)
  BY <1>4 DEF MonitoringStep, MonitorGivesUp, Beside, distributorVars
<1>5. CASE \E c \in Outstanding : DistributorStep(c)
  BY <1>5 DEF DistributorStep, RunnerFound, FindFails, RunnerFails, ErrorReceived,
     StrayReceived, IsStray, serviceVars, Distributor!RunnerFound, Distributor!Fails,
     Distributor!ErrorReceived, Distributor!StrayHasNoEffect, Distributor!StrayCrashes
<1>6. CASE \E r \in Runners : RunnerStep(r)
  BY <1>6 DEF RunnerStep, RunnerTreats, IsStray, serviceVars, Distributor!ResultReceived,
     Distributor!StrayHasNoEffect, Distributor!StrayCrashes
<1>7. CASE TesterStep
  BY <1>7 DEF TesterStep, TesterSends, TesterEnds, vars, distributorVars
<1>8. QED
  BY <1>1, <1>2, <1>3, <1>4, <1>5, <1>6, <1>7
  DEF GridNext, RegistryStepHere, ManagerStepHere, TaskStep

\* A task is received once, and its subtasks ask when it is.
LEMMA AskedWithTaskStep ==
    ASSUME DistributorProofs!IInv, AskedWithTask, GridNext
    PROVE  AskedWithTask'
<1>1. CASE UNCHANGED <<asked, pieces>>
  BY <1>1 DEF AskedWithTask
<1>2. ASSUME NEW t \in Tasks, TaskReceived(t)
      PROVE  AskedWithTask'
  <2>1. pieces \in [Tasks -> (0 .. MaxPieces) \cup {NotAsked}]
    BY DEF DistributorProofs!IInv, DistributorProofs!TypeOK
  <2>2. /\ pieces'[t] = MaxPieces /\ MaxPieces # NotAsked
        /\ \E size \in 0 .. MaxPieces : pieces' = [pieces EXCEPT ![t] = size]
        /\ asked' = [c \in Clients |-> IF c.task = t THEN serviceName ELSE asked[c]]
    BY <1>2, GridAssumption DEF TaskReceived, Distributor!Request
  <2>3. SUFFICES ASSUME NEW u \in Tasks, pieces'[u] = NotAsked, NEW c \in Clients, c.task = u
                 PROVE  asked'[c] = NoService
    BY DEF AskedWithTask
  <2>4. u # t /\ pieces[u] = NotAsked
    BY <2>1, <2>2, <2>3
  <2>5. QED
    BY <2>2, <2>3, <2>4 DEF AskedWithTask
<1>3. QED
  BY <1>1, <1>2, OnlyTaskReceivedAsks

-----------------------------------------------------------------------------
(***************************************************************************)
(* A find is in one mailbox, or answered                                   *)
(***************************************************************************)

\* The find of s at position i of the mailbox n, which is the inbox if n is 0.
FindIsAt(s, n, i) ==
    \/ n = 0 /\ i \in DOMAIN inbox /\ IsFindOf(inbox[i], s)
    \/ n \in Managers /\ i \in DOMAIN box[n] /\ IsFindOf(box[n][i], s)

IsNowhere(s) == \A n, i : ~ FindIsAt(s, n, i)

IsOnlyAt(s, n, i) ==
    /\ FindIsAt(s, n, i)
    /\ \A m, j : FindIsAt(s, m, j) => m = n /\ j = i

\* Of the requests that are under way each is in one place.
FindsInOnePlace ==
    \A s \in Clients : asked[s] # NoService =>
       IF answer[s] = NoAnswer THEN \E n, i : IsOnlyAt(s, n, i) ELSE IsNowhere(s)

LEMMA FindsUnderWayAre ==
    ASSUME NEW s
    PROVE  \A x : x \in FindsUnderWay(s) <=> \E n, i : FindIsAt(s, n, i) /\ x = <<n, i>>
<1>1. 0 \notin Managers
  BY RegistrationAssumption DEF Managers
<1>2. QED
  BY <1>1 DEF FindsUnderWay, FindIsAt

LEMMA FindsAreCounted ==
    ASSUME FindsInOnePlace, NEW s \in Clients, asked[s] # NoService
    PROVE  Cardinality(FindsUnderWay(s)) = IF answer[s] = NoAnswer THEN 1 ELSE 0
<1>1. ASSUME NEW n, NEW i, IsOnlyAt(s, n, i)
      PROVE  Cardinality(FindsUnderWay(s)) = 1
  <2>1. FindsUnderWay(s) = {<<n, i>>}
    BY <1>1, FindsUnderWayAre DEF IsOnlyAt
  <2>2. QED
    BY <2>1, FS_Singleton
<1>2. ASSUME IsNowhere(s)
      PROVE  Cardinality(FindsUnderWay(s)) = 0
  <2>1. FindsUnderWay(s) = {}
    BY <1>2, FindsUnderWayAre DEF IsNowhere
  <2>2. QED
    BY <2>1, FS_EmptySet
<1>3. QED
  BY <1>1, <1>2 DEF FindsInOnePlace

HasPlace(s) == \E n, i : IsOnlyAt(s, n, i)

\* The find of s stays under way, or away.
Stays(s) == (HasPlace(s) => HasPlace(s)') /\ (IsNowhere(s) => IsNowhere(s)')

\* Neither first in the mailbox p, which moves on by one ...
LEMMA StaysMoving ==
    ASSUME NEW s, NEW p,
           \A n, i : n # p => (FindIsAt(s, n, i)' <=> FindIsAt(s, n, i)),
           \A i : FindIsAt(s, p, i)' <=> i \in Nat /\ FindIsAt(s, p, i + 1),
           \A i : FindIsAt(s, p, i) => i \in Nat /\ i - 1 \in Nat
    PROVE  Stays(s)
<1>1. ASSUME IsNowhere(s)
      PROVE  IsNowhere(s)'
  BY <1>1 DEF IsNowhere
<1>2. ASSUME NEW n, NEW i, IsOnlyAt(s, n, i), n # p
      PROVE  HasPlace(s)'
  <2>1. IsOnlyAt(s, n, i)'
    BY <1>2 DEF IsOnlyAt
  <2>2. QED
    BY <2>1 DEF HasPlace
<1>3. ASSUME NEW i, IsOnlyAt(s, p, i)
      PROVE  HasPlace(s)'
  <2>1. i \in Nat /\ i - 1 \in Nat /\ (i - 1) + 1 = i
    BY <1>3 DEF IsOnlyAt
  <2>2. PICK k \in Nat : i = k + 1
    BY <2>1
  <2>3. FindIsAt(s, p, k)'
    BY <1>3, <2>2 DEF IsOnlyAt
  <2>4. ASSUME NEW m, NEW j, FindIsAt(s, m, j)'
        PROVE  m = p /\ j = k
    <3>1. CASE m # p
      BY <1>3, <2>4, <3>1 DEF IsOnlyAt
    <3>2. CASE m = p
      <4>1. j \in Nat /\ j + 1 = i
        BY <1>3, <2>4, <3>2 DEF IsOnlyAt
      <4>2. QED
        BY <2>2, <3>2, <4>1
    <3>3. QED
      BY <3>1, <3>2
  <2>5. IsOnlyAt(s, p, k)'
    BY <2>3, <2>4 DEF IsOnlyAt
  <2>6. QED
    BY <2>5 DEF HasPlace
<1>4. QED
  BY <1>1, <1>2, <1>3 DEF Stays, HasPlace

\* ... or where it was.
LEMMA StaysPut ==
    ASSUME NEW s, \A n, i : FindIsAt(s, n, i)' <=> FindIsAt(s, n, i)
    PROVE  Stays(s)
<1>1. \A n, i : IsOnlyAt(s, n, i) => IsOnlyAt(s, n, i)'
  BY DEF IsOnlyAt
<1>2. QED
  BY <1>1 DEF Stays, HasPlace, IsNowhere

LEMMA StayingKeeps ==
    ASSUME FindsInOnePlace, asked' = asked, answer' = answer, \A s \in Clients : Stays(s)
    PROVE  FindsInOnePlace'
<1>1. \A s \in Clients : asked[s] # NoService =>
         IF answer[s] = NoAnswer THEN HasPlace(s) ELSE IsNowhere(s)
  BY DEF FindsInOnePlace, HasPlace
<1>2. \A s \in Clients : asked'[s] # NoService =>
         IF answer'[s] = NoAnswer THEN HasPlace(s)' ELSE IsNowhere(s)'
  BY <1>1 DEF Stays
<1>3. QED
  BY <1>2 DEF FindsInOnePlace, HasPlace

\* What happens to a mailbox: it gets a message that is not the find of s, or
\* its first message is taken.
LEMMA InboxGains ==
    ASSUME NEW s, inbox \in Seq(RegistryMessages), NEW msg \in RegistryMessages,
           inbox' = Append(inbox, msg), ~ IsFindOf(msg, s)
    PROVE  \A i : FindIsAt(s, 0, i)' <=> FindIsAt(s, 0, i)
<1>1. 0 \notin Managers
  BY RegistrationAssumption DEF Managers
<1>2. \A i \in DOMAIN inbox : i \in DOMAIN inbox' /\ inbox'[i] = inbox[i]
  BY AppendTo
<1>3. \A i \in DOMAIN inbox' : (i \in DOMAIN inbox /\ inbox'[i] = inbox[i]) \/ inbox'[i] = msg
  BY AppendTo
<1>4. QED
  BY <1>1, <1>2, <1>3 DEF FindIsAt, IsFindOf

LEMMA InboxTaken ==
    ASSUME NEW s, inbox \in Seq(RegistryMessages), inbox # <<>>, inbox' = Tail(inbox),
           ~ IsFindOf(Head(inbox), s)
    PROVE  /\ \A i : FindIsAt(s, 0, i)' <=> i \in Nat /\ FindIsAt(s, 0, i + 1)
           /\ \A i : FindIsAt(s, 0, i) => i \in Nat /\ i - 1 \in Nat
<1>1. 0 \notin Managers
  BY RegistrationAssumption DEF Managers
<1>2. /\ inbox[1] = Head(inbox)
      /\ \A i \in DOMAIN inbox : i \in Nat
      /\ \A i \in DOMAIN inbox' : i \in Nat /\ i + 1 \in DOMAIN inbox /\ inbox'[i] = inbox[i + 1]
      /\ \A i \in DOMAIN inbox : i # 1 => i - 1 \in DOMAIN inbox'
  BY TailOf
<1>3. ASSUME NEW i, FindIsAt(s, 0, i)
      PROVE  i \in DOMAIN inbox /\ i # 1 /\ i \in Nat /\ i - 1 \in DOMAIN inbox'
  BY <1>1, <1>2, <1>3 DEF FindIsAt
<1>4. ASSUME NEW i, i \in Nat, FindIsAt(s, 0, i + 1)
      PROVE  FindIsAt(s, 0, i)'
  <2>1. i + 1 \in DOMAIN inbox /\ (i + 1) - 1 \in DOMAIN inbox' /\ (i + 1) - 1 = i
        /\ IsFindOf(inbox[i + 1], s)
    BY <1>1, <1>3, <1>4 DEF FindIsAt
  <2>2. i \in DOMAIN inbox' /\ inbox'[i] = inbox[i + 1]
    BY <1>2, <2>1
  <2>3. QED
    BY <2>1, <2>2 DEF FindIsAt, IsFindOf
<1>5. ASSUME NEW i, FindIsAt(s, 0, i)'
      PROVE  i \in Nat /\ FindIsAt(s, 0, i + 1)
  BY <1>1, <1>2, <1>5 DEF FindIsAt, IsFindOf
<1>6. QED
  BY <1>2, <1>3, <1>4, <1>5

LEMMA BoxGains ==
    ASSUME NEW s, NEW m \in Managers, NEW msg \in ManagerMessages, GrowsBy(m, msg),
           ~ IsFindOf(msg, s)
    PROVE  \A i : FindIsAt(s, m, i)' <=> FindIsAt(s, m, i)
<1>1. m # 0
  BY RegistrationAssumption DEF Managers
<1>2. QED
  BY <1>1, GrowsByOne DEF FindIsAt, IsFindOf

LEMMA BoxTaken ==
    ASSUME NEW s, NEW m \in Managers, NEW msg, Takes(m, msg), ~ IsFindOf(msg, s)
    PROVE  /\ \A i : FindIsAt(s, m, i)' <=> i \in Nat /\ FindIsAt(s, m, i + 1)
           /\ \A i : FindIsAt(s, m, i) => i \in Nat /\ i - 1 \in Nat
<1>1. m # 0
  BY RegistrationAssumption DEF Managers
<1>2. /\ box[m][1] = msg
      /\ \A i \in DOMAIN box[m] : i \in Nat
      /\ \A i \in DOMAIN box'[m] : i \in Nat /\ i + 1 \in DOMAIN box[m] /\ box'[m][i] = box[m][i + 1]
      /\ \A i \in DOMAIN box[m] : i # 1 => i - 1 \in DOMAIN box'[m]
  BY TakenBox
<1>3. ASSUME NEW i, FindIsAt(s, m, i)
      PROVE  i \in DOMAIN box[m] /\ i # 1 /\ i \in Nat /\ i - 1 \in DOMAIN box'[m]
  BY <1>1, <1>2, <1>3 DEF FindIsAt
<1>4. ASSUME NEW i, i \in Nat, FindIsAt(s, m, i + 1)
      PROVE  FindIsAt(s, m, i)'
  <2>1. i + 1 \in DOMAIN box[m] /\ (i + 1) - 1 \in DOMAIN box'[m] /\ (i + 1) - 1 = i
        /\ IsFindOf(box[m][i + 1], s)
    BY <1>1, <1>3, <1>4 DEF FindIsAt
  <2>2. i \in DOMAIN box'[m] /\ box'[m][i] = box[m][i + 1]
    BY <1>2, <2>1
  <2>3. QED
    BY <2>1, <2>2 DEF FindIsAt, IsFindOf
<1>5. ASSUME NEW i, FindIsAt(s, m, i)'
      PROVE  i \in Nat /\ FindIsAt(s, m, i + 1)
  BY <1>1, <1>2, <1>5 DEF FindIsAt, IsFindOf
<1>6. QED
  BY <1>2, <1>3, <1>4, <1>5

\* A handler of the registering service takes a message that is not the find of
\* s, and sends messages that are not.
LEMMA StaysForward ==
    ASSUME NEW s, inbox \in Seq(RegistryMessages), inbox # <<>>, inbox' = Tail(inbox),
           ~ IsFindOf(Head(inbox), s),
           NEW msg \in ManagerMessages, ~ IsFindOf(msg, s), \A m \in Managers : GrowsBy(m, msg)
    PROVE  Stays(s)
<1>1. ASSUME NEW n, n # 0
      PROVE  \A i : FindIsAt(s, n, i)' <=> FindIsAt(s, n, i)
  <2>1. CASE n \in Managers
    BY <2>1, BoxGains
  <2>2. CASE n \notin Managers
    BY <1>1, <2>2 DEF FindIsAt
  <2>3. QED
    BY <2>1, <2>2
<1>2. \A n, i : n # 0 => (FindIsAt(s, n, i)' <=> FindIsAt(s, n, i))
  BY <1>1
<1>3. /\ \A i : FindIsAt(s, 0, i)' <=> i \in Nat /\ FindIsAt(s, 0, i + 1)
      /\ \A i : FindIsAt(s, 0, i) => i \in Nat /\ i - 1 \in Nat
  BY InboxTaken
<1>4. QED
  BY <1>2, <1>3, StaysMoving

\* A manager takes a message that is not the find of s.
LEMMA StaysManager ==
    ASSUME TypeInv, NEW s, NEW m \in Managers, NEW msg, Takes(m, msg), ~ IsFindOf(msg, s),
           inbox' = inbox \/ inbox' = Append(inbox, [type |-> "remove", service |-> managerOf[m]])
    PROVE  Stays(s)
<1>0. m # 0
  BY RegistrationAssumption DEF Managers
<1>1. \A i : FindIsAt(s, 0, i)' <=> FindIsAt(s, 0, i)
  <2>1. CASE inbox' = inbox
    BY <2>1, RegistrationAssumption DEF FindIsAt, IsFindOf, Managers
  <2> DEFINE removal == [type |-> "remove", service |-> managerOf[m]]
  <2>2. removal \in RegistryMessages /\ ~ IsFindOf(removal, s) /\ inbox \in Seq(RegistryMessages)
    BY RegistryMessageTypes DEF Takes, IsFindOf, TypeInv, TypeOK
  <2> HIDE DEF removal
  <2>3. CASE inbox' = Append(inbox, removal)
    BY <2>2, <2>3, InboxGains
  <2>4. QED
    BY <2>1, <2>3 DEF removal
<1>2. ASSUME NEW n, n # m
      PROVE  \A i : FindIsAt(s, n, i)' <=> FindIsAt(s, n, i)
  <2>1. CASE n \in Managers
    <3>1. n # 0 /\ box'[n] = box[n]
      BY <1>2, <2>1, RegistrationAssumption DEF Takes, Managers
    <3>2. QED
      BY <3>1 DEF FindIsAt, IsFindOf
  <2>2. CASE n \notin Managers /\ n # 0
    BY <2>2 DEF FindIsAt
  <2>3. QED
    BY <1>1, <2>1, <2>2
<1>3. \A n, i : n # m => (FindIsAt(s, n, i)' <=> FindIsAt(s, n, i))
  BY <1>2
<1>4. /\ \A i : FindIsAt(s, m, i)' <=> i \in Nat /\ FindIsAt(s, m, i + 1)
      /\ \A i : FindIsAt(s, m, i) => i \in Nat /\ i - 1 \in Nat
  BY BoxTaken
<1>5. QED
  BY <1>3, <1>4, StaysMoving

\* Somebody sends the registering service a message that is not the find of s, or none.
LEMMA StaysSent ==
    ASSUME TypeInv, NEW s, box' = box,
           \/ inbox' = inbox
           \/ \E msg \in RegistryMessages : ~ IsFindOf(msg, s) /\ inbox' = Append(inbox, msg)
    PROVE  Stays(s)
<1>1. inbox \in Seq(RegistryMessages)
  BY DEF TypeInv, TypeOK
<1>2. CASE inbox' = inbox
  <2>1. \A n, i : FindIsAt(s, n, i)' <=> FindIsAt(s, n, i)
    BY <1>2 DEF FindIsAt, IsFindOf
  <2>2. QED
    BY <2>1, StaysPut
<1>3. ASSUME NEW msg \in RegistryMessages, ~ IsFindOf(msg, s), inbox' = Append(inbox, msg)
      PROVE  Stays(s)
  <2>1. \A i : FindIsAt(s, 0, i)' <=> FindIsAt(s, 0, i)
    BY <1>1, <1>3, InboxGains
  <2>2. \A n, i : n # 0 => (FindIsAt(s, n, i)' <=> FindIsAt(s, n, i))
    BY DEF FindIsAt, IsFindOf
  <2>3. \A n, i : FindIsAt(s, n, i)' <=> FindIsAt(s, n, i)
    BY <2>1, <2>2
  <2>4. QED
    BY <2>3, StaysPut
<1>4. QED
  BY <1>2, <1>3

\* The registering service delegates the find of c to a manager, or answers it.
LEMMA FindsDelegated ==
    ASSUME ServiceInv, FindsInOnePlace, HandleFind
    PROVE  FindsInOnePlace'
<1>1. PICK service \in Services, c \in Clients :
              /\ Head(inbox) = [type |-> "find", service |-> service, client |-> c]
              /\ inbox' = Tail(inbox) /\ inbox # <<>> /\ inbox \in Seq(RegistryMessages)
              /\ BoxesGrow([type |-> "find", client |-> c])
              /\ \/ /\ IsRegistered(service) /\ answer' = answer
                    /\ box'[registered[service]] =
                          Append(box[registered[service]], [type |-> "find", client |-> c])
                    /\ \A m \in Managers : m # registered[service] => box'[m] = box[m]
                 \/ /\ ~ IsRegistered(service) /\ box' = box
                    /\ answer' = [answer EXCEPT ![c] = ServiceNotFound]
              /\ asked' = asked
  BY FindSteps DEF ServiceInv
<1>2. /\ FindOf(c) \in ManagerMessages /\ \A m \in Managers : GrowsBy(m, FindOf(c))
      /\ answer \in [Clients -> Slots \cup {NoAnswer, ServiceNotFound, RuntimeError}]
      /\ inbox[1] = Head(inbox) /\ 1 \in DOMAIN inbox
      /\ 0 \notin Managers
  <2>1. FindOf(c) \in ManagerMessages /\ BoxesGrow(FindOf(c))
    BY <1>1, ManagerMessageTypes DEF FindOf
  <2>2. \A m \in Managers : GrowsBy(m, FindOf(c))
    BY <2>1, GrownBox DEF ServiceInv
  <2>3. QED
    BY <1>1, <2>1, <2>2, TailOf, RegistrationAssumption DEF ServiceInv, TypeInv, TypeOK, Managers
<1>3. ASSUME NEW s \in Clients, s # c, asked'[s] # NoService
      PROVE  IF answer'[s] = NoAnswer THEN HasPlace(s)' ELSE IsNowhere(s)'
  <2>1. ~ IsFindOf(Head(inbox), s) /\ ~ IsFindOf(FindOf(c), s)
    BY <1>1, <1>3 DEF IsFindOf, FindOf
  <2>2. Stays(s)
    BY <1>1, <1>2, <2>1, StaysForward
  <2>3. answer'[s] = answer[s]
    BY <1>1, <1>2, <1>3
  <2>4. QED
    BY <1>1, <1>3, <2>2, <2>3 DEF FindsInOnePlace, HasPlace, Stays
<1>4. answer[c] = NoAnswer
  BY <1>1, <1>2 DEF ServiceInv, Single, Waiting
<1>5. asked[c] = service /\ service # NoService
  BY <1>1, <1>2, NotServices DEF ServiceInv, Traced, InboxTraced
<1>6. IsOnlyAt(c, 0, 1)
  <2>1. FindIsAt(c, 0, 1)
    BY <1>1, <1>2 DEF FindIsAt, IsFindOf
  <2>2. PICK n, i : IsOnlyAt(c, n, i)
    BY <1>4, <1>5 DEF FindsInOnePlace
  <2>3. QED
    BY <2>1, <2>2 DEF IsOnlyAt
<1>7. \A i : ~ FindIsAt(c, 0, i)'
  <2>1. SUFFICES ASSUME NEW i, FindIsAt(c, 0, i)'
                 PROVE  FALSE
    OBVIOUS
  <2>2. i \in DOMAIN inbox' /\ IsFindOf(inbox'[i], c)
    BY <1>2, <2>1 DEF FindIsAt, IsFindOf
  <2>3. i \in Nat /\ i + 1 \in DOMAIN inbox /\ inbox'[i] = inbox[i + 1] /\ i # 0
    BY <1>1, <2>2, TailOf
  <2>4. FindIsAt(c, 0, i + 1)
    BY <2>2, <2>3 DEF FindIsAt
  <2>5. QED
    BY <1>6, <2>3, <2>4 DEF IsOnlyAt
<1>8. \A m \in Managers : \A i : ~ FindIsAt(c, m, i)
  BY <1>2, <1>6 DEF IsOnlyAt
<1>9. CASE ~ IsRegistered(service) /\ box' = box /\ answer' = [answer EXCEPT ![c] = ServiceNotFound]
  <2>1. answer'[c] # NoAnswer
    BY <1>2, <1>9, RegistrationAssumption
  <2>2. IsNowhere(c)'
    BY <1>7, <1>8, <1>9 DEF IsNowhere, FindIsAt
  <2>3. QED
    BY <1>3, <2>1, <2>2 DEF FindsInOnePlace, HasPlace
<1>10. ASSUME NEW r, r = registered[service], answer' = answer, r \in Managers,
              box'[r] = Append(box[r], FindOf(c)),
              \A m \in Managers : m # r => box'[m] = box[m]
       PROVE  FindsInOnePlace'
  <2>1. /\ box[r] \in Seq(ManagerMessages)
        /\ \A i \in DOMAIN box'[r] : (i \in DOMAIN box[r] /\ box'[r][i] = box[r][i])
                                        \/ i = Len(box[r]) + 1
        /\ Len(box[r]) + 1 \in DOMAIN box'[r] /\ box'[r][Len(box[r]) + 1] = FindOf(c)
    <3>1. box[r] \in Seq(ManagerMessages)
      BY <1>10 DEF ServiceInv, TypeInv, TypeOK
    <3>2. QED
      BY <1>2, <1>10, <3>1, AppendTo
  <2>2. PICK k : k = Len(box[r]) + 1
    OBVIOUS
  <2>3. FindIsAt(c, r, k)'
    BY <1>10, <2>1, <2>2 DEF FindIsAt, IsFindOf, FindOf
  <2>4. ASSUME NEW m, NEW j, FindIsAt(c, m, j)'
        PROVE  m = r /\ j = k
    <3>1. m \in Managers /\ j \in DOMAIN box'[m] /\ IsFindOf(box'[m][j], c)
      BY <1>7, <2>4 DEF FindIsAt, IsFindOf
    <3>2. CASE m # r
      <4>1. FindIsAt(c, m, j)
        BY <1>10, <3>1, <3>2 DEF FindIsAt
      <4>2. QED
        BY <1>8, <3>1, <4>1
    <3>3. CASE m = r /\ j # k
      <4>1. FindIsAt(c, r, j)
        BY <2>1, <2>2, <3>1, <3>3 DEF FindIsAt
      <4>2. QED
        BY <1>8, <1>10, <4>1
    <3>4. QED
      BY <3>2, <3>3
  <2>5. IsOnlyAt(c, r, k)'
    BY <2>3, <2>4 DEF IsOnlyAt
  <2>6. QED
    BY <1>3, <1>4, <1>10, <2>5 DEF FindsInOnePlace, HasPlace
<1>11. QED
  <2>1. IsRegistered(service) => registered[service] \in Managers
    BY DEF ServiceInv, TypeInv, Spawned
  <2>2. QED
    BY <1>1, <1>9, <1>10, <2>1 DEF FindOf

LEMMA FindsForwarded ==
    ASSUME ServiceInv, FindsInOnePlace,
           \/ HandleRegister \/ HandleRegisterAs \/ HandleUnregister \/ HandleUnregisterAll
           \/ HandleRemove \/ HandleExit
    PROVE  FindsInOnePlace'
<1>0. TypeInv
  BY DEF ServiceInv
<1>1. ASSUME NEW msg \in ManagerMessages, msg.type # "find",
             \A m \in Managers : GrowsBy(m, msg),
             inbox' = Tail(inbox), inbox # <<>>, inbox \in Seq(RegistryMessages),
             Head(inbox).type # "find", UNCHANGED <<asked, answer>>
      PROVE  FindsInOnePlace'
  <2>1. \A s : ~ IsFindOf(msg, s) /\ ~ IsFindOf(Head(inbox), s)
    BY <1>1 DEF IsFindOf
  <2>2. \A s \in Clients : Stays(s)
    BY <1>1, <2>1, StaysForward
  <2>3. QED
    BY <1>1, <2>2, StayingKeeps
<1>2. CASE HandleRegister \/ HandleRegisterAs
  <2>1. PICK s \in Services, id \in Ids, r \in Runners :
              /\ RegisterService(s, id, r)
              /\ inbox' = Tail(inbox) /\ inbox # <<>> /\ inbox \in Seq(RegistryMessages)
              /\ Head(inbox).type \in {"register", "registerAs"}
              /\ UNCHANGED <<asked, answer>>
    BY <1>0, <1>2, RegisterSteps
  <2>2. PICK n : RegistersAt(s, id, r, n)
    BY <1>0, <2>1, RegisterEffect
  <2> DEFINE msg == [type |-> "add", id |-> id, runner |-> r]
  <2>3. msg \in ManagerMessages /\ msg.type # "find"
    BY ManagerMessageTypes
  <2>4. box' = [box EXCEPT ![n] = Append(@, msg)] /\ n \in Managers
    BY <2>2 DEF RegistersAt
  <2> HIDE DEF msg
  <2>5. \A m \in Managers : GrowsBy(m, msg)
    BY <1>0, <2>4 DEF GrowsBy, TypeInv, TypeOK
  <2>6. QED
    BY <1>1, <2>1, <2>3, <2>5
<1>3. CASE HandleUnregister \/ HandleUnregisterAll
  <2>1. PICK id \in Ids :
              /\ BoxesGrow([type |-> "remove", id |-> id])
              /\ inbox' = Tail(inbox) /\ inbox # <<>> /\ inbox \in Seq(RegistryMessages)
              /\ UNCHANGED <<asked, answer>>
    BY <1>0, <1>3, UnregisterSteps
  <2> DEFINE msg == [type |-> "remove", id |-> id]
  <2>2. msg \in ManagerMessages /\ msg.type # "find" /\ BoxesGrow(msg)
    BY <2>1, ManagerMessageTypes
  <2> HIDE DEF msg
  <2>3. \A m \in Managers : GrowsBy(m, msg)
    BY <1>0, <2>2, GrownBox
  <2>4. Head(inbox).type # "find"
    BY <1>3 DEF HandleUnregister, HandleUnregisterAll, Receives
  <2>5. QED
    BY <1>1, <2>1, <2>2, <2>3, <2>4
<1>4. CASE HandleRemove \/ HandleExit
  <2> DEFINE msg == [type |-> "exit"]
  <2>1. /\ msg \in ManagerMessages /\ msg.type # "find" /\ BoxesGrow(msg)
        /\ inbox' = Tail(inbox) /\ inbox # <<>> /\ inbox \in Seq(RegistryMessages)
        /\ Head(inbox).type \in {"remove", "exit"}
        /\ UNCHANGED <<asked, answer>>
    BY <1>0, <1>4, ClosingSteps, ManagerMessageTypes
  <2> HIDE DEF msg
  <2>2. \A m \in Managers : GrowsBy(m, msg)
    BY <1>0, <2>1, GrownBox
  <2>3. QED
    BY <1>1, <2>1, <2>2
<1>5. QED
  BY <1>2, <1>3, <1>4

\* A manager that answers a find takes it from its mailbox.
LEMMA FindsAnswered ==
    ASSUME ServiceInv, FindsInOnePlace, NEW m \in Managers, ManagerAnswers(m)
    PROVE  FindsInOnePlace'
<1>0. TypeInv /\ m # 0
  BY RegistrationAssumption DEF ServiceInv, Managers
<1>1. PICK c \in Clients :
              /\ Takes(m, FindOf(c))
              /\ \/ answer' = [answer EXCEPT ![c] = RuntimeError]
                 \/ \E p \in DOMAIN idsAndActors[m] :
                       answer' = [answer EXCEPT ![c] = idsAndActors[m][p]]
              /\ inbox' = inbox
  BY <1>0, AnswersSteps DEF FindOf
<1>2. answer'[c] # NoAnswer /\ \A s \in Clients : s # c => answer'[s] = answer[s]
  <2>1. /\ answer \in [Clients -> Slots \cup {NoAnswer, ServiceNotFound, RuntimeError}]
        /\ idsAndActors \in [Managers -> Seq(Slots)]
    BY <1>0 DEF TypeInv, TypeOK
  <2>2. \A p \in DOMAIN idsAndActors[m] : idsAndActors[m][p] \in Slots
    BY <2>1
  <2>3. QED
    BY <1>1, <2>1, <2>2, RegistrationAssumption
<1>3. asked' = asked
  BY <1>1 DEF Takes
<1>4. ASSUME NEW s \in Clients, s # c, asked'[s] # NoService
      PROVE  IF answer'[s] = NoAnswer THEN HasPlace(s)' ELSE IsNowhere(s)'
  <2>1. ~ IsFindOf(FindOf(c), s)
    BY <1>4 DEF IsFindOf, FindOf
  <2>2. Stays(s)
    BY <1>0, <1>1, <2>1, StaysManager
  <2>3. QED
    BY <1>2, <1>3, <1>4, <2>2 DEF FindsInOnePlace, HasPlace, Stays
<1>5. /\ 1 \in DOMAIN box[m] /\ box[m][1] = FindOf(c)
      /\ \A i \in DOMAIN box'[m] : i \in Nat /\ i + 1 \in DOMAIN box[m] /\ box'[m][i] = box[m][i + 1]
  BY <1>1, TakenBox
<1>6. FindIsAt(c, m, 1)
  BY <1>5 DEF FindIsAt, IsFindOf, FindOf
<1>7. ASSUME asked'[c] # NoService
      PROVE  IsNowhere(c)'
  <2>1. PICK n, i : IsOnlyAt(c, n, i)
    BY <1>3, <1>6, <1>7 DEF FindsInOnePlace, IsNowhere
  <2>2. \A k, j : FindIsAt(c, k, j) => k = m /\ j = 1
    BY <1>6, <2>1 DEF IsOnlyAt
  <2>3. SUFFICES ASSUME NEW k, NEW j, FindIsAt(c, k, j)'
                 PROVE  FALSE
    BY DEF IsNowhere
  <2>4. CASE k = m
    <3>1. j \in DOMAIN box'[m] /\ IsFindOf(box'[m][j], c)
      BY <1>0, <2>3, <2>4 DEF FindIsAt, IsFindOf
    <3>2. j \in Nat /\ j + 1 \in DOMAIN box[m] /\ box'[m][j] = box[m][j + 1]
      BY <1>5, <3>1
    <3>3. FindIsAt(c, m, j + 1)
      BY <3>1, <3>2 DEF FindIsAt
    <3>4. j = 0
      BY <2>2, <3>2, <3>3
    <3>5. j \in 1 .. Len(box'[m])
      <4>1. box'[m] = Tail(box[m]) /\ box[m] \in Seq(ManagerMessages) /\ box[m] # <<>>
        BY <1>1 DEF Takes
      <4>2. QED
        BY <3>1, <4>1
    <3>6. QED
      BY <3>4, <3>5
  <2>5. CASE k # m
    <3>1. \A h \in Managers : h # m => box'[h] = box[h]
      BY <1>1 DEF Takes
    <3>2. FindIsAt(c, k, j)
      BY <1>1, <2>3, <2>5, <3>1 DEF FindIsAt, IsFindOf
    <3>3. QED
      BY <2>2, <2>5, <3>2
  <2>6. QED
    BY <2>4, <2>5
<1>8. QED
  BY <1>2, <1>4, <1>7 DEF FindsInOnePlace, HasPlace

LEMMA FindsManaged ==
    ASSUME ServiceInv, FindsInOnePlace, NEW m \in Managers,
           ManagerAdds(m) \/ ManagerRemoves(m) \/ ManagerExits(m)
    PROVE  FindsInOnePlace'
<1>0. TypeInv
  BY DEF ServiceInv
<1>1. ASSUME NEW msg, Takes(m, msg), msg.type # "find", answer' = answer,
             inbox' = inbox \/ inbox' = Append(inbox, [type |-> "remove", service |-> managerOf[m]])
      PROVE  FindsInOnePlace'
  <2>1. \A s : ~ IsFindOf(msg, s)
    BY <1>1 DEF IsFindOf
  <2>2. \A s \in Clients : Stays(s)
    BY <1>0, <1>1, <2>1, StaysManager
  <2>3. asked' = asked
    BY <1>1 DEF Takes
  <2>4. QED
    BY <1>1, <2>2, <2>3, StayingKeeps
<1>2. CASE ManagerAdds(m)
  <2>1. PICK id \in Ids, r \in Runners :
              /\ Takes(m, [type |-> "add", id |-> id, runner |-> r])
              /\ UNCHANGED <<inbox, answer>>
    BY <1>0, <1>2, AddsSteps
  <2>2. QED
    BY <1>1, <2>1
<1>3. CASE ManagerRemoves(m)
  <2>1. PICK id \in Ids :
              /\ Takes(m, [type |-> "remove", id |-> id])
              /\ \/ inbox' = inbox
                 \/ inbox' = Append(inbox, [type |-> "remove", service |-> managerOf[m]])
              /\ UNCHANGED answer
    BY <1>0, <1>3, RemovesSteps
  <2>2. QED
    BY <1>1, <2>1
<1>4. CASE ManagerExits(m)
  <2>1. /\ Takes(m, [type |-> "exit"]) /\ UNCHANGED answer
        /\ inbox' = Append(inbox, [type |-> "remove", service |-> managerOf[m]])
    BY <1>0, <1>4, ExitsSteps
  <2>2. QED
    BY <1>1, <2>1
<1>5. QED
  BY <1>2, <1>3, <1>4

\* Nobody but a task that is received sends a find.
LEMMA FindsSent ==
    ASSUME TypeInv, FindsInOnePlace, UNCHANGED <<box, asked, answer>>,
           \/ inbox' = inbox
           \/ \E msg \in RegistryMessages : msg.type # "find" /\ inbox' = Append(inbox, msg)
    PROVE  FindsInOnePlace'
<1>1. ASSUME NEW s \in Clients
      PROVE  Stays(s)
  BY StaysSent DEF IsFindOf
<1>2. QED
  BY <1>1, StayingKeeps

LEMMA FindsBesideAsking ==
    ASSUME TypeInv, FindsInOnePlace, EnvironmentEffect, asked' = asked
    PROVE  FindsInOnePlace'
<1>1. ASSUME NEW c \in Clients, NEW s \in Services, asked[c] = NoService,
             asked' = [asked EXCEPT ![c] = s]
      PROVE  FALSE
  <2>1. asked \in [Clients -> Services \cup {NoService}]
    BY DEF TypeInv, TypeOK
  <2>2. QED
    BY <1>1, <2>1, NotServices
<1>2. UNCHANGED <<box, answer>>
  BY DEF EnvironmentEffect, managers
<1>3. QED
  BY <1>1, <1>2, FindsSent DEF EnvironmentEffect

\* The finds of a task that is received come in behind the others.
LEMMA FindsBurst ==
    ASSUME ServiceInv, FindsInOnePlace, NEW t \in Tasks, Bursts(t),
           \A c \in Clients : c.task = t => asked[c] = NoService
    PROVE  FindsInOnePlace'
<1>0. /\ TypeInv /\ 0 \notin Managers /\ UNCHANGED <<box, answer>>
      /\ Len(inbox) \in Nat
  <2>1. TypeInv
    BY DEF ServiceInv
  <2>2. QED
    BY <2>1, BurstProperties, RegistrationAssumption DEF Bursts, managers, Managers
<1>1. /\ \A i \in DOMAIN inbox : i \in DOMAIN inbox' /\ inbox'[i] = inbox[i]
      /\ \A i \in DOMAIN inbox' :
            \/ i \in DOMAIN inbox /\ inbox'[i] = inbox[i]
            \/ \E k \in 1 .. MaxPieces : i = Len(inbox) + k /\ inbox'[i] = FindAt(t, k)
      /\ \A k \in 1 .. MaxPieces :
            Len(inbox) + k \in DOMAIN inbox' /\ inbox'[Len(inbox) + k] = FindAt(t, k)
  BY <1>0, BurstProperties
<1>2. \A k, s : IsFindOf(FindAt(t, k), s) <=> s = Subtask(t, k)
  BY DEF IsFindOf, FindAt
<1>3. /\ \A c \in Clients : c.task # t => asked'[c] = asked[c]
      /\ \A c \in Clients : c.task = t => Waiting(c)
  BY BurstAsks
<1>4. \A n, i, s : n # 0 => (FindIsAt(s, n, i)' <=> FindIsAt(s, n, i))
  BY <1>0 DEF FindIsAt, IsFindOf
<1>5. ASSUME NEW s \in Clients, s.task # t, asked'[s] # NoService
      PROVE  IF answer'[s] = NoAnswer THEN HasPlace(s)' ELSE IsNowhere(s)'
  <2>1. \A k \in 1 .. MaxPieces : ~ IsFindOf(FindAt(t, k), s)
    BY <1>2, <1>5, SubtasksAreClients
  <2>2. \A i : FindIsAt(s, 0, i)' <=> FindIsAt(s, 0, i)
    BY <1>0, <1>1, <2>1 DEF FindIsAt, IsFindOf
  <2>3. \A n, i : FindIsAt(s, n, i)' <=> FindIsAt(s, n, i)
    BY <1>4, <2>2
  <2>4. Stays(s)
    BY <2>3, StaysPut
  <2>5. QED
    BY <1>0, <1>3, <1>5, <2>4 DEF FindsInOnePlace, HasPlace, Stays
<1>6. ASSUME NEW s \in Clients, s.task = t
      PROVE  answer'[s] = NoAnswer /\ HasPlace(s)'
  <2>1. PICK k \in 1 .. MaxPieces : s = Subtask(t, k)
    BY <1>6, SubtasksAreClients
  <2>2. answer[s] = NoAnswer /\ \A m \in Managers : \A j \in DOMAIN box[m] : box[m][j] # FindOf(s)
    BY <1>3, <1>6 DEF Waiting
  <2>3. PICK i : i = Len(inbox) + k
    OBVIOUS
  <2>4. FindIsAt(s, 0, i)'
    BY <1>1, <1>2, <2>1, <2>3 DEF FindIsAt, IsFindOf
  <2>5. ASSUME NEW n, NEW j, FindIsAt(s, n, j)'
        PROVE  n = 0 /\ j = i
    <3>1. n = 0
      <4>1. SUFFICES ASSUME n # 0
                     PROVE  FALSE
        OBVIOUS
      <4>2. n \in Managers /\ j \in DOMAIN box[n] /\ box[n][j].type = "find" /\ box[n][j].client = s
        BY <1>0, <1>4, <2>5, <4>1 DEF FindIsAt, IsFindOf
      <4>3. box[n][j].client.task # t
        BY <4>2, BurstAsks
      <4>4. QED
        BY <1>6, <4>2, <4>3
    <3>2. j \in DOMAIN inbox' /\ IsFindOf(inbox'[j], s)
      BY <1>0, <2>5, <3>1 DEF FindIsAt, IsFindOf
    <3>3. CASE j \in DOMAIN inbox /\ inbox'[j] = inbox[j]
      <4>1. inbox[j].type = "find" /\ inbox[j].client = s
        BY <3>2, <3>3 DEF IsFindOf
      <4>2. inbox[j].client.task # t
        BY <3>3, <4>1, BurstAsks
      <4>3. QED
        BY <1>6, <4>1, <4>2
    <3>4. ASSUME NEW h \in 1 .. MaxPieces, j = Len(inbox) + h, inbox'[j] = FindAt(t, h)
          PROVE  j = i
      <4>1. s = Subtask(t, h)
        BY <1>2, <3>2, <3>4
      <4>2. h = k
        <5>1. Subtask(t, h) = Subtask(t, k)
          BY <2>1, <4>1
        <5>2. \A u, v : \A a, b : Subtask(u, a) = Subtask(v, b) => u = v /\ a = b
          BY SubtasksAreClients
        <5>3. QED
          BY <5>1, <5>2
      <4>3. QED
        BY <2>3, <3>4, <4>2
    <3>5. QED
      BY <1>1, <3>1, <3>2, <3>3, <3>4
  <2>6. IsOnlyAt(s, 0, i)'
    BY <2>4, <2>5 DEF IsOnlyAt
  <2>7. QED
    BY <1>0, <2>2, <2>6 DEF HasPlace
<1>7. QED
  BY <1>5, <1>6 DEF FindsInOnePlace, HasPlace

LEMMA FindsServed ==
    ASSUME ServiceInv, FindsInOnePlace, RegistryStep \/ \E m \in Managers : ManagerStep(m)
    PROVE  FindsInOnePlace'
<1>1. ASSUME HandleRemoveCrashes \/ HandleExitCrashes \/ \E m \in Managers : ManagerRemoveCrashes(m)
      PROVE  FindsInOnePlace'
  BY <1>1, CrashSteps, FindsSent DEF ServiceInv, managers
<1>2. QED
  BY <1>1, FindsForwarded, FindsDelegated, FindsAnswered, FindsManaged
  DEF RegistryStep, ManagerStep

LEMMA FindsInit ==
    ASSUME Init
    PROVE  FindsInOnePlace
  BY DEF Init, FindsInOnePlace

LEMMA FindsStep ==
    ASSUME ServiceInv, AskedWithTask, FindsInOnePlace, [GridNext]_gridVars
    PROVE  FindsInOnePlace'
<1>0. TypeInv
  BY DEF ServiceInv
<1>1. CASE RegistryStepHere \/ \E m \in Managers : ManagerStepHere(m)
  BY <1>1, FindsServed DEF RegistryStepHere, ManagerStepHere
<1>2. CASE RunnersBeside
  <2>1. [EnvironmentStep]_vars
    BY <1>2 DEF RunnersBeside, RunnerActs, RunnersTrouble, ReceiverEndsRunner, TaskTakesLong,
       RunnerCrashes, Ends, FalseAlarm, EnvironmentStep
  <2>2. CASE EnvironmentStep
    <3>1. EnvironmentEffect
      BY <1>0, <2>2, EnvironmentSteps
    <3>2. asked' = asked
      BY <1>2 DEF RunnersBeside, RunnerActs, RunnersTrouble, ReceiverEndsRunner, TaskTakesLong,
         RunnerCrashes, Ends, RunnerDies, RunnerRegisters, RunnerUnregisters, FalseAlarm,
         MonitorFiresFalsely, vars
    <3>3. QED
      BY <1>0, <3>1, <3>2, FindsBesideAsking
  <2>3. CASE UNCHANGED vars
    BY <1>0, <2>3, FindsSent DEF vars, managers
  <2>4. QED
    BY <2>1, <2>2, <2>3
<1>3. ASSUME NEW e \in Enrolments, MonitoringStep(e)
      PROVE  FindsInOnePlace'
  <2>1. EnvironmentEffect /\ asked' = asked
    BY <1>0, <1>3, MonitorGivesUpEffect DEF MonitoringStep, MonitorGivesUp
  <2>2. QED
    BY <1>0, <2>1, FindsBesideAsking
<1>4. ASSUME Idles
      PROVE  FindsInOnePlace'
  BY <1>0, <1>4, FindsSent DEF Idles, serviceVars, managers
<1>5. ASSUME NEW t \in Tasks, TaskReceived(t)
      PROVE  FindsInOnePlace'
  <2>1. Bursts(t) /\ pieces[t] = NotAsked
    BY <1>0, <1>5, TaskReceivedEffect
  <2>2. QED
    BY <2>1, FindsBurst DEF AskedWithTask
<1>6. CASE TesterStep
  BY <1>0, <1>6, TesterEffect, FindsBesideAsking
<1>7. CASE UNCHANGED gridVars
  BY <1>0, <1>7, FindsSent DEF gridVars, vars, managers
<1>8. QED
  BY <1>0, <1>1, <1>2, <1>3, <1>4, <1>5, <1>6, <1>7, DistributorIdles DEF GridNext, TaskStep

-----------------------------------------------------------------------------
(***************************************************************************)
(* A subtask is in the mailbox of one runner                               *)
(***************************************************************************)

\* As often as the distributor waits for the result of a subtask, it is in the
\* mailboxes of the runners.
RunsInOnePlace ==
    \A c \in Continuations : c.stage = "run" =>
       IsFiniteSet(Held(c)) /\ Cardinality(Held(c)) = inflight[c]

LEMMA HeldIs ==
    ASSUME NEW c
    PROVE  \A x : x \in Held(c) <=>
              \E r \in Runners : \E i : i \in DOMAIN tasks[r] /\ tasks[r][i] = c /\ x = <<r, i>>
  BY DEF Held

\* A request is appended to the mailbox of a runner ...
LEMMA HeldAfterArrival ==
    ASSUME TasksType, NEW r \in Runners, NEW d \in Continuations,
           tasks' = [tasks EXCEPT ![r] = Append(@, d)],
           NEW c \in Continuations, IsFiniteSet(Held(c))
    PROVE  /\ TasksType'
           /\ IsFiniteSet(Held(c)')
           /\ Cardinality(Held(c)') = IF c = d THEN Cardinality(Held(c)) + 1
                                               ELSE Cardinality(Held(c))
<1> DEFINE q == tasks[r]
           k == Len(q) + 1
<1>1. q \in Seq(Continuations)
  BY DEF TasksType
<1>2. /\ Append(q, d) \in Seq(Continuations)
      /\ \A i \in DOMAIN q : i \in DOMAIN Append(q, d) /\ Append(q, d)[i] = q[i]
      /\ \A i \in DOMAIN Append(q, d) : (i \in DOMAIN q /\ Append(q, d)[i] = q[i])
                                           \/ (i = k /\ Append(q, d)[i] = d)
      /\ k \in DOMAIN Append(q, d) /\ Append(q, d)[k] = d
      /\ \A i \in DOMAIN q : i \in Nat /\ i < k
  <2> HIDE DEF q
  <2>1. QED
    BY <1>1, AppendTo
<1>3. tasks'[r] = Append(q, d) /\ \A s \in Runners : s # r => tasks'[s] = tasks[s]
  BY DEF TasksType
<1>4. k \notin DOMAIN q
  <2>1. Len(q) \in Nat /\ DOMAIN q = 1 .. Len(q)
    BY <1>1
  <2>2. QED
    BY <2>1
<1>5. TasksType'
  BY <1>2 DEF TasksType
<1> HIDE DEF k
<1>6. CASE c = d
  <2>1. <<r, k>> \notin Held(c)
    BY <1>4, HeldIs
  <2>2. ASSUME NEW x
        PROVE  x \in Held(c)' <=> x \in Held(c) \cup {<<r, k>>}
    BY <1>2, <1>3, <1>6, HeldIs DEF Held
  <2>3. Held(c)' = Held(c) \cup {<<r, k>>}
    BY <2>2
  <2>4. /\ IsFiniteSet(Held(c) \cup {<<r, k>>})
        /\ Cardinality(Held(c) \cup {<<r, k>>}) = Cardinality(Held(c)) + 1
    BY <2>1, FS_AddElement
  <2>5. QED
    BY <1>5, <1>6, <2>3, <2>4
<1>7. CASE c # d
  <2>1. ASSUME NEW x
        PROVE  x \in Held(c)' <=> x \in Held(c)
    BY <1>2, <1>3, <1>7, HeldIs DEF Held
  <2>2. Held(c)' = Held(c)
    BY <2>1
  <2>3. IsFiniteSet(Held(c)') /\ Cardinality(Held(c)') = Cardinality(Held(c))
    BY <2>2
  <2>4. QED
    BY <1>5, <1>7, <2>3
<1>8. QED
  BY <1>6, <1>7

\* ... or one is taken out of it.
TakenAt(r, p) ==
    /\ tasks' \in [Runners -> Seq(Continuations)]
    /\ \A s \in Runners : s # r => tasks'[s] = tasks[s]
    /\ \A i \in DOMAIN tasks'[r] :
          /\ i \in Nat
          /\ i < p => i \in DOMAIN tasks[r] /\ tasks'[r][i] = tasks[r][i]
          /\ ~ (i < p) => i + 1 \in DOMAIN tasks[r] /\ tasks'[r][i] = tasks[r][i + 1]
    /\ \A i \in DOMAIN tasks[r] :
          /\ i \in Nat
          /\ i < p => i \in DOMAIN tasks'[r] /\ tasks'[r][i] = tasks[r][i]
          /\ i > p => i - 1 \in DOMAIN tasks'[r] /\ tasks'[r][i - 1] = tasks[r][i]

LEMMA HeldAfterTaking ==
    ASSUME NEW r \in Runners, NEW p \in Nat, TakenAt(r, p), p \in DOMAIN tasks[r],
           NEW c, IsFiniteSet(Held(c))
    PROVE  /\ IsFiniteSet(Held(c)')
           /\ Cardinality(Held(c)') = IF tasks[r][p] = c THEN Cardinality(Held(c)) - 1
                                                         ELSE Cardinality(Held(c))
<1> DEFINE S == Held(c) \ {<<r, p>>}
           T == Held(c)'
           f == [x \in S |-> IF x[1] = r /\ x[2] > p THEN <<r, x[2] - 1>> ELSE x]
<1>1. IsFiniteSet(S) /\ Cardinality(S) = IF tasks[r][p] = c THEN Cardinality(Held(c)) - 1
                                                            ELSE Cardinality(Held(c))
  <2>1. <<r, p>> \in Held(c) <=> tasks[r][p] = c
    BY HeldIs
  <2>2. QED
    BY <2>1, FS_RemoveElement
<1>2. ASSUME NEW x \in S
      PROVE  \E s, i : /\ s \in Runners /\ x = <<s, i>> /\ i \in DOMAIN tasks[s]
                       /\ tasks[s][i] = c
                       /\ s = r => i \in Nat /\ i # p
  <2>1. x \in Held(c) /\ x # <<r, p>>
    OBVIOUS
  <2>2. PICK s, i : s \in Runners /\ i \in DOMAIN tasks[s] /\ tasks[s][i] = c /\ x = <<s, i>>
    BY <2>1, HeldIs
  <2>3. s = r => i \in Nat
    BY <2>2 DEF TakenAt
  <2>4. s = r => i # p
    BY <2>1, <2>2
  <2>5. QED
    BY <2>2, <2>3, <2>4
<1>3. \A x : x \in T <=>
         \E s \in Runners : \E i : i \in DOMAIN tasks'[s] /\ tasks'[s][i] = c /\ x = <<s, i>>
  BY DEF Held
<1>4. \A s \in Runners : s # r => tasks'[s] = tasks[s]
  BY DEF TakenAt
<1>5. ASSUME NEW x \in S
      PROVE  /\ f[x] \in T
             /\ \/ x[1] = r /\ x[2] \in Nat /\ x[2] > p /\ f[x] = <<r, x[2] - 1>> /\ x = <<r, x[2]>>
                \/ f[x] = x /\ (x[1] = r => x[2] \in Nat /\ x[2] < p)
  <2>1. PICK s, i : /\ s \in Runners /\ x = <<s, i>> /\ i \in DOMAIN tasks[s]
                    /\ tasks[s][i] = c
                    /\ s = r => i \in Nat /\ i # p
    BY <1>2
  <2>2. x[1] = s /\ x[2] = i
    BY <2>1
  <2>3. CASE s = r /\ i > p
    <3>1. f[x] = <<r, i - 1>>
      BY <2>2, <2>3
    <3>2. i - 1 \in DOMAIN tasks'[r] /\ tasks'[r][i - 1] = c
      BY <2>1, <2>3 DEF TakenAt
    <3>3. f[x] \in T
      BY <1>3, <3>1, <3>2
    <3>4. QED
      BY <2>1, <2>2, <2>3, <3>1, <3>3
  <2>4. CASE s = r /\ i < p
    <3>1. f[x] = x
      BY <2>1, <2>2, <2>4
    <3>2. i \in DOMAIN tasks'[r] /\ tasks'[r][i] = c
      BY <2>1, <2>4 DEF TakenAt
    <3>3. f[x] \in T
      BY <1>3, <2>1, <2>4, <3>1, <3>2
    <3>4. QED
      BY <2>1, <2>2, <2>4, <3>1, <3>3
  <2>5. CASE s # r
    <3>1. f[x] = x
      BY <2>2, <2>5
    <3>2. f[x] \in T
      BY <1>3, <1>4, <2>1, <2>5, <3>1
    <3>3. QED
      BY <2>2, <2>5, <3>1, <3>2
  <2>6. s # r \/ i > p \/ i < p
    BY <2>1
  <2>7. QED
    BY <2>3, <2>4, <2>5, <2>6
<1>6. ASSUME NEW x \in S, NEW y \in S, f[x] = f[y]
      PROVE  x = y
  <2>1. ASSUME NEW u \in S, u[1] = r /\ u[2] \in Nat /\ u[2] > p /\ f[u] = <<r, u[2] - 1>>,
               NEW v \in S, f[v] = v, v[1] = r => v[2] \in Nat /\ v[2] < p
        PROVE  f[u] # f[v]
    <3>1. SUFFICES ASSUME v = <<r, u[2] - 1>>
                   PROVE  FALSE
      BY <2>1
    <3>2. v[1] = r /\ v[2] = u[2] - 1
      BY <3>1
    <3>3. QED
      BY <2>1, <3>2
  <2>2. CASE f[x] = x /\ (x[1] = r => x[2] \in Nat /\ x[2] < p)
    <3>1. f[y] = y
      BY <1>5, <1>6, <2>1, <2>2
    <3>2. QED
      BY <1>6, <2>2, <3>1
  <2>3. CASE /\ x[1] = r /\ x[2] \in Nat /\ x[2] > p
             /\ f[x] = <<r, x[2] - 1>> /\ x = <<r, x[2]>>
    <3>1. /\ y[1] = r /\ y[2] \in Nat /\ y[2] > p
          /\ f[y] = <<r, y[2] - 1>> /\ y = <<r, y[2]>>
      BY <1>5, <1>6, <2>1, <2>3
    <3>2. <<r, x[2] - 1>> = <<r, y[2] - 1>>
      BY <1>6, <2>3, <3>1
    <3>3. x[2] - 1 = y[2] - 1
      BY <3>2
    <3>4. x[2] = y[2]
      BY <2>3, <3>1, <3>3
    <3>5. QED
      BY <2>3, <3>1, <3>4
  <2>4. QED
    BY <1>5, <2>2, <2>3
<1>7. ASSUME NEW y \in T
      PROVE  \E x \in S : f[x] = y
  <2>1. PICK s, i : s \in Runners /\ i \in DOMAIN tasks'[s] /\ tasks'[s][i] = c /\ y = <<s, i>>
    BY <1>3
  <2>2. CASE s # r
    <3>1. y \in Held(c) /\ y # <<r, p>> /\ y[1] = s
      BY <1>4, <2>1, <2>2, HeldIs
    <3>2. y \in S /\ f[y] = y
      BY <2>2, <3>1
    <3>3. QED
      BY <3>2
  <2>3. CASE s = r /\ i < p
    <3>1. i \in Nat /\ i \in DOMAIN tasks[r] /\ tasks[r][i] = c
      BY <2>1, <2>3 DEF TakenAt
    <3>2. y \in Held(c) /\ y # <<r, p>> /\ y[1] = r /\ y[2] = i
      BY <2>1, <2>3, <3>1, HeldIs
    <3>3. y \in S /\ f[y] = y
      BY <2>3, <3>1, <3>2
    <3>4. QED
      BY <3>3
  <2>4. CASE s = r /\ ~ (i < p)
    <3>1. i \in Nat /\ i + 1 \in DOMAIN tasks[r] /\ tasks[r][i + 1] = c
      BY <2>1, <2>4 DEF TakenAt
    <3>2. PICK k : k = i + 1
      OBVIOUS
    <3>3. k > p /\ k # p /\ k - 1 = i
      BY <2>4, <3>1, <3>2
    <3>4. <<r, k>> \in Held(c) /\ <<r, k>> # <<r, p>>
      BY <3>1, <3>2, <3>3, HeldIs
    <3>5. PICK x \in S : x = <<r, k>>
      BY <3>4
    <3>6. x[1] = r /\ x[2] = k
      BY <3>5
    <3>7. f[x] = <<r, k - 1>>
      BY <3>3, <3>6
    <3>8. QED
      BY <2>1, <2>4, <3>3, <3>7
  <2>5. QED
    BY <2>2, <2>3, <2>4
<1>8. f \in [S -> T]
  BY <1>5
<1> HIDE DEF S, T, f
<1>9. f \in Bijection(S, T)
  BY <1>6, <1>7, <1>8 DEF Bijection, Injection, Surjection, IsInjective
<1>10. IsFiniteSet(T) /\ Cardinality(T) = Cardinality(S)
  BY <1>1, <1>9, FS_Bijection DEF ExistsBijection
<1>11. QED
  BY <1>1, <1>10 DEF T

LEMMA FirstIsTaken ==
    ASSUME TasksType, NEW r \in Runners, tasks[r] # <<>>, tasks' = [tasks EXCEPT ![r] = Tail(@)]
    PROVE  /\ TasksType' /\ TakenAt(r, 1) /\ 1 \in DOMAIN tasks[r]
           /\ Head(tasks[r]) = tasks[r][1] /\ Head(tasks[r]) \in Continuations
<1>1. tasks[r] \in Seq(Continuations) /\ tasks'[r] = Tail(tasks[r])
      /\ \A s \in Runners : s # r => tasks'[s] = tasks[s]
  BY DEF TasksType
<1>2. /\ Head(tasks[r]) \in Continuations /\ Head(tasks[r]) = tasks[r][1] /\ 1 \in DOMAIN tasks[r]
      /\ Tail(tasks[r]) \in Seq(Continuations)
      /\ \A i \in DOMAIN tasks'[r] :
            i \in Nat /\ i + 1 \in DOMAIN tasks[r] /\ tasks'[r][i] = tasks[r][i + 1]
      /\ \A i \in DOMAIN tasks[r] : i # 1 => i - 1 \in DOMAIN tasks'[r] /\ tasks'[r][i - 1] = tasks[r][i]
  <2>1. PICK q \in Seq(Continuations) : q = tasks[r]
    BY <1>1
  <2>2. /\ Head(q) \in Continuations /\ Head(q) = q[1] /\ 1 \in DOMAIN q
        /\ Tail(q) \in Seq(Continuations)
        /\ \A i \in DOMAIN Tail(q) : i \in Nat /\ i + 1 \in DOMAIN q /\ Tail(q)[i] = q[i + 1]
        /\ \A i \in DOMAIN q : i # 1 => i - 1 \in DOMAIN Tail(q) /\ Tail(q)[i - 1] = q[i]
    BY <2>1, TailOf
  <2>3. QED
    BY <1>1, <2>1, <2>2
<1>3. TasksType'
  BY <1>2 DEF TasksType
<1>4. DOMAIN tasks[r] = 1 .. Len(tasks[r]) /\ DOMAIN tasks'[r] = 1 .. Len(tasks'[r])
  BY <1>1, <1>2
<1>5. \A i \in DOMAIN tasks[r] : i \in Nat /\ ~ (i < 1) /\ (i > 1 => i # 1)
  BY <1>4
<1>6. \A i \in DOMAIN tasks'[r] : ~ (i < 1)
  BY <1>4
<1>7. QED
  BY <1>1, <1>2, <1>3, <1>5, <1>6 DEF TakenAt, TasksType

LEMMA AnyIsTaken ==
    ASSUME TasksType, NEW r \in Runners, NEW p \in DOMAIN tasks[r],
           tasks' = [tasks EXCEPT ![r] = RemoveAt(@, p)]
    PROVE  TasksType' /\ TakenAt(r, p) /\ p \in Nat
<1>1. tasks[r] \in Seq(Continuations) /\ tasks'[r] = RemoveAt(tasks[r], p)
      /\ \A s \in Runners : s # r => tasks'[s] = tasks[s]
  BY DEF TasksType
<1>2. p \in 1 .. Len(tasks[r]) /\ DOMAIN tasks[r] = 1 .. Len(tasks[r]) /\ Len(tasks[r]) \in Nat
  BY <1>1
<1>3. /\ tasks'[r] \in Seq(Continuations)
      /\ Len(tasks'[r]) = Len(tasks[r]) - 1
      /\ \A q \in 1 .. Len(tasks[r]) - 1 :
            tasks'[r][q] = IF q < p THEN tasks[r][q] ELSE tasks[r][q + 1]
  BY <1>1, <1>2, RemoveAtProperties
<1>4. TasksType'
  BY <1>3 DEF TasksType
<1>5. DOMAIN tasks'[r] = 1 .. Len(tasks[r]) - 1
  BY <1>2, <1>3
<1>6. PICK n \in Nat : n = Len(tasks[r])
  BY <1>2
<1>7. \A i \in 1 .. n - 1 : i \in Nat /\ i \in 1 .. n /\ i + 1 \in 1 .. n
  BY <1>6
<1>8. \A i \in 1 .. n : /\ i \in Nat
                        /\ i < p => i \in 1 .. n - 1
                        /\ i > p => i - 1 \in 1 .. n - 1 /\ ~ (i - 1 < p) /\ (i - 1) + 1 = i
  BY <1>2, <1>6
<1>9. \A i \in DOMAIN tasks'[r] :
          /\ i \in Nat
          /\ i < p => i \in DOMAIN tasks[r] /\ tasks'[r][i] = tasks[r][i]
          /\ ~ (i < p) => i + 1 \in DOMAIN tasks[r] /\ tasks'[r][i] = tasks[r][i + 1]
  BY <1>2, <1>3, <1>5, <1>6, <1>7
<1>10. \A i \in DOMAIN tasks[r] :
          /\ i \in Nat
          /\ i < p => i \in DOMAIN tasks'[r] /\ tasks'[r][i] = tasks[r][i]
          /\ i > p => i - 1 \in DOMAIN tasks'[r] /\ tasks'[r][i - 1] = tasks[r][i]
  BY <1>2, <1>3, <1>5, <1>6, <1>8
<1>11. QED
  BY <1>1, <1>2, <1>4, <1>9, <1>10 DEF TakenAt, TasksType

\* What the invariant of the distributor says of its requests.
LEMMA RequestTypes ==
    ASSUME DistributorProofs!IInv
    PROVE  /\ inflight \in [Continuations -> Nat]
           /\ \A c \in Continuations : Distributor!IsValid(c) => pending[c.node].task \in Tasks
<1>1. /\ inflight \in [Continuations -> Nat]
      /\ pending \in [Nodes -> DistributorProofs!TaskNodes \cup {Free}]
  BY SameContinuations DEF DistributorProofs!IInv, DistributorProofs!TypeOK
<1>2. ASSUME NEW c \in Continuations, Distributor!IsValid(c)
      PROVE  pending[c.node].task \in Tasks
  <2>1. c.node \in Nodes
    BY DEF Continuations, Distributor!Continuations
  <2>2. pending[c.node] \in DistributorProofs!TaskNodes
    BY <1>1, <1>2, <2>1 DEF Distributor!IsValid
  <2>3. QED
    BY <2>2 DEF DistributorProofs!TaskNodes
<1>3. QED
  BY <1>1, <1>2

\* Nothing comes to the runners or leaves them, nor is a result awaited that was
\* not before.
LEMMA RunsUntouched ==
    ASSUME RunsInOnePlace, tasks' = tasks,
           \A c \in Continuations : c.stage = "run" => inflight'[c] = inflight[c]
    PROVE  RunsInOnePlace'
<1>1. \A c : Held(c)' = Held(c)
  BY DEF Held
<1>2. QED
  BY <1>1 DEF RunsInOnePlace

LEMMA RunsFound ==
    ASSUME DistributorProofs!IInv, TypeInv, TasksType, RunsInOnePlace,
           NEW c \in Continuations, RunnerFound(c)
    PROVE  TasksType' /\ RunsInOnePlace'
<1>1. /\ c.stage = "find" /\ answer[Asker(c)] \in Entries /\ Distributor!RunnerFound(c)
  BY DEF RunnerFound
<1>2. PICK d : d = [c EXCEPT !.stage = "run", !.of = pending[c.node].task]
  OBVIOUS
<1>3. PICK r \in Runners : r = answer[Asker(c)].actor
  BY <1>1 DEF Entries, Runners
<1>4. d \in Continuations /\ d.stage = "run"
  <2>1. pending[c.node].task \in Tasks
    BY <1>1, RequestTypes DEF Distributor!RunnerFound
  <2>2. QED
    BY <1>2, <2>1 DEF Continuations, Distributor!Continuations
<1>5. tasks' = [tasks EXCEPT ![r] = Append(@, d)]
  BY <1>2, <1>3 DEF RunnerFound, Arrives
<1>6. inflight' = [inflight EXCEPT ![c] = @ - 1, ![d] = @ + 1]
  BY <1>1, <1>2 DEF Distributor!RunnerFound, Distributor!HandledBySending
<1>7. \A e \in Continuations : e.stage = "run" =>
         inflight'[e] = IF e = d THEN inflight[e] + 1 ELSE inflight[e]
  BY <1>1, <1>4, <1>6, RequestTypes
<1>8. RunsInOnePlace'
  <2>1. ASSUME NEW e \in Continuations, e.stage = "run"
        PROVE  IsFiniteSet(Held(e)') /\ Cardinality(Held(e)') = inflight'[e]
    <3>1. IsFiniteSet(Held(e)) /\ Cardinality(Held(e)) = inflight[e]
      BY <2>1 DEF RunsInOnePlace
    <3>2. /\ IsFiniteSet(Held(e)')
          /\ Cardinality(Held(e)') = IF e = d THEN Cardinality(Held(e)) + 1
                                               ELSE Cardinality(Held(e))
      BY <1>4, <1>5, <3>1, HeldAfterArrival
    <3>3. QED
      BY <1>7, <2>1, <3>1, <3>2
  <2>2. QED
    BY <2>1 DEF RunsInOnePlace
<1>9. TasksType'
  <2>1. tasks[r] \in Seq(Continuations)
    BY DEF TasksType
  <2>2. Append(tasks[r], d) \in Seq(Continuations)
    BY <1>4, <2>1, AppendTo
  <2>3. QED
    BY <1>5, <2>2 DEF TasksType
<1>10. QED
  BY <1>8, <1>9

\* A request that leaves a runner is not awaited any more.
LEMMA RunsTaken ==
    ASSUME RunsInOnePlace, NEW r \in Runners, NEW p \in Nat, TakenAt(r, p),
           p \in DOMAIN tasks[r],
           \A e \in Continuations : e.stage = "run" =>
              inflight'[e] = IF e = tasks[r][p] THEN inflight[e] - 1 ELSE inflight[e]
    PROVE  RunsInOnePlace'
<1>1. ASSUME NEW e \in Continuations, e.stage = "run"
      PROVE  IsFiniteSet(Held(e)') /\ Cardinality(Held(e)') = inflight'[e]
  <2>1. IsFiniteSet(Held(e)) /\ Cardinality(Held(e)) = inflight[e]
    BY <1>1 DEF RunsInOnePlace
  <2>2. /\ IsFiniteSet(Held(e)')
        /\ Cardinality(Held(e)') = IF tasks[r][p] = e THEN Cardinality(Held(e)) - 1
                                                      ELSE Cardinality(Held(e))
    BY <2>1, HeldAfterTaking
  <2>3. QED
    BY <1>1, <2>1, <2>2
<1>2. QED
  BY <1>1 DEF RunsInOnePlace

LEMMA RunsBounced ==
    ASSUME DistributorProofs!IInv, TasksType, RunsInOnePlace,
           NEW c \in Continuations, RunnerFails(c)
    PROVE  TasksType' /\ RunsInOnePlace'
<1>1. PICK r \in Runners : \E i \in DOMAIN tasks[r] : tasks[r][i] = c /\ Bounces(r, i)
  BY DEF RunnerFails
<1>2. PICK i \in DOMAIN tasks[r] : tasks[r][i] = c /\ Bounces(r, i)
  BY <1>1
<1>3. TasksType' /\ TakenAt(r, i) /\ i \in Nat
  BY <1>2, AnyIsTaken DEF Bounces
<1>4. PICK d : d = [c EXCEPT !.stage = "failed"]
  OBVIOUS
<1>5. d \in Continuations /\ d.stage = "failed"
  BY <1>4 DEF Continuations, Distributor!Continuations
<1>6. /\ inflight' = [inflight EXCEPT ![c] = @ - 1, ![d] = @ + 1]
      /\ c.stage \in {"find", "run"}
  BY <1>4 DEF RunnerFails, Distributor!Fails, Distributor!HandledBySending
<1>7. \A e \in Continuations : e.stage = "run" =>
         inflight'[e] = IF e = tasks[r][i] THEN inflight[e] - 1 ELSE inflight[e]
  BY <1>2, <1>5, <1>6, RequestTypes
<1>8. QED
  BY <1>2, <1>3, <1>7, RunsTaken

LEMMA RunsTreated ==
    ASSUME DistributorProofs!IInv, TasksType, RunsInOnePlace, NEW r \in Runners, RunnerTreats(r)
    PROVE  TasksType' /\ (crashed' \/ RunsInOnePlace')
<1>1. /\ TasksType' /\ TakenAt(r, 1) /\ 1 \in DOMAIN tasks[r]
      /\ Head(tasks[r]) = tasks[r][1] /\ Head(tasks[r]) \in Continuations
  BY FirstIsTaken DEF RunnerTreats, Treats
<1>2. PICK c \in Continuations : c = Head(tasks[r])
  BY <1>1
<1>3. CASE Distributor!Handled(c)
  <2>1. \A e \in Continuations : e.stage = "run" =>
           inflight'[e] = IF e = tasks[r][1] THEN inflight[e] - 1 ELSE inflight[e]
    BY <1>1, <1>2, <1>3, RequestTypes DEF Distributor!Handled
  <2>2. QED
    BY <1>1, <2>1, RunsTaken
<1>4. Distributor!Handled(c) \/ crashed' = TRUE
  BY <1>2 DEF RunnerTreats, IsStray, Distributor!ResultReceived, Distributor!StrayHasNoEffect,
     Distributor!StrayCrashes
<1>5. QED
  BY <1>1, <1>3, <1>4

LEMMA RunsTaskReceived ==
    ASSUME DistributorProofs!IInv, NEW t \in Tasks, TaskReceived(t)
    PROVE  \A c \in Continuations : c.stage = "run" => inflight'[c] = inflight[c]
<1>1. PICK size \in 0 .. MaxPieces, n \in Nodes :
         inflight' = [c \in Continuations |->
                        IF \E i \in 1 .. size : c = Distributor!Find(n, i, t)
                        THEN inflight[c] + 1 ELSE inflight[c]]
  BY DEF TaskReceived, Distributor!Request, Continuations
<1>2. \A i : Distributor!Find(n, i, t).stage = "find"
  BY DEF Distributor!Find
<1>3. QED
  BY <1>1, <1>2

LEMMA RunsHandledElsewhere ==
    ASSUME DistributorProofs!IInv, NEW c \in Continuations,
           FindFails(c) \/ ErrorReceived(c) \/ StrayReceived(c)
    PROVE  crashed' \/ \A e \in Continuations : e.stage = "run" => inflight'[e] = inflight[e]
<1>1. ASSUME c.stage # "run", NEW d \in Continuations, d.stage # "run",
             inflight' = [inflight EXCEPT ![c] = @ - 1, ![d] = @ + 1]
      PROVE  \A e \in Continuations : e.stage = "run" => inflight'[e] = inflight[e]
  BY <1>1, RequestTypes
<1>2. ASSUME c.stage # "run", inflight' = [inflight EXCEPT ![c] = @ - 1]
      PROVE  \A e \in Continuations : e.stage = "run" => inflight'[e] = inflight[e]
  BY <1>2, RequestTypes
<1>3. CASE FindFails(c)
  <2>1. PICK d : d = [c EXCEPT !.stage = "failed"]
    OBVIOUS
  <2>2. d \in Continuations /\ d.stage # "run"
    BY <2>1 DEF Continuations, Distributor!Continuations
  <2>3. c.stage # "run" /\ inflight' = [inflight EXCEPT ![c] = @ - 1, ![d] = @ + 1]
    BY <1>3, <2>1 DEF FindFails, Distributor!Fails, Distributor!HandledBySending
  <2>4. QED
    BY <1>1, <2>2, <2>3
<1>4. CASE ErrorReceived(c)
  <2>1. c.stage # "run" /\ Distributor!IsValid(c)
        /\ (Distributor!Retry(c) \/ Distributor!GiveUp(c))
    BY <1>4 DEF ErrorReceived, Distributor!ErrorReceived
  <2>2. CASE Distributor!Retry(c)
    <3>1. PICK d : d = Distributor!Find(c.node, c.index, pending[c.node].task)
      OBVIOUS
    <3>2. d \in Continuations /\ d.stage # "run"
      BY <2>1, <3>1, RequestTypes DEF Continuations, Distributor!Continuations, Distributor!Find
    <3>3. inflight' = [inflight EXCEPT ![c] = @ - 1, ![d] = @ + 1]
      BY <2>2, <3>1 DEF Distributor!Retry, Distributor!HandledBySending
    <3>4. QED
      BY <1>1, <2>1, <3>2, <3>3
  <2>3. CASE Distributor!GiveUp(c)
    BY <1>2, <2>1, <2>3 DEF Distributor!GiveUp, Distributor!Handled
  <2>4. QED
    BY <2>1, <2>2, <2>3
<1>5. CASE StrayReceived(c)
  <2>1. c.stage # "run"
    BY <1>5 DEF StrayReceived
  <2>2. inflight' = [inflight EXCEPT ![c] = @ - 1] \/ crashed' = TRUE
    BY <1>5 DEF StrayReceived, IsStray, Distributor!StrayHasNoEffect, Distributor!StrayCrashes,
       Distributor!Handled
  <2>3. QED
    BY <1>2, <2>1, <2>2
<1>6. QED
  BY <1>3, <1>4, <1>5

\* The runners keep their requests, but for the steps that treat or send one.
LEMMA TasksLeftAlone ==
    ASSUME GridNext
    PROVE  \/ tasks' = tasks
           \/ \E c \in Outstanding : RunnerFound(c) \/ RunnerFails(c)
           \/ \E r \in Runners : RunnerTreats(r)
<1>1. CASE RegistryStepHere \/ \E m \in Managers : ManagerStepHere(m)
  BY <1>1 DEF RegistryStepHere, ManagerStepHere, runnerVars
<1>2. CASE RunnersBeside
  BY <1>2 DEF RunnersBeside, ReceiverEndsRunner, RunnersTrouble, TaskTakesLong, RunnerCrashes,
     Ends, FalseAlarm, runnerVars
<1>3. CASE \/ \E e \in Enrolments : MonitoringStep(e)
           \/ TesterStep
  BY <1>3 DEF MonitoringStep, TesterStep, TesterSends, TesterEnds, runnerVars
<1>4. ASSUME NEW c \in Outstanding, DistributorStep(c)
      PROVE  tasks' = tasks \/ RunnerFound(c) \/ RunnerFails(c)
  BY <1>4 DEF DistributorStep, FindFails, ErrorReceived, StrayReceived, runnerVars
<1>5. CASE \E t \in Tasks : TaskReceived(t)
  BY <1>5 DEF TaskReceived, runnerVars
<1>6. QED
  BY <1>1, <1>2, <1>3, <1>4, <1>5 DEF GridNext, RunnerStep, TaskStep

LEMMA TasksTypeStep ==
    ASSUME DistributorProofs!IInv, TypeInv, TasksType, RunsInOnePlace, GridNext
    PROVE  TasksType'
<1>1. tasks' = tasks => TasksType'
  BY DEF TasksType
<1>2. QED
  BY <1>1, TasksLeftAlone, RunsFound, RunsBounced, RunsTreated DEF Outstanding

LEMMA RunsStep ==
    ASSUME DistributorProofs!IInv, TypeInv, TasksType, RunsInOnePlace, GridNext
    PROVE  crashed' \/ RunsInOnePlace'
<1>1. CASE \/ \E c \in Outstanding : RunnerFound(c) \/ RunnerFails(c)
           \/ \E r \in Runners : RunnerTreats(r)
  BY <1>1, RunsFound, RunsBounced, RunsTreated DEF Outstanding
<1>2. ASSUME tasks' = tasks,
             ~ \E c \in Outstanding : RunnerFound(c) \/ RunnerFails(c),
             ~ \E r \in Runners : RunnerTreats(r)
      PROVE  crashed' \/ \A c \in Continuations : c.stage = "run" => inflight'[c] = inflight[c]
  <2>1. CASE inflight' = inflight
    BY <2>1
  <2>2. CASE \E t \in Tasks : TaskReceived(t)
    BY <2>2, RunsTaskReceived
  <2>3. CASE \E c \in Outstanding : DistributorStep(c)
    BY <1>2, <2>3, RunsHandledElsewhere DEF DistributorStep, Outstanding
  <2>4. QED
    BY <1>2, <2>1, <2>2, <2>3 DEF GridNext, RegistryStepHere, ManagerStepHere, RunnersBeside,
       MonitoringStep, RunnerStep, TesterStep, TesterSends, TesterEnds, TaskStep, Beside,
       distributorVars
<1>3. QED
  BY <1>1, <1>2, TasksLeftAlone, RunsUntouched

LEMMA RunsInit ==
    ASSUME GridInit
    PROVE  TasksType /\ RunsInOnePlace
<1>1. tasks = [r \in Runners |-> <<>>] /\ inflight = [c \in Continuations |-> 0]
  BY DEF GridInit, RunnersInit, Distributor!Init, Continuations
<1>2. \A c : Held(c) = {}
  BY <1>1, HeldIs
<1>3. RunsInOnePlace
  BY <1>1, <1>2, FS_EmptySet DEF RunsInOnePlace
<1>4. QED
  BY <1>1, <1>3 DEF TasksType

-----------------------------------------------------------------------------
(***************************************************************************)
(* The invariant of the grid                                               *)
(***************************************************************************)

\* The invariants of the parts, and what ties them: the registering service knows
\* no request but those of tasks received, and requests and mailboxes agree.  The
\* distributor is spoken of only as long as the process lives.
GridInv ==
    /\ ServiceInv
    /\ AskedWithTask
    /\ FindsInOnePlace
    /\ TasksType
    /\ crashed \/ (DistributorProofs!IInv /\ RunsInOnePlace)

LEMMA GridInvInit == GridInit => GridInv
<1> SUFFICES ASSUME GridInit
             PROVE  GridInv
  OBVIOUS
<1>1. ServiceInv
  BY TypeInit, TracedInit, KeepingInit DEF GridInit, ServiceInv
<1>2. AskedWithTask
  BY DEF GridInit, Init, AskedWithTask
<1>3. FindsInOnePlace
  BY FindsInit DEF GridInit
<1>4. QED
  BY <1>1, <1>2, <1>3, RunsInit, DistributorInit DEF GridInv

LEMMA GridInvStep == GridInv /\ [GridNext]_gridVars => GridInv'
<1> SUFFICES ASSUME GridInv, [GridNext]_gridVars
             PROVE  GridInv'
  OBVIOUS
<1>1. ServiceInv' /\ FindsInOnePlace'
  BY ServiceInvStep, FindsStep DEF GridInv
<1>2. CASE GridNext
  <2>1. /\ ~ crashed /\ DistributorProofs!IInv /\ RunsInOnePlace /\ TypeInv
        /\ TasksType /\ AskedWithTask
    BY <1>2, NotCrashedYet DEF GridInv, ServiceInv
  <2>2. AskedWithTask'
    BY <1>2, <2>1, AskedWithTaskStep
  <2>3. TasksType'
    BY <1>2, <2>1, TasksTypeStep
  <2>4. crashed' \/ RunsInOnePlace'
    BY <1>2, <2>1, RunsStep
  <2>5. crashed' \/ DistributorProofs!IInv'
    BY <1>1, <1>2, <2>1, DistributorInvStep
  <2>6. QED
    BY <1>1, <2>2, <2>3, <2>4, <2>5 DEF GridInv
<1>3. CASE UNCHANGED gridVars
  <2>1. UNCHANGED <<asked, pieces, tasks, inflight, crashed>>
    BY <1>3 DEF gridVars, vars, distributorVars, runnerVars
  <2>2. AskedWithTask'
    BY <2>1 DEF GridInv, AskedWithTask
  <2>3. TasksType'
    BY <2>1 DEF GridInv, TasksType
  <2>4. crashed' \/ RunsInOnePlace'
    BY <2>1, RunsUntouched DEF GridInv
  <2>5. crashed' \/ DistributorProofs!IInv'
    <3>1. UNCHANGED DistributorProofs!vars
      BY <1>3 DEF gridVars, vars, distributorVars, DistributorProofs!vars
    <3>2. QED
      BY <2>1, <3>1, DistributorProofs!IInvStep, DistributorAssumption DEF GridInv
  <2>6. QED
    BY <1>1, <2>2, <2>3, <2>4, <2>5 DEF GridInv
<1>4. QED
  BY <1>2, <1>3

\* The inductive invariant holds in every state of the grid.
THEOREM GridInvariant == GridSpec => []GridInv
  BY GridInvInit, GridInvStep, PTL DEF GridSpec

\* distributeOne: whatever fails and whatever is erased, every request of the
\* distributor is in exactly one place as long as the process lives - a find in one
\* mailbox of the registering service or its managers until it is answered, a
\* subtask in the mailbox of one runner.  None is lost on the way between them,
\* and none doubled.
THEOREM RequestsAreInOnePlaceHolds == GridSpec => []RequestsAreInOnePlace
<1>1. GridInv => RequestsAreInOnePlace
  BY FindsAreCounted DEF GridInv, RunsInOnePlace, RequestsAreInOnePlace
<1>2. QED
  BY <1>1, GridInvariant, PTL

\* find_service, in the grid: the client is answered somebody enrolled for the
\* service it asked for ...
THEOREM GridAnswersEnrolled == GridSpec => []AnswersEnrolled
<1>1. GridInv => AnswersEnrolled
  BY DEF GridInv, ServiceInv, Traced
<1>2. QED
  BY <1>1, GridInvariant, PTL

\* ... and not refused when somebody was registered, unless one of the causes was
\* met, although all subtasks of a task ask at once.
THEOREM GridFindsSucceed == GridSpec => []FindSucceeds
<1>1. GridInv => FindSucceeds
  BY DEF GridInv, ServiceInv, Keeping, PromisesKept, FindSucceeds
<1>2. QED
  BY <1>1, GridInvariant, PTL

-----------------------------------------------------------------------------
(****************************************************************************)
(* No task fails without a death or an empty registry                      *)
(****************************************************************************)

\* Somebody who was answered a runner died, or was told that there is none and had no
\* right to one.
Reason ==
    \/ causes # {}
    \/ \E s \in Clients :
          \/ answer[s] \in Entries /\ answer[s].actor \notin alive
          \/ answer[s] \in {ServiceNotFound, RuntimeError} /\ s \notin promised

\* Nobody returns from the dead, what was lost stays lost, an answer is the only one,
\* and no right to a runner comes after it.
Remembers ==
    /\ causes' = {} => causes = {}
    /\ alive' \subseteq alive
    /\ \A s \in Clients : answer[s] # NoAnswer =>
          answer'[s] = answer[s] /\ (s \in promised' => s \in promised)

LEMMA AnswersAreSome ==
    /\ \A x \in Entries : x # NoAnswer /\ x.actor \in Runners
    /\ ServiceNotFound # NoAnswer /\ RuntimeError # NoAnswer
<1>1. Entries \subseteq Slots
  BY DEF Entries, Slots
<1>2. \A x \in Entries : x.actor \in Runners
  BY DEF Entries, Runners
<1>3. QED
  BY <1>1, <1>2, RegistrationAssumption

LEMMA ReasonStays ==
    ASSUME Reason, Remembers
    PROVE  Reason'
<1>1. CASE causes # {}
  BY <1>1 DEF Remembers, Reason
<1>2. ASSUME NEW s \in Clients, answer[s] \in Entries, answer[s].actor \notin alive
      PROVE  Reason'
  <2>1. answer'[s] = answer[s]
    BY <1>2, AnswersAreSome DEF Remembers
  <2>2. answer'[s] \in Entries /\ answer'[s].actor \notin alive'
    BY <1>2, <2>1 DEF Remembers
  <2>3. QED
    BY <2>2 DEF Reason
<1>3. ASSUME NEW s \in Clients, answer[s] \in {ServiceNotFound, RuntimeError}, s \notin promised
      PROVE  Reason'
  <2>1. answer'[s] = answer[s] /\ s \notin promised'
    BY <1>3, AnswersAreSome DEF Remembers
  <2>2. QED
    BY <1>3, <2>1 DEF Reason
<1>4. QED
  BY <1>1, <1>2, <1>3 DEF Reason

LEMMA RemembersUnchanged ==
    ASSUME UNCHANGED <<answer, history>>, alive' \subseteq alive
    PROVE  Remembers
  BY DEF Remembers, history

LEMMA RegistryRemembers ==
    ASSUME ServiceInv, RegistryStep
    PROVE  Remembers
<1>0. /\ TypeInv
      /\ answer \in [Clients -> Slots \cup {NoAnswer, ServiceNotFound, RuntimeError}]
  BY DEF ServiceInv, TypeInv, TypeOK
<1>1. CASE HandleRegister \/ HandleRegisterAs
  <2>1. UNCHANGED <<environment, answer, promised, causes>>
    BY <1>0, <1>1, RegisterSteps
  <2>2. QED
    BY <2>1 DEF Remembers, environment
<1>2. CASE HandleUnregister \/ HandleUnregisterAll
  <2>1. UNCHANGED <<environment, answer, promised, causes>>
    BY <1>0, <1>2, UnregisterSteps
  <2>2. QED
    BY <2>1 DEF Remembers, environment
<1>3. CASE HandleRemove \/ HandleExit
  <2>1. causes \subseteq causes' /\ UNCHANGED <<environment, answer, promised>>
    BY <1>0, <1>3, ClosingSteps
  <2>2. QED
    BY <2>1 DEF Remembers, environment
<1>4. CASE HandleFind
  <2>1. PICK service \in Services, c \in Clients :
              /\ Head(inbox) = [type |-> "find", service |-> service, client |-> c]
              /\ inbox # <<>> /\ inbox \in Seq(RegistryMessages)
              /\ answer' = answer \/ answer' = [answer EXCEPT ![c] = ServiceNotFound]
              /\ promised' = promised \cup {c} \/ promised' = promised
              /\ UNCHANGED <<environment, causes>>
    BY <1>0, <1>4, FindSteps
  <2>2. 1 \in DOMAIN inbox /\ inbox[1].type = "find" /\ inbox[1].client = c
    BY <2>1, TailOf
  <2>3. answer[c] = NoAnswer
    BY <2>2 DEF ServiceInv, Single, Waiting
  <2>4. \A s \in Clients : s # c => answer'[s] = answer[s] /\ (s \in promised' => s \in promised)
    BY <1>0, <2>1
  <2>5. QED
    BY <2>1, <2>3, <2>4 DEF Remembers, environment
<1>5. CASE HandleRemoveCrashes \/ HandleExitCrashes
  <2>1. UNCHANGED <<environment, answer, history>>
    BY <1>5, CrashSteps
  <2>2. QED
    BY <2>1, RemembersUnchanged DEF environment
<1>6. QED
  BY <1>1, <1>2, <1>3, <1>4, <1>5 DEF RegistryStep

\* Whoever has a find in the mailbox of a manager has not been answered.
LEMMA FindersWait ==
    ASSUME ServiceInv, FindsInOnePlace, NEW m \in Managers, NEW c \in Clients,
           Takes(m, [type |-> "find", client |-> c])
    PROVE  answer[c] = NoAnswer
<1>1. PICK q \in Seq(ManagerMessages) : q = box[m]
  BY DEF Takes
<1>2. q # <<>> /\ Head(q) = [type |-> "find", client |-> c]
  BY <1>1 DEF Takes
<1>3. 1 \in DOMAIN q /\ Head(q) = q[1]
  BY <1>2, TailOf
<1>4. 1 \in DOMAIN box[m] /\ box[m][1] = [type |-> "find", client |-> c]
  BY <1>1, <1>2, <1>3
<1>5. FindIsAt(c, m, 1)
  BY <1>4 DEF FindIsAt, IsFindOf
<1>6. asked[c] = managerOf[m]
  <2>1. box[m][1].type = "find" /\ box[m][1].client = c
    BY <1>4
  <2>2. asked[box[m][1].client] = managerOf[m]
    BY <1>4, <2>1 DEF ServiceInv, Traced, TracedTo
  <2>3. QED
    BY <2>1, <2>2
<1>7. asked[c] # NoService
  BY <1>6, NotServices DEF Takes
<1>8. QED
  BY <1>5, <1>7 DEF FindsInOnePlace, IsNowhere

LEMMA ManagerRemembers ==
    ASSUME ServiceInv, FindsInOnePlace, NEW m \in Managers, ManagerStep(m)
    PROVE  Remembers
<1>0. /\ TypeInv
      /\ answer \in [Clients -> Slots \cup {NoAnswer, ServiceNotFound, RuntimeError}]
  BY DEF ServiceInv, TypeInv, TypeOK
<1>1. ASSUME NEW msg, Takes(m, msg), causes' = {} => causes = {},
             \A s \in Clients : answer[s] # NoAnswer => answer'[s] = answer[s]
      PROVE  Remembers
  BY <1>1 DEF Takes, Remembers, environment
<1>2. CASE ManagerAdds(m)
  <2>1. PICK id \in Ids, r \in Runners :
              /\ Takes(m, [type |-> "add", id |-> id, runner |-> r])
              /\ UNCHANGED <<answer, causes>>
    BY <1>0, <1>2, AddsSteps
  <2>2. QED
    BY <1>1, <2>1
<1>3. CASE ManagerRemoves(m)
  <2>1. PICK id \in Ids :
              /\ Takes(m, [type |-> "remove", id |-> id])
              /\ causes' = {} => causes = {}
              /\ UNCHANGED answer
    BY <1>0, <1>3, RemovesSteps
  <2>2. QED
    BY <1>1, <2>1
<1>4. CASE ManagerAnswers(m)
  <2>1. PICK c \in Clients :
              /\ Takes(m, [type |-> "find", client |-> c])
              /\ \/ answer' = [answer EXCEPT ![c] = RuntimeError]
                 \/ \E p \in DOMAIN idsAndActors[m] :
                       answer' = [answer EXCEPT ![c] = idsAndActors[m][p]]
              /\ UNCHANGED causes
    BY <1>0, <1>4, AnswersSteps
  <2>2. answer[c] = NoAnswer
    BY <2>1, FindersWait
  <2>3. \A s \in Clients : s # c => answer'[s] = answer[s]
    BY <1>0, <2>1
  <2>4. QED
    BY <1>1, <2>1, <2>2, <2>3
<1>5. CASE ManagerExits(m)
  <2>1. Takes(m, [type |-> "exit"]) /\ UNCHANGED <<answer, causes>>
    BY <1>0, <1>5, ExitsSteps
  <2>2. QED
    BY <1>1, <2>1
<1>6. CASE ManagerRemoveCrashes(m)
  <2>1. UNCHANGED <<environment, answer, history>>
    BY <1>6, CrashSteps
  <2>2. QED
    BY <2>1, RemembersUnchanged DEF environment
<1>7. QED
  BY <1>2, <1>3, <1>4, <1>5, <1>6 DEF ManagerStep

\* All other steps leave answers and history alone.
LEMMA OthersRemember ==
    ASSUME TypeInv,
           \/ RunnersBeside \/ TesterStep
           \/ \E t \in Tasks : TaskReceived(t)
           \/ \E e \in Enrolments : MonitoringStep(e)
           \/ \E c \in Outstanding : DistributorStep(c)
           \/ \E r \in Runners : RunnerStep(r)
    PROVE  UNCHANGED <<answer, history>> /\ alive' \subseteq alive
<1>1. CASE RunnersBeside
  <2>1. UNCHANGED <<answer, history>>
    BY <1>1 DEF RunnersBeside, RunnerActs, RunnersTrouble, ReceiverEndsRunner, TaskTakesLong,
       RunnerCrashes, Ends, RunnerDies, RunnerRegisters, RunnerUnregisters, FalseAlarm,
       MonitorFiresFalsely, vars
  <2>2. alive' \subseteq alive
    BY <1>1 DEF RunnersBeside, RunnerActs, RunnersTrouble, ReceiverEndsRunner, TaskTakesLong,
       RunnerCrashes, Ends, RunnerDies, RunnerRegisters, RunnerUnregisters, FalseAlarm,
       MonitorFiresFalsely, vars, environment
  <2>3. QED
    BY <2>1, <2>2
<1>2. CASE \E t \in Tasks : TaskReceived(t)
  BY <1>2, TaskReceivedEffect DEF Bursts
<1>3. CASE TesterStep
  BY <1>3, TesterEffect DEF EnvironmentEffect
<1>4. CASE \E e \in Enrolments : MonitoringStep(e)
  BY <1>4 DEF MonitoringStep, MonitorGivesUp, environment
<1>5. CASE \/ \E c \in Outstanding : DistributorStep(c)
           \/ \E r \in Runners : RunnerStep(r)
  BY <1>5, DistributorIdles DEF Idles, serviceVars, environment
<1>6. QED
  BY <1>1, <1>2, <1>3, <1>4, <1>5

LEMMA GridRemembers ==
    ASSUME ServiceInv, FindsInOnePlace, GridNext
    PROVE  Remembers
<1>0. TypeInv
  BY DEF ServiceInv
<1>1. CASE RegistryStepHere \/ \E m \in Managers : ManagerStepHere(m)
  BY <1>1, RegistryRemembers, ManagerRemembers DEF RegistryStepHere, ManagerStepHere
<1>2. QED
  BY <1>0, <1>1, OthersRemember, RemembersUnchanged DEF GridNext, TaskStep

\* Only a runner that somebody was answered has subtasks in its mailbox, whether the
\* registering service still knows it or not.
RunsAnswered ==
    \A r \in Runners : tasks[r] # <<>> =>
       \E s \in Clients : answer[s] \in Entries /\ answer[s].actor = r

LEMMA RunsAnsweredStep ==
    ASSUME TasksType, RunsAnswered, Remembers, GridNext
    PROVE  RunsAnswered'
<1>1. ASSUME NEW s \in Clients, answer[s] \in Entries
      PROVE  answer'[s] = answer[s]
  BY <1>1, AnswersAreSome DEF Remembers
<1>2. ASSUME \A r \in Runners : tasks'[r] # <<>> =>
                \/ tasks[r] # <<>>
                \/ \E s \in Clients : answer[s] \in Entries /\ answer[s].actor = r
      PROVE  RunsAnswered'
  BY <1>1, <1>2 DEF RunsAnswered
<1>3. ASSUME NEW c \in Outstanding, RunnerFound(c)
      PROVE  RunsAnswered'
  <2>1. PICK s \in Clients, r \in Runners : s = Asker(c) /\ r = answer[s].actor /\ answer[s] \in Entries
    BY <1>3, SubtasksAreClients, AnswersAreSome DEF RunnerFound, Outstanding
  <2>2. \A u \in Runners : u # r => tasks'[u] = tasks[u]
    BY <1>3, <2>1 DEF RunnerFound, Arrives, TasksType
  <2>3. QED
    BY <1>2, <2>1, <2>2
<1>4. ASSUME NEW c \in Outstanding, RunnerFails(c)
      PROVE  RunsAnswered'
  <2>1. PICK r \in Runners : \E i \in DOMAIN tasks[r] : Bounces(r, i)
    BY <1>4 DEF RunnerFails
  <2>2. tasks[r] # <<>> /\ \A u \in Runners : u # r => tasks'[u] = tasks[u]
    BY <2>1 DEF Bounces, TasksType
  <2>3. QED
    BY <1>2, <2>1, <2>2
<1>5. ASSUME NEW r \in Runners, RunnerTreats(r)
      PROVE  RunsAnswered'
  <2>1. tasks[r] # <<>> /\ \A u \in Runners : u # r => tasks'[u] = tasks[u]
    BY <1>5 DEF RunnerTreats, Treats, TasksType
  <2>2. QED
    BY <1>2, <2>1
<1>6. QED
  BY <1>2, <1>3, <1>4, <1>5, TasksLeftAlone

\* No request has failed, and no task was refused.
NothingFailed ==
    /\ \A c \in Continuations : c.stage = "failed" => inflight[c] = 0
    /\ ~ overtaxed /\ \A t \in Tasks : reply[t] # Error

\* Handling a request that has not failed leaves none that has.
LEMMA HandledUnfailed ==
    ASSUME DistributorProofs!IInv, NothingFailed, NEW c \in Continuations, inflight[c] > 0,
           \/ Distributor!Handled(c)
           \/ \E d \in Continuations :
                 d.stage # "failed" /\ Distributor!HandledBySending(c, d)
    PROVE  \A e \in Continuations : e.stage = "failed" => inflight'[e] = 0
<1>1. c.stage # "failed"
  BY DEF NothingFailed
<1>2. QED
  BY <1>1, RequestTypes DEF NothingFailed, Distributor!Handled, Distributor!HandledBySending

LEMMA StrayUnfailed ==
    ASSUME DistributorProofs!IInv, NothingFailed, NEW c \in Continuations, IsStray(c)
    PROVE  NothingFailed'
<1>1. inflight[c] > 0 /\ UNCHANGED <<overtaxed, reply>>
  BY DEF IsStray, Distributor!StrayHasNoEffect, Distributor!StrayCrashes
<1>2. Distributor!Handled(c) \/ inflight' = inflight
  BY DEF IsStray, Distributor!StrayHasNoEffect, Distributor!StrayCrashes
<1>3. \A e \in Continuations : e.stage = "failed" => inflight'[e] = 0
  BY <1>1, <1>2, HandledUnfailed DEF NothingFailed
<1>4. QED
  BY <1>1, <1>3 DEF NothingFailed

LEMMA ResultUnfailed ==
    ASSUME DistributorProofs!IInv, NothingFailed, NEW c \in Continuations,
           Distributor!ResultReceived(c)
    PROVE  NothingFailed'
<1>0. c \in DistributorProofs!Continuations /\ DistributorProofs!ResultReceived(c)
      /\ DistributorProofs!TypeOK /\ reply \in [Tasks -> DistributorProofs!Aggregates \cup {NoAnswer, Error}]
  BY SameContinuations, SameResultReceived DEF DistributorProofs!IInv, DistributorProofs!TypeOK
<1>1. inflight[c] > 0 /\ Distributor!Handled(c) /\ overtaxed' = overtaxed
  BY DEF Distributor!ResultReceived
<1>2. PICK node : node = DistributorProofs!Stored(pending[c.node], c.of, c.index)
  OBVIOUS
<1>3. reply' = reply \/ reply' = [reply EXCEPT ![node.task] = node.result]
  BY <1>0, <1>2 DEF DistributorProofs!ResultReceived, DistributorProofs!Stored
<1>4. DistributorProofs!IsNode(node)
  <2>1. DistributorProofs!IsValid(c)
    BY <1>0 DEF DistributorProofs!ResultReceived
  <2>2. QED
    BY <1>0, <1>2, <2>1, DistributorProofs!ResultStored, DistributorAssumption
    DEF DistributorProofs!HasStored
<1>5. node.result \in Distributor!Aggregates
  BY <1>4 DEF DistributorProofs!IsNode, DistributorProofs!TaskNodes, Distributor!Aggregates,
     DistributorProofs!Results, Distributor!Results, DistributorProofs!Indices,
     Distributor!Indices
<1>6. node.result # Error
  BY <1>5, GridAssumption
<1>7. \A t \in Tasks : reply'[t] # Error
  BY <1>0, <1>3, <1>6 DEF NothingFailed
<1>8. \A e \in Continuations : e.stage = "failed" => inflight'[e] = 0
  BY <1>1, HandledUnfailed
<1>9. QED
  BY <1>1, <1>7, <1>8 DEF NothingFailed

\* A find fails, or a subtask comes back, only for a reason.
LEMMA FailsForReason ==
    ASSUME ServiceInv, RunsAnswered, NEW c \in Continuations, FindFails(c) \/ RunnerFails(c)
    PROVE  Reason
<1>1. CASE FindFails(c)
  <2>1. Asker(c) \in Clients /\ answer[Asker(c)] \in {ServiceNotFound, RuntimeError}
    BY <1>1, SubtasksAreClients DEF FindFails
  <2>2. Asker(c) \notin promised \/ causes # {}
    BY <2>1 DEF ServiceInv, Keeping, PromisesKept
  <2>3. QED
    BY <2>1, <2>2 DEF Reason
<1>2. CASE RunnerFails(c)
  <2>1. PICK r \in Runners : \E i \in DOMAIN tasks[r] : Bounces(r, i)
    BY <1>2 DEF RunnerFails
  <2>2. r \notin alive /\ tasks[r] # <<>>
    BY <2>1 DEF Bounces
  <2>3. PICK s \in Clients : answer[s] \in Entries /\ answer[s].actor = r
    BY <2>2 DEF RunsAnswered
  <2>4. QED
    BY <2>2, <2>3 DEF Reason
<1>3. QED
  BY <1>1, <1>2

LEMMA NothingFailedStep ==
    ASSUME ServiceInv, DistributorProofs!IInv, TasksType, RunsAnswered, ~ Reason,
           NothingFailed, GridNext
    PROVE  NothingFailed'
<1>1. CASE UNCHANGED distributorVars
  BY <1>1 DEF distributorVars, NothingFailed
<1>2. ASSUME NEW t \in Tasks, TaskReceived(t)
      PROVE  NothingFailed'
  <2>1. PICK size \in 0 .. MaxPieces, n \in Nodes :
         /\ inflight' = [c \in Continuations |->
                           IF \E i \in 1 .. size : c = Distributor!Find(n, i, t)
                           THEN inflight[c] + 1 ELSE inflight[c]]
         /\ UNCHANGED <<overtaxed, reply>>
    BY <1>2 DEF TaskReceived, Distributor!Request, Continuations
  <2>2. \A i : Distributor!Find(n, i, t).stage = "find"
    BY DEF Distributor!Find
  <2>3. QED
    BY <2>1, <2>2 DEF NothingFailed
<1>3. ASSUME NEW c \in Outstanding, DistributorStep(c)
      PROVE  NothingFailed'
  <2>0. c \in Continuations /\ inflight[c] > 0
    BY DEF Outstanding
  <2>1. CASE RunnerFound(c)
    <3>1. PICK d : d = [c EXCEPT !.stage = "run", !.of = pending[c.node].task]
      OBVIOUS
    <3>2. pending[c.node].task \in Tasks
      BY <2>0, <2>1, RequestTypes DEF RunnerFound, Distributor!RunnerFound
    <3>3. d \in Continuations /\ d.stage # "failed"
      BY <2>0, <3>1, <3>2 DEF Continuations, Distributor!Continuations
    <3>4. Distributor!HandledBySending(c, d) /\ UNCHANGED <<overtaxed, reply>>
      BY <2>1, <3>1 DEF RunnerFound, Distributor!RunnerFound
    <3>5. \A e \in Continuations : e.stage = "failed" => inflight'[e] = 0
      BY <2>0, <3>3, <3>4, HandledUnfailed
    <3>6. QED
      BY <3>4, <3>5 DEF NothingFailed
  <2>2. ~ FindFails(c)
    BY <2>0, FailsForReason
  <2>3. ~ RunnerFails(c)
    BY <2>0, FailsForReason
  <2>4. ~ ErrorReceived(c)
    BY <2>0 DEF ErrorReceived, Distributor!ErrorReceived, NothingFailed
  <2>5. CASE StrayReceived(c)
    BY <2>0, <2>5, StrayUnfailed DEF StrayReceived
  <2>6. QED
    BY <1>3, <2>1, <2>2, <2>3, <2>4, <2>5 DEF DistributorStep
<1>4. ASSUME NEW r \in Runners, RunnerStep(r)
      PROVE  NothingFailed'
  <2>1. PICK c \in Continuations : c = Head(tasks[r])
    BY <1>4, FirstIsTaken DEF RunnerStep, RunnerTreats, Treats
  <2>2. Distributor!ResultReceived(c) \/ IsStray(c)
    BY <1>4, <2>1 DEF RunnerStep, RunnerTreats
  <2>3. QED
    BY <2>2, ResultUnfailed, StrayUnfailed
<1>5. QED
  BY <1>1, <1>2, <1>3, <1>4 DEF GridNext, RegistryStepHere, ManagerStepHere, RunnersBeside,
     MonitoringStep, Beside, TesterStep, TesterSends, TesterEnds, TaskStep

\* Only runners that were answered have subtasks, and none failed without a reason.
Unharmed == RunsAnswered /\ (Reason \/ NothingFailed)

LEMMA UnharmedInit == GridInit => Unharmed
<1> SUFFICES ASSUME GridInit
             PROVE  Unharmed
  OBVIOUS
<1>1. RunsAnswered
  BY DEF GridInit, RunnersInit, RunsAnswered
<1>2. /\ inflight = [c \in Continuations |-> 0] /\ reply = [t \in Tasks |-> NoAnswer]
      /\ config \in Configurations
      /\ overtaxed = (config.retryOnFailure /\ config.maxRetryCount = 0)
  BY DEF GridInit, Distributor!Init, Continuations
<1>3. ~ config.retryOnFailure
  BY <1>2 DEF Configurations
<1>4. NothingFailed
  BY <1>2, <1>3, GridAssumption DEF NothingFailed
<1>5. QED
  BY <1>1, <1>4 DEF Unharmed

LEMMA UnharmedStep == GridInv /\ Unharmed /\ [GridNext]_gridVars => Unharmed'
<1> SUFFICES ASSUME GridInv, Unharmed, [GridNext]_gridVars
             PROVE  Unharmed'
  OBVIOUS
<1>1. CASE GridNext
  <2>1. ServiceInv /\ FindsInOnePlace /\ DistributorProofs!IInv /\ TasksType /\ RunsAnswered
    BY <1>1, NotCrashedYet DEF GridInv, Unharmed
  <2>2. Remembers
    BY <1>1, <2>1, GridRemembers
  <2>3. RunsAnswered'
    BY <1>1, <2>1, <2>2, RunsAnsweredStep
  <2>4. Reason' \/ NothingFailed'
    BY <1>1, <2>1, <2>2, ReasonStays, NothingFailedStep DEF Unharmed
  <2>5. QED
    BY <2>3, <2>4 DEF Unharmed
<1>2. CASE UNCHANGED gridVars
  <2>1. UNCHANGED <<tasks, causes, answer, promised, alive, inflight, overtaxed, reply>>
    BY <1>2 DEF gridVars, vars, distributorVars, runnerVars, environment, history
  <2>2. RunsAnswered'
    BY <2>1 DEF Unharmed, RunsAnswered
  <2>3. Reason' \/ NothingFailed'
    BY <2>1 DEF Unharmed, Reason, NothingFailed
  <2>4. QED
    BY <2>2, <2>3 DEF Unharmed
<1>3. QED
  BY <1>1, <1>2

\* A task is refused, or the distributor overtaxed, only when a runner that was
\* answered to somebody has died, or somebody asked when no runner was registered.
\* Runners that are given up while they live, because their heartbeats wait behind
\* other subtasks, that unregister, or whose manager is emptied under the burst of
\* finds, harm no task: what they hold they still treat.
THEOREM NoNeedlessFailureHolds == GridSpec => []NoNeedlessFailure
<1>1. Unharmed => NoNeedlessFailure
  BY DEF Unharmed, Reason, NothingFailed, NoNeedlessFailure
<1>2. GridInit => GridInv /\ Unharmed
  BY GridInvInit, UnharmedInit
<1>3. (GridInv /\ Unharmed) /\ [GridNext]_gridVars => (GridInv /\ Unharmed)'
  BY GridInvStep, UnharmedStep
<1>4. QED
  BY <1>1, <1>2, <1>3, PTL DEF GridSpec

-----------------------------------------------------------------------------
(***************************************************************************)
(* The registering service beside a distributor                            *)
(***************************************************************************)

\* Requests for runners, however many at once, and what runners and distributor do
\* leave lists, monitors and their reports as they are.
LEMMA WatchBurst ==
    ASSUME ServiceInv, Once, Covered, NEW t \in Tasks, Bursts(t)
    PROVE  (Once /\ Covered)'
<1>1. UNCHANGED <<registered, managerOf, box, idsAndActors, serviceIds, chosen,
               monitors>>
  BY DEF Bursts, registry, managers, history
<1>2. Once'
  BY <1>1 DEF Once, OnceAt, KnownAt, IsRegistered
<1>3. ASSUME NEW e \in Enrolments, Reported(e)
      PROVE  Reported(e)'
  <2>1. \A i \in DOMAIN inbox : i \in DOMAIN inbox' /\ inbox'[i] = inbox[i]
    BY BurstProperties DEF ServiceInv
  <2>2. QED
    BY <1>1, <1>3, <2>1 DEF Reported, UnregisterOf
<1>4. ASSUME NEW e \in Enrolments, NEW m \in Managers, e.id \notin chosen',
             registered'[e.service] = m
      PROVE  CoveredAt(m, e)'
  <2>1. CoveredAt(m, e)
    BY <1>1, <1>4 DEF Covered
  <2>2. QED
    BY <1>1, <1>3, <2>1, CoveredOther
<1>5. Covered'
  BY <1>4 DEF Covered
<1>6. QED
  BY <1>2, <1>5

LEMMA WatchStep ==
    ASSUME GridInv, Once, Covered, [GridNext]_gridVars
    PROVE  (Once /\ Covered)'
<1>0. TypeInv /\ ServiceInv
  BY DEF GridInv, ServiceInv
<1>1. CASE [Next]_vars
  BY <1>0, <1>1, OnceStep, CoveredStep
<1>2. CASE EnvironmentEffect
  <2>1. Once'
    BY <1>2 DEF EnvironmentEffect, Once, OnceAt, KnownAt, IsRegistered, registry, managers,
       history
  <2>2. QED
    BY <1>0, <1>2, <2>1, CoveredEnvironment
<1>3. ASSUME NEW t \in Tasks, TaskReceived(t)
      PROVE  (Once /\ Covered)'
  BY <1>0, <1>3, TaskReceivedEffect, WatchBurst
<1>4. CASE Idles
  <2>1. UNCHANGED <<inbox, registered, managerOf, box, idsAndActors, serviceIds, chosen,
               monitors>>
    BY <1>4 DEF Idles, serviceVars, registry, managers, history
  <2>2. Once'
    BY <2>1 DEF Once, OnceAt, KnownAt, IsRegistered
  <2>3. QED
    BY <2>1, <2>2, CoveredStutter
<1>5. CASE UNCHANGED gridVars
  BY <1>1, <1>5 DEF gridVars
<1>6. QED
  BY <1>0, <1>1, <1>2, <1>3, <1>4, <1>5, GridSteps

\* spawn_hb_monitor, in the grid: whoever is listed under a generated id is watched,
\* or its removal is under way.  A runner that ends itself because its monitor went
\* silent, or dies with subtasks in its mailbox, is going to be forgotten.
THEOREM GridListedAreWatched == GridSpec => []ListedIsWatched
<1>1. GridInit => GridInv /\ Once /\ Covered
  BY GridInvInit, OnceInit, CoveredInit DEF GridInit
<1>2. (GridInv /\ Once /\ Covered) /\ [GridNext]_gridVars => (GridInv /\ Once /\ Covered)'
  BY GridInvStep, WatchStep
<1>3. GridInv /\ Covered => ListedIsWatched
  BY CoveredAreWatched DEF GridInv, ServiceInv
<1>4. QED
  BY <1>1, <1>2, <1>3, PTL DEF GridSpec

\* delete_service, in the grid: a runner that lives and was not unregistered stays
\* listed, however many runners beside it fail, unless one of the causes is met.
THEOREM GridInnocentsStayListed == GridSpec => []InnocentStaysListed
<1>1. GridInv => InnocentStaysListed
  BY KeptAreListed DEF GridInv, ServiceInv
<1>2. QED
  BY <1>1, GridInvariant, PTL

-----------------------------------------------------------------------------
(***************************************************************************)
(* Nobody waits in vain                                                    *)
(***************************************************************************)

\* A runner is awaited only by subtasks that asked the registering service for one.
FindersAsked ==
    \A c \in Continuations : c.stage = "find" /\ inflight[c] > 0 => asked[Asker(c)] # NoService

\* A task that waits is pending and unfinished, all of its missing subtasks have a
\* request, and every request for a runner reached the registering service.
Waits ==
    /\ DistributorProofs!Pends
    /\ DistributorProofs!NothingForgotten
    /\ \A t \in Tasks : pieces[t] \in {NotAsked, MaxPieces}
    /\ FindersAsked

\* Without retries requests for runners are sent for new tasks only.
LEMMA FindsOnlyHandled ==
    ASSUME DistributorProofs!TypeOK, DistributorProofs!Next, UNCHANGED pieces,
           NEW e \in Continuations, e.stage = "find", inflight'[e] > 0
    PROVE  inflight[e] > 0
<1>0. /\ e \in DistributorProofs!Continuations
      /\ inflight \in [DistributorProofs!Continuations -> Nat]
  BY SameContinuations DEF DistributorProofs!TypeOK
<1>1. ~ DistributorProofs!retryOnFailure
  BY DEF DistributorProofs!TypeOK, Configurations, DistributorProofs!retryOnFailure
<1>2. ASSUME NEW c \in DistributorProofs!Continuations, DistributorProofs!Left(c)
      PROVE  inflight[e] > 0
  BY <1>0, <1>2 DEF DistributorProofs!Left
<1>3. ASSUME NEW c \in DistributorProofs!Continuations,
             NEW d \in DistributorProofs!Continuations, d.stage # "find",
             DistributorProofs!Moved(c, d)
      PROVE  inflight[e] > 0
  BY <1>0, <1>3 DEF DistributorProofs!Moved
<1>4. ASSUME NEW t \in Tasks, DistributorProofs!Request(t)
      PROVE  FALSE
  <2>1. \E size \in 0 .. MaxPieces : pieces[t] = NotAsked
                                        /\ pieces' = [pieces EXCEPT ![t] = size]
    BY <1>4 DEF DistributorProofs!Request
  <2>2. pieces \in [Tasks -> (0 .. MaxPieces) \cup {NotAsked}]
    BY DEF DistributorProofs!TypeOK
  <2>3. QED
    BY <2>1, <2>2, GridAssumption
<1>5. ASSUME NEW c \in DistributorProofs!Continuations, DistributorProofs!RunnerFound(c)
      PROVE  inflight[e] > 0
  <2>1. PICK d \in DistributorProofs!Continuations :
           /\ DistributorProofs!Follows(d, c, "run", pending[c.node].task)
           /\ DistributorProofs!Moved(c, d)
    BY <1>5, DistributorProofs!RunnerFoundEffect, DistributorAssumption
  <2>2. QED
    BY <1>3, <2>1 DEF DistributorProofs!Follows
<1>6. ASSUME NEW c \in DistributorProofs!Continuations, DistributorProofs!Fails(c)
      PROVE  inflight[e] > 0
  <2>1. PICK d \in DistributorProofs!Continuations :
           /\ DistributorProofs!Follows(d, c, "failed", c.of)
           /\ DistributorProofs!Moved(c, d)
    BY <1>6, DistributorProofs!FailsEffect, DistributorAssumption
  <2>2. QED
    BY <1>3, <2>1 DEF DistributorProofs!Follows
<1>7. ASSUME NEW c \in DistributorProofs!Continuations, DistributorProofs!Handled(c),
             inflight[c] > 0
      PROVE  inflight[e] > 0
  BY <1>2, <1>7, DistributorProofs!HandledEffect, DistributorAssumption
<1>8. ASSUME NEW c \in DistributorProofs!Continuations, DistributorProofs!ErrorReceived(c)
      PROVE  inflight[e] > 0
  <2>1. DistributorProofs!Handled(c) /\ inflight[c] > 0
    BY <1>1, <1>8 DEF DistributorProofs!ErrorReceived, DistributorProofs!Retry,
       DistributorProofs!GiveUp, DistributorProofs!MayRetry
  <2>2. QED
    BY <1>7, <2>1
<1>9. ASSUME NEW c \in DistributorProofs!Continuations,
             \/ DistributorProofs!ResultReceived(c)
             \/ DistributorProofs!StrayHasNoEffect(c)
      PROVE  inflight[e] > 0
  <2>1. DistributorProofs!Handled(c) /\ inflight[c] > 0
    BY <1>9 DEF DistributorProofs!ResultReceived, DistributorProofs!StrayHasNoEffect
  <2>2. QED
    BY <1>7, <2>1
<1>10. ASSUME NEW c, DistributorProofs!StrayCrashes(c)
       PROVE  inflight[e] > 0
  BY <1>10 DEF DistributorProofs!StrayCrashes
<1>11. QED
  BY <1>4, <1>5, <1>6, <1>8, <1>9, <1>10
  DEF DistributorProofs!Next, DistributorProofs!Environment, DistributorProofs!Answered

\* The requests of a task that is received are those of its burst.
LEMMA FindersAskedTaskReceived ==
    ASSUME DistributorProofs!TypeOK, FindersAsked, NEW t \in Tasks, TaskReceived(t)
    PROVE  /\ FindersAsked'
           /\ \A u \in Tasks : pieces'[u] \in {pieces[u], MaxPieces}
<1>1. PICK size \in 0 .. MaxPieces, n \in Nodes :
         /\ pieces' = [pieces EXCEPT ![t] = size]
         /\ inflight' = [c \in Continuations |->
                           IF \E i \in 1 .. size : c = Distributor!Find(n, i, t)
                           THEN inflight[c] + 1 ELSE inflight[c]]
  BY DEF TaskReceived, Distributor!Request, Continuations
<1>2. /\ pieces'[t] = MaxPieces /\ pieces \in [Tasks -> (0 .. MaxPieces) \cup {NotAsked}]
      /\ asked' = [c \in Clients |-> IF c.task = t THEN serviceName ELSE asked[c]]
      /\ serviceName # NoService
  BY GridRunnersAssumption, RegistrationAssumption DEF TaskReceived, DistributorProofs!TypeOK
<1>3. size = MaxPieces /\ \A u \in Tasks \ {t} : pieces'[u] = pieces[u]
  BY <1>1, <1>2
<1>4. ASSUME NEW c \in Continuations, c.stage = "find", inflight'[c] > 0
      PROVE  asked'[Asker(c)] # NoService
  <2>0. Asker(c) \in Clients
    BY SubtasksAreClients
  <2>1. CASE \E i \in 1 .. size : c = Distributor!Find(n, i, t)
    <3>1. PICK i \in 1 .. MaxPieces : c = Distributor!Find(n, i, t)
      BY <1>3, <2>1
    <3>2. Asker(c) = Subtask(t, i)
      BY <3>1 DEF Asker, Distributor!Find
    <3>3. QED
      BY <1>2, <2>0, <3>2, SubtasksAreClients
  <2>2. CASE inflight'[c] = inflight[c]
    <3>1. asked[Asker(c)] # NoService
      BY <1>4, <2>2 DEF FindersAsked
    <3>2. QED
      BY <1>2, <2>0, <3>1
  <2>3. QED
    BY <1>1, <2>1, <2>2
<1>5. FindersAsked'
  <2>1. \A c : Asker(c)' = Asker(c)
    BY DEF Asker, Subtask
  <2>2. QED
    BY <1>4 DEF FindersAsked, Asker, Subtask
<1>6. QED
  BY <1>1, <1>2, <1>3, <1>5

LEMMA WaitsStep == GridInv /\ Waits /\ [GridNext]_gridVars => Waits'
<1> SUFFICES ASSUME GridInv, Waits, [GridNext]_gridVars
             PROVE  Waits'
  OBVIOUS
<1>1. CASE UNCHANGED <<asked, distributorVars>>
  <2>1. UNCHANGED <<pending, config, inflight, pieces, reply, asked>>
    BY <1>1 DEF distributorVars
  <2>2. DistributorProofs!Pends'
    BY <2>1 DEF Waits, DistributorProofs!Pends, DistributorProofs!IsPending,
       DistributorProofs!IsUnfinished, DistributorProofs!Lives, DistributorProofs!Size
  <2>3. DistributorProofs!NothingForgotten'
    BY <2>1 DEF Waits, DistributorProofs!NothingForgotten, DistributorProofs!MayRetry,
       DistributorProofs!Size, DistributorProofs!retryOnFailure,
       DistributorProofs!maxRetryCount, DistributorProofs!canReplyOnFailedSubtask
  <2>4. FindersAsked'
    BY <2>1 DEF Waits, FindersAsked, Asker, Subtask
  <2>5. QED
    BY <2>1, <2>2, <2>3, <2>4 DEF Waits
<1>2. CASE GridNext /\ DistributorProofs!Next
  <2>1. DistributorProofs!TypeOK
    BY <1>2, NotCrashedYet DEF GridInv, DistributorProofs!IInv
  <2>2. DistributorProofs!Pends'
    BY <1>2, <2>1, DistributorProofs!PendsStep, DistributorAssumption DEF Waits
  <2>3. DistributorProofs!NothingForgotten'
    BY <1>2, <2>1, DistributorProofs!NothingForgottenStep, DistributorAssumption DEF Waits
  <2>4. FindersAsked' /\ \A u \in Tasks : pieces'[u] \in {pieces[u], MaxPieces}
    <3>1. CASE \E t \in Tasks : TaskReceived(t)
      BY <2>1, <3>1, FindersAskedTaskReceived DEF Waits
    <3>2. CASE UNCHANGED <<asked, pieces>>
      <4>1. \A c \in Continuations : c.stage = "find" /\ inflight'[c] > 0 => inflight[c] > 0
        BY <1>2, <2>1, <3>2, FindsOnlyHandled
      <4>2. FindersAsked'
        BY <3>2, <4>1 DEF Waits, FindersAsked, Asker, Subtask
      <4>3. QED
        BY <3>2, <4>2
    <3>3. QED
      BY <1>2, <3>1, <3>2, OnlyTaskReceivedAsks
  <2>5. QED
    BY <2>2, <2>3, <2>4 DEF Waits
<1>3. CASE GridNext /\ UNCHANGED distributorVars
  <2>1. CASE UNCHANGED asked
    BY <1>1, <1>3, <2>1
  <2>2. CASE \E t \in Tasks : TaskReceived(t)
    <3>1. DistributorProofs!Next
      BY <1>3, <2>2, DistributorTaskReceived, NotCrashedYet
    <3>2. QED
      BY <1>2, <1>3, <3>1
  <2>3. QED
    BY <1>3, <2>1, <2>2, OnlyTaskReceivedAsks
<1>4. CASE UNCHANGED gridVars
  BY <1>1, <1>4 DEF gridVars, vars
<1>5. QED
  BY <1>2, <1>3, <1>4, DistributorSteps DEF GridInv

LEMMA WaitsInit == GridInit => Waits
<1> SUFFICES ASSUME GridInit
             PROVE  Waits
  OBVIOUS
<1>1. DistributorProofs!Init
  BY DEF GridInit, Distributor!Init, DistributorProofs!Init,
     Distributor!Continuations, DistributorProofs!Continuations,
     Distributor!Indices, DistributorProofs!Indices
<1>2. DistributorProofs!Pends /\ DistributorProofs!NothingForgotten
  BY <1>1, DistributorProofs!PendsInit, DistributorProofs!NothingForgottenInit,
     DistributorAssumption
<1>3. FindersAsked
  BY <1>1, SameContinuations DEF DistributorProofs!Init, FindersAsked
<1>4. \A t \in Tasks : pieces[t] \in {NotAsked, MaxPieces}
  BY <1>1 DEF DistributorProofs!Init
<1>5. QED
  BY <1>2, <1>3, <1>4 DEF Waits

\* Wherever a request is, somebody has it.
LEMMA RequestsAreUnderWay ==
    ASSUME FindsInOnePlace, RunsInOnePlace, FindersAsked,
           inflight \in [Continuations -> Nat],
           NEW c \in Continuations, inflight[c] > 0
    PROVE  IsUnderWay(c)
<1>1. CASE c.stage = "find" /\ answer[Asker(c)] = NoAnswer
  <2>1. Asker(c) \in Clients /\ asked[Asker(c)] # NoService
    BY <1>1, SubtasksAreClients DEF FindersAsked
  <2>2. Cardinality(FindsUnderWay(Asker(c))) = 1
    BY <1>1, <2>1, FindsAreCounted
  <2>3. FindsUnderWay(Asker(c)) # {}
    BY <2>2, FS_EmptySet
  <2>4. QED
    BY <1>1, <2>3 DEF IsUnderWay
<1>2. CASE c.stage = "run"
  <2>1. Cardinality(Held(c)) > 0
    BY <1>2 DEF RunsInOnePlace
  <2>2. Held(c) # {}
    BY <2>1, FS_EmptySet
  <2>3. QED
    BY <1>2, <2>2 DEF IsUnderWay
<1>3. QED
  BY <1>1, <1>2 DEF IsUnderWay

\* Whatever fails, and whosever iterators dangle - at a freed element or at a later
\* task that took the element over -, a tester that waits has a task pending with
\* subtasks missing, and each of those has a request that a runner, the registering
\* service, a manager or the distributor is going to handle.
THEOREM EveryTaskIsUnderWayHolds == GridSpec => []EveryTaskIsUnderWay
<1>1. GridInv /\ Waits => EveryTaskIsUnderWay
  <2>1. SUFFICES ASSUME GridInv, Waits, ~ crashed, NEW t \in Tasks,
                        pieces[t] # NotAsked, reply[t] = NoAnswer
                 PROVE  \E n \in Nodes :
                           /\ pending[n] # Free /\ pending[n].task = t
                           /\ \E i \in DOMAIN pending[n].hasRes : ~ pending[n].hasRes[i]
                           /\ \A i \in DOMAIN pending[n].hasRes :
                                 \/ pending[n].hasRes[i]
                                 \/ \E c \in Continuations :
                                       c.node = n /\ c.index = i /\ IsUnderWay(c)
    BY DEF EveryTaskIsUnderWay
  <2>2. /\ DistributorProofs!TypeOK /\ DistributorProofs!Bookkeeping
        /\ FindsInOnePlace /\ RunsInOnePlace /\ FindersAsked
        /\ inflight \in [Continuations -> Nat]
    BY <2>1, RequestTypes DEF GridInv, DistributorProofs!IInv, Waits
  <2>3. PICK n \in Nodes : DistributorProofs!Lives(n) /\ pending[n].task = t
    BY <2>1 DEF Waits, DistributorProofs!Pends, DistributorProofs!IsPending
  <2>4. Len(pending[n].hasRes) # 0
    <3>1. Len(pending[n].hasRes) = pieces[t]
      BY <2>2, <2>3 DEF DistributorProofs!Bookkeeping
    <3>2. pieces[t] = MaxPieces
      BY <2>1 DEF Waits
    <3>3. QED
      BY <3>1, <3>2, GridAssumption
  <2>5. \E i \in DOMAIN pending[n].hasRes : ~ pending[n].hasRes[i]
    BY <2>1, <2>3, <2>4 DEF Waits, DistributorProofs!Pends, DistributorProofs!IsUnfinished,
       DistributorProofs!Size
  <2>6. ~ DistributorProofs!canReplyOnFailedSubtask
    BY <2>2 DEF DistributorProofs!TypeOK, Configurations,
       DistributorProofs!canReplyOnFailedSubtask
  <2>7. ASSUME NEW i \in DOMAIN pending[n].hasRes, ~ pending[n].hasRes[i]
        PROVE  \E c \in Continuations : c.node = n /\ c.index = i /\ IsUnderWay(c)
    <3>1. PICK c \in Continuations : inflight[c] > 0 /\ c.node = n /\ c.index = i
      BY <2>1, <2>3, <2>6, <2>7, SameContinuations
      DEF Waits, DistributorProofs!NothingForgotten, DistributorProofs!Lives,
          DistributorProofs!Size
    <3>2. IsUnderWay(c)
      BY <2>2, <3>1, RequestsAreUnderWay
    <3>3. QED
      BY <3>1, <3>2
  <2>8. pending[n] # Free
    BY <2>3 DEF DistributorProofs!Lives
  <2>9. QED
    BY <2>3, <2>5, <2>7, <2>8
<1>2. GridInit => GridInv /\ Waits
  BY GridInvInit, WaitsInit
<1>3. (GridInv /\ Waits) /\ [GridNext]_gridVars => (GridInv /\ Waits)'
  BY GridInvStep, WaitsStep
<1>4. QED
  BY <1>1, <1>2, <1>3, PTL DEF GridSpec

-----------------------------------------------------------------------------
(***************************************************************************)
(* The grid serves tasks                                                   *)
(***************************************************************************)

\* Every module that instantiates the distributor speaks of the same promise.
LEMMA SameTaskService ==
    /\ DistributorProofs!TaskServiceOf!Next => Distributor!TaskServiceOf!Next
    /\ UNCHANGED DistributorProofs!TaskServiceOf!vars
          => UNCHANGED Distributor!TaskServiceOf!vars
    /\ DistributorProofs!TaskServiceOf!Init => Distributor!TaskServiceOf!Init
<1>1. DistributorProofs!TaskServiceOf!Next => Distributor!TaskServiceOf!Next
  BY DEF DistributorProofs!TaskServiceOf!Next, Distributor!TaskServiceOf!Next,
     DistributorProofs!TaskServiceOf!KeepPromise, Distributor!TaskServiceOf!KeepPromise,
     DistributorProofs!TaskServiceOf!Ask, Distributor!TaskServiceOf!Ask,
     DistributorProofs!TaskServiceOf!PieceFails, Distributor!TaskServiceOf!PieceFails,
     DistributorProofs!TaskServiceOf!Complete, Distributor!TaskServiceOf!Complete,
     DistributorProofs!TaskServiceOf!Refuse, Distributor!TaskServiceOf!Refuse,
     DistributorProofs!TaskServiceOf!IsOpen, Distributor!TaskServiceOf!IsOpen,
     DistributorProofs!TaskServiceOf!Aggregate, Distributor!TaskServiceOf!Aggregate
<1>2. UNCHANGED DistributorProofs!TaskServiceOf!vars
         => UNCHANGED Distributor!TaskServiceOf!vars
  BY DEF DistributorProofs!TaskServiceOf!vars, Distributor!TaskServiceOf!vars
<1>3. DistributorProofs!TaskServiceOf!Init => Distributor!TaskServiceOf!Init
  BY DEF DistributorProofs!TaskServiceOf!Init, Distributor!TaskServiceOf!Init
<1>4. QED
  BY <1>1, <1>2, <1>3

LEMMA ServesInit == GridInit => Distributor!TaskServiceOf!Init
<1> SUFFICES ASSUME GridInit
             PROVE  Distributor!TaskServiceOf!Init
  OBVIOUS
<1>1. DistributorProofs!Init
  BY DEF GridInit, Distributor!Init, DistributorProofs!Init,
     Distributor!Continuations, DistributorProofs!Continuations,
     Distributor!Indices, DistributorProofs!Indices
<1>2. QED
  BY <1>1, DistributorProofs!ImplementsInit, DistributorAssumption, SameTaskService

\* A step of the grid is a step of the distributor, which keeps its promise, or
\* leaves it alone.
LEMMA ServesStep ==
    GridInv /\ [GridNext]_gridVars
       => [Distributor!TaskServiceOf!Next]_(Distributor!TaskServiceOf!vars)
<1> SUFFICES ASSUME GridInv, [GridNext]_gridVars
             PROVE  \/ Distributor!TaskServiceOf!Next
                    \/ UNCHANGED (Distributor!TaskServiceOf!vars)
  OBVIOUS
<1>1. CASE UNCHANGED distributorVars
  BY <1>1 DEF distributorVars, Distributor!TaskServiceOf!vars
<1>2. CASE GridNext /\ DistributorProofs!Next
  <2>1. DistributorProofs!IInv
    BY <1>2, NotCrashedYet DEF GridInv
  <2>2. \/ DistributorProofs!TaskServiceOf!Next
        \/ UNCHANGED (DistributorProofs!TaskServiceOf!vars)
    BY <1>2, <2>1, DistributorProofs!ImplementsStep, DistributorAssumption
  <2>3. QED
    BY <2>2, SameTaskService
<1>3. CASE UNCHANGED gridVars
  BY <1>3, <1>1 DEF gridVars
<1>4. QED
  BY <1>1, <1>2, <1>3, DistributorSteps DEF GridInv

\* Whatever the registering service answers and the runners do, and in whatever
\* order, a tester is answered once, with the results of all the subtasks of its
\* own task or, after one of them failed, with an error, until the distributor is
\* overtaxed.
THEOREM GridServesTasks == GridSpec => ServesTasks
  BY ServesInit, ServesStep, GridInvariant, PTL
     DEF GridSpec, ServesTasks, Distributor!ImplementsTaskService,
     Distributor!TaskServiceOf!Spec
=============================================================================
