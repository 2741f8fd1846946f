------------------------- MODULE Registration_proofs -------------------------
(***************************************************************************)
(* Proofs about the registering service with its managers, for any number  *)
(* of services, runners, clients, ids and registrations and any budgets.   *)
(***************************************************************************)
EXTENDS Registration, ServiceList_proofs

-----------------------------------------------------------------------------
(***************************************************************************)
(* Messages                                                                *)
(***************************************************************************)

\* What the fields of a message to the registering service are.
LEMMA RegistryMessageFields ==
    ASSUME NEW msg \in RegistryMessages
    PROVE  /\ msg.type \in {"register", "registerAs", "unregister"} =>
                 msg.service \in Services
           /\ msg.type \in {"remove", "find"} => msg.service \in Services
           /\ msg.type \in {"register", "registerAs"} => msg.runner \in Runners
           /\ msg.type \in {"registerAs", "unregister", "unregisterAll"} => msg.id \in Ids
           /\ msg.type = "find" => msg.client \in Clients
  BY DEF RegistryMessages

LEMMA RegistryMessageTypes ==
    /\ \A s \in Services, r \in Runners :
          [type |-> "register", service |-> s, runner |-> r] \in RegistryMessages
    /\ \A s \in Services, r \in Runners, id \in Ids :
          [type |-> "registerAs", service |-> s, runner |-> r, id |-> id] \in RegistryMessages
    /\ \A s \in Services, id \in Ids :
          [type |-> "unregister", service |-> s, id |-> id] \in RegistryMessages
    /\ \A id \in Ids : [type |-> "unregisterAll", id |-> id] \in RegistryMessages
    /\ \A s \in Services : [type |-> "remove", service |-> s] \in RegistryMessages
    /\ \A s \in Services, c \in Clients :
          [type |-> "find", service |-> s, client |-> c] \in RegistryMessages
    /\ [type |-> "exit"] \in RegistryMessages
  BY DEF RegistryMessages

\* What the fields of a message to a manager are.
LEMMA ManagerMessageFields ==
    ASSUME NEW msg \in ManagerMessages
    PROVE  /\ msg.type = "add" => msg.id \in Ids /\ msg.runner \in Runners
           /\ msg.type = "remove" => msg.id \in Ids
           /\ msg.type = "find" => msg.client \in Clients
  BY DEF ManagerMessages

LEMMA ManagerMessageTypes ==
    /\ \A id \in Ids, r \in Runners :
          [type |-> "add", id |-> id, runner |-> r] \in ManagerMessages
    /\ \A id \in Ids : [type |-> "remove", id |-> id] \in ManagerMessages
    /\ \A c \in Clients : [type |-> "find", client |-> c] \in ManagerMessages
    /\ [type |-> "exit"] \in ManagerMessages
  BY DEF ManagerMessages

\* Taking the first message, and appending one.
LEMMA TailOf ==
    ASSUME NEW S, NEW q \in Seq(S), q # <<>>
    PROVE  /\ Head(q) \in S /\ Head(q) = q[1] /\ 1 \in DOMAIN q
           /\ Tail(q) \in Seq(S)
           /\ \A i \in DOMAIN Tail(q) : i \in Nat /\ i + 1 \in DOMAIN q /\ Tail(q)[i] = q[i + 1]
           /\ \A i \in DOMAIN q : i # 1 => i - 1 \in DOMAIN Tail(q) /\ Tail(q)[i - 1] = q[i]
  OBVIOUS

LEMMA AppendTo ==
    ASSUME NEW S, NEW q \in Seq(S), NEW x \in S
    PROVE  /\ Append(q, x) \in Seq(S)
           /\ \A i \in DOMAIN q : i \in DOMAIN Append(q, x) /\ Append(q, x)[i] = q[i]
           /\ \A i \in DOMAIN Append(q, x) :
                 \/ i \in DOMAIN q /\ Append(q, x)[i] = q[i]
                 \/ i = Len(q) + 1 /\ Append(q, x)[i] = x
           /\ Len(q) + 1 \in DOMAIN Append(q, x) /\ Append(q, x)[Len(q) + 1] = x
           /\ \A i \in DOMAIN q : i \in Nat /\ i < Len(q) + 1
  OBVIOUS

-----------------------------------------------------------------------------
(***************************************************************************)
(* Types                                                                   *)
(***************************************************************************)

\* A service is with a manager that was spawned for it, and a manager that is not
\* spawned yet has nothing.
Spawned ==
    /\ \A s \in Services :
          IsRegistered(s) => /\ registered[s] \in Managers
                             /\ registered[s] <= spawned
                             /\ managerOf[registered[s]] = s
    /\ \A m \in Managers :
          /\ m <= spawned => managerOf[m] \in Services
          /\ ~ (m <= spawned) => idsAndActors[m] = <<>> /\ box[m] = <<>>

TypeInv == TypeOK /\ Spawned

\* What registering does: the addition is appended to the mailbox of the manager
\* of the service, which is the one it had or a new one.
RegistersAt(s, id, r, m) ==
    /\ m \in Managers /\ m <= spawned' /\ spawned' \in 0 .. MaxRegistrations
    /\ registered' = [registered EXCEPT ![s] = m]
    /\ managerOf' = [managerOf EXCEPT ![m] = s]
    /\ box' = [box EXCEPT ![m] = Append(@, [type |-> "add", id |-> id, runner |-> r])]
    /\ \/ IsRegistered(s) /\ m = registered[s] /\ managerOf[m] = s /\ spawned' = spawned
       \/ /\ ~ IsRegistered(s) /\ m = spawned + 1 /\ spawned' = spawned + 1
          /\ box[m] = <<>> /\ idsAndActors[m] = <<>>

LEMMA RegisterEffect ==
    ASSUME TypeInv, NEW s \in Services, NEW id \in Ids, NEW r \in Runners,
           RegisterService(s, id, r)
    PROVE  \E m : RegistersAt(s, id, r, m)
<1>1. /\ MaxRegistrations \in Nat /\ spawned \in 0 .. MaxRegistrations
      /\ registered \in [Services -> Managers \cup {NoManager}]
      /\ managerOf \in [Managers -> Services \cup {NoService}]
      /\ Managers = 1 .. MaxRegistrations
  BY RegistrationAssumption DEF TypeInv, TypeOK, Managers
<1>2. CASE IsRegistered(s)
  <2> DEFINE m == registered[s]
  <2>1. m \in Managers /\ m <= spawned /\ managerOf[m] = s
    BY <1>2 DEF TypeInv, Spawned
  <2>2. /\ registered' = registered /\ spawned' = spawned /\ managerOf' = managerOf
        /\ box' = [box EXCEPT ![m] = Append(@, [type |-> "add", id |-> id, runner |-> r])]
    BY <1>2 DEF RegisterService, SendToManager
  <2>3. /\ registered' = [registered EXCEPT ![s] = m]
        /\ managerOf' = [managerOf EXCEPT ![m] = s]
    BY <1>1, <2>1, <2>2
  <2>4. RegistersAt(s, id, r, m)
    BY <1>1, <1>2, <2>1, <2>2, <2>3 DEF RegistersAt
  <2>5. QED
    BY <2>4
<1>3. CASE ~ IsRegistered(s)
  <2> DEFINE m == spawned + 1
  <2>1. /\ spawned < MaxRegistrations /\ spawned' = m
        /\ registered' = [registered EXCEPT ![s] = m]
        /\ managerOf' = [managerOf EXCEPT ![m] = s]
        /\ box' = [box EXCEPT ![m] = Append(@, [type |-> "add", id |-> id, runner |-> r])]
    BY <1>3 DEF RegisterService, SendToManager
  <2>2. m \in Managers /\ ~ (m <= spawned) /\ m \in 0 .. MaxRegistrations
    BY <1>1, <2>1
  <2>3. box[m] = <<>> /\ idsAndActors[m] = <<>>
    BY <2>2 DEF TypeInv, Spawned
  <2>4. RegistersAt(s, id, r, m)
    BY <1>1, <1>3, <2>1, <2>2, <2>3 DEF RegistersAt
  <2>5. QED
    BY <2>4
<1>4. QED
  BY <1>2, <1>3

\* What the environment and the monitors do: they send a message or none, and the
\* registering service, its managers and the history are left alone.
EnvironmentEffect ==
    /\ UNCHANGED <<registry, managers, answer, crashed, history>>
    /\ alive' \subseteq alive
    /\ budget' \in [Spending -> Nat]
    /\ asked' \in [Clients -> Services \cup {NoService}]
    /\ monitors' \in [Enrolments -> Nat]
    /\ \/ UNCHANGED <<inbox, asked, monitors>>
       \/ \E msg \in RegistryMessages :
             /\ inbox' = Append(inbox, msg) /\ msg.type # "find" /\ asked' = asked
             /\ \A e \in Enrolments :
                   \/ monitors'[e] = monitors[e]
                   \/ msg = [type |-> "unregister", service |-> e.service, id |-> e.id]
       \/ \E c \in Clients, s \in Services :
             /\ asked[c] = NoService /\ asked' = [asked EXCEPT ![c] = s]
             /\ inbox' = Append(inbox, [type |-> "find", service |-> s, client |-> c])
             /\ UNCHANGED monitors

LEMMA SpendType ==
    ASSUME TypeOK, NEW kinds, Spend(kinds)
    PROVE  budget' \in [Spending -> Nat]
<1>1. budget \in [Spending -> Nat] /\ \A kind \in kinds : budget[kind] > 0
  BY DEF TypeOK, Spend
<1>2. \A kind \in Spending : (IF kind \in kinds THEN budget[kind] - 1 ELSE budget[kind]) \in Nat
  BY <1>1
<1>3. QED
  BY <1>2 DEF Spend

LEMMA ReportEffect ==
    ASSUME TypeOK, NEW e \in Enrolments, MonitorReports(e)
    PROVE  /\ monitors' \in [Enrolments -> Nat]
           /\ [type |-> "unregister", service |-> e.service, id |-> e.id] \in RegistryMessages
           /\ inbox' = Append(inbox, [type |-> "unregister", service |-> e.service, id |-> e.id])
           /\ \A f \in Enrolments : f # e => monitors'[f] = monitors[f]
<1>1. monitors \in [Enrolments -> Nat] /\ monitors[e] > 0 /\ monitors[e] - 1 \in Nat
  BY DEF TypeOK, MonitorReports
<1>2. e.service \in Services /\ e.id \in Ids
  BY DEF Enrolments
<1>3. QED
  BY <1>1, <1>2, RegistryMessageTypes DEF MonitorReports, SendToRegistry

LEMMA EnvironmentSteps ==
    ASSUME TypeInv, EnvironmentStep \/ \E e \in Enrolments : MonitorStep(e)
    PROVE  EnvironmentEffect
<1> USE RegistryMessageTypes, SpendType
<1>0. /\ TypeOK
      /\ CallerIds \subseteq Ids
      /\ enrolled \subseteq Enrolments
      /\ asked \in [Clients -> Services \cup {NoService}]
      /\ monitors \in [Enrolments -> Nat]
      /\ budget \in [Spending -> Nat]
      /\ \A e \in Enrolments : e.service \in Services /\ e.id \in Ids
  BY RegistrationAssumption DEF TypeInv, TypeOK, Enrolments
<1> DEFINE Sent(msg) ==
             /\ inbox' = Append(inbox, msg) /\ msg.type # "find" /\ asked' = asked
             /\ \A e \in Enrolments :
                   \/ monitors'[e] = monitors[e]
                   \/ msg = [type |-> "unregister", service |-> e.service, id |-> e.id]
<1>1. ASSUME NEW r \in Runners, NEW s \in Services, RunnerRegisters(r, s)
      PROVE  EnvironmentEffect
  <2>1. Sent([type |-> "register", service |-> s, runner |-> r])
    BY <1>1 DEF RunnerRegisters, SendToRegistry
  <2>2. QED
    BY <1>0, <1>1, <2>1 DEF RunnerRegisters, EnvironmentEffect
<1>2. ASSUME NEW r \in Runners, NEW s \in Services, NEW id \in CallerIds,
             RunnerRegistersAs(r, s, id)
      PROVE  EnvironmentEffect
  <2>1. Sent([type |-> "registerAs", service |-> s, runner |-> r, id |-> id])
    BY <1>2 DEF RunnerRegistersAs, SendToRegistry
  <2>2. QED
    BY <1>0, <1>2, <2>1 DEF RunnerRegistersAs, EnvironmentEffect
<1>3. ASSUME NEW e \in enrolled, RunnerUnregisters(e)
      PROVE  EnvironmentEffect
  <2>1. Sent([type |-> "unregister", service |-> e.service, id |-> e.id])
    BY <1>3 DEF RunnerUnregisters, SendToRegistry
  <2>2. QED
    BY <1>0, <1>3, <2>1 DEF RunnerUnregisters, EnvironmentEffect
<1>4. ASSUME NEW e \in enrolled, RunnerUnregistersAll(e)
      PROVE  EnvironmentEffect
  <2>1. Sent([type |-> "unregisterAll", id |-> e.id])
    BY <1>4 DEF RunnerUnregistersAll, SendToRegistry
  <2>2. QED
    BY <1>0, <1>4, <2>1 DEF RunnerUnregistersAll, EnvironmentEffect
<1>5. ASSUME NEW r \in Runners, RunnerDies(r)
      PROVE  EnvironmentEffect
  BY <1>0, <1>5 DEF RunnerDies, EnvironmentEffect
<1>6. ASSUME NEW c \in Clients, NEW s \in Services, ClientAsks(c, s)
      PROVE  EnvironmentEffect
  BY <1>0, <1>6 DEF ClientAsks, SendToRegistry, EnvironmentEffect
<1>7. ASSUME NEW e \in Enrolments, MonitorFiresFalsely(e)
      PROVE  EnvironmentEffect
  <2>1. Sent([type |-> "unregister", service |-> e.service, id |-> e.id])
    BY <1>0, <1>7, ReportEffect DEF MonitorFiresFalsely
  <2>2. QED
    BY <1>0, <1>7, <2>1, ReportEffect DEF MonitorFiresFalsely, EnvironmentEffect
<1>8. CASE SomebodySendsExit
  <2>1. Sent([type |-> "exit"])
    BY <1>8 DEF SomebodySendsExit, SendToRegistry
  <2>2. QED
    BY <1>0, <1>8, <2>1 DEF SomebodySendsExit, EnvironmentEffect
<1>9. ASSUME NEW e \in Enrolments, MonitorFires(e)
      PROVE  EnvironmentEffect
  <2>1. Sent([type |-> "unregister", service |-> e.service, id |-> e.id])
    BY <1>0, <1>9, ReportEffect DEF MonitorFires
  <2>2. QED
    BY <1>0, <1>9, <2>1, ReportEffect DEF MonitorFires, environment, EnvironmentEffect
<1>10. QED
  BY <1>1, <1>2, <1>3, <1>4, <1>5, <1>6, <1>7, <1>8, <1>9 DEF EnvironmentStep, MonitorStep

\* A handler of the registering service sends one message, to some managers.
BoxesGrow(msg) ==
    /\ box' \in [Managers -> Seq(ManagerMessages)]
    /\ \A m \in Managers :
          \/ box'[m] = box[m]
          \/ m <= spawned /\ box'[m] = Append(box[m], msg)

LEMMA SendingGrows ==
    ASSUME TypeInv, NEW s \in Services, IsRegistered(s), NEW msg \in ManagerMessages,
           SendToManager(registered[s], msg)
    PROVE  /\ BoxesGrow(msg)
           /\ box'[registered[s]] = Append(box[registered[s]], msg)
           /\ \A m \in Managers : m # registered[s] => box'[m] = box[m]
<1>1. registered[s] \in Managers /\ registered[s] <= spawned
  BY DEF TypeInv, Spawned
<1>2. box \in [Managers -> Seq(ManagerMessages)]
  BY DEF TypeInv, TypeOK
<1>3. Append(box[registered[s]], msg) \in Seq(ManagerMessages)
  BY <1>1, <1>2, AppendTo
<1>4. QED
  BY <1>1, <1>2, <1>3 DEF BoxesGrow, SendToManager

LEMMA TellingGrows ==
    ASSUME TypeInv, NEW told, NEW msg \in ManagerMessages,
           told \subseteq {registered[s] : s \in {t \in Services : IsRegistered(t)}},
           box' = [m \in Managers |-> IF m \in told THEN Append(box[m], msg) ELSE box[m]]
    PROVE  /\ BoxesGrow(msg)
           /\ \A m \in Managers : box'[m] = IF m \in told THEN Append(box[m], msg) ELSE box[m]
<1>1. box \in [Managers -> Seq(ManagerMessages)]
  BY DEF TypeInv, TypeOK
<1>2. \A m \in told : m \in Managers /\ m <= spawned
  BY DEF TypeInv, Spawned
<1>3. \A m \in Managers : Append(box[m], msg) \in Seq(ManagerMessages)
  BY <1>1, AppendTo
<1>4. \A m \in Managers : box'[m] = IF m \in told THEN Append(box[m], msg) ELSE box[m]
  OBVIOUS
<1>5. box' \in [Managers -> Seq(ManagerMessages)]
  BY <1>1, <1>3
<1>6. QED
  BY <1>2, <1>4, <1>5 DEF BoxesGrow

LEMMA KeepingGrows ==
    ASSUME TypeInv, UNCHANGED box, NEW msg
    PROVE  BoxesGrow(msg)
  BY DEF TypeInv, TypeOK, BoxesGrow

\* A manager that takes a message from its mailbox.
LEMMA TakingShrinks ==
    ASSUME TypeInv, NEW m \in Managers, NEW type, TakesMessage(m, type)
    PROVE  /\ m <= spawned
           /\ box' \in [Managers -> Seq(ManagerMessages)]
           /\ box'[m] = Tail(box[m])
           /\ \A n \in Managers : n # m => box'[n] = box[n]
           /\ box[m] \in Seq(ManagerMessages) /\ box[m] # <<>>
           /\ Head(box[m]) \in ManagerMessages /\ Head(box[m]).type = type
<1>1. box \in [Managers -> Seq(ManagerMessages)]
  BY DEF TypeInv, TypeOK
<1>2. box[m] # <<>> /\ Head(box[m]).type = type /\ box' = [box EXCEPT ![m] = Tail(@)]
  BY DEF TakesMessage, ManagerReceives
<1>3. Tail(box[m]) \in Seq(ManagerMessages) /\ Head(box[m]) \in ManagerMessages
  BY <1>1, <1>2, TailOf
<1>4. m <= spawned
  BY <1>2 DEF TypeInv, Spawned
<1>5. QED
  BY <1>1, <1>2, <1>3, <1>4

\* The registering service takes a message from its inbox.
LEMMA ReceivingShrinks ==
    ASSUME TypeInv, NEW type, Receives(type)
    PROVE  /\ inbox \in Seq(RegistryMessages) /\ inbox # <<>>
           /\ Tail(inbox) \in Seq(RegistryMessages)
           /\ Head(inbox) \in RegistryMessages /\ Head(inbox).type = type
  BY TailOf DEF TypeInv, TypeOK, Receives

\* Each step keeps the types, and what Spawned says.
LEMMA TypeInit ==
    ASSUME Init
    PROVE  TypeInv
<1>1. /\ <<>> \in Seq(RegistryMessages) /\ <<>> \in Seq(Slots) /\ <<>> \in Seq(ManagerMessages)
  OBVIOUS
<1>2. MaxRegistrations \in Nat /\ Managers = 1 .. MaxRegistrations /\ budget \in [Spending -> Nat]
  BY RegistrationAssumption DEF Init, Managers
<1>3. TypeOK
  <2>1. /\ idsAndActors \in [Managers -> Seq(Slots)] /\ box \in [Managers -> Seq(ManagerMessages)]
        /\ inbox \in Seq(RegistryMessages)
    BY <1>1 DEF Init
  <2>2. /\ registered \in [Services -> Managers \cup {NoManager}]
        /\ managerOf \in [Managers -> Services \cup {NoService}]
        /\ current \in [Managers -> Nat] /\ monitors \in [Enrolments -> Nat]
        /\ asked \in [Clients -> Services \cup {NoService}]
        /\ answer \in [Clients -> Slots \cup {NoAnswer, ServiceNotFound, RuntimeError}]
    BY DEF Init
  <2>3. crashed \in BOOLEAN
    BY DEF Init
  <2>4. spawned \in 0 .. MaxRegistrations
    BY <1>2 DEF Init
  <2>5. /\ serviceIds \subseteq Ids /\ alive \subseteq Runners /\ enrolled \subseteq Enrolments
        /\ chosen \subseteq Ids /\ promised \subseteq Clients /\ left \subseteq enrolled
        /\ causes \subseteq {"overtaken", "absent", "cleared"}
    BY DEF Init
  <2>6. QED
    BY <1>2, <2>1, <2>2, <2>3, <2>4, <2>5 DEF TypeOK
<1>4. Spawned
  BY <1>2 DEF Init, Spawned, IsRegistered
<1>5. QED
  BY <1>3, <1>4 DEF TypeInv

LEMMA TypeEnvironment ==
    ASSUME TypeInv, EnvironmentEffect
    PROVE  TypeInv'
<1>1. /\ inbox \in Seq(RegistryMessages) /\ alive \subseteq Runners
      /\ TypeOK /\ Spawned
  BY DEF TypeInv, TypeOK
<1>2. inbox' \in Seq(RegistryMessages)
  <2>1. CASE inbox' = inbox
    BY <1>1, <2>1
  <2>2. ASSUME NEW msg \in RegistryMessages, inbox' = Append(inbox, msg)
        PROVE  inbox' \in Seq(RegistryMessages)
    BY <1>1, <2>2, AppendTo
  <2>3. QED
    BY <2>1, <2>2, RegistryMessageTypes DEF EnvironmentEffect
<1>3. TypeOK'
  <2>1. /\ asked' \in [Clients -> Services \cup {NoService}]
        /\ monitors' \in [Enrolments -> Nat]
        /\ budget' \in [Spending -> Nat]
        /\ alive' \subseteq Runners
    BY <1>1 DEF EnvironmentEffect
  <2>2. QED
    BY <1>1, <1>2, <2>1 DEF TypeOK, EnvironmentEffect, registry, managers, history
<1>4. Spawned'
  BY <1>1 DEF Spawned, IsRegistered, EnvironmentEffect, registry, managers
<1>5. QED
  BY <1>3, <1>4 DEF TypeInv

\* Registering, whoever chose the id.
LEMMA TypeRegister ==
    ASSUME TypeInv, NEW s \in Services, NEW id \in Ids, NEW r \in Runners,
           RegisterService(s, id, r), inbox' \in Seq(RegistryMessages),
           chosen' \subseteq Ids,
           UNCHANGED <<idsAndActors, current, environment, asked, answer, crashed, promised,
                       causes>>
    PROVE  TypeInv'
<1>1. PICK m : RegistersAt(s, id, r, m)
  BY RegisterEffect
<1>2. TypeOK /\ Spawned
  BY DEF TypeInv
<1>3. /\ MaxRegistrations \in Nat /\ spawned \in 0 .. MaxRegistrations
      /\ Managers = 1 .. MaxRegistrations
      /\ registered \in [Services -> Managers \cup {NoManager}]
      /\ managerOf \in [Managers -> Services \cup {NoService}]
      /\ box \in [Managers -> Seq(ManagerMessages)]
      /\ monitors \in [Enrolments -> Nat]
      /\ serviceIds \subseteq Ids /\ enrolled \subseteq Enrolments /\ left \subseteq enrolled
  BY <1>2, RegistrationAssumption DEF TypeOK, Managers
<1>4. m \in Managers /\ [type |-> "add", id |-> id, runner |-> r] \in ManagerMessages
  BY <1>1, ManagerMessageTypes DEF RegistersAt
<1>5. /\ spawned' \in 0 .. MaxRegistrations
      /\ registered' \in [Services -> Managers \cup {NoManager}]
      /\ managerOf' \in [Managers -> Services \cup {NoService}]
  BY <1>1, <1>3 DEF RegistersAt
<1>6. box' \in [Managers -> Seq(ManagerMessages)]
  <2>1. box[m] \in Seq(ManagerMessages)
    BY <1>3, <1>4
  <2>2. Append(box[m], [type |-> "add", id |-> id, runner |-> r]) \in Seq(ManagerMessages)
    BY <2>1, <1>4, AppendTo
  <2>3. box' = [box EXCEPT ![m] = Append(box[m], [type |-> "add", id |-> id, runner |-> r])]
    BY <1>1 DEF RegistersAt
  <2>4. QED
    BY <1>3, <2>2, <2>3
<1>7. /\ serviceIds' \subseteq Ids /\ monitors' \in [Enrolments -> Nat]
      /\ enrolled' \subseteq Enrolments /\ left' \subseteq enrolled'
  <2> DEFINE e == [service |-> s, id |-> id, runner |-> r]
  <2>1. e \in Enrolments
    BY DEF Enrolments
  <2>2. /\ serviceIds' = serviceIds \cup {id} /\ monitors' = [monitors EXCEPT ![e] = @ + 1]
        /\ enrolled' = enrolled \cup {e} /\ left' = left \ {e}
    BY DEF RegisterService
  <2> HIDE DEF e
  <2>3. QED
    BY <1>3, <2>1, <2>2
<1>8. TypeOK'
  BY <1>2, <1>5, <1>6, <1>7 DEF TypeOK, environment
<1>9. Spawned'
  <2>1. ASSUME NEW t \in Services, IsRegistered(t)'
        PROVE  /\ registered'[t] \in Managers /\ registered'[t] <= spawned'
               /\ managerOf'[registered'[t]] = t
    <3>1. CASE t = s
      BY <1>1, <1>3, <3>1 DEF RegistersAt
    <3>2. CASE t # s
      <4>1. registered'[t] = registered[t] /\ registered[t] # NoManager
        BY <1>1, <1>3, <2>1, <3>2 DEF RegistersAt, IsRegistered
      <4>2. /\ registered[t] \in Managers /\ registered[t] <= spawned
            /\ managerOf[registered[t]] = t
        BY <1>2, <4>1 DEF Spawned, IsRegistered
      <4>3. registered[t] # m
        BY <1>1, <1>3, <3>2, <4>2 DEF RegistersAt
      <4>4. QED
        BY <1>1, <1>3, <4>1, <4>2, <4>3 DEF RegistersAt
    <3>3. QED
      BY <3>1, <3>2
  <2>2. ASSUME NEW n \in Managers, n <= spawned'
        PROVE  managerOf'[n] \in Services
    BY <1>1, <1>2, <1>3, <2>2 DEF RegistersAt, Spawned
  <2>3. ASSUME NEW n \in Managers, ~ (n <= spawned')
        PROVE  idsAndActors'[n] = <<>> /\ box'[n] = <<>>
    <3>1. n # m /\ ~ (n <= spawned)
      BY <1>1, <1>3, <2>3 DEF RegistersAt
    <3>2. box'[n] = box[n] /\ idsAndActors' = idsAndActors
      BY <1>1, <1>3, <3>1 DEF RegistersAt
    <3>3. QED
      BY <1>2, <3>1, <3>2 DEF Spawned
  <2>4. QED
    BY <2>1, <2>2, <2>3 DEF Spawned
<1>10. QED
  BY <1>8, <1>9 DEF TypeInv

\* A handler of the registering service that lets mailboxes of managers grow.
LEMMA TypeForward ==
    ASSUME TypeInv, NEW msg, BoxesGrow(msg), inbox' \in Seq(RegistryMessages),
           registered' \in [Services -> Managers \cup {NoManager}],
           \A s \in Services : registered'[s] \in {registered[s], NoManager},
           serviceIds' \subseteq Ids, left' \subseteq enrolled, promised' \subseteq Clients,
           causes' \subseteq {"overtaken", "absent", "cleared"},
           answer' \in [Clients -> Slots \cup {NoAnswer, ServiceNotFound, RuntimeError}],
           UNCHANGED <<spawned, managerOf, idsAndActors, current, monitors, environment, asked,
                       crashed, enrolled, chosen>>
    PROVE  TypeInv'
<1>1. TypeOK /\ Spawned
  BY DEF TypeInv
<1>2. TypeOK'
  BY <1>1 DEF TypeOK, BoxesGrow, environment
<1>3. \A m \in Managers : ~ (m <= spawned) => box'[m] = <<>> /\ idsAndActors' = idsAndActors
  BY <1>1 DEF Spawned, BoxesGrow
<1>4. Spawned'
  BY <1>1, <1>3 DEF Spawned, IsRegistered
<1>5. QED
  BY <1>2, <1>4 DEF TypeInv

\* What the handlers of the registering service that serve a registration have in
\* common: the id and who chose it are all they differ in.
LEMMA RegisterSteps ==
    ASSUME TypeInv, HandleRegister \/ HandleRegisterAs
    PROVE  \E s \in Services, id \in Ids, r \in Runners :
              /\ RegisterService(s, id, r)
              /\ \/ id \notin serviceIds /\ chosen' = chosen
                 \/ chosen' = chosen \cup {id}
              /\ inbox' = Tail(inbox) /\ inbox # <<>> /\ inbox \in Seq(RegistryMessages)
              /\ Head(inbox).type \in {"register", "registerAs"}
              /\ UNCHANGED <<idsAndActors, current, environment, asked, answer, crashed,
                             promised, causes>>
<1>1. CASE HandleRegister
  <2>1. Receives("register") /\ inbox # <<>>
    BY <1>1 DEF HandleRegister, Receives
  <2>2. Head(inbox) \in RegistryMessages /\ Head(inbox).type = "register"
    BY <2>1, ReceivingShrinks
  <2>3. Head(inbox).service \in Services /\ Head(inbox).runner \in Runners
    BY <2>2, RegistryMessageFields
  <2>4. PICK id \in Ids \ serviceIds :
           RegisterService(Head(inbox).service, id, Head(inbox).runner)
    BY <1>1 DEF HandleRegister
  <2>5. inbox \in Seq(RegistryMessages)
    BY DEF TypeInv, TypeOK
  <2>6. QED
    BY <1>1, <2>1, <2>2, <2>3, <2>4, <2>5 DEF HandleRegister
<1>2. CASE HandleRegisterAs
  <2>1. Receives("registerAs") /\ inbox # <<>>
    BY <1>2 DEF HandleRegisterAs, Receives
  <2>2. Head(inbox) \in RegistryMessages /\ Head(inbox).type = "registerAs"
    BY <2>1, ReceivingShrinks
  <2>3. /\ Head(inbox).service \in Services /\ Head(inbox).runner \in Runners
        /\ Head(inbox).id \in Ids
    BY <2>2, RegistryMessageFields
  <2>4. inbox \in Seq(RegistryMessages)
    BY DEF TypeInv, TypeOK
  <2>5. QED
    BY <1>2, <2>1, <2>2, <2>3, <2>4 DEF HandleRegisterAs
<1>3. QED
  BY <1>1, <1>2

\* unregister, of one service or of all: a removal of the id is on its way to the
\* manager, and whoever has that id there was asked to leave.
LEMMA UnregisterSteps ==
    ASSUME TypeInv, HandleUnregister \/ HandleUnregisterAll
    PROVE  \E id \in Ids :
              /\ BoxesGrow([type |-> "remove", id |-> id])
              /\ inbox' = Tail(inbox) /\ inbox # <<>> /\ inbox \in Seq(RegistryMessages)
              /\ left \subseteq left' /\ left' \subseteq enrolled
              /\ \A e \in enrolled :
                    IsRegistered(e.service) /\ e.id = id /\ e \notin left' =>
                       box'[registered[e.service]] = box[registered[e.service]]
              /\ \A s \in Services, j \in Ids :
                    Head(inbox) = [type |-> "unregister", service |-> s, id |-> j] =>
                       /\ j = id
                       /\ IsRegistered(s) =>
                             box'[registered[s]] =
                                Append(box[registered[s]], [type |-> "remove", id |-> id])
              /\ UNCHANGED <<registry, idsAndActors, current, monitors, environment,
                             asked, answer, crashed, enrolled, chosen, promised, causes>>
<1> DEFINE Id == Head(inbox).id
           S  == Head(inbox).service
<1>0. /\ left \subseteq enrolled /\ inbox \in Seq(RegistryMessages) /\ enrolled \subseteq Enrolments
      /\ \A e \in Enrolments : e.service \in Services
      /\ \A s \in Services : IsRegistered(s) => /\ registered[s] \in Managers
                                                /\ managerOf[registered[s]] = s
  BY DEF TypeInv, TypeOK, Enrolments, Spawned
<1>1. CASE HandleUnregister
  <2>1. Receives("unregister") /\ inbox # <<>> /\ inbox' = Tail(inbox)
    BY <1>1 DEF HandleUnregister, Receives
  <2>2. Head(inbox) \in RegistryMessages /\ Head(inbox).type = "unregister"
    BY <2>1, ReceivingShrinks
  <2>3. S \in Services /\ Id \in Ids
    BY <2>2, RegistryMessageFields
  <2>4. [type |-> "remove", id |-> Id] \in ManagerMessages
    BY <2>3, ManagerMessageTypes
  <2>5. left' = left \cup {e \in enrolled : e.service = S /\ e.id = Id}
    BY <1>1 DEF HandleUnregister
  <2>6. /\ BoxesGrow([type |-> "remove", id |-> Id])
        /\ IsRegistered(S) =>
              box'[registered[S]] = Append(box[registered[S]], [type |-> "remove", id |-> Id])
        /\ \A s \in Services : IsRegistered(s) /\ s # S => box'[registered[s]] = box[registered[s]]
    <3>1. CASE IsRegistered(S)
      <4>1. SendToManager(registered[S], [type |-> "remove", id |-> Id])
        BY <1>1, <3>1 DEF HandleUnregister
      <4>2. \A s \in Services : IsRegistered(s) /\ s # S => registered[s] # registered[S]
        BY <1>0, <2>3, <3>1
      <4>3. QED
        BY <1>0, <2>3, <2>4, <3>1, <4>1, <4>2, SendingGrows
    <3>2. CASE ~ IsRegistered(S)
      <4>1. UNCHANGED box
        BY <1>1, <3>2 DEF HandleUnregister
      <4>2. QED
        BY <3>2, <4>1, KeepingGrows
    <3>3. QED
      BY <3>1, <3>2
  <2>7. \A s \in Services, j \in Ids :
           Head(inbox) = [type |-> "unregister", service |-> s, id |-> j] => s = S /\ j = Id
    OBVIOUS
  <2>8. UNCHANGED <<registry, idsAndActors, current, monitors, environment,
                    asked, answer, crashed, enrolled, chosen, promised, causes>>
    BY <1>1 DEF HandleUnregister
  <2> HIDE DEF Id, S
  <2>9. \A e \in enrolled :
           IsRegistered(e.service) /\ e.id = Id /\ e \notin left' =>
              box'[registered[e.service]] = box[registered[e.service]]
    BY <1>0, <2>5, <2>6
  <2>10. left \subseteq left' /\ left' \subseteq enrolled
    BY <1>0, <2>5
  <2>11. QED
    BY <1>0, <2>1, <2>3, <2>6, <2>7, <2>8, <2>9, <2>10
<1>2. CASE HandleUnregisterAll
  <2> DEFINE told == {registered[s] : s \in {t \in Services : IsRegistered(t)}}
  <2>1. Receives("unregisterAll") /\ inbox # <<>> /\ inbox' = Tail(inbox)
    BY <1>2 DEF HandleUnregisterAll, Receives
  <2>2. Head(inbox) \in RegistryMessages /\ Head(inbox).type = "unregisterAll"
    BY <2>1, ReceivingShrinks
  <2>3. Id \in Ids
    BY <2>2, RegistryMessageFields
  <2>4. [type |-> "remove", id |-> Id] \in ManagerMessages
    BY <2>3, ManagerMessageTypes
  <2>5. left' = left \cup {e \in enrolled : e.id = Id}
    BY <1>2 DEF HandleUnregisterAll
  <2>6. box' = [m \in Managers |-> IF m \in told
                    THEN Append(box[m], [type |-> "remove", id |-> Id]) ELSE box[m]]
    BY <1>2 DEF HandleUnregisterAll
  <2>7. UNCHANGED <<registry, idsAndActors, current, monitors, environment,
                    asked, answer, crashed, enrolled, chosen, promised, causes>>
    BY <1>2 DEF HandleUnregisterAll
  <2>8. \A s \in Services, j \in Ids :
           Head(inbox) # [type |-> "unregister", service |-> s, id |-> j]
    BY <2>2
  <2> HIDE DEF Id, told
  <2>9. told \subseteq {registered[s] : s \in {t \in Services : IsRegistered(t)}}
    BY DEF told
  <2>10. BoxesGrow([type |-> "remove", id |-> Id])
    BY <2>4, <2>6, <2>9, TellingGrows
  <2>11. left \subseteq left' /\ left' \subseteq enrolled
         /\ \A e \in enrolled : e.id = Id => e \in left'
    BY <1>0, <2>5
  <2>12. QED
    BY <1>0, <2>1, <2>3, <2>7, <2>8, <2>10, <2>11
<1>3. QED
  BY <1>1, <1>2

\* remove and exit: managers are forgotten, and may be told to exit.
LEMMA ClosingSteps ==
    ASSUME TypeInv, HandleRemove \/ HandleExit
    PROVE  /\ BoxesGrow([type |-> "exit"])
           /\ inbox' = Tail(inbox) /\ inbox # <<>> /\ inbox \in Seq(RegistryMessages)
           /\ Head(inbox).type \in {"remove", "exit"}
           /\ registered' \in [Services -> Managers \cup {NoManager}]
           /\ \/ serviceIds' = serviceIds
              \/ serviceIds' = {} /\ \A s \in Services : ~ IsRegistered(s)'
           /\ \A s \in Services : registered'[s] \in {registered[s], NoManager}
           /\ causes \subseteq causes' /\ causes' \subseteq {"overtaken", "absent", "cleared"}
           /\ causes' = {} => \A s \in Services :
                 IsRegistered(s) /\ HasRunners(registered[s]) => registered'[s] = registered[s]
           /\ UNCHANGED <<spawned, managerOf, idsAndActors, current, monitors, environment,
                          asked, answer, crashed, enrolled, chosen, promised, left>>
<1>0. /\ causes \subseteq {"overtaken", "absent", "cleared"}
      /\ registered \in [Services -> Managers \cup {NoManager}]
      /\ [type |-> "exit"] \in ManagerMessages
  BY ManagerMessageTypes DEF TypeInv, TypeOK
<1>1. CASE HandleRemove
  <2>1. Receives("remove") /\ inbox' = Tail(inbox)
    BY <1>1 DEF HandleRemove
  <2>2. /\ inbox # <<>> /\ inbox \in Seq(RegistryMessages)
        /\ Head(inbox).type = "remove" /\ Head(inbox).service \in Services
    BY <2>1, ReceivingShrinks, RegistryMessageFields
  <2>3. BoxesGrow([type |-> "exit"])
    BY <1>0, <1>1, <2>2, SendingGrows, KeepingGrows DEF HandleRemove
  <2>4. /\ registered' \in [Services -> Managers \cup {NoManager}]
        /\ \A s \in Services : registered'[s] \in {registered[s], NoManager}
        /\ causes \subseteq causes' /\ causes' \subseteq {"overtaken", "absent", "cleared"}
    BY <1>0, <1>1 DEF HandleRemove
  <2>5. ASSUME causes' = {}, NEW s \in Services, IsRegistered(s), HasRunners(registered[s])
        PROVE  registered'[s] = registered[s]
    BY <1>0, <1>1, <2>2, <2>5 DEF HandleRemove
  <2>6. QED
    BY <1>1, <2>1, <2>2, <2>3, <2>4, <2>5 DEF HandleRemove
<1>2. CASE HandleExit
  <2>1. Receives("exit") /\ inbox' = Tail(inbox)
    BY <1>2 DEF HandleExit
  <2>2. inbox # <<>> /\ inbox \in Seq(RegistryMessages) /\ Head(inbox).type = "exit"
    BY <2>1, ReceivingShrinks
  <2>3. BoxesGrow([type |-> "exit"])
    <3> DEFINE listed == {registered[s] : s \in {t \in Services : IsRegistered(t)}}
    <3>1. PICK told \in SUBSET listed :
             box' = [m \in Managers |-> IF m \in told THEN Append(box[m], [type |-> "exit"])
                                        ELSE box[m]]
      BY <1>2 DEF HandleExit
    <3>2. told \subseteq {registered[s] : s \in {t \in Services : IsRegistered(t)}}
      OBVIOUS
    <3> HIDE DEF listed
    <3>3. QED
      BY <1>0, <3>1, <3>2, TellingGrows
  <2>4. /\ registered' = [s \in Services |-> NoManager]
        /\ serviceIds' = {} /\ causes' = causes \cup {"cleared"}
    BY <1>2 DEF HandleExit
  <2>5. QED
    BY <1>0, <1>2, <2>1, <2>2, <2>3, <2>4 DEF HandleExit, IsRegistered
<1>3. QED
  BY <1>1, <1>2

\* find: the request goes to the manager, or is answered with an error.
LEMMA FindSteps ==
    ASSUME TypeInv, HandleFind
    PROVE  \E s \in Services, c \in Clients :
              /\ Head(inbox) = [type |-> "find", service |-> s, client |-> c]
              /\ inbox' = Tail(inbox) /\ inbox # <<>> /\ inbox \in Seq(RegistryMessages)
              /\ BoxesGrow([type |-> "find", client |-> c])
              /\ \/ /\ IsRegistered(s) /\ answer' = answer
                    /\ box'[registered[s]] =
                          Append(box[registered[s]], [type |-> "find", client |-> c])
                    /\ \A m \in Managers : m # registered[s] => box'[m] = box[m]
                 \/ /\ ~ IsRegistered(s) /\ box' = box
                    /\ answer' = [answer EXCEPT ![c] = ServiceNotFound]
              /\ \/ promised' = promised \cup {c} /\ \E e \in enrolled \ left : e.service = s
                 \/ promised' = promised
              /\ UNCHANGED <<registry, idsAndActors, current, monitors, environment,
                             asked, crashed, enrolled, chosen, left, causes>>
<1> DEFINE s == Head(inbox).service
           c == Head(inbox).client
<1>1. Receives("find") /\ inbox' = Tail(inbox)
  BY DEF HandleFind
<1>2. /\ inbox # <<>> /\ inbox \in Seq(RegistryMessages)
      /\ Head(inbox) \in RegistryMessages /\ Head(inbox).type = "find"
  BY <1>1, ReceivingShrinks
<1>3. /\ s \in Services /\ c \in Clients
      /\ Head(inbox) = [type |-> "find", service |-> s, client |-> c]
  BY <1>2 DEF RegistryMessages
<1>4. [type |-> "find", client |-> c] \in ManagerMessages
  BY <1>3, ManagerMessageTypes
<1>5. \/ /\ IsRegistered(s) /\ answer' = answer
         /\ SendToManager(registered[s], [type |-> "find", client |-> c])
      \/ /\ ~ IsRegistered(s) /\ box' = box
         /\ answer' = [answer EXCEPT ![c] = ServiceNotFound]
  BY DEF HandleFind
<1>6. \/ promised' = promised \cup {c} /\ \E e \in enrolled \ left : e.service = s
      \/ promised' = promised
  BY DEF HandleFind
<1>7. UNCHANGED <<registry, idsAndActors, current, monitors, environment,
                  asked, crashed, enrolled, chosen, left, causes>>
  BY DEF HandleFind
<1> HIDE DEF s, c
<1>8. CASE /\ IsRegistered(s) /\ answer' = answer
           /\ SendToManager(registered[s], [type |-> "find", client |-> c])
  <2>1. /\ BoxesGrow([type |-> "find", client |-> c])
        /\ box'[registered[s]] = Append(box[registered[s]], [type |-> "find", client |-> c])
        /\ \A m \in Managers : m # registered[s] => box'[m] = box[m]
    BY <1>3, <1>4, <1>8, SendingGrows
  <2>2. QED
    BY <1>1, <1>2, <1>3, <1>6, <1>7, <1>8, <2>1
<1>9. CASE ~ IsRegistered(s) /\ box' = box /\ answer' = [answer EXCEPT ![c] = ServiceNotFound]
  <2>1. BoxesGrow([type |-> "find", client |-> c])
    BY <1>9, KeepingGrows
  <2>2. QED
    BY <1>1, <1>2, <1>3, <1>6, <1>7, <1>9, <2>1
<1>10. QED
  BY <1>5, <1>8, <1>9

LEMMA CrashSteps ==
    ASSUME HandleRemoveCrashes \/ HandleExitCrashes \/ \E m \in Managers : ManagerRemoveCrashes(m)
    PROVE  UNCHANGED <<inbox, registry, managers, monitors, environment, asked, answer, history>>
  BY DEF HandleRemoveCrashes, HandleExitCrashes, ManagerRemoveCrashes

LEMMA TypeRegistry ==
    ASSUME TypeInv, RegistryStep
    PROVE  TypeInv'
<1>0. /\ TypeOK /\ Spawned
      /\ registered \in [Services -> Managers \cup {NoManager}]
      /\ serviceIds \subseteq Ids /\ left \subseteq enrolled /\ promised \subseteq Clients
      /\ causes \subseteq {"overtaken", "absent", "cleared"}
      /\ answer \in [Clients -> Slots \cup {NoAnswer, ServiceNotFound, RuntimeError}]
      /\ chosen \subseteq Ids
  BY DEF TypeInv, TypeOK
<1>1. CASE HandleRegister \/ HandleRegisterAs
  <2>1. PICK s \in Services, id \in Ids, r \in Runners :
              /\ RegisterService(s, id, r)
              /\ \/ id \notin serviceIds /\ chosen' = chosen
                 \/ chosen' = chosen \cup {id}
              /\ inbox' = Tail(inbox) /\ inbox # <<>> /\ inbox \in Seq(RegistryMessages)
              /\ UNCHANGED <<idsAndActors, current, environment, asked, answer, crashed,
                             promised, causes>>
    BY <1>1, RegisterSteps
  <2>2. inbox' \in Seq(RegistryMessages) /\ chosen' \subseteq Ids
    BY <1>0, <2>1, TailOf
  <2>3. QED
    BY <2>1, <2>2, TypeRegister
<1>2. CASE HandleUnregister \/ HandleUnregisterAll
  <2>1. PICK id \in Ids :
              /\ BoxesGrow([type |-> "remove", id |-> id])
              /\ inbox' = Tail(inbox) /\ inbox # <<>> /\ inbox \in Seq(RegistryMessages)
              /\ left' \subseteq enrolled
              /\ UNCHANGED <<registry, idsAndActors, current, monitors, environment,
                             asked, answer, crashed, enrolled, chosen, promised, causes>>
    BY <1>2, UnregisterSteps
  <2>2. inbox' \in Seq(RegistryMessages)
    BY <2>1, TailOf
  <2>3. QED
    BY <1>0, <2>1, <2>2, TypeForward DEF registry
<1>3. CASE HandleRemove \/ HandleExit
  <2>1. inbox' \in Seq(RegistryMessages) /\ serviceIds' \subseteq Ids
    <3>1. /\ inbox' = Tail(inbox) /\ inbox # <<>> /\ inbox \in Seq(RegistryMessages)
          /\ serviceIds' = serviceIds \/ serviceIds' = {}
      BY <1>3, ClosingSteps
    <3>2. QED
      BY <1>0, <3>1, TailOf
  <2>2. QED
    BY <1>0, <1>3, <2>1, ClosingSteps, TypeForward
<1>4. CASE HandleFind
  <2>1. PICK s \in Services, c \in Clients :
              /\ inbox' = Tail(inbox) /\ inbox # <<>> /\ inbox \in Seq(RegistryMessages)
              /\ BoxesGrow([type |-> "find", client |-> c])
              /\ answer' = answer \/ answer' = [answer EXCEPT ![c] = ServiceNotFound]
              /\ promised' = promised \cup {c} \/ promised' = promised
              /\ UNCHANGED <<registry, idsAndActors, current, monitors, environment,
                             asked, crashed, enrolled, chosen, left, causes>>
    BY <1>4, FindSteps
  <2>2. inbox' \in Seq(RegistryMessages)
    BY <2>1, TailOf
  <2>3. /\ answer' \in [Clients -> Slots \cup {NoAnswer, ServiceNotFound, RuntimeError}]
        /\ promised' \subseteq Clients
    BY <1>0, <2>1
  <2>4. QED
    BY <1>0, <2>1, <2>2, <2>3, TypeForward DEF registry
<1>5. CASE HandleRemoveCrashes \/ HandleExitCrashes
  BY <1>0, <1>5 DEF HandleRemoveCrashes, HandleExitCrashes, TypeInv, TypeOK, Spawned,
     IsRegistered, registry, managers, environment, history
<1>6. QED
  BY <1>1, <1>2, <1>3, <1>4, <1>5 DEF RegistryStep

\* A manager that takes a message.
LEMMA TypeManager ==
    ASSUME TypeInv, NEW m \in Managers, NEW type, TakesMessage(m, type),
           inbox' \in Seq(RegistryMessages),
           idsAndActors' \in [Managers -> Seq(Slots)],
           \A n \in Managers : n # m => idsAndActors'[n] = idsAndActors[n],
           current' \in [Managers -> Nat],
           answer' \in [Clients -> Slots \cup {NoAnswer, ServiceNotFound, RuntimeError}],
           causes' \subseteq {"overtaken", "absent", "cleared"},
           UNCHANGED <<registry, monitors, environment, asked, crashed, enrolled, chosen,
                       promised, left>>
    PROVE  TypeInv'
<1>1. TypeOK /\ Spawned
  BY DEF TypeInv
<1>2. /\ m <= spawned
      /\ box' \in [Managers -> Seq(ManagerMessages)]
      /\ \A n \in Managers : n # m => box'[n] = box[n]
  BY TakingShrinks
<1>3. TypeOK'
  BY <1>1, <1>2 DEF TypeOK, registry, environment
<1>4. Spawned'
  BY <1>1, <1>2 DEF Spawned, IsRegistered, registry
<1>5. QED
  BY <1>3, <1>4 DEF TypeInv

\* The list that an addition makes.
LEMMA EmplaceBackType ==
    ASSUME NEW list \in Seq(Slots), NEW id \in Ids, NEW actor \in Actors
    PROVE  /\ EmplaceBack(list, id, actor) \in Seq(Slots)
           /\ EmplaceBack(list, id, actor) = Append(list, [id |-> id, actor |-> actor])
           /\ [id |-> id, actor |-> actor] \in Slots
  BY AppendTo DEF EmplaceBack, Slots, Entries

LEMMA TypeManagerStep ==
    ASSUME TypeInv, NEW m \in Managers, ManagerStep(m)
    PROVE  TypeInv'
<1>0. /\ TypeOK /\ Spawned
      /\ inbox \in Seq(RegistryMessages)
      /\ idsAndActors \in [Managers -> Seq(Slots)]
      /\ current \in [Managers -> Nat]
      /\ answer \in [Clients -> Slots \cup {NoAnswer, ServiceNotFound, RuntimeError}]
      /\ causes \subseteq {"overtaken", "absent", "cleared"}
      /\ managerOf \in [Managers -> Services \cup {NoService}]
  BY DEF TypeInv, TypeOK
<1>1. CASE ManagerAdds(m)
  <2> DEFINE msg == Head(box[m])
  <2>1. TakesMessage(m, "add")
    BY <1>1 DEF ManagerAdds
  <2>2. msg.id \in Ids /\ msg.runner \in Runners
    BY <2>1, TakingShrinks, ManagerMessageFields
  <2>3. idsAndActors' = [idsAndActors EXCEPT ![m] = EmplaceBack(idsAndActors[m], msg.id, msg.runner)]
    BY <1>1 DEF ManagerAdds
  <2>4. EmplaceBack(idsAndActors[m], msg.id, msg.runner) \in Seq(Slots)
    BY <1>0, <2>2, EmplaceBackType DEF Runners
  <2>5. /\ idsAndActors' \in [Managers -> Seq(Slots)]
        /\ \A n \in Managers : n # m => idsAndActors'[n] = idsAndActors[n]
    BY <1>0, <2>3, <2>4
  <2>6. QED
    BY <1>0, <1>1, <2>1, <2>5, TypeManager DEF ManagerAdds, history
<1>2. CASE ManagerRemoves(m)
  <2>1. TakesMessage(m, "remove")
    BY <1>2 DEF ManagerRemoves
  <2>2. PICK list \in RemoveOutcomes(idsAndActors[m], Head(box[m]).id) :
              /\ idsAndActors' = [idsAndActors EXCEPT ![m] = list]
              /\ inbox' = IF list = <<>>
                          THEN Append(inbox, [type |-> "remove", service |-> managerOf[m]])
                          ELSE inbox
    BY <1>2 DEF ManagerRemoves
  <2>3. list \in Seq(Slots)
    BY <1>0, RemoveType
  <2>4. /\ idsAndActors' \in [Managers -> Seq(Slots)]
        /\ \A n \in Managers : n # m => idsAndActors'[n] = idsAndActors[n]
    BY <1>0, <2>2, <2>3
  <2>5. managerOf[m] \in Services
    BY <1>0, <2>1, TakingShrinks DEF Spawned
  <2>6. inbox' \in Seq(RegistryMessages)
    BY <1>0, <2>2, <2>5, AppendTo, RegistryMessageTypes
  <2>7. causes' \subseteq {"overtaken", "absent", "cleared"}
    BY <1>0, <1>2 DEF ManagerRemoves
  <2>8. QED
    BY <1>0, <1>2, <2>1, <2>4, <2>6, <2>7, TypeManager DEF ManagerRemoves
<1>3. CASE ManagerAnswers(m)
  <2>1. TakesMessage(m, "find")
    BY <1>3 DEF ManagerAnswers
  <2>2. Head(box[m]).client \in Clients
    BY <2>1, TakingShrinks, ManagerMessageFields
  <2>3. CASE idsAndActors[m] = <<>>
    BY <1>0, <1>3, <2>1, <2>2, <2>3, TypeManager DEF ManagerAnswers, history
  <2>4. CASE idsAndActors[m] # <<>>
    <3>1. /\ Wrapped(idsAndActors[m], current[m]) + 1 \in Nat
          /\ ElementAtCursor(idsAndActors[m], current[m]) \in Slots
      <4>1. /\ idsAndActors[m] \in Seq(Slots) /\ current[m] \in Nat
            /\ Len(idsAndActors[m]) \in Nat
        BY <1>0
      <4>2. QED
        BY <2>4, <4>1, WrappedInRange
    <3>2. /\ answer' \in [Clients -> Slots \cup {NoAnswer, ServiceNotFound, RuntimeError}]
          /\ current' \in [Managers -> Nat]
      BY <1>0, <1>3, <2>2, <2>4, <3>1 DEF ManagerAnswers
    <3>3. QED
      BY <1>0, <1>3, <2>1, <3>2, TypeManager DEF ManagerAnswers, history
  <2>5. QED
    BY <2>3, <2>4
<1>4. CASE ManagerExits(m)
  <2>1. TakesMessage(m, "exit")
    BY <1>4 DEF ManagerExits
  <2>2. managerOf[m] \in Services
    BY <1>0, <2>1, TakingShrinks DEF Spawned
  <2>3. inbox' \in Seq(RegistryMessages)
    BY <1>0, <1>4, <2>2, AppendTo, RegistryMessageTypes DEF ManagerExits
  <2>4. QED
    BY <1>0, <1>4, <2>1, <2>3, TypeManager DEF ManagerExits, history
<1>5. CASE ManagerRemoveCrashes(m)
  BY <1>0, <1>5 DEF ManagerRemoveCrashes, TypeInv, TypeOK, Spawned, IsRegistered, registry,
     managers, environment, history
<1>6. QED
  BY <1>1, <1>2, <1>3, <1>4, <1>5 DEF ManagerStep

LEMMA TypeStutter ==
    ASSUME TypeInv, UNCHANGED vars
    PROVE  TypeInv'
  BY DEF TypeInv, TypeOK, Spawned, IsRegistered, vars, registry, managers, environment, history

LEMMA TypeStep ==
    ASSUME TypeInv, [Next]_vars
    PROVE  TypeInv'
  BY TypeStutter, TypeRegistry, TypeManagerStep, EnvironmentSteps, TypeEnvironment DEF Next

\* Messages, lists and tables have their types, and every manager that is
\* registered or has anything to do was spawned, and for that service.
THEOREM TypeCorrect == Spec => []TypeInv
<1>1. Init => TypeInv
  BY TypeInit
<1>2. TypeInv /\ [Next]_vars => TypeInv'
  BY TypeStep
<1>3. QED
  BY <1>1, <1>2, PTL DEF Spec

\* The type invariant of the runs.
THEOREM TypesHold == Spec => []TypeOK
<1>1. TypeInv => TypeOK
  BY DEF TypeInv
<1>2. QED
  BY <1>1, TypeCorrect, PTL

-----------------------------------------------------------------------------
(***************************************************************************)
(* The steps of a manager                                                  *)
(***************************************************************************)

\* A manager takes the first message of its mailbox.
Takes(m, msg) ==
    /\ box[m] \in Seq(ManagerMessages) /\ box[m] # <<>> /\ Head(box[m]) = msg
    /\ box'[m] = Tail(box[m])
    /\ \A n \in Managers : n # m => box'[n] = box[n]
    /\ idsAndActors \in [Managers -> Seq(Slots)]
    /\ idsAndActors' \in [Managers -> Seq(Slots)]
    /\ \A n \in Managers : n # m => idsAndActors'[n] = idsAndActors[n]
    /\ managerOf[m] \in Services
    /\ UNCHANGED <<registry, monitors, environment, asked, crashed, enrolled, chosen,
                   promised, left>>

LEMMA AddsSteps ==
    ASSUME TypeInv, NEW m \in Managers, ManagerAdds(m)
    PROVE  \E id \in Ids, r \in Runners :
              /\ Takes(m, [type |-> "add", id |-> id, runner |-> r])
              /\ idsAndActors'[m] = Append(idsAndActors[m], [id |-> id, actor |-> r])
              /\ [id |-> id, actor |-> r] \in Slots
              /\ UNCHANGED <<inbox, current, answer, causes>>
<1> DEFINE msg == Head(box[m])
<1>1. TakesMessage(m, "add")
  BY DEF ManagerAdds
<1>2. msg \in ManagerMessages /\ msg.type = "add"
  BY <1>1, TakingShrinks
<1>3. /\ msg.id \in Ids /\ msg.runner \in Runners
      /\ msg = [type |-> "add", id |-> msg.id, runner |-> msg.runner]
  BY <1>2 DEF ManagerMessages
<1>4. idsAndActors' = [idsAndActors EXCEPT ![m] = EmplaceBack(idsAndActors[m], msg.id, msg.runner)]
  BY DEF ManagerAdds
<1>5. idsAndActors \in [Managers -> Seq(Slots)] /\ managerOf[m] \in Services
  BY <1>1, TakingShrinks DEF TypeInv, TypeOK, Spawned
<1>6. /\ EmplaceBack(idsAndActors[m], msg.id, msg.runner) \in Seq(Slots)
      /\ EmplaceBack(idsAndActors[m], msg.id, msg.runner)
            = Append(idsAndActors[m], [id |-> msg.id, actor |-> msg.runner])
      /\ [id |-> msg.id, actor |-> msg.runner] \in Slots
  BY <1>3, <1>5, EmplaceBackType DEF Runners
<1>7. UNCHANGED <<inbox, registry, current, monitors, environment, asked, answer,
                  crashed, history>>
  BY DEF ManagerAdds
<1>8. Takes(m, msg)
  BY <1>1, <1>4, <1>5, <1>6, <1>7, TakingShrinks DEF Takes, history
<1>9. idsAndActors'[m] = Append(idsAndActors[m], [id |-> msg.id, actor |-> msg.runner])
  BY <1>4, <1>5, <1>6
<1> HIDE DEF msg
<1>10. Takes(m, [type |-> "add", id |-> msg.id, runner |-> msg.runner])
  BY <1>3, <1>8
<1>11. QED
  BY <1>3, <1>6, <1>7, <1>9, <1>10 DEF history

LEMMA RemovesSteps ==
    ASSUME TypeInv, NEW m \in Managers, ManagerRemoves(m)
    PROVE  \E id \in Ids :
              /\ Takes(m, [type |-> "remove", id |-> id])
              /\ idsAndActors'[m] \in RemoveOutcomes(idsAndActors[m], id)
              /\ \/ inbox' = inbox
                 \/ inbox' = Append(inbox, [type |-> "remove", service |-> managerOf[m]])
              /\ causes' = {} => causes = {} /\ Occurs(idsAndActors[m], id)
              /\ UNCHANGED <<current, answer>>
<1> DEFINE msg == Head(box[m])
<1>1. TakesMessage(m, "remove")
  BY DEF ManagerRemoves
<1>2. msg \in ManagerMessages /\ msg.type = "remove"
  BY <1>1, TakingShrinks
<1>3. msg.id \in Ids /\ msg = [type |-> "remove", id |-> msg.id]
  BY <1>2 DEF ManagerMessages
<1>4. idsAndActors \in [Managers -> Seq(Slots)] /\ managerOf[m] \in Services
  BY <1>1, TakingShrinks DEF TypeInv, TypeOK, Spawned
<1>5. PICK list \in RemoveOutcomes(idsAndActors[m], msg.id) :
              /\ idsAndActors' = [idsAndActors EXCEPT ![m] = list]
              /\ inbox' = IF list = <<>>
                          THEN Append(inbox, [type |-> "remove", service |-> managerOf[m]])
                          ELSE inbox
  BY DEF ManagerRemoves
<1>6. list \in Seq(Slots)
  BY <1>4, RemoveType
<1>7. UNCHANGED <<registry, current, monitors, environment, asked, answer, crashed,
                  enrolled, chosen, promised, left>>
  BY DEF ManagerRemoves
<1>8. causes' = {} => causes = {} /\ Occurs(idsAndActors[m], msg.id)
  BY DEF ManagerRemoves
<1>9. idsAndActors'[m] = list
  BY <1>4, <1>5
<1>10. Takes(m, msg)
  BY <1>1, <1>4, <1>5, <1>6, <1>7, TakingShrinks DEF Takes
<1> HIDE DEF msg
<1>11. Takes(m, [type |-> "remove", id |-> msg.id])
  BY <1>3, <1>10
<1>12. QED
  BY <1>3, <1>5, <1>7, <1>8, <1>9, <1>11

LEMMA AnswersSteps ==
    ASSUME TypeInv, NEW m \in Managers, ManagerAnswers(m)
    PROVE  \E c \in Clients :
              /\ Takes(m, [type |-> "find", client |-> c])
              /\ idsAndActors' = idsAndActors
              /\ \/ /\ idsAndActors[m] = <<>>
                    /\ answer' = [answer EXCEPT ![c] = RuntimeError]
                 \/ \E p \in DOMAIN idsAndActors[m] :
                       answer' = [answer EXCEPT ![c] = idsAndActors[m][p]]
              /\ UNCHANGED <<inbox, causes>>
<1> DEFINE msg == Head(box[m])
<1>1. TakesMessage(m, "find")
  BY DEF ManagerAnswers
<1>2. msg \in ManagerMessages /\ msg.type = "find"
  BY <1>1, TakingShrinks
<1>3. msg.client \in Clients /\ msg = [type |-> "find", client |-> msg.client]
  BY <1>2 DEF ManagerMessages
<1>4. /\ idsAndActors \in [Managers -> Seq(Slots)] /\ managerOf[m] \in Services
      /\ idsAndActors[m] \in Seq(Slots) /\ current[m] \in Nat
  BY <1>1, TakingShrinks DEF TypeInv, TypeOK, Spawned
<1>5. UNCHANGED <<inbox, registry, idsAndActors, monitors, environment, asked, crashed, history>>
  BY DEF ManagerAnswers
<1>6. \/ /\ idsAndActors[m] = <<>>
         /\ answer' = [answer EXCEPT ![msg.client] = RuntimeError]
      \/ \E p \in DOMAIN idsAndActors[m] :
            answer' = [answer EXCEPT ![msg.client] = idsAndActors[m][p]]
  <2>1. CASE idsAndActors[m] = <<>>
    BY <2>1 DEF ManagerAnswers
  <2>2. CASE idsAndActors[m] # <<>>
    <3>1. Len(idsAndActors[m]) \in Nat
      BY <1>4
    <3>2. Wrapped(idsAndActors[m], current[m]) + 1 \in DOMAIN idsAndActors[m]
      BY <1>4, <2>2, <3>1, WrappedInRange
    <3>3. QED
      BY <2>2, <3>2 DEF ManagerAnswers, ElementAtCursor
  <2>3. QED
    BY <2>1, <2>2
<1>7. Takes(m, msg)
  BY <1>1, <1>4, <1>5, TakingShrinks DEF Takes, history
<1> HIDE DEF msg
<1>8. Takes(m, [type |-> "find", client |-> msg.client])
  BY <1>3, <1>7
<1>9. QED
  BY <1>3, <1>5, <1>6, <1>8 DEF history

LEMMA ExitsSteps ==
    ASSUME TypeInv, NEW m \in Managers, ManagerExits(m)
    PROVE  /\ Takes(m, [type |-> "exit"])
           /\ idsAndActors' = idsAndActors
           /\ inbox' = Append(inbox, [type |-> "remove", service |-> managerOf[m]])
           /\ UNCHANGED <<current, answer, causes>>
<1>1. TakesMessage(m, "exit")
  BY DEF ManagerExits
<1>2. Head(box[m]) \in ManagerMessages /\ Head(box[m]).type = "exit"
  BY <1>1, TakingShrinks
<1>3. Head(box[m]) = [type |-> "exit"]
  BY <1>2 DEF ManagerMessages
<1>4. idsAndActors \in [Managers -> Seq(Slots)] /\ managerOf[m] \in Services
  BY <1>1, TakingShrinks DEF TypeInv, TypeOK, Spawned
<1>5. UNCHANGED <<registry, idsAndActors, current, monitors, environment, asked, answer,
                   crashed, history>>
  BY DEF ManagerExits
<1>6. Takes(m, [type |-> "exit"])
  BY <1>1, <1>3, <1>4, <1>5, TakingShrinks DEF Takes, history
<1>7. QED
  BY <1>5, <1>6 DEF ManagerExits, history

-----------------------------------------------------------------------------
(***************************************************************************)
(* Whoever is answered had registered for what was asked for               *)
(***************************************************************************)
EnrolledAt(s, id, r) == [service |-> s, id |-> id, runner |-> r] \in enrolled

\* What is listed and what is about to be was enrolled, and requests to find are
\* with the manager of the service that was asked for.
TracedTo(m) ==
    /\ \A p \in DOMAIN idsAndActors[m] :
          idsAndActors[m][p] \in Entries =>
             EnrolledAt(managerOf[m], idsAndActors[m][p].id, idsAndActors[m][p].actor)
    /\ \A i \in DOMAIN box[m] :
          /\ box[m][i].type = "add" =>
                EnrolledAt(managerOf[m], box[m][i].id, box[m][i].runner)
          /\ box[m][i].type = "find" => asked[box[m][i].client] = managerOf[m]

InboxTraced ==
    \A i \in DOMAIN inbox :
       inbox[i].type = "find" => asked[inbox[i].client] = inbox[i].service

UnaskedUnanswered == \A c \in Clients : asked[c] = NoService => answer[c] = NoAnswer

Traced ==
    /\ \A m \in Managers : TracedTo(m)
    /\ InboxTraced
    /\ UnaskedUnanswered
    /\ AnswersEnrolled

LEMMA NotServices ==
    /\ NoService \notin Services
    /\ NoAnswer \notin Slots /\ NoAnswer \notin Entries
    /\ ServiceNotFound \notin Entries /\ RuntimeError \notin Entries
    /\ MovedFrom \notin Entries
    /\ \A x \in Slots : x \in Entries \/ x = MovedFrom
    /\ \A x \in Entries : x.id \in Ids /\ x.actor \in Actors /\ x.id # NoId
    /\ MovedFrom.id = NoId
    /\ \A id \in Ids, r \in Actors : [id |-> id, actor |-> r] \in Entries
  BY RegistrationAssumption, ServiceListAssumption DEF Slots, Entries, MovedFrom

\* The inbox after its first message was taken.
LEMMA InboxTail ==
    ASSUME inbox \in Seq(RegistryMessages), inbox # <<>>, InboxTraced, asked' = asked,
           inbox' = Tail(inbox)
    PROVE  InboxTraced'
  BY TailOf DEF InboxTraced

\* The mailbox of a manager may have grown by a message that adds nobody.
LEMMA TracedGrown ==
    ASSUME NEW m \in Managers, TracedTo(m), NEW msg \in ManagerMessages,
           box[m] \in Seq(ManagerMessages),
           box'[m] = box[m] \/ box'[m] = Append(box[m], msg),
           msg.type # "add", msg.type = "find" => asked[msg.client] = managerOf[m],
           UNCHANGED <<asked, enrolled, managerOf, idsAndActors>>
    PROVE  TracedTo(m)'
<1>1. ASSUME NEW i \in DOMAIN box'[m]
      PROVE  (i \in DOMAIN box[m] /\ box'[m][i] = box[m][i]) \/ box'[m][i] = msg
  BY AppendTo
<1>2. ASSUME NEW i \in DOMAIN box'[m]
      PROVE  /\ box'[m][i].type = "add" =>
                   EnrolledAt(managerOf[m], box'[m][i].id, box'[m][i].runner)
             /\ box'[m][i].type = "find" => asked[box'[m][i].client] = managerOf[m]
  BY <1>1 DEF TracedTo
<1>3. QED
  BY <1>2 DEF TracedTo, EnrolledAt

\* The mailbox of a manager may have lost its first message.
LEMMA TracedTaken ==
    ASSUME NEW m \in Managers, TracedTo(m),
           box[m] \in Seq(ManagerMessages), box[m] # <<>>, box'[m] = Tail(box[m]),
           UNCHANGED <<asked, enrolled, managerOf>>,
           \A p \in DOMAIN idsAndActors'[m] :
              idsAndActors'[m][p] \in Entries =>
                 EnrolledAt(managerOf[m], idsAndActors'[m][p].id, idsAndActors'[m][p].actor)
    PROVE  TracedTo(m)'
  BY TailOf DEF TracedTo, EnrolledAt

LEMMA TracedOther ==
    ASSUME NEW m \in Managers, TracedTo(m), box'[m] = box[m],
           idsAndActors'[m] = idsAndActors[m], managerOf'[m] = managerOf[m],
           asked' = asked, enrolled \subseteq enrolled'
    PROVE  TracedTo(m)'
  BY DEF TracedTo, EnrolledAt

LEMMA TracedInit ==
    ASSUME Init
    PROVE  Traced
  BY NotServices DEF Init, Traced, TracedTo, InboxTraced, UnaskedUnanswered, AnswersEnrolled

LEMMA TracedEnvironment ==
    ASSUME TypeInv, Traced, EnvironmentEffect
    PROVE  Traced'
<1>0. /\ inbox \in Seq(RegistryMessages)
      /\ asked \in [Clients -> Services \cup {NoService}]
      /\ box \in [Managers -> Seq(ManagerMessages)]
      /\ managerOf \in [Managers -> Services \cup {NoService}]
  BY DEF TypeInv, TypeOK
<1>1. UNCHANGED <<idsAndActors, box, managerOf, enrolled, answer>>
  BY DEF EnvironmentEffect, registry, managers, history
<1>2. CASE asked' = asked
  <2>1. \A m \in Managers : TracedTo(m)'
    BY <1>1, <1>2 DEF Traced, TracedTo, EnrolledAt
  <2>2. InboxTraced'
    <3>1. CASE inbox' = inbox
      BY <1>2, <3>1 DEF Traced, InboxTraced
    <3>2. ASSUME NEW msg \in RegistryMessages, inbox' = Append(inbox, msg), msg.type # "find"
          PROVE  InboxTraced'
      BY <1>0, <1>2, <3>2, AppendTo DEF Traced, InboxTraced
    <3>3. ASSUME NEW c \in Clients, NEW s \in Services, asked[c] = NoService,
                 asked' = [asked EXCEPT ![c] = s]
          PROVE  FALSE
      BY <1>0, <1>2, <3>3, NotServices
    <3>4. QED
      BY <3>1, <3>2, <3>3 DEF EnvironmentEffect
  <2>3. QED
    BY <1>1, <1>2, <2>1, <2>2 DEF Traced, UnaskedUnanswered, AnswersEnrolled
<1>3. ASSUME NEW c \in Clients, NEW s \in Services, asked[c] = NoService,
             asked' = [asked EXCEPT ![c] = s],
             inbox' = Append(inbox, [type |-> "find", service |-> s, client |-> c])
      PROVE  Traced'
  <2>1. \A d \in Clients : asked[d] # NoService => asked'[d] = asked[d]
    BY <1>0, <1>3
  <2>2. ASSUME NEW m \in Managers
        PROVE  TracedTo(m)'
    <3>1. \A i \in DOMAIN box[m] :
             box[m][i].type = "find" => /\ box[m][i].client \in Clients
                                        /\ managerOf[m] \in Services
      <4>1. \A i \in DOMAIN box[m] : box[m][i] \in ManagerMessages
        BY <1>0
      <4>2. box[m] # <<>> => managerOf[m] \in Services
        BY DEF TypeInv, Spawned
      <4>3. QED
        BY <4>1, <4>2, ManagerMessageFields
    <3>2. TracedTo(m)
      BY DEF Traced
    <3>3. \A i \in DOMAIN box[m] :
             box[m][i].type = "find" => asked'[box[m][i].client] = managerOf[m]
      BY <2>1, <3>1, <3>2, NotServices DEF TracedTo
    <3>4. QED
      BY <1>1, <3>2, <3>3 DEF TracedTo, EnrolledAt
  <2>3. InboxTraced'
    <3> DEFINE msg == [type |-> "find", service |-> s, client |-> c]
    <3>1. msg \in RegistryMessages /\ msg.type = "find" /\ msg.client = c /\ msg.service = s
      BY RegistryMessageTypes
    <3>2. inbox' = Append(inbox, msg)
      BY <1>3
    <3> HIDE DEF msg
    <3>3. \A i \in DOMAIN inbox : inbox[i] \in RegistryMessages
      BY <1>0
    <3>4. ASSUME NEW i \in DOMAIN inbox', inbox'[i].type = "find"
          PROVE  asked'[inbox'[i].client] = inbox'[i].service
      <4>1. CASE i \in DOMAIN inbox /\ inbox'[i] = inbox[i]
        <5>1. inbox[i].client \in Clients /\ inbox[i].service \in Services
          BY <3>3, <3>4, <4>1, RegistryMessageFields
        <5>2. asked[inbox[i].client] = inbox[i].service
          BY <3>4, <4>1 DEF Traced, InboxTraced
        <5>3. QED
          BY <2>1, <4>1, <5>1, <5>2, NotServices
      <4>2. CASE inbox'[i] = msg
        BY <1>0, <1>3, <3>1, <4>2
      <4>3. QED
        BY <1>0, <3>1, <3>2, <4>1, <4>2, AppendTo
    <3>5. QED
      BY <3>4 DEF InboxTraced
  <2>4. UnaskedUnanswered'
    BY <1>0, <1>1, <1>3, <2>1, NotServices DEF Traced, UnaskedUnanswered
  <2>5. AnswersEnrolled'
    BY <1>0, <1>1, <1>3, <2>1, NotServices DEF Traced, UnaskedUnanswered, AnswersEnrolled
  <2>6. QED
    BY <2>2, <2>3, <2>4, <2>5 DEF Traced
<1>4. QED
  BY <1>2, <1>3 DEF EnvironmentEffect

LEMMA TracedRegister ==
    ASSUME TypeInv, Traced, HandleRegister \/ HandleRegisterAs
    PROVE  Traced'
<1>1. PICK s \in Services, id \in Ids, r \in Runners :
              /\ RegisterService(s, id, r)
              /\ inbox' = Tail(inbox) /\ inbox # <<>> /\ inbox \in Seq(RegistryMessages)
              /\ UNCHANGED <<idsAndActors, asked, answer>>
  BY RegisterSteps
<1>2. PICK m : RegistersAt(s, id, r, m)
  BY <1>1, RegisterEffect
<1>3. /\ box \in [Managers -> Seq(ManagerMessages)]
      /\ managerOf \in [Managers -> Services \cup {NoService}]
  BY DEF TypeInv, TypeOK
<1> DEFINE msg == [type |-> "add", id |-> id, runner |-> r]
<1>4. /\ m \in Managers /\ box'[m] = Append(box[m], msg) /\ managerOf'[m] = s
      /\ \A n \in Managers : n # m => box'[n] = box[n] /\ managerOf'[n] = managerOf[n]
      /\ managerOf[m] = s \/ (box[m] = <<>> /\ idsAndActors[m] = <<>>)
      /\ box[m] \in Seq(ManagerMessages)
  <2>1. box'[m] = Append(box[m], msg) /\ m \in Managers
    BY <1>2, <1>3 DEF RegistersAt
  <2>2. managerOf[m] = s \/ (box[m] = <<>> /\ idsAndActors[m] = <<>>)
    BY <1>2 DEF RegistersAt
  <2> HIDE DEF msg
  <2>3. QED
    BY <1>2, <1>3, <2>1, <2>2 DEF RegistersAt
<1>5. msg \in ManagerMessages /\ msg.type = "add" /\ msg.id = id /\ msg.runner = r
  BY ManagerMessageTypes
<1>6. enrolled \subseteq enrolled' /\ [service |-> s, id |-> id, runner |-> r] \in enrolled'
  BY <1>1 DEF RegisterService
<1> HIDE DEF msg
<1>7. ASSUME NEW n \in Managers, n # m
      PROVE  TracedTo(n)'
  BY <1>1, <1>4, <1>6, <1>7, TracedOther DEF Traced
<1>8. TracedTo(m)'
  <2>1. ASSUME NEW p \in DOMAIN idsAndActors'[m], idsAndActors'[m][p] \in Entries
        PROVE  [service |-> s, id |-> idsAndActors'[m][p].id,
                runner |-> idsAndActors'[m][p].actor] \in enrolled'
    <3>1. managerOf[m] = s /\ idsAndActors' = idsAndActors
      BY <1>1, <1>4, <2>1
    <3>2. QED
      BY <1>4, <1>6, <2>1, <3>1 DEF Traced, TracedTo, EnrolledAt
  <2>2. ASSUME NEW i \in DOMAIN box'[m]
        PROVE  /\ box'[m][i].type = "add" =>
                     [service |-> s, id |-> box'[m][i].id,
                      runner |-> box'[m][i].runner] \in enrolled'
               /\ box'[m][i].type = "find" => asked'[box'[m][i].client] = s
    <3>1. CASE i \in DOMAIN box[m] /\ box'[m][i] = box[m][i]
      <4>1. managerOf[m] = s
        BY <1>4, <3>1
      <4>2. TracedTo(m) /\ asked' = asked
        BY <1>1, <1>4 DEF Traced
      <4>3. QED
        BY <1>6, <3>1, <4>1, <4>2 DEF TracedTo, EnrolledAt
    <3>2. CASE box'[m][i] = msg
      BY <1>5, <1>6, <3>2
    <3>3. QED
      BY <1>4, <1>5, <3>1, <3>2, AppendTo
  <2>3. QED
    BY <1>4, <2>1, <2>2 DEF TracedTo, EnrolledAt
<1>9. InboxTraced' /\ UnaskedUnanswered' /\ AnswersEnrolled'
  <2>1. InboxTraced'
    BY <1>1, InboxTail DEF Traced
  <2>2. QED
    BY <1>1, <1>6, <2>1 DEF Traced, UnaskedUnanswered, AnswersEnrolled
<1>10. QED
  BY <1>7, <1>8, <1>9 DEF Traced

LEMMA TracedRegistry ==
    ASSUME TypeInv, Traced, RegistryStep
    PROVE  Traced'
<1>0. box \in [Managers -> Seq(ManagerMessages)]
  BY DEF TypeInv, TypeOK
<1>1. CASE HandleRegister \/ HandleRegisterAs
  BY <1>1, TracedRegister
<1>2. ASSUME NEW msg \in ManagerMessages, BoxesGrow(msg), msg.type \notin {"add", "find"},
             inbox' = Tail(inbox), inbox # <<>>, inbox \in Seq(RegistryMessages),
             UNCHANGED <<managerOf, idsAndActors, asked, answer, enrolled>>
      PROVE  Traced'
  <2>1. ASSUME NEW m \in Managers
        PROVE  TracedTo(m)'
    <3>1. TracedTo(m) /\ box[m] \in Seq(ManagerMessages)
      BY <1>0 DEF Traced
    <3>2. box'[m] = box[m] \/ box'[m] = Append(box[m], msg)
      BY <1>2 DEF BoxesGrow
    <3>3. QED
      BY <1>2, <3>1, <3>2, TracedGrown
  <2>2. QED
    BY <1>2, <2>1, InboxTail DEF Traced, UnaskedUnanswered, AnswersEnrolled
<1>3. CASE HandleUnregister \/ HandleUnregisterAll
  <2>1. PICK id \in Ids :
              /\ BoxesGrow([type |-> "remove", id |-> id])
              /\ inbox' = Tail(inbox) /\ inbox # <<>> /\ inbox \in Seq(RegistryMessages)
              /\ UNCHANGED <<registry, idsAndActors, asked, answer, enrolled>>
    BY <1>3, UnregisterSteps
  <2>2. [type |-> "remove", id |-> id] \in ManagerMessages
    BY ManagerMessageTypes
  <2>3. QED
    BY <1>2, <2>1, <2>2 DEF registry
<1>4. CASE HandleRemove \/ HandleExit
  BY <1>2, <1>4, ClosingSteps, ManagerMessageTypes
<1>5. CASE HandleFind
  <2>1. PICK s \in Services, c \in Clients :
              /\ Head(inbox) = [type |-> "find", service |-> s, client |-> c]
              /\ inbox' = Tail(inbox) /\ inbox # <<>> /\ inbox \in Seq(RegistryMessages)
              /\ \/ /\ IsRegistered(s) /\ answer' = answer
                    /\ box'[registered[s]] =
                          Append(box[registered[s]], [type |-> "find", client |-> c])
                    /\ \A m \in Managers : m # registered[s] => box'[m] = box[m]
                 \/ /\ ~ IsRegistered(s) /\ box' = box
                    /\ answer' = [answer EXCEPT ![c] = ServiceNotFound]
              /\ UNCHANGED <<registry, idsAndActors, asked, enrolled>>
    BY <1>5, FindSteps
  <2>2. InboxTraced' /\ asked[c] = s
    <3>1. 1 \in DOMAIN inbox /\ inbox[1] = Head(inbox)
      BY <2>1, TailOf
    <3>2. asked[c] = s
      BY <2>1, <3>1 DEF Traced, InboxTraced
    <3>3. InboxTraced'
      BY <2>1, InboxTail DEF Traced
    <3>4. QED
      BY <3>2, <3>3
  <2>3. /\ [type |-> "find", client |-> c] \in ManagerMessages
        /\ answer \in [Clients -> Slots \cup {NoAnswer, ServiceNotFound, RuntimeError}]
    BY ManagerMessageTypes DEF TypeInv, TypeOK
  <2>4. \A m \in Managers : TracedTo(m)'
    <3>1. CASE IsRegistered(s)
      <4>1. managerOf[registered[s]] = s /\ registered[s] \in Managers
        BY <3>1 DEF TypeInv, Spawned
      <4>2. ASSUME NEW m \in Managers, m = registered[s]
            PROVE  TracedTo(m)'
        <5>1. /\ TracedTo(m) /\ box[m] \in Seq(ManagerMessages)
              /\ box'[m] = Append(box[m], [type |-> "find", client |-> c])
              /\ asked[c] = managerOf[m]
              /\ UNCHANGED <<asked, enrolled, managerOf, idsAndActors>>
          BY <1>0, <2>1, <2>2, <3>1, <4>1, <4>2 DEF Traced, registry
        <5>2. QED
          BY <2>3, <5>1, TracedGrown
      <4>3. ASSUME NEW m \in Managers, m # registered[s]
            PROVE  TracedTo(m)'
        BY <2>1, <3>1, <4>3, TracedOther DEF Traced, registry
      <4>4. QED
        BY <4>2, <4>3
    <3>2. CASE ~ IsRegistered(s)
      BY <2>1, <3>2, TracedOther DEF Traced, registry
    <3>3. QED
      BY <3>1, <3>2
  <2>5. UnaskedUnanswered' /\ AnswersEnrolled'
    BY <2>1, <2>2, <2>3, NotServices DEF Traced, UnaskedUnanswered, AnswersEnrolled
  <2>6. QED
    BY <2>2, <2>4, <2>5 DEF Traced
<1>6. CASE HandleRemoveCrashes \/ HandleExitCrashes
  BY <1>6, CrashSteps DEF Traced, TracedTo, EnrolledAt, InboxTraced, UnaskedUnanswered,
     AnswersEnrolled, registry, managers, history
<1>7. QED
  BY <1>1, <1>3, <1>4, <1>5, <1>6 DEF RegistryStep

LEMMA TracedManagerStep ==
    ASSUME TypeInv, Traced, NEW m \in Managers, ManagerStep(m)
    PROVE  Traced'
<1>0. /\ inbox \in Seq(RegistryMessages) /\ idsAndActors \in [Managers -> Seq(Slots)]
      /\ answer \in [Clients -> Slots \cup {NoAnswer, ServiceNotFound, RuntimeError}]
      /\ asked \in [Clients -> Services \cup {NoService}]
      /\ TracedTo(m)
  BY DEF TypeInv, TypeOK, Traced
<1>1. ASSUME NEW msg, Takes(m, msg),
             \A p \in DOMAIN idsAndActors'[m] :
                idsAndActors'[m][p] \in Entries =>
                   EnrolledAt(managerOf[m], idsAndActors'[m][p].id, idsAndActors'[m][p].actor)
      PROVE  \A n \in Managers : TracedTo(n)'
  <2>1. TracedTo(m)'
    BY <1>0, <1>1, TracedTaken DEF Takes, registry
  <2>2. \A n \in Managers : n # m => TracedTo(n)'
    BY <1>1, TracedOther DEF Traced, Takes, registry
  <2>3. QED
    BY <2>1, <2>2
<1>2. ASSUME inbox' = inbox \/ inbox' = Append(inbox, [type |-> "remove", service |-> managerOf[m]]),
             asked' = asked, managerOf[m] \in Services
      PROVE  InboxTraced'
  <2>1. /\ [type |-> "remove", service |-> managerOf[m]] \in RegistryMessages
        /\ [type |-> "remove", service |-> managerOf[m]].type = "remove"
    BY <1>2, RegistryMessageTypes
  <2> DEFINE msg == [type |-> "remove", service |-> managerOf[m]]
  <2> HIDE DEF msg
  <2>2. msg \in RegistryMessages /\ msg.type = "remove"
    BY <2>1 DEF msg
  <2>3. inbox' = inbox \/ inbox' = Append(inbox, msg)
    BY <1>2 DEF msg
  <2>4. ASSUME NEW i \in DOMAIN inbox', inbox'[i].type = "find"
        PROVE  i \in DOMAIN inbox /\ inbox'[i] = inbox[i]
    <3>1. CASE inbox' = inbox
      BY <2>4, <3>1
    <3>2. CASE inbox' = Append(inbox, msg)
      <4>1. (i \in DOMAIN inbox /\ inbox'[i] = inbox[i]) \/ inbox'[i] = msg
        BY <1>0, <2>2, <2>4, <3>2, AppendTo
      <4>2. QED
        BY <2>2, <2>4, <4>1
    <3>3. QED
      BY <2>3, <3>1, <3>2
  <2>5. QED
    BY <1>2, <2>4 DEF Traced, InboxTraced
<1>3. CASE ManagerAdds(m)
  <2>1. PICK id \in Ids, r \in Runners :
              /\ Takes(m, [type |-> "add", id |-> id, runner |-> r])
              /\ idsAndActors'[m] = Append(idsAndActors[m], [id |-> id, actor |-> r])
              /\ [id |-> id, actor |-> r] \in Slots
              /\ UNCHANGED <<inbox, answer>>
    BY <1>3, AddsSteps
  <2>2. EnrolledAt(managerOf[m], id, r)
    BY <1>0, <2>1, TailOf DEF Takes, TracedTo
  <2>3. \A p \in DOMAIN idsAndActors'[m] :
           idsAndActors'[m][p] \in Entries =>
              EnrolledAt(managerOf[m], idsAndActors'[m][p].id, idsAndActors'[m][p].actor)
    BY <1>0, <2>1, <2>2, AppendTo DEF TracedTo
  <2>4. QED
    BY <1>1, <1>2, <2>1, <2>3 DEF Traced, Takes, UnaskedUnanswered, AnswersEnrolled
<1>4. CASE ManagerRemoves(m)
  <2>1. PICK id \in Ids :
              /\ Takes(m, [type |-> "remove", id |-> id])
              /\ idsAndActors'[m] \in RemoveOutcomes(idsAndActors[m], id)
              /\ \/ inbox' = inbox
                 \/ inbox' = Append(inbox, [type |-> "remove", service |-> managerOf[m]])
              /\ UNCHANGED answer
    BY <1>4, RemovesSteps
  <2>2. \A p \in DOMAIN idsAndActors'[m] :
           idsAndActors'[m][p] \in Entries =>
              EnrolledAt(managerOf[m], idsAndActors'[m][p].id, idsAndActors'[m][p].actor)
    <3>1. PICK origin \in [1 .. Len(idsAndActors'[m]) -> 1 .. Len(idsAndActors[m])] :
              \A p \in 1 .. Len(idsAndActors'[m]) :
                 idsAndActors'[m][p] = idsAndActors[m][origin[p]] \/ idsAndActors'[m][p] = MovedFrom
      BY <1>0, <2>1, RemoveOrigins
    <3>2. /\ DOMAIN idsAndActors'[m] = 1 .. Len(idsAndActors'[m])
          /\ DOMAIN idsAndActors[m] = 1 .. Len(idsAndActors[m])
      BY <1>0, <2>1 DEF Takes
    <3>3. QED
      BY <1>0, <3>1, <3>2, NotServices DEF TracedTo
  <2>3. QED
    BY <1>1, <1>2, <2>1, <2>2 DEF Traced, Takes, UnaskedUnanswered, AnswersEnrolled
<1>5. CASE ManagerAnswers(m)
  <2>1. PICK c \in Clients :
              /\ Takes(m, [type |-> "find", client |-> c])
              /\ idsAndActors' = idsAndActors
              /\ \/ /\ idsAndActors[m] = <<>>
                    /\ answer' = [answer EXCEPT ![c] = RuntimeError]
                 \/ \E p \in DOMAIN idsAndActors[m] :
                       answer' = [answer EXCEPT ![c] = idsAndActors[m][p]]
              /\ UNCHANGED inbox
    BY <1>5, AnswersSteps
  <2>2. asked[c] = managerOf[m] /\ managerOf[m] \in Services /\ asked' = asked
        /\ enrolled' = enrolled
    BY <1>0, <2>1, TailOf DEF Takes, TracedTo
  <2>3. PICK a : /\ answer' = [answer EXCEPT ![c] = a]
                 /\ a \in Entries => EnrolledAt(managerOf[m], a.id, a.actor)
    BY <1>0, <2>1, NotServices DEF TracedTo
  <2>4. UnaskedUnanswered' /\ AnswersEnrolled'
    <3>1. \A d \in Clients : answer'[d] = IF d = c THEN a ELSE answer[d]
      BY <1>0, <2>3
    <3>2. \A d \in Clients : asked'[d] = NoService => answer'[d] = NoAnswer
      BY <2>2, <3>1, NotServices DEF Traced, UnaskedUnanswered
    <3>3. ASSUME NEW d \in Clients, answer'[d] \in Entries
          PROVE  [service |-> asked'[d], id |-> answer'[d].id,
                  runner |-> answer'[d].actor] \in enrolled'
      BY <2>2, <2>3, <3>1, <3>3 DEF Traced, AnswersEnrolled, EnrolledAt
    <3>4. QED
      BY <3>2, <3>3 DEF UnaskedUnanswered, AnswersEnrolled
  <2>5. QED
    BY <1>0, <1>1, <1>2, <2>1, <2>2, <2>4 DEF Traced, TracedTo
<1>6. CASE ManagerExits(m)
  <2>1. /\ Takes(m, [type |-> "exit"])
        /\ idsAndActors' = idsAndActors
        /\ inbox' = Append(inbox, [type |-> "remove", service |-> managerOf[m]])
        /\ UNCHANGED answer
    BY <1>6, ExitsSteps
  <2>2. QED
    BY <1>0, <1>1, <1>2, <2>1 DEF Traced, TracedTo, Takes, UnaskedUnanswered, AnswersEnrolled
<1>7. CASE ManagerRemoveCrashes(m)
  BY <1>7, CrashSteps DEF Traced, TracedTo, EnrolledAt, InboxTraced, UnaskedUnanswered,
     AnswersEnrolled, registry, managers, history
<1>8. QED
  BY <1>3, <1>4, <1>5, <1>6, <1>7 DEF ManagerStep

LEMMA TracedStep ==
    ASSUME TypeInv, Traced, [Next]_vars
    PROVE  Traced'
<1>1. CASE UNCHANGED vars
  BY <1>1 DEF Traced, TracedTo, EnrolledAt, InboxTraced, UnaskedUnanswered, AnswersEnrolled,
     vars, registry, managers, history
<1>2. QED
  BY <1>1, TracedRegistry, TracedManagerStep, EnvironmentSteps, TracedEnvironment DEF Next

\* find_service: whoever is answered registered for the service asked for, under
\* the id it is answered with, whatever removals came in between.
THEOREM AnswersAreEnrolled == Spec => []AnswersEnrolled
<1>1. Init => TypeInv /\ Traced
  BY TypeInit, TracedInit
<1>2. (TypeInv /\ Traced) /\ [Next]_vars => (TypeInv /\ Traced)'
  BY TypeStep, TracedStep
<1>3. Traced => AnswersEnrolled
  BY DEF Traced
<1>4. QED
  BY <1>1, <1>2, <1>3, PTL DEF Spec

-----------------------------------------------------------------------------
(***************************************************************************)
(* A manager lists an id once                                              *)
(***************************************************************************)

\* A mailbox that may have grown by a message.
GrowsBy(m, msg) ==
    /\ box[m] \in Seq(ManagerMessages)
    /\ box'[m] = box[m] \/ box'[m] = Append(box[m], msg)

LEMMA GrowsByOne ==
    ASSUME NEW m, NEW msg \in ManagerMessages, GrowsBy(m, msg)
    PROVE  /\ box[m] \in Seq(ManagerMessages) /\ box'[m] \in Seq(ManagerMessages)
           /\ \A i \in DOMAIN box[m] :
                 i \in Nat /\ i \in DOMAIN box'[m] /\ box'[m][i] = box[m][i]
           /\ \A i \in DOMAIN box'[m] :
                 \/ i \in DOMAIN box[m] /\ box'[m][i] = box[m][i]
                 \/ /\ i = Len(box[m]) + 1 /\ box'[m][i] = msg
                    /\ box'[m] = Append(box[m], msg)
<1>1. box[m] \in Seq(ManagerMessages)
  BY DEF GrowsBy
<1>2. CASE box'[m] = box[m]
  BY <1>1, <1>2
<1>3. CASE box'[m] = Append(box[m], msg)
  BY <1>1, <1>3, AppendTo
<1>4. QED
  BY <1>2, <1>3 DEF GrowsBy

\* The mailbox of a manager after a handler of the registering service.
LEMMA GrownBox ==
    ASSUME TypeInv, NEW msg \in ManagerMessages, BoxesGrow(msg), NEW m \in Managers
    PROVE  /\ GrowsBy(m, msg)
           /\ box[m] \in Seq(ManagerMessages)
           /\ \A i \in DOMAIN box[m] :
                 i \in Nat /\ i \in DOMAIN box'[m] /\ box'[m][i] = box[m][i]
           /\ \A i \in DOMAIN box'[m] :
                 \/ i \in DOMAIN box[m] /\ box'[m][i] = box[m][i]
                 \/ /\ i = Len(box[m]) + 1 /\ box'[m][i] = msg
                    /\ box'[m] = Append(box[m], msg)
<1>1. GrowsBy(m, msg)
  BY DEF TypeInv, TypeOK, BoxesGrow, GrowsBy
<1>2. QED
  BY <1>1, GrowsByOne

\* The mailbox of a manager that has taken a message.
LEMMA TakenBox ==
    ASSUME NEW m \in Managers, NEW msg, Takes(m, msg)
    PROVE  /\ 1 \in DOMAIN box[m] /\ box[m][1] = msg
           /\ \A i \in DOMAIN box[m] : i \in Nat /\ box[m][i] \in ManagerMessages
           /\ \A i \in DOMAIN box'[m] :
                 i \in Nat /\ i + 1 \in DOMAIN box[m] /\ box'[m][i] = box[m][i + 1]
           /\ \A i \in DOMAIN box[m] :
                 i # 1 => i - 1 \in DOMAIN box'[m] /\ box'[m][i - 1] = box[m][i]
<1>1. box[m] \in Seq(ManagerMessages) /\ box[m] # <<>> /\ Head(box[m]) = msg
      /\ box'[m] = Tail(box[m])
  BY DEF Takes
<1>2. /\ Head(box[m]) = box[m][1] /\ 1 \in DOMAIN box[m]
      /\ \A i \in DOMAIN Tail(box[m]) :
            i \in Nat /\ i + 1 \in DOMAIN box[m] /\ Tail(box[m])[i] = box[m][i + 1]
      /\ \A i \in DOMAIN box[m] :
            i # 1 => i - 1 \in DOMAIN Tail(box[m]) /\ Tail(box[m])[i - 1] = box[m][i]
  BY <1>1, TailOf
<1>3. \A i \in DOMAIN box[m] : i \in Nat /\ box[m][i] \in ManagerMessages
  BY <1>1
<1>4. QED
  BY <1>1, <1>2, <1>3

Adds(msg) == msg.type = "add"

\* An id that nobody chose is listed or on its way to a manager, and only once.
OnceAt(m) ==
    /\ \A p, q \in DOMAIN idsAndActors[m] :
          idsAndActors[m][p].id = idsAndActors[m][q].id =>
             p = q \/ idsAndActors[m][p].id \in chosen \cup {NoId}
    /\ \A i, j \in DOMAIN box[m] :
          Adds(box[m][i]) /\ Adds(box[m][j]) /\ box[m][i].id = box[m][j].id =>
             i = j \/ box[m][i].id \in chosen
    /\ \A p \in DOMAIN idsAndActors[m], i \in DOMAIN box[m] :
          Adds(box[m][i]) /\ idsAndActors[m][p].id = box[m][i].id =>
             box[m][i].id \in chosen

\* serviceIds holds the ids of the managers that are registered.
KnownAt(m) ==
    /\ \A p \in DOMAIN idsAndActors[m] : idsAndActors[m][p].id \in serviceIds \cup {NoId}
    /\ \A i \in DOMAIN box[m] : Adds(box[m][i]) => box[m][i].id \in serviceIds

Once ==
    /\ \A m \in Managers : OnceAt(m)
    /\ \A s \in Services : IsRegistered(s) => KnownAt(registered[s])

LEMMA OnceInit ==
    ASSUME Init
    PROVE  Once
  BY DEF Init, Once, OnceAt, IsRegistered

\* A step that leaves a manager alone.
LEMMA OnceOther ==
    ASSUME NEW m \in Managers, OnceAt(m), box'[m] = box[m],
           idsAndActors'[m] = idsAndActors[m], chosen \subseteq chosen'
    PROVE  OnceAt(m)'
  BY DEF OnceAt, Adds

LEMMA KnownOther ==
    ASSUME NEW m \in Managers, KnownAt(m), box'[m] = box[m],
           idsAndActors'[m] = idsAndActors[m], serviceIds \subseteq serviceIds'
    PROVE  KnownAt(m)'
  BY DEF KnownAt, Adds

LEMMA OnceRegister ==
    ASSUME TypeInv, Once, HandleRegister \/ HandleRegisterAs
    PROVE  Once'
<1>1. PICK s \in Services, id \in Ids, r \in Runners :
              /\ RegisterService(s, id, r)
              /\ \/ id \notin serviceIds /\ chosen' = chosen
                 \/ chosen' = chosen \cup {id}
              /\ UNCHANGED idsAndActors
  BY RegisterSteps
<1>2. PICK m : RegistersAt(s, id, r, m)
  BY <1>1, RegisterEffect
<1>3. /\ box \in [Managers -> Seq(ManagerMessages)]
      /\ registered \in [Services -> Managers \cup {NoManager}]
  BY DEF TypeInv, TypeOK
<1> DEFINE msg == [type |-> "add", id |-> id, runner |-> r]
<1>4. msg \in ManagerMessages /\ msg.type = "add" /\ msg.id = id
  BY ManagerMessageTypes
<1>5. /\ m \in Managers /\ box'[m] = Append(box[m], msg)
      /\ \A n \in Managers : n # m => box'[n] = box[n]
      /\ registered' = [registered EXCEPT ![s] = m]
      /\ box[m] \in Seq(ManagerMessages)
  <2>1. box'[m] = Append(box[m], msg) /\ m \in Managers
    BY <1>2, <1>3 DEF RegistersAt
  <2> HIDE DEF msg
  <2>2. QED
    BY <1>2, <1>3, <2>1 DEF RegistersAt
<1>6. (IsRegistered(s) /\ m = registered[s]) \/ (box[m] = <<>> /\ idsAndActors[m] = <<>>)
  BY <1>2 DEF RegistersAt
<1>7. serviceIds' = serviceIds \cup {id} /\ chosen \subseteq chosen'
  BY <1>1 DEF RegisterService
<1> HIDE DEF msg
<1>8. KnownAt(m)
  BY <1>6 DEF Once, KnownAt
<1>9. /\ \A i \in DOMAIN box'[m] :
            \/ i \in DOMAIN box[m] /\ box'[m][i] = box[m][i]
            \/ i = Len(box[m]) + 1 /\ box'[m][i] = msg
      /\ idsAndActors' = idsAndActors
  BY <1>1, <1>4, <1>5, AppendTo
<1>10. KnownAt(m)'
  <2>1. \A p \in DOMAIN idsAndActors'[m] : idsAndActors'[m][p].id \in serviceIds' \cup {NoId}
    BY <1>7, <1>8, <1>9 DEF KnownAt
  <2>2. \A i \in DOMAIN box'[m] : Adds(box'[m][i]) => box'[m][i].id \in serviceIds'
    BY <1>4, <1>7, <1>8, <1>9 DEF KnownAt
  <2>3. QED
    BY <2>1, <2>2 DEF KnownAt, Adds
<1>11. OnceAt(m)'
  <2>1. OnceAt(m)
    BY <1>5 DEF Once
  <2>2. id \in chosen' \/ (id \notin serviceIds /\ id # NoId)
    BY <1>1, ServiceListAssumption
  <2>3. ASSUME NEW i \in DOMAIN box[m], Adds(box[m][i]), box[m][i].id = id
        PROVE  id \in chosen'
    BY <1>8, <2>2, <2>3 DEF KnownAt
  <2>4. ASSUME NEW p \in DOMAIN idsAndActors[m], idsAndActors[m][p].id = id
        PROVE  id \in chosen'
    BY <1>8, <2>2, <2>4 DEF KnownAt
  <2>5. \A p, q \in DOMAIN idsAndActors'[m] :
           idsAndActors'[m][p].id = idsAndActors'[m][q].id =>
              p = q \/ idsAndActors'[m][p].id \in chosen' \cup {NoId}
    BY <1>7, <1>9, <2>1 DEF OnceAt
  <2>6. ASSUME NEW i \in DOMAIN box'[m], NEW j \in DOMAIN box'[m],
               Adds(box'[m][i]), Adds(box'[m][j]), box'[m][i].id = box'[m][j].id
        PROVE  i = j \/ box'[m][i].id \in chosen'
    BY <1>4, <1>7, <1>9, <2>1, <2>3, <2>6 DEF OnceAt
  <2>7. ASSUME NEW p \in DOMAIN idsAndActors'[m], NEW i \in DOMAIN box'[m],
               Adds(box'[m][i]), idsAndActors'[m][p].id = box'[m][i].id
        PROVE  box'[m][i].id \in chosen'
    BY <1>4, <1>7, <1>9, <2>1, <2>4, <2>7 DEF OnceAt
  <2>8. QED
    BY <2>5, <2>6, <2>7 DEF OnceAt, Adds
<1>12. ASSUME NEW n \in Managers
       PROVE  OnceAt(n)'
  BY <1>5, <1>7, <1>9, <1>11, <1>12, OnceOther DEF Once
<1>13. ASSUME NEW t \in Services, IsRegistered(t)', NEW n \in Managers, n = registered'[t]
       PROVE  KnownAt(n)'
  <2>1. CASE n = m
    BY <1>10, <2>1
  <2>2. CASE n # m
    <3>1. registered'[t] = registered[t] /\ IsRegistered(t)
      BY <1>3, <1>5, <1>13, <2>2 DEF IsRegistered
    <3>2. KnownAt(n)
      BY <1>13, <3>1 DEF Once
    <3>3. QED
      BY <1>5, <1>7, <1>9, <2>2, <3>2, KnownOther
  <2>3. QED
    BY <2>1, <2>2
<1>14. \A t \in Services : IsRegistered(t)' => registered'[t] \in Managers
  BY <1>3, <1>5 DEF IsRegistered
<1>15. \A t \in Services : IsRegistered(t)' => KnownAt(registered[t])'
  BY <1>13, <1>14 DEF KnownAt
<1>16. QED
  BY <1>12, <1>15 DEF Once

\* A step of the registering service that adds nobody.
LEMMA OnceForward ==
    ASSUME TypeInv, Once, NEW msg \in ManagerMessages, BoxesGrow(msg), ~ Adds(msg),
           UNCHANGED <<idsAndActors, chosen>>,
           \A s \in Services : IsRegistered(s)' => registered'[s] = registered[s],
           serviceIds' = serviceIds \/ \A s \in Services : ~ IsRegistered(s)'
    PROVE  Once'
<1>1. ASSUME NEW m \in Managers
      PROVE  OnceAt(m)'
  <2>1. \A i \in DOMAIN box'[m] :
           Adds(box'[m][i]) => i \in DOMAIN box[m] /\ box'[m][i] = box[m][i]
    BY GrownBox
  <2>2. QED
    BY <2>1 DEF Once, OnceAt, Adds
<1>2. ASSUME NEW s \in Services, IsRegistered(s)', NEW m \in Managers, m = registered[s]
      PROVE  KnownAt(m)'
  <2>1. \A i \in DOMAIN box'[m] :
           Adds(box'[m][i]) => i \in DOMAIN box[m] /\ box'[m][i] = box[m][i]
    BY GrownBox
  <2>2. IsRegistered(s) /\ serviceIds' = serviceIds
    BY <1>2 DEF IsRegistered
  <2>3. KnownAt(m)
    BY <1>2, <2>2 DEF Once
  <2>4. QED
    BY <2>1, <2>2, <2>3 DEF KnownAt, Adds
<1>3. ASSUME NEW s \in Services, IsRegistered(s)'
      PROVE  KnownAt(registered[s])'
  <2>1. registered'[s] = registered[s] /\ IsRegistered(s)
    BY <1>3 DEF IsRegistered
  <2>2. registered[s] \in Managers
    BY <2>1 DEF TypeInv, Spawned
  <2>3. PICK m \in Managers : m = registered[s]
    BY <2>2
  <2>4. KnownAt(m)' /\ m = registered'[s]
    BY <1>2, <1>3, <2>1, <2>3
  <2>5. QED
    BY <2>4 DEF KnownAt
<1>4. QED
  BY <1>1, <1>3 DEF Once

\* A manager that takes a message that adds nobody, and whose list has no new ids.
LEMMA OnceTaken ==
    ASSUME TypeInv, Once, NEW m \in Managers, NEW msg, Takes(m, msg),
           \A p \in DOMAIN idsAndActors'[m] :
              \/ idsAndActors'[m][p].id = NoId
              \/ \E q \in DOMAIN idsAndActors[m] :
                    idsAndActors'[m][p].id = idsAndActors[m][q].id,
           \A p, q \in DOMAIN idsAndActors'[m] :
              idsAndActors'[m][p].id = idsAndActors'[m][q].id =>
                 p = q \/ idsAndActors'[m][p].id \in chosen \cup {NoId}
    PROVE  Once'
<1>0. /\ chosen' = chosen /\ serviceIds' = serviceIds /\ registered' = registered
      /\ \A n \in Managers : n # m => box'[n] = box[n] /\ idsAndActors'[n] = idsAndActors[n]
  BY DEF Takes, registry
<1>1. \A i \in DOMAIN box'[m] :
         i \in Nat /\ i + 1 \in DOMAIN box[m] /\ box'[m][i] = box[m][i + 1]
  BY TakenBox
<1>2. OnceAt(m)'
  <2>1. OnceAt(m)
    BY DEF Once
  <2>2. ASSUME NEW i \in DOMAIN box'[m], NEW j \in DOMAIN box'[m],
               Adds(box'[m][i]), Adds(box'[m][j]), box'[m][i].id = box'[m][j].id
        PROVE  i = j \/ box'[m][i].id \in chosen'
    <3>1. i + 1 = j + 1 \/ box[m][i + 1].id \in chosen
      BY <1>1, <2>1, <2>2 DEF OnceAt
    <3>2. QED
      BY <1>0, <1>1, <3>1
  <2>3. ASSUME NEW p \in DOMAIN idsAndActors'[m], NEW i \in DOMAIN box'[m],
               Adds(box'[m][i]), idsAndActors'[m][p].id = box'[m][i].id
        PROVE  box'[m][i].id \in chosen'
    <3>1. box[m][i + 1] \in ManagerMessages /\ Adds(box[m][i + 1])
      BY <1>1, <2>3, TakenBox
    <3>2. box'[m][i].id \in Ids
      BY <1>1, <3>1, ManagerMessageFields DEF Adds
    <3>3. idsAndActors'[m][p].id # NoId
      BY <2>3, <3>2, ServiceListAssumption
    <3>4. PICK q \in DOMAIN idsAndActors[m] :
             idsAndActors'[m][p].id = idsAndActors[m][q].id
      BY <3>3
    <3>5. QED
      BY <1>0, <1>1, <2>1, <2>3, <3>1, <3>4 DEF OnceAt
  <2>4. QED
    BY <1>0, <2>2, <2>3 DEF OnceAt, Adds
<1>3. \A n \in Managers : OnceAt(n)'
  BY <1>0, <1>2, OnceOther DEF Once
<1>4. ASSUME NEW s \in Services, IsRegistered(s)
      PROVE  KnownAt(registered[s])'
  <2>1. PICK n \in Managers : n = registered[s]
    BY <1>4 DEF TypeInv, Spawned
  <2>2. KnownAt(n)
    BY <1>4, <2>1 DEF Once
  <2>3. KnownAt(n)'
    <3>1. CASE n # m
      BY <1>0, <2>2, <3>1, KnownOther
    <3>2. CASE n = m
      <4>1. \A i \in DOMAIN box'[m] : Adds(box'[m][i]) => box'[m][i].id \in serviceIds
        BY <1>1, <2>2, <3>2 DEF KnownAt
      <4>2. \A p \in DOMAIN idsAndActors'[m] : idsAndActors'[m][p].id \in serviceIds \cup {NoId}
        BY <2>2, <3>2 DEF KnownAt
      <4>3. QED
        BY <1>0, <3>2, <4>1, <4>2 DEF KnownAt, Adds
    <3>3. QED
      BY <3>1, <3>2
  <2>4. QED
    BY <1>0, <2>1, <2>3 DEF KnownAt
<1>5. QED
  BY <1>0, <1>3, <1>4 DEF Once, IsRegistered

LEMMA OnceAdds ==
    ASSUME TypeInv, Once, NEW m \in Managers, ManagerAdds(m)
    PROVE  Once'
<1>1. PICK id \in Ids, r \in Runners :
              /\ Takes(m, [type |-> "add", id |-> id, runner |-> r])
              /\ idsAndActors'[m] = Append(idsAndActors[m], [id |-> id, actor |-> r])
              /\ [id |-> id, actor |-> r] \in Slots
  BY AddsSteps
<1>2. /\ chosen' = chosen /\ serviceIds' = serviceIds /\ registered' = registered
      /\ \A n \in Managers : n # m => box'[n] = box[n] /\ idsAndActors'[n] = idsAndActors[n]
      /\ idsAndActors[m] \in Seq(Slots)
  BY <1>1 DEF Takes, registry
<1>3. /\ 1 \in DOMAIN box[m] /\ Adds(box[m][1]) /\ box[m][1].id = id
      /\ \A i \in DOMAIN box'[m] :
            i \in Nat /\ i + 1 \in DOMAIN box[m] /\ box'[m][i] = box[m][i + 1]
  BY <1>1, TakenBox DEF Adds
<1>4. \A i \in DOMAIN box'[m] : i + 1 # 1 /\ i \in Nat
  <2>1. \A i \in DOMAIN box'[m] : i \in DOMAIN Tail(box[m]) /\ box[m] \in Seq(ManagerMessages)
                                  /\ box[m] # <<>>
    BY <1>1 DEF Takes
  <2>2. QED
    BY <2>1
<1>5. \A p \in DOMAIN idsAndActors'[m] :
         \/ p \in DOMAIN idsAndActors[m] /\ idsAndActors'[m][p] = idsAndActors[m][p]
         \/ p = Len(idsAndActors[m]) + 1 /\ idsAndActors'[m][p].id = id
  <2>1. \A p \in DOMAIN idsAndActors'[m] :
           \/ p \in DOMAIN idsAndActors[m] /\ idsAndActors'[m][p] = idsAndActors[m][p]
           \/ p = Len(idsAndActors[m]) + 1 /\ idsAndActors'[m][p] = [id |-> id, actor |-> r]
    BY <1>1, <1>2, AppendTo
  <2>2. QED
    BY <2>1
<1>6. OnceAt(m)'
  <2>1. OnceAt(m)
    BY DEF Once
  <2>2. ASSUME NEW p \in DOMAIN idsAndActors'[m], NEW q \in DOMAIN idsAndActors'[m],
               idsAndActors'[m][p].id = idsAndActors'[m][q].id
        PROVE  p = q \/ idsAndActors'[m][p].id \in chosen' \cup {NoId}
    BY <1>2, <1>3, <1>5, <2>1, <2>2 DEF OnceAt
  <2>3. ASSUME NEW i \in DOMAIN box'[m], NEW j \in DOMAIN box'[m],
               Adds(box'[m][i]), Adds(box'[m][j]), box'[m][i].id = box'[m][j].id
        PROVE  i = j \/ box'[m][i].id \in chosen'
    <3>1. i + 1 = j + 1 \/ box[m][i + 1].id \in chosen
      BY <1>3, <2>1, <2>3 DEF OnceAt
    <3>2. QED
      BY <1>2, <1>3, <3>1
  <2>4. ASSUME NEW p \in DOMAIN idsAndActors'[m], NEW i \in DOMAIN box'[m],
               Adds(box'[m][i]), idsAndActors'[m][p].id = box'[m][i].id
        PROVE  box'[m][i].id \in chosen'
    BY <1>2, <1>3, <1>4, <1>5, <2>1, <2>4 DEF OnceAt
  <2>5. QED
    BY <2>2, <2>3, <2>4 DEF OnceAt, Adds
<1>7. \A n \in Managers : OnceAt(n)'
  BY <1>2, <1>6, OnceOther DEF Once
<1>8. ASSUME NEW s \in Services, IsRegistered(s)
      PROVE  KnownAt(registered[s])'
  <2>1. PICK n \in Managers : n = registered[s]
    BY <1>8 DEF TypeInv, Spawned
  <2>2. KnownAt(n)
    BY <1>8, <2>1 DEF Once
  <2>3. KnownAt(n)'
    <3>1. CASE n # m
      BY <1>2, <2>2, <3>1, KnownOther
    <3>2. CASE n = m
      <4>1. \A i \in DOMAIN box'[m] : Adds(box'[m][i]) => box'[m][i].id \in serviceIds
        BY <1>3, <2>2, <3>2 DEF KnownAt
      <4>2. \A p \in DOMAIN idsAndActors'[m] : idsAndActors'[m][p].id \in serviceIds \cup {NoId}
        BY <1>3, <1>5, <2>2, <3>2 DEF KnownAt
      <4>3. QED
        BY <1>2, <3>2, <4>1, <4>2 DEF KnownAt, Adds
    <3>3. QED
      BY <3>1, <3>2
  <2>4. QED
    BY <1>2, <2>1, <2>3 DEF KnownAt
<1>9. QED
  BY <1>2, <1>7, <1>8 DEF Once, IsRegistered

LEMMA OnceStep ==
    ASSUME TypeInv, Once, [Next]_vars
    PROVE  Once'
<1>1. CASE HandleRegister \/ HandleRegisterAs
  BY <1>1, OnceRegister
<1>2. CASE HandleUnregister \/ HandleUnregisterAll
  <2>1. PICK id \in Ids :
              /\ BoxesGrow([type |-> "remove", id |-> id])
              /\ UNCHANGED <<registry, idsAndActors, chosen>>
    BY <1>2, UnregisterSteps
  <2> DEFINE msg == [type |-> "remove", id |-> id]
  <2>2. msg \in ManagerMessages /\ ~ Adds(msg) /\ BoxesGrow(msg)
    BY <2>1, ManagerMessageTypes DEF Adds
  <2> HIDE DEF msg
  <2>3. QED
    BY <2>1, <2>2, OnceForward DEF registry
<1>3. CASE HandleRemove \/ HandleExit
  <2> DEFINE msg == [type |-> "exit"]
  <2>1. msg \in ManagerMessages /\ ~ Adds(msg)
    BY ManagerMessageTypes DEF Adds
  <2>2. /\ BoxesGrow(msg) /\ UNCHANGED <<idsAndActors, chosen>>
        /\ \A s \in Services : registered'[s] \in {registered[s], NoManager}
        /\ serviceIds' = serviceIds \/ \A s \in Services : ~ IsRegistered(s)'
    BY <1>3, ClosingSteps
  <2> HIDE DEF msg
  <2>3. \A s \in Services : IsRegistered(s)' => registered'[s] = registered[s]
    BY <2>2 DEF IsRegistered
  <2>4. QED
    BY <2>1, <2>2, <2>3, OnceForward
<1>4. CASE HandleFind
  <2>1. PICK c \in Clients :
              /\ BoxesGrow([type |-> "find", client |-> c])
              /\ UNCHANGED <<registry, idsAndActors, chosen>>
    BY <1>4, FindSteps
  <2> DEFINE msg == [type |-> "find", client |-> c]
  <2>2. msg \in ManagerMessages /\ ~ Adds(msg) /\ BoxesGrow(msg)
    BY <2>1, ManagerMessageTypes DEF Adds
  <2> HIDE DEF msg
  <2>3. QED
    BY <2>1, <2>2, OnceForward DEF registry
<1>5. ASSUME NEW m \in Managers, ManagerAdds(m)
      PROVE  Once'
  BY <1>5, OnceAdds
<1>6. ASSUME NEW m \in Managers, ManagerRemoves(m)
      PROVE  Once'
  <2>1. PICK id \in Ids :
              /\ Takes(m, [type |-> "remove", id |-> id])
              /\ idsAndActors'[m] \in RemoveOutcomes(idsAndActors[m], id)
    BY <1>6, RemovesSteps
  <2>2. idsAndActors[m] \in Seq(Slots) /\ idsAndActors'[m] \in Seq(Slots)
    BY <2>1 DEF Takes
  <2> DEFINE before == idsAndActors[m]
             after  == idsAndActors'[m]
  <2> HIDE DEF before, after
  <2>2a. before \in Seq(Slots) /\ after \in RemoveOutcomes(before, id)
    BY <2>1, <2>2 DEF before, after
  <2>2b. PICK origin \in [1 .. Len(after) -> 1 .. Len(before)] :
            /\ \A p \in 1 .. Len(after) : after[p] = before[origin[p]] \/ after[p] = MovedFrom
            /\ \A p, q \in 1 .. Len(after) :
                  after[p] # MovedFrom /\ after[q] # MovedFrom /\ origin[p] = origin[q] => p = q
    BY <2>2a, RemoveOrigins
  <2>3. /\ origin \in [1 .. Len(idsAndActors'[m]) -> 1 .. Len(idsAndActors[m])]
        /\ \A p \in 1 .. Len(idsAndActors'[m]) :
              idsAndActors'[m][p] = idsAndActors[m][origin[p]] \/ idsAndActors'[m][p] = MovedFrom
        /\ \A p, q \in 1 .. Len(idsAndActors'[m]) :
              idsAndActors'[m][p] # MovedFrom /\ idsAndActors'[m][q] # MovedFrom
                 /\ origin[p] = origin[q] => p = q
    BY <2>2b DEF before, after
  <2>4. /\ DOMAIN idsAndActors'[m] = 1 .. Len(idsAndActors'[m])
        /\ DOMAIN idsAndActors[m] = 1 .. Len(idsAndActors[m])
    BY <2>2
  <2>5. \A p \in DOMAIN idsAndActors'[m] :
           \/ idsAndActors'[m][p].id = NoId
           \/ \E q \in DOMAIN idsAndActors[m] :
                 idsAndActors'[m][p].id = idsAndActors[m][q].id
    BY <2>3, <2>4, NotServices
  <2>6. ASSUME NEW p \in DOMAIN idsAndActors'[m], NEW q \in DOMAIN idsAndActors'[m],
               idsAndActors'[m][p].id = idsAndActors'[m][q].id
        PROVE  p = q \/ idsAndActors'[m][p].id \in chosen \cup {NoId}
    <3>1. CASE idsAndActors'[m][p] = MovedFrom \/ idsAndActors'[m][q] = MovedFrom
      BY <2>6, <3>1, NotServices
    <3>2. CASE idsAndActors'[m][p] # MovedFrom /\ idsAndActors'[m][q] # MovedFrom
      <4>1. /\ idsAndActors'[m][p] = idsAndActors[m][origin[p]]
            /\ idsAndActors'[m][q] = idsAndActors[m][origin[q]]
            /\ origin[p] \in DOMAIN idsAndActors[m] /\ origin[q] \in DOMAIN idsAndActors[m]
        BY <2>3, <2>4, <3>2
      <4>2. origin[p] = origin[q] \/ idsAndActors[m][origin[p]].id \in chosen \cup {NoId}
        BY <2>6, <4>1 DEF Once, OnceAt
      <4>3. QED
        BY <2>3, <2>4, <3>2, <4>1, <4>2
    <3>3. QED
      BY <3>1, <3>2
  <2>7. QED
    BY <2>1, <2>5, <2>6, OnceTaken
<1>7. ASSUME NEW m \in Managers, ManagerAnswers(m) \/ ManagerExits(m)
      PROVE  Once'
  <2>1. (\E msg : Takes(m, msg)) /\ idsAndActors' = idsAndActors
    BY <1>7, AnswersSteps, ExitsSteps
  <2>2. OnceAt(m)
    BY DEF Once
  <2>3. QED
    BY <2>1, <2>2, OnceTaken DEF OnceAt
<1>8. ASSUME UNCHANGED <<registry, box, idsAndActors, chosen>>
      PROVE  Once'
  BY <1>8 DEF Once, OnceAt, KnownAt, IsRegistered, registry
<1>9. CASE EnvironmentEffect \/ UNCHANGED vars
  BY <1>8, <1>9 DEF EnvironmentEffect, vars, managers, history
<1>10. CASE HandleRemoveCrashes \/ HandleExitCrashes \/ \E m \in Managers : ManagerRemoveCrashes(m)
  BY <1>8, <1>10, CrashSteps DEF managers, history
<1>11. QED
  BY <1>1, <1>2, <1>3, <1>4, <1>5, <1>6, <1>7, <1>9, <1>10, EnvironmentSteps
  DEF Next, RegistryStep, ManagerStep

\* create_unique_id: a manager lists an id twice only if a runner chose it.
THEOREM IdsListedOnce == Spec => []ListsIdsOnce
<1>1. Init => TypeInv /\ Once
  BY TypeInit, OnceInit
<1>2. (TypeInv /\ Once) /\ [Next]_vars => (TypeInv /\ Once)'
  BY TypeStep, OnceStep
<1>3. Once => ListsIdsOnce
  BY DEF Once, OnceAt, ListsIdsOnce
<1>4. QED
  BY <1>1, <1>2, <1>3, PTL DEF Spec

-----------------------------------------------------------------------------
(***************************************************************************)
(* Whoever is listed is watched                                            *)
(***************************************************************************)
AddOf(e)        == [type |-> "add", id |-> e.id, runner |-> e.runner]
RemoveOf(e)     == [type |-> "remove", id |-> e.id]
UnregisterOf(e) == [type |-> "unregister", service |-> e.service, id |-> e.id]

Reported(e) == monitors[e] > 0 \/ \E i \in DOMAIN inbox : inbox[i] = UnregisterOf(e)

ListedAt(m, e) ==
    \E p \in DOMAIN idsAndActors[m] : idsAndActors[m][p] = [id |-> e.id, actor |-> e.runner]

\* Whoever m lists is watched or about to be removed, and for whoever it is about to
\* list that holds of the messages behind the addition.
CoveredAt(m, e) ==
    /\ ListedAt(m, e) => Reported(e) \/ \E i \in DOMAIN box[m] : box[m][i] = RemoveOf(e)
    /\ \A i \in DOMAIN box[m] :
          box[m][i] = AddOf(e) =>
             Reported(e) \/ \E j \in DOMAIN box[m] : j > i /\ box[m][j] = RemoveOf(e)

Covered ==
    \A e \in Enrolments, m \in Managers :
       e.id \notin chosen /\ registered[e.service] = m => CoveredAt(m, e)

LEMMA CoveredInit ==
    ASSUME Init
    PROVE  Covered
  BY DEF Init, Covered, CoveredAt, ListedAt

LEMMA CoveredOther ==
    ASSUME NEW m \in Managers, NEW e \in Enrolments, CoveredAt(m, e),
           Reported(e) => Reported(e)',
           box'[m] = box[m], idsAndActors'[m] = idsAndActors[m]
    PROVE  CoveredAt(m, e)'
<1>1. (ListedAt(m, e) <=> ListedAt(m, e)')
  BY DEF ListedAt
<1>2. RemoveOf(e)' = RemoveOf(e) /\ AddOf(e)' = AddOf(e)
  BY DEF RemoveOf, AddOf
<1>3. QED
  BY <1>1, <1>2 DEF CoveredAt

\* The mailbox may grow by a message that does not add e; if e is not reported any
\* more, it is the removal.
LEMMA CoveredGrown ==
    ASSUME TypeInv, NEW m \in Managers, NEW e \in Enrolments, CoveredAt(m, e),
           NEW msg \in ManagerMessages, BoxesGrow(msg), msg.type # "add",
           idsAndActors' = idsAndActors,
           Reported(e) => Reported(e)' \/ box'[m] = Append(box[m], RemoveOf(e))
    PROVE  CoveredAt(m, e)'
<1>1. (ListedAt(m, e) <=> ListedAt(m, e)')
  BY DEF ListedAt
<1>2. RemoveOf(e)' = RemoveOf(e) /\ AddOf(e)' = AddOf(e) /\ AddOf(e).type = "add"
  BY DEF RemoveOf, AddOf
<1>3. /\ \A i \in DOMAIN box[m] :
            i \in Nat /\ i \in DOMAIN box'[m] /\ box'[m][i] = box[m][i]
      /\ \A i \in DOMAIN box'[m] :
            box'[m][i] # msg => i \in DOMAIN box[m] /\ box'[m][i] = box[m][i]
  BY GrownBox
<1>4. CASE Reported(e) => Reported(e)'
  BY <1>1, <1>2, <1>3, <1>4 DEF CoveredAt
<1>5. CASE box'[m] = Append(box[m], RemoveOf(e))
  <2>1. box[m] \in Seq(ManagerMessages)
    BY DEF TypeInv, TypeOK
  <2>2. RemoveOf(e) \in ManagerMessages /\ RemoveOf(e).type # "add"
    BY ManagerMessageTypes DEF RemoveOf, Enrolments
  <2>3. PICK k \in DOMAIN box'[m] : /\ box'[m][k] = RemoveOf(e)
                                    /\ \A i \in DOMAIN box[m] : k > i
    BY <1>5, <2>1, <2>2, AppendTo
  <2>4. \A i \in DOMAIN box'[m] : box'[m][i] = AddOf(e) => i \in DOMAIN box[m]
    BY <1>2, <1>3
  <2>5. QED
    BY <1>2, <2>3, <2>4 DEF CoveredAt
<1>6. QED
  BY <1>4, <1>5

\* A manager takes a message; if it lists e then, it did so before, or the removal
\* of e is behind that message.
LEMMA CoveredTaken ==
    ASSUME NEW m \in Managers, NEW e \in Enrolments, CoveredAt(m, e),
           NEW msg, Takes(m, msg), Reported(e) => Reported(e)',
           ListedAt(m, e)' =>
              \/ Reported(e)
              \/ ListedAt(m, e) /\ msg # RemoveOf(e)
              \/ \E j \in DOMAIN box[m] : j > 1 /\ box[m][j] = RemoveOf(e)
    PROVE  CoveredAt(m, e)'
<1>1. RemoveOf(e)' = RemoveOf(e) /\ AddOf(e)' = AddOf(e)
  BY DEF RemoveOf, AddOf
<1>2. /\ box[m][1] = msg
      /\ \A i \in DOMAIN box[m] : i \in Nat
      /\ \A i \in DOMAIN box'[m] :
            i \in Nat /\ i + 1 \in DOMAIN box[m] /\ box'[m][i] = box[m][i + 1]
      /\ \A i \in DOMAIN box[m] :
            i # 1 => i - 1 \in DOMAIN box'[m] /\ box'[m][i - 1] = box[m][i]
  BY TakenBox
<1>3. ASSUME ListedAt(m, e)', ~ Reported(e)'
      PROVE  \E i \in DOMAIN box'[m] : box'[m][i] = RemoveOf(e)
  <2>1. \E j \in DOMAIN box[m] : j # 1 /\ box[m][j] = RemoveOf(e)
    <3>1. CASE ListedAt(m, e) /\ msg # RemoveOf(e)
      BY <1>2, <1>3, <3>1 DEF CoveredAt
    <3>2. CASE \E j \in DOMAIN box[m] : j > 1 /\ box[m][j] = RemoveOf(e)
      BY <1>2, <3>2
    <3>3. QED
      BY <1>3, <3>1, <3>2
  <2>2. QED
    BY <1>2, <2>1
<1>4. ASSUME NEW i \in DOMAIN box'[m], box'[m][i] = AddOf(e), ~ Reported(e)'
      PROVE  \E j \in DOMAIN box'[m] : j > i /\ box'[m][j] = RemoveOf(e)
  <2>1. i \in Nat /\ i + 1 \in DOMAIN box[m] /\ box[m][i + 1] = AddOf(e)
    BY <1>2, <1>4
  <2>2. PICK j \in DOMAIN box[m] : j > i + 1 /\ box[m][j] = RemoveOf(e)
    BY <1>4, <2>1 DEF CoveredAt
  <2>3. j \in Nat /\ j # 1 /\ j - 1 > i
    BY <1>2, <2>1, <2>2
  <2>4. QED
    BY <1>2, <2>2, <2>3
<1>5. QED
  BY <1>1, <1>3, <1>4 DEF CoveredAt

\* A report in the inbox stays there until it is handled.
LEMMA ReportedUntilHandled ==
    ASSUME NEW e \in Enrolments, Reported(e),
           inbox \in Seq(RegistryMessages), inbox # <<>>, inbox' = Tail(inbox),
           monitors[e] > 0 => monitors'[e] > 0, Head(inbox) # UnregisterOf(e)
    PROVE  Reported(e)'
<1>1. UnregisterOf(e)' = UnregisterOf(e)
  BY DEF UnregisterOf
<1>2. ASSUME NEW i \in DOMAIN inbox, inbox[i] = UnregisterOf(e)
      PROVE  \E j \in DOMAIN inbox' : inbox'[j] = UnregisterOf(e)
  <2>1. i # 1
    BY <1>2, TailOf
  <2>2. i - 1 \in DOMAIN Tail(inbox) /\ Tail(inbox)[i - 1] = inbox[i]
    BY <2>1, TailOf
  <2>3. QED
    BY <1>2, <2>2
<1>3. QED
  BY <1>1, <1>2 DEF Reported

LEMMA ReportedKept ==
    ASSUME NEW e \in Enrolments, Reported(e), monitors' = monitors,
           inbox \in Seq(RegistryMessages), NEW msg \in RegistryMessages,
           inbox' = inbox \/ inbox' = Append(inbox, msg)
    PROVE  Reported(e)'
<1>1. UnregisterOf(e)' = UnregisterOf(e)
  BY DEF UnregisterOf
<1>2. QED
  BY <1>1, AppendTo DEF Reported

LEMMA CoveredEnvironment ==
    ASSUME TypeInv, Covered, EnvironmentEffect
    PROVE  Covered'
<1>0. UNCHANGED <<registered, box, idsAndActors, chosen>> /\ inbox \in Seq(RegistryMessages)
  BY DEF EnvironmentEffect, registry, managers, history, TypeInv, TypeOK
<1>1. ASSUME NEW e \in Enrolments, Reported(e)
      PROVE  Reported(e)'
  <2>1. CASE UNCHANGED <<inbox, asked, monitors>>
    BY <1>1, <2>1 DEF Reported, UnregisterOf
  <2>2. ASSUME NEW msg \in RegistryMessages, inbox' = Append(inbox, msg),
               monitors'[e] = monitors[e] \/ msg = UnregisterOf(e)
        PROVE  Reported(e)'
    <3>1. UnregisterOf(e)' = UnregisterOf(e)
      BY DEF UnregisterOf
    <3>2. /\ \A i \in DOMAIN inbox : i \in DOMAIN inbox' /\ inbox'[i] = inbox[i]
          /\ \E i \in DOMAIN inbox' : inbox'[i] = msg
      BY <1>0, <2>2, AppendTo
    <3>3. QED
      BY <1>1, <2>2, <3>1, <3>2 DEF Reported
  <2>3. ASSUME NEW c \in Clients, NEW s \in Services, UNCHANGED monitors,
               inbox' = Append(inbox, [type |-> "find", service |-> s, client |-> c])
        PROVE  Reported(e)'
    BY <1>0, <1>1, <2>3, ReportedKept, RegistryMessageTypes
  <2>4. QED
    BY <2>1, <2>2, <2>3 DEF EnvironmentEffect, UnregisterOf
<1>2. ASSUME NEW e \in Enrolments, NEW m \in Managers, e.id \notin chosen',
             registered'[e.service] = m
      PROVE  CoveredAt(m, e)'
  <2>1. CoveredAt(m, e)
    BY <1>0, <1>2 DEF Covered
  <2>2. QED
    BY <1>0, <1>1, <2>1, CoveredOther
<1>3. QED
  BY <1>2 DEF Covered

LEMMA CoveredRegister ==
    ASSUME TypeInv, Covered, RegistryStep, HandleRegister \/ HandleRegisterAs
    PROVE  Covered'
<1>1. PICK s \in Services, id \in Ids, r \in Runners :
              /\ RegisterService(s, id, r)
              /\ chosen \subseteq chosen'
              /\ inbox' = Tail(inbox) /\ inbox # <<>> /\ inbox \in Seq(RegistryMessages)
              /\ Head(inbox).type \in {"register", "registerAs"}
              /\ UNCHANGED idsAndActors
  BY RegisterSteps
<1>2. PICK n : RegistersAt(s, id, r, n)
  BY <1>1, RegisterEffect
<1>3. /\ box \in [Managers -> Seq(ManagerMessages)]
      /\ registered \in [Services -> Managers \cup {NoManager}]
      /\ monitors \in [Enrolments -> Nat]
  BY DEF TypeInv, TypeOK
<1> DEFINE new == [service |-> s, id |-> id, runner |-> r]
           msg == [type |-> "add", id |-> id, runner |-> r]
<1>4. /\ new \in Enrolments
      /\ monitors' = [monitors EXCEPT ![new] = @ + 1]
      /\ msg \in ManagerMessages
  BY <1>1, ManagerMessageTypes DEF RegisterService, Enrolments
<1>5. \A e \in Enrolments : e.service = s /\ AddOf(e) = msg => e = new
  BY DEF AddOf, Enrolments
<1>6. /\ n \in Managers /\ box'[n] = Append(box[n], msg) /\ box[n] \in Seq(ManagerMessages)
      /\ registered' = [registered EXCEPT ![s] = n]
      /\ \A m \in Managers : m # n => box'[m] = box[m]
      /\ (IsRegistered(s) /\ n = registered[s]) \/ (box[n] = <<>> /\ idsAndActors[n] = <<>>)
  <2>1. box'[n] = Append(box[n], msg) /\ n \in Managers
    BY <1>2, <1>3 DEF RegistersAt
  <2> HIDE DEF msg
  <2>2. QED
    BY <1>2, <1>3, <2>1 DEF RegistersAt
<1> HIDE DEF new, msg
<1>7. /\ monitors'[new] > 0
      /\ \A e \in Enrolments : monitors[e] > 0 => monitors'[e] > 0
  BY <1>3, <1>4
<1>8. ASSUME NEW e \in Enrolments, Reported(e)
      PROVE  Reported(e)'
  <2>1. Head(inbox) # UnregisterOf(e)
    BY <1>1 DEF UnregisterOf
  <2>2. QED
    BY <1>1, <1>7, <1>8, <2>1, ReportedUntilHandled
<1>9. ASSUME NEW e \in Enrolments, NEW m \in Managers, e.id \notin chosen',
             registered'[e.service] = m
      PROVE  CoveredAt(m, e)'
  <2>1. e.service \in Services /\ e.id \notin chosen
    BY <1>1, <1>9 DEF Enrolments
  <2>2. CASE e.service # s
    <3>1. registered[e.service] = m
      BY <1>3, <1>6, <1>9, <2>1, <2>2
    <3>2. m # n
      <4>1. TypeInv'
        BY TypeRegistry
      <4>2. /\ managerOf'[registered'[s]] = s
            /\ managerOf'[registered'[e.service]] = e.service
        <5>1. registered'[s] # NoManager /\ registered'[e.service] # NoManager
          BY <1>3, <1>6, <1>9, <2>1, RegistrationAssumption DEF Managers
        <5>2. QED
          BY <2>1, <4>1, <5>1 DEF TypeInv, Spawned, IsRegistered
      <4>3. registered'[s] = n
        BY <1>3, <1>6
      <4>4. QED
        BY <1>9, <2>2, <4>2, <4>3
    <3>3. CoveredAt(m, e)
      BY <1>9, <2>1, <3>1 DEF Covered
    <3>4. QED
      BY <1>1, <1>6, <1>8, <3>2, <3>3, CoveredOther
  <2>3. CASE e.service = s /\ e = new
    BY <1>7, <2>3 DEF CoveredAt, Reported
  <2>4. CASE e.service = s /\ e # new
    <3>1. m = n
      BY <1>3, <1>6, <1>9, <2>1, <2>4
    <3>2. CoveredAt(m, e)
      <4>1. CASE IsRegistered(s) /\ n = registered[s]
        BY <2>1, <2>4, <3>1, <4>1 DEF Covered
      <4>2. CASE box[n] = <<>> /\ idsAndActors[n] = <<>>
        <5>1. DOMAIN box[m] = {} /\ DOMAIN idsAndActors[m] = {}
          BY <3>1, <4>2
        <5>2. QED
          BY <5>1 DEF CoveredAt, ListedAt
      <4>3. QED
        BY <1>6, <4>1, <4>2
    <3>3. /\ \A i \in DOMAIN box[m] :
                i \in Nat /\ i \in DOMAIN box'[m] /\ box'[m][i] = box[m][i]
          /\ \A i \in DOMAIN box'[m] :
                box'[m][i] # msg => i \in DOMAIN box[m] /\ box'[m][i] = box[m][i]
      BY <1>4, <1>6, <3>1, AppendTo
    <3>4. AddOf(e) # msg
      BY <1>5, <2>4
    <3>5. /\ AddOf(e)' = AddOf(e) /\ RemoveOf(e)' = RemoveOf(e)
          /\ (ListedAt(m, e) <=> ListedAt(m, e)')
      BY <1>1 DEF AddOf, RemoveOf, ListedAt
    <3>6. QED
      BY <1>8, <3>2, <3>3, <3>4, <3>5 DEF CoveredAt
  <2>5. QED
    BY <2>2, <2>3, <2>4
<1>10. QED
  BY <1>9 DEF Covered

\* A step of the registering service that adds nobody.
LEMMA CoveredForward ==
    ASSUME TypeInv, Covered, NEW msg \in ManagerMessages, BoxesGrow(msg), msg.type # "add",
           inbox' = Tail(inbox), inbox # <<>>, inbox \in Seq(RegistryMessages),
           UNCHANGED <<idsAndActors, chosen, monitors>>,
           \A s \in Services : registered'[s] \in {registered[s], NoManager},
           \A e \in Enrolments :
              Head(inbox) = UnregisterOf(e) /\ IsRegistered(e.service) =>
                 box'[registered[e.service]] = Append(box[registered[e.service]], RemoveOf(e))
    PROVE  Covered'
<1>1. ASSUME NEW e \in Enrolments, NEW m \in Managers, e.id \notin chosen',
             registered'[e.service] = m
      PROVE  CoveredAt(m, e)'
  <2>1. e.service \in Services /\ m # NoManager
    BY RegistrationAssumption DEF Enrolments, Managers
  <2>2. registered[e.service] = m /\ IsRegistered(e.service)
    BY <1>1, <2>1 DEF IsRegistered
  <2>3. CoveredAt(m, e)
    BY <1>1, <2>2 DEF Covered
  <2>4. Reported(e) => Reported(e)' \/ box'[m] = Append(box[m], RemoveOf(e))
    BY <2>2, ReportedUntilHandled
  <2>5. QED
    BY <2>3, <2>4, CoveredGrown
<1>2. QED
  BY <1>1 DEF Covered

LEMMA CoveredStutter ==
    ASSUME Covered, UNCHANGED <<inbox, registered, idsAndActors, box, monitors, chosen>>
    PROVE  Covered'
<1>1. ASSUME NEW e \in Enrolments, NEW m \in Managers, e.id \notin chosen',
             registered'[e.service] = m
      PROVE  CoveredAt(m, e)'
  <2>1. CoveredAt(m, e)
    BY <1>1 DEF Covered
  <2>2. Reported(e) => Reported(e)'
    BY DEF Reported, UnregisterOf
  <2>3. QED
    BY <2>1, <2>2, CoveredOther
<1>2. QED
  BY <1>1 DEF Covered

\* A manager n takes a message: the other managers are left alone.
LEMMA CoveredManager ==
    ASSUME TypeInv, Covered, NEW n \in Managers, NEW msg, Takes(n, msg),
           inbox' = inbox \/ inbox' = Append(inbox, [type |-> "remove", service |-> managerOf[n]]),
           \A e \in Enrolments :
              e.id \notin chosen /\ registered[e.service] = n /\ ListedAt(n, e)' =>
                 \/ Reported(e)
                 \/ ListedAt(n, e) /\ msg # RemoveOf(e)
                 \/ \E j \in DOMAIN box[n] : j > 1 /\ box[n][j] = RemoveOf(e)
    PROVE  Covered'
<1>1. ASSUME NEW e \in Enrolments, Reported(e)
      PROVE  Reported(e)'
  <2>1. managerOf[n] \in Services /\ monitors' = monitors
    BY DEF Takes
  <2>2. inbox \in Seq(RegistryMessages)
    BY DEF TypeInv, TypeOK
  <2>3. [type |-> "remove", service |-> managerOf[n]] \in RegistryMessages
    BY <2>1, RegistryMessageTypes
  <2>4. QED
    BY <1>1, <2>1, <2>2, <2>3, ReportedKept
<1>2. ASSUME NEW e \in Enrolments, NEW m \in Managers, e.id \notin chosen',
             registered'[e.service] = m
      PROVE  CoveredAt(m, e)'
  <2>1. CoveredAt(m, e) /\ e.id \notin chosen
    BY <1>2 DEF Covered, Takes, registry
  <2>2. CASE m = n
    <3>1. registered[e.service] = n
      BY <1>2, <2>2 DEF Takes, registry
    <3>2. QED
      BY <1>1, <2>1, <2>2, <3>1, CoveredTaken
  <2>3. CASE m # n
    BY <1>1, <2>1, <2>3, CoveredOther DEF Takes
  <2>4. QED
    BY <2>2, <2>3
<1>3. QED
  BY <1>2 DEF Covered

LEMMA CoveredAdds ==
    ASSUME TypeInv, Covered, NEW n \in Managers, ManagerAdds(n)
    PROVE  Covered'
<1>1. PICK id \in Ids, r \in Runners :
              /\ Takes(n, [type |-> "add", id |-> id, runner |-> r])
              /\ idsAndActors'[n] = Append(idsAndActors[n], [id |-> id, actor |-> r])
              /\ [id |-> id, actor |-> r] \in Slots
              /\ inbox' = inbox
  BY AddsSteps
<1> DEFINE msg == [type |-> "add", id |-> id, runner |-> r]
           x   == [id |-> id, actor |-> r]
<1>2. idsAndActors[n] \in Seq(Slots) /\ box[n][1] = msg /\ 1 \in DOMAIN box[n]
  BY <1>1, TakenBox DEF Takes
<1>3. \A e \in Enrolments : x = [id |-> e.id, actor |-> e.runner] => msg = AddOf(e)
  BY DEF AddOf
<1>4. \A e \in Enrolments : msg # RemoveOf(e)
  BY DEF RemoveOf
<1> HIDE DEF msg, x
<1>5. \A p \in DOMAIN idsAndActors'[n] :
         (p \in DOMAIN idsAndActors[n] /\ idsAndActors'[n][p] = idsAndActors[n][p])
            \/ idsAndActors'[n][p] = x
  BY <1>1, <1>2, AppendTo DEF x
<1>6. ASSUME NEW e \in Enrolments, e.id \notin chosen, registered[e.service] = n,
             ListedAt(n, e)', ~ Reported(e)
      PROVE  \/ ListedAt(n, e) /\ msg # RemoveOf(e)
             \/ \E j \in DOMAIN box[n] : j > 1 /\ box[n][j] = RemoveOf(e)
  <2>1. PICK p \in DOMAIN idsAndActors'[n] :
           idsAndActors'[n][p] = [id |-> e.id, actor |-> e.runner]
    BY <1>6 DEF ListedAt
  <2>2. CASE p \in DOMAIN idsAndActors[n] /\ idsAndActors'[n][p] = idsAndActors[n][p]
    BY <1>4, <2>1, <2>2 DEF ListedAt
  <2>3. CASE idsAndActors'[n][p] = x
    BY <1>2, <1>3, <1>6, <2>1, <2>3 DEF Covered, CoveredAt
  <2>4. QED
    BY <1>5, <2>2, <2>3
<1>7. Takes(n, msg)
  BY <1>1 DEF msg
<1>8. QED
  BY <1>1, <1>6, <1>7, CoveredManager

LEMMA CoveredRemoves ==
    ASSUME TypeInv, Once, Covered, NEW n \in Managers, ManagerRemoves(n)
    PROVE  Covered'
<1>1. PICK id \in Ids :
              /\ Takes(n, [type |-> "remove", id |-> id])
              /\ idsAndActors'[n] \in RemoveOutcomes(idsAndActors[n], id)
              /\ \/ inbox' = inbox
                 \/ inbox' = Append(inbox, [type |-> "remove", service |-> managerOf[n]])
  BY RemovesSteps
<1> DEFINE msg    == [type |-> "remove", id |-> id]
           before == idsAndActors[n]
           after  == idsAndActors'[n]
<1>2. \A e \in Enrolments : msg = RemoveOf(e) => e.id = id
  BY DEF RemoveOf
<1>3. /\ before \in Seq(Slots) /\ after \in Seq(Slots) /\ after \in RemoveOutcomes(before, id)
      /\ Takes(n, msg)
  BY <1>1 DEF Takes
<1> HIDE DEF msg
<1>4. ASSUME NEW e \in Enrolments, e.id \notin chosen, ListedAt(n, e)'
      PROVE  ListedAt(n, e) /\ msg # RemoveOf(e)
  <2> DEFINE x == [id |-> e.id, actor |-> e.runner]
  <2>1. x # MovedFrom /\ x.id = e.id /\ e.id # NoId
    BY ServiceListAssumption DEF MovedFrom, Enrolments
  <2>2. \E p \in DOMAIN after : after[p] = x
    BY <1>4 DEF ListedAt
  <2>3. OnceAt(n)
    BY DEF Once
  <2>4. \A p, q \in DOMAIN before : before[p].id = e.id /\ before[q].id = e.id => p = q
    BY <1>4, <2>1, <2>3 DEF OnceAt
  <2>5. (\E p \in DOMAIN before : before[p] = x) => ListedAt(n, e)
    BY DEF ListedAt
  <2> HIDE DEF before, after, x
  <2>6. PICK origin \in [1 .. Len(after) -> 1 .. Len(before)] :
           \A p \in 1 .. Len(after) : after[p] = before[origin[p]] \/ after[p] = MovedFrom
    BY <1>3, RemoveOrigins
  <2>7. DOMAIN after = 1 .. Len(after) /\ DOMAIN before = 1 .. Len(before)
    BY <1>3
  <2>8. \E q \in 1 .. Len(before) : before[q] = x
    BY <2>1, <2>2, <2>6, <2>7
  <2>9. ASSUME msg = RemoveOf(e)
        PROVE  FALSE
    <3>1. e.id = id
      BY <1>2, <2>9
    <3>2. PICK q \in 1 .. Len(before) : before[q] = x
      BY <2>8
    <3>3. before[q].id = id /\ \A p \in 1 .. Len(before) : before[p].id = id => p = q
      BY <2>1, <2>4, <2>7, <3>1, <3>2
    <3>4. ~ Occurs(after, id)
      BY <1>3, <3>3, RemoveOnce
    <3>5. QED
      BY <2>1, <2>2, <3>1, <3>4 DEF Occurs
  <2>10. QED
    BY <2>5, <2>7, <2>8, <2>9
<1>5. QED
  BY <1>1, <1>3, <1>4, CoveredManager

LEMMA CoveredRegistry ==
    ASSUME TypeInv, Covered, RegistryStep
    PROVE  Covered'
<1>1. CASE HandleRegister \/ HandleRegisterAs
  BY <1>1, CoveredRegister
<1>2. CASE HandleUnregister \/ HandleUnregisterAll
  <2>1. PICK id \in Ids :
              /\ BoxesGrow([type |-> "remove", id |-> id])
              /\ inbox' = Tail(inbox) /\ inbox # <<>> /\ inbox \in Seq(RegistryMessages)
              /\ \A s \in Services, j \in Ids :
                    Head(inbox) = [type |-> "unregister", service |-> s, id |-> j] =>
                       /\ j = id
                       /\ IsRegistered(s) =>
                             box'[registered[s]] =
                                Append(box[registered[s]], [type |-> "remove", id |-> id])
              /\ UNCHANGED <<registry, idsAndActors, monitors, chosen>>
    BY <1>2, UnregisterSteps
  <2> DEFINE msg == [type |-> "remove", id |-> id]
  <2>2. msg \in ManagerMessages /\ msg.type # "add" /\ BoxesGrow(msg)
    BY <2>1, ManagerMessageTypes
  <2>3. ASSUME NEW e \in Enrolments, Head(inbox) = UnregisterOf(e), IsRegistered(e.service)
        PROVE  box'[registered[e.service]] = Append(box[registered[e.service]], RemoveOf(e))
    <3>1. e.service \in Services /\ e.id \in Ids
      BY DEF Enrolments
    <3>2. Head(inbox) = [type |-> "unregister", service |-> e.service, id |-> e.id]
      BY <2>3 DEF UnregisterOf
    <3>3. QED
      BY <2>1, <2>3, <3>1, <3>2 DEF RemoveOf
  <2> HIDE DEF msg
  <2>4. QED
    BY <2>1, <2>2, <2>3, CoveredForward DEF registry
<1>3. CASE HandleRemove \/ HandleExit
  <2> DEFINE msg == [type |-> "exit"]
  <2>1. msg \in ManagerMessages /\ msg.type # "add"
    BY ManagerMessageTypes
  <2>2. /\ BoxesGrow(msg) /\ UNCHANGED <<idsAndActors, chosen, monitors>>
        /\ inbox' = Tail(inbox) /\ inbox # <<>> /\ inbox \in Seq(RegistryMessages)
        /\ Head(inbox).type \in {"remove", "exit"}
        /\ \A s \in Services : registered'[s] \in {registered[s], NoManager}
    BY <1>3, ClosingSteps
  <2>3. \A e \in Enrolments : Head(inbox) # UnregisterOf(e)
    BY <2>2 DEF UnregisterOf
  <2> HIDE DEF msg
  <2>4. QED
    BY <2>1, <2>2, <2>3, CoveredForward
<1>4. CASE HandleFind
  <2>1. PICK s \in Services, c \in Clients :
              /\ Head(inbox) = [type |-> "find", service |-> s, client |-> c]
              /\ inbox' = Tail(inbox) /\ inbox # <<>> /\ inbox \in Seq(RegistryMessages)
              /\ BoxesGrow([type |-> "find", client |-> c])
              /\ UNCHANGED <<registry, idsAndActors, chosen, monitors>>
    BY <1>4, FindSteps
  <2> DEFINE msg == [type |-> "find", client |-> c]
  <2>2. msg \in ManagerMessages /\ msg.type # "add" /\ BoxesGrow(msg)
    BY <2>1, ManagerMessageTypes
  <2>3. \A e \in Enrolments : Head(inbox) # UnregisterOf(e)
    BY <2>1 DEF UnregisterOf
  <2> HIDE DEF msg
  <2>4. QED
    BY <2>1, <2>2, <2>3, CoveredForward DEF registry
<1>5. CASE HandleRemoveCrashes \/ HandleExitCrashes
  BY <1>5, CrashSteps, CoveredStutter DEF registry, managers, history
<1>6. QED
  BY <1>1, <1>2, <1>3, <1>4, <1>5 DEF RegistryStep

LEMMA CoveredStep ==
    ASSUME TypeInv, Once, Covered, [Next]_vars
    PROVE  Covered'
<1>1. CASE RegistryStep
  BY <1>1, CoveredRegistry
<1>2. ASSUME NEW m \in Managers, ManagerAnswers(m) \/ ManagerExits(m)
      PROVE  Covered'
  <2>1. \E msg : Takes(m, msg) /\ \A e \in Enrolments : msg # RemoveOf(e)
    <3>1. CASE ManagerAnswers(m)
      <4>1. PICK c \in Clients : Takes(m, [type |-> "find", client |-> c])
        BY <3>1, AnswersSteps
      <4>2. \A e \in Enrolments : [type |-> "find", client |-> c] # RemoveOf(e)
        BY DEF RemoveOf
      <4>3. QED
        BY <4>1, <4>2
    <3>2. CASE ManagerExits(m)
      <4>1. Takes(m, [type |-> "exit"])
        BY <3>2, ExitsSteps
      <4>2. \A e \in Enrolments : [type |-> "exit"] # RemoveOf(e)
        BY DEF RemoveOf
      <4>3. QED
        BY <4>1, <4>2
    <3>3. QED
      BY <1>2, <3>1, <3>2
  <2>2. /\ idsAndActors' = idsAndActors
        /\ \/ inbox' = inbox
           \/ inbox' = Append(inbox, [type |-> "remove", service |-> managerOf[m]])
    BY <1>2, AnswersSteps, ExitsSteps
  <2>3. \A e \in Enrolments : (ListedAt(m, e)' <=> ListedAt(m, e))
    BY <2>2 DEF ListedAt
  <2>4. QED
    BY <2>1, <2>2, <2>3, CoveredManager
<1>3. ASSUME UNCHANGED <<inbox, registry, managers, monitors, chosen>>
      PROVE  Covered'
  BY <1>3, CoveredStutter DEF registry, managers
<1>4. CASE UNCHANGED vars \/ \E m \in Managers : ManagerRemoveCrashes(m)
  BY <1>3, <1>4, CrashSteps DEF vars, history
<1>5. QED
  BY <1>1, <1>2, <1>4, CoveredAdds, CoveredRemoves, EnvironmentSteps, CoveredEnvironment
  DEF Next, ManagerStep

LEMMA CoveredAreWatched == TypeInv /\ Covered => ListedIsWatched
<1>1. SUFFICES ASSUME TypeInv, Covered, NEW e \in Enrolments, e.id \notin chosen, Listed(e)
               PROVE  Watched(e)
  BY DEF ListedIsWatched
<1>2. PICK m \in Managers : m = registered[e.service]
  BY <1>1 DEF TypeInv, Spawned, Listed, Enrolments
<1>3. CoveredAt(m, e) /\ ListedAt(m, e)
  BY <1>1, <1>2 DEF Covered, Listed, ListedAt
<1>4. QED
  BY <1>2, <1>3 DEF CoveredAt, Reported, Watched, UnregisterOf, RemoveOf

\* spawn_hb_monitor: whoever is listed under a generated id is watched, or its
\* removal is under way.
THEOREM ListedAreWatched == Spec => []ListedIsWatched
<1>1. Init => TypeInv /\ Once /\ Covered
  BY TypeInit, OnceInit, CoveredInit
<1>2. (TypeInv /\ Once /\ Covered) /\ [Next]_vars => (TypeInv /\ Once /\ Covered)'
  BY TypeStep, OnceStep, CoveredStep
<1>3. QED
  BY <1>1, <1>2, CoveredAreWatched, PTL DEF Spec

-----------------------------------------------------------------------------
(***************************************************************************)
(* Who registered stays listed, and who asks for a runner is given one     *)
(***************************************************************************)
FindOf(c) == [type |-> "find", client |-> c]

\* When m has handled the messages before the i-th it lists e.
HoldsBefore(m, e, i) ==
    \/ /\ ListedAt(m, e)
       /\ \A j \in DOMAIN box[m] : j < i => box[m][j] # RemoveOf(e)
    \/ \E k \in DOMAIN box[m] :
          /\ k < i /\ box[m][k] = AddOf(e)
          /\ \A j \in DOMAIN box[m] : k < j /\ j < i => box[m][j] # RemoveOf(e)

\* When m has handled all of its messages it lists e.
KeptAt(m, e) == HoldsBefore(m, e, Len(box[m]) + 1)

AllKept ==
    \A e \in enrolled \ left :
       IsRegistered(e.service) /\ \A m \in Managers : registered[e.service] = m => KeptAt(m, e)

\* A request that is promised a runner finds one.
PromisesKept ==
    /\ \A c \in promised : answer[c] \notin {ServiceNotFound, RuntimeError}
    /\ \A c \in promised, m \in Managers : \A i \in DOMAIN box[m] :
          box[m][i] = FindOf(c) => \E e \in Enrolments : HoldsBefore(m, e, i)

Keeping == causes = {} => AllKept /\ PromisesKept

\* A client has one request, which is in the inbox, with a manager or answered.
Waiting(c) ==
    /\ answer[c] = NoAnswer
    /\ c \notin promised
    /\ \A m \in Managers : \A j \in DOMAIN box[m] : box[m][j] # FindOf(c)

Single ==
    /\ \A c \in promised : asked[c] # NoService
    /\ \A i, j \in DOMAIN inbox :
          /\ inbox[i].type = "find" /\ inbox[j].type = "find"
          /\ inbox[i].client = inbox[j].client
          => i = j
    /\ \A i \in DOMAIN inbox : inbox[i].type = "find" => Waiting(inbox[i].client)

\* What is held stays held when mailboxes grow ...
LEMMA HoldsGrown ==
    ASSUME NEW m \in Managers, NEW msg \in ManagerMessages, GrowsBy(m, msg),
           NEW e \in Enrolments, NEW i \in DOMAIN box[m], HoldsBefore(m, e, i),
           idsAndActors' = idsAndActors
    PROVE  HoldsBefore(m, e, i)'
<1>1. /\ RemoveOf(e)' = RemoveOf(e) /\ AddOf(e)' = AddOf(e)
      /\ (ListedAt(m, e)' <=> ListedAt(m, e))
  BY DEF RemoveOf, AddOf, ListedAt
<1>2. /\ \A j \in DOMAIN box[m] :
            j \in Nat /\ j \in DOMAIN box'[m] /\ box'[m][j] = box[m][j]
      /\ \A j \in DOMAIN box'[m] :
            \/ j \in DOMAIN box[m] /\ box'[m][j] = box[m][j]
            \/ j = Len(box[m]) + 1
      /\ box[m] \in Seq(ManagerMessages)
  BY GrowsByOne
<1>3. i <= Len(box[m]) /\ i \in Nat /\ Len(box[m]) \in Nat
  BY <1>2
<1>4. \A j \in DOMAIN box'[m] : j < i => j \in DOMAIN box[m] /\ box'[m][j] = box[m][j]
  BY <1>2, <1>3
<1>5. QED
  BY <1>1, <1>2, <1>4 DEF HoldsBefore

\* ... also when all messages are counted, by a message that does not remove e, ...
LEMMA KeptGrown ==
    ASSUME NEW m \in Managers, NEW msg \in ManagerMessages, GrowsBy(m, msg),
           NEW e \in Enrolments, KeptAt(m, e), idsAndActors' = idsAndActors,
           msg # RemoveOf(e) \/ box'[m] = box[m]
    PROVE  KeptAt(m, e)'
<1>1. /\ RemoveOf(e)' = RemoveOf(e) /\ AddOf(e)' = AddOf(e)
      /\ (ListedAt(m, e)' <=> ListedAt(m, e))
  BY DEF RemoveOf, AddOf, ListedAt
<1>2. /\ \A j \in DOMAIN box[m] :
            j \in Nat /\ j \in DOMAIN box'[m] /\ box'[m][j] = box[m][j]
      /\ \A j \in DOMAIN box'[m] :
            \/ j \in DOMAIN box[m] /\ box'[m][j] = box[m][j]
            \/ j = Len(box[m]) + 1 /\ box'[m][j] = msg /\ box'[m] = Append(box[m], msg)
      /\ box[m] \in Seq(ManagerMessages)
  BY GrowsByOne
<1>3. /\ \A j \in DOMAIN box[m] : j < Len(box[m]) + 1
      /\ box'[m] \in Seq(ManagerMessages)
      /\ \A j \in DOMAIN box'[m] : j < Len(box'[m]) + 1
  BY <1>2, GrowsByOne
<1>4. \A j \in DOMAIN box'[m] :
         box'[m][j] = RemoveOf(e) => j \in DOMAIN box[m] /\ box'[m][j] = box[m][j]
  <2>1. CASE msg # RemoveOf(e)
    BY <1>2, <2>1
  <2>2. CASE box'[m] = box[m]
    BY <2>2
  <2>3. QED
    BY <2>1, <2>2
<1>5. QED
  BY <1>1, <1>2, <1>3, <1>4 DEF KeptAt, HoldsBefore

\* ... and when the manager takes a message.
LEMMA HoldsTaken ==
    ASSUME NEW m \in Managers, NEW msg, Takes(m, msg), NEW e \in Enrolments,
           NEW i \in Nat, i > 1, HoldsBefore(m, e, i),
           ListedAt(m, e) /\ msg # RemoveOf(e) => ListedAt(m, e)',
           msg = AddOf(e) => ListedAt(m, e)'
    PROVE  HoldsBefore(m, e, i - 1)'
<1>1. RemoveOf(e)' = RemoveOf(e) /\ AddOf(e)' = AddOf(e)
  BY DEF RemoveOf, AddOf
<1>2. /\ 1 \in DOMAIN box[m] /\ box[m][1] = msg
      /\ \A j \in DOMAIN box[m] : j \in Nat
      /\ \A j \in DOMAIN box'[m] :
            j \in Nat /\ j + 1 \in DOMAIN box[m] /\ box'[m][j] = box[m][j + 1]
      /\ \A j \in DOMAIN box[m] :
            j # 1 => j - 1 \in DOMAIN box'[m] /\ box'[m][j - 1] = box[m][j]
  BY TakenBox
<1>3. ASSUME ListedAt(m, e), \A j \in DOMAIN box[m] : j < i => box[m][j] # RemoveOf(e)
      PROVE  HoldsBefore(m, e, i - 1)'
  <2>1. msg # RemoveOf(e)
    BY <1>2, <1>3
  <2>2. \A j \in DOMAIN box'[m] : j < i - 1 => box'[m][j] # RemoveOf(e)
    BY <1>2, <1>3
  <2>3. QED
    BY <1>1, <1>3, <2>1, <2>2 DEF HoldsBefore
<1>4. ASSUME NEW k \in DOMAIN box[m], k < i, box[m][k] = AddOf(e),
             \A j \in DOMAIN box[m] : k < j /\ j < i => box[m][j] # RemoveOf(e)
      PROVE  HoldsBefore(m, e, i - 1)'
  <2>1. CASE k = 1
    <3>1. ListedAt(m, e)'
      BY <1>2, <1>4, <2>1
    <3>2. ASSUME NEW j \in DOMAIN box'[m], j < i - 1
          PROVE  box'[m][j] # RemoveOf(e)
      <4>1. j \in Nat /\ j + 1 \in DOMAIN box[m] /\ box'[m][j] = box[m][j + 1]
        BY <1>2
      <4>2. j # 0
        <5>1. DOMAIN box'[m] = 1 .. Len(Tail(box[m])) /\ j \in DOMAIN box'[m]
          BY DEF Takes
        <5>2. QED
          BY <5>1
      <4>3. QED
        BY <1>4, <2>1, <3>2, <4>1, <4>2
    <3>3. QED
      BY <1>1, <3>1, <3>2 DEF HoldsBefore
  <2>2. CASE k # 1
    <3>1. /\ k - 1 \in DOMAIN box'[m] /\ k - 1 < i - 1 /\ box'[m][k - 1] = AddOf(e)
          /\ k \in Nat
      BY <1>2, <1>4, <2>2
    <3>2. \A j \in DOMAIN box'[m] : k - 1 < j /\ j < i - 1 => box'[m][j] # RemoveOf(e)
      BY <1>2, <1>4, <3>1
    <3>3. QED
      BY <1>1, <3>1, <3>2 DEF HoldsBefore
  <2>3. QED
    BY <2>1, <2>2
<1>5. QED
  BY <1>3, <1>4 DEF HoldsBefore

LEMMA HoldsOther ==
    ASSUME NEW m \in Managers, NEW e \in Enrolments, NEW i, HoldsBefore(m, e, i),
           box'[m] = box[m], idsAndActors'[m] = idsAndActors[m]
    PROVE  HoldsBefore(m, e, i)'
<1>1. /\ RemoveOf(e)' = RemoveOf(e) /\ AddOf(e)' = AddOf(e)
      /\ (ListedAt(m, e)' <=> ListedAt(m, e))
  BY DEF RemoveOf, AddOf, ListedAt
<1>2. QED
  BY <1>1 DEF HoldsBefore

LEMMA KeptOther ==
    ASSUME NEW m \in Managers, NEW e \in Enrolments, KeptAt(m, e),
           box'[m] = box[m], idsAndActors'[m] = idsAndActors[m]
    PROVE  KeptAt(m, e)'
  BY HoldsOther DEF KeptAt

LEMMA KeepingInit ==
    ASSUME Init
    PROVE  Keeping /\ Single
  BY DEF Init, Keeping, AllKept, PromisesKept, Single

\* A manager that keeps somebody has runners.
LEMMA KeptHasRunners ==
    ASSUME NEW m \in Managers, NEW e \in Enrolments, KeptAt(m, e)
    PROVE  HasRunners(m)
  BY DEF KeptAt, HoldsBefore, ListedAt, AddOf, HasRunners

\* A step of the registering service that neither adds nor asks.
LEMMA KeepingForward ==
    ASSUME TypeInv, Keeping, NEW msg \in ManagerMessages, BoxesGrow(msg), msg.type # "find",
           UNCHANGED <<idsAndActors, answer, promised, enrolled>>, left \subseteq left',
           causes' = {} => causes = {},
           causes' = {} => \A s \in Services :
              IsRegistered(s) /\ HasRunners(registered[s]) => registered'[s] = registered[s],
           \A e \in enrolled :
              IsRegistered(e.service) /\ e \notin left' =>
                 msg # RemoveOf(e) \/ box'[registered[e.service]] = box[registered[e.service]]
    PROVE  Keeping'
<1>1. SUFFICES ASSUME causes' = {}
               PROVE  AllKept' /\ PromisesKept'
  BY DEF Keeping
<1>2. AllKept /\ PromisesKept
  BY <1>1 DEF Keeping
<1>3. enrolled \subseteq Enrolments
  BY DEF TypeInv, TypeOK
<1>4. ASSUME NEW e \in enrolled', e \notin left'
      PROVE  /\ IsRegistered(e.service)'
             /\ \A m \in Managers : registered'[e.service] = m => KeptAt(m, e)'
  <2>1. e \in enrolled \ left /\ e \in Enrolments /\ e.service \in Services
    BY <1>3, <1>4 DEF Enrolments
  <2>2. IsRegistered(e.service)
    BY <1>2, <2>1 DEF AllKept
  <2>3. PICK m \in Managers : m = registered[e.service]
    BY <2>1, <2>2 DEF TypeInv, Spawned
  <2>4. KeptAt(m, e)
    BY <1>2, <2>1, <2>3 DEF AllKept
  <2>5. registered'[e.service] = m
    BY <1>1, <2>1, <2>2, <2>3, <2>4, KeptHasRunners
  <2>6. msg # RemoveOf(e) \/ box'[m] = box[m]
    BY <1>4, <2>1, <2>2, <2>3
  <2>7. KeptAt(m, e)'
    BY <2>1, <2>4, <2>6, KeptGrown, GrownBox
  <2>8. IsRegistered(e.service)'
    BY <2>2, <2>3, <2>5 DEF IsRegistered
  <2>9. QED
    BY <2>5, <2>7, <2>8
<1>5. ASSUME NEW c \in promised', NEW m \in Managers, NEW i \in DOMAIN box'[m],
             box'[m][i] = FindOf(c)
      PROVE  \E e \in Enrolments : HoldsBefore(m, e, i)'
  <2>1. i \in DOMAIN box[m] /\ box[m][i] = FindOf(c)
    BY <1>5, GrownBox DEF FindOf
  <2>2. PICK e \in Enrolments : HoldsBefore(m, e, i)
    BY <1>2, <1>5, <2>1 DEF PromisesKept
  <2>3. HoldsBefore(m, e, i)'
    BY <2>1, <2>2, HoldsGrown, GrownBox
  <2>4. QED
    BY <2>3
<1>6. PromisesKept'
  BY <1>2, <1>5 DEF PromisesKept, FindOf
<1>7. QED
  BY <1>4, <1>6 DEF AllKept

LEMMA KeepingRegister ==
    ASSUME TypeInv, Keeping, HandleRegister \/ HandleRegisterAs
    PROVE  Keeping'
<1>1. PICK s \in Services, id \in Ids, r \in Runners :
              /\ RegisterService(s, id, r)
              /\ UNCHANGED <<idsAndActors, answer, promised, causes>>
  BY RegisterSteps
<1>2. PICK n : RegistersAt(s, id, r, n)
  BY <1>1, RegisterEffect
<1>3. /\ box \in [Managers -> Seq(ManagerMessages)]
      /\ registered \in [Services -> Managers \cup {NoManager}]
      /\ enrolled \subseteq Enrolments
  BY DEF TypeInv, TypeOK
<1> DEFINE new == [service |-> s, id |-> id, runner |-> r]
           msg == [type |-> "add", id |-> id, runner |-> r]
<1>4. /\ enrolled' = enrolled \cup {new} /\ left' = left \ {new}
      /\ new \in Enrolments /\ new.service = s
      /\ msg \in ManagerMessages /\ msg = AddOf(new)
      /\ (\A e \in Enrolments : msg # RemoveOf(e)) /\ (\A c \in Clients : msg # FindOf(c))
  BY <1>1, ManagerMessageTypes DEF RegisterService, Enrolments, AddOf, RemoveOf, FindOf
<1>5. /\ n \in Managers
      /\ \A m \in Managers : GrowsBy(m, msg)
      /\ box'[n] = Append(box[n], msg) /\ box[n] \in Seq(ManagerMessages)
      /\ \A m \in Managers : m # n => box'[m] = box[m]
      /\ registered' = [registered EXCEPT ![s] = n]
      /\ IsRegistered(s) => n = registered[s]
  <2>1. box'[n] = Append(box[n], msg) /\ n \in Managers
    BY <1>2, <1>3 DEF RegistersAt
  <2> HIDE DEF msg
  <2>2. QED
    BY <1>2, <1>3, <2>1 DEF RegistersAt, GrowsBy
<1> HIDE DEF new, msg
<1>6. KeptAt(n, new)'
  <2>1. /\ Len(box[n]) + 1 \in DOMAIN box'[n] /\ box'[n][Len(box[n]) + 1] = msg
        /\ Len(box'[n]) = Len(box[n]) + 1 /\ Len(box[n]) \in Nat
        /\ DOMAIN box'[n] = 1 .. Len(box'[n])
    BY <1>4, <1>5
  <2>2. AddOf(new)' = msg
    BY <1>4 DEF new, AddOf
  <2>3. QED
    BY <2>1, <2>2 DEF KeptAt, HoldsBefore
<1>7. SUFFICES ASSUME causes = {}, AllKept, PromisesKept
               PROVE  AllKept' /\ PromisesKept'
  BY <1>1 DEF Keeping
<1>8. \A m \in Managers : m # NoManager
  BY RegistrationAssumption DEF Managers
<1>9. ASSUME NEW e \in enrolled' \ left'
      PROVE  /\ IsRegistered(e.service)'
             /\ \A m \in Managers : registered'[e.service] = m => KeptAt(m, e)'
  <2>1. e = new \/ (e \in enrolled \ left /\ e # new)
    BY <1>4
  <2>2. e \in Enrolments /\ e.service \in Services
    BY <1>3, <1>4, <2>1 DEF Enrolments
  <2>3. CASE e = new
    <3>1. registered'[e.service] = n
      BY <1>3, <1>4, <1>5, <2>2, <2>3
    <3>2. QED
      BY <1>5, <1>6, <1>8, <2>3, <3>1 DEF IsRegistered
  <2>4. CASE e \in enrolled \ left
    <3>1. IsRegistered(e.service)
      BY <1>7, <2>4 DEF AllKept
    <3>2. registered'[e.service] = registered[e.service]
      BY <1>3, <1>5, <2>2, <3>1
    <3>3. ASSUME NEW m \in Managers, registered'[e.service] = m
          PROVE  KeptAt(m, e)'
      <4>1. KeptAt(m, e)
        BY <1>7, <2>4, <3>2, <3>3 DEF AllKept
      <4>2. QED
        BY <1>1, <1>4, <1>5, <2>2, <4>1, KeptGrown
    <3>4. QED
      BY <3>1, <3>2, <3>3 DEF IsRegistered
  <2>5. QED
    BY <2>1, <2>3, <2>4
<1>10. ASSUME NEW c \in promised', NEW m \in Managers, NEW i \in DOMAIN box'[m],
             box'[m][i] = FindOf(c)
      PROVE  \E e \in Enrolments : HoldsBefore(m, e, i)'
  <2>1. c \in promised /\ c \in Clients
    BY <1>1 DEF TypeInv, TypeOK
  <2>2. i \in DOMAIN box[m] /\ box[m][i] = FindOf(c)
    BY <1>4, <1>5, <1>10, <2>1, GrowsByOne
  <2>3. PICK e \in Enrolments : HoldsBefore(m, e, i)
    BY <1>7, <2>1, <2>2 DEF PromisesKept
  <2>4. HoldsBefore(m, e, i)'
    BY <1>1, <1>4, <1>5, <2>2, <2>3, HoldsGrown
  <2>5. QED
    BY <2>4
<1>11. PromisesKept'
  BY <1>1, <1>7, <1>10 DEF PromisesKept, FindOf
<1>12. QED
  BY <1>9, <1>11 DEF AllKept

LEMMA KeepingFind ==
    ASSUME TypeInv, Keeping, Single, HandleFind
    PROVE  Keeping'
<1>1. PICK s \in Services, c \in Clients :
              /\ Head(inbox) = [type |-> "find", service |-> s, client |-> c]
              /\ inbox # <<>> /\ inbox \in Seq(RegistryMessages)
              /\ BoxesGrow([type |-> "find", client |-> c])
              /\ \/ /\ IsRegistered(s) /\ answer' = answer
                    /\ box'[registered[s]] =
                          Append(box[registered[s]], [type |-> "find", client |-> c])
                    /\ \A m \in Managers : m # registered[s] => box'[m] = box[m]
                 \/ /\ ~ IsRegistered(s) /\ box' = box
                    /\ answer' = [answer EXCEPT ![c] = ServiceNotFound]
              /\ \/ promised' = promised \cup {c} /\ \E e \in enrolled \ left : e.service = s
                 \/ promised' = promised
              /\ UNCHANGED <<registry, idsAndActors, enrolled, left, causes>>
  BY FindSteps
<1>2. /\ answer \in [Clients -> Slots \cup {NoAnswer, ServiceNotFound, RuntimeError}]
      /\ enrolled \subseteq Enrolments /\ promised \subseteq Clients
  BY DEF TypeInv, TypeOK
<1>3. FindOf(c) \in ManagerMessages /\ \A e \in Enrolments : FindOf(c) # RemoveOf(e)
  BY ManagerMessageTypes DEF FindOf, RemoveOf
<1>4. /\ c \notin promised /\ answer[c] = NoAnswer
      /\ \A m \in Managers : \A j \in DOMAIN box[m] : box[m][j] # FindOf(c)
  <2>1. 1 \in DOMAIN inbox /\ inbox[1] = Head(inbox)
    BY <1>1, TailOf
  <2>2. inbox[1].type = "find" /\ inbox[1].client = c
    BY <1>1, <2>1
  <2>3. QED
    BY <2>1, <2>2 DEF Single, Waiting
<1>5. \A m \in Managers : GrowsBy(m, FindOf(c))
  BY <1>1, <1>3, GrownBox DEF FindOf
<1>6. SUFFICES ASSUME causes = {}, AllKept, PromisesKept
               PROVE  AllKept' /\ PromisesKept'
  BY <1>1 DEF Keeping
<1>7. AllKept'
  <2>1. ASSUME NEW e \in enrolled' \ left', NEW m \in Managers, registered'[e.service] = m
        PROVE  KeptAt(m, e)'
    <3>1. KeptAt(m, e) /\ e \in Enrolments
      BY <1>1, <1>2, <1>6, <2>1 DEF AllKept, registry
    <3>2. QED
      BY <1>1, <1>3, <1>5, <3>1, KeptGrown
  <2>2. QED
    BY <1>1, <1>6, <2>1 DEF AllKept, IsRegistered, registry
<1>8. \A d \in promised' : answer'[d] \notin {ServiceNotFound, RuntimeError}
  <2>1. CASE c \in promised'
    <3>1. IsRegistered(s)
      BY <1>1, <1>4, <1>6, <2>1 DEF AllKept
    <3>2. QED
      BY <1>1, <1>4, <1>6, <3>1, RegistrationAssumption DEF PromisesKept
  <2>2. CASE c \notin promised'
    BY <1>1, <1>2, <1>6, <2>2 DEF PromisesKept
  <2>3. QED
    BY <2>1, <2>2
<1>9. ASSUME NEW d \in promised', NEW m \in Managers, NEW i \in DOMAIN box'[m],
             box'[m][i] = FindOf(d)
      PROVE  \E e \in Enrolments : HoldsBefore(m, e, i)'
  <2>1. CASE i \in DOMAIN box[m] /\ box'[m][i] = box[m][i]
    <3>1. d # c /\ d \in promised
      BY <1>1, <1>4, <1>9, <2>1
    <3>2. PICK e \in Enrolments : HoldsBefore(m, e, i)
      BY <1>6, <1>9, <2>1, <3>1 DEF PromisesKept
    <3>3. HoldsBefore(m, e, i)'
      BY <1>1, <1>3, <1>5, <2>1, <3>2, HoldsGrown
    <3>4. QED
      BY <3>3
  <2>2. CASE i = Len(box[m]) + 1 /\ box'[m][i] = FindOf(c) /\ box'[m] = Append(box[m], FindOf(c))
    <3>1. d = c
      BY <1>9, <2>2 DEF FindOf
    <3>2. PICK e \in enrolled \ left : e.service = s
      BY <1>1, <1>4, <1>9, <3>1
    <3>3. e \in Enrolments /\ IsRegistered(s)
      BY <1>2, <1>6, <3>2 DEF AllKept
    <3>4. m = registered[s]
      <4>1. box[m] \in Seq(ManagerMessages)
        BY <1>5 DEF GrowsBy
      <4>2. Len(Append(box[m], FindOf(c))) # Len(box[m])
        BY <4>1
      <4>3. box'[m] # box[m]
        BY <2>2, <4>2
      <4>4. QED
        BY <1>1, <3>3, <4>3
    <3>5. KeptAt(m, e)
      BY <1>6, <3>2, <3>4 DEF AllKept
    <3>6. HoldsBefore(m, e, i)
      BY <2>2, <3>5 DEF KeptAt
    <3>7. /\ RemoveOf(e)' = RemoveOf(e) /\ AddOf(e)' = AddOf(e)
          /\ (ListedAt(m, e)' <=> ListedAt(m, e))
      BY <1>1 DEF RemoveOf, AddOf, ListedAt
    <3>8. /\ \A j \in DOMAIN box[m] : j \in DOMAIN box'[m] /\ box'[m][j] = box[m][j]
          /\ \A j \in DOMAIN box'[m] :
                j < i => j \in DOMAIN box[m] /\ box'[m][j] = box[m][j]
      <4>1. /\ \A j \in DOMAIN box[m] :
                  j \in Nat /\ j \in DOMAIN box'[m] /\ box'[m][j] = box[m][j]
            /\ \A j \in DOMAIN box'[m] :
                  (j \in DOMAIN box[m] /\ box'[m][j] = box[m][j]) \/ j = Len(box[m]) + 1
            /\ Len(box[m]) \in Nat
        BY <1>3, <1>5, GrowsByOne
      <4>2. QED
        BY <2>2, <4>1
    <3>9. HoldsBefore(m, e, i)'
      BY <3>6, <3>7, <3>8 DEF HoldsBefore
    <3>10. QED
      BY <3>3, <3>9
  <2>3. QED
    BY <1>3, <1>5, <2>1, <2>2, GrowsByOne
<1>10. QED
  BY <1>7, <1>8, <1>9 DEF PromisesKept, FindOf

\* A step of a manager that keeps in its list whom it does not remove, and adds
\* whom it is told to.
LEMMA KeepingManager ==
    ASSUME TypeInv, Keeping, NEW n \in Managers, NEW msg, Takes(n, msg),
           causes' = {} => causes = {},
           causes' = {} => \A e \in Enrolments :
              /\ ListedAt(n, e) /\ msg # RemoveOf(e) => ListedAt(n, e)'
              /\ msg = AddOf(e) => ListedAt(n, e)',
           causes' = {} => \A c \in promised : answer'[c] \notin {ServiceNotFound, RuntimeError}
    PROVE  Keeping'
<1>1. SUFFICES ASSUME causes' = {}
               PROVE  AllKept' /\ PromisesKept'
  BY DEF Keeping
<1>2. AllKept /\ PromisesKept
  BY <1>1 DEF Keeping
<1>3. /\ enrolled' = enrolled /\ left' = left /\ registered' = registered
      /\ promised' = promised
      /\ \A m \in Managers : m # n => box'[m] = box[m] /\ idsAndActors'[m] = idsAndActors[m]
      /\ box[n] \in Seq(ManagerMessages) /\ box[n] # <<>> /\ box'[n] = Tail(box[n])
  BY DEF Takes, registry
<1>4. /\ enrolled \subseteq Enrolments
      /\ Len(box[n]) \in Nat /\ Len(box[n]) + 1 > 1 /\ (Len(box[n]) + 1) - 1 = Len(Tail(box[n])) + 1
  BY <1>3 DEF TypeInv, TypeOK
<1>5. ASSUME NEW e \in enrolled \ left, NEW m \in Managers, registered[e.service] = m
      PROVE  KeptAt(m, e)'
  <2>1. KeptAt(m, e) /\ e \in Enrolments
    BY <1>2, <1>4, <1>5 DEF AllKept
  <2>2. CASE m # n
    BY <1>3, <2>1, <2>2, KeptOther
  <2>3. CASE m = n
    <3> DEFINE i == Len(box[n]) + 1
    <3>1. PICK k : k = i
      OBVIOUS
    <3>2. HoldsBefore(n, e, k) /\ k \in Nat /\ k > 1
      BY <1>4, <2>1, <2>3, <3>1 DEF KeptAt
    <3> HIDE DEF i
    <3>3. HoldsBefore(n, e, k - 1)'
      BY <1>1, <2>1, <3>2, HoldsTaken
    <3>4. k - 1 = Len(box'[n]) + 1
      BY <1>3, <1>4, <3>1 DEF i
    <3>5. QED
      BY <2>3, <3>3, <3>4 DEF KeptAt
  <2>4. QED
    BY <2>2, <2>3
<1>6. ASSUME NEW c \in promised, NEW m \in Managers, NEW i \in DOMAIN box'[m],
             box'[m][i] = FindOf(c)
      PROVE  \E e \in Enrolments : HoldsBefore(m, e, i)'
  <2>1. CASE m # n
    <3>1. PICK e \in Enrolments : HoldsBefore(m, e, i)
      BY <1>2, <1>3, <1>6, <2>1 DEF PromisesKept
    <3>2. HoldsBefore(m, e, i)'
      BY <1>3, <2>1, <3>1, HoldsOther
    <3>3. QED
      BY <3>2
  <2>2. CASE m = n
    <3>1. i \in Nat /\ i + 1 \in DOMAIN box[n] /\ box[n][i + 1] = FindOf(c) /\ i \in DOMAIN Tail(box[n])
      BY <1>3, <1>6, <2>2, TakenBox
    <3>2. PICK e \in Enrolments : HoldsBefore(n, e, i + 1)
      BY <1>2, <3>1 DEF PromisesKept
    <3>3. PICK k : k = i + 1
      OBVIOUS
    <3>4. k \in Nat /\ k > 1 /\ k - 1 = i
      BY <1>3, <3>1, <3>3
    <3>5. HoldsBefore(n, e, k - 1)'
      BY <1>1, <3>2, <3>3, <3>4, HoldsTaken
    <3>6. QED
      BY <2>2, <3>4, <3>5
  <2>3. QED
    BY <2>1, <2>2
<1>7. AllKept'
  BY <1>2, <1>3, <1>5 DEF AllKept, IsRegistered
<1>8. PromisesKept'
  BY <1>1, <1>3, <1>6 DEF PromisesKept, FindOf
<1>9. QED
  BY <1>7, <1>8

LEMMA KeepingAdds ==
    ASSUME TypeInv, Keeping, NEW n \in Managers, ManagerAdds(n)
    PROVE  Keeping'
<1>1. PICK id \in Ids, r \in Runners :
              /\ Takes(n, [type |-> "add", id |-> id, runner |-> r])
              /\ idsAndActors'[n] = Append(idsAndActors[n], [id |-> id, actor |-> r])
              /\ [id |-> id, actor |-> r] \in Slots
              /\ UNCHANGED <<answer, causes>>
  BY AddsSteps
<1> DEFINE msg == [type |-> "add", id |-> id, runner |-> r]
           x   == [id |-> id, actor |-> r]
<1>2. \A e \in Enrolments : msg = AddOf(e) => x = [id |-> e.id, actor |-> e.runner]
  BY DEF AddOf
<1> HIDE DEF msg, x
<1>3. /\ \A p \in DOMAIN idsAndActors[n] :
            p \in DOMAIN idsAndActors'[n] /\ idsAndActors'[n][p] = idsAndActors[n][p]
      /\ \E p \in DOMAIN idsAndActors'[n] : idsAndActors'[n][p] = x
  <2>1. idsAndActors[n] \in Seq(Slots) /\ x \in Slots
        /\ idsAndActors'[n] = Append(idsAndActors[n], x)
    BY <1>1 DEF Takes, x
  <2>2. QED
    BY <2>1, AppendTo
<1>4. \A e \in Enrolments :
         /\ ListedAt(n, e) /\ msg # RemoveOf(e) => ListedAt(n, e)'
         /\ msg = AddOf(e) => ListedAt(n, e)'
  BY <1>2, <1>3 DEF ListedAt
<1>5. Takes(n, msg)
  BY <1>1 DEF msg
<1>6. causes' = {} => \A c \in promised : answer'[c] \notin {ServiceNotFound, RuntimeError}
  BY <1>1 DEF Keeping, PromisesKept
<1>7. QED
  BY <1>1, <1>4, <1>5, <1>6, KeepingManager

LEMMA KeepingRemoves ==
    ASSUME TypeInv, Keeping, NEW n \in Managers, ManagerRemoves(n)
    PROVE  Keeping'
<1>1. PICK id \in Ids :
              /\ Takes(n, [type |-> "remove", id |-> id])
              /\ idsAndActors'[n] \in RemoveOutcomes(idsAndActors[n], id)
              /\ causes' = {} => causes = {} /\ Occurs(idsAndActors[n], id)
              /\ UNCHANGED answer
  BY RemovesSteps
<1> DEFINE msg    == [type |-> "remove", id |-> id]
           before == idsAndActors[n]
           after  == idsAndActors'[n]
<1>2. /\ Takes(n, msg)
      /\ \A e \in Enrolments : msg # RemoveOf(e) => e.id # id
      /\ \A e \in Enrolments : msg # AddOf(e)
  BY <1>1 DEF AddOf, RemoveOf
<1>3. before \in Seq(Slots) /\ after \in Seq(Slots) /\ after \in RemoveOutcomes(before, id)
  BY <1>1 DEF Takes
<1>4. causes' = {} => causes = {} /\ Occurs(before, id)
  BY <1>1
<1> HIDE DEF msg
<1>5. ASSUME causes' = {}, NEW e \in Enrolments, ListedAt(n, e), msg # RemoveOf(e)
      PROVE  ListedAt(n, e)'
  <2> DEFINE x == [id |-> e.id, actor |-> e.runner]
  <2>1. (\E p \in DOMAIN before : before[p] = x) /\ x.id # id
    BY <1>2, <1>5 DEF ListedAt
  <2>2. (\E p \in DOMAIN after : after[p] = x) => ListedAt(n, e)'
    BY DEF ListedAt
  <2> HIDE DEF before, after, x
  <2>3. DOMAIN after = 1 .. Len(after) /\ DOMAIN before = 1 .. Len(before)
    BY <1>3
  <2>4. PICK q \in 1 .. Len(before) : before[q] = x
    BY <2>1, <2>3
  <2>5. \E p \in 1 .. Len(after) : after[p] = before[q]
    BY <1>3, <1>4, <1>5, <2>1, <2>4, RemoveKeeps
  <2>6. QED
    BY <2>2, <2>3, <2>4, <2>5
<1>6. causes' = {} => \A c \in promised : answer'[c] \notin {ServiceNotFound, RuntimeError}
  BY <1>1 DEF Keeping, PromisesKept
<1>7. QED
  BY <1>1, <1>2, <1>5, <1>6, KeepingManager

LEMMA KeepingAnswers ==
    ASSUME TypeInv, Keeping, NEW n \in Managers, ManagerAnswers(n)
    PROVE  Keeping'
<1>1. PICK c \in Clients :
              /\ Takes(n, FindOf(c))
              /\ idsAndActors' = idsAndActors
              /\ \/ /\ idsAndActors[n] = <<>>
                    /\ answer' = [answer EXCEPT ![c] = RuntimeError]
                 \/ \E p \in DOMAIN idsAndActors[n] :
                       answer' = [answer EXCEPT ![c] = idsAndActors[n][p]]
              /\ UNCHANGED causes
  BY AnswersSteps DEF FindOf
<1>2. \A e \in Enrolments : FindOf(c) # AddOf(e) /\ (ListedAt(n, e) => ListedAt(n, e)')
  BY <1>1 DEF FindOf, AddOf, ListedAt
<1>3. answer \in [Clients -> Slots \cup {NoAnswer, ServiceNotFound, RuntimeError}]
  BY DEF TypeInv, TypeOK
<1>4. \A p \in DOMAIN idsAndActors[n] : idsAndActors[n][p] \in Slots
  BY <1>1 DEF Takes
<1>5. ASSUME causes' = {}, NEW d \in promised
      PROVE  answer'[d] \notin {ServiceNotFound, RuntimeError}
  <2>1. PromisesKept /\ d \in Clients
    BY <1>1, <1>5 DEF Keeping, TypeInv, TypeOK
  <2>2. CASE d # c
    BY <1>1, <1>3, <2>1, <2>2 DEF PromisesKept
  <2>3. CASE d = c
    <3>1. 1 \in DOMAIN box[n] /\ box[n][1] = FindOf(c) /\ \A k \in DOMAIN box[n] : k \in Nat
      BY <1>1, TakenBox
    <3>2. PICK e \in Enrolments : HoldsBefore(n, e, 1)
      BY <2>1, <2>3, <3>1 DEF PromisesKept
    <3>3. ~ \E k \in DOMAIN box[n] : k < 1
      <4>1. box[n] \in Seq(ManagerMessages)
        BY <1>1 DEF Takes
      <4>2. QED
        BY <4>1
    <3>4. ListedAt(n, e)
      BY <3>2, <3>3 DEF HoldsBefore
    <3>5. idsAndActors[n] # <<>>
      BY <3>4 DEF ListedAt
    <3>6. QED
      BY <1>1, <1>3, <1>4, <2>3, <3>5, RegistrationAssumption
  <2>4. QED
    BY <2>2, <2>3
<1>6. QED
  BY <1>1, <1>2, <1>5, KeepingManager

LEMMA KeepingExits ==
    ASSUME TypeInv, Keeping, NEW n \in Managers, ManagerExits(n)
    PROVE  Keeping'
<1>1. Takes(n, [type |-> "exit"]) /\ idsAndActors' = idsAndActors /\ UNCHANGED <<answer, causes>>
  BY ExitsSteps
<1>2. \A e \in Enrolments : [type |-> "exit"] # AddOf(e) /\ (ListedAt(n, e) => ListedAt(n, e)')
  BY <1>1 DEF AddOf, ListedAt
<1>3. causes' = {} => \A c \in promised : answer'[c] \notin {ServiceNotFound, RuntimeError}
  BY <1>1 DEF Keeping, PromisesKept
<1>4. QED
  BY <1>1, <1>2, <1>3, KeepingManager

LEMMA KeepingStutter ==
    ASSUME TypeInv, Keeping,
           UNCHANGED <<registered, idsAndActors, box, answer, enrolled, left, promised, causes>>
    PROVE  Keeping'
<1>1. SUFFICES ASSUME AllKept, PromisesKept
               PROVE  AllKept' /\ PromisesKept'
  BY DEF Keeping
<1>2. enrolled \subseteq Enrolments
  BY DEF TypeInv, TypeOK
<1>3. AllKept'
  BY <1>1, <1>2, KeptOther DEF AllKept, IsRegistered
<1>4. ASSUME NEW c \in promised, NEW m \in Managers, NEW i \in DOMAIN box[m],
             box[m][i] = FindOf(c)
      PROVE  \E e \in Enrolments : HoldsBefore(m, e, i)'
  <2>1. PICK e \in Enrolments : HoldsBefore(m, e, i)
    BY <1>1, <1>4 DEF PromisesKept
  <2>2. HoldsBefore(m, e, i)'
    BY <2>1, HoldsOther
  <2>3. QED
    BY <2>2
<1>5. PromisesKept'
  BY <1>1, <1>4 DEF PromisesKept, FindOf
<1>6. QED
  BY <1>3, <1>5

LEMMA KeepingStep ==
    ASSUME TypeInv, Keeping, Single, [Next]_vars
    PROVE  Keeping'
<1>1. CASE HandleRegister \/ HandleRegisterAs
  BY <1>1, KeepingRegister
<1>2. CASE HandleUnregister \/ HandleUnregisterAll
  <2>1. PICK id \in Ids :
              /\ BoxesGrow([type |-> "remove", id |-> id])
              /\ left \subseteq left'
              /\ \A e \in enrolled :
                    IsRegistered(e.service) /\ e.id = id /\ e \notin left' =>
                       box'[registered[e.service]] = box[registered[e.service]]
              /\ UNCHANGED <<registry, idsAndActors, answer, enrolled, promised, causes>>
    BY <1>2, UnregisterSteps
  <2> DEFINE msg == [type |-> "remove", id |-> id]
  <2>2. /\ msg \in ManagerMessages /\ msg.type # "find" /\ BoxesGrow(msg)
        /\ \A e : msg = RemoveOf(e) => e.id = id
    BY <2>1, ManagerMessageTypes DEF RemoveOf
  <2> HIDE DEF msg
  <2>3. \A e \in enrolled :
           IsRegistered(e.service) /\ e \notin left' =>
              msg # RemoveOf(e) \/ box'[registered[e.service]] = box[registered[e.service]]
    BY <2>1, <2>2
  <2>4. QED
    BY <2>1, <2>2, <2>3, KeepingForward DEF registry
<1>3. CASE HandleRemove \/ HandleExit
  <2> DEFINE msg == [type |-> "exit"]
  <2>1. msg \in ManagerMessages /\ msg.type # "find" /\ \A e : msg # RemoveOf(e)
    BY ManagerMessageTypes DEF RemoveOf
  <2>2. /\ BoxesGrow(msg) /\ UNCHANGED <<idsAndActors, answer, enrolled, left, promised>>
        /\ causes \subseteq causes'
        /\ causes' = {} => \A s \in Services :
              IsRegistered(s) /\ HasRunners(registered[s]) => registered'[s] = registered[s]
    BY <1>3, ClosingSteps
  <2> HIDE DEF msg
  <2>3. causes' = {} => causes = {}
    BY <2>2
  <2>4. QED
    BY <2>1, <2>2, <2>3, KeepingForward
<1>4. CASE HandleFind
  BY <1>4, KeepingFind
<1>5. CASE EnvironmentEffect \/ UNCHANGED vars
  BY <1>5, KeepingStutter DEF EnvironmentEffect, vars, registry, managers, history
<1>6. CASE HandleRemoveCrashes \/ HandleExitCrashes \/ \E m \in Managers : ManagerRemoveCrashes(m)
  BY <1>6, CrashSteps, KeepingStutter DEF registry, managers, history
<1>7. QED
  BY <1>1, <1>2, <1>3, <1>4, <1>5, <1>6, KeepingAdds, KeepingRemoves, KeepingAnswers,
     KeepingExits, EnvironmentSteps
  DEF Next, RegistryStep, ManagerStep

\* No request comes into the inbox, and those in it still wait.
LEMMA SingleFrom ==
    ASSUME Single, inbox \in Seq(RegistryMessages),
           \/ inbox' = inbox
           \/ inbox' = Tail(inbox) /\ inbox # <<>>
           \/ \E msg \in RegistryMessages : msg.type # "find" /\ inbox' = Append(inbox, msg),
           \A i \in DOMAIN inbox' :
              inbox'[i].type = "find" =>
                 \A c \in Clients : inbox'[i].client = c /\ Waiting(c) => Waiting(c)',
           \A c \in promised' : asked'[c] # NoService
    PROVE  Single'
<1>1. \A i \in DOMAIN inbox :
         inbox[i].type = "find" => Waiting(inbox[i].client) /\ inbox[i].client \in Clients
  BY RegistryMessageFields DEF Single
<1>2. \A i, j \in DOMAIN inbox :
         inbox[i].type = "find" /\ inbox[j].type = "find" /\ inbox[i].client = inbox[j].client
            => i = j
  BY DEF Single
<1>3. ASSUME NEW from,
             \A i \in DOMAIN inbox' : inbox'[i].type = "find" =>
                from[i] \in DOMAIN inbox /\ inbox[from[i]] = inbox'[i],
             \A i, j \in DOMAIN inbox' : from[i] = from[j] => i = j
      PROVE  Single'
  <2>1. \A i, j \in DOMAIN inbox' :
           inbox'[i].type = "find" /\ inbox'[j].type = "find"
              /\ inbox'[i].client = inbox'[j].client => i = j
    BY <1>2, <1>3
  <2>2. ASSUME NEW i \in DOMAIN inbox', inbox'[i].type = "find", NEW c, c = inbox'[i].client
        PROVE  Waiting(c)'
    BY <1>1, <1>3, <2>2
  <2>3. ASSUME NEW i \in DOMAIN inbox', inbox'[i].type = "find"
        PROVE  Waiting(inbox[i].client)'
    BY <2>2, <2>3 DEF Waiting, FindOf
  <2>4. QED
    BY <2>1, <2>3 DEF Single
<1>4. CASE inbox' = inbox
  <2> DEFINE from == [i \in DOMAIN inbox' |-> i]
  <2>1. /\ \A i \in DOMAIN inbox' : from[i] \in DOMAIN inbox /\ inbox[from[i]] = inbox'[i]
        /\ \A i, j \in DOMAIN inbox' : from[i] = from[j] => i = j
    BY <1>4
  <2> HIDE DEF from
  <2>2. QED
    BY <1>3, <2>1
<1>5. CASE inbox' = Tail(inbox) /\ inbox # <<>>
  <2> DEFINE from == [i \in DOMAIN inbox' |-> i + 1]
  <2>1. /\ \A i \in DOMAIN inbox' : from[i] \in DOMAIN inbox /\ inbox[from[i]] = inbox'[i]
        /\ \A i, j \in DOMAIN inbox' : from[i] = from[j] => i = j
    <3>1. \A i \in DOMAIN inbox' :
             i \in Nat /\ i + 1 \in DOMAIN inbox /\ inbox'[i] = inbox[i + 1]
      BY <1>5, TailOf
    <3>2. QED
      BY <3>1
  <2> HIDE DEF from
  <2>2. QED
    BY <1>3, <2>1
<1>6. ASSUME NEW msg \in RegistryMessages, msg.type # "find", inbox' = Append(inbox, msg)
      PROVE  Single'
  <2> DEFINE from == [i \in DOMAIN inbox' |-> i]
  <2>1. /\ \A i \in DOMAIN inbox' : inbox'[i].type = "find" =>
              from[i] \in DOMAIN inbox /\ inbox[from[i]] = inbox'[i]
        /\ \A i, j \in DOMAIN inbox' : from[i] = from[j] => i = j
    <3>1. \A i \in DOMAIN inbox' :
             inbox'[i].type = "find" => i \in DOMAIN inbox /\ inbox'[i] = inbox[i]
      BY <1>6, AppendTo
    <3>2. QED
      BY <3>1
  <2> HIDE DEF from
  <2>2. QED
    BY <1>3, <2>1
<1>7. QED
  BY <1>4, <1>5, <1>6

\* The mailboxes get no request.
LEMMA WaitingKept ==
    ASSUME NEW c, Waiting(c), answer'[c] = answer[c], promised' = promised,
           \A m \in Managers : \A j \in DOMAIN box'[m] :
              box'[m][j] = FindOf(c) => \E k \in DOMAIN box[m] : box[m][k] = FindOf(c)
    PROVE  Waiting(c)'
<1>1. FindOf(c)' = FindOf(c)
  BY DEF FindOf
<1>2. QED
  BY <1>1 DEF Waiting

LEMMA SingleForward ==
    ASSUME TypeInv, Single, NEW msg \in ManagerMessages, msg.type # "find",
           \A m \in Managers : GrowsBy(m, msg),
           inbox' = Tail(inbox), inbox # <<>>, inbox \in Seq(RegistryMessages),
           UNCHANGED <<asked, answer, promised>>
    PROVE  Single'
<1>1. ASSUME NEW c \in Clients, Waiting(c)
      PROVE  Waiting(c)'
  <2>1. \A m \in Managers : \A j \in DOMAIN box'[m] :
           box'[m][j] = FindOf(c) => \E k \in DOMAIN box[m] : box[m][k] = FindOf(c)
    BY GrowsByOne DEF FindOf
  <2>2. QED
    BY <1>1, <2>1, WaitingKept
<1>2. \A c \in promised' : asked'[c] # NoService
  BY DEF Single
<1>3. QED
  BY <1>1, <1>2, SingleFrom

LEMMA SingleRegister ==
    ASSUME TypeInv, Single, HandleRegister \/ HandleRegisterAs
    PROVE  Single'
<1>1. PICK s \in Services, id \in Ids, r \in Runners :
              /\ RegisterService(s, id, r)
              /\ inbox' = Tail(inbox) /\ inbox # <<>> /\ inbox \in Seq(RegistryMessages)
              /\ UNCHANGED <<asked, answer, promised>>
  BY RegisterSteps
<1>2. PICK n : RegistersAt(s, id, r, n)
  BY <1>1, RegisterEffect
<1> DEFINE msg == [type |-> "add", id |-> id, runner |-> r]
<1>3. msg \in ManagerMessages /\ msg.type # "find"
  BY ManagerMessageTypes
<1>4. box' = [box EXCEPT ![n] = Append(@, msg)] /\ n \in Managers
  BY <1>2 DEF RegistersAt
<1> HIDE DEF msg
<1>5. \A m \in Managers : GrowsBy(m, msg)
  BY <1>4 DEF GrowsBy, TypeInv, TypeOK
<1>6. QED
  BY <1>1, <1>3, <1>5, SingleForward

LEMMA SingleFind ==
    ASSUME TypeInv, Traced, Single, HandleFind
    PROVE  Single'
<1>1. PICK s \in Services, c \in Clients :
              /\ Head(inbox) = [type |-> "find", service |-> s, client |-> c]
              /\ inbox' = Tail(inbox) /\ inbox # <<>> /\ inbox \in Seq(RegistryMessages)
              /\ BoxesGrow([type |-> "find", client |-> c])
              /\ answer' = answer \/ answer' = [answer EXCEPT ![c] = ServiceNotFound]
              /\ promised' = promised \cup {c} \/ promised' = promised
              /\ UNCHANGED asked
  BY FindSteps
<1>2. /\ 1 \in DOMAIN inbox /\ inbox[1].type = "find" /\ inbox[1].client = c
      /\ inbox[1].service = s
  BY <1>1, TailOf
<1>3. asked[c] = s
  BY <1>2 DEF Traced, InboxTraced
<1>4. FindOf(c) \in ManagerMessages /\ BoxesGrow(FindOf(c))
  BY <1>1, ManagerMessageTypes DEF FindOf
<1>5. ASSUME NEW i \in DOMAIN inbox', inbox'[i].type = "find", NEW d \in Clients,
             inbox'[i].client = d, Waiting(d)
      PROVE  Waiting(d)'
  <2>1. i + 1 \in DOMAIN inbox /\ inbox'[i] = inbox[i + 1] /\ i + 1 # 1
    <3>1. i \in Nat /\ i + 1 \in DOMAIN inbox /\ inbox'[i] = inbox[i + 1]
      BY <1>1, TailOf
    <3>2. i # 0
      BY <1>1, <1>5
    <3>3. QED
      BY <3>1, <3>2
  <2>2. d # c
    BY <1>2, <1>5, <2>1 DEF Single
  <2>3. answer'[d] = answer[d] /\ (d \in promised' <=> d \in promised)
    BY <1>1, <2>2 DEF TypeInv, TypeOK
  <2>4. \A m \in Managers : \A j \in DOMAIN box'[m] :
           box'[m][j] = FindOf(d) => \E k \in DOMAIN box[m] : box[m][k] = FindOf(d)
    BY <1>4, <2>2, GrownBox DEF FindOf
  <2>5. FindOf(d)' = FindOf(d)
    BY DEF FindOf
  <2>6. QED
    BY <1>5, <2>3, <2>4, <2>5 DEF Waiting
<1>6. \A d \in promised' : asked'[d] # NoService
  BY <1>1, <1>3, NotServices DEF Single
<1>7. QED
  BY <1>1, <1>5, <1>6, SingleFrom

LEMMA SingleManager ==
    ASSUME TypeInv, Single, NEW n \in Managers, NEW msg, Takes(n, msg),
           inbox' = inbox \/ inbox' = Append(inbox, [type |-> "remove", service |-> managerOf[n]]),
           \A c \in Clients : msg # FindOf(c) => answer'[c] = answer[c]
    PROVE  Single'
<1>1. /\ inbox \in Seq(RegistryMessages)
      /\ [type |-> "remove", service |-> managerOf[n]] \in RegistryMessages
      /\ [type |-> "remove", service |-> managerOf[n]].type # "find"
  BY RegistryMessageTypes DEF Takes, TypeInv, TypeOK
<1>2. asked' = asked /\ promised' = promised /\ \A m \in Managers : m # n => box'[m] = box[m]
  BY DEF Takes
<1>3. ASSUME NEW c \in Clients, Waiting(c)
      PROVE  Waiting(c)'
  <2>1. 1 \in DOMAIN box[n] /\ box[n][1] = msg
    BY TakenBox
  <2>2. msg # FindOf(c)
    BY <1>3, <2>1 DEF Waiting
  <2>3. \A j \in DOMAIN box'[n] : j + 1 \in DOMAIN box[n] /\ box'[n][j] = box[n][j + 1]
    BY TakenBox
  <2>4. \A m \in Managers : \A j \in DOMAIN box'[m] :
           box'[m][j] = FindOf(c) => \E k \in DOMAIN box[m] : box[m][k] = FindOf(c)
    BY <1>2, <2>3
  <2>5. QED
    BY <1>2, <1>3, <2>2, <2>4, WaitingKept
<1>4. \A c \in promised' : asked'[c] # NoService
  BY <1>2 DEF Single
<1>5. QED
  BY <1>1, <1>3, <1>4, SingleFrom

LEMMA SingleStutter ==
    ASSUME TypeInv, Single,
           \/ inbox' = inbox
           \/ \E msg \in RegistryMessages : msg.type # "find" /\ inbox' = Append(inbox, msg),
           UNCHANGED <<box, asked, answer, promised>>
    PROVE  Single'
<1>1. inbox \in Seq(RegistryMessages)
  BY DEF TypeInv, TypeOK
<1>2. ASSUME NEW c \in Clients, Waiting(c)
      PROVE  Waiting(c)'
  BY <1>2, WaitingKept
<1>3. \A c \in promised' : asked'[c] # NoService
  BY DEF Single
<1>4. QED
  BY <1>1, <1>2, <1>3, SingleFrom

\* A client that asks has no request anywhere yet.
LEMMA SingleAsk ==
    ASSUME TypeInv, Traced, Single, EnvironmentEffect,
           NEW c \in Clients, NEW s \in Services, asked[c] = NoService,
           asked' = [asked EXCEPT ![c] = s],
           inbox' = Append(inbox, [type |-> "find", service |-> s, client |-> c])
    PROVE  Single'
<1> DEFINE msg == [type |-> "find", service |-> s, client |-> c]
<1>1. /\ msg \in RegistryMessages /\ msg.type = "find" /\ msg.client = c
      /\ inbox' = Append(inbox, msg)
  BY RegistryMessageTypes
<1> HIDE DEF msg
<1>2. /\ inbox \in Seq(RegistryMessages)
      /\ asked \in [Clients -> Services \cup {NoService}]
      /\ box \in [Managers -> Seq(ManagerMessages)]
      /\ UNCHANGED <<box, answer, promised>>
  BY DEF TypeInv, TypeOK, EnvironmentEffect, managers, history
<1>3. ASSUME NEW i \in DOMAIN inbox, inbox[i].type = "find"
      PROVE  /\ inbox[i].client # c
             /\ Waiting(inbox[i].client)
  <2>1. inbox[i].service \in Services /\ asked[inbox[i].client] = inbox[i].service
    BY <1>2, <1>3, RegistryMessageFields DEF Traced, InboxTraced
  <2>2. QED
    BY <1>3, <2>1, NotServices DEF Single
<1>4. ASSUME NEW m \in Managers, NEW j \in DOMAIN box[m]
      PROVE  box[m][j] # FindOf(c)
  <2>1. managerOf[m] \in Services
    BY <1>2 DEF TypeInv, Spawned
  <2>2. box[m][j].type = "find" => asked[box[m][j].client] = managerOf[m]
    BY DEF Traced, TracedTo
  <2>3. QED
    BY <2>1, <2>2, NotServices DEF FindOf
<1>5. Waiting(c)
  BY <1>4 DEF Waiting, Single, Traced, UnaskedUnanswered
<1>6. ASSUME NEW d, Waiting(d)
      PROVE  Waiting(d)'
  BY <1>2, <1>6, WaitingKept
<1>7. ASSUME NEW i \in DOMAIN inbox', inbox'[i].type = "find"
      PROVE  \/ i \in DOMAIN inbox /\ inbox'[i] = inbox[i] /\ inbox'[i].client # c
             \/ i = Len(inbox) + 1 /\ inbox'[i].client = c
  BY <1>1, <1>2, <1>3, <1>7, AppendTo
<1>8. \A i, j \in DOMAIN inbox' :
         inbox'[i].type = "find" /\ inbox'[j].type = "find"
            /\ inbox'[i].client = inbox'[j].client => i = j
  BY <1>7 DEF Single
<1>9. ASSUME NEW i \in DOMAIN inbox', inbox'[i].type = "find"
      PROVE  Waiting(inbox[i].client)'
  <2>1. PICK d : d = inbox'[i].client /\ Waiting(d)
    BY <1>3, <1>5, <1>7, <1>9
  <2>2. Waiting(d)'
    BY <1>6, <2>1
  <2>3. QED
    BY <2>1, <2>2 DEF Waiting, FindOf
<1>10. \A d \in promised' : asked'[d] # NoService
  <2>1. \A d \in promised : d \in Clients /\ asked[d] # NoService
    BY DEF Single, TypeInv, TypeOK
  <2>2. QED
    BY <1>2, <2>1, NotServices
<1>11. QED
  BY <1>8, <1>9, <1>10 DEF Single

LEMMA SingleEnvironment ==
    ASSUME TypeInv, Traced, Single, EnvironmentEffect
    PROVE  Single'
<1>1. UNCHANGED <<box, answer, promised>>
  BY DEF EnvironmentEffect, managers, history
<1>2. CASE UNCHANGED <<inbox, asked>>
  BY <1>1, <1>2, SingleStutter
<1>3. CASE asked' = asked /\ \E msg \in RegistryMessages :
              msg.type # "find" /\ inbox' = Append(inbox, msg)
  BY <1>1, <1>3, SingleStutter
<1>4. QED
  BY <1>2, <1>3, SingleAsk DEF EnvironmentEffect

LEMMA SingleManagerStep ==
    ASSUME TypeInv, Single, NEW m \in Managers,
           \/ ManagerAdds(m) \/ ManagerRemoves(m) \/ ManagerAnswers(m) \/ ManagerExits(m)
    PROVE  Single'
<1>1. CASE ManagerAdds(m)
  <2>1. PICK id \in Ids, r \in Runners :
              /\ Takes(m, [type |-> "add", id |-> id, runner |-> r])
              /\ UNCHANGED <<inbox, answer>>
    BY <1>1, AddsSteps
  <2>2. QED
    BY <2>1, SingleManager
<1>2. CASE ManagerRemoves(m)
  <2>1. PICK id \in Ids :
              /\ Takes(m, [type |-> "remove", id |-> id])
              /\ \/ inbox' = inbox
                 \/ inbox' = Append(inbox, [type |-> "remove", service |-> managerOf[m]])
              /\ UNCHANGED answer
    BY <1>2, RemovesSteps
  <2>2. QED
    BY <2>1, SingleManager
<1>3. CASE ManagerAnswers(m)
  <2>1. PICK c \in Clients :
              /\ Takes(m, [type |-> "find", client |-> c])
              /\ \/ answer' = [answer EXCEPT ![c] = RuntimeError]
                 \/ \E p \in DOMAIN idsAndActors[m] :
                       answer' = [answer EXCEPT ![c] = idsAndActors[m][p]]
              /\ UNCHANGED inbox
    BY <1>3, AnswersSteps
  <2>2. \A d \in Clients : d # c => answer'[d] = answer[d]
    BY <2>1 DEF TypeInv, TypeOK
  <2>3. \A d \in Clients : [type |-> "find", client |-> c] # FindOf(d) => answer'[d] = answer[d]
    BY <2>2 DEF FindOf
  <2>4. QED
    BY <2>1, <2>3, SingleManager
<1>4. CASE ManagerExits(m)
  <2>1. /\ Takes(m, [type |-> "exit"]) /\ UNCHANGED answer
        /\ inbox' = Append(inbox, [type |-> "remove", service |-> managerOf[m]])
    BY <1>4, ExitsSteps
  <2>2. QED
    BY <2>1, SingleManager
<1>5. QED
  BY <1>1, <1>2, <1>3, <1>4

LEMMA SingleStep ==
    ASSUME TypeInv, Traced, Single, [Next]_vars
    PROVE  Single'
<1>1. CASE HandleRegister \/ HandleRegisterAs
  BY <1>1, SingleRegister
<1>2. CASE HandleUnregister \/ HandleUnregisterAll
  <2>1. PICK id \in Ids :
              /\ BoxesGrow([type |-> "remove", id |-> id])
              /\ inbox' = Tail(inbox) /\ inbox # <<>> /\ inbox \in Seq(RegistryMessages)
              /\ UNCHANGED <<asked, answer, promised>>
    BY <1>2, UnregisterSteps
  <2> DEFINE msg == [type |-> "remove", id |-> id]
  <2>2. msg \in ManagerMessages /\ msg.type # "find" /\ BoxesGrow(msg)
    BY <2>1, ManagerMessageTypes
  <2> HIDE DEF msg
  <2>3. \A m \in Managers : GrowsBy(m, msg)
    BY <2>2, GrownBox
  <2>4. QED
    BY <2>1, <2>2, <2>3, SingleForward
<1>3. CASE HandleRemove \/ HandleExit
  <2> DEFINE msg == [type |-> "exit"]
  <2>1. /\ msg \in ManagerMessages /\ msg.type # "find" /\ BoxesGrow(msg)
        /\ inbox' = Tail(inbox) /\ inbox # <<>> /\ inbox \in Seq(RegistryMessages)
        /\ UNCHANGED <<asked, answer, promised>>
    BY <1>3, ClosingSteps, ManagerMessageTypes
  <2> HIDE DEF msg
  <2>2. \A m \in Managers : GrowsBy(m, msg)
    BY <2>1, GrownBox
  <2>3. QED
    BY <2>1, <2>2, SingleForward
<1>4. CASE HandleFind
  BY <1>4, SingleFind
<1>5. CASE EnvironmentStep \/ \E e \in Enrolments : MonitorStep(e)
  BY <1>5, EnvironmentSteps, SingleEnvironment
<1>6. CASE UNCHANGED vars
  BY <1>6, SingleStutter DEF vars, managers, history
<1>7. CASE HandleRemoveCrashes \/ HandleExitCrashes \/ \E m \in Managers : ManagerRemoveCrashes(m)
  BY <1>7, CrashSteps, SingleStutter DEF managers, history
<1>8. QED
  BY <1>1, <1>2, <1>3, <1>4, <1>5, <1>6, <1>7, SingleManagerStep
  DEF Next, RegistryStep, ManagerStep

\* All of it together holds in every state.
LEMMA KeepingAlways == Spec => [](TypeInv /\ Keeping)
<1>1. Init => TypeInv /\ Traced /\ Keeping /\ Single
  BY TypeInit, TracedInit, KeepingInit
<1>2. (TypeInv /\ Traced /\ Keeping /\ Single) /\ [Next]_vars
         => (TypeInv /\ Traced /\ Keeping /\ Single)'
  BY TypeStep, TracedStep, KeepingStep, SingleStep
<1>3. QED
  BY <1>1, <1>2, PTL DEF Spec

\* find_service: a client that asked when a runner was registered for the
\* service is not told that there is none, unless one of the causes was met.
THEOREM FindsSucceed == Spec => []FindSucceeds
<1>1. TypeInv /\ Keeping => FindSucceeds
  BY DEF Keeping, PromisesKept, FindSucceeds
<1>2. QED
  BY <1>1, KeepingAlways, PTL

LEMMA KeptAreListed == TypeInv /\ Keeping => InnocentStaysListed
<1>1. SUFFICES ASSUME TypeInv, Keeping, Quiet, causes = {}, NEW e \in enrolled \ left
               PROVE  Listed(e)
  BY DEF InnocentStaysListed
<1>2. e \in Enrolments /\ e.service \in Services
  BY <1>1 DEF TypeInv, TypeOK, Enrolments
<1>3. IsRegistered(e.service) /\ \A m \in Managers : registered[e.service] = m => KeptAt(m, e)
  BY <1>1 DEF Keeping, AllKept
<1>4. PICK m \in Managers : m = registered[e.service]
  BY <1>1, <1>2, <1>3 DEF TypeInv, Spawned
<1>5. KeptAt(m, e) /\ box[m] = <<>>
  BY <1>1, <1>3, <1>4 DEF Quiet
<1>6. ListedAt(m, e)
  BY <1>5 DEF KeptAt, HoldsBefore
<1>7. QED
  BY <1>3, <1>4, <1>6 DEF Listed, ListedAt

\* A runner that registered and was not unregistered is listed once all
\* messages are handled, unless one of the causes was met.
THEOREM InnocentsStayListed == Spec => []InnocentStaysListed
  BY KeptAreListed, KeepingAlways, PTL
=============================================================================
