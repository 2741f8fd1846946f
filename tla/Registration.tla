---------------------------- MODULE Registration ----------------------------
(***************************************************************************)
(* The registering service (registering_service.cpp) with the service      *)
(* managers it spawns and the heartbeat monitors it starts, between the    *)
(* runners that register and the clients that look for one.                *)
(*                                                                         *)
(* Every actor has one FIFO mailbox and handles one message at a time, so  *)
(* a handler is one action.  A message is appended to the receiver's       *)
(* mailbox in the step that sends it: CAF delivers in order per sender,    *)
(* and any order between senders.  Registration and manager exchange       *)
(* messages both ways, and that is where this component is hard: a manager *)
(* that became empty asks for its own removal while additions may be on    *)
(* their way to it.                                                        *)
(***************************************************************************)
EXTENDS ServiceList

CONSTANTS Services,            \* service names
          Clients,             \* clients, each of which asks for one runner
          CallerIds,           \* ids that runners choose for themselves
          MaxRegistrations,    \* bound on the registrations
          Budgets,             \* bounds on what the environment does
          NoService, NoManager, NoAnswer,
          ServiceNotFound,     \* lfge_errors::service_not_found
          RuntimeError         \* sec::runtime_error of an empty manager

Runners == Actors

\* Registrations, those of them with an id the runner chose, unregistrations,
\* monitors that fire on a live runner, finds, and exit messages.
Spending == {"register", "choose", "unregister", "alarm", "ask", "exit"}

ASSUME RegistrationAssumption ==
    /\ CallerIds \subseteq Ids
    /\ MaxRegistrations \in Nat
    /\ Budgets \subseteq [Spending -> Nat]
    /\ NoService \notin Services
    /\ NoManager \notin Nat
    /\ NoAnswer \notin Slots /\ ServiceNotFound \notin Slots /\ RuntimeError \notin Slots
    /\ NoAnswer \notin {ServiceNotFound, RuntimeError}

\* A manager is spawned by a registration, so there are never more of them.
Managers == 1 .. MaxRegistrations

\* A registration as the registering service made it, and its monitor.
Enrolments == [service : Services, id : Ids, runner : Runners]

VARIABLES inbox,         \* mailbox of the registering service
          registered,    \* registeredServiceActors: the manager of each service
          serviceIds,    \* registering_service::serviceIds
          spawned,       \* how many managers were spawned
          managerOf,     \* the service a manager was spawned for
          idsAndActors,  \* service_state::idsAndActors of each manager
          current,       \* service_state::current of each manager
          box,           \* mailbox of each manager
          monitors,      \* how many heartbeat monitors watch an enrolment
          alive,         \* runners that have not died
          asked, answer, \* what each client asked for and was answered
          crashed,       \* undefined behaviour has ended the process
          budget,        \* what is left of the bounds on the environment
          enrolled,      \* history: every enrolment that was made
          chosen,        \* history: ids that runners chose for themselves
          promised,      \* history: clients that must be given a runner
          left,          \* history: enrolments somebody asked to end
          causes         \* history: in which ways innocent runners were lost

registry    == <<registered, serviceIds, spawned, managerOf>>
managers    == <<idsAndActors, current, box>>
environment == <<alive, budget>>
history     == <<enrolled, chosen, promised, left, causes>>
vars == <<inbox, registry, managers, monitors, environment, asked, answer, crashed, history>>

-----------------------------------------------------------------------------
(***************************************************************************)
(* Messages                                                                *)
(***************************************************************************)
RegistryMessages ==
         [type : {"register"}, service : Services, runner : Runners]
    \cup [type : {"registerAs"}, service : Services, runner : Runners, id : Ids]
    \cup [type : {"unregister"}, service : Services, id : Ids]
    \cup [type : {"unregisterAll"}, id : Ids]
    \cup [type : {"remove"}, service : Services]
    \cup [type : {"find"}, service : Services, client : Clients]
    \cup [type : {"exit"}]

ManagerMessages ==
         [type : {"add"}, id : Ids, runner : Runners]
    \cup [type : {"remove"}, id : Ids]
    \cup [type : {"find"}, client : Clients]
    \cup [type : {"exit"}]

Receives(type) == inbox # <<>> /\ Head(inbox).type = type
ManagerReceives(m, type) == box[m] # <<>> /\ Head(box[m]).type = type

Init ==
    /\ inbox = <<>>
    /\ registered = [s \in Services |-> NoManager]
    /\ serviceIds = {}
    /\ spawned = 0
    /\ managerOf = [m \in Managers |-> NoService]
    /\ idsAndActors = [m \in Managers |-> <<>>]
    /\ current = [m \in Managers |-> 0]
    /\ box = [m \in Managers |-> <<>>]
    /\ monitors = [e \in Enrolments |-> 0]
    /\ alive = Runners
    /\ asked = [c \in Clients |-> NoService]
    /\ answer = [c \in Clients |-> NoAnswer]
    /\ crashed = FALSE
    /\ budget \in Budgets
    /\ enrolled = {}
    /\ chosen = {}
    /\ promised = {}
    /\ left = {}
    /\ causes = {}

-----------------------------------------------------------------------------
(***************************************************************************)
(* The environment: runners, clients, monitors                             *)
(***************************************************************************)
Spend(kinds) ==
    /\ \A kind \in kinds : budget[kind] > 0
    /\ budget' = [kind \in Spending |-> IF kind \in kinds THEN budget[kind] - 1
                                                          ELSE budget[kind]]

SendToRegistry(msg) == inbox' = Append(inbox, msg)

\* register(name) and register(name, address): the id is to be generated.
RunnerRegisters(r, s) ==
    /\ r \in alive
    /\ Spend({"register"})
    /\ SendToRegistry([type |-> "register", service |-> s, runner |-> r])
    /\ UNCHANGED <<registry, managers, monitors, alive, asked, answer, crashed, history>>

\* register(name, id)
RunnerRegistersAs(r, s, id) ==
    /\ r \in alive
    /\ Spend({"register", "choose"})
    /\ SendToRegistry([type |-> "registerAs", service |-> s, runner |-> r, id |-> id])
    /\ UNCHANGED <<registry, managers, monitors, alive, asked, answer, crashed, history>>

\* unregister(name, id), by a runner that was given that id
RunnerUnregisters(e) ==
    /\ e \in enrolled /\ e.runner \in alive
    /\ Spend({"unregister"})
    /\ SendToRegistry([type |-> "unregister", service |-> e.service, id |-> e.id])
    /\ UNCHANGED <<registry, managers, monitors, alive, asked, answer, crashed, history>>

\* unregister(id): the runner leaves every service it has under that id
RunnerUnregistersAll(e) ==
    /\ e \in enrolled /\ e.runner \in alive
    /\ Spend({"unregister"})
    /\ SendToRegistry([type |-> "unregisterAll", id |-> e.id])
    /\ UNCHANGED <<registry, managers, monitors, alive, asked, answer, crashed, history>>

RunnerDies(r) ==
    /\ r \in alive
    /\ alive' = alive \ {r}
    /\ UNCHANGED <<inbox, registry, managers, monitors, budget, asked, answer,
                   crashed, history>>

ClientAsks(c, s) ==
    /\ asked[c] = NoService
    /\ asked' = [asked EXCEPT ![c] = s]
    /\ Spend({"ask"})
    /\ SendToRegistry([type |-> "find", service |-> s, client |-> c])
    /\ UNCHANGED <<registry, managers, monitors, alive, answer, crashed, history>>

SomebodySendsExit ==
    /\ Spend({"exit"})
    /\ SendToRegistry([type |-> "exit"])
    /\ UNCHANGED <<registry, managers, monitors, alive, asked, answer, crashed, history>>

\* onNTimeouts of the heartbeat_sender that spawn_hb_monitor started, which
\* then quits.  Nothing stops a monitor but its own timeouts.
MonitorReports(e) ==
    /\ monitors[e] > 0
    /\ monitors' = [monitors EXCEPT ![e] = @ - 1]
    /\ SendToRegistry([type |-> "unregister", service |-> e.service, id |-> e.id])

MonitorFires(e) ==
    /\ e.runner \notin alive
    /\ MonitorReports(e)
    /\ UNCHANGED <<registry, managers, environment, asked, answer, crashed, history>>

\* A runner that computes for longer than three pulses answers no heartbeat.
MonitorFiresFalsely(e) ==
    /\ e.runner \in alive
    /\ Spend({"alarm"})
    /\ MonitorReports(e)
    /\ UNCHANGED <<registry, managers, alive, asked, answer, crashed, history>>

-----------------------------------------------------------------------------
(***************************************************************************)
(* The handlers of the registering service                                 *)
(***************************************************************************)
IsRegistered(s) == registered[s] # NoManager

SendToManager(m, msg) == box' = [box EXCEPT ![m] = Append(@, msg)]

\* Deliberately wrong variant: every registration spawns a manager.
RegisterServiceSpawning(s, id, r) ==
    LET new == spawned + 1
        e   == [service |-> s, id |-> id, runner |-> r]
    IN  /\ spawned' = new
        /\ registered' = [registered EXCEPT ![s] = new]
        /\ managerOf' = [managerOf EXCEPT ![new] = s]
        /\ SendToManager(new, [type |-> "add", id |-> id, runner |-> r])
        /\ serviceIds' = serviceIds \cup {id}
        /\ monitors' = [monitors EXCEPT ![e] = @ + 1]
        /\ enrolled' = enrolled \cup {e}
        /\ left' = left \ {e}

\* Deliberately wrong variant: only the first runner of a service is added.
RegisterServiceOfFirst(s, id, r) ==
    LET new == spawned + 1
        e   == [service |-> s, id |-> id, runner |-> r]
    IN  /\ IF IsRegistered(s)
           THEN UNCHANGED <<registered, spawned, managerOf, box>>
           ELSE /\ spawned' = new
                /\ registered' = [registered EXCEPT ![s] = new]
                /\ managerOf' = [managerOf EXCEPT ![new] = s]
                /\ SendToManager(new, [type |-> "add", id |-> id, runner |-> r])
        /\ serviceIds' = serviceIds \cup {id}
        /\ monitors' = [monitors EXCEPT ![e] = @ + 1]
        /\ enrolled' = enrolled \cup {e}
        /\ left' = left \ {e}

\* Deliberately wrong variant: a service that exists gets no monitor.
RegisterServiceUnmonitored(s, id, r) ==
    LET new == spawned + 1
        m   == IF IsRegistered(s) THEN registered[s] ELSE new
        e   == [service |-> s, id |-> id, runner |-> r]
    IN  /\ IF IsRegistered(s)
           THEN UNCHANGED <<registered, spawned, managerOf, monitors>>
           ELSE /\ spawned' = new
                /\ registered' = [registered EXCEPT ![s] = new]
                /\ managerOf' = [managerOf EXCEPT ![new] = s]
                /\ monitors' = [monitors EXCEPT ![e] = @ + 1]
        /\ SendToManager(m, [type |-> "add", id |-> id, runner |-> r])
        /\ serviceIds' = serviceIds \cup {id}
        /\ enrolled' = enrolled \cup {e}
        /\ left' = left \ {e}

\* register_service and spawn_hb_monitor: the addition goes to the manager of
\* the service, which is spawned if there is none.
RegisterService(s, id, r) ==
    LET new == spawned + 1
        m   == IF IsRegistered(s) THEN registered[s] ELSE new
        e   == [service |-> s, id |-> id, runner |-> r]
    IN  /\ IF IsRegistered(s)
           THEN UNCHANGED <<registered, spawned, managerOf>>
           ELSE /\ spawned < MaxRegistrations
                /\ spawned' = new
                /\ registered' = [registered EXCEPT ![s] = new]
                /\ managerOf' = [managerOf EXCEPT ![new] = s]
        /\ SendToManager(m, [type |-> "add", id |-> id, runner |-> r])
        /\ serviceIds' = serviceIds \cup {id}
        /\ monitors' = [monitors EXCEPT ![e] = @ + 1]
        /\ enrolled' = enrolled \cup {e}
        /\ left' = left \ {e}

\* Deliberately wrong variant: the id is drawn once and not looked up.
HandleRegisterUnchecked ==
    /\ Receives("register")
    /\ inbox' = Tail(inbox)
    /\ \E id \in Ids : RegisterService(Head(inbox).service, id, Head(inbox).runner)
    /\ UNCHANGED <<idsAndActors, current, environment, asked, answer, crashed, chosen,
                   promised, causes>>

\* Deliberately wrong variant: create_unique_id reserves the string instead of
\* resizing it, so std::generate fills nothing and every id is empty.
HandleRegisterReserved ==
    /\ Receives("register")
    /\ inbox' = Tail(inbox)
    /\ RegisterService(Head(inbox).service, NoId, Head(inbox).runner)
    /\ UNCHANGED <<idsAndActors, current, environment, asked, answer, crashed, chosen,
                   promised, causes>>

\* The register handlers without an id: create_unique_id draws until the id is
\* not in serviceIds.
HandleRegister ==
    /\ Receives("register")
    /\ inbox' = Tail(inbox)
    /\ \E id \in Ids \ serviceIds :
          RegisterService(Head(inbox).service, id, Head(inbox).runner)
    /\ UNCHANGED <<idsAndActors, current, environment, asked, answer, crashed, chosen,
                   promised, causes>>

\* The register handler with an id: nothing asks whether the id is in use.
HandleRegisterAs ==
    /\ Receives("registerAs")
    /\ inbox' = Tail(inbox)
    /\ RegisterService(Head(inbox).service, Head(inbox).id, Head(inbox).runner)
    /\ chosen' = chosen \cup {Head(inbox).id}
    /\ UNCHANGED <<idsAndActors, current, environment, asked, answer, crashed, promised,
                   causes>>

HandleUnregister ==
    LET s  == Head(inbox).service
        id == Head(inbox).id
    IN  /\ Receives("unregister")
        /\ inbox' = Tail(inbox)
        /\ IF IsRegistered(s)
           THEN SendToManager(registered[s], [type |-> "remove", id |-> id])
           ELSE UNCHANGED box
        /\ left' = left \cup {e \in enrolled : e.service = s /\ e.id = id}
        /\ UNCHANGED <<registry, idsAndActors, current, monitors, environment,
                       asked, answer, crashed, enrolled, chosen, promised, causes>>

\* Every manager is told, also those that never had the id.
HandleUnregisterAll ==
    LET id   == Head(inbox).id
        told == {registered[s] : s \in {t \in Services : IsRegistered(t)}}
    IN  /\ Receives("unregisterAll")
        /\ inbox' = Tail(inbox)
        /\ box' = [m \in Managers |-> IF m \in told
                                       THEN Append(box[m], [type |-> "remove", id |-> id])
                                       ELSE box[m]]
        /\ left' = left \cup {e \in enrolled : e.id = id}
        /\ UNCHANGED <<registry, idsAndActors, current, monitors, environment,
                       asked, answer, crashed, enrolled, chosen, promised, causes>>

\* A manager that lists somebody, or is about to.
HasRunners(m) ==
    \/ idsAndActors[m] # <<>>
    \/ \E i \in DOMAIN box[m] : box[m][i].type = "add"

\* remove_atom: the manager is erased and then sent an exit message through
\* the erased map element, so the message is sent or lost ...
HandleRemove ==
    LET s == Head(inbox).service
    IN  /\ Receives("remove")
        /\ inbox' = Tail(inbox)
        /\ IF IsRegistered(s)
           THEN /\ registered' = [registered EXCEPT ![s] = NoManager]
                /\ \/ SendToManager(registered[s], [type |-> "exit"])
                   \/ UNCHANGED box
                /\ causes' = causes \cup
                      {c \in {"overtaken"} : HasRunners(registered[s])}
           ELSE UNCHANGED <<registered, box, causes>>
        /\ UNCHANGED <<serviceIds, spawned, managerOf, idsAndActors, current, monitors,
                       environment, asked, answer, crashed, enrolled, chosen, promised, left>>

\* ... or the process does not survive it.
HandleRemoveCrashes ==
    /\ Receives("remove") /\ IsRegistered(Head(inbox).service)
    /\ crashed' = TRUE
    /\ UNCHANGED <<inbox, registry, managers, monitors, environment, asked, answer, history>>

\* find_service: the request is delegated to the manager of the service.
HandleFind ==
    LET s == Head(inbox).service
        c == Head(inbox).client
    IN  /\ Receives("find")
        /\ inbox' = Tail(inbox)
        /\ IF IsRegistered(s)
           THEN /\ SendToManager(registered[s], [type |-> "find", client |-> c])
                /\ UNCHANGED answer
           ELSE /\ answer' = [answer EXCEPT ![c] = ServiceNotFound]
                /\ UNCHANGED box
        /\ promised' = promised \cup
              {d \in {c} : \E e \in enrolled \ left : e.service = s}
        /\ UNCHANGED <<registry, idsAndActors, current, monitors, environment,
                       asked, crashed, enrolled, chosen, left, causes>>

\* The exit handler runs clear() and does NOT end the actor.  clear() erases
\* the map while it iterates over it: which managers are sent an exit message
\* is undefined ...
HandleExit ==
    LET listed == {registered[s] : s \in {t \in Services : IsRegistered(t)}}
    IN  /\ Receives("exit")
        /\ inbox' = Tail(inbox)
        /\ \E told \in SUBSET listed :
              box' = [m \in Managers |-> IF m \in told
                                         THEN Append(box[m], [type |-> "exit"])
                                         ELSE box[m]]
        /\ registered' = [s \in Services |-> NoManager]
        /\ serviceIds' = {}
        /\ causes' = causes \cup {"cleared"}
        /\ UNCHANGED <<spawned, managerOf, idsAndActors, current, monitors, environment,
                       asked, answer, crashed, enrolled, chosen, promised, left>>

\* ... and so is whether the process survives.
HandleExitCrashes ==
    /\ Receives("exit") /\ \E s \in Services : IsRegistered(s)
    /\ crashed' = TRUE
    /\ UNCHANGED <<inbox, registry, managers, monitors, environment, asked, answer, history>>

-----------------------------------------------------------------------------
(***************************************************************************)
(* The handlers of a service manager m (see ServiceManager)                *)
(***************************************************************************)
TakesMessage(m, type) ==
    /\ ManagerReceives(m, type)
    /\ box' = [box EXCEPT ![m] = Tail(@)]

ManagerAdds(m) ==
    LET msg == Head(box[m])
    IN  /\ TakesMessage(m, "add")
        /\ idsAndActors' = [idsAndActors EXCEPT ![m] = EmplaceBack(@, msg.id, msg.runner)]
        /\ UNCHANGED <<inbox, registry, current, monitors, environment, asked, answer,
                       crashed, history>>

\* A manager that became empty asks the registering service to remove it.
ManagerRemoves(m) ==
    LET id == Head(box[m]).id
    IN  /\ TakesMessage(m, "remove")
        /\ \E list \in RemoveOutcomes(idsAndActors[m], id) :
              /\ idsAndActors' = [idsAndActors EXCEPT ![m] = list]
              /\ inbox' = IF list = <<>>
                          THEN Append(inbox, [type |-> "remove", service |-> managerOf[m]])
                          ELSE inbox
        /\ causes' = causes \cup {c \in {"absent"} : ~ Occurs(idsAndActors[m], id)}
        /\ UNCHANGED <<registry, current, monitors, environment, asked, answer, crashed,
                       enrolled, chosen, promised, left>>

ManagerRemoveCrashes(m) ==
    /\ ManagerReceives(m, "remove")
    /\ RemoveMayCrash(idsAndActors[m], Head(box[m]).id)
    /\ crashed' = TRUE
    /\ UNCHANGED <<inbox, registry, managers, monitors, environment, asked, answer, history>>

\* Deliberately wrong variant: an empty manager drops the request.
ManagerAnswersIfAny(m) ==
    LET c    == Head(box[m]).client
        list == idsAndActors[m]
    IN  /\ TakesMessage(m, "find")
        /\ IF list = <<>>
           THEN UNCHANGED <<answer, current>>
           ELSE /\ answer' = [answer EXCEPT ![c] = ElementAtCursor(list, current[m])]
                /\ current' = [current EXCEPT ![m] = Wrapped(list, @) + 1]
        /\ UNCHANGED <<inbox, registry, idsAndActors, monitors, environment, asked,
                       crashed, history>>

ManagerAnswers(m) ==
    LET c    == Head(box[m]).client
        list == idsAndActors[m]
    IN  /\ TakesMessage(m, "find")
        /\ IF list = <<>>
           THEN /\ answer' = [answer EXCEPT ![c] = RuntimeError]
                /\ UNCHANGED current
           ELSE /\ answer' = [answer EXCEPT ![c] = ElementAtCursor(list, current[m])]
                /\ current' = [current EXCEPT ![m] = Wrapped(list, @) + 1]
        /\ UNCHANGED <<inbox, registry, idsAndActors, monitors, environment, asked,
                       crashed, history>>

\* The exit handler of a manager asks for the removal of its SERVICE, which
\* may belong to another manager by then.
ManagerExits(m) ==
    /\ TakesMessage(m, "exit")
    /\ inbox' = Append(inbox, [type |-> "remove", service |-> managerOf[m]])
    /\ UNCHANGED <<registry, idsAndActors, current, monitors, environment, asked, answer,
                   crashed, history>>

-----------------------------------------------------------------------------
RegistryStep ==
    /\ ~ crashed
    /\ \/ HandleRegister
       \/ HandleRegisterAs
       \/ HandleUnregister
       \/ HandleUnregisterAll
       \/ HandleRemove
       \/ HandleRemoveCrashes
       \/ HandleFind
       \/ HandleExit
       \/ HandleExitCrashes

ManagerStep(m) ==
    /\ ~ crashed
    /\ \/ ManagerAdds(m)
       \/ ManagerRemoves(m)
       \/ ManagerRemoveCrashes(m)
       \/ ManagerAnswers(m)
       \/ ManagerExits(m)

MonitorStep(e) == ~ crashed /\ MonitorFires(e)

EnvironmentStep ==
    /\ ~ crashed
    /\ \/ \E r \in Runners, s \in Services : RunnerRegisters(r, s)
       \/ \E r \in Runners, s \in Services, id \in CallerIds : RunnerRegistersAs(r, s, id)
       \/ \E e \in enrolled : RunnerUnregisters(e)
       \/ \E e \in enrolled : RunnerUnregistersAll(e)
       \/ \E r \in Runners : RunnerDies(r)
       \/ \E c \in Clients, s \in Services : ClientAsks(c, s)
       \/ \E e \in Enrolments : MonitorFiresFalsely(e)
       \/ SomebodySendsExit

Next ==
    \/ RegistryStep
    \/ \E m \in Managers : ManagerStep(m)
    \/ \E e \in Enrolments : MonitorStep(e)
    \/ EnvironmentStep

Spec == Init /\ [][Next]_vars

-----------------------------------------------------------------------------
(***************************************************************************)
(* Properties                                                              *)
(***************************************************************************)

TypeOK ==
    /\ inbox \in Seq(RegistryMessages)
    /\ registered \in [Services -> Managers \cup {NoManager}]
    /\ serviceIds \subseteq Ids
    /\ spawned \in 0 .. MaxRegistrations
    /\ managerOf \in [Managers -> Services \cup {NoService}]
    /\ idsAndActors \in [Managers -> Seq(Slots)]
    /\ current \in [Managers -> Nat]
    /\ box \in [Managers -> Seq(ManagerMessages)]
    /\ monitors \in [Enrolments -> Nat]
    /\ alive \subseteq Runners
    /\ asked \in [Clients -> Services \cup {NoService}]
    /\ answer \in [Clients -> Slots \cup {NoAnswer, ServiceNotFound, RuntimeError}]
    /\ crashed \in BOOLEAN
    /\ budget \in [Spending -> Nat]
    /\ enrolled \subseteq Enrolments
    /\ chosen \subseteq Ids
    /\ promised \subseteq Clients
    /\ left \subseteq enrolled
    /\ causes \subseteq {"overtaken", "absent", "cleared"}

\* find_service: whoever is answered registered for the service asked for,
\* under the id it is answered with, whatever removals came in between.
AnswersEnrolled ==
    \A c \in Clients :
       answer[c] \in Entries =>
          [service |-> asked[c], id |-> answer[c].id, runner |-> answer[c].actor] \in enrolled

\* create_unique_id: a manager lists an id twice only if a runner chose it, not
\* even after clear() has forgotten which ids were given out.  (Then a removal
\* may leave several moved-from pairs.)
ListsIdsOnce ==
    \A m \in Managers : \A p, q \in DOMAIN idsAndActors[m] :
       idsAndActors[m][p].id = idsAndActors[m][q].id =>
          p = q \/ idsAndActors[m][p].id \in chosen \cup {NoId}

\* Whoever is listed under a generated id is watched, or its removal is under
\* way: a runner that dies without a word is always going to be forgotten.
Watched(e) ==
    \/ monitors[e] > 0
    \/ \E i \in DOMAIN inbox :
          inbox[i] = [type |-> "unregister", service |-> e.service, id |-> e.id]
    \/ \E i \in DOMAIN box[registered[e.service]] :
          box[registered[e.service]][i] = [type |-> "remove", id |-> e.id]

\* Nothing is on its way: neither messages nor reports of monitors.
Quiet ==
    /\ inbox = <<>>
    /\ \A m \in Managers : box[m] = <<>>

Listed(e) ==
    /\ IsRegistered(e.service)
    /\ \E p \in DOMAIN idsAndActors[registered[e.service]] :
          idsAndActors[registered[e.service]][p] = [id |-> e.id, actor |-> e.runner]

\* spawn_hb_monitor: see Watched.
ListedIsWatched ==
    \A e \in Enrolments : e.id \notin chosen /\ Listed(e) => Watched(e)

\* find_service: a client that asked when a runner was registered for the
\* service is given one, although unregistrations, reports of monitors and
\* other finds are on their way to the same manager - except for the causes
\* below.
FindSucceeds ==
    causes = {} =>
       \A c \in promised : answer[c] \notin {ServiceNotFound, RuntimeError}

\* A runner that registered, lives and was not unregistered can be found,
\* unless one of these happened: a removal hit an id that was not listed, a
\* removal request overtook an addition, or the registering service was told
\* to exit.
InnocentStaysListed ==
    ~ crashed /\ Quiet /\ causes = {} =>
       \A e \in enrolled \ left : e.runner \in alive => Listed(e)

\* README: a runner registers itself to the resource manager.  The same
\* without the exceptions.
RegisteredStaysListed ==
    ~ crashed /\ Quiet =>
       \A e \in enrolled \ left : e.runner \in alive => Listed(e)
=============================================================================
