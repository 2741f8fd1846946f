# Lock Free Grid Engine: TLA+ models and proofs

The grid engine is a set of CAF actors. Runners register with a *registering
service* under a service name; the service keeps one *service manager* per name,
which hands the runners out round robin; a *heartbeat* pair watches every runner;
two *distributors* ask the service for runners and pass tasks to them. This
directory models those actors in TLA+, checks them with TLC on small instances and
proves with TLAPS what matters most of them for every instance.

What is taken from CAF (it is not in this repository, and the models follow how
the code uses it): an actor handles one message at a time, so a handler is one
action; a mailbox is FIFO; a request gets one response, and the first of reply,
error and timeout wins; a request to an actor that is down is answered with an
error; `set_exit_handler` replaces the default of quitting; a response promise
made in a response handler is invalid, and one that is dropped unfulfilled
delivers `sec::broken_promise` (CAF 0.18, whose API the code is written for).

## 1. Inventory

| component | state | operations | what is hard |
|---|---|---|---|
| service manager (`service_manager.cpp`) | vector of (id, actor), cursor `current` | `add_id_to_service` (2), `remove_actor_for_service`, `find_service`, exit handler | the one-iterator `erase(remove_if)`, the cursor after removals, asking the creator for its own removal |
| registering service (`registering_service.cpp`) | map name → manager, set of ids given out | `register_atom` (3), `unregister_atom` (2), `remove_atom`, `find_service`, exit handler with `clear()` | messages that cross: an emptied manager's `remove_atom` against additions on their way; `clear()` that erases what it iterates; monitors that outlive registrations |
| heartbeat (`heartbeat.cpp`) | sender: latest index, misses in a row; receiver: its idle timer | `start_atom`, reply, error; `heartbeat_atom`, `after(timeout)` | late scheduling, late replies, both ends giving up on their own |
| split and aggregate distributor (`split_and_aggregate_distribution.hpp`) | list `tasks_pending` of tasks with results, retries, flags | the task handler, results and errors of finds and runners, retry | continuations keep list iterators, the test for "finished" counts last retries |
| simple distributor (`simple_distribution.hpp`) | only what continuations capture | the task handler, results and errors, retry | the promise of a retry |
| data containers (`data_container.hpp`) | one container each | read, write, contains | a read that inserts the default value; `contains` and what follows are two messages |
| resource manager program (`resource_manager/src/entry.cpp`) | none of its own: requests of a tester that were not answered | `start_atom`, `after` one second, the response handler | the tester waits for no reply before it sends the next task, and has no handler for an error: a failed task ends it, with others on their way |
| client program (`client/entry.cpp`) | a runner's mailbox, its receiver | the task handler, `heartbeat_atom` passed on, exit by the receiver | a runner in a long task, or with heartbeats behind many short ones, looks dead |
| logger, atoms, empty parts | – | – | – |

Interaction: runner → registering service (register, unregister); registering
service → manager (add, remove, delegated find, exit), manager → registering
service (`remove_atom`); registering service → monitor (spawn), monitor →
registering service (unregister after three misses); distributor → registering
service (find) and → runner (task); runner → its receiver (heartbeats passed on).

Properties that make each part correct: managers - rounds are fair, removals
exact, nobody starves; registering service - whoever registered and lives is
found, answers name real registrations, the dead are forgotten, every find is
answered; heartbeat - no false alarm, bounded detection, both ends agree;
distributors - one answer per task, complete and of the task's own results; the
grid as a whole - tasks are neither lost nor doubled, fail only for a reason, and
wait only for a runner that hangs; containers - asking first is enough.

## 2. Modules

| module | models |
|---|---|
| `ServiceList` | the vector of a manager and its operations, pure; used by the next two |
| `ServiceManager`, `MCServiceManager` | one manager under any messages |
| `ServiceList_proofs` | what a removal and the cursor do to any vector; used by the next two and by `Registration_proofs` |
| `ServiceManager_proofs` | the theorems about it |
| `Registration`, `MCRegistration` | registering service, managers, monitors, runners, clients, with mailboxes |
| `Registration_proofs` | the theorems about it |
| `GridRunners` | the runners of the client program with their mailboxes and receivers: extends `Registration` |
| `Grid`, `MCGrid` | the two programs together: extends `GridRunners` and instantiates `SplitAggregate` |
| `Grid_proofs` | the theorems about it: extends `Registration_proofs` and instantiates `SplitAggregate_proofs` |
| `Heartbeat`, `MCHeartbeat` | one sender and one receiver in discrete time |
| `Heartbeat_proofs` | the theorems about it |
| `DataContainer`, `MCDataContainer` | a vector, a set or a map behind its actor, and clients |
| `DataContainer_proofs` | the theorems about it |
| `TaskService` | what a distributor promises, abstractly |
| `SplitAggregate`, `MCSplitAggregate` | the split and aggregate distributor, shown to implement `TaskService` |
| `SimpleDistributor`, `MCSimpleDistributor` | the simple distributor, the same |
| `SplitAggregate_proofs`, `SimpleDistributor_proofs` | the theorems about the two distributors |

Operators named after the line `\* Deliberately wrong variant` are not part of
any specification: each is a plausible bug that one of the properties must catch.

**ServiceList.** Undefined behaviour is a choice: `RemoveOutcomes` are the
vectors a removal can leave, `RemoveMayCrash` says when it may end the process.
`erase(it)` with one iterator takes one element; behind the kept elements
`remove_if` leaves matching elements as they were and moved-from pairs
(`MovedFrom`: empty id, null actor) elsewhere.

**ServiceManager.** `idsAndActors`, `current` as in `service_state`; both
`add_id_to_service` handlers are `AddId`; `requests` counts the `remove_atom`s
the creator has not taken. History: `recent` (positions answered since the
vector changed), `waits` (finds since each listed id was answered).
`RemovesExactly(id)` is about the handler of one request and the id it names: its
element goes, none is left under the id, and the others keep their order.

**Registration.** `inbox` and `box` are the mailboxes. A message is put into its
receiver's mailbox in the step that sends it. `RegisterService` is
`register_service` with `spawn_hb_monitor`; `HandleRegister` includes
`create_unique_id`, whose drawing loop is a choice among the ids that are not in
`serviceIds`. `HandleRemove` and `HandleExit` include the undefined behaviour of
l. 150-151 and 66-71: the exit messages may be lost, or the process may end.
History: `enrolled`, `chosen` (ids that runners chose), `left` (registrations
somebody asked to end), `promised` (clients that asked while a runner was
registered for good), `causes` (which of the three known ways of losing an
innocent runner have occurred). Monitors are abstract here: `MonitorFires` for a
dead runner, a bounded number of `MonitorFiresFalsely` for a busy one; `Heartbeat`
shows how they come about. `budget` bounds what the environment does, one number
for each kind of thing; `Budgets` is the set of budgets a run starts from, so that
one run holds several environments, each with what is interesting together.

**GridRunners.** `tasks` is the mailbox of a runner, and of a dead one until its
requests have come back as errors (`Bounces`, in any order). `busy` are runners in a
task that takes longer than three pulses, which a monitor must give up in the end, as it
does a dead one (`MonitorGivesUp`). It may give up any other runner as well
(`FalseAlarm`, at most as often as the budget has it): the registering service gives a
heartbeat 10 ms (`registering_service.cpp:78`), and it may wait longer behind short
subtasks in the runner's mailbox, or on the link. A receiver ends its runner when no
monitor watches it. `troubles` bounds crashes,
long tasks and runners that end before they are registered. A result is handled in
the step that sends it: one that is long under way is as one that is sent late, but
for a runner that dies in between.

**Grid.** Tester, distributor, registering service and runners as `caf_main` starts
them, with the default arguments of the split and aggregate distributor (the programs
hold a second set-up, with the simple distributor, that is commented out). Nothing
that `SplitAggregate` leaves open (`Fails`, `ResultReceived`) or `Registration` does
(who asks, who is given up) is free any more: the answer of the registering service is
what a find gets, the address in it is where the subtask goes, and what a runner's
death or treatment makes of the subtask is what the distributor hears. `handed` holds
the tasks in the distributor's mailbox: `TesterSends` is the tester's handler, which
waits for no earlier reply, `TaskReceived` the distributor's. The error of a task is on
its way to the tester from `ErrorReceived` on until `TesterEnds`, at any time later or
never; until then the tester may send further tasks. So the next task may be in the
mailbox when one fails, or come after it, and is then pushed to the element that the
failed one has left, with continuations of the failed one still pointing there (an
invariant that denies it is violated after seven steps). The splitter makes the same number of subtasks each time (`MaxPieces`;
1000 in the program), and each is a client of `Registration`. What is in a runner's
mailbox is the request with its continuation, so that a late result finds the
iterator it was sent with. `crashed` is one variable for both actors, which share a
process: a dangling iterator ends the registering service too.

**DataContainer.** `kind` says which of the three actors it is. Clients ask with
`contains` and act on the answer later; `Careless` ones read a map without asking.
A value of a map is the client that wrote it; `writers` is history, the client that
wrote each element of a vector.

**Heartbeat.** Timers count down in `Tick`, which waits for what is due. `MaxLag`
bounds how long the sender leaves a message lying, `MaxDelay` how long a heartbeat
is under way; a receiver may be `punctual` (answers within `Timeout`), die, or be
cut off (connection lost, or the runner that passes heartbeats on hangs).
`currentMessageIndex` is modulo `IndexRange`: it is compared for equality with
the latest only. `timeout` is one of `Timeouts`, up to a pulse: the constructor
asserts less, and `make_behavior` accepts what a build without assertions lets
through. Where the two differ, a property says so.

**SplitAggregate.** A list element is a node at an address; addresses are used
again. A continuation is a request not handled yet, with its iterator (node) and
index. If the node is gone the continuation crashes, has no effect, or works on
the task that took the address. `hasFinishedTheTreatment`, `retryIfNeeded` and
both pairs of continuations are translated with the constructor arguments as
`config`. `overtaxed` records the failures the code is not written for: no retry
is left for a subtask while the task waits for another one as well, or may be
answered without it (and `maxRetryCount = 0` with retries, where nothing has to
be finished). `on_res` is never called by the code and does not appear.

**SimpleDistributor.** What the continuations capture is the request record:
stage, `retryCount`, and whether the promise is valid.

## 3. What is checked

| run | shows | bounds |
|---|---|---|
| `manager` | `RoundRobin`, `NoStarvation`, `FindGivesAnActor`, `RemovalIsExact`, `TypeOK` | 4 ids, vectors up to 4: every cursor, length and order; the wait bound M(M-1) is reached, so it is tight |
| `registration` | `ListsIdsOnce`, `InnocentStaysListed`, `AnswersEnrolled`, `ListedIsWatched`, `FindSucceeds`, `TypeOK` | 2 services, 2 runners, 3 ids, 1 client, 7 budgets of up to 3 registrations, 2 chosen ids, 1 unregistration, 1 false alarm, 1 exit: a manager is emptied, erased and followed by another while messages to both are on their way |
| `grid` | `RequestsAreInOnePlace`, `EveryTaskIsUnderWay`, `NoNeedlessFailure`, `ServesTasks`, `OnlyStuckTasksWait`, `GoneAreForgotten` | 2 runners, one of which may hang, tasks of 2 subtasks, 1 crash or long task; 4 budgets: 1 task with 2 registrations; 1 task with a registration, an unregistration and a false alarm; 2 tasks with 1 registration; 2 tasks with 2 registrations. In the last the tester waits for the runners (it sleeps for 10 s, `entry.cpp:58`) and what goes wrong is that a runner dies with subtasks in its mailbox (`HitByOneDeath`). A subtask fails while the other one is under way and the next task is in the mailbox of the distributor, or sent later, and the address of the failed task is used again. Which id, task and unused address is taken first is fixed in `MCGrid`. 380,243 states |
| `container` | `NoPhantomKeys`, `AddedOncePerClient`, `ScanMissesNothing`, `TypeOK` | 2 clients (1 careless), 2 keys, as many requests as a scan beside two additions takes |
| `heartbeat` | `CountsMisses`, `NoFalseAlarm`, `DetectedInTime`, `EndsOnlyWhenGivenUp`, `GivenUpEnds`, `TypeOK` | pulse 4, timeouts 2 and 4 (as long as a pulse), n 3, receiver 24 (longer than a detection takes), lag 1, delay 4 (longer than a timeout); both time bounds are reached with either timeout, so they are tight |
| `split` | `ImplementsTaskService`, `EveryTaskAnswered`, `IteratorsAreValid`, `OneRequestPerSubtask`, `NothingForgotten`, `TypeOK` | all constructor arguments with limits 0-2, 2 tasks on 2 addresses, up to 2 subtasks, 3 failures: a last retry, a reuse of an address and a failure of the other subtask all happen |
| `simple` | `ImplementsTaskService`, `EveryTaskAnswered`, `NoWorkIsLost`, `TypeOK` | 2 tasks, limits 0-3, 5 failures: more than a task has retries |

Five runs find the code at odds with what the repository says:

| run | what happens |
|---|---|
| `manager_same_id` | an id listed twice is removed once: a moved-from pair stays and `find_service` answers the null actor (`service_manager.cpp:46`) |
| `registration_lost` | a registration handled while the emptied manager's `remove_atom` is in the mailbox goes to a manager that is erased: the runner is lost (`registering_service.cpp:150`) |
| `split_last_retry` | a subtask on its last retry counts as finished: the aggregate lacks its result (`split_and_aggregate_distribution.hpp:96`) |
| `split_dangling` | a failed subtask erases its task under the iterators of the others: a late result lands in another client's task (`:118`) |
| `simple_retry` | a retry answers nobody: the client got `broken_promise` before the runner treated the task (`simple_distribution.hpp:88`) |

`InnocentStaysListed` says that the three causes are the *only* ways in which a
runner that registered, lives and was not unregistered is lost;
`IteratorsAreValid` and `ImplementsTaskService` say the same of `overtaxed`.

`FindSucceeds` says that no find fails either but for them.

**Fairness.** `Grid`: weak fairness of the registering service, of the managers, of
the monitors of runners that are dead or in a long task, of the distributor for its
responses in whatever order, and of each runner that does not hang; CAF schedules
every actor with a message, and a monitor's timer is unconditional. `TaskStep`, the
distributor's handler of a task in its mailbox, is fair as well. The tester, which may
take the error of a task out of its mailbox at any time, registrations, crashes, false
alarms and receivers owe nothing: a receiver may be late for ever, and still every task
that was sent is answered and whoever is gone is forgotten. `Hanging`
runners owe nothing either once they are in a long task; the code sets no timeout
on the request to a runner, so their tasks wait (`OnlyStuckTasksWait` says that
only these do). A task that has taken over the element of a failed one, with iterators
of that one pointing to it, waits no longer than others: a late result or error that
comes through such an iterator finishes the task, fails it or ends the process, or
leaves its own requests under way.
`SplitAggregate` and `SimpleDistributor`: every request is answered in
the end (CAF answers for an actor that dies); a runner that lives and never
answers is outside this assumption, and blocks its task. `Heartbeat` needs no
fairness: its promises carry time bounds and are invariants.

**Deadlock** is checked in `heartbeat`; elsewhere the environment's budgets run
out, all tasks are answered, or undefined behaviour has ended the process.

## 4. What is proved

For one manager, every set of ids and actors and every bound:

* `TypeCorrect` - types, with the lemmas of `ServiceList_proofs` that a removal
  shortens the vector and keeps its elements slots.
* `RoundRobinHolds` - from `RoundShape`: the latest answers are consecutive
  positions modulo the length, ending at the cursor, and there are at most as many
  as elements. `RoundRobin` alone is not inductive: it does not relate the
  answers to the cursor.
* `NoStarvationHolds`, `FindGivesAnActorHolds`, `RemovalIsExactHolds` - assuming
  `UniqueIds`, from `UniqueInv`: the vector holds entries with pairwise different
  ids, and for each listed runner the finds it has waited plus a potential stay
  within the bound. The potential counts how many finds the cursor is away from
  the runner, plus a round for each element that can still be removed in front of
  it; a find lowers it by one, an addition behind does not raise it.

For any number of services, runners, clients, ids and registrations, and for every
environment (the budgets bound nothing in the proofs):

* `TypesHold` - from `Spawned`: a service is with a manager that was spawned for it,
  and a manager that is not spawned yet has neither runners nor messages.
* `AnswersAreEnrolled` - from `Traced`: what a manager lists, and every addition in
  its mailbox, was enrolled for *its* service, and every find in a mailbox was asked
  for that service. `AnswersEnrolled` alone says nothing of the mailboxes.
* `IdsListedOnce` - from `Once`: an id that no runner chose is in a list and the
  additions of one mailbox together at most once; a manager that is registered knows
  only ids that were given out. The second part is what survives `clear()`, which
  forgets the ids and the managers in one handler.
* `ListedAreWatched` - from `Covered`: for each enrolment that is listed or added by a
  message, a monitor watches, an unregistration is in the inbox, or a removal is in
  the mailbox *behind* the addition.
* `InnocentsStayListed`, `FindsSucceed` - from `Keeping`, which holds until one of the
  three causes is met: whoever registered and was not unregistered is kept by the
  registered manager once its mailbox is handled (`KeptAt`: listed, or added by a
  message, and no removal of it behind), and when a promised request is handled
  somebody is kept up to there (`HoldsBefore`). A removal keeps every element with
  another id if its own id is listed, and takes an innocent one if it is not, which
  is the cause "absent" (`RemoveKeeps`). A manager that keeps somebody is forgotten
  only with the cause "overtaken" or "cleared". `Single` adds that a client has one
  request, in one place, so that an answer is not replaced by an error.

For every pulse, timeout, lag, delay and limit:

* `HeartbeatTypeCorrect` - types, and at most one request outstanding when the
  timeout is less than a pulse. The strengthening (`TypeInv`) relates the three
  places a pulse can be in: the timer, a start message, the handler (`OneStart`),
  and says that a request's timer runs out before the next pulse (`DueFirst`).
* `NoFalseAlarmHolds` - from `AllWell`: while a punctual receiver is up, no error is
  under way and each outstanding request has a heartbeat that is younger than its
  timer.
* `CountsMissesHolds` - from `Tally`: with a timeout less than a pulse, the replies
  in the mailbox and the requests outstanding carry the current index, and no reply
  is behind a start message, so every reply that is handled resets the counter.

The three bounds on time rest on `Shape`: with a timeout less than a pulse the
mailbox holds at most the answer to the latest heartbeat and one start message
behind it, so the sender is late by two messages at most. `SenderSteps` says what
that leaves of each step.

* `DetectedInTimeHolds` - while the receiver is away `Ahead`, the time left until N
  misses in a row are counted, never grows and loses one in every tick. Proved for a
  timeout less than a pulse, which the constructor asserts; a timeout of a pulse is
  model-checked.
* `GivenUpEndsHolds` - for every timeout: what is under way when the sender gives up
  is a timeout old (`Ages`, `Reported`), and the receiver's timer runs for that long
  or will once it arrives (`Expecting`, `Quits`).
* `EndsOnlyWhenGivenUpHolds` - under the assumption `Patient`, that the receiver's
  timeout exceeds a turn of the sender and the delay of a heartbeat: its timer lasts
  until the next heartbeat, under way or yet to be sent (`Heard`). Nothing in the
  program checks it: the client program gives its receivers 2 s or 10 s
  (`client/entry.cpp:17,55,99`), the registering service its monitors a pulse of
  100 ms, a timeout of 10 ms and 3 misses (`registering_service.cpp:78`).

For every number of tasks, subtasks, list elements and failures and every
constructor argument:

* `SplitAggregateImplements`, `SimpleDistributorImplements` - both distributors
  implement `TaskService`, by a simulation under the identity on `pieces`, `hurt`,
  `answer` and `overtaxed`.
* `IteratorsAreValidHolds`, `OneRequestPerSubtaskHolds`, `SplitAggregateTypeCorrect`,
  `NothingForgottenHolds`. The inductive invariant has two parts. `Bookkeeping` holds
  whatever happens: a task is at one address at most, with as many subtasks as it
  was split into, while its client has no answer. `InOrder` holds until a failure
  overtaxes the distributor: each request is the only one for its subtask, its
  iterator is valid and the subtask has no result (`IsInOrder`), and a subtask
  without a result has a retry left *unless it is the only one without*
  (`NodeInOrder`). The last clause is what makes `hasFinishedTheTreatment` right:
  it counts a last retry as finished, which is harmless exactly as long as nothing
  else of the task is missing. `NothingForgotten` is inductive with the types.
* `NoWorkIsLostHolds`, `SimpleDistributorTypeCorrect` - from the invariant that a
  valid promise belongs to a client without an answer, that only a retry leaves an
  invalid one, and that a treated task is not asked for any more.

For any number of clients, keys and requests (`DataContainer_proofs`), from one
inductive invariant `Inv`:

* `TypeCorrect`, and `NoPhantoms` - what a client was told is contained stays
  contained (`KnownAreContained`), and a read under way is of such a key or of one
  marked as unasked (`ReadsAreOfKnown`), so it inserts nothing else.
* `NoneAddsTwice` - `EachOfAnother`: an element and the client that added it are a pair
  once, in the vector or on the way there (`InVectorOnce`, `OnTheWayOnce`, `NotBoth`).
  What keeps it so is that a client that has sent or added a key is not told again that
  the key is absent: the vector contains it (`WrittenIsKept`), or its write is in the
  mailbox in front of whatever the client asks about it (`WritesArePending`).
* `ScansAreComplete` - `NothingSkipped`: what was contained when a client read index
  0 was seen by it or is at the next index or behind. An insertion into a set moves
  elements to higher indices only, so an index may be read twice and none is
  skipped; `ReadsAreInOrder` says that the read under way is of the next index.

For any number of runners, tasks, subtasks, addresses and registrations
(`Grid_proofs`), with the distributor as `caf_main` configures it, from the inductive
invariant `GridInv`. It is put together from the invariants of the parts, which hold
beside each other for these reasons:

* Every step of the grid is a step of `Registration`, a burst of finds, or leaves
  the registering service alone (`GridSteps`); and a step of `SplitAggregate`, or
  leaves the distributor alone (`DistributorSteps`). The invariants of the
  registering service survive a burst since the subtasks of a task are clients that
  have asked for nothing before (`AskedWithTask`). `IInv` of the distributor is
  claimed only while the process lives: an erasure in the registering service can
  end it.
* `RequestsAreInOnePlaceHolds` - `FindsInOnePlace`: a find that is not answered is at
  exactly one position of one mailbox, an answered one at none; `RunsInOnePlace`:
  the positions of a subtask in the mailboxes of the runners are as many as the
  distributor awaits. A request that is taken out, from the front or, when its
  runner is dead, from anywhere, moves the ones behind it, which is a bijection
  between positions (`HeldAfterTaking`).
* `EveryTaskIsUnderWayHolds` - from `Waits`: a task is erased only together with an
  answer and finished as soon as nothing is missing (`Pends`, a lemma about
  `SplitAggregate`), no missing subtask is forgotten (`NothingForgotten`), and
  whoever awaits a runner has asked for one (`FindersAsked`), so by the previous
  point each request is with somebody. It holds overtaxed or not, and is the safety
  half of `OnlyStuckTasksWait`: the liveness only needs that whoever has a request
  handles it.
* `NoNeedlessFailureHolds` - `Unharmed`: no request has failed, or there is a `Reason`
  (a runner that was answered has died, a find failed that no registration promised
  to serve, or one of the three causes was met), and only runners that somebody was
  answered have subtasks (`RunsAnswered`). A reason stays one (`ReasonStays`): causes
  stay, nobody returns from the dead, no answer is replaced and no client is promised a
  runner after its answer (`GridRemembers`). Monitors, receivers and managers appear
  nowhere in it: whom they drop keeps its subtasks as long as it lives.
* `GridServesTasks` - the grid implements `TaskService` under the identity on
  `pieces`, `hurt`, `reply` and `overtaxed`, by `DistributorSteps` and the simulation
  proved for `SplitAggregate`.
* `GridAnswersEnrolled`, `GridFindsSucceed`, `GridListedAreWatched` and
  `GridInnocentsStayListed` - what is proved of the registering service with clients
  that ask once and runners that do nothing but register holds in the grid as well.

Assumed in these proofs are the named assumptions on the constants: marker values
(`Free`, `NotAsked`, ...) are none of the values they stand beside, and bounds are
natural numbers.

`GridAssumption` adds that the splitter makes at least one subtask and that the
bound on failures is at least the number of requests, each of which fails at most once,
so it bounds nothing.

Only model-checked: `DetectedInTime` with a timeout of a pulse, and liveness, which
is out of TLAPS's reach: `EveryTaskAnswered` of both distributors,
`OnlyStuckTasksWait` and `GoneAreForgotten` of the grid (their safety halves,
`NothingForgotten`, `NoWorkIsLost`, `EveryTaskIsUnderWay` and `ListedIsWatched`, are
proved).

## 5. Not modelled

The logger (nothing reads it), declarations, configuration and publishing of the
group (I/O), the computations of the test runners, test actors that nothing spawns
or whose spawning is commented out (the tester of the simple distributor among
them), the empty auto allocator and console. Not visible in the models: the data
race of a monitor's callback inside CAF (`registering_service.cpp:80`), exceptions
from splitter or aggregation functions, an actor address that expired before it
was registered.

## 6. Plan

Done, all with proofs: service manager and registering service, heartbeat, data
containers, both distributors against `TaskService`, and the grid as the programs put
it together. What remains: the bound of `DetectedInTime` for a timeout of a pulse,
to be proved; monitors in time beside the registering service, where a monitor
outlives its registration (`registering_service.cpp:80`).
