--------------------------- MODULE ServiceManager ---------------------------
(***************************************************************************)
(* One service_manager actor (service_manager.cpp): the runners registered *)
(* for one service, handed out round robin.  CAF runs one handler at a     *)
(* time, so a handler is one action; the environment sends the messages in *)
(* any order, removals of ids that are not listed included.  Of the        *)
(* registering service that created the manager only the mailbox is seen,  *)
(* as the number of remove_atoms it still has to take.                     *)
(***************************************************************************)
EXTENDS ServiceList

CONSTANTS MaxEntries,      \* bound on the length of the vector
          MaxRequests,     \* bound on the remove_atoms not yet taken
          UniqueIds,       \* no id is added while it is listed
          NoAnswer,        \* nothing was asked yet
          RuntimeError     \* sec::runtime_error

ASSUME ServiceManagerAssumption ==
    /\ MaxEntries \in Nat
    /\ MaxRequests \in Nat
    /\ UniqueIds \in BOOLEAN
    /\ NoAnswer \notin Slots
    /\ RuntimeError \notin Slots

VARIABLES idsAndActors,   \* service_state::idsAndActors
          current,        \* service_state::current
          requests,       \* remove_atoms sent to creator and not yet taken
          crashed,        \* undefined behaviour has ended the process
          answer,         \* the answer to the last find_service
          recent,         \* history: positions answered since the vector changed
          waits           \* history: finds since a listed id was answered

vars == <<idsAndActors, current, requests, crashed, answer, recent, waits>>

-----------------------------------------------------------------------------
Init ==
    /\ idsAndActors = <<>>
    /\ current = 0
    /\ requests = 0
    /\ crashed = FALSE
    /\ answer = NoAnswer
    /\ recent = <<>>
    /\ waits = [id \in Ids |-> 0]

\* The vector changed: a new round begins, and an unlisted id waits no more.
NewRound ==
    /\ recent' = <<>>
    /\ waits' = [id \in Ids |-> IF Occurs(idsAndActors', id) THEN waits[id] ELSE 0]

\* Deliberately wrong variant: an addition takes the cursor back to the start.
AddIdAndRestart(id, actor) ==
    /\ UniqueIds => ~ Occurs(idsAndActors, id)
    /\ Len(idsAndActors) < MaxEntries
    /\ idsAndActors' = EmplaceBack(idsAndActors, id, actor)
    /\ current' = 0
    /\ UNCHANGED <<requests, crashed, answer>>
    /\ NewRound

\* Both add_id_to_service handlers: they differ in how the actor is named.
AddId(id, actor) ==
    /\ UniqueIds => ~ Occurs(idsAndActors, id)
    /\ Len(idsAndActors) < MaxEntries
    /\ idsAndActors' = EmplaceBack(idsAndActors, id, actor)
    /\ UNCHANGED <<current, requests, crashed, answer>>
    /\ NewRound

RemoveActor(id) ==
    /\ requests < MaxRequests
    /\ \E list \in RemoveOutcomes(idsAndActors, id) :
          /\ idsAndActors' = list
          /\ requests' = IF list = <<>> THEN requests + 1 ELSE requests
    /\ UNCHANGED <<current, crashed, answer>>
    /\ NewRound

RemoveActorCrashes(id) ==
    /\ RemoveMayCrash(idsAndActors, id)
    /\ crashed' = TRUE
    /\ UNCHANGED <<idsAndActors, current, requests, answer, recent, waits>>

FindOnEmpty ==
    /\ idsAndActors = <<>>
    /\ answer' = RuntimeError
    /\ UNCHANGED <<idsAndActors, current, requests, crashed, recent, waits>>

\* s, cut to its last n elements: the latest round.
LastOnes(s, n) == IF Len(s) > n THEN Tail(s) ELSE s

\* Deliberately wrong variant: the index is wrapped but not written back, and
\* the cursor is incremented from where it was.
FindServiceUnsaved ==
    LET position == Wrapped(idsAndActors, current) + 1
        found    == ElementAtCursor(idsAndActors, current)
    IN  /\ idsAndActors # <<>>
        /\ answer' = found
        /\ current' = current + 1
        /\ recent' = LastOnes(Append(recent, position), Len(idsAndActors))
        /\ waits' = [id \in Ids |->
                       IF id = found.id \/ ~ Occurs(idsAndActors, id)
                       THEN 0 ELSE waits[id] + 1]
        /\ UNCHANGED <<idsAndActors, requests, crashed>>

FindService ==
    LET position == Wrapped(idsAndActors, current) + 1
        found    == ElementAtCursor(idsAndActors, current)
    IN  /\ idsAndActors # <<>>
        /\ answer' = found
        /\ current' = position
        /\ recent' = LastOnes(Append(recent, position), Len(idsAndActors))
        /\ waits' = [id \in Ids |->
                       IF id = found.id \/ ~ Occurs(idsAndActors, id)
                       THEN 0 ELSE waits[id] + 1]
        /\ UNCHANGED <<idsAndActors, requests, crashed>>

\* The exit handler reports to the creator; it does NOT end the actor.
ExitHandler ==
    /\ requests < MaxRequests
    /\ requests' = requests + 1
    /\ UNCHANGED <<idsAndActors, current, crashed, answer, recent, waits>>

\* The creator takes a remove_atom out of its mailbox.
CreatorReceives ==
    /\ requests > 0
    /\ requests' = requests - 1
    /\ UNCHANGED <<idsAndActors, current, crashed, answer, recent, waits>>

Next ==
    /\ ~ crashed
    /\ \/ \E id \in Ids, actor \in Actors : AddId(id, actor)
       \/ \E id \in Ids : RemoveActor(id)
       \/ \E id \in Ids : RemoveActorCrashes(id)
       \/ FindOnEmpty
       \/ FindService
       \/ ExitHandler
       \/ CreatorReceives

Spec == Init /\ [][Next]_vars

-----------------------------------------------------------------------------
(***************************************************************************)
(* Properties                                                              *)
(***************************************************************************)

\* The type invariant of the manager's state and of the history variables.
TypeOK ==
    /\ idsAndActors \in Seq(Slots)
    /\ Len(idsAndActors) <= MaxEntries
    /\ current \in 0 .. MaxEntries
    /\ requests \in 0 .. MaxRequests
    /\ crashed \in BOOLEAN
    /\ answer \in Slots \cup {NoAnswer, RuntimeError}
    /\ recent \in Seq(1 .. MaxEntries)
    /\ Len(recent) <= Len(idsAndActors)
    /\ waits \in [Ids -> Nat]

\* Load balancing (find_service): as long as the vector does not change, no
\* position is answered twice within one round, wherever the cursor was left
\* by the additions and removals before it.
RoundRobin == \A i, j \in DOMAIN recent : recent[i] = recent[j] => i = j

\* Load balancing under churn: the cursor is not adjusted when an earlier
\* element is removed, so a listed runner can be skipped, but never for longer
\* than MaxEntries - 1 whole rounds, whatever is added and removed meanwhile.
WaitBound == MaxEntries * (MaxEntries - 1)
NoStarvation == \A id \in Ids : waits[id] <= WaitBound

\* With ids listed at most once, find_service answers a real runner and never
\* the moved-from pair that a removal can leave in the vector.
FindGivesAnActor == answer # MovedFrom

\* With ids listed at most once, remove_actor_for_service for a listed id takes
\* the element of that id out and no other, leaves none under the id, and keeps
\* the rest in order.  Of an unlisted id nothing is promised: that is the
\* erase(end()) of RemoveOutcomes.
RemovesExactly(id) ==
    RemoveActor(id) /\ Occurs(idsAndActors, id) =>
       \E p \in DOMAIN idsAndActors :
          /\ idsAndActors[p].id = id
          /\ idsAndActors' = RemoveAt(idsAndActors, p)
          /\ ~ Occurs(idsAndActors', id)

RemovalIsExact == [][\A id \in Ids : RemovesExactly(id)]_vars
=============================================================================
