---------------------------- MODULE ServiceList ----------------------------
(***************************************************************************)
(* The vector of (id, actor) pairs that a service_manager keeps            *)
(* (service_manager.hpp, struct service_state) and the operations its      *)
(* handlers make on it.  The operations are pure: the manager on its own   *)
(* (ServiceManager) and the managers living beside the registering service *)
(* (Registration) are both built from them.                                *)
(*                                                                         *)
(* Positions are 1-based here; current keeps the 0-based value of the code.*)
(***************************************************************************)
EXTENDS Naturals, FiniteSets, SequencesExt

CONSTANTS Ids,      \* service ids a runner can be registered under
          Actors,   \* actors that can be registered
          NoId,     \* the empty string a moved-from id is left with
          NoActor   \* the null handle a moved-from actor is left with

ASSUME ServiceListAssumption ==
    /\ NoId \notin Ids
    /\ NoActor \notin Actors

Entries == [id : Ids, actor : Actors]

\* What std::move leaves behind in a pair<string, caf::actor>.
MovedFrom == [id |-> NoId, actor |-> NoActor]

Slots == Entries \cup {MovedFrom}

Occurs(s, id) == \E p \in DOMAIN s : s[p].id = id

EmplaceBack(s, id, actor) == Append(s, [id |-> id, actor |-> actor])

-----------------------------------------------------------------------------
(***************************************************************************)
(* erase(remove_if(begin, end, id matches)), with the ONE-iterator erase.  *)
(*                                                                         *)
(* remove_if moves the kept elements to the front in their order; behind   *)
(* them a position holds its old element if that matched, and a moved-from *)
(* pair otherwise.  The erase then deletes one element only, the first one *)
(* behind the kept ones: after k matches k-1 of the leftovers stay.  With  *)
(* no match it is erase(end()), which is undefined: the standard library   *)
(* drops the last element, a checked one aborts, and on an empty vector    *)
(* nothing usable is left.                                                 *)
(***************************************************************************)
KeptPositions(s, id) == {p \in DOMAIN s : s[p].id # id}

\* The enumeration of the kept positions in increasing order (a singleton).
KeptOrders(s, id) ==
    LET kept == KeptPositions(s, id)
    IN  {at \in [1 .. Cardinality(kept) -> kept] :
            \A i, j \in 1 .. Cardinality(kept) : i < j => at[i] < at[j]}

\* Deliberately wrong variant: the ids are moved, the actors stay.
AfterRemoveIfOfIds(s, id, at) ==
    [p \in DOMAIN s |-> IF p \in DOMAIN at THEN [id |-> s[at[p]].id, actor |-> s[p].actor]
                        ELSE s[p]]

AfterRemoveIf(s, id, at) ==
    [p \in DOMAIN s |-> IF p \in DOMAIN at   THEN s[at[p]]
                        ELSE IF s[p].id = id THEN s[p]
                        ELSE MovedFrom]

\* Deliberately wrong variant of the removal: the last element is moved into
\* the hole, so the vector does not keep its order.
RemoveBySwapping(s, id) ==
    {SubSeq([s EXCEPT ![p] = s[Len(s)]], 1, Len(s) - 1) :
        p \in {q \in DOMAIN s : s[q].id = id}}

\* Deliberately wrong variant of the removal: remove_if without the erase.
RemoveWithoutErase(s, id) == {AfterRemoveIf(s, id, at) : at \in KeptOrders(s, id)}

\* The vectors the removal of id can leave when the process survives it.
RemoveOutcomes(s, id) ==
    IF Occurs(s, id)
    THEN {RemoveAt(AfterRemoveIf(s, id, at), Cardinality(KeptPositions(s, id)) + 1) :
             at \in KeptOrders(s, id)}
    ELSE {t \in {SubSeq(s, 1, Len(s) - 1)} : s # <<>>}

\* The removal may also end the process.
RemoveMayCrash(s, id) == ~ Occurs(s, id)

-----------------------------------------------------------------------------
\* Deliberately wrong variant: the cursor stays on the last element.
Clamped(s, current) == IF current >= Len(s) THEN Len(s) - 1 ELSE current

\* The cursor of the round robin, brought back into the vector.
Wrapped(s, current) == IF current >= Len(s) THEN 0 ELSE current

\* The element that find answers on a non-empty vector.
ElementAtCursor(s, current) == s[Wrapped(s, current) + 1]
=============================================================================
