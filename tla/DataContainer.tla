--------------------------- MODULE DataContainer ---------------------------
(***************************************************************************)
(* The data container actors (data_container.hpp): a vector, an ordered set*)
(* and a map behind one mailbox, each with read, write and contains.       *)
(*                                                                         *)
(* Nothing in the programs spawns one, so the clients here are the ones the*)
(* comments of the code have in mind: they ask with contains before they   *)
(* act, and somebody else acts in between.                                 *)
(***************************************************************************)
EXTENDS Naturals, FiniteSets, SequencesExt

CONSTANTS Clients,
          Careless,       \* clients that read a map without asking first
          Keys,           \* elements of a vector or a set, keys of a map
          defaultValue,   \* which nobody writes
          MaxRequests     \* bound on the requests

ASSUME DataContainerAssumption ==
    /\ IsFiniteSet(Clients)
    /\ Careless \subseteq Clients
    /\ Keys \subseteq Nat
    /\ defaultValue \notin Keys \cup Clients
    /\ MaxRequests \in Nat

VARIABLES kind,      \* which of the actors it is: "vector", "set" or "map"
          state,     \* a sequence of elements, or the value of each key
          mailbox,
          requests,  \* what is left of MaxRequests
          waiting,   \* clients that wait for an answer
          known,     \* keys that each client was told are contained
          absent,    \* keys that each client was told are not
          seen,      \* what each client has read, index by index
          writers,   \* history: the writer of each element of a vector
          atStart,   \* history: what was contained when a client began to do so
          unasked    \* history: keys that were read without asking

clients == <<waiting, known, absent, seen, atStart>>
vars == <<kind, state, writers, mailbox, requests, clients, unasked>>

\* The value of a key is abstracted to the client who wrote it.
Maps == UNION {[K -> Clients \cup {defaultValue}] : K \in SUBSET Keys}

Messages ==
         [type : {"contains", "write", "readKey"}, client : Clients, key : Keys]
    \cup [type : {"readIndex"}, client : Clients, index : Nat]

Init ==
    /\ kind \in {"vector", "set", "map"}
    /\ state = <<>>
    /\ writers = <<>>
    /\ mailbox = <<>>
    /\ requests = MaxRequests
    /\ waiting = {}
    /\ known = [c \in Clients |-> {}]
    /\ absent = [c \in Clients |-> {}]
    /\ seen = [c \in Clients |-> <<>>]
    /\ atStart = [c \in Clients |-> {}]
    /\ unasked = {}

-----------------------------------------------------------------------------
(***************************************************************************)
(* The handlers                                                            *)
(***************************************************************************)
Receives(type) == mailbox # <<>> /\ Head(mailbox).type = type /\ mailbox' = Tail(mailbox)

\* Deliberately wrong variants: every key is contained, or only the first one.
EverythingContained == Keys
FirstContained == IF kind = "map" \/ state = <<>> THEN DOMAIN state ELSE {Head(state)}

Contained == IF kind = "map" THEN DOMAIN state ELSE ToSet(state)

HandleContains ==
    LET c == Head(mailbox).client
        k == Head(mailbox).key
    IN  /\ Receives("contains")
        /\ IF k \in Contained
           THEN known' = [known EXCEPT ![c] = @ \cup {k}] /\ UNCHANGED absent
           ELSE absent' = [absent EXCEPT ![c] = @ \cup {k}] /\ UNCHANGED known
        /\ waiting' = waiting \ {c}
        /\ UNCHANGED <<kind, state, writers, requests, seen, atStart, unasked>>

\* The map with k inserted, or its value overwritten.
Assigned(k, value) == [j \in DOMAIN state \cup {k} |-> IF j = k THEN value ELSE state[j]]

\* insert of a set leaves an element alone that is there, and operator[] of a
\* map overwrites a value.
Written(k, c) ==
    CASE kind = "map" -> Assigned(k, c)
      [] kind = "vector" -> Append(state, k)
      [] kind = "set" ->
            IF k \in ToSet(state) THEN state
            ELSE InsertAt(state, 1 + Cardinality({i \in DOMAIN state : state[i] < k}), k)

HandleWrite ==
    /\ Receives("write")
    /\ state' = Written(Head(mailbox).key, Head(mailbox).client)
    /\ writers' = IF kind = "vector" THEN Append(writers, Head(mailbox).client) ELSE writers
    /\ UNCHANGED <<kind, requests, clients, unasked>>

\* A key that is not there is inserted with the default value.
HandleReadKey ==
    LET k == Head(mailbox).key
    IN  /\ Receives("readKey")
        /\ state' = IF k \in DOMAIN state THEN state ELSE Assigned(k, defaultValue)
        /\ waiting' = waiting \ {Head(mailbox).client}
        /\ UNCHANGED <<kind, writers, requests, known, absent, seen, atStart, unasked>>

\* Deliberately wrong variant: the last element is out of range.
WithinShort(index) == Len(state) > index + 1

Within(index) == Len(state) > index

\* Deliberately wrong variant: as the read of a map does, an index that is out of
\* range is made: the vector is resized to hold it.
HandleReadIndexResizing ==
    LET c == Head(mailbox).client
        i == Head(mailbox).index
    IN  /\ Receives("readIndex")
        /\ seen' = [seen EXCEPT ![c] =
                       Append(@, IF Within(i) THEN state[i + 1] ELSE defaultValue)]
        /\ state' = IF Within(i) \/ kind # "vector" THEN state ELSE Append(state, defaultValue)
        /\ atStart' = IF i = 0 THEN [atStart EXCEPT ![c] = Contained] ELSE atStart
        /\ waiting' = waiting \ {c}
        /\ UNCHANGED <<kind, writers, requests, known, absent, unasked>>

HandleReadIndex ==
    LET c == Head(mailbox).client
        i == Head(mailbox).index
    IN  /\ Receives("readIndex")
        /\ seen' = [seen EXCEPT ![c] =
                       Append(@, IF Within(i) THEN state[i + 1] ELSE defaultValue)]
        /\ atStart' = IF i = 0 THEN [atStart EXCEPT ![c] = Contained] ELSE atStart
        /\ waiting' = waiting \ {c}
        /\ UNCHANGED <<kind, state, writers, requests, known, absent, unasked>>

-----------------------------------------------------------------------------
(***************************************************************************)
(* The clients                                                             *)
(***************************************************************************)
Send(msg) ==
    /\ requests > 0 /\ requests' = requests - 1
    /\ msg.client \notin waiting
    /\ mailbox' = Append(mailbox, msg)

Asks(c, k) ==
    /\ Send([type |-> "contains", client |-> c, key |-> k])
    /\ waiting' = waiting \cup {c}
    /\ UNCHANGED <<kind, state, writers, known, absent, seen, atStart, unasked>>

\* A client writes what it was told is not there, and does not wait.
AddsAbsent(c, k) ==
    /\ k \in absent[c]
    /\ Send([type |-> "write", client |-> c, key |-> k])
    /\ absent' = [absent EXCEPT ![c] = @ \ {k}]
    /\ UNCHANGED <<kind, state, writers, waiting, known, seen, atStart, unasked>>

Reads(c, k) ==
    /\ kind = "map"
    /\ k \in known[c] \/ c \in Careless
    /\ Send([type |-> "readKey", client |-> c, key |-> k])
    /\ waiting' = waiting \cup {c}
    /\ unasked' = IF k \in known[c] THEN unasked ELSE unasked \cup {k}
    /\ UNCHANGED <<kind, state, writers, known, absent, seen, atStart>>

\* A client reads one index after the other until it is given the default.
HasSeenAll(c) == seen[c] # <<>> /\ Last(seen[c]) = defaultValue

ReadsNext(c) ==
    /\ kind # "map" /\ ~ HasSeenAll(c)
    /\ Send([type |-> "readIndex", client |-> c, index |-> Len(seen[c])])
    /\ waiting' = waiting \cup {c}
    /\ UNCHANGED <<kind, state, writers, known, absent, seen, atStart, unasked>>

Next ==
    \/ HandleContains
    \/ HandleWrite
    \/ HandleReadKey
    \/ HandleReadIndex
    \/ \E c \in Clients, k \in Keys : Asks(c, k) \/ AddsAbsent(c, k) \/ Reads(c, k)
    \/ \E c \in Clients : ReadsNext(c)

Spec == Init /\ [][Next]_vars

-----------------------------------------------------------------------------
(***************************************************************************)
(* Properties                                                              *)
(***************************************************************************)
TypeOK ==
    /\ kind \in {"vector", "set", "map"}
    /\ IF kind = "map" THEN state \in Maps ELSE state \in Seq(Keys)
    /\ writers \in Seq(Clients) /\ (kind = "vector" => Len(writers) = Len(state))
    /\ mailbox \in Seq(Messages)
    /\ requests \in 0 .. MaxRequests
    /\ waiting \subseteq Clients
    /\ known \in [Clients -> SUBSET Keys]
    /\ absent \in [Clients -> SUBSET Keys]
    /\ seen \in [Clients -> Seq(Keys \cup {defaultValue})]
    /\ atStart \in [Clients -> SUBSET Keys]
    /\ unasked \subseteq Keys

\* "Read will add a key with a default value [...] Please check using contains":
\* clients that check never add one, whoever writes between check and read, and
\* a read hides nothing that was written.
NoPhantomKeys ==
    kind = "map" => \A k \in DOMAIN state : state[k] = defaultValue => k \in unasked

\* contains before write is not atomic, so two clients may add the same element
\* to a vector, but no client adds one twice that asks first; a set holds it once.
AddedOncePerClient ==
    kind # "map" =>
       \A i, j \in DOMAIN state :
          i # j /\ state[i] = state[j] => kind = "vector" /\ writers[i] # writers[j]

\* Reading index by index misses nothing that was there at the beginning, though
\* in a set every smaller element that comes in between moves the others on.
ScanMissesNothing ==
    \A c \in Clients : HasSeenAll(c) => atStart[c] \subseteq ToSet(seen[c])
=============================================================================
