------------------------ MODULE DataContainer_proofs ------------------------
(***************************************************************************)
(* What is proved of the data containers: a client that asks before it     *)
(* reads adds nothing, adds an element once, and a scan misses nothing.    *)
(***************************************************************************)
EXTENDS DataContainer, FiniteSetTheorems, SequenceTheorems, TLAPS

(***************************************************************************)
(* The inductive invariant                                                 *)
(***************************************************************************)
IsContains(msg, c, k) == msg.type = "contains" /\ msg.client = c /\ msg.key = k

WritesOf(k) == [type : {"write"}, client : Clients, key : {k}]

\* A request that is answered keeps its client waiting, so there is one of each.
OneQuestion ==
    /\ \A i \in DOMAIN mailbox : mailbox[i].type # "write" => mailbox[i].client \in waiting
    /\ \A i, j \in DOMAIN mailbox :
          /\ mailbox[i].type # "write" /\ mailbox[j].type # "write"
          /\ mailbox[i].client = mailbox[j].client
          => i = j

\* Nothing is ever removed: what a client knows is there, it stays to be.
KnownAreContained == \A c \in Clients : known[c] \subseteq Contained

\* A key that is read is there, unless the client did not ask.
ReadsAreOfKnown ==
    \A i \in DOMAIN mailbox : mailbox[i].type = "readKey" =>
       kind = "map" /\ mailbox[i].key \in DOMAIN state \cup unasked

\* The next index that a client reads is the number of elements it has seen.
ReadsAreInOrder ==
    \A i \in DOMAIN mailbox : mailbox[i].type = "readIndex" =>
       LET c == mailbox[i].client
       IN  kind # "map" /\ mailbox[i].index = Len(seen[c]) /\ ~ HasSeenAll(c)

\* What was there at the beginning of a scan was seen, or is still ahead of it.
IsAhead(c, e) == \E p \in DOMAIN state : Len(seen[c]) < p /\ state[p] = e

NothingSkipped ==
    \A c \in Clients :
       IF seen[c] = <<>> THEN atStart[c] = {}
       ELSE /\ kind # "map"
            /\ \A e \in atStart[c] : e \in ToSet(seen[c]) \/ (~ HasSeenAll(c) /\ IsAhead(c, e))

\* A set holds each element once.
SetIsDistinct ==
    kind = "set" => \A i, j \in DOMAIN state : state[i] = state[j] => i = j

IsWrite(msg, c, k) == msg.type = "write" /\ msg.client = c /\ msg.key = k

\* What a client writes it was not told again to be absent, and no question of its
\* is answered before it is written.
WritesArePending ==
    \A j \in DOMAIN mailbox, c \in Clients, k \in Keys : IsWrite(mailbox[j], c, k) =>
       /\ k \notin absent[c]
       /\ \A i \in DOMAIN mailbox : IsContains(mailbox[i], c, k) => j < i

\* Whoever has added an element was not told again that it is absent.
WrittenIsKept == \A i \in DOMAIN state : state[i] \notin absent[writers[i]]

\* An element and a client are a pair once, in the vector or on the way there.
InVectorOnce ==
    \A i, j \in DOMAIN state : state[i] = state[j] /\ writers[i] = writers[j] => i = j

OnTheWayOnce ==
    \A i, j \in DOMAIN mailbox, c \in Clients, k \in Keys :
       IsWrite(mailbox[i], c, k) /\ IsWrite(mailbox[j], c, k) => i = j

NotBoth ==
    \A i \in DOMAIN state, j \in DOMAIN mailbox : ~ IsWrite(mailbox[j], writers[i], state[i])

\* Equal elements of a vector, or on their way there, are of different clients.
EachOfAnother ==
    kind = "vector" =>
       WritesArePending /\ WrittenIsKept /\ InVectorOnce /\ OnTheWayOnce /\ NotBoth

Inv ==
    /\ TypeOK
    /\ OneQuestion
    /\ KnownAreContained
    /\ ReadsAreOfKnown
    /\ ReadsAreInOrder
    /\ NothingSkipped
    /\ SetIsDistinct
    /\ EachOfAnother
    /\ NoPhantomKeys

-----------------------------------------------------------------------------
(***************************************************************************)
(* Lemmas about sequences and maps                                         *)
(***************************************************************************)
\* InsertAt moves what is behind the new element on by one place.
LEMMA InsertAtProperties ==
    ASSUME NEW S, NEW s \in Seq(S), NEW p \in 1 .. Len(s) + 1, NEW e \in S
    PROVE  /\ InsertAt(s, p, e) \in Seq(S)
           /\ Len(InsertAt(s, p, e)) = Len(s) + 1
           /\ \A q \in 1 .. Len(s) + 1 :
                 InsertAt(s, p, e)[q] =
                    IF q < p THEN s[q] ELSE IF q = p THEN e ELSE s[q - 1]
<1> DEFINE front == SubSeq(s, 1, p - 1)
           back == SubSeq(s, p, Len(s))
           n == Len(s)
<1>1. n \in Nat /\ \A i \in 1 .. n : s[i] \in S
  BY LenProperties, ElementOfSeq
<1>2. /\ front \in Seq(S) /\ Len(front) = p - 1
      /\ \A i \in 1 .. p - 1 : front[i] = s[i]
  <2>1. \A i \in 1 .. p - 1 : s[i] \in S
    BY <1>1
  <2>2. p - 1 \in Int /\ (p - 1) - 1 + 1 = p - 1 /\ (1 <= p - 1 \/ p - 1 = 0)
    BY <1>1
  <2>3. /\ front \in Seq(S) /\ Len(front) = IF 1 <= p - 1 THEN (p - 1) - 1 + 1 ELSE 0
        /\ \A i \in 1 .. (p - 1) - 1 + 1 : front[i] = s[1 + i - 1]
    BY <2>1, <2>2, SubSeqProperties
  <2> QED
    BY <1>1, <2>2, <2>3
<1>3. /\ back \in Seq(S) /\ Len(back) = n - p + 1
      /\ \A i \in 1 .. n - p + 1 : back[i] = s[p + i - 1]
  <2>1. \A i \in p .. n : s[i] \in S
    BY <1>1
  <2>2. /\ back \in Seq(S) /\ Len(back) = IF p <= n THEN n - p + 1 ELSE 0
        /\ \A i \in 1 .. n - p + 1 : back[i] = s[p + i - 1]
    BY <1>1, <2>1, SubSeqProperties
  <2> QED
    BY <1>1, <2>2
<1>4. <<e>> \in Seq(S) /\ Len(<<e>>) = 1 /\ <<e>>[1] = e
  OBVIOUS
<1> HIDE DEF front, back
<1>5. /\ front \o <<e>> \in Seq(S) /\ Len(front \o <<e>>) = p
      /\ \A i \in 1 .. p : (front \o <<e>>)[i] = IF i < p THEN s[i] ELSE e
  <2>1. /\ front \o <<e>> \in Seq(S) /\ Len(front \o <<e>>) = (p - 1) + 1
        /\ \A i \in 1 .. (p - 1) + 1 :
              (front \o <<e>>)[i] = IF i <= p - 1 THEN front[i] ELSE <<e>>[i - (p - 1)]
    BY <1>2, <1>4, ConcatProperties
  <2> QED
    BY <1>1, <1>2, <1>4, <2>1
<1> DEFINE fe == front \o <<e>>
<1> HIDE DEF fe
<1>6. /\ fe \o back \in Seq(S) /\ Len(fe \o back) = n + 1
      /\ \A i \in 1 .. n + 1 : (fe \o back)[i] = IF i <= p THEN fe[i] ELSE back[i - p]
  <2>1. fe \in Seq(S) /\ Len(fe) = p
    BY <1>5 DEF fe
  <2>2. /\ fe \o back \in Seq(S) /\ Len(fe \o back) = Len(fe) + Len(back)
        /\ \A i \in 1 .. Len(fe) + Len(back) :
              (fe \o back)[i] = IF i <= Len(fe) THEN fe[i] ELSE back[i - Len(fe)]
    BY <1>3, <2>1, ConcatProperties
  <2>3. Len(fe) + Len(back) = n + 1
    BY <1>1, <1>3, <2>1
  <2> QED
    BY <2>1, <2>2, <2>3
<1>7. InsertAt(s, p, e) = fe \o back
  BY DEF InsertAt, fe, front, back
<1>8. ASSUME NEW q \in 1 .. n + 1
      PROVE  (fe \o back)[q] = IF q < p THEN s[q] ELSE IF q = p THEN e ELSE s[q - 1]
  <2>1. CASE q <= p
    <3>1. q \in 1 .. p
      BY <2>1
    <3>2. (fe \o back)[q] = fe[q]
      BY <1>6, <2>1
    <3>3. fe[q] = IF q < p THEN s[q] ELSE e
      BY <1>5, <3>1 DEF fe
    <3> QED
      BY <1>1, <2>1, <3>2, <3>3
  <2>2. CASE q > p
    <3>1. q - p \in 1 .. n - p + 1 /\ p + (q - p) - 1 = q - 1
      BY <1>1, <2>2
    <3>2. (fe \o back)[q] = back[q - p]
      BY <1>1, <1>6, <2>2
    <3>3. PICK i \in 1 .. n - p + 1 : i = q - p /\ p + i - 1 = q - 1
      BY <3>1
    <3>4. back[i] = s[q - 1]
      BY <1>3, <3>3
    <3>5. ~ (q < p) /\ q # p
      BY <1>1, <2>2
    <3> QED
      BY <3>2, <3>3, <3>4, <3>5
  <2>3. q <= p \/ q > p
    BY <1>1
  <2> QED
    BY <2>1, <2>2, <2>3
<1> QED
  BY <1>1, <1>6, <1>7, <1>8

\* What a map holds after a key was written, or inserted by a read.
LEMMA MapAssigned ==
    ASSUME state \in Maps, NEW k \in Keys, NEW v \in Clients \cup {defaultValue}
    PROVE  /\ Assigned(k, v) \in Maps /\ DOMAIN Assigned(k, v) = DOMAIN state \cup {k}
           /\ Assigned(k, v)[k] = v
           /\ \A j \in DOMAIN state \ {k} : Assigned(k, v)[j] = state[j]
<1>1. PICK K \in SUBSET Keys : state \in [K -> Clients \cup {defaultValue}]
  BY DEF Maps
<1>2. Assigned(k, v) \in [K \cup {k} -> Clients \cup {defaultValue}]
  BY <1>1 DEF Assigned
<1>3. K \cup {k} \in SUBSET Keys
  BY <1>1
<1>4. Assigned(k, v) \in Maps
  BY <1>2, <1>3 DEF Maps
<1> QED
  BY <1>1, <1>4 DEF Assigned

-----------------------------------------------------------------------------
(***************************************************************************)
(* What a step does to the mailbox and to the state                        *)
(***************************************************************************)
\* The fields of a message.
LEMMA MessageFields ==
    ASSUME NEW msg \in Messages
    PROVE  /\ msg.type \in {"contains", "write", "readKey", "readIndex"}
           /\ msg.client \in Clients
           /\ msg.type # "readIndex" => msg.key \in Keys
           /\ msg.type = "readIndex" => msg.index \in Nat
  BY DEF Messages

\* A handler takes the first message off the mailbox.
LEMMA Received ==
    ASSUME TypeOK, NEW type, Receives(type)
    PROVE  /\ Head(mailbox) \in Messages /\ Head(mailbox) = mailbox[1]
           /\ Head(mailbox).type = type
           /\ mailbox' \in Seq(Messages) /\ mailbox' = Tail(mailbox)
           /\ Len(mailbox) \in Nat \ {0} /\ Len(mailbox') = Len(mailbox) - 1
           /\ DOMAIN mailbox = 1 .. Len(mailbox)
           /\ DOMAIN mailbox' = 1 .. Len(mailbox) - 1
           /\ \A i \in 1 .. Len(mailbox) - 1 : mailbox'[i] = mailbox[i + 1]
<1>1. /\ mailbox \in Seq(Messages) /\ mailbox # <<>>
      /\ mailbox' = Tail(mailbox) /\ Head(mailbox).type = type
  BY DEF TypeOK, Receives
<1>2. /\ Head(mailbox) \in Messages /\ Tail(mailbox) \in Seq(Messages)
      /\ Len(Tail(mailbox)) = Len(mailbox) - 1
      /\ \A i \in 1 .. Len(Tail(mailbox)) : Tail(mailbox)[i] = mailbox[i + 1]
  BY <1>1, HeadTailProperties
<1>3. Len(mailbox) \in Nat \ {0} /\ DOMAIN mailbox = 1 .. Len(mailbox)
  BY <1>1, LenProperties, EmptySeq
<1>4. DOMAIN Tail(mailbox) = 1 .. Len(mailbox) - 1
  BY <1>2, LenProperties
<1>5. Head(mailbox) = mailbox[1]
  BY <1>1, <1>3
<1> QED
  BY <1>1, <1>2, <1>3, <1>4, <1>5

\* A message is sent to the end of the mailbox, and its client is not waiting.
LEMMA Sent ==
    ASSUME TypeOK, NEW msg \in Messages, Send(msg)
    PROVE  /\ mailbox' \in Seq(Messages) /\ mailbox' = Append(mailbox, msg)
           /\ requests' \in 0 .. MaxRequests /\ msg.client \notin waiting
           /\ Len(mailbox) \in Nat
           /\ DOMAIN mailbox = 1 .. Len(mailbox)
           /\ DOMAIN mailbox' = 1 .. Len(mailbox) + 1
           /\ mailbox'[Len(mailbox) + 1] = msg
           /\ \A i \in 1 .. Len(mailbox) : mailbox'[i] = mailbox[i]
<1>1. mailbox \in Seq(Messages) /\ mailbox' = Append(mailbox, msg)
  BY DEF TypeOK, Send
<1>2. /\ mailbox' \in Seq(Messages) /\ Len(mailbox') = Len(mailbox) + 1
      /\ mailbox'[Len(mailbox) + 1] = msg
      /\ \A i \in 1 .. Len(mailbox) : mailbox'[i] = mailbox[i]
  BY <1>1, AppendProperties
<1>3. /\ Len(mailbox) \in Nat /\ DOMAIN mailbox = 1 .. Len(mailbox)
      /\ DOMAIN mailbox' = 1 .. Len(mailbox')
  BY <1>1, <1>2, LenProperties
<1>4. requests' \in 0 .. MaxRequests /\ msg.client \notin waiting
  BY DataContainerAssumption DEF TypeOK, Send
<1> QED
  BY <1>1, <1>2, <1>3, <1>4

\* A set inserts an element at a position that it has.
LEMMA InsertionPosition ==
    ASSUME state \in Seq(Keys), NEW k \in Keys
    PROVE  1 + Cardinality({i \in DOMAIN state : state[i] < k}) \in 1 .. Len(state) + 1
<1> DEFINE below == {i \in DOMAIN state : state[i] < k}
<1>1. Len(state) \in Nat /\ DOMAIN state = 1 .. Len(state)
  BY LenProperties
<1>2. IsFiniteSet(1 .. Len(state)) /\ Cardinality(1 .. Len(state)) = Len(state)
  BY <1>1, FS_Interval
<1>3. below \in SUBSET (1 .. Len(state))
  BY <1>1
<1> HIDE DEF below
<1>4. Cardinality(below) \in Nat /\ Cardinality(below) <= Len(state)
  BY <1>2, <1>3, FS_Subset, FS_CardinalityType
<1>5. 1 + Cardinality(below) \in 1 .. Len(state) + 1
  BY <1>1, <1>4
<1> QED
  BY <1>5 DEF below

\* What is written is contained, nothing else is lost or added, and the elements
\* of a vector or a set only move to the end.
LEMMA WrittenSequence ==
    ASSUME state \in Seq(Keys), kind \in {"vector", "set"}, NEW k \in Keys, NEW c
    PROVE  /\ Written(k, c) \in Seq(Keys)
           /\ ToSet(Written(k, c)) = ToSet(state) \cup {k}
           /\ \A p \in DOMAIN state : \E q \in DOMAIN Written(k, c) :
                 p <= q /\ Written(k, c)[q] = state[p]
<1>1. Len(state) \in Nat /\ DOMAIN state = 1 .. Len(state)
  BY LenProperties
<1> DEFINE w == Written(k, c)
<1>2. ASSUME NEW p \in 1 .. Len(state) + 1, w \in Seq(Keys), Len(w) = Len(state) + 1,
             \A q \in 1 .. Len(state) + 1 :
                w[q] = IF q < p THEN state[q] ELSE IF q = p THEN k ELSE state[q - 1]
      PROVE  /\ ToSet(w) = ToSet(state) \cup {k}
             /\ \A r \in DOMAIN state : \E q \in DOMAIN w : r <= q /\ w[q] = state[r]
  <2> HIDE DEF w
  <2>1. DOMAIN w = 1 .. Len(state) + 1
    BY <1>2, LenProperties
  <2>2. ASSUME NEW r \in DOMAIN state
        PROVE  \E q \in DOMAIN w : r <= q /\ w[q] = state[r]
    <3>1. r \in 1 .. Len(state)
      BY <1>1
    <3>2. CASE r < p
      BY <1>1, <1>2, <2>1, <3>1, <3>2
    <3>3. CASE r >= p
      <4>1. r + 1 \in 1 .. Len(state) + 1 /\ ~ (r + 1 < p) /\ r + 1 # p /\ (r + 1) - 1 = r
        BY <1>1, <3>1, <3>3
      <4>2. w[r + 1] = state[(r + 1) - 1]
        BY <1>2, <4>1
      <4> QED
        BY <2>1, <3>1, <4>1, <4>2
    <3>4. r < p \/ r >= p
      BY <1>1, <3>1
    <3> QED
      BY <3>2, <3>3, <3>4
  <2>3. ASSUME NEW q \in DOMAIN w
        PROVE  w[q] \in ToSet(state) \cup {k}
    <3>1. q \in 1 .. Len(state) + 1
      BY <2>1
    <3>2. q < p => q \in DOMAIN state
      BY <1>1, <3>1
    <3>3. ~ (q < p) /\ q # p => q - 1 \in DOMAIN state
      BY <1>1, <3>1
    <3> QED
      BY <1>2, <3>1, <3>2, <3>3 DEF ToSet
  <2>4. w[p] = k /\ p \in DOMAIN w
    BY <1>1, <1>2, <2>1
  <2> QED
    BY <2>2, <2>3, <2>4 DEF ToSet
<1>3. CASE kind = "vector"
  <2>1. w = Append(state, k)
    BY <1>3 DEF Written
  <2>2. /\ w \in Seq(Keys) /\ Len(w) = Len(state) + 1 /\ w[Len(state) + 1] = k
        /\ \A i \in 1 .. Len(state) : w[i] = state[i]
    BY <2>1, AppendProperties
  <2> HIDE DEF w
  <2>3. Len(state) + 1 \in 1 .. Len(state) + 1
    BY <1>1
  <2>4. \A q \in 1 .. Len(state) + 1 :
           w[q] = IF q < Len(state) + 1 THEN state[q]
                  ELSE IF q = Len(state) + 1 THEN k ELSE state[q - 1]
    BY <1>1, <2>2
  <2> QED
    BY <1>2, <2>2, <2>3, <2>4 DEF w
<1>4. CASE kind = "set" /\ k \in ToSet(state)
  <2>1. w = state
    BY <1>4 DEF Written
  <2> QED
    BY <1>1, <1>4, <2>1
<1>5. CASE kind = "set" /\ k \notin ToSet(state)
  <2>1. PICK p \in 1 .. Len(state) + 1 : w = InsertAt(state, p, k)
    <3>1. w = InsertAt(state, 1 + Cardinality({i \in DOMAIN state : state[i] < k}), k)
      BY <1>5 DEF Written
    <3> QED
      BY <3>1, InsertionPosition
  <2>2. /\ w \in Seq(Keys) /\ Len(w) = Len(state) + 1
        /\ \A q \in 1 .. Len(state) + 1 :
              w[q] = IF q < p THEN state[q] ELSE IF q = p THEN k ELSE state[q - 1]
    BY <2>1, InsertAtProperties
  <2> HIDE DEF w
  <2> QED
    BY <1>2, <2>2 DEF w
<1> QED
  BY <1>3, <1>4, <1>5

\* What a write does to a container.
LEMMA WriteEffect ==
    ASSUME TypeOK, HandleWrite
    PROVE  LET k == Head(mailbox).key
               c == Head(mailbox).client
           IN  /\ k \in Keys /\ c \in Clients /\ state' = Written(k, c)
               /\ Contained' = Contained \cup {k} /\ UNCHANGED <<kind, requests, clients, unasked>>
               /\ kind = "map" => /\ state' \in Maps /\ state'[k] = c
                                  /\ \A j \in DOMAIN state \ {k} : state'[j] = state[j]
               /\ kind # "map" => /\ state' \in Seq(Keys)
                                  /\ \A p \in DOMAIN state : \E q \in DOMAIN state' :
                                        p <= q /\ state'[q] = state[p]
<1> DEFINE k == Head(mailbox).key
           c == Head(mailbox).client
<1>1. /\ k \in Keys /\ c \in Clients /\ state' = Written(k, c)
      /\ UNCHANGED <<kind, requests, clients, unasked>>
  BY Received, MessageFields DEF HandleWrite
<1> HIDE DEF k, c
<1>2. CASE kind = "map"
  <2>1. state \in Maps /\ state' = Assigned(k, c) /\ c \in Clients \cup {defaultValue}
    BY <1>1, <1>2 DEF TypeOK, Written
  <2>2. /\ state' \in Maps /\ DOMAIN state' = DOMAIN state \cup {k} /\ state'[k] = c
        /\ \A j \in DOMAIN state \ {k} : state'[j] = state[j]
    <3>1. /\ Assigned(k, c) \in Maps /\ DOMAIN Assigned(k, c) = DOMAIN state \cup {k}
          /\ Assigned(k, c)[k] = c
          /\ \A j \in DOMAIN state \ {k} : Assigned(k, c)[j] = state[j]
      BY <1>1, <2>1, MapAssigned
    <3> QED
      BY <2>1, <3>1
  <2> QED
    BY <1>1, <1>2, <2>2 DEF Contained, k, c
<1>3. CASE kind # "map"
  <2>1. state \in Seq(Keys) /\ kind \in {"vector", "set"}
    BY <1>3 DEF TypeOK
  <2>2. /\ state' \in Seq(Keys) /\ ToSet(state') = ToSet(state) \cup {k}
        /\ \A p \in DOMAIN state : \E q \in DOMAIN state' : p <= q /\ state'[q] = state[p]
    BY <1>1, <2>1, WrittenSequence
  <2> QED
    BY <1>1, <1>3, <2>2 DEF Contained, k, c
<1> QED
  BY <1>2, <1>3

\* A key that is read is there afterwards, with the default value if it was not.
LEMMA ReadKeyEffect ==
    ASSUME Inv, HandleReadKey
    PROVE  LET k == Head(mailbox).key
           IN  /\ k \in Keys /\ kind = "map" /\ k \in DOMAIN state \cup unasked
               /\ state' \in Maps /\ DOMAIN state' = DOMAIN state \cup {k}
               /\ \A j \in DOMAIN state : state'[j] = state[j]
               /\ waiting' = waiting \ {Head(mailbox).client}
               /\ UNCHANGED <<kind, requests, known, absent, seen, atStart, unasked>>
<1> DEFINE k == Head(mailbox).key
<1>1. TypeOK /\ Receives("readKey")
  BY DEF Inv, HandleReadKey
<1>2. k \in Keys
  BY <1>1, Received, MessageFields
<1>3. kind = "map" /\ k \in DOMAIN state \cup unasked
  <2>1. 1 \in DOMAIN mailbox /\ mailbox[1].type = "readKey" /\ mailbox[1] = Head(mailbox)
    BY <1>1, Received
  <2> QED
    BY <2>1 DEF Inv, ReadsAreOfKnown
<1>4. /\ state' = IF k \in DOMAIN state THEN state ELSE Assigned(k, defaultValue)
      /\ waiting' = waiting \ {Head(mailbox).client}
      /\ UNCHANGED <<kind, requests, known, absent, seen, atStart, unasked>>
  BY DEF HandleReadKey
<1>5. state \in Maps
  BY <1>1, <1>3 DEF TypeOK
<1> HIDE DEF k
<1>6. /\ Assigned(k, defaultValue) \in Maps
      /\ DOMAIN Assigned(k, defaultValue) = DOMAIN state \cup {k}
      /\ \A j \in DOMAIN state \ {k} : Assigned(k, defaultValue)[j] = state[j]
  <2>1. defaultValue \in Clients \cup {defaultValue}
    OBVIOUS
  <2> QED
    BY <1>2, <1>5, <2>1, MapAssigned
<1>7. /\ state' \in Maps /\ DOMAIN state' = DOMAIN state \cup {k}
      /\ \A j \in DOMAIN state : state'[j] = state[j]
  <2>1. CASE k \in DOMAIN state
    BY <1>4, <1>5, <2>1
  <2>2. CASE k \notin DOMAIN state
    <3>1. state' = Assigned(k, defaultValue)
      BY <1>4, <2>2
    <3> QED
      BY <1>6, <2>2, <3>1
  <2> QED
    BY <2>1, <2>2
<1> QED
  BY <1>2, <1>3, <1>4, <1>7 DEF k

\* What reading an index does to the client that reads.
LEMMA ReadIndexEffect ==
    ASSUME Inv, HandleReadIndex
    PROVE  LET c == Head(mailbox).client
           IN  /\ c \in Clients /\ kind # "map" /\ state \in Seq(Keys) /\ ~ HasSeenAll(c)
               /\ Len(seen[c]) \in Nat
               /\ seen' = [seen EXCEPT ![c] =
                     Append(@, IF Within(Len(seen[c])) THEN state[Len(seen[c]) + 1]
                               ELSE defaultValue)]
               /\ Within(Len(seen[c])) => /\ Len(seen[c]) + 1 \in DOMAIN state
                                          /\ state[Len(seen[c]) + 1] \in Keys
               /\ atStart' = IF seen[c] = <<>> THEN [atStart EXCEPT ![c] = Contained] ELSE atStart
               /\ waiting' = waiting \ {c}
               /\ UNCHANGED <<kind, state, requests, known, absent, unasked>>
<1> DEFINE c == Head(mailbox).client
           i == Head(mailbox).index
<1>1. TypeOK /\ Receives("readIndex")
  BY DEF Inv, HandleReadIndex
<1>2. c \in Clients
  BY <1>1, Received, MessageFields
<1>3. kind # "map" /\ i = Len(seen[c]) /\ ~ HasSeenAll(c)
  <2>1. 1 \in DOMAIN mailbox /\ mailbox[1].type = "readIndex" /\ mailbox[1] = Head(mailbox)
    BY <1>1, Received
  <2> QED
    BY <2>1 DEF Inv, ReadsAreInOrder
<1>4. state \in Seq(Keys) /\ seen[c] \in Seq(Keys \cup {defaultValue})
  BY <1>1, <1>2, <1>3 DEF TypeOK
<1>5. Len(seen[c]) \in Nat /\ (Len(seen[c]) = 0 <=> seen[c] = <<>>)
  BY <1>4, LenProperties, EmptySeq
<1>6. ASSUME Within(i)
      PROVE  i + 1 \in DOMAIN state /\ state[i + 1] \in Keys
  <2>1. Len(state) \in Nat /\ DOMAIN state = 1 .. Len(state)
    BY <1>4, LenProperties
  <2>2. i + 1 \in 1 .. Len(state)
    BY <1>3, <1>5, <1>6, <2>1 DEF Within
  <2> QED
    BY <1>4, <2>1, <2>2, ElementOfSeq
<1>7. /\ seen' = [seen EXCEPT ![c] = Append(@, IF Within(i) THEN state[i + 1] ELSE defaultValue)]
      /\ atStart' = IF i = 0 THEN [atStart EXCEPT ![c] = Contained] ELSE atStart
      /\ waiting' = waiting \ {c}
      /\ UNCHANGED <<kind, state, requests, known, absent, unasked>>
  BY DEF HandleReadIndex
<1> HIDE DEF c, i
<1> QED
  BY <1>2, <1>3, <1>4, <1>5, <1>6, <1>7 DEF c

\* What is contained are keys.
LEMMA ContainedType == ASSUME TypeOK PROVE Contained \subseteq Keys
<1>1. CASE kind = "map"
  BY <1>1 DEF TypeOK, Contained, Maps
<1>2. CASE kind # "map"
  <2>1. state \in Seq(Keys)
    BY <1>2 DEF TypeOK
  <2>2. \A i \in DOMAIN state : state[i] \in Keys
    BY <2>1, LenProperties, ElementOfSeq
  <2> QED
    BY <1>2, <2>2 DEF Contained, ToSet
<1> QED
  BY <1>1, <1>2

\* The types.
LEMMA TypeStep == ASSUME Inv, Next PROVE TypeOK'
<1>1. TypeOK
  BY DEF Inv
<1>2. CASE HandleContains
  <2>1. /\ mailbox' \in Seq(Messages) /\ Head(mailbox).client \in Clients
        /\ Head(mailbox).key \in Keys
    BY <1>1, <1>2, Received, MessageFields DEF HandleContains
  <2>2. PICK c \in Clients, k \in Keys :
           \/ known' = [known EXCEPT ![c] = @ \cup {k}] /\ absent' = absent
           \/ absent' = [absent EXCEPT ![c] = @ \cup {k}] /\ known' = known
    BY <1>2, <2>1 DEF HandleContains
  <2>3. waiting' \subseteq waiting /\ UNCHANGED <<kind, state, writers, requests, seen, atStart, unasked>>
    BY <1>2 DEF HandleContains
  <2>4. known \in [Clients -> SUBSET Keys] /\ absent \in [Clients -> SUBSET Keys]
    BY <1>1 DEF TypeOK
  <2>5. /\ [known EXCEPT ![c] = @ \cup {k}] \in [Clients -> SUBSET Keys]
        /\ [absent EXCEPT ![c] = @ \cup {k}] \in [Clients -> SUBSET Keys]
    BY <2>4
  <2>6. known' \in [Clients -> SUBSET Keys] /\ absent' \in [Clients -> SUBSET Keys]
    BY <2>2, <2>4, <2>5
  <2> QED
    BY <1>1, <2>1, <2>3, <2>6 DEF TypeOK
<1>3. CASE HandleWrite
  <2>1. /\ kind = "map" => state' \in Maps
        /\ kind # "map" => state' \in Seq(Keys)
        /\ UNCHANGED <<kind, requests, clients, unasked>>
    BY <1>1, <1>3, WriteEffect
  <2>2. mailbox' \in Seq(Messages)
    BY <1>1, <1>3, Received DEF HandleWrite
  <2>3. writers' \in Seq(Clients) /\ (kind = "vector" => Len(writers') = Len(state'))
    <3> DEFINE c == Head(mailbox).client
               k == Head(mailbox).key
    <3>1. c \in Clients /\ k \in Keys
      BY <1>1, <1>3, WriteEffect
    <3>2. /\ writers' = IF kind = "vector" THEN Append(writers, c) ELSE writers
          /\ kind = "vector" => state' = Append(state, k)
      BY <1>3 DEF HandleWrite, Written
    <3>3. /\ writers \in Seq(Clients)
          /\ kind = "vector" => state \in Seq(Keys) /\ Len(writers) = Len(state)
      BY <1>1 DEF TypeOK
    <3> HIDE DEF c, k
    <3> QED
      BY <3>1, <3>2, <3>3, AppendProperties
  <2> QED
    BY <1>1, <2>1, <2>2, <2>3 DEF TypeOK, clients
<1>4. CASE HandleReadKey
  <2>1. mailbox' \in Seq(Messages)
    BY <1>1, <1>4, Received DEF HandleReadKey
  <2>2. /\ kind = "map" /\ state' \in Maps /\ waiting' \subseteq waiting
        /\ UNCHANGED <<kind, writers, requests, known, absent, seen, atStart, unasked>>
    BY <1>4, ReadKeyEffect DEF HandleReadKey
  <2> QED
    BY <1>1, <2>1, <2>2 DEF TypeOK
<1>5. CASE HandleReadIndex
  <2>1. mailbox' \in Seq(Messages)
    BY <1>1, <1>5, Received DEF HandleReadIndex
  <2>2. PICK c \in Clients, e \in Keys \cup {defaultValue} :
           /\ seen' = [seen EXCEPT ![c] = Append(@, e)]
           /\ atStart' = [atStart EXCEPT ![c] = Contained] \/ atStart' = atStart
           /\ waiting' = waiting \ {c}
           /\ UNCHANGED <<kind, state, writers, requests, known, absent, unasked>>
    BY <1>5, ReadIndexEffect DEF HandleReadIndex
  <2>3. Append(seen[c], e) \in Seq(Keys \cup {defaultValue})
    BY <1>1, AppendProperties DEF TypeOK
  <2>4. seen' \in [Clients -> Seq(Keys \cup {defaultValue})]
    BY <1>1, <2>2, <2>3 DEF TypeOK
  <2>5. atStart' \in [Clients -> SUBSET Keys]
    BY <1>1, <2>2, ContainedType DEF TypeOK
  <2> QED
    BY <1>1, <2>1, <2>2, <2>4, <2>5 DEF TypeOK
<1>6. ASSUME NEW c \in Clients, NEW k \in Keys, Asks(c, k)
      PROVE  TypeOK'
  <2>1. [type |-> "contains", client |-> c, key |-> k] \in Messages
    BY DEF Messages
  <2>2. mailbox' \in Seq(Messages) /\ requests' \in 0 .. MaxRequests
    BY <1>1, <1>6, <2>1, Sent DEF Asks
  <2> QED
    BY <1>1, <1>6, <2>2 DEF Asks, TypeOK
<1>7. ASSUME NEW c \in Clients, NEW k \in Keys, AddsAbsent(c, k)
      PROVE  TypeOK'
  <2>1. [type |-> "write", client |-> c, key |-> k] \in Messages
    BY DEF Messages
  <2>2. mailbox' \in Seq(Messages) /\ requests' \in 0 .. MaxRequests
    BY <1>1, <1>7, <2>1, Sent DEF AddsAbsent
  <2> QED
    BY <1>1, <1>7, <2>2 DEF AddsAbsent, TypeOK
<1>8. ASSUME NEW c \in Clients, NEW k \in Keys, Reads(c, k)
      PROVE  TypeOK'
  <2>1. [type |-> "readKey", client |-> c, key |-> k] \in Messages
    BY DEF Messages
  <2>2. mailbox' \in Seq(Messages) /\ requests' \in 0 .. MaxRequests
    BY <1>1, <1>8, <2>1, Sent DEF Reads
  <2> QED
    BY <1>1, <1>8, <2>2 DEF Reads, TypeOK
<1>9. ASSUME NEW c \in Clients, ReadsNext(c)
      PROVE  TypeOK'
  <2>1. Len(seen[c]) \in Nat
    BY <1>1, LenProperties DEF TypeOK
  <2>2. [type |-> "readIndex", client |-> c, index |-> Len(seen[c])] \in Messages
    BY <2>1 DEF Messages
  <2>3. mailbox' \in Seq(Messages) /\ requests' \in 0 .. MaxRequests
    BY <1>1, <1>9, <2>2, Sent DEF ReadsNext
  <2> QED
    BY <1>1, <1>9, <2>3 DEF ReadsNext, TypeOK
<1> QED
  BY <1>2, <1>3, <1>4, <1>5, <1>6, <1>7, <1>8, <1>9 DEF Next

-----------------------------------------------------------------------------
(***************************************************************************)
(* Each part of the invariant is kept                                      *)
(***************************************************************************)
\* A step takes the first message, or a client that does not wait sends one.
LEMMA TakesOrSends ==
    ASSUME Inv, Next
    PROVE  \/ \E type \in {"contains", "write", "readKey", "readIndex"} :
                 /\ Receives(type)
                 /\ waiting' = IF type = "write" THEN waiting
                               ELSE waiting \ {Head(mailbox).client}
           \/ \E msg \in Messages :
                 /\ Send(msg)
                 /\ waiting' = IF msg.type = "write" THEN waiting ELSE waiting \cup {msg.client}
                 /\ UNCHANGED <<kind, state, known, seen, atStart>>
                 /\ unasked \subseteq unasked'
                 /\ msg.type = "readKey" =>
                       kind = "map" /\ (msg.key \in known[msg.client] \/ msg.key \in unasked')
                 /\ msg.type = "readIndex" =>
                       /\ kind # "map" /\ ~ HasSeenAll(msg.client)
                       /\ msg.index = Len(seen[msg.client])
<1>1. ASSUME HandleContains \/ HandleReadKey \/ HandleReadIndex
      PROVE  \E type \in {"contains", "readKey", "readIndex"} :
                Receives(type) /\ waiting' = waiting \ {Head(mailbox).client}
  BY <1>1 DEF HandleContains, HandleReadKey, HandleReadIndex
<1>2. ASSUME HandleWrite
      PROVE  Receives("write") /\ waiting' = waiting
  BY <1>2 DEF HandleWrite, clients
<1>3. ASSUME NEW c \in Clients, NEW k \in Keys, Asks(c, k) \/ AddsAbsent(c, k) \/ Reads(c, k)
      PROVE  \E msg \in Messages :
                 /\ Send(msg)
                 /\ waiting' = IF msg.type = "write" THEN waiting ELSE waiting \cup {msg.client}
                 /\ UNCHANGED <<kind, state, known, seen, atStart>>
                 /\ unasked \subseteq unasked'
                 /\ msg.type # "readIndex"
                 /\ msg.type = "readKey" =>
                       kind = "map" /\ (msg.key \in known[msg.client] \/ msg.key \in unasked')
  <2> DEFINE msg(t) == [type |-> t, client |-> c, key |-> k]
  <2>1. \A t \in {"contains", "write", "readKey"} : msg(t) \in Messages
    BY DEF Messages
  <2>2. ASSUME Asks(c, k)
        PROVE  /\ Send(msg("contains")) /\ waiting' = waiting \cup {c}
               /\ UNCHANGED <<kind, state, known, seen, atStart, unasked>>
    BY <2>2 DEF Asks
  <2>3. ASSUME AddsAbsent(c, k)
        PROVE  /\ Send(msg("write")) /\ waiting' = waiting
               /\ UNCHANGED <<kind, state, known, seen, atStart, unasked>>
    BY <2>3 DEF AddsAbsent
  <2>4. ASSUME Reads(c, k)
        PROVE  /\ Send(msg("readKey")) /\ waiting' = waiting \cup {c}
               /\ UNCHANGED <<kind, state, known, seen, atStart>>
               /\ unasked \subseteq unasked' /\ kind = "map"
               /\ k \in known[c] \/ k \in unasked'
    BY <2>4 DEF Reads
  <2>5. \A t : msg(t).type = t /\ msg(t).client = c /\ msg(t).key = k
    OBVIOUS
  <2> HIDE DEF msg
  <2> QED
    BY <1>3, <2>1, <2>2, <2>3, <2>4, <2>5
<1>4. ASSUME NEW c \in Clients, ReadsNext(c)
      PROVE  \E msg \in Messages :
                 /\ Send(msg)
                 /\ waiting' = waiting \cup {msg.client} /\ msg.type = "readIndex"
                 /\ UNCHANGED <<kind, state, known, seen, atStart, unasked>>
                 /\ kind # "map" /\ ~ HasSeenAll(msg.client)
                 /\ msg.index = Len(seen[msg.client])
  <2> DEFINE msg == [type |-> "readIndex", client |-> c, index |-> Len(seen[c])]
  <2>1. msg \in Messages
    BY LenProperties DEF Inv, TypeOK, Messages
  <2>2. /\ Send(msg) /\ waiting' = waiting \cup {c} /\ kind # "map" /\ ~ HasSeenAll(c)
        /\ UNCHANGED <<kind, state, known, seen, atStart, unasked>>
    BY <1>4 DEF ReadsNext
  <2>3. msg.type = "readIndex" /\ msg.client = c /\ msg.index = Len(seen[c])
    OBVIOUS
  <2> HIDE DEF msg
  <2> QED
    BY <2>1, <2>2, <2>3
<1>5. \/ HandleContains \/ HandleWrite \/ HandleReadKey \/ HandleReadIndex
      \/ \E c \in Clients, k \in Keys : Asks(c, k) \/ AddsAbsent(c, k) \/ Reads(c, k)
      \/ \E c \in Clients : ReadsNext(c)
  BY DEF Next
<1>6. CASE HandleContains \/ HandleReadKey \/ HandleReadIndex
  BY <1>1, <1>6
<1>7. CASE HandleWrite
  BY <1>2, <1>7
<1>8. CASE \E c \in Clients, k \in Keys : Asks(c, k) \/ AddsAbsent(c, k) \/ Reads(c, k)
  BY <1>3, <1>8
<1>9. CASE \E c \in Clients : ReadsNext(c)
  BY <1>4, <1>9
<1> QED
  BY <1>5, <1>6, <1>7, <1>8, <1>9

\* A client that waits has one question under way.
LEMMA OneQuestionStep == ASSUME Inv, Next PROVE OneQuestion'
<1>1. TypeOK /\ OneQuestion
  BY DEF Inv
<1>2. ASSUME NEW type, Receives(type),
             waiting' = IF type = "write" THEN waiting ELSE waiting \ {Head(mailbox).client}
      PROVE  OneQuestion'
  <2>1. /\ Head(mailbox) = mailbox[1] /\ Head(mailbox).type = type
        /\ Len(mailbox) \in Nat \ {0} /\ DOMAIN mailbox = 1 .. Len(mailbox)
        /\ DOMAIN mailbox' = 1 .. Len(mailbox) - 1
        /\ \A i \in 1 .. Len(mailbox) - 1 : mailbox'[i] = mailbox[i + 1]
    BY <1>1, <1>2, Received
  <2>2. \A i \in DOMAIN mailbox' :
           mailbox'[i] = mailbox[i + 1] /\ i + 1 \in DOMAIN mailbox /\ i + 1 # 1
    BY <2>1
  <2>3. ASSUME NEW i \in DOMAIN mailbox', mailbox'[i].type # "write"
        PROVE  mailbox'[i].client \in waiting'
    <3>1. mailbox[i + 1].client \in waiting /\ mailbox[i + 1].type # "write"
      BY <1>1, <2>2, <2>3 DEF OneQuestion
    <3>2. type # "write" => mailbox[1].client # mailbox[i + 1].client
      BY <1>1, <2>1, <2>2, <3>1 DEF OneQuestion
    <3> QED
      BY <1>2, <2>1, <2>2, <3>1, <3>2
  <2>4. ASSUME NEW i \in DOMAIN mailbox', NEW j \in DOMAIN mailbox',
               mailbox'[i].type # "write", mailbox'[j].type # "write",
               mailbox'[i].client = mailbox'[j].client
        PROVE  i = j
    <3>1. i + 1 = j + 1
      BY <1>1, <2>2, <2>4 DEF OneQuestion
    <3> QED
      BY <2>1, <3>1
  <2> QED
    BY <2>3, <2>4 DEF OneQuestion
<1>3. ASSUME NEW msg \in Messages, Send(msg),
             waiting' = IF msg.type = "write" THEN waiting ELSE waiting \cup {msg.client}
      PROVE  OneQuestion'
  <2>1. /\ msg.client \notin waiting /\ Len(mailbox) \in Nat
        /\ DOMAIN mailbox = 1 .. Len(mailbox) /\ DOMAIN mailbox' = 1 .. Len(mailbox) + 1
        /\ mailbox'[Len(mailbox) + 1] = msg
        /\ \A i \in 1 .. Len(mailbox) : mailbox'[i] = mailbox[i]
    BY <1>1, <1>3, Sent
  <2>2. \A i \in DOMAIN mailbox' :
           \/ i \in DOMAIN mailbox /\ mailbox'[i] = mailbox[i]
           \/ i = Len(mailbox) + 1 /\ mailbox'[i] = msg
    BY <2>1
  <2> QED
    BY <1>1, <1>3, <2>1, <2>2 DEF OneQuestion
<1> QED
  BY <1>2, <1>3, TakesOrSends

\* Nothing that is contained is lost, and the elements of a vector or a set only
\* move to the end.
LEMMA ContainedGrows ==
    ASSUME Inv, Next
    PROVE  /\ kind' = kind /\ Contained \subseteq Contained'
           /\ kind # "map" => \A p \in DOMAIN state : \E q \in DOMAIN state' :
                                 p <= q /\ state'[q] = state[p]
<1>1. TypeOK
  BY DEF Inv
<1>2. ASSUME UNCHANGED <<kind, state>>
      PROVE  /\ kind' = kind /\ Contained \subseteq Contained'
             /\ kind # "map" => \A p \in DOMAIN state : \E q \in DOMAIN state' :
                                   p <= q /\ state'[q] = state[p]
  <2>1. kind # "map" => \A p \in DOMAIN state : p \in Int
    BY <1>1, LenProperties DEF TypeOK
  <2> QED
    BY <1>2, <2>1 DEF Contained
<1>3. CASE HandleWrite
  <2>1. /\ kind' = kind /\ Contained' = Contained \cup {Head(mailbox).key}
        /\ kind # "map" => \A p \in DOMAIN state : \E q \in DOMAIN state' :
                              p <= q /\ state'[q] = state[p]
    BY <1>1, <1>3, WriteEffect DEF clients
  <2> QED
    BY <2>1
<1>4. CASE HandleReadKey
  <2>1. kind' = kind /\ kind = "map" /\ DOMAIN state \subseteq DOMAIN state'
    BY <1>4, ReadKeyEffect
  <2> QED
    BY <2>1 DEF Contained
<1>5. CASE ~ HandleWrite /\ ~ HandleReadKey
  <2>1. UNCHANGED <<kind, state>>
    BY <1>5 DEF Next, HandleContains, HandleReadIndex, Asks, AddsAbsent, Reads, ReadsNext
  <2> QED
    BY <1>2, <2>1
<1> QED
  BY <1>3, <1>4, <1>5

\* What a client knows is contained stays to be.
LEMMA KnownStep == ASSUME Inv, Next PROVE KnownAreContained'
<1>1. /\ known \in [Clients -> SUBSET Keys] /\ \A c \in Clients : known[c] \subseteq Contained
      /\ Contained \subseteq Contained'
  BY ContainedGrows DEF Inv, TypeOK, KnownAreContained
<1>2. CASE HandleContains
  <2>1. PICK c \in Clients : \/ known' = known
                            \/ \E k \in Contained : known' = [known EXCEPT ![c] = @ \cup {k}]
    <3>1. Head(mailbox).client \in Clients
      BY <1>2, Received, MessageFields DEF Inv, HandleContains
    <3> QED
      BY <1>2, <3>1 DEF HandleContains
  <2> QED
    BY <1>1, <2>1 DEF KnownAreContained
<1>3. CASE ~ HandleContains
  <2>1. known' = known
    BY <1>3 DEF Next, HandleWrite, clients, HandleReadKey, HandleReadIndex, Asks, AddsAbsent,
                Reads, ReadsNext
  <2> QED
    BY <1>1, <2>1 DEF KnownAreContained
<1> QED
  BY <1>2, <1>3

\* A key that is read is there, or its client did not ask.
LEMMA ReadsStep == ASSUME Inv, Next PROVE ReadsAreOfKnown'
<1>1. TypeOK /\ ReadsAreOfKnown /\ KnownAreContained
  BY DEF Inv
<1>2. kind' = kind /\ Contained \subseteq Contained'
  BY ContainedGrows
<1>3. unasked \subseteq unasked'
  BY DEF Next, HandleContains, HandleWrite, clients, HandleReadKey, HandleReadIndex, Asks,
         AddsAbsent, Reads, ReadsNext
<1>4. ASSUME NEW type, Receives(type)
      PROVE  ReadsAreOfKnown'
  <2>1. /\ Len(mailbox) \in Nat \ {0} /\ DOMAIN mailbox = 1 .. Len(mailbox)
        /\ DOMAIN mailbox' = 1 .. Len(mailbox) - 1
        /\ \A i \in 1 .. Len(mailbox) - 1 : mailbox'[i] = mailbox[i + 1]
    BY <1>1, <1>4, Received
  <2>2. \A i \in DOMAIN mailbox' : mailbox'[i] = mailbox[i + 1] /\ i + 1 \in DOMAIN mailbox
    BY <2>1
  <2> QED
    BY <1>1, <1>2, <1>3, <2>2 DEF ReadsAreOfKnown, Contained
<1>5. ASSUME NEW msg \in Messages, Send(msg),
             msg.type = "readKey" =>
                kind = "map" /\ (msg.key \in known[msg.client] \/ msg.key \in unasked')
      PROVE  ReadsAreOfKnown'
  <2>1. /\ Len(mailbox) \in Nat
        /\ DOMAIN mailbox = 1 .. Len(mailbox) /\ DOMAIN mailbox' = 1 .. Len(mailbox) + 1
        /\ mailbox'[Len(mailbox) + 1] = msg
        /\ \A i \in 1 .. Len(mailbox) : mailbox'[i] = mailbox[i]
    BY <1>1, <1>5, Sent
  <2>2. \A i \in DOMAIN mailbox' :
           \/ i \in DOMAIN mailbox /\ mailbox'[i] = mailbox[i]
           \/ mailbox'[i] = msg
    BY <2>1
  <2>3. msg.client \in Clients
    BY MessageFields
  <2> QED
    BY <1>1, <1>2, <1>3, <1>5, <2>2, <2>3 DEF ReadsAreOfKnown, KnownAreContained, Contained
<1> QED
  BY <1>4, <1>5, TakesOrSends

\* A map holds the default value only where somebody did not ask.
LEMMA PhantomStep == ASSUME Inv, Next PROVE NoPhantomKeys'
<1>1. TypeOK /\ NoPhantomKeys
  BY DEF Inv
<1>2. kind' = kind /\ unasked \subseteq unasked'
  BY ContainedGrows DEF Next, HandleContains, HandleWrite, clients, HandleReadKey,
         HandleReadIndex, Asks, AddsAbsent, Reads, ReadsNext
<1>3. CASE HandleWrite
  <2>1. PICK k \in Keys, c \in Clients :
           /\ Contained' = Contained \cup {k}
           /\ kind = "map" => state'[k] = c /\ \A j \in DOMAIN state \ {k} : state'[j] = state[j]
    BY <1>1, <1>3, WriteEffect
  <2>2. c # defaultValue
    BY DataContainerAssumption
  <2> QED
    BY <1>1, <1>2, <2>1, <2>2 DEF NoPhantomKeys, Contained
<1>4. CASE HandleReadKey
  <2>1. PICK k \in DOMAIN state \cup unasked :
           /\ DOMAIN state' = DOMAIN state \cup {k}
           /\ \A j \in DOMAIN state : state'[j] = state[j]
    BY <1>4, ReadKeyEffect
  <2> QED
    BY <1>1, <1>2, <2>1 DEF NoPhantomKeys
<1>5. CASE ~ HandleWrite /\ ~ HandleReadKey
  <2>1. state' = state
    BY <1>5 DEF Next, HandleContains, HandleReadIndex, Asks, AddsAbsent, Reads, ReadsNext
  <2> QED
    BY <1>1, <1>2, <2>1 DEF NoPhantomKeys
<1> QED
  BY <1>3, <1>4, <1>5

\* The next index that a client reads is the number of elements it has seen.
LEMMA ReadsInOrderStep == ASSUME Inv, Next PROVE ReadsAreInOrder'
<1>1. TypeOK /\ OneQuestion /\ ReadsAreInOrder /\ kind' = kind
  BY ContainedGrows DEF Inv
<1>2. ASSUME NEW type, Receives(type)
      PROVE  ReadsAreInOrder'
  <2>1. /\ Head(mailbox) = mailbox[1] /\ Head(mailbox).type = type
        /\ Len(mailbox) \in Nat \ {0} /\ DOMAIN mailbox = 1 .. Len(mailbox)
        /\ DOMAIN mailbox' = 1 .. Len(mailbox) - 1
        /\ \A i \in 1 .. Len(mailbox) - 1 : mailbox'[i] = mailbox[i + 1]
    BY <1>1, <1>2, Received
  <2>2. \A i \in DOMAIN mailbox' :
           /\ mailbox'[i] = mailbox[i + 1] /\ i + 1 \in DOMAIN mailbox
           /\ i + 1 # 1 /\ 1 \in DOMAIN mailbox
    BY <2>1
  <2>3. ASSUME NEW i \in DOMAIN mailbox', mailbox'[i].type = "readIndex"
        PROVE  /\ mailbox'[i].index = Len(seen[mailbox'[i].client])
               /\ kind # "map" /\ ~ HasSeenAll(mailbox'[i].client)
    BY <1>1, <2>2, <2>3 DEF ReadsAreInOrder
  <2>4. ASSUME NEW i \in DOMAIN mailbox', mailbox'[i].type = "readIndex"
        PROVE  seen'[mailbox'[i].client] = seen[mailbox'[i].client]
    <3>1. CASE HandleReadIndex
      <4>1. type = "readIndex"
        BY <2>1, <3>1 DEF HandleReadIndex, Receives
      <4>2. mailbox'[i].client # Head(mailbox).client
        BY <1>1, <2>1, <2>2, <2>4, <4>1 DEF OneQuestion
      <4>3. seen \in [Clients -> Seq(Keys \cup {defaultValue})] /\ mailbox[i + 1] \in Messages
        BY <1>1, <2>1, <2>2, ElementOfSeq DEF TypeOK
      <4>4. mailbox'[i].client \in Clients
        BY <2>2, <4>3, MessageFields
      <4> QED
        BY <3>1, <4>2, <4>3, <4>4 DEF HandleReadIndex
    <3>2. CASE ~ HandleReadIndex
      BY <3>2 DEF Next, HandleContains, HandleWrite, clients, HandleReadKey, Asks, AddsAbsent,
                  Reads, ReadsNext
    <3> QED
      BY <3>1, <3>2
  <2> QED
    BY <1>1, <2>3, <2>4 DEF ReadsAreInOrder, HasSeenAll
<1>3. ASSUME NEW msg \in Messages, Send(msg), seen' = seen,
             msg.type = "readIndex" =>
                       /\ kind # "map" /\ ~ HasSeenAll(msg.client)
                       /\ msg.index = Len(seen[msg.client])
      PROVE  ReadsAreInOrder'
  <2>1. /\ Len(mailbox) \in Nat
        /\ DOMAIN mailbox = 1 .. Len(mailbox) /\ DOMAIN mailbox' = 1 .. Len(mailbox) + 1
        /\ mailbox'[Len(mailbox) + 1] = msg
        /\ \A i \in 1 .. Len(mailbox) : mailbox'[i] = mailbox[i]
    BY <1>1, <1>3, Sent
  <2>2. \A i \in DOMAIN mailbox' :
           \/ i \in DOMAIN mailbox /\ mailbox'[i] = mailbox[i]
           \/ mailbox'[i] = msg
    BY <2>1
  <2> QED
    BY <1>1, <1>3, <2>2 DEF ReadsAreInOrder, HasSeenAll
<1> QED
  BY <1>2, <1>3, TakesOrSends

\* An element that was there when a scan began is seen, or moves ahead of it.
LEMMA SkippedStep == ASSUME Inv, Next PROVE NothingSkipped'
<1>1. TypeOK /\ NothingSkipped /\ kind' = kind
  BY ContainedGrows DEF Inv
<1>2. CASE HandleReadIndex
  <2>1. PICK c \in Clients, n \in Nat, e \in Keys \cup {defaultValue} :
           /\ kind # "map" /\ state \in Seq(Keys) /\ ~ HasSeenAll(c) /\ n = Len(seen[c])
           /\ e = IF Within(n) THEN state[n + 1] ELSE defaultValue
           /\ seen' = [seen EXCEPT ![c] = Append(@, e)]
           /\ Within(n) => n + 1 \in DOMAIN state /\ state[n + 1] \in Keys
           /\ atStart' = IF seen[c] = <<>> THEN [atStart EXCEPT ![c] = Contained] ELSE atStart
           /\ state' = state
    BY <1>2, ReadIndexEffect
  <2>2. ASSUME NEW d \in Clients \ {c}
        PROVE  seen'[d] = seen[d] /\ atStart'[d] = atStart[d]
    BY <1>1, <2>1 DEF TypeOK
  <2>3. seen[c] \in Seq(Keys \cup {defaultValue})
    BY <1>1 DEF TypeOK
  <2>4. seen'[c] = Append(seen[c], e)
    BY <1>1, <2>1 DEF TypeOK
  <2>5. /\ seen'[c] # <<>> /\ Len(seen'[c]) = n + 1 /\ seen'[c][n + 1] = e
        /\ \A i \in 1 .. n : seen'[c][i] = seen[c][i]
        /\ DOMAIN seen[c] = 1 .. n /\ DOMAIN seen'[c] = 1 .. n + 1
    <3> DEFINE new == Append(seen[c], e)
    <3>1. /\ new \in Seq(Keys \cup {defaultValue}) /\ new # <<>> /\ Len(new) = n + 1
          /\ new[n + 1] = e /\ \A i \in 1 .. n : new[i] = seen[c][i]
      <4>1. /\ new \in Seq(Keys \cup {defaultValue}) /\ new # <<>>
            /\ Len(new) = Len(seen[c]) + 1 /\ new[Len(seen[c]) + 1] = e
            /\ \A i \in 1 .. Len(seen[c]) : new[i] = seen[c][i]
        BY <2>3, AppendProperties
      <4> HIDE DEF new
      <4> QED
        BY <2>1, <4>1
    <3>2. DOMAIN seen[c] = 1 .. n /\ DOMAIN new = 1 .. Len(new)
      BY <2>1, <2>3, <3>1, LenProperties
    <3> QED
      BY <2>4, <3>1, <3>2
  <2>6. ToSet(seen'[c]) = ToSet(seen[c]) \cup {e}
    <3>1. \A i \in DOMAIN seen'[c] : i \in DOMAIN seen[c] \/ i = n + 1
      BY <2>1, <2>5
    <3>2. \A i \in DOMAIN seen[c] : i \in DOMAIN seen'[c]
      BY <2>1, <2>5
    <3>3. n + 1 \in DOMAIN seen'[c]
      BY <2>1, <2>5
    <3> QED
      BY <2>5, <3>1, <3>2, <3>3 DEF ToSet
  <2>7. Len(state) \in Nat /\ DOMAIN state = 1 .. Len(state)
    BY <2>1, LenProperties
  <2>8. ASSUME NEW x \in atStart'[c]
        PROVE  x \in ToSet(seen[c]) \/ \E p \in DOMAIN state : n < p /\ state[p] = x
    <3>1. CASE seen[c] = <<>>
      <4>1. atStart'[c] = ToSet(state) /\ n = 0
        BY <1>1, <2>1, <3>1 DEF TypeOK, Contained
      <4>2. PICK p \in DOMAIN state : state[p] = x
        BY <4>1 DEF ToSet
      <4>3. n < p
        BY <2>7, <4>1, <4>2
      <4> QED
        BY <4>2, <4>3
    <3>2. CASE seen[c] # <<>>
      <4>1. atStart'[c] = atStart[c]
        BY <2>1, <3>2
      <4> QED
        BY <1>1, <2>1, <3>2, <4>1 DEF NothingSkipped, IsAhead
    <3> QED
      BY <3>1, <3>2
  <2>9. ASSUME NEW x \in atStart'[c], NEW p \in DOMAIN state, n < p, state[p] = x
        PROVE  x = e \/ (~ HasSeenAll(c)' /\ n + 1 < p)
    <3>1. Within(n)
      BY <2>1, <2>7, <2>9 DEF Within
    <3>2. e = state[n + 1] /\ e \in Keys
      BY <2>1, <3>1
    <3>3. ~ HasSeenAll(c)'
      BY <2>5, <3>2, DataContainerAssumption DEF HasSeenAll, Last
    <3>4. p = n + 1 \/ n + 1 < p
      BY <2>1, <2>7, <2>9
    <3> QED
      BY <2>9, <3>2, <3>3, <3>4
  <2>10. ASSUME NEW x \in atStart'[c]
         PROVE  x \in ToSet(seen'[c]) \/ (~ HasSeenAll(c)' /\ IsAhead(c, x)')
    BY <2>1, <2>5, <2>6, <2>8, <2>9, <2>10 DEF IsAhead
  <2>11. ASSUME NEW d \in Clients \ {c}
         PROVE  /\ HasSeenAll(d)' <=> HasSeenAll(d)
                /\ \A x : IsAhead(d, x)' <=> IsAhead(d, x)
    BY <2>1, <2>2, <2>11 DEF HasSeenAll, IsAhead
  <2> QED
    BY <1>1, <2>1, <2>2, <2>5, <2>10, <2>11 DEF NothingSkipped
<1>3. CASE ~ HandleReadIndex
  <2>1. UNCHANGED <<seen, atStart>>
    BY <1>3 DEF Next, HandleContains, HandleWrite, clients, HandleReadKey, Asks, AddsAbsent,
                Reads, ReadsNext
  <2>2. ASSUME NEW c \in Clients, NEW x, IsAhead(c, x), kind # "map"
        PROVE  IsAhead(c, x)'
    <3>1. PICK p \in DOMAIN state : Len(seen[c]) < p /\ state[p] = x
      BY <2>2 DEF IsAhead
    <3>2. PICK q \in DOMAIN state' : p <= q /\ state'[q] = x
      BY <2>2, <3>1, ContainedGrows
    <3>3. p \in Nat /\ Len(seen[c]) \in Nat
      BY <1>1, <2>2, LenProperties DEF TypeOK
    <3>4. q \in Nat
      BY <1>1, <2>2, TypeStep, LenProperties DEF TypeOK
    <3>5. Len(seen'[c]) < q
      BY <2>1, <3>1, <3>2, <3>3, <3>4
    <3> QED
      BY <3>2, <3>5 DEF IsAhead
  <2> QED
    BY <1>1, <2>1, <2>2 DEF NothingSkipped, HasSeenAll
<1> QED
  BY <1>2, <1>3

\* insert of a set does not add what is there.
LEMMA DistinctStep == ASSUME Inv, Next PROVE SetIsDistinct'
<1>1. TypeOK /\ SetIsDistinct /\ kind' = kind
  BY ContainedGrows DEF Inv
<1>2. CASE HandleWrite /\ kind = "set"
  <2>1. PICK k \in Keys, c \in Clients : state' = Written(k, c)
    BY <1>1, <1>2, WriteEffect
  <2>2. state \in Seq(Keys)
    BY <1>1, <1>2 DEF TypeOK
  <2>3. CASE k \in ToSet(state)
    BY <1>1, <1>2, <2>1, <2>3 DEF Written, SetIsDistinct
  <2>4. CASE k \notin ToSet(state)
    <3>1. PICK p \in 1 .. Len(state) + 1 : state' = InsertAt(state, p, k)
      <4>1. state' = InsertAt(state, 1 + Cardinality({i \in DOMAIN state : state[i] < k}), k)
        BY <1>2, <2>1, <2>4 DEF Written
      <4> QED
        BY <2>2, <4>1, InsertionPosition
    <3>2. /\ state' \in Seq(Keys) /\ Len(state') = Len(state) + 1
          /\ \A q \in 1 .. Len(state) + 1 :
                state'[q] = IF q < p THEN state[q] ELSE IF q = p THEN k ELSE state[q - 1]
      BY <2>2, <3>1, InsertAtProperties
    <3>3. /\ Len(state) \in Nat /\ DOMAIN state = 1 .. Len(state)
          /\ DOMAIN state' = 1 .. Len(state) + 1
      BY <2>2, <3>2, LenProperties
    <3> DEFINE from(q) == IF q < p THEN q ELSE q - 1
    <3>4. ASSUME NEW q \in DOMAIN state', q # p
          PROVE  from(q) \in DOMAIN state /\ state'[q] = state[from(q)] /\ state'[q] # k
      <4>1. from(q) \in DOMAIN state
        BY <3>3, <3>4
      <4>2. state'[q] = state[from(q)]
        BY <3>2, <3>3, <3>4
      <4> QED
        BY <2>4, <4>1, <4>2 DEF ToSet
    <3>5. state'[p] = k
      BY <3>2, <3>3
    <3>6. \A q, r \in DOMAIN state' : q # p /\ r # p /\ from(q) = from(r) => q = r
      BY <3>3
    <3>7. ASSUME NEW q \in DOMAIN state', NEW r \in DOMAIN state', state'[q] = state'[r]
          PROVE  q = r
      <4>1. CASE q = p \/ r = p
        BY <3>4, <3>5, <3>7, <4>1
      <4>2. CASE q # p /\ r # p
        <5>1. /\ from(q) \in DOMAIN state /\ from(r) \in DOMAIN state
              /\ state[from(q)] = state[from(r)]
          BY <3>4, <3>7, <4>2
        <5>2. from(q) = from(r)
          BY <1>1, <1>2, <5>1 DEF SetIsDistinct
        <5> QED
          BY <3>6, <4>2, <5>2
      <4> QED
        BY <4>1, <4>2
    <3> QED
      BY <3>7 DEF SetIsDistinct
  <2> QED
    BY <2>3, <2>4
<1>3. CASE ~ HandleWrite /\ kind = "set"
  <2>1. ~ HandleReadKey
    BY <1>3, ReadKeyEffect
  <2>2. state' = state
    BY <1>3, <2>1 DEF Next, HandleContains, HandleReadIndex, Asks, AddsAbsent, Reads, ReadsNext
  <2> QED
    BY <1>1, <2>2 DEF SetIsDistinct
<1>4. CASE kind # "set"
  BY <1>1, <1>4 DEF SetIsDistinct
<1> QED
  BY <1>2, <1>3, <1>4

\* A message that writes nothing is taken: a client is told that a key is absent
\* only if it is.
LEMMA EachTaken ==
    ASSUME Inv, kind = "vector", NEW type, Receives(type), type # "write",
           UNCHANGED <<kind, state, writers>>,
           \A c \in Clients, k \in Keys : k \in absent'[c] =>
              k \in absent[c] \/ (IsContains(Head(mailbox), c, k) /\ k \notin ToSet(state))
    PROVE  EachOfAnother'
<1>1. /\ TypeOK /\ WritesArePending /\ WrittenIsKept /\ InVectorOnce /\ OnTheWayOnce /\ NotBoth
      /\ state \in Seq(Keys) /\ writers \in Seq(Clients) /\ Len(writers) = Len(state)
  BY DEF Inv, EachOfAnother, TypeOK
<1>2. /\ DOMAIN state = DOMAIN writers
      /\ \A p \in DOMAIN state : state[p] \in Keys /\ writers[p] \in Clients
  BY <1>1, LenProperties, ElementOfSeq
<1>3. /\ Head(mailbox) = mailbox[1] /\ 1 \in DOMAIN mailbox
      /\ \A i \in DOMAIN mailbox' : /\ i \in Nat \ {0} /\ i + 1 \in DOMAIN mailbox
                                    /\ mailbox'[i] = mailbox[i + 1]
  BY <1>1, Received
<1>4. ASSUME NEW j \in DOMAIN mailbox', NEW c \in Clients, NEW k \in Keys,
             IsWrite(mailbox'[j], c, k)
      PROVE  /\ k \notin absent'[c]
             /\ \A i \in DOMAIN mailbox' : IsContains(mailbox'[i], c, k) => j < i
  <2>1. IsWrite(mailbox[j + 1], c, k)
    BY <1>3, <1>4
  <2>2. /\ k \notin absent[c]
        /\ \A i \in DOMAIN mailbox : IsContains(mailbox[i], c, k) => j + 1 < i
    BY <1>1, <1>3, <2>1 DEF WritesArePending
  <2>3. ~ IsContains(Head(mailbox), c, k)
    BY <1>3, <2>2
  <2>4. ASSUME NEW i \in DOMAIN mailbox', IsContains(mailbox'[i], c, k)
        PROVE  j < i
    <3>1. j + 1 < i + 1
      BY <1>3, <2>2, <2>4
    <3> QED
      BY <1>3, <3>1
  <2> QED
    BY <2>2, <2>3, <2>4
<1>5. WritesArePending'
  BY <1>4 DEF WritesArePending, IsWrite, IsContains
<1>6. WrittenIsKept'
  <2>1. ASSUME NEW p \in DOMAIN state, state[p] \in absent'[writers[p]]
        PROVE  FALSE
    <3>1. state[p] \in ToSet(state)
      BY DEF ToSet
    <3>2. state[p] \in absent[writers[p]]
      BY <1>2, <2>1, <3>1
    <3> QED
      BY <1>1, <3>2 DEF WrittenIsKept
  <2> QED
    BY <2>1 DEF WrittenIsKept
<1>7. InVectorOnce'
  BY <1>1 DEF InVectorOnce
<1>8. OnTheWayOnce'
  <2>1. ASSUME NEW i \in DOMAIN mailbox', NEW j \in DOMAIN mailbox',
               NEW c \in Clients, NEW k \in Keys,
               IsWrite(mailbox'[i], c, k), IsWrite(mailbox'[j], c, k)
        PROVE  i = j
    <3>1. i + 1 = j + 1
      BY <1>1, <1>3, <2>1 DEF OnTheWayOnce
    <3> QED
      BY <1>3, <3>1
  <2> QED
    BY <2>1 DEF OnTheWayOnce, IsWrite
<1>9. NotBoth'
  BY <1>1, <1>3 DEF NotBoth, IsWrite
<1> QED
  BY <1>5, <1>6, <1>7, <1>8, <1>9 DEF EachOfAnother

\* A message is sent: who writes a key was told that it is absent.
LEMMA EachSent ==
    ASSUME Inv, kind = "vector", NEW msg \in Messages, Send(msg),
           UNCHANGED <<kind, state, writers>>,
           \A c \in Clients : absent'[c] \subseteq absent[c],
           msg.type = "write" => /\ msg.key \in absent[msg.client]
                                 /\ msg.key \notin absent'[msg.client]
    PROVE  EachOfAnother'
<1>1. /\ TypeOK /\ WritesArePending /\ WrittenIsKept /\ InVectorOnce /\ OnTheWayOnce /\ NotBoth
      /\ OneQuestion /\ state \in Seq(Keys) /\ writers \in Seq(Clients)
      /\ Len(writers) = Len(state)
  BY DEF Inv, EachOfAnother, TypeOK
<1>2. /\ DOMAIN state = DOMAIN writers
      /\ \A p \in DOMAIN state : state[p] \in Keys /\ writers[p] \in Clients
  BY <1>1, LenProperties, ElementOfSeq
<1> DEFINE last == Len(mailbox) + 1
<1>3. /\ last \in DOMAIN mailbox' /\ mailbox'[last] = msg /\ msg.client \notin waiting
      /\ \A i \in DOMAIN mailbox : i \in DOMAIN mailbox' /\ mailbox'[i] = mailbox[i] /\ i < last
      /\ \A i \in DOMAIN mailbox' : i \in DOMAIN mailbox \/ i = last
  BY <1>1, Sent
<1> HIDE DEF last
<1>4. ASSUME NEW c \in Clients, NEW k \in Keys, IsWrite(msg, c, k)
      PROVE  k \in absent[c] /\ k \notin absent'[c]
  BY <1>4 DEF IsWrite
<1>5. \A i \in DOMAIN mailbox, c \in Clients, k \in Keys :
         IsWrite(msg, c, k) => ~ IsWrite(mailbox[i], c, k)
  BY <1>1, <1>4 DEF WritesArePending
<1>6. ASSUME NEW c \in Clients, NEW k \in Keys, IsWrite(msg, c, k), NEW i \in DOMAIN mailbox'
      PROVE  ~ IsContains(mailbox'[i], c, k)
  <2>1. CASE i \in DOMAIN mailbox
    BY <1>1, <1>3, <1>6, <2>1 DEF OneQuestion, IsContains, IsWrite
  <2>2. CASE i = last
    BY <1>3, <1>6, <2>2 DEF IsContains, IsWrite
  <2> QED
    BY <1>3, <2>1, <2>2
<1>7. WritesArePending'
  <2>1. ASSUME NEW j \in DOMAIN mailbox', NEW c \in Clients, NEW k \in Keys,
               IsWrite(mailbox'[j], c, k)
        PROVE  /\ k \notin absent'[c]
               /\ \A i \in DOMAIN mailbox' : IsContains(mailbox'[i], c, k) => j < i
    <3>1. CASE j \in DOMAIN mailbox
      <4>1. /\ k \notin absent[c]
            /\ \A i \in DOMAIN mailbox : IsContains(mailbox[i], c, k) => j < i
        BY <1>1, <1>3, <2>1, <3>1 DEF WritesArePending
      <4> QED
        BY <1>3, <3>1, <4>1
    <3>2. CASE j = last
      BY <1>3, <1>4, <1>6, <2>1, <3>2
    <3> QED
      BY <1>3, <3>1, <3>2
  <2> QED
    BY <2>1 DEF WritesArePending, IsWrite, IsContains
<1>8. WrittenIsKept'
  BY <1>1, <1>2 DEF WrittenIsKept
<1>9. InVectorOnce'
  BY <1>1 DEF InVectorOnce
<1>10. OnTheWayOnce'
  <2>1. ASSUME NEW i \in DOMAIN mailbox', NEW j \in DOMAIN mailbox',
               NEW c \in Clients, NEW k \in Keys,
               IsWrite(mailbox'[i], c, k), IsWrite(mailbox'[j], c, k)
        PROVE  i = j
    <3>1. CASE i \in DOMAIN mailbox /\ j \in DOMAIN mailbox
      BY <1>1, <1>3, <2>1, <3>1 DEF OnTheWayOnce
    <3>2. CASE i = last \/ j = last
      BY <1>3, <1>5, <2>1, <3>2
    <3> QED
      BY <1>3, <3>1, <3>2
  <2> QED
    BY <2>1 DEF OnTheWayOnce, IsWrite
<1>11. NotBoth'
  <2>1. ASSUME NEW p \in DOMAIN state, NEW j \in DOMAIN mailbox'
        PROVE  ~ IsWrite(mailbox'[j], writers[p], state[p])
    <3>1. CASE j \in DOMAIN mailbox
      BY <1>1, <1>3, <3>1 DEF NotBoth
    <3>2. CASE j = last
      BY <1>1, <1>2, <1>3, <1>4, <3>2 DEF WrittenIsKept
    <3> QED
      BY <1>3, <3>1, <3>2
  <2> QED
    BY <2>1 DEF NotBoth, IsWrite
<1> QED
  BY <1>7, <1>8, <1>9, <1>10, <1>11 DEF EachOfAnother

\* A write is taken: its element and its client are no pair of the vector yet, nor
\* of another write under way.
LEMMA EachWritten ==
    ASSUME Inv, kind = "vector", HandleWrite
    PROVE  EachOfAnother'
<1> DEFINE d == Head(mailbox).client
           e == Head(mailbox).key
<1>1. /\ TypeOK /\ WritesArePending /\ WrittenIsKept /\ InVectorOnce /\ OnTheWayOnce /\ NotBoth
      /\ state \in Seq(Keys) /\ writers \in Seq(Clients) /\ Len(writers) = Len(state)
  BY DEF Inv, EachOfAnother, TypeOK
<1>2. Receives("write")
  BY DEF HandleWrite
<1>3. /\ Head(mailbox) \in Messages
      /\ Head(mailbox) = mailbox[1] /\ 1 \in DOMAIN mailbox /\ Head(mailbox).type = "write"
      /\ \A i \in DOMAIN mailbox' : /\ i \in Nat \ {0} /\ i + 1 \in DOMAIN mailbox
                                    /\ mailbox'[i] = mailbox[i + 1]
  BY <1>1, <1>2, Received
<1>4. d \in Clients /\ e \in Keys /\ IsWrite(mailbox[1], d, e)
  BY <1>3, MessageFields DEF IsWrite
<1>5. /\ state' = Append(state, e) /\ writers' = Append(writers, d) /\ absent' = absent
      /\ kind' = kind
  BY DEF HandleWrite, Written, clients
<1> HIDE DEF d, e
<1> DEFINE last == Len(state) + 1
<1>6. /\ Len(state') = last /\ state'[last] = e
      /\ \A p \in 1 .. Len(state) : state'[p] = state[p]
      /\ state' \in Seq(Keys)
  BY <1>1, <1>4, <1>5, AppendProperties
<1>7. /\ Len(writers') = last /\ writers'[last] = d
      /\ \A p \in 1 .. Len(state) : writers'[p] = writers[p]
  BY <1>1, <1>4, <1>5, AppendProperties
<1>8. /\ Len(state) \in Nat /\ DOMAIN state = 1 .. Len(state) /\ DOMAIN state' = 1 .. last
      /\ last \notin DOMAIN state
      /\ \A p \in DOMAIN state : state[p] \in Keys /\ writers[p] \in Clients
  BY <1>1, <1>6, LenProperties, ElementOfSeq
<1>9. \A p \in DOMAIN state' :
         \/ p \in DOMAIN state /\ state'[p] = state[p] /\ writers'[p] = writers[p]
         \/ p = last /\ state'[p] = e /\ writers'[p] = d
  BY <1>6, <1>7, <1>8
<1> HIDE DEF last
<1>10. \A p \in DOMAIN state : ~ (state[p] = e /\ writers[p] = d)
  BY <1>1, <1>3, <1>4 DEF NotBoth
<1>11. \A i \in DOMAIN mailbox' : ~ IsWrite(mailbox'[i], d, e)
  <2>1. ASSUME NEW i \in DOMAIN mailbox', IsWrite(mailbox'[i], d, e)
        PROVE  FALSE
    <3>1. i + 1 = 1
      BY <1>1, <1>3, <1>4, <2>1 DEF OnTheWayOnce
    <3> QED
      BY <1>3, <3>1
  <2> QED
    BY <2>1
<1>12. WritesArePending'
  <2>1. ASSUME NEW j \in DOMAIN mailbox', NEW c \in Clients, NEW k \in Keys,
               IsWrite(mailbox'[j], c, k)
        PROVE  /\ k \notin absent'[c]
               /\ \A i \in DOMAIN mailbox' : IsContains(mailbox'[i], c, k) => j < i
    <3>1. IsWrite(mailbox[j + 1], c, k)
      BY <1>3, <2>1
    <3>2. /\ k \notin absent[c]
          /\ \A i \in DOMAIN mailbox : IsContains(mailbox[i], c, k) => j + 1 < i
      BY <1>1, <1>3, <3>1 DEF WritesArePending
    <3>3. ASSUME NEW i \in DOMAIN mailbox', IsContains(mailbox'[i], c, k)
          PROVE  j < i
      <4>1. j + 1 < i + 1
        BY <1>3, <3>2, <3>3
      <4> QED
        BY <1>3, <4>1
    <3> QED
      BY <1>5, <3>2, <3>3
  <2> QED
    BY <2>1 DEF WritesArePending, IsWrite, IsContains
<1>13. WrittenIsKept'
  <2>1. e \notin absent[d]
    BY <1>1, <1>3, <1>4 DEF WritesArePending
  <2>2. \A p \in DOMAIN state' : state'[p] \notin absent'[writers'[p]]
    BY <1>1, <1>5, <1>9, <2>1 DEF WrittenIsKept
  <2> QED
    BY <2>2 DEF WrittenIsKept
<1>14. InVectorOnce'
  <2>1. ASSUME NEW p \in DOMAIN state', NEW q \in DOMAIN state',
               state'[p] = state'[q], writers'[p] = writers'[q]
        PROVE  p = q
    <3>1. CASE p \in DOMAIN state /\ q \in DOMAIN state
      BY <1>1, <1>8, <1>9, <2>1, <3>1 DEF InVectorOnce
    <3>2. CASE p = last \/ q = last
      BY <1>8, <1>9, <1>10, <2>1, <3>2
    <3> QED
      BY <1>9, <3>1, <3>2
  <2> QED
    BY <2>1 DEF InVectorOnce
<1>15. OnTheWayOnce'
  <2>1. ASSUME NEW i \in DOMAIN mailbox', NEW j \in DOMAIN mailbox',
               NEW c \in Clients, NEW k \in Keys,
               IsWrite(mailbox'[i], c, k), IsWrite(mailbox'[j], c, k)
        PROVE  i = j
    <3>1. i + 1 = j + 1
      BY <1>1, <1>3, <2>1 DEF OnTheWayOnce
    <3> QED
      BY <1>3, <3>1
  <2> QED
    BY <2>1 DEF OnTheWayOnce, IsWrite
<1>16. NotBoth'
  <2>1. ASSUME NEW p \in DOMAIN state', NEW j \in DOMAIN mailbox'
        PROVE  ~ IsWrite(mailbox'[j], writers'[p], state'[p])
    <3>1. CASE p \in DOMAIN state
      BY <1>1, <1>3, <1>8, <1>9, <3>1 DEF NotBoth
    <3>2. CASE p = last
      BY <1>8, <1>9, <1>11, <3>2
    <3> QED
      BY <1>9, <3>1, <3>2
  <2> QED
    BY <2>1 DEF NotBoth, IsWrite
<1> QED
  BY <1>12, <1>13, <1>14, <1>15, <1>16 DEF EachOfAnother

\* Equal elements of a vector, or on their way there, are of different clients.
LEMMA EachStep == ASSUME Inv, Next PROVE EachOfAnother'
<1>1. TypeOK /\ kind' = kind /\ absent \in [Clients -> SUBSET Keys]
  BY ContainedGrows DEF Inv, TypeOK
<1> SUFFICES ASSUME kind = "vector"
             PROVE  EachOfAnother'
  BY <1>1 DEF EachOfAnother
<1>2. CASE HandleContains
  <2>1. /\ Receives("contains") /\ Head(mailbox).type = "contains"
        /\ UNCHANGED <<kind, state, writers>>
    BY <1>2 DEF HandleContains, Receives
  <2>2. ASSUME NEW c \in Clients, NEW k \in Keys, k \in absent'[c]
        PROVE  k \in absent[c] \/ (IsContains(Head(mailbox), c, k) /\ k \notin ToSet(state))
    <3>1. CASE Head(mailbox).key \in Contained
      BY <1>2, <2>2, <3>1 DEF HandleContains
    <3>2. CASE Head(mailbox).key \notin Contained
      <4>1. absent' = [absent EXCEPT ![Head(mailbox).client] = @ \cup {Head(mailbox).key}]
        BY <1>2, <3>2 DEF HandleContains
      <4> QED
        BY <1>1, <2>1, <2>2, <3>2, <4>1 DEF IsContains, Contained
    <3> QED
      BY <3>1, <3>2
  <2> QED
    BY <2>1, <2>2, EachTaken
<1>3. CASE HandleReadIndex
  <2>1. /\ Receives("readIndex") /\ absent' = absent
        /\ UNCHANGED <<kind, state, writers>>
    BY <1>3 DEF HandleReadIndex
  <2> QED
    BY <2>1, EachTaken
<1>4. CASE HandleReadKey
  BY <1>4, ReadKeyEffect
<1>5. CASE HandleWrite
  BY <1>5, EachWritten
<1>6. ASSUME NEW c \in Clients, NEW k \in Keys, AddsAbsent(c, k)
      PROVE  EachOfAnother'
  <2> DEFINE msg == [type |-> "write", client |-> c, key |-> k]
  <2>1. msg \in Messages /\ msg.key = k /\ msg.client = c
    BY DEF Messages
  <2>2. /\ Send(msg) /\ UNCHANGED <<kind, state, writers>> /\ k \in absent[c]
        /\ absent' = [absent EXCEPT ![c] = @ \ {k}]
    BY <1>6 DEF AddsAbsent
  <2>3. k \notin absent'[c] /\ \A b \in Clients : absent'[b] \subseteq absent[b]
    BY <1>1, <2>2
  <2> HIDE DEF msg
  <2> QED
    BY <2>1, <2>2, <2>3, EachSent
<1>7. ASSUME NEW c \in Clients, NEW k \in Keys, Asks(c, k)
      PROVE  EachOfAnother'
  <2> DEFINE msg == [type |-> "contains", client |-> c, key |-> k]
  <2>1. msg \in Messages /\ msg.type # "write"
    BY DEF Messages
  <2>2. Send(msg) /\ UNCHANGED <<kind, state, writers>> /\ absent' = absent
    BY <1>7 DEF Asks
  <2> HIDE DEF msg
  <2> QED
    BY <2>1, <2>2, EachSent
<1>8. ASSUME NEW c \in Clients, ReadsNext(c)
      PROVE  EachOfAnother'
  <2> DEFINE msg == [type |-> "readIndex", client |-> c, index |-> Len(seen[c])]
  <2>1. msg \in Messages /\ msg.type # "write"
    BY <1>1, LenProperties DEF Messages, TypeOK
  <2>2. Send(msg) /\ UNCHANGED <<kind, state, writers>> /\ absent' = absent
    BY <1>8 DEF ReadsNext
  <2> HIDE DEF msg
  <2> QED
    BY <2>1, <2>2, EachSent
<1>9. \A c \in Clients, k \in Keys : ~ Reads(c, k)
  BY DEF Reads
<1> QED
  BY <1>2, <1>3, <1>4, <1>5, <1>6, <1>7, <1>8, <1>9 DEF Next

-----------------------------------------------------------------------------
(***************************************************************************)
(* The theorems                                                            *)
(***************************************************************************)
\* The invariant holds in the beginning.
LEMMA InitInv == ASSUME Init PROVE Inv
<1>1. /\ kind \in {"vector", "set", "map"} /\ state = <<>> /\ mailbox = <<>> /\ writers = <<>>
      /\ requests = MaxRequests /\ waiting = {} /\ unasked = {}
      /\ known = [c \in Clients |-> {}] /\ absent = [c \in Clients |-> {}]
      /\ seen = [c \in Clients |-> <<>>] /\ atStart = [c \in Clients |-> {}]
  BY DEF Init
<1>2. DOMAIN mailbox = {} /\ DOMAIN state = {}
  BY <1>1
<1>3. state \in Seq(Keys) /\ mailbox \in Seq(Messages)
  BY <1>1
<1>4. state \in Maps
  <2>1. state = [j \in {} |-> defaultValue]
    BY <1>1
  <2>2. state \in [{} -> Clients \cup {defaultValue}]
    BY <2>1
  <2> QED
    BY <2>2 DEF Maps
<1>5. TypeOK
  <2>1. requests \in 0 .. MaxRequests
    BY <1>1, DataContainerAssumption
  <2>2. seen \in [Clients -> Seq(Keys \cup {defaultValue})]
    BY <1>1
  <2> QED
    BY <1>1, <1>3, <1>4, <2>1, <2>2 DEF TypeOK
<1>6. OneQuestion /\ ReadsAreOfKnown /\ ReadsAreInOrder /\ SetIsDistinct /\ NoPhantomKeys
  BY <1>2 DEF OneQuestion, ReadsAreOfKnown, ReadsAreInOrder, SetIsDistinct, NoPhantomKeys
<1>7. KnownAreContained /\ NothingSkipped
  BY <1>1 DEF KnownAreContained, NothingSkipped
<1>8. EachOfAnother
  BY <1>2 DEF EachOfAnother, WritesArePending, WrittenIsKept, InVectorOnce, OnTheWayOnce, NotBoth
<1> QED
  BY <1>5, <1>6, <1>7, <1>8 DEF Inv

\* A step that changes nothing keeps it.
LEMMA StutterInv == ASSUME Inv, UNCHANGED vars PROVE Inv'
<1>1. UNCHANGED <<kind, state, writers, mailbox, requests, waiting, known, absent, seen, atStart, unasked>>
  BY DEF vars, clients
<1>2. TypeOK' /\ OneQuestion' /\ KnownAreContained'
  BY <1>1 DEF Inv, TypeOK, OneQuestion, KnownAreContained, Contained
<1>3. ReadsAreOfKnown' /\ ReadsAreInOrder' /\ SetIsDistinct' /\ NoPhantomKeys'
  BY <1>1 DEF Inv, ReadsAreOfKnown, ReadsAreInOrder, HasSeenAll, SetIsDistinct, NoPhantomKeys
<1>4. NothingSkipped'
  BY <1>1 DEF Inv, NothingSkipped, HasSeenAll, IsAhead
<1>5. EachOfAnother'
  BY <1>1 DEF Inv, EachOfAnother, WritesArePending, WrittenIsKept, InVectorOnce, OnTheWayOnce,
              NotBoth
<1> QED
  BY <1>2, <1>3, <1>4, <1>5 DEF Inv

\* The inductive invariant of a data container, its types among it.
THEOREM Invariance == Spec => []Inv
<1>1. Init => Inv
  BY InitInv
<1>2. Inv /\ [Next]_vars => Inv'
  <2> SUFFICES ASSUME Inv, [Next]_vars
               PROVE  Inv'
    OBVIOUS
  <2>1. CASE Next
    <3>1. TypeOK' /\ OneQuestion' /\ KnownAreContained' /\ ReadsAreOfKnown'
      BY <2>1, TypeStep, OneQuestionStep, KnownStep, ReadsStep
    <3>2. ReadsAreInOrder' /\ NothingSkipped' /\ SetIsDistinct' /\ EachOfAnother' /\ NoPhantomKeys'
      BY <2>1, ReadsInOrderStep, SkippedStep, DistinctStep, EachStep, PhantomStep
    <3> QED
      BY <3>1, <3>2 DEF Inv
  <2>2. CASE UNCHANGED vars
    BY <2>2, StutterInv
  <2> QED
    BY <2>1, <2>2
<1> QED
  BY <1>1, <1>2, PTL DEF Spec

\* The types of the data containers.
THEOREM TypeCorrect == Spec => []TypeOK
<1>1. Inv => TypeOK
  BY DEF Inv
<1> QED
  BY <1>1, Invariance, PTL

\* A client that asks with contains before it reads a map adds no default value,
\* whoever writes in between, and a read hides nothing that was written.
THEOREM NoPhantoms == Spec => []NoPhantomKeys
<1>1. Inv => NoPhantomKeys
  BY DEF Inv
<1> QED
  BY <1>1, Invariance, PTL

\* Equal elements of a vector were added by different clients, and a set holds
\* each element once.
THEOREM NoneAddsTwice == Spec => []AddedOncePerClient
<1>1. Inv => AddedOncePerClient
  BY DEF Inv, TypeOK, SetIsDistinct, EachOfAnother, InVectorOnce, AddedOncePerClient
<1> QED
  BY <1>1, Invariance, PTL

\* A client that reads index by index until it is given the default value has
\* seen all that was there when it began, whatever was written meanwhile.
THEOREM ScansAreComplete == Spec => []ScanMissesNothing
<1>1. Inv => ScanMissesNothing
  BY DEF Inv, NothingSkipped, ScanMissesNothing, HasSeenAll
<1> QED
  BY <1>1, Invariance, PTL
=============================================================================
