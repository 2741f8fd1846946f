----------------------- MODULE ServiceManager_proofs -----------------------
(***************************************************************************)
(* Proofs about one service manager, for any number of ids, actors and     *)
(* entries.                                                                *)
(***************************************************************************)
EXTENDS ServiceManager, ServiceList_proofs, WellFoundedInduction, NaturalsInduction

-----------------------------------------------------------------------------
(***************************************************************************)
(* Type correctness                                                        *)
(***************************************************************************)

\* The history of the round keeps its type and its bound.
LEMMA LastOnesType ==
    ASSUME NEW S, NEW r \in Seq(S), NEW n \in Nat \ {0}, Len(r) <= n, NEW p \in S
    PROVE  /\ LastOnes(Append(r, p), n) \in Seq(S)
           /\ Len(LastOnes(Append(r, p), n)) <= n
  BY DEF LastOnes

LEMMA TypeInit == Init => TypeOK
<1> SUFFICES ASSUME Init
             PROVE  TypeOK
  OBVIOUS
<1>1. /\ idsAndActors \in Seq(Slots) /\ Len(idsAndActors) = 0
      /\ recent \in Seq(1 .. MaxEntries) /\ Len(recent) = 0
  BY DEF Init
<1>2. /\ current \in 0 .. MaxEntries
      /\ requests \in 0 .. MaxRequests
      /\ waits \in [Ids -> Nat]
  BY ServiceManagerAssumption DEF Init
<1>3. /\ Len(idsAndActors) <= MaxEntries
      /\ Len(recent) <= Len(idsAndActors)
  BY <1>1, ServiceManagerAssumption
<1>4. crashed \in BOOLEAN /\ answer \in Slots \cup {NoAnswer, RuntimeError}
  BY DEF Init
<1>5. QED
  BY <1>1, <1>2, <1>3, <1>4 DEF TypeOK

\* The next three actions change the vector or answer from it.
LEMMA TypeAddId ==
    ASSUME TypeOK, NEW id \in Ids, NEW actor \in Actors, AddId(id, actor)
    PROVE  TypeOK'
<1>1. /\ idsAndActors' \in Seq(Slots)
      /\ Len(idsAndActors') = Len(idsAndActors) + 1
  BY DEF TypeOK, AddId, EmplaceBack, Slots, Entries
<1>2. recent' = <<>> /\ waits' \in [Ids -> Nat]
  BY DEF TypeOK, AddId, NewRound
<1>3. QED
  BY <1>1, <1>2, ServiceManagerAssumption DEF TypeOK, AddId

LEMMA TypeRemoveActor ==
    ASSUME TypeOK, NEW id \in Ids, RemoveActor(id)
    PROVE  TypeOK'
<1>1. /\ idsAndActors' \in Seq(Slots)
      /\ Len(idsAndActors') = Len(idsAndActors) - 1
  BY RemoveType DEF TypeOK, RemoveActor
<1>2. recent' = <<>> /\ waits' \in [Ids -> Nat]
  BY DEF TypeOK, RemoveActor, NewRound
<1>3. requests' \in 0 .. MaxRequests
  BY ServiceManagerAssumption DEF TypeOK, RemoveActor
<1>4. QED
  BY <1>1, <1>2, <1>3, ServiceManagerAssumption DEF TypeOK, RemoveActor

LEMMA TypeFindService ==
    ASSUME TypeOK, FindService
    PROVE  TypeOK'
<1> DEFINE position == Wrapped(idsAndActors, current) + 1
           found    == ElementAtCursor(idsAndActors, current)
<1>1. idsAndActors \in Seq(Slots) /\ idsAndActors # <<>> /\ current \in Nat
  BY ServiceManagerAssumption DEF TypeOK, FindService
<1>2. position \in 1 .. Len(idsAndActors) /\ found \in Slots
  BY <1>1, WrappedInRange
<1>3. /\ answer' = found
      /\ current' = position
      /\ recent' = LastOnes(Append(recent, position), Len(idsAndActors))
      /\ UNCHANGED <<idsAndActors, requests, crashed>>
  BY DEF FindService
<1>4. waits' \in [Ids -> Nat]
  BY DEF FindService, TypeOK
<1> HIDE DEF position, found
<1>5. Len(idsAndActors) \in Nat \ {0} /\ position \in 1 .. MaxEntries
  BY <1>1, <1>2, ServiceManagerAssumption DEF TypeOK
<1>6. recent' \in Seq(1 .. MaxEntries) /\ Len(recent') <= Len(idsAndActors)
  BY <1>3, <1>5, LastOnesType DEF TypeOK
<1>7. QED
  BY <1>2, <1>3, <1>4, <1>5, <1>6 DEF TypeOK

LEMMA TypeNext == TypeOK /\ [Next]_vars => TypeOK'
<1> SUFFICES ASSUME TypeOK, [Next]_vars
             PROVE  TypeOK'
  OBVIOUS
<1>1. ASSUME NEW id \in Ids, NEW actor \in Actors, AddId(id, actor)
      PROVE  TypeOK'
  BY <1>1, TypeAddId
<1>2. ASSUME NEW id \in Ids, RemoveActor(id)
      PROVE  TypeOK'
  BY <1>2, TypeRemoveActor
<1>3. ASSUME NEW id \in Ids, RemoveActorCrashes(id)
      PROVE  TypeOK'
  BY <1>3 DEF RemoveActorCrashes, TypeOK
<1>4. CASE FindOnEmpty
  BY <1>4 DEF FindOnEmpty, TypeOK
<1>5. CASE FindService
  BY <1>5, TypeFindService
<1>6. CASE ExitHandler
  BY <1>6, ServiceManagerAssumption DEF ExitHandler, TypeOK
<1>7. CASE CreatorReceives
  BY <1>7, ServiceManagerAssumption DEF CreatorReceives, TypeOK
<1>8. CASE UNCHANGED vars
  BY <1>8 DEF vars, TypeOK
<1>9. QED
  BY <1>1, <1>2, <1>3, <1>4, <1>5, <1>6, <1>7, <1>8 DEF Next

\* Whatever the number of ids and entries, and whatever ids are added or
\* removed, the vector holds pairs and the cursor stays within the bound.
THEOREM TypeCorrect == Spec => []TypeOK
<1>1. Init => TypeOK
  BY TypeInit
<1>2. TypeOK /\ [Next]_vars => TypeOK'
  BY TypeNext
<1>3. QED
  BY <1>1, <1>2, PTL DEF Spec

-----------------------------------------------------------------------------
(***************************************************************************)
(* Round robin                                                             *)
(*                                                                         *)
(* RoundRobin says nothing of the cursor, so it is not inductive.  The     *)
(* invariant behind it is that the positions of the round follow each      *)
(* other cyclically and that the cursor is the last of them.               *)
(***************************************************************************)
Cyclic(position, n) == IF position > n THEN position - n ELSE position

Following(position, n) == IF position >= n THEN 1 ELSE position + 1

\* The arithmetic of positions that go round and round.
LEMMA CyclicFollowing ==
    ASSUME NEW n \in Nat \ {0}, NEW a \in 1 .. n, NEW k \in 1 .. n
    PROVE  /\ Cyclic(a + k - 1, n) \in 1 .. n
           /\ Following(Cyclic(a + k - 1, n), n) = Cyclic(a + k, n)
  BY DEF Cyclic, Following

LEMMA CyclicRound ==
    ASSUME NEW n \in Nat \ {0}, NEW a \in 1 .. n
    PROVE  Cyclic(a + n, n) = a
  BY DEF Cyclic

LEMMA CyclicShift ==
    ASSUME NEW n \in Nat \ {0}, NEW a \in 1 .. n, NEW i \in 1 .. n
    PROVE  Cyclic(Cyclic(a + 1, n) + i - 1, n) = Cyclic(a + i, n)
  BY DEF Cyclic

LEMMA CyclicInjective ==
    ASSUME NEW n \in Nat \ {0}, NEW a \in 1 .. n, NEW i \in 1 .. n, NEW j \in 1 .. n,
           Cyclic(a + i - 1, n) = Cyclic(a + j - 1, n)
    PROVE  i = j
  BY DEF Cyclic

RoundShape ==
    /\ \A i \in 1 .. Len(recent) :
          /\ recent[i] \in 1 .. Len(idsAndActors)
          /\ recent[i] = Cyclic(recent[1] + i - 1, Len(idsAndActors))
    /\ Len(recent) > 0 => current = recent[Len(recent)]

LEMMA RoundShapeFind ==
    ASSUME TypeOK, RoundShape, FindService
    PROVE  RoundShape'
<1> DEFINE n == Len(idsAndActors)
           k == Len(recent)
           position == Wrapped(idsAndActors, current) + 1
           a == recent[1]
<1>1. /\ n \in Nat \ {0} /\ k \in 0 .. n /\ current \in Nat
      /\ recent \in Seq(Nat)
  BY ServiceManagerAssumption DEF TypeOK, FindService
<1>2. position = Following(current, n) /\ position \in 1 .. n
  BY <1>1 DEF Wrapped, Following
<1>3. /\ current' = position
      /\ recent' = LastOnes(Append(recent, position), n)
      /\ idsAndActors' = idsAndActors
  BY DEF FindService
<1>4. \A i \in 1 .. k : recent[i] \in 1 .. n /\ recent[i] = Cyclic(a + i - 1, n)
  BY DEF RoundShape
<1>5. ASSUME k > 0
      PROVE  a \in 1 .. n /\ position = Cyclic(a + k, n)
  <2>1. 1 \in 1 .. k /\ k \in 1 .. k /\ k \in 1 .. n
    BY <1>1, <1>5
  <2>2. a \in 1 .. n
    BY <1>4, <2>1
  <2>3. current = Cyclic(a + k - 1, n)
    BY <1>4, <1>5, <2>1 DEF RoundShape
  <2> HIDE DEF a, n, k, position
  <2>4. QED
    BY <1>1, <1>2, <2>1, <2>2, <2>3, CyclicFollowing
<1> HIDE DEF position
<1>6. CASE k < n
  <2>1. /\ Len(recent') = k + 1
        /\ recent'[k + 1] = position
        /\ \A i \in 1 .. k : recent'[i] = recent[i]
    BY <1>1, <1>2, <1>3, <1>6 DEF LastOnes
  <2>2. CASE k = 0
    <3>1. Len(recent') = 1 /\ recent'[1] = position
      BY <2>1, <2>2
    <3>2. position = Cyclic(position + 1 - 1, n)
      BY <1>1, <1>2 DEF Cyclic
    <3>3. QED
      BY <1>2, <1>3, <3>1, <3>2 DEF RoundShape
  <2>3. CASE k > 0
    <3>1. recent'[1] = a
      BY <1>1, <2>1, <2>3
    <3>2. ASSUME NEW i \in 1 .. k + 1
          PROVE  recent'[i] \in 1 .. n /\ recent'[i] = Cyclic(a + i - 1, n)
      <4>1. CASE i = k + 1
        <5>1. a + i - 1 = a + k
          BY <1>1, <1>5, <2>3, <4>1
        <5>2. QED
          BY <1>2, <1>5, <2>1, <2>3, <4>1, <5>1
      <4>2. CASE i # k + 1
        <5>1. i \in 1 .. k
          BY <1>1, <4>2
        <5>2. QED
          BY <1>4, <2>1, <5>1
      <4>3. QED
        BY <4>1, <4>2
    <3>3. QED
      BY <1>3, <2>1, <3>1, <3>2 DEF RoundShape
  <2>4. QED
    BY <1>1, <2>2, <2>3
<1>7. CASE k = n
  <2>1. /\ Len(recent') = n
        /\ recent'[n] = position
        /\ \A i \in 1 .. n - 1 : recent'[i] = recent[i + 1]
    <3>1. recent' = Tail(Append(recent, position))
      BY <1>1, <1>2, <1>3, <1>7 DEF LastOnes
    <3>2. /\ Append(recent, position) \in Seq(Nat)
          /\ Len(Append(recent, position)) = n + 1
          /\ Append(recent, position)[n + 1] = position
          /\ \A i \in 1 .. n : Append(recent, position)[i] = recent[i]
      BY <1>1, <1>2, <1>7
    <3> DEFINE longer == Append(recent, position)
    <3> HIDE DEF longer, n
    <3>3. QED
      BY <1>1, <3>1, <3>2 DEF longer
  <2>2. a \in 1 .. n /\ position = a
    <3>1. a \in 1 .. n /\ position = Cyclic(a + n, n)
      BY <1>1, <1>5, <1>7
    <3> HIDE DEF a, n
    <3>2. QED
      BY <1>1, <3>1, CyclicRound
  <2>3. ASSUME NEW i \in 1 .. n
        PROVE  recent'[i] \in 1 .. n /\ recent'[i] = Cyclic(a + i, n)
    <3>1. CASE i = n
      BY <1>2, <1>5, <1>7, <1>1, <2>1, <3>1
    <3>2. CASE i # n
      <4>1. i + 1 \in 1 .. k /\ i \in 1 .. n - 1
        BY <1>1, <1>7, <3>2
      <4>2. a + (i + 1) - 1 = a + i
        BY <2>2
      <4>3. QED
        BY <1>4, <2>1, <4>1, <4>2
    <3>3. QED
      BY <3>1, <3>2
  <2>4. recent'[1] = Cyclic(a + 1, n)
    BY <1>1, <2>3
  <2>5. ASSUME NEW i \in 1 .. n
        PROVE  recent'[i] = Cyclic(recent'[1] + i - 1, n)
    <3>1. recent'[i] = Cyclic(a + i, n)
      BY <2>3
    <3> HIDE DEF a, n
    <3>2. Cyclic(Cyclic(a + 1, n) + i - 1, n) = Cyclic(a + i, n)
      BY <1>1, <2>2, CyclicShift
    <3>3. QED
      BY <2>4, <3>1, <3>2
  <2>6. QED
    BY <1>1, <1>3, <2>1, <2>3, <2>5 DEF RoundShape
<1>8. QED
  BY <1>1, <1>6, <1>7

LEMMA RoundShapeNext == TypeOK /\ RoundShape /\ [Next]_vars => RoundShape'
<1> SUFFICES ASSUME TypeOK, RoundShape, [Next]_vars
             PROVE  RoundShape'
  OBVIOUS
<1>1. ASSUME recent' = <<>>
      PROVE  RoundShape'
  BY <1>1 DEF RoundShape
<1>2. ASSUME UNCHANGED <<idsAndActors, current, recent>>
      PROVE  RoundShape'
  BY <1>2 DEF RoundShape
<1>3. ASSUME NEW id \in Ids, NEW actor \in Actors, AddId(id, actor)
      PROVE  RoundShape'
  BY <1>1, <1>3 DEF AddId, NewRound
<1>4. ASSUME NEW id \in Ids, RemoveActor(id)
      PROVE  RoundShape'
  BY <1>1, <1>4 DEF RemoveActor, NewRound
<1>5. ASSUME NEW id \in Ids, RemoveActorCrashes(id)
      PROVE  RoundShape'
  BY <1>2, <1>5 DEF RemoveActorCrashes
<1>6. CASE FindOnEmpty
  BY <1>2, <1>6 DEF FindOnEmpty
<1>7. CASE FindService
  BY <1>7, RoundShapeFind
<1>8. CASE ExitHandler
  BY <1>2, <1>8 DEF ExitHandler
<1>9. CASE CreatorReceives
  BY <1>2, <1>9 DEF CreatorReceives
<1>10. CASE UNCHANGED vars
  BY <1>2, <1>10 DEF vars
<1>11. QED
  BY <1>3, <1>4, <1>5, <1>6, <1>7, <1>8, <1>9, <1>10 DEF Next

\* No runner is handed out twice in a round, for vectors of any length and
\* wherever earlier additions and removals have left the cursor.
THEOREM RoundRobinHolds == Spec => []RoundRobin
<1>1. Init => RoundShape
  BY DEF Init, RoundShape
<1>2. TypeOK /\ RoundShape => RoundRobin
  <2> SUFFICES ASSUME TypeOK, RoundShape,
                      NEW i \in DOMAIN recent, NEW j \in DOMAIN recent,
                      recent[i] = recent[j]
               PROVE  i = j
    BY DEF RoundRobin
  <2> DEFINE n == Len(idsAndActors)
           a == recent[1]
  <2>1. /\ n \in Nat \ {0}
        /\ i \in 1 .. n /\ j \in 1 .. n
        /\ i \in 1 .. Len(recent) /\ j \in 1 .. Len(recent) /\ 1 \in 1 .. Len(recent)
    BY DEF TypeOK
  <2>2. /\ recent[i] = Cyclic(a + i - 1, n)
        /\ recent[j] = Cyclic(a + j - 1, n)
        /\ a \in 1 .. n
    BY <2>1 DEF RoundShape
  <2> HIDE DEF n, a
  <2>3. QED
    BY <2>1, <2>2, CyclicInjective
<1>3. QED
  BY <1>1, <1>2, TypeCorrect, RoundShapeNext, PTL DEF Spec

-----------------------------------------------------------------------------
(***************************************************************************)
(* From here on no id is added while it is listed: removals are exact, find*)
(* answers real runners, and no listed runner waits longer than WaitBound  *)
(* finds.                                                                  *)
(***************************************************************************)

-----------------------------------------------------------------------------
(***************************************************************************)
(* The order of the kept positions                                         *)
(***************************************************************************)

\* The least-number principle, for sets.
LEMMA LeastElement ==
    ASSUME NEW T \in SUBSET Nat, T # {}
    PROVE  \E m \in T : \A k \in T : m <= k
<1>1. PICK m \in T : \A k \in T : ~ (<<k, m>> \in OpToRel(<, Nat))
  BY NatLessThanWellFounded, WFMin
<1>2. ASSUME NEW k \in T, k < m
      PROVE  FALSE
  <2>1. <<k, m>> \in OpToRel(<, Nat)
    BY <1>2 DEF OpToRel
  <2>2. QED
    BY <1>1, <2>1
<1>3. QED
  BY <1>2

\* at enumerates 1 .. n without r in increasing order.
EnumeratesWithout(n, r, at) ==
    /\ n \in Nat /\ r \in 1 .. n
    /\ at \in [1 .. n - 1 -> (1 .. n) \ {r}]
    /\ \A i, j \in 1 .. n - 1 : i < j => at[i] < at[j]

LEMMA OrderWithoutOne ==
    ASSUME NEW n, NEW r, NEW at, EnumeratesWithout(n, r, at)
    PROVE  \A i \in 1 .. n - 1 : at[i] = IF i < r THEN i ELSE i + 1
<1> USE DEF EnumeratesWithout
<1>1. \A i \in 1 .. n - 1 : at[i] >= i
  <2> DEFINE T == {i \in 1 .. n - 1 : at[i] < i}
  <2>1. SUFFICES ASSUME T # {}
                 PROVE  FALSE
    OBVIOUS
  <2>2. PICK m \in T : \A k \in T : m <= k
    <3>1. T \in SUBSET Nat
      OBVIOUS
    <3> HIDE DEF T
    <3>2. QED
      BY <2>1, <3>1, LeastElement
  <2>3. m > 1
    OBVIOUS
  <2>4. m - 1 \in 1 .. n - 1 /\ m - 1 \notin T
    BY <2>2, <2>3
  <2>5. QED
    BY <2>3, <2>4
<1>2. \A i \in 1 .. n - 1 : at[i] <= i + 1
  <2> DEFINE T == {d \in 0 .. n - 2 : at[n - 1 - d] > n - d}
  <2>1. SUFFICES ASSUME T # {}
                 PROVE  FALSE
    <3>1. ASSUME NEW i \in 1 .. n - 1, ~ (at[i] <= i + 1)
          PROVE  T # {}
      <4>1. /\ n - 1 - i \in 0 .. n - 2
            /\ n - 1 - (n - 1 - i) = i
            /\ n - (n - 1 - i) = i + 1
        OBVIOUS
      <4>2. at[i] > i + 1
        BY <3>1
      <4>3. n - 1 - i \in T
        BY <4>1, <4>2
      <4>4. QED
        BY <4>3
    <3>2. QED
      BY <3>1
  <2>2. PICK m \in T : \A k \in T : m <= k
    <3>1. T \in SUBSET Nat
      OBVIOUS
    <3> HIDE DEF T
    <3>2. QED
      BY <2>1, <3>1, LeastElement
  <2>3. m > 0
    OBVIOUS
  <2>4. /\ m - 1 \in 0 .. n - 2 /\ m - 1 \notin T
        /\ n - 1 - (m - 1) = n - m
        /\ n - (m - 1) = n - m + 1
    <3>1. m \in 0 .. n - 2
      OBVIOUS
    <3> HIDE DEF T
    <3>2. m - 1 \notin T
      BY <2>2, <2>3, <3>1
    <3>3. QED
      BY <2>3, <3>1, <3>2
  <2>5. at[n - m] <= n - m + 1
    BY <2>3, <2>4
  <2>6. at[n - 1 - m] < at[n - m]
    BY <2>3
  <2>7. QED
    BY <2>3, <2>5, <2>6
<1>3. \A i \in r .. n - 1 : at[i] # i
  <2> DEFINE T == {i \in r .. n - 1 : at[i] = i}
  <2>1. SUFFICES ASSUME T # {}
                 PROVE  FALSE
    OBVIOUS
  <2>2. PICK m \in T : \A k \in T : m <= k
    <3>1. T \in SUBSET Nat
      OBVIOUS
    <3> HIDE DEF T
    <3>2. QED
      BY <2>1, <3>1, LeastElement
  <2>3. m > r /\ m \in 1 .. n - 1
    OBVIOUS
  <2>4. m - 1 \in r .. n - 1 /\ m - 1 \notin T /\ m - 1 \in 1 .. n - 1
    BY <2>2, <2>3
  <2>5. at[m - 1] >= m
    BY <1>1, <2>4
  <2>6. at[m - 1] < at[m] /\ at[m] = m
    BY <2>3, <2>4
  <2>7. QED
    BY <2>3, <2>5, <2>6
<1>4. \A i \in 1 .. n - 1 : i < r => at[i] # i + 1
  <2> DEFINE T == {d \in 0 .. n - 2 : n - 1 - d < r /\ at[n - 1 - d] = n - d}
  <2>1. SUFFICES ASSUME T # {}
                 PROVE  FALSE
    <3>1. ASSUME NEW i \in 1 .. n - 1
          PROVE  /\ n - 1 - i \in 0 .. n - 2
                 /\ n - 1 - (n - 1 - i) = i
                 /\ n - (n - 1 - i) = i + 1
      OBVIOUS
    <3>2. QED
      BY <3>1
  <2>2. PICK m \in T : \A k \in T : m <= k
    <3>1. T \in SUBSET Nat
      OBVIOUS
    <3> HIDE DEF T
    <3>2. QED
      BY <2>1, <3>1, LeastElement
  <2>3. /\ n - 1 - m < r /\ n - 1 - m \in 1 .. n - 1
        /\ at[n - 1 - m] = n - m
    OBVIOUS
  <2>4. n - m # r
    BY <2>3
  <2>5. n - m < r /\ m > 0 /\ n - m \in 1 .. n - 1
    BY <2>3, <2>4
  <2>6. /\ m - 1 \in 0 .. n - 2 /\ m - 1 \notin T
        /\ n - 1 - (m - 1) = n - m
        /\ n - (m - 1) = n - m + 1
    <3>1. m \in 0 .. n - 2
      OBVIOUS
    <3> HIDE DEF T
    <3>2. m - 1 \notin T
      BY <2>2, <2>5, <3>1
    <3>3. QED
      BY <2>5, <3>1, <3>2
  <2>7. at[n - m] # n - m + 1
    BY <2>5, <2>6
  <2>8. at[n - m] = n - m
    BY <1>1, <1>2, <2>5, <2>7
  <2>9. at[n - 1 - m] < at[n - m]
    BY <2>3, <2>5
  <2>10. QED
    BY <2>3, <2>8, <2>9
<1>5. ASSUME NEW i \in 1 .. n - 1
      PROVE  at[i] = IF i < r THEN i ELSE i + 1
  <2>1. at[i] = i \/ at[i] = i + 1
    <3>1. at[i] \in Nat /\ i <= at[i] /\ at[i] <= i + 1
      BY <1>1, <1>2
    <3>2. QED
      BY <3>1
  <2>2. CASE i < r
    BY <1>4, <2>1, <2>2
  <2>3. CASE ~ (i < r)
    <3>1. i \in r .. n - 1
      BY <2>3
    <3>2. QED
      BY <1>3, <2>1, <2>3, <3>1
  <2>4. QED
    BY <2>2, <2>3
<1>6. QED
  BY <1>5

-----------------------------------------------------------------------------
(***************************************************************************)
(* Removals are exact                                                      *)
(***************************************************************************)

\* s lists real runners, each id once.
ListsOnce(s) ==
    /\ s \in Seq(Entries)
    /\ \A p, q \in 1 .. Len(s) : s[p].id = s[q].id => p = q

\* Removing an id that is listed once takes out its element and no other.
LEMMA RemoveListed ==
    ASSUME NEW s, ListsOnce(s), NEW r \in 1 .. Len(s),
           NEW list \in RemoveOutcomes(s, s[r].id)
    PROVE  list = RemoveAt(s, r)
<1> DEFINE n    == Len(s)
           id   == s[r].id
           kept == KeptPositions(s, id)
<1>1. /\ s \in Seq(Entries) /\ s \in Seq(Slots)
      /\ n \in Nat \ {0} /\ r \in 1 .. n /\ DOMAIN s = 1 .. n
  BY DEF ListsOnce, Slots
<1>2. kept = (1 .. n) \ {r}
  BY <1>1 DEF ListsOnce, KeptPositions
<1>3. Cardinality(kept) = n - 1
  <2>1. n \in Int /\ 1 \in Int
    BY <1>1
  <2>2. IsFiniteSet(1 .. n) /\ Cardinality(1 .. n) = n
    BY <1>1, <2>1, FS_Interval
  <2> HIDE DEF n, kept
  <2>3. QED
    BY <1>1, <1>2, <2>2, FS_RemoveElement
<1>4. Occurs(s, id)
  BY <1>1 DEF Occurs
<1>5. PICK at \in KeptOrders(s, id) :
        list = RemoveAt(AfterRemoveIf(s, id, at), Cardinality(kept) + 1)
  BY <1>4 DEF RemoveOutcomes
<1>6. /\ at \in [1 .. n - 1 -> (1 .. n) \ {r}]
      /\ \A i, j \in 1 .. n - 1 : i < j => at[i] < at[j]
  BY <1>2, <1>3 DEF KeptOrders
<1>7. \A i \in 1 .. n - 1 : at[i] = IF i < r THEN i ELSE i + 1
  <2> HIDE DEF n
  <2>1. EnumeratesWithout(n, r, at)
    BY <1>1, <1>6 DEF EnumeratesWithout
  <2>2. QED
    BY <2>1, OrderWithoutOne
<1> DEFINE v == AfterRemoveIf(s, id, at)
<1>8. /\ v \in Seq(Slots) /\ Len(v) = n
      /\ \A q \in 1 .. n - 1 : v[q] = s[at[q]]
  <2>1. v \in [1 .. n -> Slots]
    BY <1>1, <1>6 DEF AfterRemoveIf, Slots
  <2>2. \A q \in 1 .. n - 1 : v[q] = s[at[q]]
    BY <1>1, <1>6 DEF AfterRemoveIf
  <2> HIDE DEF v
  <2>3. QED
    BY <1>1, <2>1, <2>2
<1>9. list = RemoveAt(v, n)
  <2>1. Cardinality(kept) + 1 = n
    BY <1>1, <1>3
  <2>2. QED
    BY <1>5, <2>1
<1> HIDE DEF v, n
<1>10. /\ list \in Seq(Slots) /\ Len(list) = n - 1
       /\ \A q \in 1 .. n - 1 : list[q] = IF q < n THEN v[q] ELSE v[q + 1]
  <2>1. n \in 1 .. Len(v)
    BY <1>1, <1>8
  <2>2. QED
    BY <1>8, <1>9, <2>1, RemoveAtProperties
<1>11. /\ RemoveAt(s, r) \in Seq(Slots) /\ Len(RemoveAt(s, r)) = n - 1
       /\ \A q \in 1 .. n - 1 : RemoveAt(s, r)[q] = IF q < r THEN s[q] ELSE s[q + 1]
  BY <1>1, RemoveAtProperties DEF n
<1>12. ASSUME NEW q \in 1 .. n - 1
       PROVE  list[q] = RemoveAt(s, r)[q]
  <2>1. list[q] = s[at[q]]
    BY <1>1, <1>8, <1>10
  <2>2. CASE q < r
    BY <1>7, <1>11, <2>1, <2>2
  <2>3. CASE ~ (q < r)
    BY <1>7, <1>11, <2>1, <2>3
  <2>4. QED
    BY <2>2, <2>3
<1>13. QED
  BY <1>10, <1>11, <1>12, SeqEqual

\* What a sequence without its r-th element keeps of listing ids once.
LEMMA RemoveAtListsOnce ==
    ASSUME NEW s, ListsOnce(s), NEW r \in 1 .. Len(s)
    PROVE  /\ ListsOnce(RemoveAt(s, r))
           /\ ~ Occurs(RemoveAt(s, r), s[r].id)
<1> DEFINE list == RemoveAt(s, r)
           n    == Len(s)
<1>1. /\ list \in Seq(Entries) /\ Len(list) = n - 1
      /\ \A q \in 1 .. n - 1 : list[q] = IF q < r THEN s[q] ELSE s[q + 1]
  BY RemoveAtProperties DEF ListsOnce
<1>2. n \in Nat \ {0} /\ r \in 1 .. n /\ s \in Seq(Entries)
  BY DEF ListsOnce
<1>3. \A p, q \in 1 .. n : s[p].id = s[q].id => p = q
  BY DEF ListsOnce
<1> HIDE DEF list, n
<1>4. ASSUME NEW q \in 1 .. n - 1
      PROVE  list[q].id # s[r].id
  <2>1. CASE q < r
    <3>1. q \in 1 .. n /\ q # r /\ list[q] = s[q]
      BY <1>1, <1>2, <2>1
    <3>2. QED
      BY <1>2, <1>3, <3>1
  <2>2. CASE ~ (q < r)
    <3>1. q + 1 \in 1 .. n /\ q + 1 # r /\ list[q] = s[q + 1]
      BY <1>1, <1>2, <2>2
    <3>2. QED
      BY <1>2, <1>3, <3>1
  <2>3. QED
    BY <2>1, <2>2
<1>5. ASSUME NEW p \in 1 .. n - 1, NEW q \in 1 .. n - 1, list[p].id = list[q].id
      PROVE  p = q
  <2> DEFINE before(k) == IF k < r THEN k ELSE k + 1
  <2>1. /\ before(p) \in 1 .. n /\ before(q) \in 1 .. n
        /\ list[p] = s[before(p)] /\ list[q] = s[before(q)]
    BY <1>1, <1>2
  <2>2. before(p) = before(q)
    BY <1>3, <1>5, <2>1
  <2>3. QED
    BY <1>2, <2>2
<1>6. DOMAIN list = 1 .. n - 1
  BY <1>1, <1>2
<1>7. QED
  BY <1>1, <1>4, <1>5, <1>6 DEF ListsOnce, Occurs, list

-----------------------------------------------------------------------------
(***************************************************************************)
(* How long a listed id can still be made to wait                          *)
(*                                                                         *)
(* Every find moves the cursor one position on.  When the cursor stands    *)
(* right before position p, the removal of an earlier element moves the    *)
(* listed id to p - 1 and so behind the cursor: a round of at most         *)
(* MaxEntries finds is lost, but so is one of the p - 1 positions that     *)
(* can be lost in this way.                                                *)
(***************************************************************************)
Left(p, c) == IF c < p THEN (p - 1) * MaxEntries - c ELSE p * MaxEntries - c

LEMMA LeftBounds ==
    ASSUME NEW p \in 1 .. MaxEntries, NEW c \in 0 .. MaxEntries
    PROVE  Left(p, c) \in 0 .. WaitBound
<1> DEFINE M == MaxEntries
<1>1. M \in Nat /\ p \in Nat /\ c \in Nat /\ 1 <= p /\ p <= M /\ c <= M
  BY ServiceManagerAssumption
<1>2. /\ (p - 1) * M <= (M - 1) * M
      /\ p * M = (p - 1) * M + M
      /\ M * (M - 1) = (M - 1) * M
      /\ p - 1 <= (p - 1) * M
      /\ p < M => p * M <= (M - 1) * M
      /\ p = M => p * M = (M - 1) * M + M
  BY <1>1
<1>3. WaitBound = M * (M - 1)
  BY DEF WaitBound
<1>4. /\ (p - 1) * M \in Int /\ p * M \in Int /\ (M - 1) * M \in Int
  BY <1>1
<1>5. CASE c < p
  BY <1>1, <1>2, <1>3, <1>4, <1>5 DEF Left
<1>6. CASE ~ (c < p)
  BY <1>1, <1>2, <1>3, <1>4, <1>6 DEF Left
<1>7. QED
  BY <1>5, <1>6

\* Moving one position to the front never makes an id wait longer.
LEMMA LeftMovedUp ==
    ASSUME NEW p \in 2 .. MaxEntries, NEW c \in 0 .. MaxEntries
    PROVE  Left(p - 1, c) <= Left(p, c)
<1> DEFINE M == MaxEntries
<1>1. M \in Nat /\ p \in Nat /\ c \in Nat /\ p >= 2
  BY ServiceManagerAssumption
<1>2. p * M = (p - 1) * M + M /\ (p - 1) * M = (p - 2) * M + M
  BY <1>1
<1>3. p * M \in Int /\ (p - 1) * M \in Int /\ (p - 2) * M \in Int /\ p - 1 - 1 = p - 2
  BY <1>1
<1>4. QED
  BY <1>1, <1>2, <1>3 DEF Left

\* A find that answers another position uses up one of the finds left.
LEMMA LeftAfterFind ==
    ASSUME NEW n \in 1 .. MaxEntries, NEW p \in 1 .. n, NEW c \in 0 .. MaxEntries,
           p # Following(c, n)
    PROVE  Left(p, Following(c, n)) + 1 <= Left(p, c)
<1> DEFINE M == MaxEntries
<1>1. /\ M \in Nat /\ p \in Nat /\ c \in Nat /\ n \in Nat
      /\ 1 <= p /\ p <= n /\ n <= M /\ c <= M
  BY ServiceManagerAssumption
<1>2. p * M = (p - 1) * M + M /\ p * M \in Int /\ (p - 1) * M \in Int
  BY <1>1
<1>3. CASE c >= n
  BY <1>1, <1>2, <1>3 DEF Left, Following
<1>4. CASE c < n
  BY <1>1, <1>2, <1>4 DEF Left, Following
<1>5. QED
  BY <1>1, <1>3, <1>4

\* What holds of a manager that is never given an id it already lists.
UniqueInv ==
    /\ ListsOnce(idsAndActors)
    /\ answer \in Entries \cup {NoAnswer, RuntimeError}
    /\ \A p \in 1 .. Len(idsAndActors) :
          waits[idsAndActors[p].id] + Left(p, current) <= WaitBound
    /\ \A id \in Ids : ~ Occurs(idsAndActors, id) => waits[id] = 0

LEMMA UniqueAddId ==
    ASSUME UniqueIds, TypeOK, UniqueInv,
           NEW id \in Ids, NEW actor \in Actors, AddId(id, actor)
    PROVE  UniqueInv'
<1> DEFINE n    == Len(idsAndActors)
           new  == [id |-> id, actor |-> actor]
           list == Append(idsAndActors, new)
<1>1. /\ idsAndActors \in Seq(Entries) /\ n \in Nat /\ n < MaxEntries
      /\ new \in Entries /\ current \in 0 .. MaxEntries
      /\ waits \in [Ids -> Nat]
  BY DEF UniqueInv, ListsOnce, TypeOK, AddId, Entries
<1>2. /\ idsAndActors' = list /\ current' = current /\ answer' = answer
      /\ waits' = [i \in Ids |-> IF Occurs(idsAndActors', i) THEN waits[i] ELSE 0]
      /\ ~ Occurs(idsAndActors, id)
  BY DEF AddId, EmplaceBack, NewRound
<1>3. /\ list \in Seq(Entries) /\ Len(list) = n + 1
      /\ list[n + 1] = new
      /\ \A p \in 1 .. n : list[p] = idsAndActors[p]
  BY <1>1
<1>4. /\ new.id = id
      /\ \A p \in 1 .. n : idsAndActors[p].id # id /\ idsAndActors[p].id \in Ids
  <2>1. new.id = id
    OBVIOUS
  <2>2. ASSUME NEW p \in 1 .. n
        PROVE  idsAndActors[p].id # id /\ idsAndActors[p].id \in Ids
    <3>1. idsAndActors[p] \in Entries /\ p \in DOMAIN idsAndActors
      BY <1>1
    <3>2. QED
      BY <1>2, <3>1 DEF Occurs, Entries
  <2>3. QED
    BY <2>1, <2>2
<1>5. \A p, q \in 1 .. n : idsAndActors[p].id = idsAndActors[q].id => p = q
  BY DEF UniqueInv, ListsOnce
<1> HIDE DEF list, new
<1>6. ListsOnce(list)
  <2>1. ASSUME NEW p \in 1 .. n + 1, NEW q \in 1 .. n + 1, list[p].id = list[q].id
        PROVE  p = q
    <3>1. CASE p = n + 1 /\ q # n + 1
      <4>1. q \in 1 .. n
        BY <1>1, <3>1
      <4>2. QED
        BY <1>3, <1>4, <2>1, <3>1, <4>1
    <3>2. CASE p # n + 1 /\ q = n + 1
      <4>1. p \in 1 .. n
        BY <1>1, <3>2
      <4>2. QED
        BY <1>3, <1>4, <2>1, <3>2, <4>1
    <3>3. CASE p # n + 1 /\ q # n + 1
      <4>1. p \in 1 .. n /\ q \in 1 .. n
        BY <1>1, <3>3
      <4>2. QED
        BY <1>3, <1>5, <2>1, <4>1
    <3>4. QED
      BY <3>1, <3>2, <3>3
  <2>2. QED
    BY <1>3, <2>1 DEF ListsOnce
<1>7. ASSUME NEW p \in 1 .. n + 1
      PROVE  waits'[list[p].id] + Left(p, current) <= WaitBound
  <2>1. CASE p = n + 1
    <3>1. waits'[id] = 0
      BY <1>2, <1>4 DEF UniqueInv
    <3>2. Left(p, current) <= WaitBound /\ Left(p, current) \in Nat
      <4>1. p \in 1 .. MaxEntries
        BY <1>1, <2>1, ServiceManagerAssumption
      <4>2. QED
        BY <1>1, <4>1, LeftBounds
    <3>3. QED
      BY <1>3, <1>4, <2>1, <3>1, <3>2
  <2>2. CASE p # n + 1
    <3>1. p \in 1 .. n
      BY <1>1, <2>2
    <3>2. Occurs(list, list[p].id) /\ list[p].id \in Ids
      BY <1>3, <1>4, <3>1 DEF Occurs
    <3>3. waits'[list[p].id] = waits[idsAndActors[p].id]
      BY <1>2, <1>3, <3>1, <3>2
    <3>4. QED
      BY <1>3, <3>1, <3>3 DEF UniqueInv
  <2>3. QED
    BY <2>1, <2>2
<1>8. \A i \in Ids : ~ Occurs(idsAndActors', i) => waits'[i] = 0
  BY <1>2
<1>9. QED
  BY <1>2, <1>3, <1>6, <1>7, <1>8 DEF UniqueInv

\* An id that is listed at p before a removal of another one, at r.
LEMMA UniqueRemoveListed ==
    ASSUME TypeOK, UniqueInv, NEW r \in 1 .. Len(idsAndActors),
           idsAndActors' = RemoveAt(idsAndActors, r),
           NewRound, UNCHANGED <<current, answer>>
    PROVE  UniqueInv'
<1> DEFINE n    == Len(idsAndActors)
           list == RemoveAt(idsAndActors, r)
<1>1. /\ idsAndActors \in Seq(Entries) /\ n \in Nat \ {0} /\ n <= MaxEntries
      /\ current \in 0 .. MaxEntries /\ waits \in [Ids -> Nat] /\ r \in 1 .. n
  BY DEF UniqueInv, ListsOnce, TypeOK
<1>2. waits' = [i \in Ids |-> IF Occurs(idsAndActors', i) THEN waits[i] ELSE 0]
  BY DEF NewRound
<1>3. ListsOnce(list)
  BY RemoveAtListsOnce DEF UniqueInv
<1>4. /\ list \in Seq(Entries) /\ Len(list) = n - 1
      /\ \A q \in 1 .. n - 1 :
            list[q] = IF q < r THEN idsAndActors[q] ELSE idsAndActors[q + 1]
  BY <1>1, RemoveAtProperties
<1> HIDE DEF list
<1>5. ASSUME NEW q \in 1 .. n - 1
      PROVE  waits'[list[q].id] + Left(q, current) <= WaitBound
  <2>1. Occurs(list, list[q].id) /\ list[q].id \in Ids
    <3>1. list[q] \in Entries /\ q \in DOMAIN list
      BY <1>1, <1>4
    <3>2. QED
      BY <3>1 DEF Occurs, Entries
  <2>2. waits'[list[q].id] = waits[list[q].id] /\ waits[list[q].id] \in Nat
    BY <1>1, <1>2, <2>1 DEF list
  <2>3. CASE q < r
    <3>1. list[q] = idsAndActors[q] /\ q \in 1 .. n
      BY <1>1, <1>4, <2>3
    <3>2. QED
      BY <2>2, <3>1 DEF UniqueInv
  <2>4. CASE ~ (q < r)
    <3>1. list[q] = idsAndActors[q + 1] /\ q + 1 \in 1 .. n
      BY <1>1, <1>4, <2>4
    <3>2. waits[list[q].id] + Left(q + 1, current) <= WaitBound
      BY <3>1 DEF UniqueInv
    <3>3. /\ q + 1 \in 2 .. MaxEntries /\ q + 1 \in 1 .. MaxEntries
          /\ q \in 1 .. MaxEntries /\ q + 1 - 1 = q
      BY <1>1, ServiceManagerAssumption
    <3>4. Left(q, current) <= Left(q + 1, current)
      BY <1>1, <3>3, LeftMovedUp
    <3>5. /\ Left(q, current) \in 0 .. WaitBound
          /\ Left(q + 1, current) \in 0 .. WaitBound
      BY <1>1, <3>3, LeftBounds
    <3>6. WaitBound \in Int
      BY ServiceManagerAssumption DEF WaitBound
    <3>7. QED
      BY <2>2, <3>2, <3>4, <3>5, <3>6
  <2>5. QED
    BY <2>3, <2>4
<1>6. \A i \in Ids : ~ Occurs(idsAndActors', i) => waits'[i] = 0
  BY <1>2
<1>7. /\ ListsOnce(idsAndActors')
      /\ \A q \in 1 .. Len(idsAndActors') :
            waits'[idsAndActors'[q].id] + Left(q, current') <= WaitBound
  BY <1>3, <1>4, <1>5 DEF list
<1>8. QED
  BY <1>6, <1>7 DEF UniqueInv

LEMMA UniqueRemoveActor ==
    ASSUME TypeOK, UniqueInv, NEW id \in Ids, RemoveActor(id)
    PROVE  UniqueInv'
<1> DEFINE n == Len(idsAndActors)
<1>1. /\ idsAndActors' \in RemoveOutcomes(idsAndActors, id)
      /\ NewRound /\ UNCHANGED <<current, answer>>
  BY DEF RemoveActor
<1>2. /\ ListsOnce(idsAndActors) /\ idsAndActors \in Seq(Entries)
      /\ n \in Nat /\ DOMAIN idsAndActors = 1 .. n
  BY DEF UniqueInv, ListsOnce
<1>3. PICK r \in 1 .. n : idsAndActors' = RemoveAt(idsAndActors, r)
  <2>1. CASE Occurs(idsAndActors, id)
    <3>1. PICK r \in 1 .. n : idsAndActors[r].id = id
      BY <1>2, <2>1 DEF Occurs
    <3>2. idsAndActors' = RemoveAt(idsAndActors, r)
      BY <1>1, <1>2, <3>1, RemoveListed
    <3>3. QED
      BY <3>2
  <2>2. CASE ~ Occurs(idsAndActors, id)
    <3>1. idsAndActors # <<>> /\ idsAndActors' = SubSeq(idsAndActors, 1, n - 1)
      BY <1>1, <2>2 DEF RemoveOutcomes
    <3>2. n \in 1 .. n
      BY <1>2, <3>1
    <3>3. PICK m \in Nat : n = m + 1
      <4>1. n - 1 \in Nat
        BY <3>2
      <4>2. QED
        BY <4>1
    <3>4. n - 1 = m
      BY <3>3
    <3> DEFINE short == SubSeq(idsAndActors, 1, m)
               list  == RemoveAt(idsAndActors, n)
    <3>5. /\ short \in Seq(Entries) /\ Len(short) = m
          /\ \A q \in 1 .. m : short[q] = idsAndActors[q]
      BY <1>2, <3>3, DropLastProperties
    <3>6. /\ list \in Seq(Entries) /\ Len(list) = m
          /\ \A q \in 1 .. m :
                list[q] = IF q < n THEN idsAndActors[q] ELSE idsAndActors[q + 1]
      BY <1>2, <3>2, <3>4, RemoveAtProperties
    <3>7. idsAndActors' = short
      BY <3>1, <3>4
    <3> HIDE DEF short, list, n
    <3>8. \A q \in 1 .. m : short[q] = list[q]
      BY <3>3, <3>5, <3>6
    <3>9. short = list
      BY <3>5, <3>6, <3>8, SeqEqual
    <3>10. QED
      BY <3>2, <3>7, <3>9 DEF list
  <2>3. QED
    BY <2>1, <2>2
<1>4. QED
  BY <1>1, <1>3, UniqueRemoveListed

LEMMA UniqueFindService ==
    ASSUME TypeOK, UniqueInv, FindService
    PROVE  UniqueInv'
<1> DEFINE n        == Len(idsAndActors)
           position == Following(current, n)
           found    == idsAndActors[position]
<1>1. /\ idsAndActors \in Seq(Entries) /\ n \in 1 .. MaxEntries /\ n \in Nat
      /\ current \in 0 .. MaxEntries /\ waits \in [Ids -> Nat]
      /\ DOMAIN idsAndActors = 1 .. n
  BY ServiceManagerAssumption DEF UniqueInv, ListsOnce, TypeOK, FindService
<1>2. Wrapped(idsAndActors, current) + 1 = position /\ position \in 1 .. n
  BY <1>1, ServiceManagerAssumption DEF Wrapped, Following
<1>3. /\ idsAndActors' = idsAndActors /\ answer' = found /\ current' = position
      /\ waits' = [i \in Ids |-> IF i = found.id \/ ~ Occurs(idsAndActors, i)
                                  THEN 0 ELSE waits[i] + 1]
  BY <1>2 DEF FindService, ElementAtCursor
<1>4. found \in Entries /\ \A p \in 1 .. n : idsAndActors[p] \in Entries
  BY <1>1, <1>2
<1>5. ASSUME NEW p \in 1 .. n
      PROVE  waits'[idsAndActors[p].id] + Left(p, position) <= WaitBound
  <2> DEFINE id == idsAndActors[p].id
  <2>1. id \in Ids /\ Occurs(idsAndActors, id) /\ waits[id] \in Nat
    BY <1>1, <1>4 DEF Entries, Occurs
  <2>2. /\ p \in 1 .. MaxEntries /\ position \in 0 .. MaxEntries
        /\ WaitBound \in Int
    BY <1>1, <1>2, ServiceManagerAssumption DEF WaitBound
  <2>3. Left(p, position) \in 0 .. WaitBound /\ Left(p, current) \in 0 .. WaitBound
    BY <1>1, <2>2, LeftBounds
  <2>4. CASE p = position
    BY <1>3, <2>1, <2>2, <2>3, <2>4
  <2>5. CASE p # position
    <3>1. id # found.id
      BY <1>2, <2>5 DEF UniqueInv, ListsOnce
    <3>2. waits'[id] = waits[id] + 1
      BY <1>3, <2>1, <3>1
    <3>3. waits[id] + Left(p, current) <= WaitBound
      BY DEF UniqueInv
    <3>4. Left(p, position) + 1 <= Left(p, current)
      BY <1>1, <2>5, LeftAfterFind
    <3>5. QED
      BY <2>1, <2>2, <2>3, <3>2, <3>3, <3>4
  <2>6. QED
    BY <2>4, <2>5
<1>6. \A i \in Ids : ~ Occurs(idsAndActors', i) => waits'[i] = 0
  BY <1>3
<1>7. ListsOnce(idsAndActors') /\ answer' \in Entries
  BY <1>3, <1>4 DEF UniqueInv
<1> HIDE DEF position, found
<1>8. \A p \in 1 .. Len(idsAndActors') :
        waits'[idsAndActors'[p].id] + Left(p, current') <= WaitBound
  BY <1>3, <1>5
<1>9. QED
  BY <1>6, <1>7, <1>8 DEF UniqueInv

-----------------------------------------------------------------------------
(***************************************************************************)
(* The invariant and what follows from it                                  *)
(***************************************************************************)
LEMMA UniqueInit == Init => UniqueInv
<1> SUFFICES ASSUME Init
             PROVE  UniqueInv
  OBVIOUS
<1>1. idsAndActors \in Seq(Entries) /\ Len(idsAndActors) = 0
  BY DEF Init
<1>2. ListsOnce(idsAndActors)
  BY <1>1 DEF ListsOnce
<1>3. answer = NoAnswer /\ \A id \in Ids : waits[id] = 0
  BY DEF Init
<1>4. QED
  BY <1>1, <1>2, <1>3 DEF UniqueInv

LEMMA UniqueNext ==
    ASSUME UniqueIds
    PROVE  TypeOK /\ UniqueInv /\ [Next]_vars => UniqueInv'
<1> SUFFICES ASSUME TypeOK, UniqueInv, [Next]_vars
             PROVE  UniqueInv'
  OBVIOUS
<1>1. ASSUME UNCHANGED <<idsAndActors, current, answer, waits>>
      PROVE  UniqueInv'
  BY <1>1 DEF UniqueInv
<1>2. ASSUME NEW id \in Ids, NEW actor \in Actors, AddId(id, actor)
      PROVE  UniqueInv'
  BY <1>2, UniqueAddId
<1>3. ASSUME NEW id \in Ids, RemoveActor(id)
      PROVE  UniqueInv'
  BY <1>3, UniqueRemoveActor
<1>4. ASSUME NEW id \in Ids, RemoveActorCrashes(id)
      PROVE  UniqueInv'
  BY <1>1, <1>4 DEF RemoveActorCrashes
<1>5. CASE FindOnEmpty
  <2>1. /\ UNCHANGED <<idsAndActors, current, waits>>
        /\ answer' = RuntimeError
    BY <1>5 DEF FindOnEmpty
  <2>2. UniqueInv'
    BY <2>1 DEF UniqueInv
  <2>3. QED
    BY <2>2
<1>6. CASE FindService
  BY <1>6, UniqueFindService
<1>7. CASE ExitHandler
  BY <1>1, <1>7 DEF ExitHandler
<1>8. CASE CreatorReceives
  BY <1>1, <1>8 DEF CreatorReceives
<1>9. CASE UNCHANGED vars
  BY <1>1, <1>9 DEF vars
<1>10. QED
  BY <1>2, <1>3, <1>4, <1>5, <1>6, <1>7, <1>8, <1>9 DEF Next

LEMMA UniqueInvariant ==
    ASSUME UniqueIds
    PROVE  Spec => [](TypeOK /\ UniqueInv)
<1>1. TypeOK /\ UniqueInv /\ [Next]_vars => UniqueInv'
  BY UniqueNext
<1>2. QED
  BY <1>1, UniqueInit, TypeCorrect, PTL DEF Spec

\* A listed runner is answered within WaitBound finds: the cursor, which no
\* removal adjusts, can skip it only as often as positions are left before it.
THEOREM NoStarvationHolds ==
    ASSUME UniqueIds
    PROVE  Spec => []NoStarvation
<1>1. TypeOK /\ UniqueInv => NoStarvation
  <2> SUFFICES ASSUME TypeOK, UniqueInv, NEW id \in Ids
               PROVE  waits[id] <= WaitBound
    BY DEF NoStarvation
  <2>1. /\ waits[id] \in Nat /\ WaitBound \in Nat
        /\ current \in 0 .. MaxEntries
        /\ Len(idsAndActors) \in 0 .. MaxEntries
    <3>1. MaxEntries * (MaxEntries - 1) \in Nat
      <4>1. CASE MaxEntries = 0
        BY <4>1
      <4>2. CASE MaxEntries # 0
        <5>1. MaxEntries - 1 \in Nat /\ MaxEntries \in Nat
          BY <4>2, ServiceManagerAssumption
        <5>2. QED
          BY <5>1
      <4>3. QED
        BY <4>1, <4>2
    <3>2. QED
      BY <3>1, ServiceManagerAssumption DEF TypeOK, WaitBound
  <2>2. CASE Occurs(idsAndActors, id)
    <3>1. PICK p \in 1 .. Len(idsAndActors) : idsAndActors[p].id = id
      BY <2>2 DEF Occurs, UniqueInv, ListsOnce
    <3>2. p \in 1 .. MaxEntries
      BY <2>1, <3>1, ServiceManagerAssumption
    <3>3. Left(p, current) \in 0 .. WaitBound
      BY <2>1, <3>2, LeftBounds
    <3>4. waits[id] + Left(p, current) <= WaitBound
      BY <3>1 DEF UniqueInv
    <3>5. QED
      BY <2>1, <3>3, <3>4
  <2>3. CASE ~ Occurs(idsAndActors, id)
    BY <2>1, <2>3 DEF UniqueInv
  <2>4. QED
    BY <2>2, <2>3
<1>2. QED
  BY <1>1, UniqueInvariant, PTL

\* No find is answered with the pair a removal has moved from.
THEOREM FindGivesAnActorHolds ==
    ASSUME UniqueIds
    PROVE  Spec => []FindGivesAnActor
<1>1. UniqueInv => FindGivesAnActor
  BY ServiceListAssumption, ServiceManagerAssumption
     DEF UniqueInv, FindGivesAnActor, Entries, Slots, MovedFrom
<1>2. QED
  BY <1>1, UniqueInvariant, PTL

\* The removal of a listed id takes out the element of that id, whatever the
\* length of the vector: the kept elements are all the others, in their order.
THEOREM RemovalIsExactHolds ==
    ASSUME UniqueIds
    PROVE  Spec => RemovalIsExact
<1>1. TypeOK /\ UniqueInv => \A id \in Ids : RemovesExactly(id)
  <2> SUFFICES ASSUME TypeOK, UniqueInv, NEW id \in Ids, RemoveActor(id),
                      Occurs(idsAndActors, id)
               PROVE  \E p \in DOMAIN idsAndActors :
                         /\ idsAndActors[p].id = id
                         /\ idsAndActors' = RemoveAt(idsAndActors, p)
                         /\ ~ Occurs(idsAndActors', id)
    BY DEF RemovesExactly
  <2>1. idsAndActors' \in RemoveOutcomes(idsAndActors, id)
    BY DEF RemoveActor
  <2>2. /\ ListsOnce(idsAndActors) /\ idsAndActors \in Seq(Entries)
        /\ DOMAIN idsAndActors = 1 .. Len(idsAndActors)
    BY DEF UniqueInv, ListsOnce
  <2>3. PICK r \in 1 .. Len(idsAndActors) : idsAndActors[r].id = id
    BY <2>2 DEF Occurs
  <2>4. idsAndActors' = RemoveAt(idsAndActors, r)
    BY <2>1, <2>2, <2>3, RemoveListed
  <2>5. ~ Occurs(idsAndActors', id)
    BY <2>2, <2>3, <2>4, RemoveAtListsOnce
  <2>6. QED
    BY <2>2, <2>3, <2>4, <2>5
<1>2. QED
  BY <1>1, UniqueInvariant, PTL DEF Spec, RemovalIsExact
=============================================================================
