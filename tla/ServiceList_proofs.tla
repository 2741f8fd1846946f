-------------------------- MODULE ServiceList_proofs --------------------------
(***************************************************************************)
(* What the operations on the vector of a service manager do to it, for    *)
(* any vector: the lemmas that the proofs about one manager and about the  *)
(* registering service with its managers share.                            *)
(***************************************************************************)
EXTENDS ServiceList, FiniteSetTheorems, SequenceTheorems, TLAPS

-----------------------------------------------------------------------------
(***************************************************************************)
(* The removal                                                             *)
(***************************************************************************)

\* Taking one element out of a sequence.
LEMMA RemoveAtProperties ==
    ASSUME NEW S, NEW s \in Seq(S), NEW p \in 1 .. Len(s)
    PROVE  /\ RemoveAt(s, p) \in Seq(S)
           /\ Len(RemoveAt(s, p)) = Len(s) - 1
           /\ \A q \in 1 .. Len(s) - 1 :
                 RemoveAt(s, p)[q] = IF q < p THEN s[q] ELSE s[q + 1]
<1> DEFINE front == SubSeq(s, 1, p - 1)
           back  == SubSeq(s, p + 1, Len(s))
           whole == front \o back
<1>1. /\ front \in Seq(S) /\ Len(front) = p - 1
      /\ \A q \in 1 .. p - 1 : front[q] = s[q]
  BY SubSeqProperties
<1>2. /\ back \in Seq(S) /\ Len(back) = Len(s) - p
      /\ \A q \in 1 .. Len(s) - p : back[q] = s[q + p]
  BY SubSeqProperties
<1>3. RemoveAt(s, p) = front \o back
  BY DEF RemoveAt
<1> HIDE DEF front, back
<1>4. /\ whole \in Seq(S)
      /\ Len(whole) = Len(s) - 1
      /\ \A q \in 1 .. Len(s) - 1 :
            whole[q] = IF q <= p - 1 THEN front[q] ELSE back[q - (p - 1)]
  BY <1>1, <1>2, ConcatProperties
<1> HIDE DEF whole
<1>5. ASSUME NEW q \in 1 .. Len(s) - 1
      PROVE  whole[q] = IF q < p THEN s[q] ELSE s[q + 1]
  <2>1. CASE q <= p - 1
    BY <1>1, <1>4, <2>1
  <2>2. CASE q > p - 1
    <3>1. /\ q - (p - 1) \in 1 .. Len(s) - p
          /\ (q - (p - 1)) + p = q + 1
      BY <2>2
    <3>2. QED
      BY <1>2, <1>4, <2>2, <3>1
  <2>3. QED
    BY <2>1, <2>2
<1>6. QED
  BY <1>3, <1>4, <1>5 DEF whole

\* Dropping the last element of a sequence that has one.
LEMMA DropLastProperties ==
    ASSUME NEW S, NEW s \in Seq(S), NEW n \in Nat, Len(s) = n + 1
    PROVE  /\ SubSeq(s, 1, n) \in Seq(S)
           /\ Len(SubSeq(s, 1, n)) = n
           /\ \A q \in 1 .. n : SubSeq(s, 1, n)[q] = s[q]
  BY SubSeqProperties

\* The kept positions are finitely many, and fewer than the positions when
\* the id occurs.
LEMMA KeptCardinality ==
    ASSUME NEW s \in Seq(Slots), NEW id
    PROVE  /\ Cardinality(KeptPositions(s, id)) \in 0 .. Len(s)
           /\ Occurs(s, id) => Cardinality(KeptPositions(s, id)) < Len(s)
<1>1. IsFiniteSet(1 .. Len(s)) /\ Cardinality(1 .. Len(s)) = Len(s)
  <2>1. Len(s) \in Nat
    OBVIOUS
  <2>2. QED
    BY <2>1, FS_Interval
<1>2. KeptPositions(s, id) \subseteq 1 .. Len(s)
  BY DEF KeptPositions
<1>3. /\ IsFiniteSet(KeptPositions(s, id))
      /\ Cardinality(KeptPositions(s, id)) \in Nat
  BY <1>1, <1>2, FS_Subset, FS_CardinalityType
<1>4. Cardinality(KeptPositions(s, id)) <= Len(s)
  BY <1>1, <1>2, FS_Subset
<1>5. ASSUME Occurs(s, id)
      PROVE  Cardinality(KeptPositions(s, id)) # Len(s)
  <2>1. KeptPositions(s, id) # 1 .. Len(s)
    BY <1>5 DEF KeptPositions, Occurs
  <2>2. QED
    BY <1>1, <1>2, <2>1, FS_Subset
<1>6. QED
  BY <1>3, <1>4, <1>5

\* A removal that the process survives shortens the vector by one element and
\* leaves pairs that were there before, or moved-from ones.
LEMMA RemoveType ==
    ASSUME NEW s \in Seq(Slots), NEW id, NEW list \in RemoveOutcomes(s, id)
    PROVE  list \in Seq(Slots) /\ Len(list) = Len(s) - 1
<1>1. CASE Occurs(s, id)
  <2> DEFINE c == Cardinality(KeptPositions(s, id))
  <2>1. c \in 0 .. Len(s) /\ c < Len(s)
    BY <1>1, KeptCardinality
  <2>2. PICK at \in KeptOrders(s, id) : list = RemoveAt(AfterRemoveIf(s, id, at), c + 1)
    BY <1>1 DEF RemoveOutcomes
  <2>3. at \in [1 .. c -> KeptPositions(s, id)]
    BY <2>2 DEF KeptOrders
  <2> DEFINE v == AfterRemoveIf(s, id, at)
  <2>4. v \in Seq(Slots) /\ Len(v) = Len(s)
    <3>1. v \in [1 .. Len(s) -> Slots]
      BY <2>1, <2>3 DEF AfterRemoveIf, KeptPositions, Slots
    <3>2. QED
      BY <3>1
  <2>5. list = RemoveAt(v, c + 1)
    BY <2>2
  <2> HIDE DEF v, c
  <2>6. QED
    BY <2>1, <2>4, <2>5, RemoveAtProperties
<1>2. CASE ~ Occurs(s, id)
  <2>1. s # <<>> /\ list = SubSeq(s, 1, Len(s) - 1)
    BY <1>2 DEF RemoveOutcomes
  <2>2. PICK n \in Nat : Len(s) = n + 1
    <3>1. Len(s) - 1 \in Nat
      BY <2>1
    <3>2. QED
      BY <3>1
  <2>3. list = SubSeq(s, 1, n)
    BY <2>1, <2>2
  <2>4. QED
    BY <2>2, <2>3, DropLastProperties
<1>3. QED
  BY <1>1, <1>2

\* The cursor is brought back to a position of the vector.
LEMMA WrappedInRange ==
    ASSUME NEW s \in Seq(Slots), s # <<>>, NEW c \in Nat
    PROVE  /\ Wrapped(s, c) + 1 \in 1 .. Len(s)
           /\ ElementAtCursor(s, c) \in Slots
<1>1. Len(s) \in Nat \ {0}
  OBVIOUS
<1>2. Wrapped(s, c) + 1 \in 1 .. Len(s)
  BY <1>1 DEF Wrapped
<1>3. QED
  BY <1>2 DEF ElementAtCursor

-----------------------------------------------------------------------------
(***************************************************************************)
(* Where the elements after a removal come from                            *)
(***************************************************************************)

\* The elements after a removal of an id that occurs: the kept ones in the order
\* at, and behind them what remove_if and the erase of one element leave.
RemovedBy(s, id, at, list) ==
    LET c == Cardinality(KeptPositions(s, id))
    IN  /\ Len(list) = Len(s) - 1
        /\ c \in 0 .. Len(list)
        /\ at \in [1 .. c -> KeptPositions(s, id)]
        /\ \A i, j \in 1 .. c : i < j => at[i] < at[j]
        /\ \A p \in 1 .. Len(list) :
              list[p] = IF p <= c THEN s[at[p]]
                        ELSE IF s[p + 1].id = id THEN s[p + 1] ELSE MovedFrom

LEMMA RemoveShape ==
    ASSUME NEW s \in Seq(Slots), NEW id, NEW list \in RemoveOutcomes(s, id), Occurs(s, id)
    PROVE  \E at : RemovedBy(s, id, at, list)
<1> DEFINE c == Cardinality(KeptPositions(s, id))
<1>1. c \in 0 .. Len(s) /\ c < Len(s) /\ Len(s) \in Nat
  BY KeptCardinality
<1>2. PICK at \in KeptOrders(s, id) : list = RemoveAt(AfterRemoveIf(s, id, at), c + 1)
  BY DEF RemoveOutcomes
<1>3. /\ at \in [1 .. c -> KeptPositions(s, id)]
      /\ \A i, j \in 1 .. c : i < j => at[i] < at[j]
  BY <1>2 DEF KeptOrders
<1> DEFINE v == AfterRemoveIf(s, id, at)
<1>4. /\ v \in Seq(Slots) /\ Len(v) = Len(s)
      /\ \A p \in 1 .. Len(s) :
            v[p] = IF p <= c THEN s[at[p]] ELSE IF s[p].id = id THEN s[p] ELSE MovedFrom
  <2>1. v \in [1 .. Len(s) -> Slots]
    BY <1>1, <1>3 DEF AfterRemoveIf, KeptPositions, Slots
  <2>2. \A p \in 1 .. Len(s) :
           v[p] = IF p <= c THEN s[at[p]] ELSE IF s[p].id = id THEN s[p] ELSE MovedFrom
    BY <1>1, <1>3 DEF AfterRemoveIf
  <2>3. QED
    BY <2>1, <2>2
<1>5. list = RemoveAt(v, c + 1) /\ c + 1 \in 1 .. Len(v)
  BY <1>1, <1>2, <1>4
<1> HIDE DEF v, c
<1>6. /\ Len(list) = Len(s) - 1
      /\ \A p \in 1 .. Len(s) - 1 : list[p] = IF p < c + 1 THEN v[p] ELSE v[p + 1]
  BY <1>4, <1>5, RemoveAtProperties
<1>7. ASSUME NEW p \in 1 .. Len(s) - 1
      PROVE  list[p] = IF p <= c THEN s[at[p]]
                       ELSE IF s[p + 1].id = id THEN s[p + 1] ELSE MovedFrom
  <2>1. /\ p \in 1 .. Len(s) /\ p + 1 \in 1 .. Len(s)
        /\ p < c + 1 <=> p <= c
        /\ p + 1 <= c => p <= c
    BY <1>1
  <2>2. CASE p <= c
    BY <1>4, <1>6, <2>1, <2>2
  <2>3. CASE ~ (p <= c)
    BY <1>1, <1>4, <1>6, <2>1, <2>3
  <2>4. QED
    BY <2>2, <2>3
<1>8. QED
  BY <1>1, <1>3, <1>6, <1>7 DEF RemovedBy, c

\* Every element after a removal is a moved-from pair or was there before, and
\* no element was doubled.
LEMMA RemoveOrigins ==
    ASSUME NEW s \in Seq(Slots), NEW id, NEW list \in RemoveOutcomes(s, id)
    PROVE  \E origin \in [1 .. Len(list) -> 1 .. Len(s)] :
              /\ \A p \in 1 .. Len(list) : list[p] = s[origin[p]] \/ list[p] = MovedFrom
              /\ \A p, q \in 1 .. Len(list) :
                    list[p] # MovedFrom /\ list[q] # MovedFrom /\ origin[p] = origin[q] => p = q
<1>1. CASE Occurs(s, id)
  <2> DEFINE c == Cardinality(KeptPositions(s, id))
  <2>1. PICK at : RemovedBy(s, id, at, list)
    BY <1>1, RemoveShape
  <2>2. /\ Len(list) = Len(s) - 1 /\ Len(s) \in Nat /\ Len(list) \in Nat
        /\ c \in 0 .. Len(list)
        /\ \A p \in 1 .. c : at[p] \in 1 .. Len(s) /\ s[at[p]].id # id
        /\ \A i, j \in 1 .. c : i < j => at[i] < at[j]
        /\ \A p \in 1 .. Len(list) :
              list[p] = IF p <= c THEN s[at[p]]
                        ELSE IF s[p + 1].id = id THEN s[p + 1] ELSE MovedFrom
    <3>1. /\ Len(list) = Len(s) - 1
          /\ c \in 0 .. Len(list)
          /\ at \in [1 .. c -> KeptPositions(s, id)]
          /\ \A i, j \in 1 .. c : i < j => at[i] < at[j]
          /\ \A p \in 1 .. Len(list) :
                list[p] = IF p <= c THEN s[at[p]]
                          ELSE IF s[p + 1].id = id THEN s[p + 1] ELSE MovedFrom
      BY <2>1 DEF RemovedBy
    <3>2. Len(s) \in Nat /\ Len(list) \in Nat
      BY RemoveType
    <3>3. \A p \in KeptPositions(s, id) : p \in 1 .. Len(s) /\ s[p].id # id
      BY DEF KeptPositions
    <3> HIDE DEF c
    <3>4. QED
      BY <3>1, <3>2, <3>3
  <2> DEFINE origin == [p \in 1 .. Len(list) |-> IF p <= c THEN at[p] ELSE p + 1]
  <2> HIDE DEF c
  <2>3. origin \in [1 .. Len(list) -> 1 .. Len(s)]
    BY <2>2
  <2>4. \A p \in 1 .. Len(list) : list[p] = s[origin[p]] \/ list[p] = MovedFrom
    BY <2>2
  <2>5. ASSUME NEW p \in 1 .. Len(list), NEW q \in 1 .. Len(list), p < q,
               list[p] # MovedFrom, list[q] # MovedFrom, origin[p] = origin[q]
        PROVE  FALSE
    <3>1. CASE q <= c
      <4>1. p \in 1 .. c /\ q \in 1 .. c
        BY <2>2, <2>5, <3>1
      <4>2. at[p] < at[q] /\ at[p] \in Nat /\ at[q] \in Nat /\ at[p] = at[q]
        BY <2>2, <2>5, <3>1, <4>1
      <4>3. QED
        BY <4>2
    <3>2. CASE p <= c /\ ~ (q <= c)
      <4>1. p \in 1 .. c /\ at[p] = q + 1 /\ s[q + 1].id = id
        BY <2>2, <2>5, <3>2
      <4>2. QED
        BY <2>2, <4>1
    <3>3. CASE ~ (p <= c)
      BY <2>2, <2>5, <3>3
    <3>4. QED
      BY <3>1, <3>2, <3>3
  <2>6. \A p, q \in 1 .. Len(list) :
           list[p] # MovedFrom /\ list[q] # MovedFrom /\ origin[p] = origin[q] => p = q
    <3> HIDE DEF origin
    <3>1. \A p, q \in 1 .. Len(list) : p < q \/ p = q \/ q < p
      OBVIOUS
    <3>2. QED
      BY <2>5, <3>1
  <2> HIDE DEF origin
  <2>7. QED
    BY <2>3, <2>4, <2>6
<1>2. CASE ~ Occurs(s, id)
  <2>1. s # <<>> /\ list = SubSeq(s, 1, Len(s) - 1)
    BY <1>2 DEF RemoveOutcomes
  <2>2. PICK n \in Nat : Len(s) = n + 1
    <3>1. Len(s) - 1 \in Nat
      BY <2>1
    <3>2. QED
      BY <3>1
  <2>3. Len(list) = n /\ \A p \in 1 .. n : list[p] = s[p]
    BY <2>1, <2>2, DropLastProperties
  <2> DEFINE origin == [p \in 1 .. n |-> p]
  <2>4. /\ origin \in [1 .. Len(list) -> 1 .. Len(s)]
        /\ \A p \in 1 .. Len(list) : list[p] = s[origin[p]]
        /\ \A p, q \in 1 .. Len(list) : origin[p] = origin[q] => p = q
    BY <2>2, <2>3
  <2> HIDE DEF origin
  <2>5. QED
    BY <2>4
<1>3. QED
  BY <1>1, <1>2

\* An element whose id is not removed stays.
LEMMA RemoveKeeps ==
    ASSUME NEW s \in Seq(Slots), NEW id, NEW list \in RemoveOutcomes(s, id),
           Occurs(s, id), NEW r \in 1 .. Len(s), s[r].id # id
    PROVE  \E p \in 1 .. Len(list) : list[p] = s[r]
<1> DEFINE kept == KeptPositions(s, id)
           c    == Cardinality(kept)
<1>1. PICK at : RemovedBy(s, id, at, list)
  BY RemoveShape
<1>2. /\ c \in 0 .. Len(list) /\ c \in Nat /\ Len(list) \in Nat
      /\ at \in [1 .. c -> kept]
      /\ \A i, j \in 1 .. c : i < j => at[i] < at[j]
      /\ \A p \in 1 .. Len(list) : p <= c => list[p] = s[at[p]]
      /\ kept \subseteq 1 .. Len(s)
      /\ r \in kept
  <2>1. /\ c \in 0 .. Len(list)
        /\ at \in [1 .. c -> kept]
        /\ \A i, j \in 1 .. c : i < j => at[i] < at[j]
        /\ \A p \in 1 .. Len(list) : p <= c => list[p] = s[at[p]]
    BY <1>1 DEF RemovedBy
  <2>2. Len(list) \in Nat
    BY RemoveType
  <2>3. kept \subseteq 1 .. Len(s) /\ r \in kept
    BY DEF KeptPositions
  <2> HIDE DEF kept, c
  <2>4. QED
    BY <2>1, <2>2, <2>3
<1>3. IsFiniteSet(kept) /\ IsFiniteSet(1 .. c) /\ Cardinality(1 .. c) = c
  <2>1. Len(s) \in Nat /\ IsFiniteSet(1 .. Len(s))
    BY FS_Interval
  <2>2. IsFiniteSet(kept)
    BY <1>2, <2>1, FS_Subset
  <2> HIDE DEF c
  <2>3. QED
    BY <1>2, <2>2, FS_Interval
<1> HIDE DEF kept, c
<1>4. at \in Injection(1 .. c, kept)
  <2>1. \A i, j \in 1 .. c : i < j \/ i = j \/ j < i
    BY <1>2
  <2>2. \A i \in 1 .. c : at[i] \in Nat
    <3>1. \A p \in 1 .. Len(s) : p \in Nat
      OBVIOUS
    <3>2. QED
      BY <1>2, <3>1
  <2>3. \A i, j \in 1 .. c : at[i] = at[j] => i = j
    BY <1>2, <2>1, <2>2
  <2>4. QED
    BY <1>2, <2>3 DEF Injection, IsInjective
<1>5. at \in Surjection(1 .. c, kept)
  BY <1>3, <1>4, FS_Injection DEF c
<1>6. PICK p \in 1 .. c : at[p] = r
  BY <1>2, <1>5 DEF Surjection
<1>7. p \in 1 .. Len(list) /\ list[p] = s[r]
  BY <1>2, <1>6
<1>8. QED
  BY <1>7

\* An id that is listed once is not listed any more.
LEMMA RemoveOnce ==
    ASSUME NEW s \in Seq(Slots), NEW id, NEW list \in RemoveOutcomes(s, id),
           NEW r \in 1 .. Len(s), s[r].id = id, \A p \in 1 .. Len(s) : s[p].id = id => p = r
    PROVE  ~ Occurs(list, id)
<1> DEFINE kept == KeptPositions(s, id)
           c    == Cardinality(kept)
<1>1. PICK at : RemovedBy(s, id, at, list)
  BY RemoveShape DEF Occurs
<1>2. kept = (1 .. Len(s)) \ {r}
  BY DEF KeptPositions
<1>3. c = Len(s) - 1
  <2>1. Len(s) \in Nat /\ IsFiniteSet(1 .. Len(s)) /\ Cardinality(1 .. Len(s)) = Len(s)
    <3>1. Len(s) \in Nat
      OBVIOUS
    <3>2. QED
      BY <3>1, FS_Interval
  <2> HIDE DEF kept
  <2>2. QED
    BY <1>2, <2>1, FS_RemoveElement
<1>4. \A p \in 1 .. Len(list) : list[p] = s[at[p]] /\ s[at[p]].id # id
  <2>1. /\ Len(list) = Len(s) - 1
        /\ at \in [1 .. c -> kept]
        /\ \A p \in 1 .. Len(list) : p <= c => list[p] = s[at[p]]
    BY <1>1 DEF RemovedBy
  <2>2. \A p \in kept : s[p].id # id
    BY DEF KeptPositions
  <2>3. c = Len(list) /\ Len(list) \in Nat
    BY <1>3, <2>1, RemoveType
  <2> HIDE DEF kept, c
  <2>4. \A p \in 1 .. Len(list) : p <= c /\ p \in 1 .. c
    BY <2>3
  <2>5. QED
    BY <2>1, <2>2, <2>4
<1>5. DOMAIN list = 1 .. Len(list)
  BY RemoveType
<1>6. QED
  BY <1>4, <1>5 DEF Occurs
=============================================================================
