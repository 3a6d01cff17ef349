-------------------------- MODULE TreeShapeProofs --------------------------
(***************************************************************************)
(* The shape of the B+ trees of BPTree, and what the operations that       *)
(* change it have in common.                                               *)
(***************************************************************************)
EXTENDS BPTree, SequenceTheorems, FiniteSetTheorems, WellFoundedInduction, TLAPS

-----------------------------------------------------------------------------
(* Numbers and sequences                                                   *)

\* A set of numbers has a least element.
LEMMA LeastElement ==
    ASSUME NEW S, S \subseteq Nat, S # {}
    PROVE  \E x \in S : \A y \in S : x <= y
<1>1. IsWellFoundedOn(OpToRel(<, Nat), Nat)
  BY NatLessThanWellFounded
<1>2. PICK x \in S : \A y \in S : ~ (<<y, x>> \in OpToRel(<, Nat))
  BY <1>1, WFMin
<1>3. \A y \in S : <<y, x>> \in Nat \X Nat
  OBVIOUS
<1>4. \A y \in S : ~ (y < x)
  BY <1>2, <1>3 DEF OpToRel
<1> QED
  BY <1>4

\* Min finds it.
LEMMA MinIsLeast ==
    ASSUME NEW S, S \subseteq Nat, S # {}
    PROVE  Min(S) \in S /\ \A y \in S : Min(S) <= y
BY LeastElement DEF Min

\* The sequence with an element put in.
LEMMA InsertAtProperties ==
    ASSUME NEW V, NEW s \in Seq(V), NEW i \in 1 .. (Len(s) + 1), NEW e \in V
    PROVE  /\ InsertAt(s, i, e) \in Seq(V)
           /\ Len(InsertAt(s, i, e)) = Len(s) + 1
           /\ \A j \in 1 .. (Len(s) + 1) :
                 InsertAt(s, i, e)[j] = IF j < i THEN s[j]
                                        ELSE IF j = i THEN e ELSE s[j - 1]
<1> DEFINE a == SubSeq(s, 1, i - 1)
           b == SubSeq(s, i, Len(s))
           ae == a \o <<e>>
<1>1. Len(s) \in Nat /\ i \in Nat
  OBVIOUS
<1>2. /\ a \in Seq(V) /\ Len(a) = i - 1
      /\ \A j \in 1 .. (i - 1) : a[j] = s[j]
  <2>1. \A j \in 1 .. (i - 1) : s[j] \in V
    BY <1>1, ElementOfSeq
  <2> QED
    BY <1>1, <2>1, SubSeqProperties
<1>3. /\ b \in Seq(V) /\ Len(b) = Len(s) - i + 1
      /\ \A j \in 1 .. (Len(s) - i + 1) : b[j] = s[i + j - 1]
  <2>1. \A j \in i .. Len(s) : s[j] \in V
    BY <1>1, ElementOfSeq
  <2> QED
    BY <1>1, <2>1, SubSeqProperties
<1>4. <<e>> \in Seq(V) /\ Len(<<e>>) = 1 /\ <<e>>[1] = e
  OBVIOUS
<1> HIDE DEF a, b
<1>5. /\ ae \in Seq(V) /\ Len(ae) = i
      /\ \A j \in 1 .. i : ae[j] = IF j <= i - 1 THEN a[j] ELSE e
  BY <1>1, <1>2, <1>4, ConcatProperties
<1> HIDE DEF ae
<1>6. /\ ae \o b \in Seq(V) /\ Len(ae \o b) = Len(s) + 1
      /\ \A j \in 1 .. (Len(s) + 1) : (ae \o b)[j] = IF j <= i THEN ae[j] ELSE b[j - i]
  <2>1. ae \in Seq(V) /\ b \in Seq(V)
    BY <1>3, <1>5
  <2>2. /\ ae \o b \in Seq(V) /\ Len(ae \o b) = Len(ae) + Len(b)
        /\ \A j \in 1 .. (Len(ae) + Len(b)) :
              (ae \o b)[j] = IF j <= Len(ae) THEN ae[j] ELSE b[j - Len(ae)]
    BY <2>1, ConcatProperties
  <2>3. Len(ae) = i /\ Len(ae) + Len(b) = Len(s) + 1
    BY <1>1, <1>3, <1>5
  <2> QED
    BY <2>2, <2>3
<1>7. InsertAt(s, i, e) = ae \o b
  BY DEF InsertAt, a, b, ae
<1>8. ASSUME NEW j \in 1 .. (Len(s) + 1)
      PROVE  (ae \o b)[j] = IF j < i THEN s[j] ELSE IF j = i THEN e ELSE s[j - 1]
  <2>1. CASE j < i
    BY <1>1, <1>2, <1>5, <1>6, <2>1
  <2>2. CASE j = i
    BY <1>1, <1>5, <1>6, <2>2
  <2>3. CASE j > i
    <3>1. (ae \o b)[j] = b[j - i] /\ j - i \in 1 .. (Len(s) - i + 1)
      BY <1>1, <1>6, <2>3
    <3> QED
      BY <1>1, <1>3, <2>3, <3>1
  <2>4. j < i \/ j = i \/ j > i
    BY <1>1
  <2> QED
    BY <2>1, <2>2, <2>3, <2>4
<1> QED
  BY <1>6, <1>7, <1>8

\* The same, place by place.
LEMMA InsertAtPlaces ==
    ASSUME NEW s \in Seq(Nat), NEW i \in 1 .. (Len(s) + 1), NEW e \in Nat
    PROVE  /\ InsertAt(s, i, e) \in Seq(Nat)
           /\ Len(InsertAt(s, i, e)) = Len(s) + 1
           /\ \A j \in 1 .. Len(s) : j < i => InsertAt(s, i, e)[j] = s[j]
           /\ InsertAt(s, i, e)[i] = e
           /\ \A j \in 1 .. Len(s) : j >= i => InsertAt(s, i, e)[j + 1] = s[j]
<1> DEFINE t == InsertAt(s, i, e)
           m == Len(s)
<1>1. /\ t \in Seq(Nat) /\ Len(t) = m + 1 /\ m \in Nat /\ i \in Nat /\ i \in 1 .. (m + 1)
      /\ \A j \in 1 .. (m + 1) : t[j] = IF j < i THEN s[j] ELSE IF j = i THEN e ELSE s[j - 1]
  BY InsertAtProperties, LenProperties
<1>2. m \in Nat /\ i \in 1 .. (m + 1)
  OBVIOUS
<1> HIDE DEF t, m
<1>3. (\A j \in 1 .. m : j < i => t[j] = s[j]) /\ t[i] = e
  BY <1>1, <1>2
<1>4. ASSUME NEW j \in 1 .. m, j >= i
      PROVE  t[j + 1] = s[j]
  <2>1. j + 1 \in 1 .. (m + 1) /\ ~ (j + 1 < i) /\ j + 1 # i /\ j + 1 - 1 = j
    BY <1>2, <1>4
  <2>2. t[j + 1] = s[j + 1 - 1]
    BY <1>1, <2>1
  <2> QED
    BY <2>1, <2>2
<1> QED
  BY <1>1, <1>3, <1>4 DEF t, m

\* The sequence with an element taken out.
LEMMA RemoveAtProperties ==
    ASSUME NEW V, NEW s \in Seq(V), NEW i \in 1 .. Len(s)
    PROVE  /\ RemoveAt(s, i) \in Seq(V)
           /\ Len(RemoveAt(s, i)) = Len(s) - 1
           /\ \A j \in 1 .. (Len(s) - 1) : j < i => RemoveAt(s, i)[j] = s[j]
           /\ \A j \in 1 .. (Len(s) - 1) : j >= i => RemoveAt(s, i)[j] = s[j + 1]
<1> DEFINE a == SubSeq(s, 1, i - 1)
           b == SubSeq(s, i + 1, Len(s))
<1>1. Len(s) \in Nat /\ i \in Nat
  OBVIOUS
<1>2. /\ a \in Seq(V) /\ Len(a) = i - 1
      /\ \A j \in 1 .. (i - 1) : a[j] = s[j]
  <2>1. \A j \in 1 .. (i - 1) : s[j] \in V
    BY <1>1, ElementOfSeq
  <2> QED
    BY <1>1, <2>1, SubSeqProperties
<1>3. /\ b \in Seq(V) /\ Len(b) = Len(s) - i
      /\ \A j \in 1 .. (Len(s) - i) : b[j] = s[i + j]
  <2>1. \A j \in (i + 1) .. Len(s) : s[j] \in V
    BY <1>1, ElementOfSeq
  <2> QED
    BY <1>1, <2>1, SubSeqProperties
<1> HIDE DEF a, b
<1>4. /\ a \o b \in Seq(V) /\ Len(a \o b) = Len(s) - 1
      /\ \A j \in 1 .. (Len(s) - 1) : (a \o b)[j] = IF j <= i - 1 THEN a[j] ELSE b[j - (i - 1)]
  <2>1. Len(a) + Len(b) = Len(s) - 1
    BY <1>1, <1>2, <1>3
  <2>2. /\ a \o b \in Seq(V) /\ Len(a \o b) = Len(a) + Len(b)
        /\ \A j \in 1 .. (Len(a) + Len(b)) : (a \o b)[j] = IF j <= Len(a) THEN a[j] ELSE b[j - Len(a)]
    BY <1>2, <1>3, ConcatProperties
  <2> QED
    BY <1>2, <2>1, <2>2
<1>5. RemoveAt(s, i) = a \o b
  BY DEF RemoveAt, a, b
<1>6. ASSUME NEW j \in 1 .. (Len(s) - 1), j < i
      PROVE  (a \o b)[j] = s[j]
  BY <1>1, <1>2, <1>4, <1>6
<1>7. ASSUME NEW j \in 1 .. (Len(s) - 1), j >= i
      PROVE  (a \o b)[j] = s[j + 1]
  <2>1. (a \o b)[j] = b[j - (i - 1)] /\ j - (i - 1) \in 1 .. (Len(s) - i)
    BY <1>1, <1>4, <1>7
  <2> QED
    BY <1>1, <1>3, <1>7, <2>1
<1> QED
  BY <1>4, <1>5, <1>6, <1>7

\* A part of a sequence.
LEMMA PartProperties ==
    ASSUME NEW V, NEW s \in Seq(V), NEW i \in 1 .. (Len(s) + 1), NEW j \in 0 .. Len(s),
           i <= j + 1
    PROVE  /\ SubSeq(s, i, j) \in Seq(V)
           /\ Len(SubSeq(s, i, j)) = j - i + 1
           /\ \A m \in 1 .. (j - i + 1) : SubSeq(s, i, j)[m] = s[i + m - 1]
<1>1. \A m \in i .. j : s[m] \in V
  BY ElementOfSeq
<1> QED
  BY <1>1, SubSeqProperties

\* Where the loops over a sequence stop.
LEMMA PlaceProperties ==
    ASSUME NEW V, NEW s \in Seq(V), NEW e
    PROVE  /\ Place(s, e) \in 1 .. (Len(s) + 1)
           /\ \A j \in 1 .. Len(s) : j < Place(s, e) => s[j] # e
           /\ Place(s, e) <= Len(s) => s[Place(s, e)] = e
<1> DEFINE S == {j \in 1 .. (Len(s) + 1) : j = Len(s) + 1 \/ s[j] = e}
<1>1. Len(s) \in Nat
  OBVIOUS
<1>2. S \subseteq Nat /\ Len(s) + 1 \in S
  BY <1>1
<1>3. Place(s, e) = Min(S)
  BY DEF Place, First
<1> HIDE DEF S
<1>4. Place(s, e) \in S /\ \A y \in S : Place(s, e) <= y
  BY <1>2, <1>3, MinIsLeast
<1>5. ASSUME NEW j \in 1 .. Len(s), j < Place(s, e), j \in S
      PROVE  FALSE
  <2>1. Place(s, e) \in Nat /\ Place(s, e) <= j
    BY <1>2, <1>4, <1>5
  <2> QED
    BY <2>1, <1>5
<1> QED
  BY <1>1, <1>4, <1>5 DEF S

LEMMA ChildIndexProperties ==
    ASSUME NEW V, NEW c, c.keys \in Seq(V), NEW key
    PROVE  /\ ChildIndex(c, key) \in 1 .. (Len(c.keys) + 1)
           /\ \A j \in 1 .. Len(c.keys) : j < ChildIndex(c, key) => ~ (key < c.keys[j])
           /\ ChildIndex(c, key) <= Len(c.keys) => key < c.keys[ChildIndex(c, key)]
<1> DEFINE S == {j \in 1 .. (Len(c.keys) + 1) : j = Len(c.keys) + 1 \/ key < c.keys[j]}
<1>1. Len(c.keys) \in Nat
  OBVIOUS
<1>2. S \subseteq Nat /\ Len(c.keys) + 1 \in S
  BY <1>1
<1>3. ChildIndex(c, key) = Min(S)
  BY DEF ChildIndex, First
<1> HIDE DEF S
<1>4. ChildIndex(c, key) \in S /\ \A y \in S : ChildIndex(c, key) <= y
  BY <1>2, <1>3, MinIsLeast
<1>5. ASSUME NEW j \in 1 .. Len(c.keys), j < ChildIndex(c, key), j \in S
      PROVE  FALSE
  <2>1. ChildIndex(c, key) \in Nat /\ ChildIndex(c, key) <= j
    BY <1>2, <1>4, <1>5
  <2> QED
    BY <2>1, <1>5
<1> QED
  BY <1>1, <1>4, <1>5 DEF S

LEMMA InsertionPointProperties ==
    ASSUME NEW V, NEW c, c.keys \in Seq(V), NEW key
    PROVE  /\ InsertionPoint(c, key) \in 1 .. (Len(c.keys) + 1)
           /\ \A j \in 1 .. Len(c.keys) : j < InsertionPoint(c, key) => ~ (c.keys[j] >= key)
           /\ InsertionPoint(c, key) <= Len(c.keys) => c.keys[InsertionPoint(c, key)] >= key
<1> DEFINE S == {j \in 1 .. (Len(c.keys) + 1) : j = Len(c.keys) + 1 \/ c.keys[j] >= key}
<1>1. Len(c.keys) \in Nat
  OBVIOUS
<1>2. S \subseteq Nat /\ Len(c.keys) + 1 \in S
  BY <1>1
<1>3. InsertionPoint(c, key) = Min(S)
  BY DEF InsertionPoint, First
<1> HIDE DEF S
<1>4. InsertionPoint(c, key) \in S /\ \A y \in S : InsertionPoint(c, key) <= y
  BY <1>2, <1>3, MinIsLeast
<1>5. ASSUME NEW j \in 1 .. Len(c.keys), j < InsertionPoint(c, key), j \in S
      PROVE  FALSE
  <2>1. InsertionPoint(c, key) \in Nat /\ InsertionPoint(c, key) <= j
    BY <1>2, <1>4, <1>5
  <2> QED
    BY <2>1, <1>5
<1> QED
  BY <1>1, <1>4, <1>5 DEF S

LEMMA PastEndProperties ==
    ASSUME NEW V, NEW c, c.keys \in Seq(V), NEW key
    PROVE  /\ PastEnd(c, key) \in 1 .. (Len(c.keys) + 1)
           /\ \A j \in 1 .. Len(c.keys) : j < PastEnd(c, key) => ~ (c.keys[j] > key)
           /\ PastEnd(c, key) <= Len(c.keys) => c.keys[PastEnd(c, key)] > key
<1> DEFINE S == {j \in 1 .. (Len(c.keys) + 1) : j = Len(c.keys) + 1 \/ c.keys[j] > key}
<1>1. Len(c.keys) \in Nat
  OBVIOUS
<1>2. S \subseteq Nat /\ Len(c.keys) + 1 \in S
  BY <1>1
<1>3. PastEnd(c, key) = Min(S)
  BY DEF PastEnd, First
<1> HIDE DEF S
<1>4. PastEnd(c, key) \in S /\ \A y \in S : PastEnd(c, key) <= y
  BY <1>2, <1>3, MinIsLeast
<1>5. ASSUME NEW j \in 1 .. Len(c.keys), j < PastEnd(c, key), j \in S
      PROVE  FALSE
  <2>1. PastEnd(c, key) \in Nat /\ PastEnd(c, key) <= j
    BY <1>2, <1>4, <1>5
  <2> QED
    BY <2>1, <1>5
<1> QED
  BY <1>1, <1>4, <1>5 DEF S

\* There is a free address, and make_node takes it.
LEMMA FreeAddressProperties ==
    ASSUME NEW heap, IsFiniteSet(DOMAIN heap)
    PROVE  FreeAddress(heap) \in Nat \ {0} /\ FreeAddress(heap) \notin DOMAIN heap
<1> DEFINE n == Cardinality(DOMAIN heap)
           S == (1 .. (n + 1)) \ DOMAIN heap
<1>1. n \in Nat
  BY FS_CardinalityType
<1>2. S # {}
  <2>1. SUFFICES ASSUME 1 .. (n + 1) \subseteq DOMAIN heap
                 PROVE  FALSE
    OBVIOUS
  <2>2. Cardinality(1 .. (n + 1)) = n + 1
    BY <1>1, FS_Interval
  <2>3. Cardinality(1 .. (n + 1)) <= n
    BY <2>1, FS_Subset
  <2> QED
    BY <1>1, <2>2, <2>3
<1>3. S \subseteq Nat
  OBVIOUS
<1>4. Min(S) \in S
  BY <1>2, <1>3, MinIsLeast
<1>5. FreeAddress(heap) = Min(S)
  BY DEF FreeAddress
<1> QED
  BY <1>1, <1>4, <1>5

\* The elements of a sequence.
LEMMA ToSetProperties ==
    ASSUME NEW V, NEW s \in Seq(V)
    PROVE  /\ ToSet(s) = {s[i] : i \in 1 .. Len(s)}
           /\ ToSet(s) \subseteq V
<1>1. DOMAIN s = 1 .. Len(s)
  OBVIOUS
<1>2. \A i \in 1 .. Len(s) : s[i] \in V
  BY ElementOfSeq
<1> QED
  BY <1>1, <1>2 DEF ToSet

LEMMA ElementsInSet ==
    ASSUME NEW V, NEW s \in Seq(V)
    PROVE  /\ \A i \in 1 .. Len(s) : s[i] \in ToSet(s) /\ s[i] \in V
           /\ \A e \in ToSet(s) : \E i \in 1 .. Len(s) : s[i] = e
BY ToSetProperties

LEMMA ToSetOfConcat ==
    ASSUME NEW V, NEW s \in Seq(V), NEW t \in Seq(V)
    PROVE  ToSet(s \o t) = ToSet(s) \cup ToSet(t)
<1>1. /\ s \o t \in Seq(V) /\ Len(s \o t) = Len(s) + Len(t) /\ Len(s) \in Nat /\ Len(t) \in Nat
      /\ \A i \in 1 .. Len(s) + Len(t) : (s \o t)[i] = IF i <= Len(s) THEN s[i] ELSE t[i - Len(s)]
  BY ConcatProperties, LenProperties
<1>2. /\ ToSet(s) = {s[i] : i \in 1 .. Len(s)} /\ ToSet(t) = {t[i] : i \in 1 .. Len(t)}
      /\ ToSet(s \o t) = {(s \o t)[i] : i \in 1 .. Len(s \o t)}
  BY <1>1, ToSetProperties
<1>3. ASSUME NEW i \in 1 .. Len(s \o t)
      PROVE  (s \o t)[i] \in ToSet(s) \cup ToSet(t)
  <2>1. CASE i <= Len(s)
    BY <1>1, <1>2, <2>1
  <2>2. CASE i > Len(s)
    <3>1. i - Len(s) \in 1 .. Len(t) /\ (s \o t)[i] = t[i - Len(s)]
      BY <1>1, <2>2
    <3> QED
      BY <1>2, <3>1
  <2> QED
    BY <1>1, <2>1, <2>2
<1>4. ASSUME NEW i \in 1 .. Len(s)
      PROVE  s[i] \in ToSet(s \o t)
  <2>1. i \in 1 .. Len(s \o t) /\ (s \o t)[i] = s[i]
    BY <1>1
  <2> QED
    BY <1>2, <2>1
<1>5. ASSUME NEW i \in 1 .. Len(t)
      PROVE  t[i] \in ToSet(s \o t)
  <2>1. /\ Len(s) + i \in 1 .. Len(s \o t) /\ ~ (Len(s) + i <= Len(s))
        /\ Len(s) + i - Len(s) = i
    BY <1>1
  <2>2. (s \o t)[Len(s) + i] = t[i]
    BY <1>1, <2>1
  <2> QED
    BY <1>2, <2>1, <2>2
<1>6. ToSet(s \o t) \subseteq ToSet(s) \cup ToSet(t)
  BY <1>2, <1>3
<1> QED
  BY <1>2, <1>4, <1>5, <1>6

LEMMA ToSetOfInsertAt ==
    ASSUME NEW V, NEW s \in Seq(V), NEW i \in 1 .. (Len(s) + 1), NEW e \in V
    PROVE  ToSet(InsertAt(s, i, e)) = ToSet(s) \cup {e}
<1> DEFINE t == InsertAt(s, i, e)
<1>1. /\ t \in Seq(V) /\ Len(t) = Len(s) + 1 /\ Len(s) \in Nat
      /\ \A j \in 1 .. (Len(s) + 1) : t[j] = IF j < i THEN s[j] ELSE IF j = i THEN e ELSE s[j - 1]
  BY InsertAtProperties, LenProperties
<1> HIDE DEF t
<1>2. /\ ToSet(s) = {s[j] : j \in 1 .. Len(s)} /\ ToSet(t) = {t[j] : j \in 1 .. (Len(s) + 1)}
  BY <1>1, ToSetProperties
<1>3. ASSUME NEW j \in 1 .. (Len(s) + 1)
      PROVE  t[j] \in ToSet(s) \cup {e}
  <2>1. CASE j < i
    BY <1>1, <1>2, <2>1
  <2>2. CASE j = i
    BY <1>1, <2>2
  <2>3. CASE j > i
    <3>1. j - 1 \in 1 .. Len(s) /\ t[j] = s[j - 1]
      BY <1>1, <2>3
    <3> QED
      BY <1>2, <3>1
  <2> QED
    BY <1>1, <2>1, <2>2, <2>3
<1>4. ASSUME NEW j \in 1 .. Len(s)
      PROVE  s[j] \in ToSet(t)
  <2>1. CASE j < i
    BY <1>1, <1>2, <2>1
  <2>2. CASE j >= i
    <3>1. j + 1 \in 1 .. (Len(s) + 1) /\ ~ (j + 1 < i) /\ j + 1 # i /\ j + 1 - 1 = j
      BY <1>1, <2>2
    <3>2. t[j + 1] = s[j]
      BY <1>1, <3>1
    <3> QED
      BY <1>2, <3>1, <3>2
  <2> QED
    BY <1>1, <2>1, <2>2
<1>5. e \in ToSet(t)
  <2>1. i \in 1 .. (Len(s) + 1) /\ t[i] = e
    BY <1>1
  <2> QED
    BY <1>2, <2>1
<1> QED
  BY <1>2, <1>3, <1>4, <1>5 DEF t

\* Every number of the sequence is greater than those before it.
Increasing(s) == \A i, j \in 1 .. Len(s) : i < j => s[i] < s[j]

LEMMA ConcatIncreases ==
    ASSUME NEW s \in Seq(Nat), NEW t \in Seq(Nat)
    PROVE  Increasing(s \o t) <=> /\ Increasing(s) /\ Increasing(t)
                                  /\ \A x \in ToSet(s), y \in ToSet(t) : x < y
<1> DEFINE u == s \o t
           m == Len(s)
           n == Len(t)
<1>1. /\ u \in Seq(Nat) /\ Len(u) = m + n /\ m \in Nat /\ n \in Nat
      /\ \A i \in 1 .. m + n : u[i] = IF i <= m THEN s[i] ELSE t[i - m]
  BY ConcatProperties, LenProperties
<1>2. /\ ToSet(s) = {s[i] : i \in 1 .. m} /\ ToSet(t) = {t[i] : i \in 1 .. n}
  BY ToSetProperties
<1>3. /\ Increasing(s) <=> \A i, j \in 1 .. m : i < j => s[i] < s[j]
      /\ Increasing(t) <=> \A i, j \in 1 .. n : i < j => t[i] < t[j]
      /\ Increasing(u) <=> \A i, j \in 1 .. m + n : i < j => u[i] < u[j]
  BY <1>1 DEF Increasing
<1> HIDE DEF u, m, n
<1>4. /\ \A i \in 1 .. m : i \in 1 .. m + n /\ u[i] = s[i]
      /\ \A i \in 1 .. n : m + i \in 1 .. m + n /\ u[m + i] = t[i]
      /\ \A i \in 1 .. m + n : i <= m => i \in 1 .. m
      /\ \A i \in 1 .. m + n : i > m => i - m \in 1 .. n /\ u[i] = t[i - m]
  <2>1. ASSUME NEW i \in 1 .. n
        PROVE  m + i \in 1 .. m + n /\ ~ (m + i <= m) /\ m + i - m = i
    BY <1>1
  <2>2. \A i \in 1 .. n : m + i \in 1 .. m + n /\ u[m + i] = t[i]
    BY <1>1, <2>1
  <2>3. \A i \in 1 .. m + n : i > m => i - m \in 1 .. n /\ u[i] = t[i - m]
    BY <1>1
  <2> QED
    BY <1>1, <2>2, <2>3
<1>5. ASSUME Increasing(u)
      PROVE  /\ Increasing(s) /\ Increasing(t)
             /\ \A x \in ToSet(s), y \in ToSet(t) : x < y
  <2>1. ASSUME NEW i \in 1 .. m, NEW j \in 1 .. m, i < j
        PROVE  s[i] < s[j]
    BY <1>3, <1>4, <1>5, <2>1
  <2>2. ASSUME NEW i \in 1 .. n, NEW j \in 1 .. n, i < j
        PROVE  t[i] < t[j]
    <3>1. m + i < m + j
      BY <1>1, <2>2
    <3> QED
      BY <1>3, <1>4, <1>5, <3>1
  <2>3. ASSUME NEW i \in 1 .. m, NEW j \in 1 .. n
        PROVE  s[i] < t[j]
    <3>1. i < m + j
      BY <1>1
    <3> QED
      BY <1>3, <1>4, <1>5, <3>1
  <2> QED
    BY <1>2, <1>3, <2>1, <2>2, <2>3
<1>6. ASSUME Increasing(s), Increasing(t), \A x \in ToSet(s), y \in ToSet(t) : x < y
      PROVE  Increasing(u)
  <2>1. ASSUME NEW i \in 1 .. m + n, NEW j \in 1 .. m + n, i < j
        PROVE  u[i] < u[j]
    <3>1. CASE j <= m
      BY <1>1, <1>3, <1>4, <1>6, <2>1, <3>1
    <3>2. CASE i <= m /\ j > m
      <4>1. i \in 1 .. m /\ u[i] = s[i] /\ j - m \in 1 .. n /\ u[j] = t[j - m]
        BY <1>1, <1>4, <3>2
      <4> QED
        BY <1>2, <1>6, <4>1
    <3>3. CASE i > m
      <4>1. i - m < j - m /\ j > m
        BY <1>1, <2>1, <3>3
      <4>2. i - m \in 1 .. n /\ u[i] = t[i - m] /\ j - m \in 1 .. n /\ u[j] = t[j - m]
        BY <1>4, <3>3, <4>1
      <4> QED
        BY <1>3, <1>6, <4>1, <4>2
    <3>4. j <= m \/ (i <= m /\ j > m) \/ i > m
      BY <1>1
    <3> QED
      BY <3>1, <3>2, <3>3, <3>4
  <2> QED
    BY <1>3, <2>1
<1> QED
  BY <1>5, <1>6 DEF u

\* The two parts around an element.
LEMMA PartsAround ==
    ASSUME NEW s \in Seq(Nat), NEW t \in Seq(Nat), NEW e \in Nat
    PROVE  /\ Increasing((s \o <<e>>) \o t) <=> /\ Increasing(s) /\ Increasing(t)
                                                /\ \A x \in ToSet(s) : x < e
                                                /\ \A y \in ToSet(t) : e < y
           /\ ToSet((s \o <<e>>) \o t) = ToSet(s) \cup ToSet(t) \cup {e}
<1> DEFINE o == <<e>>
           se == s \o o
           u == se \o t
<1>1. o \in Seq(Nat) /\ Len(o) = 1 /\ o[1] = e
  OBVIOUS
<1> HIDE DEF o
<1>2. ToSet(o) = {e} /\ Increasing(o)
  <2>1. /\ \A i \in 1 .. Len(o) : o[i] \in ToSet(o)
        /\ \A x \in ToSet(o) : \E i \in 1 .. Len(o) : o[i] = x
    BY <1>1, ElementsInSet
  <2>2. \A i \in 1 .. Len(o) : i = 1
    BY <1>1
  <2>3. e \in ToSet(o) /\ \A x \in ToSet(o) : x = e
    BY <1>1, <2>1, <2>2
  <2>4. Increasing(o)
    BY <1>1, <2>2 DEF Increasing
  <2> QED
    BY <2>3, <2>4
<1>3. se \in Seq(Nat)
  BY <1>1, ConcatProperties
<1>4. /\ Increasing(se) <=> Increasing(s) /\ \A x \in ToSet(s) : x < e
      /\ ToSet(se) = ToSet(s) \cup {e}
  <2>1. /\ Increasing(se) <=> /\ Increasing(s) /\ Increasing(o)
                              /\ \A x \in ToSet(s), y \in ToSet(o) : x < y
        /\ ToSet(se) = ToSet(s) \cup ToSet(o)
    BY <1>1, ConcatIncreases, ToSetOfConcat
  <2> QED
    BY <1>2, <2>1
<1> HIDE DEF se
<1>5. /\ Increasing(u) <=> /\ Increasing(se) /\ Increasing(t)
                           /\ \A x \in ToSet(se), y \in ToSet(t) : x < y
      /\ ToSet(u) = ToSet(se) \cup ToSet(t)
  BY <1>3, ConcatIncreases, ToSetOfConcat
<1> HIDE DEF u
<1>6. ToSet(s) \subseteq Nat /\ ToSet(t) \subseteq Nat
  BY ToSetProperties
<1>7. ASSUME Increasing(u)
      PROVE  /\ Increasing(s) /\ Increasing(t)
             /\ \A x \in ToSet(s) : x < e
             /\ \A y \in ToSet(t) : e < y
  BY <1>4, <1>5, <1>7
<1>8. ASSUME Increasing(s), Increasing(t), \A x \in ToSet(s) : x < e, \A y \in ToSet(t) : e < y
      PROVE  Increasing(u)
  <2>1. ASSUME NEW x \in ToSet(s), NEW y \in ToSet(t)
        PROVE  x < y
    <3>1. x < e /\ e < y /\ x \in Nat /\ y \in Nat
      BY <1>6, <1>8
    <3> QED
      BY <3>1
  <2> QED
    BY <1>4, <1>5, <1>8, <2>1
<1>9. ToSet(u) = ToSet(s) \cup ToSet(t) \cup {e}
  BY <1>4, <1>5
<1> QED
  BY <1>7, <1>8, <1>9 DEF u, se, o

LEMMA InsertAtIncreases ==
    ASSUME NEW s \in Seq(Nat), NEW i \in 1 .. (Len(s) + 1), NEW e \in Nat
    PROVE  Increasing(InsertAt(s, i, e)) <=> /\ Increasing(s)
                                             /\ i > 1 => s[i - 1] < e
                                             /\ i <= Len(s) => e < s[i]
<1> DEFINE t == InsertAt(s, i, e)
           m == Len(s)
<1>1. /\ t \in Seq(Nat) /\ Len(t) = m + 1 /\ m \in Nat /\ i \in Nat
      /\ \A j \in 1 .. (m + 1) : t[j] = IF j < i THEN s[j] ELSE IF j = i THEN e ELSE s[j - 1]
  BY InsertAtProperties, LenProperties
<1>2. /\ Increasing(s) <=> \A j, l \in 1 .. m : j < l => s[j] < s[l]
      /\ Increasing(t) <=> \A j, l \in 1 .. (m + 1) : j < l => t[j] < t[l]
  BY <1>1 DEF Increasing
<1>3. \A j \in 1 .. m : s[j] \in Nat
  BY ElementOfSeq
<1> HIDE DEF t, m
<1>4. /\ \A j \in 1 .. m : j < i => j \in 1 .. (m + 1) /\ t[j] = s[j]
      /\ \A j \in 1 .. m : j >= i => j + 1 \in 1 .. (m + 1) /\ t[j + 1] = s[j]
      /\ i \in 1 .. (m + 1) /\ t[i] = e
  <2>1. ASSUME NEW j \in 1 .. m, j >= i
        PROVE  j + 1 \in 1 .. (m + 1) /\ ~ (j + 1 < i) /\ j + 1 # i /\ j + 1 - 1 = j
    BY <1>1, <2>1
  <2>2. i \in 1 .. (m + 1)
    BY DEF m
  <2>3. ASSUME NEW j \in 1 .. m, j >= i
        PROVE  j + 1 \in 1 .. (m + 1) /\ t[j + 1] = s[j]
    <3>1. t[j + 1] = s[j + 1 - 1]
      BY <1>1, <2>1, <2>3, SMTT(30)
    <3> QED
      BY <2>1, <2>3, <3>1
  <2> QED
    BY <1>1, <2>2, <2>3
<1>5. ASSUME Increasing(t)
      PROVE  Increasing(s) /\ (i > 1 => s[i - 1] < e) /\ (i <= m => e < s[i])
  <2>1. ASSUME NEW j \in 1 .. m, NEW l \in 1 .. m, j < l
        PROVE  s[j] < s[l]
    <3>1. CASE l < i
      BY <1>1, <1>2, <1>4, <1>5, <2>1, <3>1
    <3>2. CASE j < i /\ l >= i
      <4>1. j < l + 1
        BY <2>1
      <4> QED
        BY <1>2, <1>4, <1>5, <3>2, <4>1
    <3>3. CASE j >= i
      <4>1. j + 1 < l + 1 /\ l >= i
        BY <1>1, <2>1, <3>3
      <4> QED
        BY <1>2, <1>4, <1>5, <3>3, <4>1
    <3>4. l < i \/ (j < i /\ l >= i) \/ j >= i
      BY <1>1
    <3> QED
      BY <3>1, <3>2, <3>3, <3>4
  <2>2. ASSUME i > 1
        PROVE  s[i - 1] < e
    <3>1. i - 1 \in 1 .. m /\ i - 1 < i
      BY <1>1, <1>4, <2>2
    <3> QED
      BY <1>2, <1>4, <1>5, <3>1
  <2>3. ASSUME i <= m
        PROVE  e < s[i]
    <3>1. i \in 1 .. m /\ i >= i /\ i < i + 1
      BY <1>1, <1>4, <2>3
    <3> QED
      BY <1>2, <1>4, <1>5, <3>1
  <2> QED
    BY <1>2, <2>1, <2>2, <2>3
<1>6. ASSUME Increasing(s), i > 1 => s[i - 1] < e, i <= m => e < s[i]
      PROVE  Increasing(t)
  <2>1. ASSUME NEW j \in 1 .. m, j < i
        PROVE  s[j] < e
    <3>1. i > 1 /\ i - 1 \in 1 .. m /\ (j = i - 1 \/ j < i - 1)
      BY <1>1, <1>4, <2>1
    <3>2. s[j] <= s[i - 1]
      BY <1>2, <1>3, <1>6, <3>1
    <3> QED
      BY <1>3, <1>6, <3>1, <3>2
  <2>2. ASSUME NEW j \in 1 .. m, j >= i
        PROVE  e < s[j]
    <3>1. i <= m /\ i \in 1 .. m /\ (j = i \/ i < j)
      BY <1>1, <1>4, <2>2
    <3>2. s[i] <= s[j]
      BY <1>2, <1>3, <1>6, <3>1
    <3> QED
      BY <1>3, <1>6, <3>1, <3>2
  <2>3. ASSUME NEW j \in 1 .. (m + 1), NEW l \in 1 .. (m + 1), j < l
        PROVE  t[j] < t[l]
    <3>1. \A x \in 1 .. (m + 1) : x > i => x - 1 \in 1 .. m /\ x - 1 >= i /\ t[x] = s[x - 1]
      BY <1>1
    <3>2. \A x \in 1 .. (m + 1) : x < i => x \in 1 .. m /\ t[x] = s[x]
      BY <1>1, <1>4
    <3>3. CASE l < i
      <4>1. j < i
        BY <1>1, <2>3, <3>3
      <4> QED
        BY <1>2, <1>6, <2>3, <3>2, <3>3, <4>1
    <3>4. CASE l = i
      BY <1>1, <1>4, <2>1, <2>3, <3>2, <3>4
    <3>5. CASE l > i
      <4>1. CASE j < i
        BY <1>2, <1>6, <2>3, <3>1, <3>2, <3>5, <4>1
      <4>2. CASE j = i
        BY <1>4, <2>2, <3>1, <3>5, <4>2
      <4>3. CASE j > i
        <5>1. j - 1 < l - 1
          BY <2>3
        <5> QED
          BY <1>2, <1>6, <3>1, <3>5, <4>3, <5>1
      <4>4. j < i \/ j = i \/ j > i
        BY <1>1
      <4> QED
        BY <4>1, <4>2, <4>3, <4>4
    <3>6. l < i \/ l = i \/ l > i
      BY <1>1
    <3> QED
      BY <3>3, <3>4, <3>5, <3>6
  <2> QED
    BY <1>2, <2>3
<1> QED
  BY <1>5, <1>6 DEF t, m

\* The bounds of the i-th gap between the numbers of s, from lo to hi.
LowAt(s, lo, i) == IF i = 1 THEN lo ELSE s[i - 1]
HighAt(s, hi, i) == IF i = Len(s) + 1 THEN hi ELSE s[i]

LEMMA ConcatPlaces ==
    ASSUME NEW V, NEW s \in Seq(V), NEW t \in Seq(V)
    PROVE  /\ s \o t \in Seq(V) /\ Len(s \o t) = Len(s) + Len(t)
           /\ Len(s) \in Nat /\ Len(t) \in Nat
           /\ \A i \in 1 .. Len(s) : (s \o t)[i] = s[i]
           /\ \A i \in 1 .. Len(t) : (s \o t)[Len(s) + i] = t[i]
<1> DEFINE u == s \o t
           m == Len(s)
           n == Len(t)
<1>1. /\ u \in Seq(V) /\ Len(u) = m + n /\ m \in Nat /\ n \in Nat
      /\ \A i \in 1 .. m + n : u[i] = IF i <= m THEN s[i] ELSE t[i - m]
  BY ConcatProperties, LenProperties
<1> HIDE DEF u, m, n
<1>2. ASSUME NEW i \in 1 .. m
      PROVE  u[i] = s[i]
  BY <1>1
<1>3. ASSUME NEW i \in 1 .. n
      PROVE  u[m + i] = t[i]
  <2>1. m + i \in 1 .. m + n /\ ~ (m + i <= m) /\ m + i - m = i
    BY <1>1
  <2> QED
    BY <1>1, <2>1
<1> QED
  BY <1>1, <1>2, <1>3 DEF u, m, n

LEMMA AroundGaps ==
    ASSUME NEW s \in Seq(Nat), NEW t \in Seq(Nat), NEW e \in Nat, NEW lo \in Nat, NEW hi \in Nat
    PROVE  LET u == (s \o <<e>>) \o t IN
           /\ u \in Seq(Nat) /\ Len(u) = Len(s) + 1 + Len(t)
           /\ Len(s) \in Nat /\ Len(t) \in Nat
           /\ \A i \in 1 .. (Len(s) + 1) :
                 LowAt(u, lo, i) = LowAt(s, lo, i) /\ HighAt(u, hi, i) = HighAt(s, e, i)
           /\ \A i \in 1 .. (Len(t) + 1) :
                 /\ LowAt(u, lo, Len(s) + 1 + i) = LowAt(t, e, i)
                 /\ HighAt(u, hi, Len(s) + 1 + i) = HighAt(t, hi, i)
<1> DEFINE o == <<e>>
           se == s \o o
           u == se \o t
           m == Len(s)
           n == Len(t)
<1>1. o \in Seq(Nat) /\ Len(o) = 1 /\ o[1] = e
  OBVIOUS
<1> HIDE DEF o
<1>2. /\ se \in Seq(Nat) /\ Len(se) = m + 1 /\ m \in Nat
      /\ \A i \in 1 .. m : se[i] = s[i]
      /\ se[m + 1] = e
  <2>1. /\ se \in Seq(Nat) /\ Len(se) = Len(s) + Len(o) /\ Len(s) \in Nat
        /\ \A i \in 1 .. Len(s) : se[i] = s[i]
        /\ \A i \in 1 .. Len(o) : se[Len(s) + i] = o[i]
    <3>1. o \in Seq(Nat)
      BY <1>1
    <3> QED
      BY <3>1, ConcatPlaces
  <2> QED
    BY <1>1, <2>1
<1> HIDE DEF se
<1>3. /\ u \in Seq(Nat) /\ Len(u) = m + 1 + n /\ n \in Nat
      /\ \A i \in 1 .. (m + 1) : u[i] = se[i]
      /\ \A i \in 1 .. n : u[m + 1 + i] = t[i]
  <2>1. /\ u \in Seq(Nat) /\ Len(u) = Len(se) + Len(t) /\ Len(t) \in Nat
        /\ \A i \in 1 .. Len(se) : u[i] = se[i]
        /\ \A i \in 1 .. Len(t) : u[Len(se) + i] = t[i]
    <3>1. se \in Seq(Nat)
      BY <1>2
    <3> QED
      BY <3>1, ConcatPlaces
  <2> QED
    BY <1>2, <2>1
<1> HIDE DEF u
<1>4. /\ \A i \in 1 .. m : u[i] = s[i]
      /\ u[m + 1] = e
  BY <1>2, <1>3
<1> HIDE DEF m, n
<1>5. ASSUME NEW i \in 1 .. (m + 1)
      PROVE  LowAt(u, lo, i) = LowAt(s, lo, i)
  <2>1. CASE i = 1
    BY <2>1 DEF LowAt
  <2>2. CASE i # 1
    <3>1. i - 1 \in 1 .. m
      BY <1>2, <2>2
    <3> QED
      BY <1>4, <2>2, <3>1 DEF LowAt
  <2> QED
    BY <2>1, <2>2
<1>6. ASSUME NEW i \in 1 .. (m + 1)
      PROVE  HighAt(u, hi, i) = HighAt(s, e, i)
  <2>1. i # Len(u) + 1
    BY <1>2, <1>3
  <2>2. HighAt(u, hi, i) = u[i]
    BY <2>1 DEF HighAt
  <2>3. CASE i = m + 1
    BY <1>4, <2>2, <2>3 DEF HighAt, m
  <2>4. CASE i # m + 1
    <3>1. i \in 1 .. m
      BY <1>2, <2>4
    <3> QED
      BY <1>4, <2>2, <2>4, <3>1 DEF HighAt, m
  <2> QED
    BY <2>3, <2>4
<1>7. ASSUME NEW i \in 1 .. (n + 1)
      PROVE  LowAt(u, lo, m + 1 + i) = LowAt(t, e, i)
  <2>1. m + 1 + i # 1 /\ m + 1 + i - 1 = m + i /\ i \in Nat
    BY <1>2
  <2>2. LowAt(u, lo, m + 1 + i) = u[m + i]
    <3> DEFINE x == m + 1 + i
    <3>1. x # 1 /\ x - 1 = m + i
      BY <1>2, <2>1
    <3> HIDE DEF x
    <3>2. LowAt(u, lo, x) = u[x - 1]
      BY <3>1 DEF LowAt
    <3>3. LowAt(u, lo, x) = u[m + i]
      BY <3>1, <3>2
    <3> QED
      BY <3>3 DEF x
  <2>3. CASE i = 1
    BY <1>4, <2>2, <2>3 DEF LowAt
  <2>4. CASE i # 1
    <3>1. i - 1 \in 1 .. n /\ m + 1 + (i - 1) = m + i
      BY <1>2, <1>3, <2>4
    <3>2. u[m + i] = t[i - 1]
      BY <1>3, <3>1
    <3> QED
      BY <2>2, <2>4, <3>2 DEF LowAt
  <2> QED
    BY <2>3, <2>4
<1>8. ASSUME NEW i \in 1 .. (n + 1)
      PROVE  HighAt(u, hi, m + 1 + i) = HighAt(t, hi, i)
  <2>1. CASE i = n + 1
    <3>1. m + 1 + i = Len(u) + 1
      BY <1>2, <1>3, <2>1
    <3> QED
      BY <2>1, <3>1 DEF HighAt, n
  <2>2. CASE i # n + 1
    <3>1. i \in 1 .. n /\ m + 1 + i # m + 1 + n + 1
      BY <1>2, <1>3, <2>2
    <3>2. u[m + 1 + i] = t[i] /\ m + 1 + i # Len(u) + 1
      BY <1>3, <3>1
    <3> QED
      BY <2>2, <3>2 DEF HighAt, n
  <2> QED
    BY <2>1, <2>2
<1> QED
  BY <1>2, <1>3, <1>5, <1>6, <1>7, <1>8 DEF u, se, o, m, n

LEMMA InsertAtGaps ==
    ASSUME NEW s \in Seq(Nat), NEW i \in 1 .. (Len(s) + 1), NEW e \in Nat, NEW lo \in Nat, NEW hi \in Nat
    PROVE  LET t == InsertAt(s, i, e) IN
           /\ t \in Seq(Nat) /\ Len(t) = Len(s) + 1 /\ Len(s) \in Nat
           /\ \A j \in 1 .. (Len(s) + 1) : j < i =>
                 LowAt(t, lo, j) = LowAt(s, lo, j) /\ HighAt(t, hi, j) = HighAt(s, hi, j)
           /\ LowAt(t, lo, i) = LowAt(s, lo, i) /\ HighAt(t, hi, i) = e
           /\ LowAt(t, lo, i + 1) = e /\ HighAt(t, hi, i + 1) = HighAt(s, hi, i)
           /\ \A j \in 1 .. (Len(s) + 1) : j > i =>
                 /\ LowAt(t, lo, j + 1) = LowAt(s, lo, j)
                 /\ HighAt(t, hi, j + 1) = HighAt(s, hi, j)
<1> DEFINE t == InsertAt(s, i, e)
           m == Len(s)
<1>1. /\ t \in Seq(Nat) /\ Len(t) = m + 1 /\ m \in Nat /\ i \in Nat /\ i \in 1 .. (m + 1)
      /\ \A j \in 1 .. (m + 1) : t[j] = IF j < i THEN s[j] ELSE IF j = i THEN e ELSE s[j - 1]
  BY InsertAtProperties, LenProperties
<1> HIDE DEF t
<1>2. /\ \A j \in 1 .. m : j < i => t[j] = s[j]
      /\ t[i] = e
  BY <1>1
<1>3. ASSUME NEW j \in 1 .. m, j >= i
      PROVE  t[j + 1] = s[j]
  <2>1. j + 1 \in 1 .. (m + 1) /\ ~ (j + 1 < i) /\ j + 1 # i /\ j + 1 - 1 = j
    BY <1>1, <1>3
  <2>2. t[j + 1] = s[j + 1 - 1]
    BY <1>1, <2>1
  <2> QED
    BY <2>1, <2>2
<1>4. ASSUME NEW j \in 1 .. (m + 1), j <= i
      PROVE  LowAt(t, lo, j) = LowAt(s, lo, j)
  <2>1. CASE j = 1
    BY <2>1 DEF LowAt
  <2>2. CASE j # 1
    <3>1. j - 1 \in 1 .. m /\ j - 1 < i
      BY <1>1, <1>4, <2>2
    <3> QED
      BY <1>2, <2>2, <3>1 DEF LowAt
  <2> QED
    BY <2>1, <2>2
<1>5. ASSUME NEW j \in 1 .. (m + 1), j < i
      PROVE  HighAt(t, hi, j) = HighAt(s, hi, j)
  <2>1. j # Len(t) + 1 /\ j # m + 1 /\ j \in 1 .. m
    BY <1>1, <1>5
  <2> QED
    BY <1>2, <1>5, <2>1 DEF HighAt, m
<1>6. HighAt(t, hi, i) = e /\ LowAt(t, lo, i + 1) = e
  <2>1. i # Len(t) + 1 /\ i + 1 # 1 /\ i + 1 - 1 = i
    BY <1>1
  <2> QED
    BY <1>2, <2>1 DEF HighAt, LowAt
<1>7. ASSUME NEW j \in 1 .. (m + 1), j >= i
      PROVE  HighAt(t, hi, j + 1) = HighAt(s, hi, j)
  <2>1. CASE j = m + 1
    <3>1. j + 1 = Len(t) + 1
      BY <1>1, <2>1
    <3> QED
      BY <2>1, <3>1 DEF HighAt, m
  <2>2. CASE j # m + 1
    <3>1. j \in 1 .. m /\ j + 1 # Len(t) + 1
      BY <1>1, <2>2
    <3> QED
      BY <1>3, <1>7, <2>2, <3>1 DEF HighAt, m
  <2> QED
    BY <2>1, <2>2
<1>8. ASSUME NEW j \in 1 .. (m + 1), j > i
      PROVE  LowAt(t, lo, j + 1) = LowAt(s, lo, j)
  <2>1. j # 1 /\ j + 1 # 1 /\ j - 1 \in 1 .. m /\ j - 1 >= i /\ j + 1 - 1 = j /\ (j - 1) + 1 = j
    BY <1>1, <1>8
  <2>2. t[j] = s[j - 1]
    BY <1>3, <2>1
  <2> QED
    BY <2>1, <2>2 DEF LowAt
<1>9. ASSUME NEW j \in 1 .. (m + 1), j < i
      PROVE  LowAt(t, lo, j) = LowAt(s, lo, j) /\ HighAt(t, hi, j) = HighAt(s, hi, j)
  <2>1. j <= i
    BY <1>1, <1>9
  <2> QED
    BY <1>4, <1>5, <1>9, <2>1
<1>10. ASSUME NEW j \in 1 .. (m + 1), j > i
       PROVE  LowAt(t, lo, j + 1) = LowAt(s, lo, j) /\ HighAt(t, hi, j + 1) = HighAt(s, hi, j)
  <2>1. j >= i
    BY <1>1, <1>10
  <2> QED
    BY <1>7, <1>8, <1>10, <2>1
<1>11. LowAt(t, lo, i) = LowAt(s, lo, i) /\ HighAt(t, hi, i + 1) = HighAt(s, hi, i)
  <2>1. i <= i /\ i >= i
    BY <1>1
  <2> QED
    BY <1>1, <1>4, <1>7, <2>1
<1> QED
  BY <1>1, <1>6, <1>9, <1>10, <1>11 DEF t, m

-----------------------------------------------------------------------------
(* The shape of a tree.  Every node has a depth and covers the keys from   *)
(* low[n] up to high[n], which is not covered; high[n] = 0 when there is   *)
(* no such bound.                                                          *)

Covers(low, high, n, k) == low[n] <= k /\ (high[n] = 0 \/ k < high[n])

NodesTyped(N) ==
    /\ IsFiniteSet(DOMAIN N)
    /\ DOMAIN N \subseteq Nat \ {0}
    /\ N \in [DOMAIN N -> Nodes]

Measured(N, dep, H, low, high) ==
    /\ H \in Nat
    /\ dep \in [DOMAIN N -> Nat]
    /\ low \in [DOMAIN N -> Nat]
    /\ high \in [DOMAIN N -> Nat]

\* The keys of a node ascend and are among those it covers.
Ordered(N, low, high) ==
    \A n \in DOMAIN N :
        /\ high[n] # 0 => low[n] < high[n]
        /\ Increasing(N[n].keys)
        /\ \A k \in ToSet(N[n].keys) :
              Covers(low, high, n, k) /\ (N[n].leaf \/ low[n] < k)

\* The leaves are at the depth H.  Each is linked to the one that covers the
\* keys after its own.
LeavesShaped(N, dep, H, low, high) ==
    \A n \in DOMAIN N : N[n].leaf =>
        /\ dep[n] = H
        /\ N[n].ptrs = N[n].keys
        /\ high[n] = 0 => N[n].next = Null
        /\ high[n] # 0 => /\ N[n].next \in DOMAIN N
                          /\ N[N[n].next].leaf
                          /\ low[N[n].next] = high[n]

\* The i-th child covers what n covers from the i-1st key to the i-th.
InnerShaped(N, dep, H, low, high) ==
    \A n \in DOMAIN N : ~ N[n].leaf =>
        /\ dep[n] < H
        /\ N[n].next = Null
        /\ Len(N[n].ptrs) = Len(N[n].keys) + 1
        /\ \A i \in 1 .. Len(N[n].ptrs) :
              /\ N[n].ptrs[i] \in DOMAIN N
              /\ N[N[n].ptrs[i]].parent = n
              /\ dep[N[n].ptrs[i]] = dep[n] + 1
              /\ low[N[n].ptrs[i]] = LowAt(N[n].keys, low[n], i)
              /\ high[N[n].ptrs[i]] = HighAt(N[n].keys, high[n], i)

\* The root covers all keys; every other node is a child of its parent.
Rooted(N, r, dep, low, high) ==
    /\ r \in DOMAIN N
    /\ N[r].parent = Null /\ dep[r] = 0 /\ low[r] = 0 /\ high[r] = 0
    /\ \A n \in DOMAIN N \ {r} :
          /\ N[n].parent \in DOMAIN N
          /\ ~ N[N[n].parent].leaf
          /\ \E i \in 1 .. Len(N[N[n].parent].ptrs) : N[N[n].parent].ptrs[i] = n

Shape(N, r, dep, H, low, high) ==
    /\ NodesTyped(N)
    /\ Measured(N, dep, H, low, high)
    /\ Ordered(N, low, high)
    /\ LeavesShaped(N, dep, H, low, high)
    /\ InnerShaped(N, dep, H, low, high)
    /\ Rooted(N, r, dep, low, high)

\* The keys of the leaves.
LeafKeys(N) == UNION {ToSet(N[n].keys) : n \in {m \in DOMAIN N : N[m].leaf}}

-----------------------------------------------------------------------------
(* A node divided in two.  In F, node n of U is divided: new has got its   *)
(* last entries, and key and new have been put into the parent p, next to  *)
(* n, which is its i-th child.  Read the other way it is a merge.          *)

\* The entries of the node that is divided.
PartsDivided(U, F, n, new, key) ==
    /\ F[n].leaf = U[n].leaf /\ F[new].leaf = U[n].leaf
    /\ U[n].leaf =>
          /\ F[n].ptrs = F[n].keys /\ F[new].ptrs = F[new].keys /\ U[n].ptrs = U[n].keys
          /\ F[n].next = new /\ F[new].next = U[n].next
          /\ U[n].keys = F[n].keys \o F[new].keys
    /\ ~ U[n].leaf =>
          /\ F[n].next = U[n].next /\ F[new].next = U[n].next
          /\ U[n].keys = (F[n].keys \o <<key>>) \o F[new].keys
          /\ Len(F[n].ptrs) = Len(F[n].keys) + 1 /\ Len(F[new].ptrs) = Len(F[new].keys) + 1
          /\ U[n].ptrs = F[n].ptrs \o F[new].ptrs

\* The entries of the parent.
ParentEntered(U, F, p, i, new, key) ==
    /\ F[p].leaf = U[p].leaf /\ F[p].next = U[p].next
    /\ F[p].keys = InsertAt(U[p].keys, i, key)
    /\ F[p].ptrs = InsertAt(U[p].ptrs, i + 1, new)

Divided(U, F, n, new, p, i, key) ==
    /\ n \in DOMAIN U /\ p \in DOMAIN U /\ n # p /\ new \notin DOMAIN U
    /\ DOMAIN F = DOMAIN U \cup {new}
    /\ ~ U[p].leaf
    /\ Len(U[p].ptrs) = Len(U[p].keys) + 1
    /\ i \in 1 .. Len(U[p].ptrs) /\ U[p].ptrs[i] = n
    /\ \A m \in DOMAIN U \ {n, p} :
          F[m].leaf = U[m].leaf /\ F[m].keys = U[m].keys /\ F[m].ptrs = U[m].ptrs
                                /\ F[m].next = U[m].next
    /\ PartsDivided(U, F, n, new, key)
    /\ ParentEntered(U, F, p, i, new, key)
    /\ F[new].parent = p
    /\ \A m \in DOMAIN U :
          IF ~ U[n].leaf /\ m \in ToSet(F[new].ptrs)
          THEN U[m].parent = n /\ F[m].parent = new
          ELSE F[m].parent = U[m].parent

\* What kinds of things nodes and their measures are.
LEMMA TypesOfNodes ==
    ASSUME NEW N, NodesTyped(N), NEW n \in DOMAIN N
    PROVE  /\ n \in Nat /\ n # 0
           /\ N[n].leaf \in BOOLEAN /\ N[n].parent \in Nat /\ N[n].next \in Nat
           /\ N[n].keys \in Seq(Keys) /\ N[n].keys \in Seq(Nat) /\ N[n].ptrs \in Seq(Nat)
           /\ Len(N[n].keys) \in Nat /\ Len(N[n].ptrs) \in Nat
           /\ ToSet(N[n].keys) \subseteq Keys /\ ToSet(N[n].keys) \subseteq Nat \ {0}
           /\ ToSet(N[n].ptrs) \subseteq Nat
           /\ ToSet(N[n].keys) = {N[n].keys[i] : i \in 1 .. Len(N[n].keys)}
           /\ ToSet(N[n].ptrs) = {N[n].ptrs[i] : i \in 1 .. Len(N[n].ptrs)}
<1>1. N[n] \in Nodes /\ n \in Nat /\ n # 0
  BY DEF NodesTyped
<1>2. /\ N[n].leaf \in BOOLEAN /\ N[n].parent \in Nat /\ N[n].next \in Nat
      /\ N[n].keys \in Seq(Keys) /\ N[n].ptrs \in Seq(Nat)
  BY <1>1 DEF Nodes
<1>3. N[n].keys \in Seq(Nat)
  BY <1>2, BPTreeAssumption, SeqMonotonic
<1>4. Len(N[n].keys) \in Nat /\ Len(N[n].ptrs) \in Nat
  BY <1>2
<1>5. /\ ToSet(N[n].keys) \subseteq Keys /\ ToSet(N[n].ptrs) \subseteq Nat
      /\ ToSet(N[n].keys) = {N[n].keys[i] : i \in 1 .. Len(N[n].keys)}
      /\ ToSet(N[n].ptrs) = {N[n].ptrs[i] : i \in 1 .. Len(N[n].ptrs)}
  BY <1>2, ToSetProperties
<1> QED
  BY <1>1, <1>2, <1>3, <1>4, <1>5, BPTreeAssumption

LEMMA TypesOfMeasures ==
    ASSUME NEW N, NEW dep, NEW H, NEW low, NEW high, Measured(N, dep, H, low, high),
           NEW n \in DOMAIN N
    PROVE  dep[n] \in Nat /\ low[n] \in Nat /\ high[n] \in Nat
BY DEF Measured

\* No two children of a node are the same.
LEMMA ChildrenDiffer ==
    ASSUME NEW N, NEW r, NEW dep, NEW H, NEW low, NEW high, Shape(N, r, dep, H, low, high),
           NEW n \in DOMAIN N, ~ N[n].leaf,
           NEW i \in 1 .. Len(N[n].ptrs), NEW j \in 1 .. Len(N[n].ptrs),
           N[n].ptrs[i] = N[n].ptrs[j]
    PROVE  i = j
<1> DEFINE ptrs == N[n].ptrs
           keys == N[n].keys
           c == Len(keys)
<1>1. /\ Len(ptrs) = c + 1
      /\ \A a \in 1 .. Len(ptrs) :
         low[ptrs[a]] = IF a = 1 THEN low[n] ELSE keys[a - 1]
  BY DEF Shape, InnerShaped, LowAt
<1>2. c \in Nat /\ low[n] \in Nat
  BY TypesOfNodes, TypesOfMeasures DEF Shape
<1>3. \A a \in 1 .. c : keys[a] \in ToSet(keys) /\ keys[a] \in Nat
  <2>1. keys \in Seq(Nat)
    BY TypesOfNodes DEF Shape
  <2> HIDE DEF keys
  <2> QED
    BY <2>1, ElementsInSet
<1>4. /\ \A k \in ToSet(keys) : low[n] < k
      /\ Increasing(keys)
  BY DEF Shape, Ordered
<1>5. \A a, b \in 1 .. c : a < b => keys[a] < keys[b]
  BY <1>4 DEF Increasing
<1> HIDE DEF ptrs, keys, c
<1>6. ASSUME NEW a \in 1 .. Len(ptrs), NEW b \in 1 .. Len(ptrs), a < b
      PROVE  low[ptrs[a]] # low[ptrs[b]]
  <2>1. b - 1 \in 1 .. c /\ b # 1
    BY <1>1, <1>2, <1>6
  <2>2. low[ptrs[b]] = keys[b - 1] /\ keys[b - 1] \in Nat
    BY <1>1, <1>3, <2>1
  <2>3. CASE a = 1
    <3>1. low[ptrs[a]] = low[n] /\ low[n] < keys[b - 1]
      BY <1>1, <1>3, <1>4, <2>1, <2>3
    <3> QED
      BY <1>2, <2>2, <3>1
  <2>4. CASE a # 1
    <3>1. a - 1 \in 1 .. c /\ a - 1 < b - 1
      BY <1>1, <1>2, <1>6, <2>4
    <3>2. keys[a - 1] < keys[b - 1] /\ keys[a - 1] \in Nat
      BY <1>3, <1>5, <2>1, <3>1
    <3>3. low[ptrs[a]] = keys[a - 1]
      BY <1>1, <2>4
    <3> QED
      BY <2>2, <3>2, <3>3
  <2> QED
    BY <2>3, <2>4
<1>7. i \in 1 .. Len(ptrs) /\ j \in 1 .. Len(ptrs) /\ ptrs[i] = ptrs[j] /\ Len(ptrs) \in Nat
  BY <1>1, <1>2 DEF ptrs
<1>8. ~ (i < j) /\ ~ (j < i)
  BY <1>6, <1>7
<1> QED
  BY <1>7, <1>8

\* A child covers keys its parent covers.
LEMMA ChildWithin ==
    ASSUME NEW N, NEW r, NEW dep, NEW H, NEW low, NEW high, Shape(N, r, dep, H, low, high),
           NEW p \in DOMAIN N, ~ N[p].leaf, NEW i \in 1 .. Len(N[p].ptrs)
    PROVE  LET n == N[p].ptrs[i] IN
           /\ n \in DOMAIN N /\ n # p /\ N[n].parent = p
           /\ low[p] <= low[n] /\ (high[n] = 0 => high[p] = 0)
           /\ high[p] # 0 => high[n] <= high[p]
           /\ i > 1 => low[n] = N[p].keys[i - 1]
           /\ i <= Len(N[p].keys) => high[n] = N[p].keys[i]
           /\ i = 1 => low[n] = low[p]
           /\ i = Len(N[p].keys) + 1 => high[n] = high[p]
<1> DEFINE n == N[p].ptrs[i]
           keys == N[p].keys
<1>1. /\ n \in DOMAIN N /\ N[n].parent = p /\ dep[n] = dep[p] + 1
      /\ Len(N[p].ptrs) = Len(keys) + 1
      /\ low[n] = IF i = 1 THEN low[p] ELSE keys[i - 1]
      /\ high[n] = IF i = Len(N[p].ptrs) THEN high[p] ELSE keys[i]
  <2>1. /\ n \in DOMAIN N /\ N[n].parent = p /\ dep[n] = dep[p] + 1
        /\ Len(N[p].ptrs) = Len(keys) + 1
        /\ low[n] = LowAt(keys, low[p], i) /\ high[n] = HighAt(keys, high[p], i)
    BY DEF Shape, InnerShaped
  <2> HIDE DEF n, keys
  <2> QED
    BY <2>1 DEF LowAt, HighAt
<1>2. /\ Len(keys) \in Nat /\ i \in Nat /\ dep[p] \in Nat
      /\ low[p] \in Nat /\ high[p] \in Nat
  BY TypesOfNodes, TypesOfMeasures DEF Shape
<1>3. keys \in Seq(Nat) /\ ToSet(keys) \subseteq Nat \ {0}
  BY TypesOfNodes DEF Shape
<1>4. \A k \in ToSet(keys) : low[p] <= k /\ (high[p] = 0 \/ k < high[p])
  BY DEF Shape, Ordered, Covers
<1> HIDE DEF keys, n
<1>5. \A j \in 1 .. Len(keys) : keys[j] \in ToSet(keys)
  BY <1>3, ElementsInSet
<1>6. n # p
  BY <1>1, <1>2
<1>7. low[p] <= low[n]
  <2>1. CASE i = 1
    BY <1>1, <1>2, <2>1
  <2>2. CASE i # 1
    <3>1. i - 1 \in 1 .. Len(keys)
      BY <1>1, <1>2, <2>2
    <3> QED
      BY <1>1, <1>4, <1>5, <2>2, <3>1
  <2> QED
    BY <2>1, <2>2
<1>8. (high[n] = 0 => high[p] = 0) /\ (high[p] # 0 => high[n] <= high[p])
  <2>1. CASE i = Len(N[p].ptrs)
    BY <1>1, <1>2, <2>1
  <2>2. CASE i # Len(N[p].ptrs)
    <3>1. i \in 1 .. Len(keys) /\ high[n] = keys[i]
      BY <1>1, <1>2, <2>2
    <3>2. keys[i] \in Nat \ {0} /\ (high[p] = 0 \/ keys[i] < high[p])
      BY <1>3, <1>4, <1>5, <3>1
    <3> QED
      BY <1>2, <3>1, <3>2
  <2> QED
    BY <2>1, <2>2
<1>9. /\ i > 1 => i # 1
      /\ i <= Len(keys) => i # Len(N[p].ptrs)
      /\ i = Len(keys) + 1 => i = Len(N[p].ptrs)
  BY <1>1, <1>2
<1> QED
  BY <1>1, <1>6, <1>7, <1>8, <1>9 DEF n, keys

\* The separator lies between the two parts and between the bounds.
Separates(U, F, low, high, n, new, key) ==
    /\ key \in Nat /\ low[n] < key /\ (high[n] # 0 => key < high[n])
    /\ \A k \in ToSet(F[n].keys) : k < key
    /\ \A k \in ToSet(F[new].keys) : key <= k /\ (U[n].leaf \/ key < k)

\* What the two parts cover is ordered.
LEMMA DivideOrdered ==
    ASSUME NEW U, NEW F, NEW r, NEW dep, NEW H, NEW low, NEW high,
           NEW n, NEW new, NEW p, NEW i, NEW key,
           Shape(U, r, dep, H, low, high), Divided(U, F, n, new, p, i, key), NodesTyped(F),
           Separates(U, F, low, high, n, new, key)
    PROVE  Ordered(F, Given(low, new, key), Given(Given(high, n, key), new, high[n]))
<1> DEFINE L == Given(low, new, key)
           G == Given(Given(high, n, key), new, high[n])
<1>1. /\ n \in DOMAIN U /\ p \in DOMAIN U /\ n # p /\ new \notin DOMAIN U
      /\ DOMAIN F = DOMAIN U \cup {new} /\ DOMAIN low = DOMAIN U /\ DOMAIN high = DOMAIN U
  BY DEF Divided, Shape, Measured
<1>2. /\ L[new] = key /\ G[new] = high[n] /\ G[n] = key /\ L[n] = low[n]
      /\ \A m \in DOMAIN U : L[m] = low[m] /\ (m # n => G[m] = high[m])
  BY <1>1 DEF Given
<1> HIDE DEF L, G
<1>3. ASSUME NEW m \in DOMAIN U
      PROVE  /\ low[m] \in Nat /\ high[m] \in Nat
             /\ high[m] # 0 => low[m] < high[m]
             /\ Increasing(U[m].keys) /\ U[m].keys \in Seq(Nat) /\ ToSet(U[m].keys) \subseteq Nat
             /\ \A k \in ToSet(U[m].keys) :
                   low[m] <= k /\ (high[m] = 0 \/ k < high[m]) /\ (U[m].leaf \/ low[m] < k)
  BY TypesOfNodes, TypesOfMeasures DEF Shape, Ordered, Covers
<1>4. /\ key \in Nat /\ low[n] < key /\ (high[n] # 0 => key < high[n])
      /\ \A k \in ToSet(F[n].keys) : k < key
      /\ \A k \in ToSet(F[new].keys) : key <= k /\ (U[n].leaf \/ key < k)
  BY DEF Separates
<1> DEFINE Fine(m) ==
             /\ G[m] # 0 => L[m] < G[m]
             /\ Increasing(F[m].keys)
             /\ \A k \in ToSet(F[m].keys) :
                   L[m] <= k /\ (G[m] = 0 \/ k < G[m]) /\ (F[m].leaf \/ L[m] < k)
<1>5. ASSUME NEW m \in DOMAIN U, m # n, m # p
      PROVE  Fine(m)
  <2>1. F[m].leaf = U[m].leaf /\ F[m].keys = U[m].keys
    BY <1>5 DEF Divided
  <2> QED
    BY <1>2, <1>3, <1>5, <2>1
<1>6. /\ F[n].leaf = U[n].leaf /\ F[new].leaf = U[n].leaf
      /\ Increasing(F[n].keys) /\ Increasing(F[new].keys)
      /\ ToSet(F[n].keys) \subseteq ToSet(U[n].keys) /\ ToSet(F[new].keys) \subseteq ToSet(U[n].keys)
  <2>1. F[n].keys \in Seq(Nat) /\ F[new].keys \in Seq(Nat) /\ <<key>> \in Seq(Nat)
    BY <1>1, <1>4, TypesOfNodes
  <2>2. CASE U[n].leaf
    <3>1. U[n].keys = F[n].keys \o F[new].keys /\ Increasing(U[n].keys)
      BY <1>1, <1>3, <2>2 DEF Divided, PartsDivided
    <3>2. Increasing(F[n].keys \o F[new].keys)
      BY <3>1
    <3>3. /\ Increasing(F[n].keys) /\ Increasing(F[new].keys)
          /\ ToSet(F[n].keys \o F[new].keys) = ToSet(F[n].keys) \cup ToSet(F[new].keys)
      BY <2>1, <3>2, ConcatIncreases, ToSetOfConcat
    <3> QED
      BY <3>1, <3>3 DEF Divided, PartsDivided
  <2>3. CASE ~ U[n].leaf
    <3>1. U[n].keys = (F[n].keys \o <<key>>) \o F[new].keys /\ Increasing(U[n].keys)
      BY <1>1, <1>3, <2>3 DEF Divided, PartsDivided
    <3>2. Increasing((F[n].keys \o <<key>>) \o F[new].keys)
      BY <3>1
    <3>3. /\ Increasing(F[n].keys) /\ Increasing(F[new].keys)
          /\ ToSet((F[n].keys \o <<key>>) \o F[new].keys)
                = ToSet(F[n].keys) \cup ToSet(F[new].keys) \cup {key}
      BY <1>4, <2>1, <3>2, PartsAround
    <3> QED
      BY <3>1, <3>3 DEF Divided, PartsDivided
  <2> QED
    BY <2>2, <2>3
<1>7. Fine(n)
  BY <1>1, <1>2, <1>3, <1>4, <1>6
<1>8. Fine(new)
  BY <1>1, <1>2, <1>3, <1>4, <1>6
<1>9. Fine(p)
  <2> DEFINE c == Len(U[p].keys)
  <2>1. /\ F[p].leaf = U[p].leaf /\ ~ U[p].leaf
        /\ F[p].keys = InsertAt(U[p].keys, i, key)
        /\ i \in 1 .. Len(U[p].ptrs) /\ n = U[p].ptrs[i]
        /\ Len(U[p].ptrs) = c + 1
    BY DEF Divided, ParentEntered
  <2>2. /\ low[p] <= low[n] /\ (high[n] = 0 => high[p] = 0)
        /\ high[p] # 0 => high[n] <= high[p]
        /\ i > 1 => low[n] = U[p].keys[i - 1]
        /\ i <= c => high[n] = U[p].keys[i]
    BY <1>1, <2>1, ChildWithin
  <2>3. low[p] < key /\ (high[p] = 0 \/ key < high[p])
    BY <1>1, <1>3, <1>4, <2>2
  <2>4. c \in Nat /\ i \in 1 .. (c + 1) /\ U[p].keys \in Seq(Nat)
    BY <1>1, <1>3, <2>1
  <2>5. i > 1 => U[p].keys[i - 1] < key
    BY <1>4, <2>2
  <2>6. i <= c => key < U[p].keys[i]
    <3>1. SUFFICES ASSUME i <= c
                   PROVE  key < U[p].keys[i]
      OBVIOUS
    <3>2. high[n] = U[p].keys[i] /\ U[p].keys[i] \in ToSet(U[p].keys)
      BY <2>2, <2>4, <3>1, ElementsInSet
    <3>3. ToSet(U[p].keys) \subseteq Nat \ {0}
      BY <1>1, TypesOfNodes DEF Shape
    <3> QED
      BY <1>4, <3>2, <3>3
  <2>7. Increasing(F[p].keys)
    BY <1>1, <1>3, <1>4, <2>1, <2>4, <2>5, <2>6, InsertAtIncreases, SMTT(30)
  <2>8. ToSet(F[p].keys) = ToSet(U[p].keys) \cup {key}
    BY <1>4, <2>1, <2>4, ToSetOfInsertAt
  <2> QED
    BY <1>1, <1>2, <1>3, <1>4, <2>1, <2>3, <2>7, <2>8
<1>10. \A m \in DOMAIN F : Fine(m)
  BY <1>1, <1>5, <1>7, <1>8, <1>9
<1> QED
  BY <1>10 DEF Ordered, Covers, L, G

\* The leaves stay linked.
LEMMA DivideLeaves ==
    ASSUME NEW U, NEW F, NEW r, NEW dep, NEW H, NEW low, NEW high,
           NEW n, NEW new, NEW p, NEW i, NEW key,
           Shape(U, r, dep, H, low, high), Divided(U, F, n, new, p, i, key),
           key # 0
    PROVE  LeavesShaped(F, Given(dep, new, dep[n]), H, Given(low, new, key),
                        Given(Given(high, n, key), new, high[n]))
<1> DEFINE D == Given(dep, new, dep[n])
           L == Given(low, new, key)
           G == Given(Given(high, n, key), new, high[n])
<1>1. /\ n \in DOMAIN U /\ p \in DOMAIN U /\ n # p /\ new \notin DOMAIN U
      /\ DOMAIN F = DOMAIN U \cup {new} /\ DOMAIN low = DOMAIN U /\ DOMAIN high = DOMAIN U
      /\ DOMAIN dep = DOMAIN U
  BY DEF Divided, Shape, Measured
<1>2. /\ L[new] = key /\ G[new] = high[n] /\ G[n] = key /\ D[new] = dep[n]
      /\ \A m \in DOMAIN U : L[m] = low[m] /\ D[m] = dep[m] /\ (m # n => G[m] = high[m])
  BY <1>1 DEF Given
<1> HIDE DEF L, G, D
<1>3. /\ ~ U[p].leaf /\ ~ F[p].leaf /\ F[n].leaf = U[n].leaf /\ F[new].leaf = U[n].leaf
      /\ \A m \in DOMAIN U \ {n, p} :
            F[m].leaf = U[m].leaf /\ F[m].keys = U[m].keys /\ F[m].ptrs = U[m].ptrs
                                  /\ F[m].next = U[m].next
  BY DEF Divided, ParentEntered, PartsDivided
<1>4. \A m \in DOMAIN U : F[m].leaf <=> U[m].leaf
  BY <1>1, <1>3
<1>5. \A m \in DOMAIN U : U[m].leaf =>
        /\ dep[m] = H
        /\ U[m].ptrs = U[m].keys
        /\ high[m] = 0 => U[m].next = Null
        /\ high[m] # 0 => /\ U[m].next \in DOMAIN U
                          /\ U[U[m].next].leaf
                          /\ low[U[m].next] = high[m]
  BY DEF Shape, LeavesShaped
<1> DEFINE Fine(m) ==
        /\ D[m] = H
        /\ F[m].ptrs = F[m].keys
        /\ G[m] = 0 => F[m].next = Null
        /\ G[m] # 0 => /\ F[m].next \in DOMAIN F
                       /\ F[F[m].next].leaf
                       /\ L[F[m].next] = G[m]
<1>6. ASSUME NEW m \in DOMAIN U, U[m].leaf, m # n
      PROVE  Fine(m)
  <2>1. m # p
    BY <1>3, <1>6
  <2> QED
    BY <1>1, <1>2, <1>3, <1>4, <1>5, <1>6, <2>1
<1>7. ASSUME U[n].leaf
      PROVE  Fine(n) /\ Fine(new)
  <2>1. /\ F[n].ptrs = F[n].keys /\ F[new].ptrs = F[new].keys
        /\ F[n].next = new /\ F[new].next = U[n].next
    BY <1>7 DEF Divided, PartsDivided
  <2>2. Fine(n)
    BY <1>1, <1>2, <1>3, <1>4, <1>5, <1>7, <2>1
  <2>3. Fine(new)
    <3>1. /\ D[new] = H /\ F[new].ptrs = F[new].keys
          /\ G[new] = 0 => F[new].next = Null
      BY <1>1, <1>2, <1>5, <1>7, <2>1
    <3>2. ASSUME G[new] # 0
          PROVE  /\ U[n].next \in DOMAIN U /\ U[U[n].next].leaf
                 /\ low[U[n].next] = G[new]
      BY <1>1, <1>2, <1>5, <1>7, <3>2
    <3> QED
      BY <1>1, <1>2, <1>4, <2>1, <3>1, <3>2
  <2> QED
    BY <2>2, <2>3
<1>8. ASSUME NEW m \in DOMAIN F, F[m].leaf
      PROVE  Fine(m)
  BY <1>1, <1>3, <1>4, <1>6, <1>7, <1>8
<1> QED
  BY <1>8 DEF LeavesShaped, L, G, D

\* So do the children with their parents.
LEMMA DivideInner ==
    ASSUME NEW U, NEW F, NEW r, NEW dep, NEW H, NEW low, NEW high,
           NEW n, NEW new, NEW p, NEW i, NEW key,
           Shape(U, r, dep, H, low, high), Divided(U, F, n, new, p, i, key), NodesTyped(F),
           key \in Nat
    PROVE  InnerShaped(F, Given(dep, new, dep[n]), H, Given(low, new, key),
                       Given(Given(high, n, key), new, high[n]))
<1> DEFINE D == Given(dep, new, dep[n])
           L == Given(low, new, key)
           G == Given(Given(high, n, key), new, high[n])
           Of(m, j, c) == /\ c \in DOMAIN F /\ F[c].parent = m /\ D[c] = D[m] + 1
                          /\ L[c] = LowAt(F[m].keys, L[m], j)
                          /\ G[c] = HighAt(F[m].keys, G[m], j)
           Fine(m) == /\ D[m] < H
                      /\ F[m].next = Null
                      /\ Len(F[m].ptrs) = Len(F[m].keys) + 1
                      /\ \A j \in 1 .. Len(F[m].ptrs) : Of(m, j, F[m].ptrs[j])
<1>1. /\ n \in DOMAIN U /\ p \in DOMAIN U /\ n # p /\ new \notin DOMAIN U
      /\ DOMAIN F = DOMAIN U \cup {new} /\ DOMAIN low = DOMAIN U /\ DOMAIN high = DOMAIN U
      /\ DOMAIN dep = DOMAIN U
  BY DEF Divided, Shape, Measured
<1>2. /\ L[new] = key /\ G[new] = high[n] /\ G[n] = key /\ D[new] = dep[n]
      /\ \A m \in DOMAIN U : L[m] = low[m] /\ D[m] = dep[m] /\ (m # n => G[m] = high[m])
  BY <1>1 DEF Given
<1> HIDE DEF L, G, D
<1>3. /\ ~ U[p].leaf /\ ~ F[p].leaf /\ F[n].leaf = U[n].leaf /\ F[new].leaf = U[n].leaf
      /\ \A m \in DOMAIN U \ {n, p} :
            F[m].leaf = U[m].leaf /\ F[m].keys = U[m].keys /\ F[m].ptrs = U[m].ptrs
                                  /\ F[m].next = U[m].next
  BY DEF Divided, ParentEntered, PartsDivided
<1>4. ASSUME NEW m \in DOMAIN U, ~ U[m].leaf
      PROVE  /\ dep[m] < H /\ U[m].next = Null
             /\ Len(U[m].ptrs) = Len(U[m].keys) + 1
             /\ \A j \in 1 .. Len(U[m].ptrs) :
                   /\ U[m].ptrs[j] \in DOMAIN U /\ U[U[m].ptrs[j]].parent = m
                   /\ dep[U[m].ptrs[j]] = dep[m] + 1
                   /\ low[U[m].ptrs[j]] = LowAt(U[m].keys, low[m], j)
                   /\ high[U[m].ptrs[j]] = HighAt(U[m].keys, high[m], j)
  BY <1>4 DEF Shape, InnerShaped
<1>5. \A m \in DOMAIN U :
         IF ~ U[n].leaf /\ m \in ToSet(F[new].ptrs)
         THEN U[m].parent = n /\ F[m].parent = new
         ELSE F[m].parent = U[m].parent
  BY DEF Divided
<1>6. /\ U[n].parent = p /\ F[new].parent = p
      /\ i \in 1 .. Len(U[p].ptrs) /\ U[p].ptrs[i] = n
  BY <1>1, <1>4 DEF Divided
\* A child of another node than n is the child it was.
<1>7. ASSUME NEW c \in DOMAIN U, U[c].parent # n
      PROVE  F[c].parent = U[c].parent /\ c \in DOMAIN F
  BY <1>1, <1>5, <1>7
<1>8. ASSUME NEW m \in DOMAIN U, ~ U[m].leaf, m # n, m # p
      PROVE  Fine(m)
  <2>1. ASSUME NEW j \in 1 .. Len(F[m].ptrs)
        PROVE  Of(m, j, F[m].ptrs[j])
    <3> DEFINE c == U[m].ptrs[j]
    <3>1. c = F[m].ptrs[j] /\ c \in DOMAIN U /\ U[c].parent = m /\ F[m].keys = U[m].keys
          /\ dep[c] = dep[m] + 1
          /\ low[c] = LowAt(U[m].keys, low[m], j)
          /\ high[c] = HighAt(U[m].keys, high[m], j)
      BY <1>3, <1>4, <1>8
    <3> HIDE DEF c
    <3>2. c # n
      BY <1>6, <1>8, <3>1
    <3>3. F[c].parent = m /\ c \in DOMAIN F
      BY <1>7, <1>8, <3>1
    <3> QED
      BY <1>2, <1>8, <3>1, <3>2, <3>3
  <2> QED
    BY <1>2, <1>3, <1>4, <1>8, <2>1
<1>9. ASSUME ~ U[n].leaf
      PROVE  Fine(n) /\ Fine(new)
  <2> DEFINE a == Len(F[n].keys)
             b == Len(F[new].keys)
  <2>1. /\ U[n].keys = (F[n].keys \o <<key>>) \o F[new].keys
        /\ Len(F[n].ptrs) = a + 1 /\ Len(F[new].ptrs) = b + 1
        /\ U[n].ptrs = F[n].ptrs \o F[new].ptrs
        /\ F[n].next = U[n].next /\ F[new].next = U[n].next
    BY <1>9 DEF Divided, PartsDivided
  <2>2. /\ F[n].keys \in Seq(Nat) /\ F[new].keys \in Seq(Nat)
        /\ F[n].ptrs \in Seq(Nat) /\ F[new].ptrs \in Seq(Nat)
    BY <1>1, TypesOfNodes
  <2>3. /\ a \in Nat /\ b \in Nat
        /\ \A j \in 1 .. (a + 1) :
              /\ LowAt(U[n].keys, low[n], j) = LowAt(F[n].keys, low[n], j)
              /\ HighAt(U[n].keys, high[n], j) = HighAt(F[n].keys, key, j)
        /\ \A j \in 1 .. (b + 1) :
              /\ LowAt(U[n].keys, low[n], a + 1 + j) = LowAt(F[new].keys, key, j)
              /\ HighAt(U[n].keys, high[n], a + 1 + j) = HighAt(F[new].keys, high[n], j)
    <3> DEFINE s == F[n].keys
               t == F[new].keys
               lo == low[n]
               hi == high[n]
               u == (s \o <<key>>) \o t
    <3>1. s \in Seq(Nat) /\ t \in Seq(Nat) /\ key \in Nat /\ lo \in Nat /\ hi \in Nat
      BY <1>1, <2>2, TypesOfMeasures DEF Shape
    <3> HIDE DEF s, t, lo, hi
    <3>2. /\ u \in Seq(Nat) /\ Len(u) = Len(s) + 1 + Len(t)
          /\ Len(s) \in Nat /\ Len(t) \in Nat
          /\ \A j \in 1 .. (Len(s) + 1) :
                LowAt(u, lo, j) = LowAt(s, lo, j) /\ HighAt(u, hi, j) = HighAt(s, key, j)
          /\ \A j \in 1 .. (Len(t) + 1) :
                /\ LowAt(u, lo, Len(s) + 1 + j) = LowAt(t, key, j)
                /\ HighAt(u, hi, Len(s) + 1 + j) = HighAt(t, hi, j)
      BY <3>1, AroundGaps
    <3> HIDE DEF u
    <3>3. u = U[n].keys
      BY <2>1 DEF u, s, t
    <3> QED
      BY <3>2, <3>3 DEF s, t, lo, hi
  <2>4. /\ Len(U[n].ptrs) = a + 1 + (b + 1)
        /\ \A j \in 1 .. (a + 1) : U[n].ptrs[j] = F[n].ptrs[j]
        /\ \A j \in 1 .. (b + 1) : U[n].ptrs[a + 1 + j] = F[new].ptrs[j]
    <3> DEFINE s == F[n].ptrs
               t == F[new].ptrs
    <3>1. s \in Seq(Nat) /\ t \in Seq(Nat)
      BY <2>2
    <3> HIDE DEF s, t
    <3>2. /\ Len(s \o t) = Len(s) + Len(t) /\ Len(s) \in Nat /\ Len(t) \in Nat
          /\ \A j \in 1 .. Len(s) : (s \o t)[j] = s[j]
          /\ \A j \in 1 .. Len(t) : (s \o t)[Len(s) + j] = t[j]
      BY <3>1, ConcatPlaces
    <3>3. s \o t = U[n].ptrs /\ Len(s) = a + 1 /\ Len(t) = b + 1
      BY <2>1 DEF s, t
    <3> QED
      BY <3>2, <3>3 DEF s, t
  <2>5. /\ \A j \in 1 .. (b + 1) : F[new].ptrs[j] \in ToSet(F[new].ptrs)
        /\ \A c \in ToSet(F[new].ptrs) : \E j \in 1 .. (b + 1) : F[new].ptrs[j] = c
    BY <2>1, <2>2, ElementsInSet
  <2>6. /\ \A j \in 1 .. (a + 1) : j \in 1 .. Len(U[n].ptrs)
        /\ \A j \in 1 .. (b + 1) : a + 1 + j \in 1 .. Len(U[n].ptrs)
        /\ \A j \in 1 .. (a + 1), l \in 1 .. (b + 1) : j # a + 1 + l
    <3> HIDE DEF a, b
    <3> QED
      BY <2>3, <2>4
  <2> HIDE DEF a, b
  <2>7. ASSUME NEW j \in 1 .. (a + 1)
        PROVE  Of(n, j, F[n].ptrs[j])
    <3> DEFINE c == U[n].ptrs[j]
    <3>1. c = F[n].ptrs[j] /\ c \in DOMAIN U /\ U[c].parent = n
          /\ dep[c] = dep[n] + 1
          /\ low[c] = LowAt(F[n].keys, low[n], j)
          /\ high[c] = HighAt(F[n].keys, key, j)
      BY <1>1, <1>4, <1>9, <2>3, <2>4, <2>6
    <3>2. c \notin ToSet(F[new].ptrs)
      <4>1. SUFFICES ASSUME NEW l \in 1 .. (b + 1), F[new].ptrs[l] = c
                     PROVE  FALSE
        BY <2>5
      <4>2. U[n].ptrs[a + 1 + l] = U[n].ptrs[j] /\ a + 1 + l \in 1 .. Len(U[n].ptrs)
            /\ j \in 1 .. Len(U[n].ptrs) /\ j # a + 1 + l
        BY <2>4, <2>6, <4>1
      <4> QED
        BY <1>1, <1>9, <4>2, ChildrenDiffer
    <3> HIDE DEF c
    <3>3. c # n /\ F[c].parent = n /\ c \in DOMAIN F
      BY <1>1, <1>5, <1>6, <3>1, <3>2
    <3> QED
      BY <1>1, <1>2, <3>1, <3>3
  <2>8. ASSUME NEW j \in 1 .. (b + 1)
        PROVE  Of(new, j, F[new].ptrs[j])
    <3> DEFINE c == U[n].ptrs[a + 1 + j]
    <3>1. c = F[new].ptrs[j] /\ c \in DOMAIN U /\ U[c].parent = n
          /\ dep[c] = dep[n] + 1
          /\ low[c] = LowAt(F[new].keys, key, j)
          /\ high[c] = HighAt(F[new].keys, high[n], j)
      BY <1>1, <1>4, <1>9, <2>3, <2>4, <2>6
    <3> HIDE DEF c
    <3>2. c # n /\ F[c].parent = new /\ c \in DOMAIN F
      BY <1>1, <1>5, <1>6, <1>9, <2>5, <3>1
    <3> QED
      BY <1>1, <1>2, <3>1, <3>2
  <2> QED
    BY <1>1, <1>2, <1>4, <1>9, <2>1, <2>7, <2>8 DEF a, b
<1>10. Fine(p)
  <2> DEFINE m == Len(U[p].keys)
  <2>1. /\ F[p].next = U[p].next
        /\ F[p].keys = InsertAt(U[p].keys, i, key)
        /\ F[p].ptrs = InsertAt(U[p].ptrs, i + 1, new)
        /\ Len(U[p].ptrs) = m + 1
    BY DEF Divided, ParentEntered
  <2>2. /\ U[p].keys \in Seq(Nat) /\ U[p].ptrs \in Seq(Nat) /\ new \in Nat /\ m \in Nat
    BY <1>1, TypesOfNodes DEF Shape
  <2>3. i \in 1 .. (m + 1) /\ i + 1 \in 1 .. (Len(U[p].ptrs) + 1) /\ i \in Nat
    BY <1>6, <2>1, <2>2
  <2>4. LET t == F[p].keys IN
        /\ Len(t) = m + 1
        /\ \A j \in 1 .. (m + 1) : j < i =>
              LowAt(t, low[p], j) = LowAt(U[p].keys, low[p], j) /\ HighAt(t, high[p], j) = HighAt(U[p].keys, high[p], j)
        /\ LowAt(t, low[p], i) = LowAt(U[p].keys, low[p], i) /\ HighAt(t, high[p], i) = key
        /\ LowAt(t, low[p], i + 1) = key /\ HighAt(t, high[p], i + 1) = HighAt(U[p].keys, high[p], i)
        /\ \A j \in 1 .. (m + 1) : j > i =>
              /\ LowAt(t, low[p], j + 1) = LowAt(U[p].keys, low[p], j)
              /\ HighAt(t, high[p], j + 1) = HighAt(U[p].keys, high[p], j)
    <3> DEFINE s == U[p].keys
               lo == low[p]
               hi == high[p]
               t == InsertAt(s, i, key)
    <3>1. s \in Seq(Nat) /\ i \in 1 .. (Len(s) + 1) /\ key \in Nat /\ lo \in Nat /\ hi \in Nat
      BY <1>1, <2>2, <2>3, TypesOfMeasures DEF Shape
    <3> HIDE DEF s, lo, hi, m
    <3>2. /\ t \in Seq(Nat) /\ Len(t) = Len(s) + 1 /\ Len(s) \in Nat
          /\ \A j \in 1 .. (Len(s) + 1) : j < i =>
                LowAt(t, lo, j) = LowAt(s, lo, j) /\ HighAt(t, hi, j) = HighAt(s, hi, j)
          /\ LowAt(t, lo, i) = LowAt(s, lo, i) /\ HighAt(t, hi, i) = key
          /\ LowAt(t, lo, i + 1) = key /\ HighAt(t, hi, i + 1) = HighAt(s, hi, i)
          /\ \A j \in 1 .. (Len(s) + 1) : j > i =>
                /\ LowAt(t, lo, j + 1) = LowAt(s, lo, j)
                /\ HighAt(t, hi, j + 1) = HighAt(s, hi, j)
      <4>1. t \in Seq(Nat) /\ Len(t) = Len(s) + 1 /\ Len(s) \in Nat
        BY <3>1, InsertAtGaps
      <4>2. \A j \in 1 .. (Len(s) + 1) : j < i => LowAt(t, lo, j) = LowAt(s, lo, j)
        BY <3>1, InsertAtGaps
      <4>3. \A j \in 1 .. (Len(s) + 1) : j < i => HighAt(t, hi, j) = HighAt(s, hi, j)
        BY <3>1, InsertAtGaps
      <4>4. LowAt(t, lo, i) = LowAt(s, lo, i)
        BY <3>1, InsertAtGaps
      <4>5. HighAt(t, hi, i) = key
        BY <3>1, InsertAtGaps
      <4>6. LowAt(t, lo, i + 1) = key
        BY <3>1, InsertAtGaps
      <4>7. HighAt(t, hi, i + 1) = HighAt(s, hi, i)
        BY <3>1, InsertAtGaps
      <4>8. \A j \in 1 .. (Len(s) + 1) : j > i => LowAt(t, lo, j + 1) = LowAt(s, lo, j)
        BY <3>1, InsertAtGaps
      <4>9. \A j \in 1 .. (Len(s) + 1) : j > i => HighAt(t, hi, j + 1) = HighAt(s, hi, j)
        BY <3>1, InsertAtGaps
      <4> HIDE DEF t
      <4> QED
        BY <4>1, <4>2, <4>3, <4>4, <4>5, <4>6, <4>7, <4>8, <4>9
    <3> HIDE DEF t
    <3>3. t = F[p].keys /\ Len(s) = m
      BY <2>1 DEF t, s, m
    <3> QED
      BY <3>2, <3>3 DEF s, lo, hi
  <2>5. /\ Len(F[p].ptrs) = m + 2
        /\ \A j \in 1 .. (m + 2) :
              F[p].ptrs[j] = IF j < i + 1 THEN U[p].ptrs[j] ELSE IF j = i + 1 THEN new ELSE U[p].ptrs[j - 1]
    <3> DEFINE s == U[p].ptrs
               l == i + 1
               t == InsertAt(s, l, new)
    <3>1. s \in Seq(Nat) /\ l \in 1 .. (Len(s) + 1) /\ new \in Nat /\ Len(s) + 1 = m + 2
      BY <2>1, <2>2, <2>3
    <3> HIDE DEF s, l, m
    <3>2. /\ Len(t) = Len(s) + 1
          /\ \A j \in 1 .. (Len(s) + 1) :
                t[j] = IF j < l THEN s[j] ELSE IF j = l THEN new ELSE s[j - 1]
      BY <3>1, InsertAtProperties
    <3> HIDE DEF t
    <3>3. t = F[p].ptrs /\ l = i + 1
      BY <2>1 DEF t, s, l
    <3> QED
      BY <3>1, <3>2, <3>3 DEF s
  <2> HIDE DEF m
  \* The children that were there before, n apart.
  <2>6. ASSUME NEW j \in 1 .. (m + 1)
        PROVE  LET c == U[p].ptrs[j] IN
               /\ c \in DOMAIN U /\ c \in DOMAIN F /\ F[c].parent = p /\ D[c] = D[p] + 1
               /\ L[c] = LowAt(U[p].keys, low[p], j)
               /\ j # i => c # n /\ G[c] = HighAt(U[p].keys, high[p], j)
    <3> DEFINE c == U[p].ptrs[j]
    <3>1. /\ c \in DOMAIN U /\ U[c].parent = p /\ dep[c] = dep[p] + 1
          /\ low[c] = LowAt(U[p].keys, low[p], j) /\ high[c] = HighAt(U[p].keys, high[p], j)
      BY <1>1, <1>3, <1>4, <2>1
    <3>2. j # i => c # n
      BY <1>1, <1>3, <1>6, <2>1, ChildrenDiffer
    <3> HIDE DEF c
    <3>3. F[c].parent = p /\ c \in DOMAIN F
      BY <1>1, <1>7, <3>1
    <3>4. D[c] = D[p] + 1 /\ L[c] = LowAt(U[p].keys, low[p], j)
          /\ (j # i => c # n /\ G[c] = HighAt(U[p].keys, high[p], j))
      BY <1>1, <1>2, <3>1, <3>2
    <3> QED
      BY <3>1, <3>3, <3>4 DEF c
  <2>7. L[p] = low[p] /\ G[p] = high[p] /\ D[p] = dep[p]
    BY <1>1, <1>2
  <2>8. ASSUME NEW j \in 1 .. (m + 2)
        PROVE  Of(p, j, F[p].ptrs[j])
    <3>1. CASE j < i
      <4>1. j \in 1 .. (m + 1) /\ F[p].ptrs[j] = U[p].ptrs[j] /\ j # i
        BY <2>2, <2>3, <2>5, <3>1
      <4> QED
        BY <2>4, <2>6, <2>7, <3>1, <4>1
    <3>2. CASE j = i
      <4>1. F[p].ptrs[j] = n
        <5>1. i < i + 1 /\ i \in 1 .. (m + 2)
          BY <2>2, <2>3
        <5> QED
          BY <1>6, <2>5, <3>2, <5>1
      <4>2. n \in DOMAIN F /\ F[n].parent = p /\ D[n] = D[p] + 1 /\ L[n] = LowAt(U[p].keys, low[p], i)
        BY <1>6, <2>3, <2>6
      <4> QED
        BY <1>2, <2>4, <2>7, <3>2, <4>1, <4>2
    <3>3. CASE j = i + 1
      <4>1. F[p].ptrs[j] = new
        BY <2>2, <2>3, <2>5, <3>3
      <4>2. high[n] = HighAt(U[p].keys, high[p], i) /\ dep[n] = dep[p] + 1
        BY <1>1, <1>3, <1>4, <1>6
      <4> QED
        BY <1>1, <1>2, <1>6, <2>4, <2>7, <3>3, <4>1, <4>2
    <3>4. CASE j > i + 1
      <4>3. /\ j - 1 \in 1 .. (m + 1) /\ j - 1 # i /\ j - 1 > i /\ (j - 1) + 1 = j
            /\ ~ (j < i + 1) /\ j # i + 1
        BY <2>2, <2>3, <3>4
      <4>1. /\ j - 1 \in 1 .. (m + 1) /\ F[p].ptrs[j] = U[p].ptrs[j - 1] /\ j - 1 # i
            /\ j - 1 > i /\ (j - 1) + 1 = j
        BY <2>5, <4>3
      <4>2. LowAt(F[p].keys, low[p], j) = LowAt(U[p].keys, low[p], j - 1)
            /\ HighAt(F[p].keys, high[p], j) = HighAt(U[p].keys, high[p], j - 1)
        BY <2>4, <4>1
      <4> QED
        BY <2>6, <2>7, <4>1, <4>2
    <3>5. j < i \/ j = i \/ j = i + 1 \/ j > i + 1
      BY <2>3
    <3> QED
      BY <3>1, <3>2, <3>3, <3>4, <3>5
  <2>9. Len(F[p].ptrs) = Len(F[p].keys) + 1
    BY <2>2, <2>4, <2>5
  <2> QED
    BY <1>1, <1>2, <1>3, <1>4, <2>1, <2>5, <2>8, <2>9
<1>11. ASSUME NEW m \in DOMAIN F, ~ F[m].leaf
       PROVE  Fine(m)
  BY <1>1, <1>3, <1>8, <1>9, <1>10, <1>11, SMTT(30)
<1> QED
  BY <1>11 DEF InnerShaped, L, G, D

\* Every node but the root is a child of its parent.
LEMMA DivideRooted ==
    ASSUME NEW U, NEW F, NEW r, NEW dep, NEW H, NEW low, NEW high,
           NEW n, NEW new, NEW p, NEW i, NEW key,
           Shape(U, r, dep, H, low, high), Divided(U, F, n, new, p, i, key), NodesTyped(F)
    PROVE  Rooted(F, r, Given(dep, new, dep[n]), Given(low, new, key),
                  Given(Given(high, n, key), new, high[n]))
<1> DEFINE D == Given(dep, new, dep[n])
           L == Given(low, new, key)
           G == Given(Given(high, n, key), new, high[n])
           Child(N, m, q) == q \in DOMAIN N /\ ~ N[q].leaf /\ m \in ToSet(N[q].ptrs)
<1>1. /\ n \in DOMAIN U /\ p \in DOMAIN U /\ n # p /\ new \notin DOMAIN U
      /\ DOMAIN F = DOMAIN U \cup {new} /\ DOMAIN low = DOMAIN U /\ DOMAIN high = DOMAIN U
      /\ DOMAIN dep = DOMAIN U
  BY DEF Divided, Shape, Measured
<1>2. \A m \in DOMAIN U : L[m] = low[m] /\ D[m] = dep[m] /\ (m # n => G[m] = high[m])
  BY <1>1 DEF Given
<1> HIDE DEF L, G, D
<1>3. /\ ~ U[p].leaf /\ ~ F[p].leaf /\ F[n].leaf = U[n].leaf /\ F[new].leaf = U[n].leaf
      /\ \A m \in DOMAIN U \ {n, p} : F[m].leaf = U[m].leaf /\ F[m].ptrs = U[m].ptrs
  BY DEF Divided, ParentEntered, PartsDivided
<1>4. \A m \in DOMAIN U :
         IF ~ U[n].leaf /\ m \in ToSet(F[new].ptrs)
         THEN U[m].parent = n /\ F[m].parent = new
         ELSE F[m].parent = U[m].parent
  BY DEF Divided
<1>5. /\ F[new].parent = p /\ i \in 1 .. Len(U[p].ptrs) /\ U[p].ptrs[i] = n
  BY DEF Divided
<1>6. U[n].parent = p
  BY <1>1, <1>3, <1>5 DEF Shape, InnerShaped
<1>7. r \in DOMAIN U /\ U[r].parent = Null /\ dep[r] = 0 /\ low[r] = 0 /\ high[r] = 0
  BY DEF Shape, Rooted
<1>8. n # 0 /\ p # 0
  BY <1>1, TypesOfNodes DEF Shape
<1>9. r # n /\ F[r].parent = Null
  BY <1>4, <1>6, <1>7, <1>8 DEF Null
<1>10. ToSet(F[p].ptrs) = ToSet(U[p].ptrs) \cup {new}
  <2> DEFINE s == U[p].ptrs
             l == i + 1
  <2>1. s \in Seq(Nat) /\ l \in 1 .. (Len(s) + 1) /\ new \in Nat
    BY <1>1, <1>5, TypesOfNodes DEF Shape
  <2>2. F[p].ptrs = InsertAt(s, l, new)
    BY DEF Divided, ParentEntered
  <2> HIDE DEF s, l
  <2>3. ToSet(InsertAt(s, l, new)) = ToSet(s) \cup {new}
    BY <2>1, ToSetOfInsertAt
  <2> QED
    BY <2>2, <2>3 DEF s
<1>11. ~ U[n].leaf => ToSet(U[n].ptrs) = ToSet(F[n].ptrs) \cup ToSet(F[new].ptrs)
  <2> DEFINE s == F[n].ptrs
             t == F[new].ptrs
  <2>1. s \in Seq(Nat) /\ t \in Seq(Nat)
    BY <1>1, TypesOfNodes
  <2>2. ~ U[n].leaf => U[n].ptrs = s \o t
    BY DEF Divided, PartsDivided
  <2> HIDE DEF s, t
  <2>3. ToSet(s \o t) = ToSet(s) \cup ToSet(t)
    BY <2>1, ToSetOfConcat
  <2> QED
    BY <2>2, <2>3 DEF s, t
<1>12. ASSUME NEW m \in DOMAIN U \ {r}
       PROVE  Child(U, m, U[m].parent)
  <2>1. /\ U[m].parent \in DOMAIN U /\ ~ U[U[m].parent].leaf
        /\ \E j \in 1 .. Len(U[U[m].parent].ptrs) : U[U[m].parent].ptrs[j] = m
    BY <1>12 DEF Shape, Rooted
  <2>2. ToSet(U[U[m].parent].ptrs) = {U[U[m].parent].ptrs[j] : j \in 1 .. Len(U[U[m].parent].ptrs)}
    BY <2>1, TypesOfNodes DEF Shape
  <2> QED
    BY <2>1, <2>2
<1>13. ASSUME NEW m \in DOMAIN U \ {r}
       PROVE  Child(F, m, F[m].parent)
  <2> DEFINE q == U[m].parent
  <2>1. q \in DOMAIN U /\ ~ U[q].leaf /\ m \in ToSet(U[q].ptrs)
    BY <1>12
  <2> HIDE DEF q
  <2>2. CASE ~ U[n].leaf /\ m \in ToSet(F[new].ptrs)
    BY <1>1, <1>3, <1>4, <2>2
  <2>3. CASE ~ (~ U[n].leaf /\ m \in ToSet(F[new].ptrs))
    <3>1. F[m].parent = q
      BY <1>4, <2>3 DEF q
    <3>2. CASE q = n
      BY <1>1, <1>3, <1>11, <2>1, <2>3, <3>1, <3>2
    <3>3. CASE q = p
      BY <1>1, <1>3, <1>10, <2>1, <3>1, <3>3
    <3>4. CASE q # n /\ q # p
      BY <1>1, <1>3, <2>1, <3>1, <3>4
    <3> QED
      BY <3>2, <3>3, <3>4
  <2> QED
    BY <2>2, <2>3
<1>14. Child(F, new, F[new].parent)
  BY <1>1, <1>3, <1>5, <1>10
<1>15. ASSUME NEW m \in DOMAIN F \ {r}
       PROVE  /\ F[m].parent \in DOMAIN F
              /\ ~ F[F[m].parent].leaf
              /\ \E j \in 1 .. Len(F[F[m].parent].ptrs) : F[F[m].parent].ptrs[j] = m
  <2>1. Child(F, m, F[m].parent)
    BY <1>1, <1>13, <1>14
  <2>2. ToSet(F[F[m].parent].ptrs) = {F[F[m].parent].ptrs[j] : j \in 1 .. Len(F[F[m].parent].ptrs)}
    BY <2>1, TypesOfNodes
  <2> QED
    BY <2>1, <2>2
<1> QED
  BY <1>1, <1>2, <1>7, <1>9, <1>15 DEF Rooted, L, G, D

\* A tree one of whose nodes is divided is a tree of the same keys.
LEMMA DivideShape ==
    ASSUME NEW U, NEW F, NEW r, NEW dep, NEW H, NEW low, NEW high,
           NEW n, NEW new, NEW p, NEW i, NEW key,
           Shape(U, r, dep, H, low, high), Divided(U, F, n, new, p, i, key), NodesTyped(F),
           Separates(U, F, low, high, n, new, key)
    PROVE  Shape(F, r, Given(dep, new, dep[n]), H, Given(low, new, key),
                 Given(Given(high, n, key), new, high[n]))
<1>1. key \in Nat /\ key # 0
  <2>1. key \in Nat /\ low[n] < key /\ n \in DOMAIN U
    BY DEF Separates, Divided
  <2>2. low[n] \in Nat
    BY <2>1, TypesOfMeasures DEF Shape
  <2> QED
    BY <2>1, <2>2
<1>2. Ordered(F, Given(low, new, key), Given(Given(high, n, key), new, high[n]))
  BY DivideOrdered
<1>3. LeavesShaped(F, Given(dep, new, dep[n]), H, Given(low, new, key),
                   Given(Given(high, n, key), new, high[n]))
  BY <1>1, DivideLeaves
<1>4. InnerShaped(F, Given(dep, new, dep[n]), H, Given(low, new, key),
                  Given(Given(high, n, key), new, high[n]))
  BY <1>1, DivideInner
<1>5. Rooted(F, r, Given(dep, new, dep[n]), Given(low, new, key),
             Given(Given(high, n, key), new, high[n]))
  BY DivideRooted
<1>6. Measured(F, Given(dep, new, dep[n]), H, Given(low, new, key),
               Given(Given(high, n, key), new, high[n]))
  <2>1. n \in DOMAIN U /\ DOMAIN F = DOMAIN U \cup {new}
    BY DEF Divided
  <2>2. /\ H \in Nat /\ dep \in [DOMAIN U -> Nat] /\ low \in [DOMAIN U -> Nat]
        /\ high \in [DOMAIN U -> Nat]
    BY DEF Shape, Measured
  <2>3. Given(dep, new, dep[n]) \in [DOMAIN F -> Nat]
    BY <2>1, <2>2 DEF Given
  <2>4. Given(low, new, key) \in [DOMAIN F -> Nat]
    BY <1>1, <2>1, <2>2 DEF Given
  <2>5. Given(high, n, key) \in [DOMAIN U -> Nat]
    BY <1>1, <2>1, <2>2 DEF Given
  <2>6. Given(Given(high, n, key), new, high[n]) \in [DOMAIN F -> Nat]
    BY <2>1, <2>2, <2>5 DEF Given
  <2> QED
    BY <2>2, <2>3, <2>4, <2>6 DEF Measured
<1> QED
  BY <1>2, <1>3, <1>4, <1>5, <1>6 DEF Shape

LEMMA DivideKeys ==
    ASSUME NEW U, NEW F, NEW n, NEW new, NEW p, NEW i, NEW key,
           NodesTyped(F), Divided(U, F, n, new, p, i, key)
    PROVE  LeafKeys(F) = LeafKeys(U)
<1>1. /\ n \in DOMAIN U /\ p \in DOMAIN U /\ n # p /\ new \notin DOMAIN U
      /\ DOMAIN F = DOMAIN U \cup {new}
      /\ ~ U[p].leaf /\ ~ F[p].leaf /\ F[n].leaf = U[n].leaf /\ F[new].leaf = U[n].leaf
      /\ \A m \in DOMAIN U \ {n, p} : F[m].leaf = U[m].leaf /\ F[m].keys = U[m].keys
  BY DEF Divided, ParentEntered, PartsDivided
<1>2. U[n].leaf => ToSet(U[n].keys) = ToSet(F[n].keys) \cup ToSet(F[new].keys)
  <2> DEFINE s == F[n].keys
             t == F[new].keys
  <2>1. s \in Seq(Nat) /\ t \in Seq(Nat)
    BY <1>1, TypesOfNodes
  <2>2. U[n].leaf => U[n].keys = s \o t
    BY DEF Divided, PartsDivided
  <2> HIDE DEF s, t
  <2>3. ToSet(s \o t) = ToSet(s) \cup ToSet(t)
    BY <2>1, ToSetOfConcat
  <2> QED
    BY <2>2, <2>3 DEF s, t
<1>3. ASSUME NEW k, NEW m \in DOMAIN U, U[m].leaf, k \in ToSet(U[m].keys)
      PROVE  \E q \in DOMAIN F : F[q].leaf /\ k \in ToSet(F[q].keys)
  <2>1. CASE m = n
    BY <1>1, <1>2, <1>3, <2>1
  <2>2. CASE m # n
    BY <1>1, <1>3, <2>2
  <2> QED
    BY <2>1, <2>2
<1>4. ASSUME NEW k, NEW m \in DOMAIN F, F[m].leaf, k \in ToSet(F[m].keys)
      PROVE  \E q \in DOMAIN U : U[q].leaf /\ k \in ToSet(U[q].keys)
  <2>1. CASE m = n \/ m = new
    BY <1>1, <1>2, <1>4, <2>1
  <2>2. CASE m # n /\ m # new
    BY <1>1, <1>4, <2>2
  <2> QED
    BY <2>1, <2>2
<1>5. \A k : k \in LeafKeys(F) <=> k \in LeafKeys(U)
  BY <1>3, <1>4 DEF LeafKeys
<1> QED
  BY <1>5

-----------------------------------------------------------------------------
(* Each key is covered by one node of each depth.                          *)

\* A node that is not the root is a child of its parent, one level up, which
\* covers what it covers.
LEMMA ParentCovers ==
    ASSUME NEW N, NEW r, NEW dep, NEW H, NEW low, NEW high, Shape(N, r, dep, H, low, high),
           NEW m \in DOMAIN N, m # r
    PROVE  /\ N[m].parent \in DOMAIN N /\ ~ N[N[m].parent].leaf
           /\ dep[m] = dep[N[m].parent] + 1
           /\ \E a \in 1 .. Len(N[N[m].parent].ptrs) : N[N[m].parent].ptrs[a] = m
           /\ \A k \in Nat : Covers(low, high, m, k) => Covers(low, high, N[m].parent, k)
<1> DEFINE p == N[m].parent
<1>1. p \in DOMAIN N /\ ~ N[p].leaf
  BY DEF Shape, Rooted
<1>2. PICK a \in 1 .. Len(N[p].ptrs) : N[p].ptrs[a] = m
  BY DEF Shape, Rooted
<1>3. dep[m] = dep[p] + 1
  BY <1>1, <1>2 DEF Shape, InnerShaped
<1>4. /\ low[p] <= low[m] /\ (high[m] = 0 => high[p] = 0)
      /\ high[p] # 0 => high[m] <= high[p]
  BY <1>1, <1>2, ChildWithin
<1>5. low[p] \in Nat /\ low[m] \in Nat /\ high[p] \in Nat /\ high[m] \in Nat
  BY <1>1, TypesOfMeasures DEF Shape
<1> HIDE DEF p
<1>6. ASSUME NEW k \in Nat, low[m] <= k, high[m] = 0 \/ k < high[m]
      PROVE  low[p] <= k /\ (high[p] = 0 \/ k < high[p])
  BY <1>4, <1>5, <1>6
<1> QED
  BY <1>1, <1>2, <1>3, <1>6 DEF p, Covers

\* Two children of a node do not cover the same key.
LEMMA ChildrenApart ==
    ASSUME NEW N, NEW r, NEW dep, NEW H, NEW low, NEW high, Shape(N, r, dep, H, low, high),
           NEW p \in DOMAIN N, ~ N[p].leaf,
           NEW a \in 1 .. Len(N[p].ptrs), NEW b \in 1 .. Len(N[p].ptrs), a < b,
           NEW k \in Nat, Covers(low, high, N[p].ptrs[a], k)
    PROVE  ~ Covers(low, high, N[p].ptrs[b], k)
<1> DEFINE m == N[p].ptrs[a]
           n == N[p].ptrs[b]
           keys == N[p].keys
<1>1. /\ m \in DOMAIN N /\ n \in DOMAIN N
      /\ a <= Len(keys) => high[m] = keys[a]
      /\ b > 1 => low[n] = keys[b - 1]
  BY ChildWithin
<1>2. Len(N[p].ptrs) = Len(keys) + 1 /\ Len(keys) \in Nat
  BY TypesOfNodes DEF Shape, InnerShaped
<1>3. keys \in Seq(Nat) /\ ToSet(keys) \subseteq Nat \ {0}
  BY TypesOfNodes DEF Shape
<1>4. Increasing(keys)
  BY DEF Shape, Ordered
<1>5. low[m] \in Nat /\ high[m] \in Nat /\ low[n] \in Nat /\ high[n] \in Nat
  BY <1>1, TypesOfMeasures DEF Shape
<1>6. high[m] = 0 \/ k < high[m]
  BY DEF Covers
<1> HIDE DEF m, n, keys
<1>7. a \in 1 .. Len(keys) /\ b - 1 \in 1 .. Len(keys) /\ a <= b - 1 /\ b > 1
  BY <1>2
<1>8. keys[a] \in Nat \ {0} /\ keys[b - 1] \in Nat
  BY <1>3, <1>7, ElementsInSet
<1>9. keys[a] <= keys[b - 1]
  <2>1. CASE a = b - 1
    BY <1>8, <2>1
  <2>2. CASE a < b - 1
    BY <1>4, <1>7, <1>8, <2>2 DEF Increasing
  <2> QED
    BY <1>7, <2>1, <2>2
<1>10. high[m] = keys[a] /\ low[n] = keys[b - 1]
  BY <1>1, <1>7
<1>11. k < low[n]
  BY <1>5, <1>6, <1>8, <1>9, <1>10
<1> QED
  BY <1>5, <1>11 DEF Covers, n

\* Two nodes of the same depth do not cover the same key.
LEMMA CoverOnce ==
    ASSUME NEW N, NEW r, NEW dep, NEW H, NEW low, NEW high, Shape(N, r, dep, H, low, high),
           NEW k \in Nat, NEW m \in DOMAIN N, NEW n \in DOMAIN N, dep[m] = dep[n],
           Covers(low, high, m, k), Covers(low, high, n, k)
    PROVE  m = n
<1> DEFINE Twice(d, x, y) == /\ dep[x] = d /\ dep[y] = d /\ x # y
                             /\ Covers(low, high, x, k) /\ Covers(low, high, y, k)
           S == {d \in Nat : \E x, y \in DOMAIN N : Twice(d, x, y)}
<1>1. SUFFICES ASSUME m # n
               PROVE  FALSE
  OBVIOUS
<1>2. dep[m] \in S
  <2>1. dep[m] \in Nat
    BY TypesOfMeasures DEF Shape
  <2> QED
    BY <1>1, <2>1
<1>3. PICK d \in S : \A e \in S : d <= e
  <2> HIDE DEF S
  <2>1. S \subseteq Nat
    BY DEF S
  <2> QED
    BY <1>2, <2>1, LeastElement
<1>4. PICK x \in DOMAIN N, y \in DOMAIN N : Twice(d, x, y)
  BY <1>3
<1>5. d \in Nat
  BY <1>3
<1>6. dep[r] = 0 /\ r \in DOMAIN N
  BY DEF Shape, Rooted
<1>7. x # r /\ y # r
  <2>1. ASSUME NEW z \in DOMAIN N, z # r
        PROVE  dep[z] # 0
    <3>1. N[z].parent \in DOMAIN N /\ dep[z] = dep[N[z].parent] + 1
      BY <2>1, ParentCovers
    <3>2. dep[N[z].parent] \in Nat
      BY <3>1, TypesOfMeasures DEF Shape
    <3> QED
      BY <3>1, <3>2
  <2> QED
    BY <1>4, <1>6, <2>1
<1> DEFINE p == N[x].parent
           q == N[y].parent
<1>8. /\ p \in DOMAIN N /\ ~ N[p].leaf /\ dep[x] = dep[p] + 1 /\ Covers(low, high, p, k)
      /\ \E a \in 1 .. Len(N[p].ptrs) : N[p].ptrs[a] = x
  BY <1>4, <1>7, ParentCovers
<1>9. /\ q \in DOMAIN N /\ dep[y] = dep[q] + 1 /\ Covers(low, high, q, k)
      /\ \E b \in 1 .. Len(N[q].ptrs) : N[q].ptrs[b] = y
  <2>1. y # r /\ Covers(low, high, y, k)
    BY <1>4, <1>7
  <2>2. /\ q \in DOMAIN N /\ dep[y] = dep[q] + 1
        /\ \E b \in 1 .. Len(N[q].ptrs) : N[q].ptrs[b] = y
    BY <2>1, ParentCovers
  <2>3. Covers(low, high, q, k)
    BY <2>1, ParentCovers
  <2> QED
    BY <2>2, <2>3
<1> HIDE DEF p, q
<1>10. dep[p] \in Nat /\ dep[q] \in Nat /\ dep[p] = dep[q] /\ dep[p] < d
  BY <1>4, <1>8, <1>9, TypesOfMeasures DEF Shape
<1>11. p = q
  <2>1. SUFFICES ASSUME p # q
                 PROVE  FALSE
    OBVIOUS
  <2>2. dep[p] \in S
    BY <1>8, <1>9, <1>10, <2>1
  <2>3. d <= dep[p]
    BY <1>3, <2>2
  <2> QED
    BY <1>5, <1>10, <2>3
<1>12. PICK a \in 1 .. Len(N[p].ptrs) : N[p].ptrs[a] = x
  BY <1>8
<1>13. PICK b \in 1 .. Len(N[p].ptrs) : N[p].ptrs[b] = y
  BY <1>9, <1>11
<1>14. a < b \/ b < a
  <2>1. a # b /\ a \in Nat /\ b \in Nat
    BY <1>4, <1>12, <1>13
  <2> QED
    BY <2>1
<1>15. Covers(low, high, N[p].ptrs[a], k) /\ Covers(low, high, N[p].ptrs[b], k)
  BY <1>4, <1>12, <1>13
<1> HIDE DEF S
<1>16. ~ (a < b)
  BY <1>8, <1>15, ChildrenApart
<1>17. ~ (b < a)
  BY <1>8, <1>15, ChildrenApart
<1> QED
  BY <1>14, <1>16, <1>17

\* Nodes of the same depth differ in where they begin and in where they end.
LEMMA BoundsDiffer ==
    ASSUME NEW N, NEW r, NEW dep, NEW H, NEW low, NEW high, Shape(N, r, dep, H, low, high),
           NEW m \in DOMAIN N, NEW n \in DOMAIN N, dep[m] = dep[n]
    PROVE  /\ low[m] = low[n] => m = n
           /\ high[m] = high[n] => m = n
<1>1. ASSUME NEW x \in DOMAIN N
      PROVE  /\ low[x] \in Nat /\ high[x] \in Nat
             /\ high[x] # 0 => low[x] < high[x]
  BY TypesOfMeasures DEF Shape, Ordered
<1>2. ASSUME low[m] = low[n]
      PROVE  m = n
  <2>1. Covers(low, high, m, low[m]) /\ Covers(low, high, n, low[m]) /\ low[m] \in Nat
    BY <1>1, <1>2 DEF Covers
  <2> QED
    BY <2>1, CoverOnce
<1>3. ASSUME high[m] = high[n], high[m] # 0
      PROVE  m = n
  <2> DEFINE k == high[m] - 1
  <2>1. low[m] < high[m] /\ low[n] < high[m] /\ high[m] \in Nat /\ low[m] \in Nat /\ low[n] \in Nat
    BY <1>1, <1>3
  <2>2. k \in Nat /\ low[m] <= k /\ low[n] <= k /\ k < high[m]
    BY <2>1
  <2> HIDE DEF k
  <2>3. Covers(low, high, m, k) /\ Covers(low, high, n, k)
    BY <1>3, <2>2 DEF Covers
  <2> QED
    BY <2>2, <2>3, CoverOnce
<1>4. ASSUME high[m] = high[n], high[m] = 0
      PROVE  m = n
  <2> DEFINE k == low[m] + low[n]
  <2>1. low[m] \in Nat /\ low[n] \in Nat
    BY <1>1
  <2>2. k \in Nat /\ low[m] <= k /\ low[n] <= k
    BY <2>1
  <2> HIDE DEF k
  <2>3. Covers(low, high, m, k) /\ Covers(low, high, n, k)
    BY <1>4, <2>2 DEF Covers
  <2> QED
    BY <2>2, <2>3, CoverOnce
<1> QED
  BY <1>2, <1>3, <1>4

-----------------------------------------------------------------------------
(* The way back: two neighbors become one node, and the separator and the  *)
(* right one leave the parent.                                             *)

\* The part that stays covers what both covered.
Joined(high, U, n, new) == [m \in DOMAIN U |-> high[IF m = n THEN new ELSE m]]

\* Where the two parts are.
LEMMA MergeParts ==
    ASSUME NEW U, NEW F, NEW r, NEW dep, NEW H, NEW low, NEW high,
           NEW n, NEW new, NEW p, NEW i, NEW key,
           Shape(F, r, dep, H, low, high), Divided(U, F, n, new, p, i, key), NodesTyped(U),
           key \in Nat \ {0}
    PROVE  /\ n \in DOMAIN F /\ new \in DOMAIN F /\ p \in DOMAIN F /\ ~ F[p].leaf
           /\ n # new /\ p # new /\ n # p
           /\ F[n].parent = p /\ F[new].parent = p
           /\ dep[n] = dep[p] + 1 /\ dep[new] = dep[n]
           /\ high[n] = key /\ low[new] = key
<1>1. /\ n \in DOMAIN U /\ p \in DOMAIN U /\ n # p /\ new \notin DOMAIN U
      /\ DOMAIN F = DOMAIN U \cup {new} /\ ~ F[p].leaf
      /\ i \in 1 .. Len(U[p].ptrs) /\ U[p].ptrs[i] = n /\ Len(U[p].ptrs) = Len(U[p].keys) + 1
      /\ F[p].keys = InsertAt(U[p].keys, i, key)
      /\ F[p].ptrs = InsertAt(U[p].ptrs, i + 1, new)
  BY DEF Divided, ParentEntered
<1>2. /\ i \in 1 .. Len(F[p].ptrs) /\ F[p].ptrs[i] = n
      /\ i + 1 \in 1 .. Len(F[p].ptrs) /\ F[p].ptrs[i + 1] = new
  <2> DEFINE s == U[p].ptrs
             l == i + 1
             t == InsertAt(s, l, new)
  <2>1. s \in Seq(Nat) /\ l \in 1 .. (Len(s) + 1) /\ new \in Nat /\ Len(s) \in Nat /\ i \in 1 .. Len(s)
    <3>1. p \in DOMAIN U /\ new \in DOMAIN F
      BY <1>1
    <3>2. U[p].ptrs \in Seq(Nat) /\ Len(U[p].ptrs) \in Nat
      BY <3>1, TypesOfNodes
    <3>3. new \in Nat
      BY <3>1, TypesOfNodes DEF Shape
    <3> QED
      BY <1>1, <3>2, <3>3
  <2> HIDE DEF s
  <2>2. /\ Len(t) = Len(s) + 1 /\ t[l] = new
        /\ \A j \in 1 .. Len(s) : j < l => t[j] = s[j]
    <3>1. s \in Seq(Nat) /\ l \in 1 .. (Len(s) + 1) /\ new \in Nat
      BY <2>1
    <3> HIDE DEF l
    <3>2. Len(t) = Len(s) + 1
      BY <3>1, InsertAtPlaces
    <3>3. \A j \in 1 .. Len(s) : j < l => t[j] = s[j]
      BY <3>1, InsertAtPlaces
    <3>4. t[l] = new
      BY <3>1, InsertAtPlaces
    <3> QED
      BY <3>2, <3>3, <3>4
  <2> HIDE DEF t
  <2>3. i \in 1 .. (Len(s) + 1) /\ i < l /\ l # i
    BY <2>1
  <2>4. t[i] = s[i] /\ t[l] = new
    BY <2>1, <2>2, <2>3
  <2>5. t = F[p].ptrs /\ s[i] = n
    BY <1>1 DEF s, t
  <2> QED
    BY <2>1, <2>2, <2>3, <2>4, <2>5
<1>3. HighAt(F[p].keys, high[p], i) = key /\ LowAt(F[p].keys, low[p], i + 1) = key
  <2> DEFINE s == U[p].keys
             lo == low[p]
             hi == high[p]
             t == InsertAt(s, i, key)
  <2>1. s \in Seq(Nat) /\ i \in 1 .. (Len(s) + 1) /\ lo \in Nat /\ hi \in Nat /\ key \in Nat
    BY <1>1, TypesOfNodes, TypesOfMeasures DEF Shape
  <2> HIDE DEF s, lo, hi
  <2>2. HighAt(t, hi, i) = key
    BY <2>1, InsertAtGaps
  <2>3. LowAt(t, lo, i + 1) = key
    BY <2>1, InsertAtGaps
  <2> QED
    BY <1>1, <2>2, <2>3 DEF s, lo, hi
<1>4. \A j \in 1 .. Len(F[p].ptrs) :
         /\ F[F[p].ptrs[j]].parent = p
         /\ dep[F[p].ptrs[j]] = dep[p] + 1
         /\ low[F[p].ptrs[j]] = LowAt(F[p].keys, low[p], j)
         /\ high[F[p].ptrs[j]] = HighAt(F[p].keys, high[p], j)
  BY <1>1 DEF Shape, InnerShaped
<1> QED
  BY <1>1, <1>2, <1>3, <1>4

LEMMA MergeOrdered ==
    ASSUME NEW U, NEW F, NEW r, NEW dep, NEW H, NEW low, NEW high,
           NEW n, NEW new, NEW p, NEW i, NEW key,
           Shape(F, r, dep, H, low, high), Divided(U, F, n, new, p, i, key), NodesTyped(U),
           key \in Nat \ {0}
    PROVE  Ordered(U, Restrict(low, DOMAIN U), Joined(high, U, n, new))
<1> DEFINE L == Restrict(low, DOMAIN U)
           G == Joined(high, U, n, new)
<1>1. /\ n \in DOMAIN U /\ p \in DOMAIN U /\ n # p /\ new \notin DOMAIN U
      /\ DOMAIN F = DOMAIN U \cup {new}
  BY DEF Divided
<1>2. /\ G[n] = high[new] /\ high[n] = key /\ low[new] = key
      /\ \A m \in DOMAIN U : L[m] = low[m] /\ (m # n => G[m] = high[m])
  BY <1>1, MergeParts DEF Restrict, Joined
<1> HIDE DEF L, G
<1>3. ASSUME NEW m \in DOMAIN F
      PROVE  /\ low[m] \in Nat /\ high[m] \in Nat
             /\ high[m] # 0 => low[m] < high[m]
             /\ Increasing(F[m].keys) /\ ToSet(F[m].keys) \subseteq Nat
             /\ \A k \in ToSet(F[m].keys) :
                   low[m] <= k /\ (high[m] = 0 \/ k < high[m]) /\ (F[m].leaf \/ low[m] < k)
  BY TypesOfNodes, TypesOfMeasures DEF Shape, Ordered, Covers
<1> DEFINE Fine(m) ==
             /\ G[m] # 0 => L[m] < G[m]
             /\ Increasing(U[m].keys)
             /\ \A k \in ToSet(U[m].keys) :
                   L[m] <= k /\ (G[m] = 0 \/ k < G[m]) /\ (U[m].leaf \/ L[m] < k)
<1>4. ASSUME NEW m \in DOMAIN U, m # n, m # p
      PROVE  Fine(m)
  <2>1. F[m].leaf = U[m].leaf /\ F[m].keys = U[m].keys
    BY <1>4 DEF Divided
  <2> QED
    BY <1>1, <1>2, <1>3, <1>4, <2>1
<1>5. F[n].leaf = U[n].leaf /\ F[new].leaf = U[n].leaf /\ n \in DOMAIN F /\ new \in DOMAIN F
  BY <1>1 DEF Divided, PartsDivided
<1>6. /\ \A k \in ToSet(F[n].keys) : k \in Nat /\ k < key
      /\ \A k \in ToSet(F[new].keys) : k \in Nat /\ key <= k /\ (~ U[n].leaf => key < k)
  BY <1>2, <1>3, <1>5
<1>7. /\ Increasing(U[n].keys)
      /\ \A k \in ToSet(U[n].keys) :
            k \in ToSet(F[n].keys) \/ k \in ToSet(F[new].keys) \/ (~ U[n].leaf /\ k = key)
  <2> DEFINE s == F[n].keys
             t == F[new].keys
  <2>1. s \in Seq(Nat) /\ t \in Seq(Nat) /\ key \in Nat
    BY <1>5, TypesOfNodes DEF Shape
  <2>2. Increasing(s) /\ Increasing(t)
    BY <1>3, <1>5
  <2>3. U[n].leaf => U[n].keys = s \o t
    BY DEF Divided, PartsDivided
  <2>4. ~ U[n].leaf => U[n].keys = (s \o <<key>>) \o t
    BY DEF Divided, PartsDivided
  <2>5. \A k \in ToSet(s) : k \in Nat /\ k < key
    BY <1>6
  <2>6. \A k \in ToSet(t) : k \in Nat /\ key <= k /\ (~ U[n].leaf => key < k)
    BY <1>6
  <2> HIDE DEF s, t
  <2>7. CASE U[n].leaf
    <3>1. \A x \in ToSet(s), y \in ToSet(t) : x < y
      BY <2>1, <2>5, <2>6
    <3>2. Increasing(s \o t)
      BY <2>1, <2>2, <3>1, ConcatIncreases
    <3>3. ToSet(s \o t) = ToSet(s) \cup ToSet(t)
      BY <2>1, ToSetOfConcat
    <3> QED
      BY <2>3, <2>7, <3>2, <3>3 DEF s, t
  <2>8. CASE ~ U[n].leaf
    <3>1. /\ \A x \in ToSet(s) : x < key
          /\ \A x \in ToSet(t) : key < x
      BY <2>5, <2>6, <2>8
    <3>2. Increasing((s \o <<key>>) \o t)
      BY <2>1, <2>2, <3>1, PartsAround
    <3>3. ToSet((s \o <<key>>) \o t) = ToSet(s) \cup ToSet(t) \cup {key}
      BY <2>1, PartsAround
    <3> QED
      BY <2>4, <2>8, <3>2, <3>3 DEF s, t
  <2> QED
    BY <2>7, <2>8
<1>8. Fine(n)
  <2>1. /\ low[n] \in Nat /\ low[n] < key
        /\ \A k \in ToSet(F[n].keys) : low[n] <= k /\ (F[n].leaf \/ low[n] < k)
    BY <1>2, <1>3, <1>5
  <2>2. /\ high[new] \in Nat /\ (high[new] # 0 => key < high[new])
        /\ \A k \in ToSet(F[new].keys) : high[new] = 0 \/ k < high[new]
    BY <1>2, <1>3, <1>5
  <2>3. G[n] # 0 => L[n] < G[n]
    BY <1>1, <1>2, <2>1, <2>2
  <2>4. ASSUME NEW k \in ToSet(U[n].keys)
        PROVE  low[n] <= k /\ (high[new] = 0 \/ k < high[new]) /\ (U[n].leaf \/ low[n] < k)
    <3>1. CASE k \in ToSet(F[n].keys)
      BY <1>5, <1>6, <2>1, <2>2, <3>1
    <3>2. CASE k \in ToSet(F[new].keys)
      BY <1>5, <1>6, <2>1, <2>2, <3>2
    <3>3. CASE ~ U[n].leaf /\ k = key
      BY <2>1, <2>2, <3>3
    <3> QED
      BY <1>7, <2>4, <3>1, <3>2, <3>3
  <2> QED
    BY <1>1, <1>2, <1>7, <2>3, <2>4
<1>9. Fine(p)
  <2> DEFINE s == U[p].keys
             t == InsertAt(s, i, key)
  <2>1. F[p].leaf = U[p].leaf /\ p \in DOMAIN F /\ F[p].keys = t
    BY <1>1 DEF Divided, ParentEntered
  <2>2. s \in Seq(Nat) /\ i \in 1 .. (Len(s) + 1) /\ key \in Nat
    <3>1. p \in DOMAIN U
      BY <1>1
    <3>2. U[p].keys \in Seq(Nat)
      BY <3>1, TypesOfNodes
    <3> QED
      BY <3>2 DEF Divided
  <2> HIDE DEF s
  <2>3. Increasing(s)
    <3>1. Increasing(t)
      BY <1>3, <2>1
    <3> QED
      BY <2>2, <3>1, InsertAtIncreases
  <2>4. ToSet(t) = ToSet(s) \cup {key}
    BY <2>2, ToSetOfInsertAt
  <2> QED
    BY <1>1, <1>2, <1>3, <2>1, <2>3, <2>4 DEF s
<1>10. \A m \in DOMAIN U : Fine(m)
  BY <1>4, <1>8, <1>9
<1> QED
  BY <1>10 DEF Ordered, Covers, L, G

LEMMA MergeLeaves ==
    ASSUME NEW U, NEW F, NEW r, NEW dep, NEW H, NEW low, NEW high,
           NEW n, NEW new, NEW p, NEW i, NEW key,
           Shape(F, r, dep, H, low, high), Divided(U, F, n, new, p, i, key), NodesTyped(U),
           key \in Nat \ {0}
    PROVE  LeavesShaped(U, Restrict(dep, DOMAIN U), H, Restrict(low, DOMAIN U),
                        Joined(high, U, n, new))
<1> DEFINE D == Restrict(dep, DOMAIN U)
           L == Restrict(low, DOMAIN U)
           G == Joined(high, U, n, new)
<1>1. /\ n \in DOMAIN U /\ p \in DOMAIN U /\ n # p /\ new \notin DOMAIN U
      /\ DOMAIN F = DOMAIN U \cup {new}
  BY DEF Divided
<1>2. /\ G[n] = high[new] /\ high[n] = key /\ low[new] = key /\ dep[new] = dep[n]
      /\ \A m \in DOMAIN U : L[m] = low[m] /\ D[m] = dep[m] /\ (m # n => G[m] = high[m])
  BY <1>1, MergeParts DEF Restrict, Joined
<1> HIDE DEF L, G, D
<1>3. /\ ~ U[p].leaf /\ ~ F[p].leaf /\ F[n].leaf = U[n].leaf /\ F[new].leaf = U[n].leaf
      /\ \A m \in DOMAIN U \ {n, p} :
            F[m].leaf = U[m].leaf /\ F[m].keys = U[m].keys /\ F[m].ptrs = U[m].ptrs
                                  /\ F[m].next = U[m].next
  BY DEF Divided, ParentEntered, PartsDivided
<1>4. \A m \in DOMAIN U : F[m].leaf <=> U[m].leaf
  BY <1>1, <1>3
<1>5. \A m \in DOMAIN F : F[m].leaf =>
        /\ dep[m] = H
        /\ F[m].ptrs = F[m].keys
        /\ high[m] = 0 => F[m].next = Null
        /\ high[m] # 0 => /\ F[m].next \in DOMAIN F
                          /\ F[F[m].next].leaf
                          /\ low[F[m].next] = high[m]
  BY DEF Shape, LeavesShaped
<1>6. \A m \in DOMAIN F : high[m] # 0 => low[m] < high[m]
  BY DEF Shape, Ordered
\* Only the left part is linked to the right one.
<1>7. ASSUME NEW m \in DOMAIN F, F[m].leaf, high[m] # 0, F[m].next = new
      PROVE  m = n
  <2>1. high[m] = high[n] /\ F[new].leaf
    BY <1>2, <1>5, <1>7
  <2>2. dep[m] = dep[n] /\ n \in DOMAIN F
    BY <1>1, <1>2, <1>5, <1>7, <2>1
  <2> QED
    BY <2>1, <2>2, BoundsDiffer
<1> DEFINE Fine(m) ==
        /\ D[m] = H
        /\ U[m].ptrs = U[m].keys
        /\ G[m] = 0 => U[m].next = Null
        /\ G[m] # 0 => /\ U[m].next \in DOMAIN U
                       /\ U[U[m].next].leaf
                       /\ L[U[m].next] = G[m]
<1>8. ASSUME NEW m \in DOMAIN U, U[m].leaf, m # n
      PROVE  Fine(m)
  <2>1. /\ m # p /\ m \in DOMAIN F /\ F[m].leaf
        /\ F[m].keys = U[m].keys /\ F[m].ptrs = U[m].ptrs /\ F[m].next = U[m].next
    BY <1>1, <1>3, <1>4, <1>8
  <2>2. D[m] = H /\ U[m].ptrs = U[m].keys /\ (G[m] = 0 => U[m].next = Null)
    BY <1>2, <1>5, <1>8, <2>1
  <2>3. ASSUME G[m] # 0
        PROVE  U[m].next \in DOMAIN U /\ U[U[m].next].leaf /\ L[U[m].next] = G[m]
    <3>1. high[m] # 0 /\ G[m] = high[m] /\ F[m].next # new
      BY <1>2, <1>7, <1>8, <2>1, <2>3
    <3>2. U[m].next \in DOMAIN U /\ F[U[m].next].leaf /\ low[U[m].next] = high[m]
      BY <1>1, <1>5, <2>1, <3>1
    <3> QED
      BY <1>2, <1>4, <3>1, <3>2
  <2> QED
    BY <2>2, <2>3
<1>9. ASSUME U[n].leaf
      PROVE  Fine(n)
  <2>1. U[n].ptrs = U[n].keys /\ F[new].next = U[n].next /\ F[new].leaf /\ F[n].leaf
    BY <1>3, <1>9 DEF Divided, PartsDivided
  <2>2. n \in DOMAIN F /\ new \in DOMAIN F
    BY <1>1
  <2>3. D[n] = H /\ (G[n] = 0 => U[n].next = Null)
    BY <1>1, <1>2, <1>5, <2>1, <2>2
  <2>4. ASSUME G[n] # 0
        PROVE  U[n].next \in DOMAIN U /\ U[U[n].next].leaf /\ L[U[n].next] = G[n]
    <3>1. /\ high[new] # 0 /\ U[n].next \in DOMAIN F /\ F[U[n].next].leaf
          /\ low[U[n].next] = high[new]
      BY <1>2, <1>5, <2>1, <2>2, <2>4
    <3>2. low[new] < high[new] /\ low[new] \in Nat /\ high[new] \in Nat
      BY <1>6, <2>2, <3>1, TypesOfMeasures DEF Shape
    <3>3. U[n].next # new
      BY <3>1, <3>2
    <3> QED
      BY <1>1, <1>2, <1>4, <3>1, <3>3
  <2> QED
    BY <2>1, <2>3, <2>4
<1>10. ASSUME NEW m \in DOMAIN U, U[m].leaf
      PROVE  Fine(m)
  BY <1>8, <1>9, <1>10
<1> QED
  BY <1>10 DEF LeavesShaped, L, G, D

LEMMA MergeInner ==
    ASSUME NEW U, NEW F, NEW r, NEW dep, NEW H, NEW low, NEW high,
           NEW n, NEW new, NEW p, NEW i, NEW key,
           Shape(F, r, dep, H, low, high), Divided(U, F, n, new, p, i, key), NodesTyped(U),
           key \in Nat \ {0}
    PROVE  InnerShaped(U, Restrict(dep, DOMAIN U), H, Restrict(low, DOMAIN U),
                       Joined(high, U, n, new))
<1> DEFINE D == Restrict(dep, DOMAIN U)
           L == Restrict(low, DOMAIN U)
           G == Joined(high, U, n, new)
           Of(m, j, c) == /\ c \in DOMAIN U /\ U[c].parent = m /\ D[c] = D[m] + 1
                          /\ L[c] = LowAt(U[m].keys, L[m], j)
                          /\ G[c] = HighAt(U[m].keys, G[m], j)
           Fine(m) == /\ D[m] < H
                      /\ U[m].next = Null
                      /\ Len(U[m].ptrs) = Len(U[m].keys) + 1
                      /\ \A j \in 1 .. Len(U[m].ptrs) : Of(m, j, U[m].ptrs[j])
<1>1. /\ n \in DOMAIN U /\ p \in DOMAIN U /\ n # p /\ new \notin DOMAIN U
      /\ DOMAIN F = DOMAIN U \cup {new}
  BY DEF Divided
<1>2. /\ G[n] = high[new] /\ high[n] = key /\ low[new] = key /\ dep[new] = dep[n]
      /\ F[n].parent = p /\ F[new].parent = p /\ p # new /\ n # new
      /\ \A m \in DOMAIN U : L[m] = low[m] /\ D[m] = dep[m] /\ (m # n => G[m] = high[m])
  BY <1>1, MergeParts DEF Restrict, Joined
<1> HIDE DEF L, G, D
<1>3. /\ ~ U[p].leaf /\ ~ F[p].leaf /\ F[n].leaf = U[n].leaf /\ F[new].leaf = U[n].leaf
      /\ \A m \in DOMAIN U \ {n, p} :
            F[m].leaf = U[m].leaf /\ F[m].keys = U[m].keys /\ F[m].ptrs = U[m].ptrs
                                  /\ F[m].next = U[m].next
  BY DEF Divided, ParentEntered, PartsDivided
<1>4. ASSUME NEW m \in DOMAIN F, ~ F[m].leaf
      PROVE  /\ dep[m] < H /\ F[m].next = Null
             /\ Len(F[m].ptrs) = Len(F[m].keys) + 1
             /\ \A j \in 1 .. Len(F[m].ptrs) :
                   /\ F[m].ptrs[j] \in DOMAIN F /\ F[F[m].ptrs[j]].parent = m
                   /\ dep[F[m].ptrs[j]] = dep[m] + 1
                   /\ low[F[m].ptrs[j]] = LowAt(F[m].keys, low[m], j)
                   /\ high[F[m].ptrs[j]] = HighAt(F[m].keys, high[m], j)
  BY <1>4 DEF Shape, InnerShaped
<1>5. \A m \in DOMAIN U :
         IF ~ U[n].leaf /\ m \in ToSet(F[new].ptrs)
         THEN U[m].parent = n /\ F[m].parent = new
         ELSE F[m].parent = U[m].parent
  BY DEF Divided
\* A child of another node than new is the child it was.
<1>6. ASSUME NEW c \in DOMAIN F, F[c].parent # new, c # new
      PROVE  U[c].parent = F[c].parent /\ c \in DOMAIN U
  BY <1>1, <1>5, <1>6
<1>7. ASSUME NEW m \in DOMAIN U, ~ U[m].leaf, m # n, m # p
      PROVE  Fine(m)
  <2>1. m \in DOMAIN F /\ ~ F[m].leaf /\ F[m].keys = U[m].keys /\ F[m].ptrs = U[m].ptrs
        /\ F[m].next = U[m].next /\ m # new
    BY <1>1, <1>3, <1>7
  <2>2. ASSUME NEW j \in 1 .. Len(U[m].ptrs)
        PROVE  Of(m, j, U[m].ptrs[j])
    <3> DEFINE c == U[m].ptrs[j]
    <3>1. c \in DOMAIN F /\ F[c].parent = m
          /\ dep[c] = dep[m] + 1
          /\ low[c] = LowAt(U[m].keys, low[m], j)
          /\ high[c] = HighAt(U[m].keys, high[m], j)
      BY <1>4, <2>1
    <3> HIDE DEF c
    <3>2. c # n /\ c # new
      BY <1>2, <1>7, <3>1
    <3>3. U[c].parent = m /\ c \in DOMAIN U
      BY <1>6, <2>1, <3>1, <3>2
    <3> QED
      BY <1>2, <1>7, <3>1, <3>2, <3>3 DEF c
  <2> QED
    BY <1>2, <1>4, <1>7, <2>1, <2>2
<1>8. ASSUME ~ U[n].leaf
      PROVE  Fine(n)
  <2> DEFINE a == Len(F[n].keys)
             b == Len(F[new].keys)
  <2>1. /\ U[n].keys = (F[n].keys \o <<key>>) \o F[new].keys
        /\ Len(F[n].ptrs) = a + 1 /\ Len(F[new].ptrs) = b + 1
        /\ U[n].ptrs = F[n].ptrs \o F[new].ptrs
        /\ F[n].next = U[n].next /\ F[new].next = U[n].next
    BY <1>8 DEF Divided, PartsDivided
  <2>2. /\ F[n].keys \in Seq(Nat) /\ F[new].keys \in Seq(Nat)
        /\ F[n].ptrs \in Seq(Nat) /\ F[new].ptrs \in Seq(Nat)
        /\ low[n] \in Nat /\ high[new] \in Nat
    BY <1>1, TypesOfNodes, TypesOfMeasures DEF Shape
  <2>3. /\ a \in Nat /\ b \in Nat /\ Len(U[n].keys) = a + 1 + b
        /\ \A j \in 1 .. (a + 1) :
              /\ LowAt(U[n].keys, low[n], j) = LowAt(F[n].keys, low[n], j)
              /\ HighAt(U[n].keys, high[new], j) = HighAt(F[n].keys, key, j)
        /\ \A j \in 1 .. (b + 1) :
              /\ LowAt(U[n].keys, low[n], a + 1 + j) = LowAt(F[new].keys, key, j)
              /\ HighAt(U[n].keys, high[new], a + 1 + j) = HighAt(F[new].keys, high[new], j)
    <3> DEFINE s == F[n].keys
               t == F[new].keys
               lo == low[n]
               hi == high[new]
               u == (s \o <<key>>) \o t
    <3>1. s \in Seq(Nat) /\ t \in Seq(Nat) /\ key \in Nat /\ lo \in Nat /\ hi \in Nat
      BY <2>2
    <3> HIDE DEF s, t, lo, hi
    <3>2. /\ u \in Seq(Nat) /\ Len(u) = Len(s) + 1 + Len(t)
          /\ Len(s) \in Nat /\ Len(t) \in Nat
          /\ \A j \in 1 .. (Len(s) + 1) :
                LowAt(u, lo, j) = LowAt(s, lo, j) /\ HighAt(u, hi, j) = HighAt(s, key, j)
          /\ \A j \in 1 .. (Len(t) + 1) :
                /\ LowAt(u, lo, Len(s) + 1 + j) = LowAt(t, key, j)
                /\ HighAt(u, hi, Len(s) + 1 + j) = HighAt(t, hi, j)
      BY <3>1, AroundGaps
    <3> HIDE DEF u
    <3>3. u = U[n].keys
      BY <2>1 DEF u, s, t
    <3> QED
      BY <3>2, <3>3 DEF s, t, lo, hi
  <2>4. /\ Len(U[n].ptrs) = a + 1 + (b + 1)
        /\ \A j \in 1 .. (a + 1) : U[n].ptrs[j] = F[n].ptrs[j]
        /\ \A j \in 1 .. (b + 1) : U[n].ptrs[a + 1 + j] = F[new].ptrs[j]
    <3> DEFINE s == F[n].ptrs
               t == F[new].ptrs
    <3>1. s \in Seq(Nat) /\ t \in Seq(Nat)
      BY <2>2
    <3> HIDE DEF s, t
    <3>2. /\ Len(s \o t) = Len(s) + Len(t) /\ Len(s) \in Nat /\ Len(t) \in Nat
          /\ \A j \in 1 .. Len(s) : (s \o t)[j] = s[j]
          /\ \A j \in 1 .. Len(t) : (s \o t)[Len(s) + j] = t[j]
      BY <3>1, ConcatPlaces
    <3>3. s \o t = U[n].ptrs /\ Len(s) = a + 1 /\ Len(t) = b + 1
      BY <2>1 DEF s, t
    <3> QED
      BY <3>2, <3>3 DEF s, t
  <2>5. \A j \in 1 .. (b + 1) : F[new].ptrs[j] \in ToSet(F[new].ptrs)
    BY <2>1, <2>2, ElementsInSet
  <2>6. n \in DOMAIN F /\ new \in DOMAIN F /\ ~ F[n].leaf /\ ~ F[new].leaf
    BY <1>1, <1>3, <1>8
  <2> HIDE DEF a, b
  <2>7. ASSUME NEW j \in 1 .. (a + 1)
        PROVE  Of(n, j, U[n].ptrs[j])
    <3> DEFINE c == U[n].ptrs[j]
    <3>1. c = F[n].ptrs[j] /\ c \in DOMAIN F /\ F[c].parent = n
          /\ dep[c] = dep[n] + 1
          /\ low[c] = LowAt(F[n].keys, low[n], j)
          /\ high[c] = HighAt(F[n].keys, high[n], j)
      <4>1. j \in 1 .. Len(F[n].ptrs) /\ c = F[n].ptrs[j]
        BY <2>1, <2>4
      <4> HIDE DEF c
      <4> QED
        BY <1>4, <2>6, <4>1
    <3>2. LowAt(U[n].keys, low[n], j) = LowAt(F[n].keys, low[n], j)
          /\ HighAt(U[n].keys, high[new], j) = HighAt(F[n].keys, key, j)
      BY <2>3
    <3> HIDE DEF c
    <3>3. c # n /\ c # new
      BY <1>1, <1>2, <3>1
    <3>4. U[c].parent = n /\ c \in DOMAIN U
      BY <1>2, <1>6, <3>1, <3>3
    <3> QED
      BY <1>1, <1>2, <3>1, <3>2, <3>3, <3>4 DEF c
  <2>8. ASSUME NEW j \in 1 .. (b + 1)
        PROVE  Of(n, a + 1 + j, U[n].ptrs[a + 1 + j])
    <3> DEFINE c == U[n].ptrs[a + 1 + j]
    <3>1. c = F[new].ptrs[j] /\ c \in DOMAIN F /\ F[c].parent = new
          /\ dep[c] = dep[new] + 1
          /\ low[c] = LowAt(F[new].keys, low[new], j)
          /\ high[c] = HighAt(F[new].keys, high[new], j)
      <4>1. j \in 1 .. Len(F[new].ptrs) /\ c = F[new].ptrs[j]
        BY <2>1, <2>4
      <4> HIDE DEF c
      <4> QED
        BY <1>4, <2>6, <4>1
    <3>2. LowAt(U[n].keys, low[n], a + 1 + j) = LowAt(F[new].keys, key, j)
          /\ HighAt(U[n].keys, high[new], a + 1 + j) = HighAt(F[new].keys, high[new], j)
      BY <2>3
    <3>3. c \in ToSet(F[new].ptrs)
      BY <2>5, <3>1
    <3> HIDE DEF c
    <3>4. c # n /\ c # new
      BY <1>1, <1>2, <3>1
    <3>5. U[c].parent = n /\ c \in DOMAIN U
      BY <1>1, <1>5, <1>8, <3>1, <3>3, <3>4
    <3> QED
      BY <1>1, <1>2, <3>1, <3>2, <3>4, <3>5 DEF c
  <2>9. \A j \in 1 .. Len(U[n].ptrs) : j \in 1 .. (a + 1) \/ (j - (a + 1) \in 1 .. (b + 1) /\ j = a + 1 + (j - (a + 1)))
    BY <2>3, <2>4
  <2>10. \A j \in 1 .. Len(U[n].ptrs) : Of(n, j, U[n].ptrs[j])
    BY <2>7, <2>8, <2>9
  <2>11. Len(U[n].ptrs) = Len(U[n].keys) + 1
    BY <2>3, <2>4
  <2>12. D[n] < H /\ U[n].next = Null
    BY <1>1, <1>2, <1>4, <2>1, <2>6
  <2> QED
    BY <2>10, <2>11, <2>12
<1>9. Fine(p)
  <2> DEFINE m == Len(U[p].keys)
  <2>1. /\ F[p].next = U[p].next /\ p \in DOMAIN F /\ ~ F[p].leaf
        /\ F[p].keys = InsertAt(U[p].keys, i, key)
        /\ F[p].ptrs = InsertAt(U[p].ptrs, i + 1, new)
        /\ Len(U[p].ptrs) = m + 1
        /\ i \in 1 .. Len(U[p].ptrs) /\ U[p].ptrs[i] = n
    BY DEF Divided, ParentEntered
  <2>2. /\ U[p].keys \in Seq(Nat) /\ U[p].ptrs \in Seq(Nat) /\ new \in Nat /\ m \in Nat
        /\ low[p] \in Nat /\ high[p] \in Nat
    <3>1. new \in DOMAIN F /\ p \in DOMAIN U
      BY <1>1
    <3>2. new \in Nat /\ low[p] \in Nat /\ high[p] \in Nat
      BY <2>1, <3>1, TypesOfNodes, TypesOfMeasures DEF Shape
    <3> QED
      BY <3>1, <3>2, TypesOfNodes
  <2>3. i \in 1 .. (m + 1) /\ i + 1 \in 1 .. (Len(U[p].ptrs) + 1) /\ i \in Nat
    BY <2>1, <2>2
  <2>4. LET t == F[p].keys IN
        /\ Len(t) = m + 1
        /\ \A j \in 1 .. (m + 1) : j < i =>
              /\ LowAt(t, low[p], j) = LowAt(U[p].keys, low[p], j)
              /\ HighAt(t, high[p], j) = HighAt(U[p].keys, high[p], j)
        /\ LowAt(t, low[p], i) = LowAt(U[p].keys, low[p], i)
        /\ HighAt(t, high[p], i + 1) = HighAt(U[p].keys, high[p], i)
        /\ \A j \in 1 .. (m + 1) : j > i =>
              /\ LowAt(t, low[p], j + 1) = LowAt(U[p].keys, low[p], j)
              /\ HighAt(t, high[p], j + 1) = HighAt(U[p].keys, high[p], j)
    <3> DEFINE s == U[p].keys
               lo == low[p]
               hi == high[p]
               t == InsertAt(s, i, key)
    <3>1. s \in Seq(Nat) /\ i \in 1 .. (Len(s) + 1) /\ key \in Nat /\ lo \in Nat /\ hi \in Nat
      BY <2>2, <2>3
    <3> HIDE DEF s, lo, hi, m
    <3>2. Len(t) = Len(s) + 1
      BY <3>1, InsertAtGaps
    <3>3. \A j \in 1 .. (Len(s) + 1) : j < i => LowAt(t, lo, j) = LowAt(s, lo, j)
      BY <3>1, InsertAtGaps
    <3>4. \A j \in 1 .. (Len(s) + 1) : j < i => HighAt(t, hi, j) = HighAt(s, hi, j)
      BY <3>1, InsertAtGaps
    <3>5. LowAt(t, lo, i) = LowAt(s, lo, i)
      BY <3>1, InsertAtGaps
    <3>6. HighAt(t, hi, i + 1) = HighAt(s, hi, i)
      BY <3>1, InsertAtGaps
    <3>7. \A j \in 1 .. (Len(s) + 1) : j > i => LowAt(t, lo, j + 1) = LowAt(s, lo, j)
      BY <3>1, InsertAtGaps
    <3>8. \A j \in 1 .. (Len(s) + 1) : j > i => HighAt(t, hi, j + 1) = HighAt(s, hi, j)
      BY <3>1, InsertAtGaps
    <3> HIDE DEF t
    <3>9. t = F[p].keys /\ Len(s) = m
      BY <2>1 DEF t, s, m
    <3> QED
      BY <3>2, <3>3, <3>4, <3>5, <3>6, <3>7, <3>8, <3>9 DEF s, lo, hi
  <2>5. /\ Len(F[p].ptrs) = m + 2
        /\ \A j \in 1 .. (m + 1) : j <= i => F[p].ptrs[j] = U[p].ptrs[j]
        /\ \A j \in 1 .. (m + 1) : j > i => F[p].ptrs[j + 1] = U[p].ptrs[j]
        /\ F[p].ptrs[i + 1] = new
    <3> DEFINE s == U[p].ptrs
               l == i + 1
               t == InsertAt(s, l, new)
    <3>1. s \in Seq(Nat) /\ l \in 1 .. (Len(s) + 1) /\ new \in Nat
      BY <2>2, <2>3
    <3>2. Len(s) = m + 1 /\ \A j \in 1 .. (m + 1) : (j < l <=> j <= i) /\ (j >= l <=> j > i)
      BY <2>1, <2>3
    <3> HIDE DEF s, l, m
    <3>3. Len(t) = Len(s) + 1
      BY <3>1, InsertAtPlaces
    <3>4. \A j \in 1 .. Len(s) : j < l => t[j] = s[j]
      BY <3>1, InsertAtPlaces
    <3>5. \A j \in 1 .. Len(s) : j >= l => t[j + 1] = s[j]
      BY <3>1, InsertAtPlaces
    <3>6. t[l] = new
      BY <3>1, InsertAtPlaces
    <3> HIDE DEF t
    <3>7. t = F[p].ptrs /\ l = i + 1
      BY <2>1 DEF t, s, l
    <3>8. m + 1 + 1 = m + 2
      BY <2>2
    <3> QED
      BY <3>2, <3>3, <3>4, <3>5, <3>6, <3>7, <3>8 DEF s
  <2> HIDE DEF m
  \* The children in F, new apart.
  <2>6. ASSUME NEW j \in 1 .. (m + 2), j # i + 1
        PROVE  LET c == F[p].ptrs[j] IN
               /\ c \in DOMAIN U /\ U[c].parent = p /\ D[c] = D[p] + 1
               /\ L[c] = LowAt(F[p].keys, low[p], j)
               /\ j # i => G[c] = HighAt(F[p].keys, high[p], j)
    <3> DEFINE c == F[p].ptrs[j]
    <3>1. /\ c \in DOMAIN F /\ F[c].parent = p /\ dep[c] = dep[p] + 1
          /\ low[c] = LowAt(F[p].keys, low[p], j) /\ high[c] = HighAt(F[p].keys, high[p], j)
      BY <1>4, <2>1, <2>5
    <3>2. i \in 1 .. (m + 2) /\ i + 1 \in 1 .. (m + 2) /\ i <= i
      BY <2>2, <2>3
    <3>3. F[p].ptrs[i] = n
      BY <2>1, <2>3, <2>5, <3>2
    <3>4. c # new /\ (j # i => c # n)
      <4>1. /\ j \in 1 .. Len(F[p].ptrs) /\ i \in 1 .. Len(F[p].ptrs)
            /\ i + 1 \in 1 .. Len(F[p].ptrs)
        BY <2>5, <3>2
      <4> QED
        BY <2>1, <2>5, <2>6, <3>3, <4>1, ChildrenDiffer
    <3> HIDE DEF c
    <3>5. U[c].parent = p /\ c \in DOMAIN U
      BY <1>2, <1>6, <3>1, <3>4
    <3>6. D[c] = D[p] + 1 /\ L[c] = LowAt(F[p].keys, low[p], j)
      BY <1>1, <1>2, <3>1, <3>5
    <3>7. j # i => G[c] = HighAt(F[p].keys, high[p], j)
      BY <1>2, <3>1, <3>4, <3>5
    <3> QED
      BY <3>5, <3>6, <3>7 DEF c
  <2>7. L[p] = low[p] /\ G[p] = high[p] /\ D[p] = dep[p]
    BY <1>1, <1>2
  <2>8. ASSUME NEW j \in 1 .. (m + 1)
        PROVE  Of(p, j, U[p].ptrs[j])
    <3>1. CASE j < i
      <4>1. j \in 1 .. (m + 2) /\ j # i + 1 /\ j # i /\ j <= i
        BY <2>2, <2>3, <3>1, SMTT(30)
      <4>2. F[p].ptrs[j] = U[p].ptrs[j]
        BY <2>5, <4>1
      <4> QED
        BY <2>4, <2>6, <2>7, <3>1, <4>1, <4>2
    <3>2. CASE j = i
      <4>1. i \in 1 .. (m + 2) /\ i # i + 1 /\ i <= i
        BY <2>2, <2>3
      <4>2. F[p].ptrs[i] = n /\ U[p].ptrs[i] = n
        BY <2>1, <2>3, <2>5, <4>1
      <4>3. n \in DOMAIN U /\ U[n].parent = p /\ D[n] = D[p] + 1 /\ L[n] = LowAt(F[p].keys, low[p], i)
        BY <2>6, <4>1, <4>2
      <4>4. high[new] = HighAt(F[p].keys, high[p], i + 1)
        <5>1. i + 1 \in 1 .. Len(F[p].ptrs)
          BY <2>2, <2>3, <2>5
        <5> QED
          BY <1>4, <2>1, <2>5, <5>1
      <4> QED
        BY <1>2, <2>4, <2>7, <3>2, <4>2, <4>3, <4>4
    <3>3. CASE j > i
      <4>1. j + 1 \in 1 .. (m + 2) /\ j + 1 # i + 1 /\ j + 1 # i
        BY <2>2, <2>3, <3>3
      <4>2. F[p].ptrs[j + 1] = U[p].ptrs[j]
        BY <2>5, <3>3
      <4>3. LowAt(F[p].keys, low[p], j + 1) = LowAt(U[p].keys, low[p], j)
            /\ HighAt(F[p].keys, high[p], j + 1) = HighAt(U[p].keys, high[p], j)
        BY <2>4, <3>3
      <4> QED
        BY <2>6, <2>7, <4>1, <4>2, <4>3
    <3>4. j < i \/ j = i \/ j > i
      BY <2>3
    <3> QED
      BY <3>1, <3>2, <3>3, <3>4
  <2>9. Len(U[p].ptrs) = Len(U[p].keys) + 1 /\ Len(U[p].ptrs) = m + 1
    BY <2>1 DEF m
  <2>10. D[p] < H /\ U[p].next = Null
    BY <1>1, <1>2, <1>4, <2>1
  <2> QED
    BY <2>8, <2>9, <2>10
<1>10. ASSUME NEW m \in DOMAIN U, ~ U[m].leaf
       PROVE  Fine(m)
  BY <1>7, <1>8, <1>9, <1>10
<1> QED
  BY <1>10 DEF InnerShaped, L, G, D

LEMMA MergeRooted ==
    ASSUME NEW U, NEW F, NEW r, NEW dep, NEW H, NEW low, NEW high,
           NEW n, NEW new, NEW p, NEW i, NEW key,
           Shape(F, r, dep, H, low, high), Divided(U, F, n, new, p, i, key), NodesTyped(U),
           key \in Nat \ {0}
    PROVE  Rooted(U, r, Restrict(dep, DOMAIN U), Restrict(low, DOMAIN U),
                  Joined(high, U, n, new))
<1> DEFINE D == Restrict(dep, DOMAIN U)
           L == Restrict(low, DOMAIN U)
           G == Joined(high, U, n, new)
           Child(N, m, q) == q \in DOMAIN N /\ ~ N[q].leaf /\ m \in ToSet(N[q].ptrs)
<1>1. /\ n \in DOMAIN U /\ p \in DOMAIN U /\ n # p /\ new \notin DOMAIN U
      /\ DOMAIN F = DOMAIN U \cup {new}
  BY DEF Divided
<1>2. /\ F[n].parent = p /\ F[new].parent = p
      /\ \A m \in DOMAIN U : L[m] = low[m] /\ D[m] = dep[m] /\ (m # n => G[m] = high[m])
  BY <1>1, MergeParts DEF Restrict, Joined
<1> HIDE DEF L, G, D
<1>3. /\ ~ U[p].leaf /\ ~ F[p].leaf /\ F[n].leaf = U[n].leaf /\ F[new].leaf = U[n].leaf
      /\ \A m \in DOMAIN U \ {n, p} : F[m].leaf = U[m].leaf /\ F[m].ptrs = U[m].ptrs
  BY DEF Divided, ParentEntered, PartsDivided
<1>4. \A m \in DOMAIN U :
         IF ~ U[n].leaf /\ m \in ToSet(F[new].ptrs)
         THEN U[m].parent = n /\ F[m].parent = new
         ELSE F[m].parent = U[m].parent
  BY DEF Divided
<1>5. r \in DOMAIN F /\ F[r].parent = Null /\ dep[r] = 0 /\ low[r] = 0 /\ high[r] = 0
  BY DEF Shape, Rooted
<1>6. p # 0 /\ new # 0 /\ new \in Nat
  BY <1>1, TypesOfNodes DEF Shape
<1>7. r # n /\ r \in DOMAIN U /\ U[r].parent = Null
  BY <1>1, <1>2, <1>4, <1>5, <1>6 DEF Null
<1>8. ToSet(F[p].ptrs) = ToSet(U[p].ptrs) \cup {new}
  <2> DEFINE s == U[p].ptrs
             l == i + 1
  <2>1. s \in Seq(Nat) /\ l \in 1 .. (Len(s) + 1) /\ new \in Nat
    <3>1. U[p].ptrs \in Seq(Nat) /\ i \in 1 .. Len(U[p].ptrs) /\ Len(U[p].ptrs) \in Nat
      BY <1>1, TypesOfNodes DEF Divided
    <3> QED
      BY <1>6, <3>1
  <2>2. F[p].ptrs = InsertAt(s, l, new)
    BY DEF Divided, ParentEntered
  <2> HIDE DEF s, l
  <2>3. ToSet(InsertAt(s, l, new)) = ToSet(s) \cup {new}
    BY <2>1, ToSetOfInsertAt
  <2> QED
    BY <2>2, <2>3 DEF s
<1>9. ~ U[n].leaf => ToSet(U[n].ptrs) = ToSet(F[n].ptrs) \cup ToSet(F[new].ptrs)
  <2> DEFINE s == F[n].ptrs
             t == F[new].ptrs
  <2>1. s \in Seq(Nat) /\ t \in Seq(Nat)
    BY <1>1, TypesOfNodes DEF Shape
  <2>2. ~ U[n].leaf => U[n].ptrs = s \o t
    BY DEF Divided, PartsDivided
  <2> HIDE DEF s, t
  <2>3. ToSet(s \o t) = ToSet(s) \cup ToSet(t)
    BY <2>1, ToSetOfConcat
  <2> QED
    BY <2>2, <2>3 DEF s, t
<1>10. ASSUME NEW m \in DOMAIN U \ {r}
       PROVE  Child(F, m, F[m].parent)
  <2>0. m \in DOMAIN F
    BY <1>1
  <2>1. /\ F[m].parent \in DOMAIN F /\ ~ F[F[m].parent].leaf
        /\ \E j \in 1 .. Len(F[F[m].parent].ptrs) : F[F[m].parent].ptrs[j] = m
    BY <1>10, <2>0 DEF Shape, Rooted
  <2>2. ToSet(F[F[m].parent].ptrs) = {F[F[m].parent].ptrs[j] : j \in 1 .. Len(F[F[m].parent].ptrs)}
    BY <2>1, TypesOfNodes DEF Shape
  <2> QED
    BY <2>1, <2>2
<1>11. ASSUME NEW m \in DOMAIN U \ {r}
       PROVE  Child(U, m, U[m].parent)
  <2> DEFINE q == F[m].parent
  <2>1. q \in DOMAIN F /\ ~ F[q].leaf /\ m \in ToSet(F[q].ptrs)
    BY <1>10
  <2> HIDE DEF q
  <2>2. CASE q = new
    <3>1. ~ U[n].leaf /\ m \in ToSet(F[new].ptrs)
      BY <1>3, <2>1, <2>2
    <3>2. U[m].parent = n
      BY <1>4, <3>1
    <3> QED
      BY <1>1, <1>9, <3>1, <3>2
  <2>3. CASE q # new
    <3>1. U[m].parent = q /\ q \in DOMAIN U
      BY <1>1, <1>4, <2>1, <2>3 DEF q
    <3>2. CASE q = n
      BY <1>1, <1>3, <1>9, <2>1, <3>1, <3>2
    <3>3. CASE q = p
      BY <1>1, <1>3, <1>8, <2>1, <3>1, <3>3
    <3>4. CASE q # n /\ q # p
      BY <1>1, <1>3, <2>1, <3>1, <3>4
    <3> QED
      BY <3>2, <3>3, <3>4
  <2> QED
    BY <2>2, <2>3
<1>12. ASSUME NEW m \in DOMAIN U \ {r}
       PROVE  /\ U[m].parent \in DOMAIN U
              /\ ~ U[U[m].parent].leaf
              /\ \E j \in 1 .. Len(U[U[m].parent].ptrs) : U[U[m].parent].ptrs[j] = m
  <2>1. Child(U, m, U[m].parent)
    BY <1>11
  <2>2. ToSet(U[U[m].parent].ptrs) = {U[U[m].parent].ptrs[j] : j \in 1 .. Len(U[U[m].parent].ptrs)}
    BY <2>1, TypesOfNodes
  <2> QED
    BY <2>1, <2>2
<1> QED
  BY <1>2, <1>5, <1>7, <1>12 DEF Rooted, L, G, D

\* A tree two of whose neighbors are merged is a tree of the same keys.
LEMMA MergeShape ==
    ASSUME NEW U, NEW F, NEW r, NEW dep, NEW H, NEW low, NEW high,
           NEW n, NEW new, NEW p, NEW i, NEW key,
           Shape(F, r, dep, H, low, high), Divided(U, F, n, new, p, i, key), NodesTyped(U),
           key \in Nat \ {0}
    PROVE  Shape(U, r, Restrict(dep, DOMAIN U), H, Restrict(low, DOMAIN U),
                 Joined(high, U, n, new))
<1>1. Ordered(U, Restrict(low, DOMAIN U), Joined(high, U, n, new))
  BY MergeOrdered
<1>2. LeavesShaped(U, Restrict(dep, DOMAIN U), H, Restrict(low, DOMAIN U), Joined(high, U, n, new))
  BY MergeLeaves
<1>3. InnerShaped(U, Restrict(dep, DOMAIN U), H, Restrict(low, DOMAIN U), Joined(high, U, n, new))
  BY MergeInner
<1>4. Rooted(U, r, Restrict(dep, DOMAIN U), Restrict(low, DOMAIN U), Joined(high, U, n, new))
  BY MergeRooted
<1>5. Measured(U, Restrict(dep, DOMAIN U), H, Restrict(low, DOMAIN U), Joined(high, U, n, new))
  <2>1. n \in DOMAIN U /\ DOMAIN F = DOMAIN U \cup {new}
    BY DEF Divided
  <2>2. /\ H \in Nat /\ dep \in [DOMAIN F -> Nat] /\ low \in [DOMAIN F -> Nat]
        /\ high \in [DOMAIN F -> Nat]
    BY DEF Shape, Measured
  <2>3. Restrict(dep, DOMAIN U) \in [DOMAIN U -> Nat] /\ Restrict(low, DOMAIN U) \in [DOMAIN U -> Nat]
    BY <2>1, <2>2 DEF Restrict
  <2>4. Joined(high, U, n, new) \in [DOMAIN U -> Nat]
    BY <2>1, <2>2 DEF Joined
  <2> QED
    BY <2>2, <2>3, <2>4 DEF Measured
<1> QED
  BY <1>1, <1>2, <1>3, <1>4, <1>5 DEF Shape

-----------------------------------------------------------------------------
(* A level more or less: new is a root over the old one, without keys.     *)

Raised(U, F, r, new) ==
    /\ r \in DOMAIN U /\ new \notin DOMAIN U /\ DOMAIN F = DOMAIN U \cup {new}
    /\ F[new].leaf = FALSE /\ F[new].keys = <<>> /\ F[new].ptrs = <<r>>
    /\ F[new].parent = Null /\ F[new].next = Null
    /\ \A m \in DOMAIN U :
          F[m].leaf = U[m].leaf /\ F[m].keys = U[m].keys /\ F[m].ptrs = U[m].ptrs
                                /\ F[m].next = U[m].next
    /\ \A m \in DOMAIN U \ {r} : F[m].parent = U[m].parent
    /\ U[r].parent = Null /\ F[r].parent = new

\* What an empty sequence of keys separates.
LEMMA NoKeys ==
    /\ Len(<<>>) = 0 /\ Increasing(<<>>)
    /\ \A S, lo, hi : ToSet(<<>>) = {} /\ LowAt(<<>>, lo, 1) = lo /\ HighAt(<<>>, hi, 1) = hi
<1>1. Len(<<>>) = 0
  OBVIOUS
<1>2. ToSet(<<>>) = {}
  BY <1>1 DEF ToSet
<1> QED
  BY <1>1, <1>2 DEF Increasing, LowAt, HighAt

LEMMA OneElement ==
    ASSUME NEW V, NEW e \in V
    PROVE  <<e>> \in Seq(V) /\ Len(<<e>>) = 1 /\ <<e>>[1] = e /\ ToSet(<<e>>) = {e}
           /\ Increasing(<<e>>)
<1>1. <<e>> \in Seq(V) /\ Len(<<e>>) = 1 /\ <<e>>[1] = e
  OBVIOUS
<1>2. ToSet(<<e>>) = {e}
  <2>1. ToSet(<<e>>) = {<<e>>[i] : i \in 1 .. Len(<<e>>)}
    BY <1>1, ToSetProperties
  <2>2. 1 .. Len(<<e>>) = {1}
    BY <1>1
  <2> QED
    BY <1>1, <2>1, <2>2
<1>3. Increasing(<<e>>)
  BY <1>1 DEF Increasing
<1> QED
  BY <1>1, <1>2, <1>3

LEMMA RaiseShape ==
    ASSUME NEW U, NEW F, NEW r, NEW dep, NEW H, NEW low, NEW high, NEW new,
           Shape(U, r, dep, H, low, high), Raised(U, F, r, new), NodesTyped(F)
    PROVE  Shape(F, new, Given([m \in DOMAIN U |-> dep[m] + 1], new, 0), H + 1,
                 Given(low, new, 0), Given(high, new, 0))
<1> DEFINE up == [m \in DOMAIN U |-> dep[m] + 1]
           D == Given(up, new, 0)
           L == Given(low, new, 0)
           G == Given(high, new, 0)
<1>1. /\ r \in DOMAIN U /\ new \notin DOMAIN U /\ DOMAIN F = DOMAIN U \cup {new}
      /\ DOMAIN low = DOMAIN U /\ DOMAIN high = DOMAIN U /\ DOMAIN dep = DOMAIN U
      /\ H \in Nat
  BY DEF Raised, Shape, Measured
<1>2. /\ L[new] = 0 /\ G[new] = 0 /\ D[new] = 0
      /\ \A m \in DOMAIN U : L[m] = low[m] /\ D[m] = dep[m] + 1 /\ G[m] = high[m]
  BY <1>1 DEF Given
<1>3. \A m \in DOMAIN U : dep[m] \in Nat /\ low[m] \in Nat /\ high[m] \in Nat
  BY TypesOfMeasures DEF Shape
<1>4. Measured(F, D, H + 1, L, G)
  <2>1. D \in [DOMAIN F -> Nat]
    BY <1>1, <1>3 DEF Given
  <2>2. L \in [DOMAIN F -> Nat] /\ G \in [DOMAIN F -> Nat]
    BY <1>1, <1>3 DEF Given
  <2> QED
    BY <1>1, <2>1, <2>2 DEF Measured
<1> HIDE DEF D, L, G
<1>5. /\ \A m \in DOMAIN U :
          F[m].leaf = U[m].leaf /\ F[m].keys = U[m].keys /\ F[m].ptrs = U[m].ptrs
                                /\ F[m].next = U[m].next
      /\ \A m \in DOMAIN U \ {r} : F[m].parent = U[m].parent
      /\ ~ F[new].leaf /\ F[new].keys = <<>> /\ F[new].ptrs = <<r>>
      /\ F[new].parent = Null /\ F[new].next = Null /\ F[r].parent = new
  BY DEF Raised
<1>6. r \in DOMAIN U /\ dep[r] = 0 /\ low[r] = 0 /\ high[r] = 0 /\ U[r].parent = Null
  BY DEF Shape, Rooted
<1>7. Ordered(F, L, G)
  <2>1. ASSUME NEW m \in DOMAIN U
        PROVE  /\ G[m] # 0 => L[m] < G[m]
               /\ Increasing(F[m].keys)
               /\ \A k \in ToSet(F[m].keys) :
                     Covers(L, G, m, k) /\ (F[m].leaf \/ L[m] < k)
    BY <1>2, <1>5 DEF Shape, Ordered, Covers
  <2>2. /\ G[new] = 0 /\ Increasing(F[new].keys) /\ ToSet(F[new].keys) = {}
    BY <1>2, <1>5, NoKeys
  <2> QED
    BY <1>1, <2>1, <2>2 DEF Ordered
<1>8. LeavesShaped(F, D, H + 1, L, G)
  BY <1>1, <1>2, <1>5 DEF Shape, LeavesShaped
<1>9. InnerShaped(F, D, H + 1, L, G)
  <2>1. ASSUME NEW m \in DOMAIN U, ~ U[m].leaf
        PROVE  /\ dep[m] < H
               /\ U[m].next = Null
               /\ Len(U[m].ptrs) = Len(U[m].keys) + 1
               /\ \A i \in 1 .. Len(U[m].ptrs) :
                     /\ U[m].ptrs[i] \in DOMAIN U
                     /\ U[U[m].ptrs[i]].parent = m
                     /\ dep[U[m].ptrs[i]] = dep[m] + 1
                     /\ low[U[m].ptrs[i]] = LowAt(U[m].keys, low[m], i)
                     /\ high[U[m].ptrs[i]] = HighAt(U[m].keys, high[m], i)
    BY <2>1 DEF Shape, InnerShaped
  <2>2. \A m \in DOMAIN U : m # 0
    BY TypesOfNodes DEF Shape
  <2>3. ASSUME NEW m \in DOMAIN U, ~ U[m].leaf, NEW i \in 1 .. Len(F[m].ptrs)
        PROVE  /\ F[m].ptrs[i] \in DOMAIN F
               /\ F[F[m].ptrs[i]].parent = m
               /\ D[F[m].ptrs[i]] = D[m] + 1
               /\ L[F[m].ptrs[i]] = LowAt(F[m].keys, L[m], i)
               /\ G[F[m].ptrs[i]] = HighAt(F[m].keys, G[m], i)
    <3> DEFINE c == U[m].ptrs[i]
    <3>1. /\ c = F[m].ptrs[i] /\ c \in DOMAIN U /\ U[c].parent = m /\ dep[c] = dep[m] + 1
          /\ low[c] = LowAt(U[m].keys, low[m], i)
          /\ high[c] = HighAt(U[m].keys, high[m], i)
      BY <1>5, <2>1, <2>3
    <3> HIDE DEF c
    <3>2. c # r
      BY <1>6, <2>2, <3>1 DEF Null
    <3> QED
      BY <1>1, <1>2, <1>5, <3>1, <3>2
  <2>4. ASSUME NEW m \in DOMAIN U, ~ U[m].leaf
        PROVE  /\ D[m] < H + 1
               /\ F[m].next = Null
               /\ Len(F[m].ptrs) = Len(F[m].keys) + 1
    <3>1. dep[m] < H /\ dep[m] \in Nat
      BY <1>3, <2>1, <2>4
    <3>2. D[m] < H + 1
      BY <1>1, <1>2, <3>1
    <3>3. F[m].next = Null /\ Len(F[m].ptrs) = Len(F[m].keys) + 1
      BY <1>5, <2>1, <2>4
    <3> QED
      BY <3>2, <3>3
  <2>5. /\ D[new] < H + 1 /\ F[new].next = Null /\ Len(F[new].ptrs) = 1 /\ Len(F[new].keys) = 0
    BY <1>1, <1>2, <1>5, NoKeys
  <2>6. ASSUME NEW i \in 1 .. Len(F[new].ptrs)
        PROVE  /\ F[new].ptrs[i] \in DOMAIN F
               /\ F[F[new].ptrs[i]].parent = new
               /\ D[F[new].ptrs[i]] = D[new] + 1
               /\ L[F[new].ptrs[i]] = LowAt(F[new].keys, L[new], i)
               /\ G[F[new].ptrs[i]] = HighAt(F[new].keys, G[new], i)
    <3>1. i = 1 /\ F[new].ptrs[i] = r
      BY <1>5, <2>5
    <3>2. LowAt(F[new].keys, L[new], 1) = L[new] /\ HighAt(F[new].keys, G[new], 1) = G[new]
      BY <1>5, NoKeys
    <3> QED
      BY <1>1, <1>2, <1>5, <1>6, <3>1, <3>2
  <2> DEFINE Of(m, i) == /\ F[m].ptrs[i] \in DOMAIN F
                         /\ F[F[m].ptrs[i]].parent = m
                         /\ D[F[m].ptrs[i]] = D[m] + 1
                         /\ L[F[m].ptrs[i]] = LowAt(F[m].keys, L[m], i)
                         /\ G[F[m].ptrs[i]] = HighAt(F[m].keys, G[m], i)
  <2>7. ASSUME NEW m \in DOMAIN F, ~ F[m].leaf
        PROVE  \A i \in 1 .. Len(F[m].ptrs) : Of(m, i)
    <3>1. ASSUME m \in DOMAIN U
          PROVE  \A i \in 1 .. Len(F[m].ptrs) : Of(m, i)
      BY <1>5, <2>3, <2>7, <3>1
    <3>2. ASSUME m = new
          PROVE  \A i \in 1 .. Len(F[m].ptrs) : Of(m, i)
      BY <2>6, <3>2
    <3> QED
      BY <1>1, <3>1, <3>2
  <2>8. ASSUME NEW m \in DOMAIN F, ~ F[m].leaf
        PROVE  /\ D[m] < H + 1
               /\ F[m].next = Null
               /\ Len(F[m].ptrs) = Len(F[m].keys) + 1
    <3>1. CASE m \in DOMAIN U
      BY <1>5, <2>4, <2>8, <3>1
    <3>2. CASE m = new
      <4>1. Len(F[new].ptrs) = Len(F[new].keys) + 1
        BY <2>5
      <4> QED
        BY <2>5, <3>2, <4>1
    <3> QED
      BY <1>1, <3>1, <3>2
  <2> QED
    BY <2>7, <2>8 DEF InnerShaped
<1>10. Rooted(F, new, D, L, G)
  <2>1. ASSUME NEW m \in DOMAIN U \ {r}
        PROVE  /\ F[m].parent \in DOMAIN F
               /\ ~ F[F[m].parent].leaf
               /\ \E i \in 1 .. Len(F[F[m].parent].ptrs) : F[F[m].parent].ptrs[i] = m
    BY <1>1, <1>5 DEF Shape, Rooted
  <2>2. /\ F[r].parent \in DOMAIN F
        /\ ~ F[F[r].parent].leaf
        /\ \E i \in 1 .. Len(F[F[r].parent].ptrs) : F[F[r].parent].ptrs[i] = r
    BY <1>1, <1>5
  <2> QED
    BY <1>1, <1>2, <1>5, <2>1, <2>2 DEF Rooted
<1> QED
  BY <1>4, <1>7, <1>8, <1>9, <1>10 DEF Shape, D, L, G

\* Nodes below the root are below the depth 0.
LEMMA DepthBelowRoot ==
    ASSUME NEW N, NEW r, NEW dep, NEW H, NEW low, NEW high, Shape(N, r, dep, H, low, high),
           NEW m \in DOMAIN N, m # r
    PROVE  dep[m] \in Nat /\ dep[m] >= 1
<1>1. N[m].parent \in DOMAIN N /\ dep[m] = dep[N[m].parent] + 1
  BY ParentCovers
<1>2. dep[N[m].parent] \in Nat
  BY <1>1, TypesOfMeasures DEF Shape
<1> QED
  BY <1>1, <1>2

LEMMA LowerShape ==
    ASSUME NEW U, NEW F, NEW r, NEW dep, NEW H, NEW low, NEW high, NEW new,
           Shape(F, new, dep, H, low, high), Raised(U, F, r, new), NodesTyped(U)
    PROVE  Shape(U, r, [m \in DOMAIN U |-> dep[m] - 1], H - 1,
                 Restrict(low, DOMAIN U), Restrict(high, DOMAIN U))
<1> DEFINE D == [m \in DOMAIN U |-> dep[m] - 1]
           L == Restrict(low, DOMAIN U)
           G == Restrict(high, DOMAIN U)
<1>1. /\ r \in DOMAIN U /\ new \notin DOMAIN U /\ DOMAIN F = DOMAIN U \cup {new}
      /\ DOMAIN low = DOMAIN F /\ DOMAIN high = DOMAIN F /\ DOMAIN dep = DOMAIN F
      /\ H \in Nat
  BY DEF Raised, Shape, Measured
<1>2. \A m \in DOMAIN U : L[m] = low[m] /\ D[m] = dep[m] - 1 /\ G[m] = high[m]
  BY DEF Restrict
<1>3. /\ \A m \in DOMAIN U : dep[m] \in Nat /\ dep[m] >= 1
      /\ \A m \in DOMAIN U : low[m] \in Nat /\ high[m] \in Nat
  BY <1>1, DepthBelowRoot, TypesOfMeasures DEF Shape
<1>4. /\ \A m \in DOMAIN U :
          F[m].leaf = U[m].leaf /\ F[m].keys = U[m].keys /\ F[m].ptrs = U[m].ptrs
                                /\ F[m].next = U[m].next
      /\ \A m \in DOMAIN U \ {r} : F[m].parent = U[m].parent
      /\ ~ F[new].leaf /\ F[new].keys = <<>> /\ F[new].ptrs = <<r>>
      /\ F[new].parent = Null /\ F[new].next = Null /\ F[r].parent = new /\ U[r].parent = Null
  BY DEF Raised
<1>5. /\ dep[new] < H /\ dep[new] = 0 /\ low[new] = 0 /\ high[new] = 0
      /\ dep[r] = 1 /\ low[r] = 0 /\ high[r] = 0
  <2>1. dep[new] = 0 /\ low[new] = 0 /\ high[new] = 0
    BY DEF Shape, Rooted
  <2>2. /\ 1 \in 1 .. Len(F[new].ptrs) /\ F[new].ptrs[1] = r
        /\ LowAt(F[new].keys, low[new], 1) = low[new] /\ HighAt(F[new].keys, high[new], 1) = high[new]
    BY <1>4, NoKeys
  <2>3. dep[new] < H /\ dep[r] = dep[new] + 1 /\ low[r] = low[new] /\ high[r] = high[new]
    BY <1>1, <1>4, <2>2 DEF Shape, InnerShaped
  <2> QED
    BY <2>1, <2>3
<1>6. Measured(U, D, H - 1, L, G)
  <2>1. D \in [DOMAIN U -> Nat]
    BY <1>3
  <2>2. L \in [DOMAIN U -> Nat] /\ G \in [DOMAIN U -> Nat]
    BY <1>3 DEF Restrict
  <2>3. H - 1 \in Nat
    BY <1>1, <1>5
  <2> QED
    BY <2>1, <2>2, <2>3 DEF Measured
<1> HIDE DEF D, L, G
<1>7. Ordered(U, L, G)
  <2>1. \A m \in DOMAIN U : m \in DOMAIN F
    BY <1>1
  <2> QED
    BY <1>2, <1>4, <2>1 DEF Shape, Ordered, Covers
<1>8. ASSUME NEW m \in DOMAIN U, U[m].leaf
      PROVE  /\ D[m] = H - 1
             /\ U[m].ptrs = U[m].keys
             /\ G[m] = 0 => U[m].next = Null
             /\ G[m] # 0 => /\ U[m].next \in DOMAIN U
                            /\ U[U[m].next].leaf
                            /\ L[U[m].next] = G[m]
  <2>1. /\ dep[m] = H
        /\ F[m].ptrs = F[m].keys
        /\ high[m] = 0 => F[m].next = Null
        /\ high[m] # 0 => /\ F[m].next \in DOMAIN F
                          /\ F[F[m].next].leaf
                          /\ low[F[m].next] = high[m]
    BY <1>1, <1>4, <1>8 DEF Shape, LeavesShaped
  <2> QED
    BY <1>1, <1>2, <1>4, <2>1
<1>9. ASSUME NEW m \in DOMAIN U, ~ U[m].leaf
      PROVE  /\ D[m] < H - 1
             /\ U[m].next = Null
             /\ Len(U[m].ptrs) = Len(U[m].keys) + 1
             /\ \A i \in 1 .. Len(U[m].ptrs) :
                   /\ U[m].ptrs[i] \in DOMAIN U
                   /\ U[U[m].ptrs[i]].parent = m
                   /\ D[U[m].ptrs[i]] = D[m] + 1
                   /\ L[U[m].ptrs[i]] = LowAt(U[m].keys, L[m], i)
                   /\ G[U[m].ptrs[i]] = HighAt(U[m].keys, G[m], i)
  <2>1. /\ dep[m] < H
        /\ F[m].next = Null
        /\ Len(F[m].ptrs) = Len(F[m].keys) + 1
        /\ \A i \in 1 .. Len(F[m].ptrs) :
              /\ F[m].ptrs[i] \in DOMAIN F
              /\ F[F[m].ptrs[i]].parent = m
              /\ dep[F[m].ptrs[i]] = dep[m] + 1
              /\ low[F[m].ptrs[i]] = LowAt(F[m].keys, low[m], i)
              /\ high[F[m].ptrs[i]] = HighAt(F[m].keys, high[m], i)
    BY <1>1, <1>4, <1>9 DEF Shape, InnerShaped
  <2>2. ASSUME NEW i \in 1 .. Len(U[m].ptrs)
        PROVE  /\ U[m].ptrs[i] \in DOMAIN U
               /\ U[U[m].ptrs[i]].parent = m
               /\ D[U[m].ptrs[i]] = D[m] + 1
               /\ L[U[m].ptrs[i]] = LowAt(U[m].keys, L[m], i)
               /\ G[U[m].ptrs[i]] = HighAt(U[m].keys, G[m], i)
    <3> DEFINE c == U[m].ptrs[i]
    <3>1. /\ c \in DOMAIN F /\ F[c].parent = m /\ dep[c] = dep[m] + 1
          /\ low[c] = LowAt(U[m].keys, low[m], i)
          /\ high[c] = HighAt(U[m].keys, high[m], i)
      BY <1>4, <2>1
    <3> HIDE DEF c
    <3>2. m # 0 /\ m \in Nat /\ dep[m] \in Nat /\ dep[m] >= 1
      BY <1>3, TypesOfNodes
    <3>3. c # r /\ c # new
      BY <1>1, <1>4, <1>5, <3>1, <3>2
    <3>4. c \in DOMAIN U
      BY <1>1, <3>1, <3>3
    <3>5. D[c] = D[m] + 1
      BY <1>2, <3>1, <3>2, <3>4
    <3> QED
      BY <1>2, <1>4, <3>1, <3>3, <3>4, <3>5 DEF c
  <2>3. D[m] < H - 1
    BY <1>1, <1>2, <1>3, <2>1
  <2> QED
    BY <1>4, <2>1, <2>2, <2>3
<1>10. Rooted(U, r, D, L, G)
  <2>1. ASSUME NEW m \in DOMAIN U \ {r}
        PROVE  /\ U[m].parent \in DOMAIN U
               /\ ~ U[U[m].parent].leaf
               /\ \E i \in 1 .. Len(U[U[m].parent].ptrs) : U[U[m].parent].ptrs[i] = m
    <3>1. /\ F[m].parent \in DOMAIN F
          /\ ~ F[F[m].parent].leaf
          /\ \E i \in 1 .. Len(F[F[m].parent].ptrs) : F[F[m].parent].ptrs[i] = m
      BY <1>1 DEF Shape, Rooted
    <3>2. F[m].parent # new
      <4>1. SUFFICES ASSUME F[m].parent = new
                     PROVE  FALSE
        OBVIOUS
      <4>2. PICK i \in 1 .. Len(F[new].ptrs) : F[new].ptrs[i] = m
        BY <3>1, <4>1
      <4>3. m = r
        BY <1>4, <4>2
      <4> QED
        BY <4>3
    <3> QED
      BY <1>1, <1>4, <3>1, <3>2
  <2> QED
    BY <1>1, <1>2, <1>4, <1>5, <2>1 DEF Rooted
<1> QED
  BY <1>6, <1>7, <1>8, <1>9, <1>10 DEF Shape, LeavesShaped, InnerShaped, D, L, G

LEMMA RaiseKeys ==
    ASSUME NEW U, NEW F, NEW r, NEW new, Raised(U, F, r, new)
    PROVE  LeafKeys(F) = LeafKeys(U)
<1>1. {m \in DOMAIN F : F[m].leaf} = {m \in DOMAIN U : U[m].leaf}
  BY DEF Raised
<1>2. \A n \in {m \in DOMAIN U : U[m].leaf} : F[n].keys = U[n].keys
  BY DEF Raised
<1> QED
  BY <1>1, <1>2 DEF LeafKeys

-----------------------------------------------------------------------------
(* What the operations do to the keys and pointers of a node.              *)

\* An element that is taken out can be put back.
LEMMA RemovedBack ==
    ASSUME NEW s \in Seq(Nat), NEW i \in 1 .. Len(s)
    PROVE  /\ RemoveAt(s, i) \in Seq(Nat) /\ Len(RemoveAt(s, i)) = Len(s) - 1
           /\ Len(s) \in Nat /\ s[i] \in Nat /\ i \in 1 .. (Len(RemoveAt(s, i)) + 1)
           /\ InsertAt(RemoveAt(s, i), i, s[i]) = s
<1> DEFINE u == RemoveAt(s, i)
           m == Len(s)
           e == s[i]
           t == InsertAt(u, i, e)
<1>1. /\ u \in Seq(Nat) /\ Len(u) = m - 1 /\ m \in Nat /\ i \in Nat
      /\ \A j \in 1 .. (m - 1) : j < i => u[j] = s[j]
      /\ \A j \in 1 .. (m - 1) : j >= i => u[j] = s[j + 1]
  BY RemoveAtProperties, LenProperties
<1>2. e \in Nat /\ i \in 1 .. m /\ s \in Seq(Nat) /\ Len(s) = m
  BY ElementOfSeq
<1> HIDE DEF u, m, e
<1>3. i \in 1 .. (Len(u) + 1) /\ Len(u) + 1 = m
  BY <1>1, <1>2
<1>4. t \in Seq(Nat) /\ Len(t) = m
  BY <1>1, <1>2, <1>3, InsertAtPlaces
<1>5. \A j \in 1 .. Len(u) : j < i => t[j] = u[j]
  BY <1>1, <1>2, <1>3, InsertAtPlaces
<1>6. t[i] = e
  BY <1>1, <1>2, <1>3, InsertAtPlaces
<1>7. \A j \in 1 .. Len(u) : j >= i => t[j + 1] = u[j]
  BY <1>1, <1>2, <1>3, InsertAtPlaces, ZenonT(30)
<1> HIDE DEF t
<1>8. ASSUME NEW j \in 1 .. m
      PROVE  t[j] = s[j]
  <2>1. CASE j < i
    <3>1. j \in 1 .. (m - 1) /\ j \in 1 .. Len(u)
      BY <1>1, <1>2, <2>1
    <3> QED
      BY <1>1, <1>5, <2>1, <3>1
  <2>2. CASE j = i
    BY <1>6, <2>2 DEF e
  <2>3. CASE j > i
    <3>1. j - 1 \in 1 .. (m - 1) /\ j - 1 \in 1 .. Len(u) /\ j - 1 >= i /\ j - 1 + 1 = j
      BY <1>1, <1>2, <2>3
    <3>2. t[j - 1 + 1] = u[j - 1]
      BY <1>7, <3>1
    <3>3. u[j - 1] = s[j - 1 + 1]
      BY <1>1, <3>1
    <3> QED
      BY <3>1, <3>2, <3>3
  <2> QED
    BY <1>1, <2>1, <2>2, <2>3
<1>9. t = s
  BY <1>2, <1>4, <1>8, SeqEqual
<1> QED
  BY <1>1, <1>2, <1>3, <1>9 DEF t, u, e, m

LEMMA RemoveIncreases ==
    ASSUME NEW s \in Seq(Nat), NEW i \in 1 .. Len(s), Increasing(s)
    PROVE  /\ Increasing(RemoveAt(s, i))
           /\ ToSet(RemoveAt(s, i)) = ToSet(s) \ {s[i]}
<1> DEFINE u == RemoveAt(s, i)
           e == s[i]
<1>1. /\ u \in Seq(Nat) /\ e \in Nat /\ i \in 1 .. (Len(u) + 1)
      /\ InsertAt(u, i, e) = s /\ Len(u) \in Nat
  BY RemovedBack, LenProperties
<1> HIDE DEF u, e
<1>2. Increasing(InsertAt(u, i, e))
  BY <1>1
<1>3. Increasing(u) /\ (i > 1 => u[i - 1] < e) /\ (i <= Len(u) => e < u[i])
  BY <1>1, <1>2, InsertAtIncreases
<1>4. ToSet(InsertAt(u, i, e)) = ToSet(u) \cup {e}
  BY <1>1, ToSetOfInsertAt
<1>5. ASSUME NEW j \in 1 .. Len(u)
      PROVE  u[j] # e
  <2>0. \A l \in 1 .. Len(u) : u[l] \in Nat
    BY <1>1, ElementsInSet
  <2>1. CASE j < i
    <3>1. i > 1 /\ i - 1 \in 1 .. Len(u) /\ (j = i - 1 \/ j < i - 1)
      BY <1>1, <2>1
    <3>2. u[j] <= u[i - 1]
      <4> DEFINE h == i - 1
      <4>1. h \in 1 .. Len(u) /\ (j = h \/ j < h)
        BY <3>1
      <4> HIDE DEF h
      <4>2. u[j] \in Nat /\ u[h] \in Nat
        BY <1>5, <2>0, <4>1
      <4>3. j < h => u[j] < u[h]
        BY <1>3, <1>5, <4>1 DEF Increasing
      <4>4. u[j] <= u[h]
        BY <4>1, <4>2, <4>3
      <4> QED
        BY <4>4 DEF h
    <3> QED
      BY <1>1, <1>3, <2>0, <3>1, <3>2
  <2>2. CASE j >= i
    <3>1. i <= Len(u) /\ i \in 1 .. Len(u) /\ (j = i \/ i < j)
      BY <1>1, <2>2
    <3>2. u[i] <= u[j]
      <4>1. CASE j = i
        BY <2>0, <4>1
      <4>2. CASE i < j
        BY <1>3, <2>0, <3>1, <4>2 DEF Increasing
      <4> QED
        BY <3>1, <4>1, <4>2
    <3> QED
      BY <1>1, <1>3, <2>0, <3>1, <3>2
  <2> QED
    BY <1>1, <2>1, <2>2
<1>6. e \notin ToSet(u)
  BY <1>1, <1>5, ElementsInSet
<1>7. ToSet(u) = ToSet(s) \ {e}
  BY <1>1, <1>4, <1>6
<1> QED
  BY <1>3, <1>7 DEF u, e

\* The place of an element that is there once.
LEMMA PlaceOnce ==
    ASSUME NEW s \in Seq(Nat), NEW i \in 1 .. Len(s),
           \A j \in 1 .. Len(s) : s[j] = s[i] => j = i
    PROVE  Place(s, s[i]) = i
<1> DEFINE q == Place(s, s[i])
           e == s[i]
<1>1. /\ q \in 1 .. (Len(s) + 1)
      /\ \A j \in 1 .. Len(s) : j < q => s[j] # e
      /\ q <= Len(s) => s[q] = e
  BY PlaceProperties
<1>2. Len(s) \in Nat
  OBVIOUS
<1> HIDE DEF q
<1>3. ~ (i < q)
  BY <1>1
<1>4. q \in 1 .. Len(s)
  BY <1>1, <1>2, <1>3
<1> QED
  BY <1>1, <1>4 DEF q

LEMMA IncreasingDiffer ==
    ASSUME NEW s \in Seq(Nat), Increasing(s), NEW i \in 1 .. Len(s), NEW j \in 1 .. Len(s),
           s[i] = s[j]
    PROVE  i = j
<1>1. s[i] \in Nat /\ s[j] \in Nat /\ Len(s) \in Nat
  BY ElementsInSet
<1>2. ~ (i < j) /\ ~ (j < i)
  BY <1>1 DEF Increasing
<1> QED
  BY <1>1, <1>2

LEMMA PlaceOfKey ==
    ASSUME NEW s \in Seq(Nat), Increasing(s), NEW i \in 1 .. Len(s)
    PROVE  Place(s, s[i]) = i
<1>1. \A j \in 1 .. Len(s) : s[j] = s[i] => j = i
  BY IncreasingDiffer
<1> QED
  BY <1>1, PlaceOnce

\* A sequence is its two parts, and an element with the parts on its sides.
LEMMA TwoParts ==
    ASSUME NEW s \in Seq(Nat), NEW i \in 0 .. Len(s)
    PROVE  /\ SubSeq(s, 1, i) \in Seq(Nat) /\ Len(SubSeq(s, 1, i)) = i
           /\ SubSeq(s, i + 1, Len(s)) \in Seq(Nat) /\ Len(SubSeq(s, i + 1, Len(s))) = Len(s) - i
           /\ s = SubSeq(s, 1, i) \o SubSeq(s, i + 1, Len(s))
<1> DEFINE m == Len(s)
           a == SubSeq(s, 1, i)
           b == SubSeq(s, i + 1, m)
<1>1. m \in Nat /\ i \in Nat /\ i <= m /\ m \in 0 .. m /\ 1 \in 1 .. (m + 1) /\ i + 1 \in 1 .. (m + 1)
      /\ 1 <= i + 1 /\ i + 1 <= m + 1 /\ i - 1 + 1 = i /\ m - (i + 1) + 1 = m - i
  <2>1. m \in Nat
    OBVIOUS
  <2> HIDE DEF m
  <2>2. i \in 0 .. m
    BY DEF m
  <2> QED
    BY <2>1, <2>2
<1>2. a \in Seq(Nat) /\ Len(a) = i /\ \A j \in 1 .. i : a[j] = s[j]
  <2>1. /\ a \in Seq(Nat) /\ Len(a) = i - 1 + 1
        /\ \A j \in 1 .. (i - 1 + 1) : a[j] = s[1 + j - 1]
    BY <1>1, PartProperties
  <2>2. \A j \in 1 .. i : 1 + j - 1 = j
    BY <1>1
  <2> QED
    BY <1>1, <2>1, <2>2
<1>3. b \in Seq(Nat) /\ Len(b) = m - i /\ \A j \in 1 .. (m - i) : b[j] = s[i + j]
  <2>1. /\ b \in Seq(Nat) /\ Len(b) = m - (i + 1) + 1
        /\ \A j \in 1 .. (m - (i + 1) + 1) : b[j] = s[i + 1 + j - 1]
    BY <1>1, PartProperties
  <2>2. \A j \in 1 .. (m - i) : i + 1 + j - 1 = i + j
    BY <1>1
  <2> QED
    BY <1>1, <2>1, <2>2
<1> HIDE DEF a, b, m
<1>4. /\ a \o b \in Seq(Nat) /\ Len(a \o b) = i + (m - i)
      /\ \A j \in 1 .. i : (a \o b)[j] = a[j]
      /\ \A j \in 1 .. (m - i) : (a \o b)[i + j] = b[j]
  <2>1. a \in Seq(Nat) /\ b \in Seq(Nat)
    BY <1>2, <1>3
  <2>2. /\ a \o b \in Seq(Nat) /\ Len(a \o b) = Len(a) + Len(b)
        /\ \A j \in 1 .. Len(a) : (a \o b)[j] = a[j]
        /\ \A j \in 1 .. Len(b) : (a \o b)[Len(a) + j] = b[j]
    BY <2>1, ConcatPlaces
  <2> QED
    BY <1>2, <1>3, <2>2
<1> DEFINE u == a \o b
<1> HIDE DEF u
<1>5. ASSUME NEW j \in 1 .. m
      PROVE  u[j] = s[j]
  <2>1. CASE j <= i
    <3>1. j \in 1 .. i
      BY <1>1, <2>1
    <3> QED
      BY <1>2, <1>4, <3>1 DEF u
  <2>2. CASE j > i
    <3>1. j - i \in 1 .. (m - i) /\ i + (j - i) = j
      BY <1>1, <2>2
    <3>2. u[i + (j - i)] = s[i + (j - i)]
      BY <1>3, <1>4, <3>1 DEF u
    <3> QED
      BY <3>1, <3>2
  <2> QED
    BY <1>1, <2>1, <2>2
<1>6. u \in Seq(Nat) /\ Len(u) = Len(s)
  BY <1>1, <1>4 DEF u, m
<1>7. u = s
  BY <1>5, <1>6, SeqEqual DEF m
<1> QED
  BY <1>2, <1>3, <1>7 DEF a, b, m, u

LEMMA PartsAndMiddle ==
    ASSUME NEW s \in Seq(Nat), NEW i \in 1 .. Len(s)
    PROVE  /\ SubSeq(s, 1, i - 1) \in Seq(Nat) /\ Len(SubSeq(s, 1, i - 1)) = i - 1
           /\ SubSeq(s, i + 1, Len(s)) \in Seq(Nat) /\ Len(SubSeq(s, i + 1, Len(s))) = Len(s) - i
           /\ s[i] \in Nat
           /\ s = (SubSeq(s, 1, i - 1) \o <<s[i]>>) \o SubSeq(s, i + 1, Len(s))
<1> DEFINE m == Len(s)
           h == i - 1
           a == SubSeq(s, 1, h)
           c == SubSeq(s, h + 1, m)
           b == SubSeq(s, i + 1, m)
           e == s[i]
           ae == a \o <<e>>
           ai == SubSeq(s, 1, i)
<1>1. m \in Nat /\ i \in 1 .. m /\ h \in 0 .. m /\ i \in 0 .. m /\ h + 1 = i /\ i \in Nat
  <2>1. m \in Nat
    OBVIOUS
  <2> HIDE DEF m
  <2>2. i \in 1 .. m
    BY DEF m
  <2> QED
    BY <2>1, <2>2
<1>2. a \in Seq(Nat) /\ Len(a) = h
  BY <1>1, TwoParts
<1>3. /\ ai \in Seq(Nat) /\ Len(ai) = i /\ b \in Seq(Nat) /\ Len(b) = m - i
      /\ s = ai \o b
  BY <1>1, TwoParts
<1>4. e \in Nat
  BY ElementsInSet
<1>5. \A j \in 1 .. h : a[j] = s[j]
  <2>1. a \o SubSeq(s, h + 1, m) = s /\ SubSeq(s, h + 1, m) \in Seq(Nat)
    BY <1>1, TwoParts
  <2> HIDE DEF a, h, m
  <2>2. \A j \in 1 .. Len(a) : (a \o SubSeq(s, h + 1, m))[j] = a[j]
    BY <1>2, <2>1, ConcatPlaces
  <2> QED
    BY <1>2, <2>1, <2>2
<1>6. \A j \in 1 .. i : ai[j] = s[j]
  <2> HIDE DEF ai, b, m
  <2>1. \A j \in 1 .. Len(ai) : (ai \o b)[j] = ai[j]
    BY <1>3, ConcatPlaces
  <2> QED
    BY <1>3, <2>1
<1>7. /\ ae \in Seq(Nat) /\ Len(ae) = h + 1
      /\ \A j \in 1 .. h : ae[j] = a[j]
      /\ ae[h + 1] = e
  <2> DEFINE o == <<e>>
  <2>1. o \in Seq(Nat) /\ Len(o) = 1 /\ o[1] = e
    BY <1>4, OneElement
  <2> HIDE DEF o, a, h, e
  <2>2. /\ a \o o \in Seq(Nat) /\ Len(a \o o) = Len(a) + Len(o)
        /\ \A j \in 1 .. Len(a) : (a \o o)[j] = a[j]
        /\ \A j \in 1 .. Len(o) : (a \o o)[Len(a) + j] = o[j]
    <3>1. a \in Seq(Nat) /\ o \in Seq(Nat)
      BY <1>2, <2>1
    <3> QED
      BY <3>1, ConcatPlaces
  <2>3. 1 \in 1 .. Len(o)
    BY <2>1
  <2>4. (a \o o)[Len(a) + 1] = o[1]
    BY <2>2, <2>3
  <2> QED
    BY <1>2, <2>1, <2>2, <2>4 DEF o
<1> HIDE DEF ae, ai, a, b, e, h, m
<1>8. ASSUME NEW j \in 1 .. i
      PROVE  ae[j] = ai[j]
  <2>1. CASE j = i
    BY <1>1, <1>6, <1>7, <2>1 DEF e
  <2>2. CASE j # i
    <3>1. j \in 1 .. h
      BY <1>1, <2>2 DEF h
    <3> QED
      BY <1>5, <1>6, <1>7, <3>1
  <2> QED
    BY <2>1, <2>2
<1>9. ae = ai
  BY <1>1, <1>3, <1>7, <1>8, SeqEqual
<1> QED
  BY <1>2, <1>3, <1>4, <1>9 DEF ae, a, b, e, h, m

\* A new key at its place.
LEMMA KeyInserted ==
    ASSUME NEW c, c.keys \in Seq(Nat), Increasing(c.keys), NEW key \in Nat,
           key \notin ToSet(c.keys)
    PROVE  /\ InsertionPoint(c, key) \in 1 .. (Len(c.keys) + 1)
           /\ Increasing(InsertAt(c.keys, InsertionPoint(c, key), key))
<1> DEFINE i == InsertionPoint(c, key)
           s == c.keys
<1>1. /\ i \in 1 .. (Len(s) + 1)
      /\ \A j \in 1 .. Len(s) : j < i => ~ (s[j] >= key)
      /\ i <= Len(s) => s[i] >= key
  BY InsertionPointProperties
<1>2. s \in Seq(Nat) /\ Len(s) \in Nat /\ Increasing(s) /\ key \notin ToSet(s)
  OBVIOUS
<1> HIDE DEF i, s
<1>3. \A j \in 1 .. Len(s) : s[j] \in Nat /\ s[j] # key
  BY <1>2, ElementsInSet
<1>4. i > 1 => s[i - 1] < key
  <2>1. SUFFICES ASSUME i > 1
                 PROVE  s[i - 1] < key
    OBVIOUS
  <2>2. i - 1 \in 1 .. Len(s) /\ i - 1 < i
    BY <1>1, <1>2, <2>1
  <2> QED
    BY <1>1, <1>3, <2>2
<1>5. i <= Len(s) => key < s[i]
  <2>1. SUFFICES ASSUME i <= Len(s)
                 PROVE  key < s[i]
    OBVIOUS
  <2>2. i \in 1 .. Len(s)
    BY <1>1, <1>2, <2>1
  <2> QED
    BY <1>1, <1>3, <2>1, <2>2
<1>6. Increasing(InsertAt(s, i, key))
  BY <1>1, <1>2, <1>4, <1>5, InsertAtIncreases
<1> QED
  BY <1>1, <1>6 DEF i, s

-----------------------------------------------------------------------------
(* A leaf whose keys change, and trees of one leaf.                        *)

LeafChanged(U, F, n) ==
    /\ DOMAIN F = DOMAIN U /\ n \in DOMAIN U /\ U[n].leaf
    /\ \A m \in DOMAIN U \ {n} : F[m] = U[m]
    /\ F[n].leaf = U[n].leaf /\ F[n].parent = U[n].parent /\ F[n].next = U[n].next
    /\ F[n].ptrs = F[n].keys

LEMMA LeafShape ==
    ASSUME NEW U, NEW F, NEW r, NEW dep, NEW H, NEW low, NEW high, NEW n,
           Shape(U, r, dep, H, low, high), LeafChanged(U, F, n), NodesTyped(F),
           Increasing(F[n].keys), \A k \in ToSet(F[n].keys) : Covers(low, high, n, k)
    PROVE  Shape(F, r, dep, H, low, high)
<1>1. /\ DOMAIN F = DOMAIN U /\ n \in DOMAIN U /\ U[n].leaf /\ F[n].leaf
      /\ \A m \in DOMAIN U \ {n} : F[m] = U[m]
      /\ F[n].parent = U[n].parent /\ F[n].next = U[n].next /\ F[n].ptrs = F[n].keys
  BY DEF LeafChanged
<1>2. /\ \A m \in DOMAIN U : /\ F[m].leaf = U[m].leaf /\ F[m].parent = U[m].parent
                             /\ F[m].next = U[m].next
      /\ \A m \in DOMAIN U : ~ U[m].leaf => F[m].keys = U[m].keys /\ F[m].ptrs = U[m].ptrs
  <2>1. F[n].leaf = U[n].leaf
    BY DEF LeafChanged
  <2> QED
    BY <1>1, <2>1
<1>3. Measured(F, dep, H, low, high)
  BY <1>1 DEF Shape, Measured
<1>4. Ordered(F, low, high)
  <2>1. ASSUME NEW m \in DOMAIN U
        PROVE  /\ high[m] # 0 => low[m] < high[m]
               /\ Increasing(F[m].keys)
               /\ \A k \in ToSet(F[m].keys) :
                     Covers(low, high, m, k) /\ (F[m].leaf \/ low[m] < k)
    <3>1. CASE m = n
      <4>1. high[n] # 0 => low[n] < high[n]
        BY <1>1 DEF Shape, Ordered
      <4> QED
        BY <1>1, <3>1, <4>1
    <3>2. CASE m # n
      BY <1>1, <3>2 DEF Shape, Ordered
    <3> QED
      BY <3>1, <3>2
  <2> QED
    BY <1>1, <2>1 DEF Ordered
<1>5. LeavesShaped(F, dep, H, low, high)
  <2>1. ASSUME NEW m \in DOMAIN U, U[m].leaf
        PROVE  /\ dep[m] = H
               /\ U[m].ptrs = U[m].keys
               /\ high[m] = 0 => U[m].next = Null
               /\ high[m] # 0 => /\ U[m].next \in DOMAIN U
                                 /\ U[U[m].next].leaf
                                 /\ low[U[m].next] = high[m]
    BY <2>1 DEF Shape, LeavesShaped
  <2>2. \A m \in DOMAIN U : U[m].leaf => F[m].ptrs = F[m].keys
    BY <1>1, <2>1
  <2> QED
    BY <1>1, <1>2, <2>1, <2>2 DEF LeavesShaped
<1>6. InnerShaped(F, dep, H, low, high)
  <2>1. ASSUME NEW m \in DOMAIN U, ~ U[m].leaf
        PROVE  /\ dep[m] < H
               /\ U[m].next = Null
               /\ Len(U[m].ptrs) = Len(U[m].keys) + 1
               /\ \A i \in 1 .. Len(U[m].ptrs) :
                     /\ U[m].ptrs[i] \in DOMAIN U
                     /\ U[U[m].ptrs[i]].parent = m
                     /\ dep[U[m].ptrs[i]] = dep[m] + 1
                     /\ low[U[m].ptrs[i]] = LowAt(U[m].keys, low[m], i)
                     /\ high[U[m].ptrs[i]] = HighAt(U[m].keys, high[m], i)
    BY <2>1 DEF Shape, InnerShaped
  <2>2. ASSUME NEW m \in DOMAIN F, ~ F[m].leaf
        PROVE  m \in DOMAIN U /\ ~ U[m].leaf /\ F[m].keys = U[m].keys /\ F[m].ptrs = U[m].ptrs
               /\ F[m].next = U[m].next
    BY <1>1, <1>2, <2>2
  <2> QED
    BY <1>1, <1>2, <2>1, <2>2 DEF InnerShaped
<1>7. Rooted(F, r, dep, low, high)
  BY <1>1, <1>2, SMTT(30) DEF Shape, Rooted
<1> QED
  BY <1>3, <1>4, <1>5, <1>6, <1>7 DEF Shape

\* A key is in the leaf that covers it or in none.
LEMMA KeyInOneLeaf ==
    ASSUME NEW N, NEW r, NEW dep, NEW H, NEW low, NEW high, Shape(N, r, dep, H, low, high),
           NEW n \in DOMAIN N, N[n].leaf, NEW k \in Nat, Covers(low, high, n, k)
    PROVE  k \in LeafKeys(N) <=> k \in ToSet(N[n].keys)
<1>1. ASSUME k \in LeafKeys(N)
      PROVE  k \in ToSet(N[n].keys)
  <2>1. PICK m \in DOMAIN N : N[m].leaf /\ k \in ToSet(N[m].keys)
    BY <1>1 DEF LeafKeys
  <2>2. Covers(low, high, m, k)
    BY <2>1 DEF Shape, Ordered
  <2>3. dep[m] = dep[n]
    BY <2>1 DEF Shape, LeavesShaped
  <2>4. m = n
    BY <2>2, <2>3, CoverOnce
  <2> QED
    BY <2>1, <2>4
<1>2. ASSUME k \in ToSet(N[n].keys)
      PROVE  k \in LeafKeys(N)
  BY <1>2 DEF LeafKeys
<1> QED
  BY <1>1, <1>2

LEMMA LeafKeysTyped ==
    ASSUME NEW N, NodesTyped(N)
    PROVE  LeafKeys(N) \subseteq Keys /\ LeafKeys(N) \subseteq Nat \ {0}
<1>1. \A n \in DOMAIN N : ToSet(N[n].keys) \subseteq Keys /\ ToSet(N[n].keys) \subseteq Nat \ {0}
  BY TypesOfNodes
<1> QED
  BY <1>1 DEF LeafKeys

LEMMA LeafChangeKeys ==
    ASSUME NEW U, NEW F, NEW r, NEW dep, NEW H, NEW low, NEW high, NEW n,
           Shape(U, r, dep, H, low, high), LeafChanged(U, F, n), NodesTyped(F),
           Increasing(F[n].keys), \A k \in ToSet(F[n].keys) : Covers(low, high, n, k)
    PROVE  LeafKeys(F) = (LeafKeys(U) \ ToSet(U[n].keys)) \cup ToSet(F[n].keys)
<1>1. /\ DOMAIN F = DOMAIN U /\ n \in DOMAIN U /\ U[n].leaf /\ F[n].leaf
      /\ \A m \in DOMAIN U \ {n} : F[m] = U[m]
  BY DEF LeafChanged
<1>2. Shape(F, r, dep, H, low, high)
  BY LeafShape
<1>3. ASSUME NEW k, k \in LeafKeys(F)
      PROVE  k \in (LeafKeys(U) \ ToSet(U[n].keys)) \cup ToSet(F[n].keys)
  <2>1. PICK m \in DOMAIN F : F[m].leaf /\ k \in ToSet(F[m].keys)
    BY <1>3 DEF LeafKeys
  <2>2. CASE m = n
    BY <2>1, <2>2
  <2>3. CASE m # n
    <3>1. m \in DOMAIN U /\ U[m].leaf /\ k \in ToSet(U[m].keys)
      BY <1>1, <2>1, <2>3
    <3>2. k \in LeafKeys(U)
      BY <3>1 DEF LeafKeys
    <3>3. k \notin ToSet(U[n].keys)
      <4>1. SUFFICES ASSUME k \in ToSet(U[n].keys)
                     PROVE  FALSE
        OBVIOUS
      <4>2. Covers(low, high, n, k) /\ Covers(low, high, m, k)
        BY <1>1, <3>1, <4>1 DEF Shape, Ordered
      <4>3. dep[m] = dep[n]
        BY <1>1, <3>1 DEF Shape, LeavesShaped
      <4>4. k \in Nat
        BY <3>1, TypesOfNodes DEF Shape
      <4> QED
        BY <1>1, <2>3, <3>1, <4>2, <4>3, <4>4, CoverOnce
    <3> QED
      BY <3>2, <3>3
  <2> QED
    BY <2>2, <2>3
<1>4. ASSUME NEW k, k \in LeafKeys(U), k \notin ToSet(U[n].keys)
      PROVE  k \in LeafKeys(F)
  <2>1. PICK m \in DOMAIN U : U[m].leaf /\ k \in ToSet(U[m].keys)
    BY <1>4 DEF LeafKeys
  <2>2. m # n
    BY <1>4, <2>1
  <2>3. m \in DOMAIN F /\ F[m].leaf /\ k \in ToSet(F[m].keys)
    BY <1>1, <2>1, <2>2
  <2> QED
    BY <2>3 DEF LeafKeys
<1>5. ToSet(F[n].keys) \subseteq LeafKeys(F)
  BY <1>1 DEF LeafKeys
<1> QED
  BY <1>3, <1>4, <1>5

\* A new tree is a leaf.
LEMMA LoneLeafShape ==
    ASSUME NEW F, NEW n, NodesTyped(F), DOMAIN F = {n}, F[n].leaf,
           F[n].ptrs = F[n].keys, F[n].parent = Null, F[n].next = Null, Increasing(F[n].keys)
    PROVE  Shape(F, n, [m \in {n} |-> 0], 0, [m \in {n} |-> 0], [m \in {n} |-> 0])
<1> DEFINE zero == [m \in {n} |-> 0]
<1>1. zero[n] = 0 /\ DOMAIN zero = {n} /\ zero \in [{n} -> Nat]
  OBVIOUS
<1>2. Measured(F, zero, 0, zero, zero)
  BY <1>1 DEF Measured
<1> HIDE DEF zero
<1>3. Ordered(F, zero, zero)
  <2>1. ToSet(F[n].keys) \subseteq Nat \ {0}
    BY TypesOfNodes
  <2> QED
    BY <1>1, <2>1 DEF Ordered, Covers
<1>4. LeavesShaped(F, zero, 0, zero, zero)
  BY <1>1 DEF LeavesShaped
<1>5. InnerShaped(F, zero, 0, zero, zero)
  BY DEF InnerShaped
<1>6. Rooted(F, n, zero, zero, zero)
  BY <1>1 DEF Rooted
<1> QED
  BY <1>2, <1>3, <1>4, <1>5, <1>6 DEF Shape, zero

\* A root that is a leaf is alone.
LEMMA LeafRootAlone ==
    ASSUME NEW N, NEW r, NEW dep, NEW H, NEW low, NEW high, Shape(N, r, dep, H, low, high),
           N[r].leaf
    PROVE  DOMAIN N = {r}
<1>1. r \in DOMAIN N /\ dep[r] = 0 /\ H = 0
  BY DEF Shape, Rooted, LeavesShaped
<1>2. ASSUME NEW m \in DOMAIN N, m # r
      PROVE  FALSE
  <2>1. N[m].parent \in DOMAIN N /\ ~ N[N[m].parent].leaf
    BY <1>2, ParentCovers
  <2>2. dep[N[m].parent] < H /\ dep[N[m].parent] \in Nat
    BY <2>1, TypesOfMeasures DEF Shape, InnerShaped
  <2> QED
    BY <1>1, <2>2
<1> QED
  BY <1>1, <1>2

\* There are more nodes than levels above the leaves.
LEMMA HeightBelowSize ==
    ASSUME NEW N, NEW r, NEW dep, NEW H, NEW low, NEW high, Shape(N, r, dep, H, low, high)
    PROVE  Cardinality(DOMAIN N) \in Nat /\ H < Cardinality(DOMAIN N)
<1>1. /\ IsFiniteSet(DOMAIN N) /\ r \in DOMAIN N /\ dep[r] = 0 /\ H \in Nat
      /\ dep \in [DOMAIN N -> Nat]
  BY DEF Shape, NodesTyped, Rooted, Measured
<1>2. ASSUME NEW n \in DOMAIN N, ~ N[n].leaf
      PROVE  \E m \in DOMAIN N : dep[m] = dep[n] + 1
  <2>1. Len(N[n].ptrs) = Len(N[n].keys) + 1 /\ Len(N[n].keys) \in Nat
    BY <1>2, TypesOfNodes DEF Shape, InnerShaped
  <2>2. 1 \in 1 .. Len(N[n].ptrs)
    BY <2>1
  <2> QED
    BY <1>2, <2>2 DEF Shape, InnerShaped
<1>3. \A d \in 0 .. H : \E n \in DOMAIN N : dep[n] = d
  <2> DEFINE S == {d \in 0 .. H : ~ \E n \in DOMAIN N : dep[n] = d}
  <2>1. SUFFICES ASSUME S # {}
                 PROVE  FALSE
    OBVIOUS
  <2>2. S \subseteq Nat
    BY <1>1
  <2> HIDE DEF S
  <2>3. PICK d \in S : \A e \in S : d <= e
    BY <2>1, <2>2, LeastElement
  <2>4. d \in 0 .. H /\ ~ \E n \in DOMAIN N : dep[n] = d
    BY DEF S
  <2>5. d # 0 /\ d - 1 \in 0 .. H /\ d - 1 < H /\ d \in Nat /\ ~ (d <= d - 1) /\ d - 1 + 1 = d
    BY <1>1, <2>4
  <2>6. d - 1 \notin S
    BY <2>3, <2>5
  <2>7. PICK n \in DOMAIN N : dep[n] = d - 1
    BY <2>5, <2>6 DEF S
  <2>8. ~ N[n].leaf
    BY <2>5, <2>7 DEF Shape, LeavesShaped
  <2> QED
    BY <1>2, <2>4, <2>5, <2>7, <2>8
<1>4. PICK f \in [0 .. H -> DOMAIN N] : \A d \in 0 .. H : dep[f[d]] = d
  <2> DEFINE g == [d \in 0 .. H |-> CHOOSE n \in DOMAIN N : dep[n] = d]
  <2>1. g \in [0 .. H -> DOMAIN N] /\ \A d \in 0 .. H : dep[g[d]] = d
    BY <1>3
  <2> QED
    BY <2>1
<1>5. f \in Injection(0 .. H, DOMAIN N)
  BY <1>4 DEF Injection, IsInjective
<1>6. IsFiniteSet(0 .. H) /\ Cardinality(0 .. H) = H + 1
  <2>1. 0 \in Int /\ H \in Int /\ 0 <= H + 1
    BY <1>1
  <2> QED
    BY <1>1, <2>1, FS_Interval
<1>7. Cardinality(0 .. H) <= Cardinality(DOMAIN N)
  BY <1>1, <1>5, FS_Injection
<1>8. Cardinality(DOMAIN N) \in Nat
  BY <1>1, FS_CardinalityType
<1> QED
  BY <1>1, <1>6, <1>7, <1>8

=============================================================================
