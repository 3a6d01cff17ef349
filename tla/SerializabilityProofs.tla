------------------------ MODULE SerializabilityProofs ------------------------
(***************************************************************************)
(* Lemmas about TID words and serial orders, which the proofs about both   *)
(* KVSilo and Silo rest on.                                                *)
(***************************************************************************)
EXTENDS Serializability, FiniteSetTheorems, WellFoundedInduction, TLAPS

-----------------------------------------------------------------------------
(* TID words                                                               *)

\* The operations on TID words keep both counters within their bit fields.
LEMMA WordOperations ==
    /\ ZeroWord \in Words
    /\ \A a, b \in Words : WordMax(a, b) \in Words
    /\ \A a \in Words : NextTid(a) \in Words /\ Locked(a) \in Words
                                             /\ Unlocked(a) \in Words
    /\ \A e \in Epochs : [ZeroWord EXCEPT !.epoch = e] \in Words
<1>1. ZeroWord \in Words
  BY WidthAssumption DEF ZeroWord, Words, Epochs
<1>2. ASSUME NEW a \in Words, NEW b \in Words
      PROVE  WordMax(a, b) \in Words
  BY <1>2 DEF WordMax
<1>3. ASSUME NEW a \in Words
      PROVE  NextTid(a) \in Words /\ Locked(a) \in Words /\ Unlocked(a) \in Words
  <2>1. (a.tid + 1) % TidMod \in 0 .. (TidMod - 1)
    BY <1>3, WidthAssumption DEF Words
  <2> QED
    BY <1>3, <2>1 DEF NextTid, Locked, Unlocked, Words
<1>4. ASSUME NEW e \in Epochs
      PROVE  [ZeroWord EXCEPT !.epoch = e] \in Words
  BY <1>1, <1>4 DEF ZeroWord, Words
<1> QED
  BY <1>1, <1>2, <1>3, <1>4

\* The order of the words is total, and locking does not matter to what is
\* less in epoch or tid.
LEMMA WordOrder ==
    /\ \A a \in Words : ~ WordLess(a, a)
    /\ \A a, b, c \in Words : WordLess(a, b) /\ WordLess(b, c) => WordLess(a, c)
    /\ \A a, b, c \in Words : WordLess(a, b) /\ ~ WordLess(c, b) => WordLess(a, c)
    /\ \A a, b \in Words : ~ WordLess(WordMax(a, b), a) /\ ~ WordLess(WordMax(a, b), b)
<1>1. \A a \in Words : a.epoch \in Nat /\ a.tid \in Nat /\ a.lock \in 0 .. 1
  BY WidthAssumption DEF Words, Epochs
<1>2. \A a \in Words : ~ WordLess(a, a)
  BY <1>1 DEF WordLess
<1>3. \A a, b, c \in Words : WordLess(a, b) /\ WordLess(b, c) => WordLess(a, c)
  BY <1>1 DEF WordLess
<1>4. \A a, b, c \in Words : WordLess(a, b) /\ ~ WordLess(c, b) => WordLess(a, c)
  BY <1>1 DEF WordLess
<1>5. \A a, b \in Words : ~ WordLess(WordMax(a, b), a) /\ ~ WordLess(WordMax(a, b), b)
  BY <1>1, <1>2 DEF WordLess, WordMax
<1> QED
  BY <1>2, <1>3, <1>4, <1>5

\* A word above the next tid of an unlocked one is above it, locked or not.
LEMMA NextTidGrows ==
    ASSUME NEW a \in Words, a.lock = 0, a.tid + 1 < TidMod,
           NEW b \in Words, ~ WordLess(b, NextTid(a))
    PROVE  WordLess(a, Unlocked(b))
<1>1. /\ a.epoch \in Nat /\ a.tid \in Nat /\ b.epoch \in Nat /\ b.tid \in Nat
      /\ b.lock \in 0 .. 1
  BY WidthAssumption DEF Words, Epochs
<1>2. (a.tid + 1) % TidMod = a.tid + 1
  BY <1>1, WidthAssumption
<1>3. /\ NextTid(a).epoch = a.epoch /\ NextTid(a).tid = a.tid + 1
      /\ NextTid(a).lock = 0
  BY <1>2 DEF NextTid, Words
<1>4. Unlocked(b).epoch = b.epoch /\ Unlocked(b).tid = b.tid /\ Unlocked(b).lock = 0
  BY DEF Unlocked, Words
<1> QED
  BY <1>1, <1>3, <1>4 DEF WordLess

\* The order of words with the lock bit left out.
Precedes(a, b) == a.epoch < b.epoch \/ (a.epoch = b.epoch /\ a.tid < b.tid)

\* It is a strict order, and agrees with that of whole words on unlocked ones.
LEMMA PrecedesOrder ==
    /\ \A a, b, c \in Words : Precedes(a, b) /\ Precedes(b, c) => Precedes(a, c)
    /\ \A a, b, c \in Words : Precedes(a, b) /\ ~ Precedes(c, b) => Precedes(a, c)
    /\ \A a, b, c \in Words : Precedes(a, b) /\ ~ Precedes(a, c) => ~ Precedes(b, c)
    /\ \A a \in Words : ~ Precedes(a, a)
    /\ \A a, b \in Words : Precedes(a, b) => ~ Precedes(b, a) /\ Unlocked(a) # Unlocked(b)
    /\ \A a \in Words : a.lock = 0 => Unlocked(a) = a
    /\ \A a, b \in Words : a.lock = 0 /\ b.lock = 0 => (WordLess(a, b) <=> Precedes(a, b))
    /\ \A a, b \in Words : Unlocked(a) = Unlocked(b) =>
          \A c \in Words : /\ Precedes(a, c) <=> Precedes(b, c)
                          /\ Precedes(c, a) <=> Precedes(c, b)
<1>1. \A a \in Words : /\ a.epoch \in Nat /\ a.tid \in Nat /\ a.lock \in 0 .. 1
                       /\ Unlocked(a).epoch = a.epoch /\ Unlocked(a).tid = a.tid
  BY WidthAssumption DEF Words, Epochs, Unlocked
<1>2. \A a \in Words : a.lock = 0 => Unlocked(a) = a
  BY DEF Words, Unlocked
<1>3. \A a, b \in Words : Precedes(a, b) => ~ Precedes(b, a) /\ Unlocked(a) # Unlocked(b)
  <2> SUFFICES ASSUME NEW a \in Words, NEW b \in Words, Precedes(a, b)
               PROVE  ~ Precedes(b, a) /\ Unlocked(a) # Unlocked(b)
    OBVIOUS
  <2>1. a.epoch # b.epoch \/ a.tid # b.tid
    BY <1>1 DEF Precedes
  <2>2. Unlocked(a) # Unlocked(b)
    BY <1>1, <2>1
  <2> QED
    BY <1>1, <2>2 DEF Precedes
<1>4. /\ \A a, b, c \in Words : Precedes(a, b) /\ Precedes(b, c) => Precedes(a, c)
      /\ \A a, b, c \in Words : Precedes(a, b) /\ ~ Precedes(c, b) => Precedes(a, c)
      /\ \A a, b, c \in Words : Precedes(a, b) /\ ~ Precedes(a, c) => ~ Precedes(b, c)
      /\ \A a \in Words : ~ Precedes(a, a)
  BY <1>1 DEF Precedes
<1>5. \A a, b \in Words : a.lock = 0 /\ b.lock = 0 => (WordLess(a, b) <=> Precedes(a, b))
  BY <1>1 DEF Precedes, WordLess
<1>6. \A a, b \in Words : Unlocked(a) = Unlocked(b) =>
          \A c \in Words : /\ Precedes(a, c) <=> Precedes(b, c)
                          /\ Precedes(c, a) <=> Precedes(c, b)
  <2> SUFFICES ASSUME NEW a \in Words, NEW b \in Words, Unlocked(a) = Unlocked(b),
                      NEW c \in Words
               PROVE  (Precedes(a, c) <=> Precedes(b, c)) /\ (Precedes(c, a) <=> Precedes(c, b))
    OBVIOUS
  <2>1. a.epoch = b.epoch /\ a.tid = b.tid
    BY <1>1
  <2> QED
    BY <2>1 DEF Precedes
<1> QED
  BY <1>2, <1>3, <1>4, <1>5, <1>6

-----------------------------------------------------------------------------
(* Serial orders                                                           *)

\* Of finitely many things, one has the greatest number: the set of those that
\* have a greater one is minimal, and so it is empty.
LEMMA Greatest ==
    ASSUME NEW S, IsFiniteSet(S), S # {}, NEW f \in [S -> Nat]
    PROVE  \E s \in S : \A r \in S : f[r] <= f[s]
<1> DEFINE Above(s) == {r \in S : f[s] < f[r]}
           Aboves == {Above(s) : s \in S}
<1>1. Aboves # {} /\ Aboves \subseteq FiniteSubsetsOf(S)
  <2>1. \A s \in S : Above(s) \in SUBSET S /\ IsFiniteSet(Above(s))
    BY FS_Subset
  <2>2. \A s \in S : Above(s) \in FiniteSubsetsOf(S)
    BY <2>1 DEF FiniteSubsetsOf
  <2> HIDE DEF Above
  <2> QED
    BY <2>2
<1>2. PICK A \in Aboves : \A B \in Aboves : <<B, A>> \notin StrictSubsetOrdering(S)
  <2> HIDE DEF Aboves
  <2> QED
    BY <1>1, FS_StrictSubsetOrderingWellFounded, WFMin
<1>3. PICK s \in S : A = Above(s)
  BY <1>2
<1>4. ASSUME NEW r \in S, f[s] < f[r]
      PROVE  FALSE
  <2>1. Above(r) \subseteq Above(s) /\ r \in Above(s) /\ r \notin Above(r)
    BY <1>4
  <2>2. <<Above(r), Above(s)>> \in StrictSubsetOrdering(S)
    BY <2>1 DEF StrictSubsetOrdering
  <2> QED
    BY <1>2, <1>3, <2>2
<1> QED
  BY <1>4

\* An order of finitely many things can be numbered from 1 on: each gets the
\* number of those that are not after it.
LEMMA Numbered ==
    ASSUME NEW H, IsFiniteSet(H), NEW f \in [H -> Nat],
           NEW edges, \A e \in edges : /\ e[1] \in H /\ e[2] \in H
                                      /\ f[e[1]] < f[e[2]]
    PROVE  SerialOrderExists(H, edges)
<1> DEFINE UpTo(h) == {g \in H : f[g] <= f[h]}
           position == [h \in H |-> Cardinality(UpTo(h))]
<1>1. ASSUME NEW h \in H
      PROVE  IsFiniteSet(UpTo(h)) /\ Cardinality(UpTo(h)) \in 1 .. Cardinality(H)
  <2>1. IsFiniteSet(UpTo(h)) /\ Cardinality(UpTo(h)) <= Cardinality(H)
    BY FS_Subset
  <2>2. Cardinality(UpTo(h)) \in Nat /\ Cardinality(H) \in Nat
    BY <2>1, FS_CardinalityType
  <2>3. h \in UpTo(h)
    OBVIOUS
  <2>4. Cardinality(UpTo(h)) # 0
    BY <2>1, <2>3, FS_EmptySet
  <2> QED
    BY <2>1, <2>2, <2>4
<1>2. position \in [H -> 1 .. Cardinality(H)]
  BY <1>1
<1>3. ASSUME NEW e \in edges PROVE position[e[1]] < position[e[2]]
  <2>1. e[1] \in H /\ e[2] \in H /\ f[e[1]] < f[e[2]]
    OBVIOUS
  <2>2. UpTo(e[1]) \subseteq UpTo(e[2])
    BY <2>1
  <2>3. e[2] \in UpTo(e[2]) /\ e[2] \notin UpTo(e[1])
    BY <2>1
  <2>4. UpTo(e[1]) # UpTo(e[2])
    BY <2>3
  <2>5. Cardinality(UpTo(e[1])) < Cardinality(UpTo(e[2]))
    <3> HIDE DEF UpTo
    <3> QED
      BY <1>1, <2>1, <2>2, <2>4, FS_Subset
  <2> QED
    BY <2>1, <2>5
<1> HIDE DEF position
<1> QED
  BY <1>2, <1>3 DEF SerialOrderExists
=============================================================================
