---------------------------- MODULE KVSiloProofs ----------------------------
(***************************************************************************)
(* Theorems about KVSilo, for every set of transactions, records and       *)
(* programs and every width of the two counters of a TID word: types,      *)
(* locks, what is installed, and serializability in the order in which the *)
(* transactions loaded the epoch, unless two epochs gave a record the same *)
(* tid.                                                                    *)
(***************************************************************************)
EXTENDS KVSilo, SerializabilityProofs, TLAPS

-----------------------------------------------------------------------------
(* Types                                                                   *)

LEMMA ChosenTidType ==
    ASSUME TypeOK, NEW t \in Txns
    PROVE  ChosenTid(t) \in Words
BY WordOperations DEF ChosenTid, TypeOK

\* Positions within the query and the write set while a label needs them.
CursorOK ==
    \A t \in Txns :
        /\ pc[t] \in {"readValue", "readCheck"} => op[t] \in DOMAIN prog[t]
        /\ pc[t] = "publish" => idx[t] \in DOMAIN wset[t]

TypeInv == TypeOK /\ CursorOK

LEMMA KeyOfType ==
    ASSUME TypeOK, NEW t \in Txns, op[t] \in DOMAIN prog[t]
    PROVE  KeyOf(t) \in Keys
<1>1. prog[t] \in Seq(Operations)
  BY KVSiloAssumption DEF TypeOK
<1>2. prog[t][op[t]] \in Operations
  BY <1>1
<1> QED
  BY <1>2 DEF KeyOf, Operations

LEMMA TypeInit == Init => TypeInv
<1> SUFFICES ASSUME Init PROVE TypeInv
  OBVIOUS
<1>1. TypeOK
  BY WordOperations, WidthAssumption, KVSiloAssumption
     DEF Init, TypeOK, Values, Epochs, Labels
<1>2. CursorOK
  BY DEF Init, CursorOK
<1> QED
  BY <1>1, <1>2 DEF TypeInv

LEMMA SortType ==
    ASSUME NEW q \in Seq(Keys), NEW s \in SortsOf(q)
    PROVE  s \in Seq(Keys) /\ Len(s) = Len(q)
BY DEF SortsOf

LEMMA TypeStep ==
    ASSUME TypeInv, Next
    PROVE  TypeInv'
<1> USE DEF TypeInv, shared, queries, locals, sets, tids, Goto, Labels
<1>1. CASE AdvanceEpoch
  <2>1. NextEpoch(E) \in Epochs
    BY WidthAssumption DEF TypeOK, NextEpoch, Epochs
  <2> QED
    BY <1>1, <2>1 DEF AdvanceEpoch, TypeOK, CursorOK
<1>2. ASSUME NEW t \in Txns, Step(t)
      PROVE  TypeInv'
  <2>1. CASE LoadBefore(t)
    <3>1. KeyOf(t) \in Keys
      BY <2>1, KeyOfType DEF LoadBefore, At, TypeOK
    <3> QED
      BY <2>1, <3>1 DEF LoadBefore, At, TypeOK, CursorOK
  <2>2. CASE LoadValue(t)
    <3>1. KeyOf(t) \in Keys
      BY <2>2, KeyOfType DEF LoadValue, CursorOK
    <3> QED
      BY <2>2, <3>1 DEF LoadValue, TypeOK, CursorOK
  <2>3. CASE LoadAfter(t)
    <3>1. KeyOf(t) \in Keys
      BY <2>3, KeyOfType DEF LoadAfter, CursorOK
    <3>2. CASE SameWord(before[t], word[KeyOf(t)])
      <4>1. [key |-> KeyOf(t), word |-> word[KeyOf(t)], from |-> data[t]]
              \in ReadElements
        BY <3>1, word[KeyOf(t)] \in Words, data[t] \in Values
           DEF TypeOK, ReadElements
      <4>2. rset' \in [Txns -> Seq(ReadElements)]
        <5>1. rset[t] \in Seq(ReadElements)
          BY DEF TypeOK
        <5>2. PICK r \in ReadElements : rset' = [rset EXCEPT ![t] = Append(@, r)]
          BY <2>3, <3>2, <4>1 DEF LoadAfter
        <5> QED
          BY <5>1, <5>2 DEF TypeOK
      <4>3. op' \in [Txns -> Nat \ {0}]
        <5>1. op' = [op EXCEPT ![t] = op[t] + 1]
          BY <2>3, <3>2 DEF LoadAfter
        <5> QED
          BY <5>1 DEF TypeOK
      <4>4. before' \in [Txns -> Words] /\ data' \in [Txns -> Values]
        BY <2>3, WordOperations DEF LoadAfter, TypeOK, Values
      <4> QED
        BY <2>3, <4>2, <4>3, <4>4 DEF LoadAfter, TypeOK, CursorOK
    <3>3. CASE ~ SameWord(before[t], word[KeyOf(t)])
      <4>1. before' \in [Txns -> Words] /\ data' \in [Txns -> Values]
        BY <2>3, WordOperations DEF LoadAfter, TypeOK, Values
      <4> QED
        BY <2>3, <3>3, <4>1 DEF LoadAfter, TypeOK, CursorOK
    <3> QED
      BY <3>2, <3>3
  <2>4. CASE Write(t)
    <3>1. KeyOf(t) \in Keys
      BY <2>4, KeyOfType, SMTT(30) DEF Write, At, TypeOK
    <3> QED
      BY <2>4, <3>1, SMTT(30) DEF Write, At, TypeOK, CursorOK
  <2>5. CASE Commit(t)
    <3>1. PICK s \in SortsOf(wset[t]) : wset' = [wset EXCEPT ![t] = s]
      BY <2>5 DEF Commit
    <3>2. s \in Seq(Keys)
      BY <3>1, SortType DEF TypeOK
    <3> QED
      BY <2>5, <3>1, <3>2 DEF Commit, TypeOK, CursorOK
  <2>6. CASE LockRecord(t)
    <3>1. wset[t][idx[t]] \in Keys
      BY <2>6 DEF LockRecord, TypeOK
    <3>2. word' \in [Keys -> Words] /\ maxWriteTid' \in [Txns -> Words]
      BY <2>6, <3>1, WordOperations DEF LockRecord, TypeOK
    <3> QED
      BY <2>6, <3>2 DEF LockRecord, TypeOK, CursorOK
  <2>7. CASE LoadEpoch(t)
    BY <2>7 DEF LoadEpoch, TypeOK, CursorOK
  <2>8. CASE ValidateRead(t)
    <3>1. rset[t][idx[t]] \in ReadElements
      BY <2>8 DEF ValidateRead, TypeOK
    <3>2. maxReadTid' \in [Txns -> Words]
      BY <2>8, <3>1, WordOperations DEF ValidateRead, TypeOK, ReadElements
    <3> QED
      BY <2>8, <3>2 DEF ValidateRead, TypeOK, CursorOK
  <2>9. CASE FailValidation(t)
    BY <2>9 DEF FailValidation, TypeOK, CursorOK
  <2>10. CASE Unlock(t)
    <3>1. wset[t][idx[t]] \in Keys
      BY <2>10 DEF Unlock, TypeOK
    <3>2. word' \in [Keys -> Words]
      BY <2>10, <3>1, WordOperations DEF Unlock, TypeOK
    <3> QED
      BY <2>10, <3>2 DEF Unlock, TypeOK, CursorOK
  <2>11. CASE Abort(t)
    BY <2>11 DEF Abort, TypeOK, CursorOK
  <2>12. CASE ChooseTid(t)
    <3>1. ChosenTid(t) \in Words
      BY ChosenTidType
    <3>2. Range(rset[t]) \subseteq ReadElements /\ Range(wset[t]) \subseteq Keys
      BY DEF TypeOK, Range
    <3>3. {[key |-> r.key, from |-> r.from] : r \in Range(rset[t])}
            \in SUBSET [key : Keys, from : Values]
      BY <3>2 DEF ReadElements
    <3>4. history' \subseteq Commits
      <4>1. CommitRecord(t) \in Commits
        BY <3>1, <3>2, <3>3 DEF CommitRecord, Commits
      <4> QED
        BY <2>12, <4>1 DEF ChooseTid, TypeOK
    <3> QED
      BY <2>12, <3>1, <3>4 DEF ChooseTid, TypeOK, CursorOK
  <2>13. CASE StoreValue(t)
    BY <2>13 DEF StoreValue, TypeOK, CursorOK, Values
  <2>14. CASE StoreTid(t)
    <3>1. wset[t][idx[t]] \in Keys
      BY <2>14 DEF StoreTid, TypeOK, CursorOK
    <3>2. word' \in [Keys -> Words]
      BY <2>14, <3>1 DEF StoreTid, TypeOK
    <3> QED
      BY <2>14, <3>2 DEF StoreTid, TypeOK, CursorOK
  <2>15. CASE Finish(t)
    BY <2>15 DEF Finish, TypeOK, CursorOK
  <2> QED
    BY <1>2, <2>1, <2>2, <2>3, <2>4, <2>5, <2>6, <2>7, <2>8, <2>9, <2>10,
       <2>11, <2>12, <2>13, <2>14, <2>15 DEF Step
<1> QED
  BY <1>1, <1>2 DEF Next

LEMMA TypeStutter ==
    ASSUME TypeInv, UNCHANGED vars
    PROVE  TypeInv'
BY DEF TypeInv, TypeOK, CursorOK, vars, shared, queries, locals, sets, tids

\* Every variable keeps the range of its C++ type, in particular the words of
\* the records and of RSet keep their counters within their bit fields.
THEOREM Typing == Spec => []TypeOK
<1>1. TypeInv /\ [Next]_vars => TypeInv'
  BY TypeStep, TypeStutter
<1>2. TypeInv => TypeOK
  BY DEF TypeInv
<1> QED
  BY TypeInit, <1>1, <1>2, PTL DEF Spec

-----------------------------------------------------------------------------
(* Locks                                                                   *)

\* A chosen TID is published unlocked.
ChosenUnlocked == \A t \in Txns : mostRecentlyChosenTid[t].lock = 0

LockInv == LocksExclusive /\ LockBitOwned /\ ChosenUnlocked

LEMMA LockInit == Init => LockInv
<1> SUFFICES ASSUME Init PROVE LockInv
  OBVIOUS
<1>1. \A t \in Txns : HeldPositions(t) = {}
  BY DEF Init, HeldPositions
<1> QED
  BY <1>1 DEF Init, LockInv, LocksExclusive, LockBitOwned, ChosenUnlocked, ZeroWord

\* Steps that move no lock keep the invariant.
LEMMA LockFrame ==
    ASSUME LocksExclusive, LockBitOwned,
           \A u \in Txns : /\ HeldPositions(u)' = HeldPositions(u)
                           /\ \A i \in HeldPositions(u) : wset'[u][i] = wset[u][i],
           \A k \in Keys : word'[k].lock = word[k].lock
    PROVE  LocksExclusive' /\ LockBitOwned'
<1>1. LocksExclusive'
  BY DEF LocksExclusive
<1>2. LockBitOwned'
  BY DEF LockBitOwned
<1> QED
  BY <1>1, <1>2

\* The transaction t gives back the record k at its position i.
LEMMA LockRelease ==
    ASSUME TypeOK, LocksExclusive, LockBitOwned,
           NEW t \in Txns, NEW i \in HeldPositions(t),
           wset' = wset,
           \A u \in Txns \ {t} : HeldPositions(u)' = HeldPositions(u),
           HeldPositions(t)' = HeldPositions(t) \ {i},
           word'[wset[t][i]].lock = 0,
           \A k \in Keys \ {wset[t][i]} : word'[k] = word[k]
    PROVE  LocksExclusive' /\ LockBitOwned'
<1>1. \A u \in Txns : HeldPositions(u)' \subseteq HeldPositions(u)
  OBVIOUS
<1>2. LocksExclusive'
  BY <1>1 DEF LocksExclusive
<1>3. ASSUME NEW u \in Txns, NEW j \in HeldPositions(u)'
      PROVE  wset[u][j] # wset[t][i]
  BY <1>1 DEF LocksExclusive
<1>4. ASSUME NEW k \in Keys
      PROVE  word'[k].lock = 1 <=>
               \E u \in Txns : \E j \in HeldPositions(u)' : wset'[u][j] = k
  <2>1. CASE k = wset[t][i]
    BY <2>1, <1>3
  <2>2. CASE k # wset[t][i]
    BY <2>2, <1>1 DEF LockBitOwned
  <2> QED
    BY <2>1, <2>2
<1>5. LockBitOwned'
  BY <1>4 DEF LockBitOwned
<1> QED
  BY <1>2, <1>5

LEMMA LockStep ==
    ASSUME TypeInv, LockInv, Next
    PROVE  LockInv'
<1> USE DEF TypeInv, LockInv, shared, queries, locals, sets, tids, Goto
<1>1. CASE AdvanceEpoch
  <2>1. \A u \in Txns : HeldPositions(u)' = HeldPositions(u)
    BY <1>1 DEF AdvanceEpoch, HeldPositions
  <2>2. LocksExclusive' /\ LockBitOwned'
    BY <1>1, <2>1, LockFrame DEF AdvanceEpoch
  <2> QED
    BY <1>1, <2>2 DEF AdvanceEpoch, ChosenUnlocked
<1>2. ASSUME NEW t \in Txns, Step(t)
      PROVE  LockInv'
  <2>0. /\ pc \in [Txns -> Labels] /\ idx \in [Txns -> Nat \ {0}]
        /\ wset \in [Txns -> Seq(Keys)]
        /\ mostRecentlyChosenTid \in [Txns -> Words]
        /\ word \in [Keys -> Words]
    BY DEF TypeOK
  <2>1. CASE \/ LoadBefore(t) \/ LoadValue(t) \/ LoadAfter(t)
             \/ Write(t) \/ Commit(t)
    <3>1. \A u \in Txns : HeldPositions(u)' = HeldPositions(u)
      <4>1. /\ pc[t] \in {"query", "readValue", "readCheck"}
            /\ pc'[t] \in {"query", "readValue", "readCheck", "lock"}
            /\ pc'[t] = "lock" => idx'[t] = 1
            /\ \A u \in Txns \ {t} : /\ pc'[u] = pc[u] /\ idx'[u] = idx[u]
                                     /\ wset'[u] = wset[u]
        BY <2>0, <2>1 DEF LoadBefore, LoadValue, LoadAfter, Write, Commit, At
      <4>2. HeldPositions(t) = {} /\ HeldPositions(t)' = {}
        BY <4>1 DEF HeldPositions
      <4> QED
        BY <4>1, <4>2 DEF HeldPositions
    <3>2. \A u \in Txns : \A i \in HeldPositions(u) : wset'[u][i] = wset[u][i]
      <4>1. HeldPositions(t) = {}
        BY <2>1 DEF HeldPositions, LoadBefore, LoadValue, LoadAfter, Write, Commit, At
      <4>2. \A u \in Txns \ {t} : wset'[u] = wset[u]
        BY <2>0, <2>1 DEF LoadBefore, LoadValue, LoadAfter, Write, Commit
      <4> QED
        BY <4>1, <4>2
    <3>3. word' = word /\ mostRecentlyChosenTid' = mostRecentlyChosenTid
      BY <2>1 DEF LoadBefore, LoadValue, LoadAfter, Write, Commit
    <3>4. LocksExclusive' /\ LockBitOwned'
      BY <3>1, <3>2, <3>3, LockFrame
    <3> QED
      BY <3>3, <3>4 DEF ChosenUnlocked
  <2>2. CASE LockRecord(t)
    <3> DEFINE k == wset[t][idx[t]]
    <3>1. /\ k \in Keys /\ word[k].lock = 0 /\ idx[t] \in DOMAIN wset[t]
          /\ wset' = wset
      BY <2>0, <2>2 DEF LockRecord, CanLock
    <3>2. /\ word'[k].lock = 1
          /\ \A l \in Keys \ {k} : word'[l] = word[l]
      BY <2>0, <2>2, <3>1 DEF LockRecord, Locked, Words
    <3>3. HeldPositions(t)' = HeldPositions(t) \cup {idx[t]}
      BY <2>0, <2>2, <3>1 DEF LockRecord, HeldPositions
    <3>4. \A u \in Txns \ {t} : HeldPositions(u)' = HeldPositions(u)
      BY <2>0, <2>2 DEF LockRecord, HeldPositions
    <3>5. \A u \in Txns : \A i \in HeldPositions(u) : wset[u][i] # k
      BY <3>1 DEF LockBitOwned
    <3>6. LocksExclusive'
      BY <3>1, <3>3, <3>4, <3>5 DEF LocksExclusive
    <3>7. LockBitOwned'
      <4> SUFFICES ASSUME NEW l \in Keys
                   PROVE  word'[l].lock = 1 <=>
                     \E u \in Txns : \E i \in HeldPositions(u)' : wset'[u][i] = l
        BY DEF LockBitOwned
      <4>1. CASE l = k
        BY <4>1, <3>1, <3>2, <3>3
      <4>2. CASE l # k
        BY <4>2, <3>1, <3>2, <3>3, <3>4 DEF LockBitOwned
      <4> QED
        BY <4>1, <4>2
    <3> QED
      BY <2>2, <3>6, <3>7 DEF LockRecord, ChosenUnlocked
  <2>3. CASE \/ LoadEpoch(t) \/ ValidateRead(t) \/ FailValidation(t)
             \/ Abort(t) \/ StoreValue(t)
    <3>1. word' = word /\ mostRecentlyChosenTid' = mostRecentlyChosenTid
          /\ wset' = wset
      BY <2>3 DEF LoadEpoch, ValidateRead, FailValidation, Abort, StoreValue
    <3>2. \A u \in Txns \ {t} : HeldPositions(u)' = HeldPositions(u)
      BY <2>0, <2>3 DEF LoadEpoch, ValidateRead, FailValidation, Abort,
                        StoreValue, HeldPositions
    <3>3. HeldPositions(t)' = HeldPositions(t)
      BY <2>0, <2>3 DEF LoadEpoch, ValidateRead, FailValidation, Abort,
                        StoreValue, HeldPositions
    <3>4. LocksExclusive' /\ LockBitOwned'
      BY <3>1, <3>2, <3>3, LockFrame
    <3> QED
      BY <3>1, <3>4 DEF ChosenUnlocked
  <2>4. CASE Unlock(t)
    <3>1. idx[t] \in HeldPositions(t) /\ wset[t][idx[t]] \in Keys
      BY <2>0, <2>4 DEF Unlock, HeldPositions
    <3>2. /\ word'[wset[t][idx[t]]].lock = 0
          /\ \A l \in Keys \ {wset[t][idx[t]]} : word'[l] = word[l]
          /\ wset' = wset
      BY <2>0, <2>4, <3>1 DEF Unlock, Unlocked, Words
    <3>3. HeldPositions(t)' = HeldPositions(t) \ {idx[t]}
      BY <2>0, <2>4 DEF Unlock, HeldPositions
    <3>4. \A u \in Txns \ {t} : HeldPositions(u)' = HeldPositions(u)
      BY <2>0, <2>4 DEF Unlock, HeldPositions
    <3>5. LocksExclusive' /\ LockBitOwned'
      BY <3>1, <3>2, <3>3, <3>4, LockRelease
    <3> QED
      BY <2>4, <3>5 DEF Unlock, ChosenUnlocked
  <2>5. CASE ChooseTid(t)
    <3>1. word' = word /\ wset' = wset
      BY <2>5 DEF ChooseTid
    <3>2. \A u \in Txns : HeldPositions(u)' = HeldPositions(u)
      BY <2>0, <2>5 DEF ChooseTid, HeldPositions
    <3>3. LocksExclusive' /\ LockBitOwned'
      BY <3>1, <3>2, LockFrame
    <3>4. ChosenTid(t).lock = 0
      <4>1. \A w \in Words : Unlocked(w).lock = 0
        BY DEF Unlocked, Words
      <4>2. PICK w \in Words : ChosenTid(t) = Unlocked(w)
        BY WordOperations DEF ChosenTid, TypeOK
      <4> QED
        BY <4>1, <4>2
    <3> QED
      BY <2>0, <2>5, <3>3, <3>4 DEF ChooseTid, ChosenUnlocked
  <2>6. CASE StoreTid(t)
    <3>1. idx[t] \in HeldPositions(t) /\ wset[t][idx[t]] \in Keys
      BY <2>0, <2>6 DEF StoreTid, HeldPositions, CursorOK
    <3>2. /\ word'[wset[t][idx[t]]].lock = 0
          /\ \A l \in Keys \ {wset[t][idx[t]]} : word'[l] = word[l]
          /\ wset' = wset
      BY <2>0, <2>6, <3>1 DEF StoreTid, ChosenUnlocked
    <3>3. HeldPositions(t)' = HeldPositions(t) \ {idx[t]}
      BY <2>0, <2>6 DEF StoreTid, HeldPositions
    <3>4. \A u \in Txns \ {t} : HeldPositions(u)' = HeldPositions(u)
      BY <2>0, <2>6 DEF StoreTid, HeldPositions
    <3>5. LocksExclusive' /\ LockBitOwned'
      BY <3>1, <3>2, <3>3, <3>4, LockRelease
    <3> QED
      BY <2>6, <3>5 DEF StoreTid, ChosenUnlocked
  <2>7. CASE Finish(t)
    <3>1. word' = word /\ mostRecentlyChosenTid' = mostRecentlyChosenTid
      BY <2>7 DEF Finish
    <3>2. \A u \in Txns \ {t} : /\ HeldPositions(u)' = HeldPositions(u)
                                /\ wset'[u] = wset[u]
      BY <2>0, <2>7 DEF Finish, HeldPositions
    <3>3. HeldPositions(t) = {} /\ HeldPositions(t)' = {}
      BY <2>0, <2>7 DEF Finish, HeldPositions
    <3>4. LocksExclusive' /\ LockBitOwned'
      BY <3>1, <3>2, <3>3, LockFrame
    <3> QED
      BY <3>1, <3>4 DEF ChosenUnlocked
  <2> QED
    BY <1>2, <2>1, <2>2, <2>3, <2>4, <2>5, <2>6, <2>7 DEF Step
<1> QED
  BY <1>1, <1>2 DEF Next

LEMMA LockStutter ==
    ASSUME LockInv, UNCHANGED vars
    PROVE  LockInv'
BY DEF LockInv, LocksExclusive, LockBitOwned, ChosenUnlocked, HeldPositions,
       vars, shared, queries, locals, sets, tids

LEMMA Locking == Spec => [](TypeInv /\ LockInv)
<1>1. TypeInv /\ LockInv /\ [Next]_vars => (TypeInv /\ LockInv)'
  BY TypeStep, TypeStutter, LockStep, LockStutter
<1> QED
  BY TypeInit, LockInit, <1>1, PTL DEF Spec

\* commit(): the lock bit of a record is set exactly while one transaction,
\* for one of its writes, holds it: none is leaked, whatever the way out.
THEOREM LocksHaveOneOwner == Spec => []LocksOwned
<1>1. LockInv => LocksOwned
  BY DEF LockInv, LocksOwned
<1> QED
  BY Locking, <1>1, PTL

-----------------------------------------------------------------------------
(* Waiting                                                                 *)

\* A write set is sorted while it is locked.
LockOrder == \A t \in Txns : pc[t] = "lock" => Ascending(wset[t])

LEMMA LockOrderStep ==
    ASSUME TypeInv, LockOrder, [Next]_vars
    PROVE  LockOrder'
<1> USE DEF shared, queries, locals, sets, tids, Goto
<1>0. /\ pc \in [Txns -> Labels] /\ wset \in [Txns -> Seq(Keys)]
  BY DEF TypeInv, TypeOK
<1>1. ASSUME NEW t \in Txns, Step(t)
      PROVE  LockOrder'
  <2>1. CASE Commit(t)
    <3>1. PICK s \in SortsOf(wset[t]) : wset' = [wset EXCEPT ![t] = s]
      BY <2>1 DEF Commit
    <3>2. Ascending(wset'[t])
      BY <1>0, <3>1 DEF SortsOf
    <3>3. \A u \in Txns \ {t} : pc'[u] = pc[u] /\ wset'[u] = wset[u]
      BY <1>0, <2>1, <3>1 DEF Commit
    <3> QED
      BY <3>2, <3>3 DEF LockOrder
  <2>2. CASE LoadBefore(t) \/ LoadValue(t) \/ LoadAfter(t) \/ Write(t)
    <3>1. pc'[t] # "lock" /\ \A u \in Txns \ {t} : pc'[u] = pc[u] /\ wset'[u] = wset[u]
      BY <1>0, <2>2 DEF LoadBefore, LoadValue, LoadAfter, Write, At
    <3> QED
      BY <3>1 DEF LockOrder
  <2>3. CASE LockRecord(t) \/ LoadEpoch(t) \/ ValidateRead(t) \/ FailValidation(t)
    <3>1. wset' = wset /\ \A u \in Txns : pc'[u] = "lock" => pc[u] = "lock"
      BY <1>0, <2>3 DEF LockRecord, LoadEpoch, ValidateRead, FailValidation
    <3> QED
      BY <3>1 DEF LockOrder
  <2>4. CASE Unlock(t) \/ Abort(t) \/ ChooseTid(t) \/ StoreValue(t) \/ StoreTid(t)
    <3>1. wset' = wset /\ \A u \in Txns : pc'[u] = "lock" => pc[u] = "lock"
      BY <1>0, <2>4 DEF Unlock, Abort, ChooseTid, StoreValue, StoreTid
    <3> QED
      BY <3>1 DEF LockOrder
  <2>5. CASE Finish(t)
    <3>1. pc'[t] # "lock" /\ \A u \in Txns \ {t} : pc'[u] = pc[u] /\ wset'[u] = wset[u]
      BY <1>0, <2>5 DEF Finish
    <3> QED
      BY <3>1 DEF LockOrder
  <2> QED
    BY <1>1, <2>1, <2>2, <2>3, <2>4, <2>5 DEF Step
<1>2. CASE AdvanceEpoch \/ UNCHANGED vars
  BY <1>2 DEF AdvanceEpoch, vars, LockOrder
<1> QED
  BY <1>1, <1>2 DEF Next

\* Who waits for a transaction that is waiting itself wants an earlier record:
\* what is held in commit() is before what is waited for.
LEMMA WaitsUpwards ==
    ASSUME TypeOK, LocksExclusive, LockOrder,
           NEW t \in Txns, NEW u \in Txns, NEW v \in Txns, v # u,
           WaitsFor(t, u), WaitsFor(u, v)
    PROVE  /\ pc[u] = "lock" /\ idx[u] \in DOMAIN wset[u]
           /\ pc[t] = "lock" => wset[t][idx[t]] < wset[u][idx[u]]
<1>0. /\ wset[u] \in Seq(Keys) /\ idx[u] \in Nat \ {0} /\ Keys \subseteq Nat
  BY KVSiloAssumption DEF TypeOK
<1>1. PICK i \in HeldPositions(u) :
            \/ At(t, "read") /\ wset[u][i] = KeyOf(t)
            \/ pc[t] = "lock" /\ wset[u][i] = wset[t][idx[t]]
  BY DEF WaitsFor
<1>2. PICK j \in HeldPositions(v) :
            \/ At(u, "read") /\ wset[v][j] = KeyOf(u)
            \/ pc[u] = "lock" /\ idx[u] <= Len(wset[u]) /\ wset[v][j] = wset[u][idx[u]]
  BY DEF WaitsFor
<1>3. pc[u] # "query"
  BY <1>1 DEF HeldPositions
<1>4. pc[u] = "lock" /\ idx[u] <= Len(wset[u]) /\ wset[v][j] = wset[u][idx[u]]
  BY <1>2, <1>3 DEF At
<1>5. i \in DOMAIN wset[u] /\ idx[u] \in DOMAIN wset[u] /\ i < idx[u]
  BY <1>0, <1>1, <1>4 DEF HeldPositions
<1>6. wset[u][i] <= wset[u][idx[u]]
  BY <1>4, <1>5 DEF LockOrder, Ascending
<1>7. wset[u][i] # wset[u][idx[u]]
  BY <1>1, <1>2, <1>4 DEF LocksExclusive
<1>8. \A n \in DOMAIN wset[u] : wset[u][n] \in Nat
  <2>1. \A n \in DOMAIN wset[u] : wset[u][n] \in Keys
    BY <1>0
  <2> QED
    BY <1>0, <2>1
<1>9. wset[u][i] < wset[u][idx[u]]
  BY <1>5, <1>6, <1>7, <1>8
<1>10. pc[t] = "lock" => wset[u][i] = wset[t][idx[t]]
  BY <1>1 DEF At
<1> QED
  BY <1>4, <1>5, <1>9, <1>10

\* So of transactions that all wait for each other, the one that wants the last
\* record would wait for one that wants a later one.
LEMMA WaitsAcyclic ==
    ASSUME TypeOK, LocksExclusive, LockOrder
    PROVE  NoWaitCycle
<1> SUFFICES ASSUME NEW S \in (SUBSET Txns) \ {{}},
                    ~ \E t \in S : \A u \in S \ {t} : ~ WaitsFor(t, u)
             PROVE  FALSE
  BY DEF NoWaitCycle
<1> DEFINE Wanting == {u \in S : pc[u] = "lock" /\ idx[u] \in DOMAIN wset[u]}
           wanted == [u \in Wanting |-> wset[u][idx[u]]]
<1>1. ASSUME NEW t \in S, NEW u \in S, WaitsFor(t, u)
      PROVE  /\ u \in Wanting
             /\ t \in Wanting => wanted[t] < wanted[u]
  <2>1. PICK v \in S \ {u} : WaitsFor(u, v)
    OBVIOUS
  <2> QED
    BY <1>1, <2>1, WaitsUpwards
<1>2. Wanting # {}
  <2>1. PICK t : t \in S
    OBVIOUS
  <2>2. PICK u \in S : WaitsFor(t, u)
    BY <2>1
  <2> QED
    BY <1>1, <2>2
<1>3. IsFiniteSet(Wanting)
  BY FS_Subset, KVSiloAssumption
<1>4. wanted \in [Wanting -> Nat]
  <2> SUFFICES ASSUME NEW u \in Wanting PROVE wset[u][idx[u]] \in Nat
    OBVIOUS
  <2>1. wset[u][idx[u]] \in Keys
    BY DEF TypeOK
  <2> QED
    BY <2>1, KVSiloAssumption
<1>5. PICK t \in Wanting : \A u \in Wanting : wanted[u] <= wanted[t]
  <2> HIDE DEF Wanting, wanted
  <2> QED
    BY <1>2, <1>3, <1>4, Greatest
<1>6. PICK u \in S : WaitsFor(t, u)
  OBVIOUS
<1>7. u \in Wanting /\ wanted[t] < wanted[u]
  BY <1>1, <1>6
<1>8. wanted[u] <= wanted[t]
  BY <1>5, <1>7
<1>9. wanted[t] \in Nat /\ wanted[u] \in Nat
  <2> HIDE DEF wanted
  <2> QED
    BY <1>4, <1>7
<1> QED
  BY <1>7, <1>8, <1>9

LEMMA Waiting == Spec => [](TypeInv /\ LockInv /\ LockOrder)
<1>1. Init => LockOrder
  BY DEF Init, LockOrder
<1>2. (TypeInv /\ LockInv) /\ LockOrder /\ [Next]_vars => LockOrder'
  BY LockOrderStep
<1> QED
  BY <1>1, <1>2, Locking, PTL DEF Spec

\* The elements of q are n of the writes of p, each at its own place.
Traced(q, p, n) ==
    \E f \in [DOMAIN q -> 1 .. n] :
        /\ \A i, j \in DOMAIN q : f[i] = f[j] => i = j
        /\ \A i \in DOMAIN q : f[i] \in DOMAIN p /\ p[f[i]].op = "write" /\ p[f[i]].key = q[i]

\* WSet has the writes of the query so far.
WritesInv == \A t \in Txns : Traced(wset[t], prog[t], op[t] - 1)

LEMMA TracedAppend ==
    ASSUME NEW q \in Seq(Keys), NEW p \in Seq(Operations), NEW n \in Nat \ {0}, n \in DOMAIN p,
           p[n].op = "write", Traced(q, p, n - 1)
    PROVE  Traced(Append(q, p[n].key), p, n)
<1>1. PICK f \in [DOMAIN q -> 1 .. (n - 1)] :
            /\ \A i, j \in DOMAIN q : f[i] = f[j] => i = j
            /\ \A i \in DOMAIN q : f[i] \in DOMAIN p /\ p[f[i]].op = "write"
                                                     /\ p[f[i]].key = q[i]
  BY DEF Traced
<1> DEFINE r == Append(q, p[n].key)
           g == [i \in DOMAIN r |-> IF i \in DOMAIN q THEN f[i] ELSE n]
<1>2. /\ DOMAIN r = DOMAIN q \cup {Len(q) + 1} /\ Len(q) + 1 \notin DOMAIN q
      /\ \A i \in DOMAIN q : r[i] = q[i]
      /\ r[Len(q) + 1] = p[n].key
  OBVIOUS
<1> HIDE DEF r
<1>3. g \in [DOMAIN r -> 1 .. n]
  BY <1>1, <1>2
<1>4. ASSUME NEW i \in DOMAIN r, NEW j \in DOMAIN r, g[i] = g[j] PROVE i = j
  <2>1. \A k \in DOMAIN q : f[k] # n
    BY <1>1
  <2> QED
    BY <1>1, <1>2, <1>4, <2>1
<1>5. \A i \in DOMAIN r : g[i] \in DOMAIN p /\ p[g[i]].op = "write" /\ p[g[i]].key = r[i]
  BY <1>1, <1>2
<1> HIDE DEF g
<1>6. Traced(r, p, n)
  BY <1>3, <1>4, <1>5 DEF Traced
<1> QED
  BY <1>6 DEF r

LEMMA TracedSort ==
    ASSUME NEW q \in Seq(Keys), NEW p, NEW n, Traced(q, p, n), NEW s \in SortsOf(q)
    PROVE  Traced(s, p, n)
<1>1. PICK f \in [DOMAIN q -> 1 .. n] :
            /\ \A i, j \in DOMAIN q : f[i] = f[j] => i = j
            /\ \A i \in DOMAIN q : f[i] \in DOMAIN p /\ p[f[i]].op = "write"
                                                     /\ p[f[i]].key = q[i]
  BY DEF Traced
<1>2. PICK m \in Bijection(DOMAIN q, DOMAIN q) : \A i \in DOMAIN q : s[i] = q[m[i]]
  BY DEF SortsOf
<1>3. /\ DOMAIN s = DOMAIN q /\ m \in [DOMAIN q -> DOMAIN q]
      /\ \A i, j \in DOMAIN q : m[i] = m[j] => i = j
  BY DEF SortsOf, Bijection, Injection, IsInjective
<1> DEFINE g == [i \in DOMAIN s |-> f[m[i]]]
<1>4. g \in [DOMAIN s -> 1 .. n]
  BY <1>3
<1>5. \A i, j \in DOMAIN s : g[i] = g[j] => i = j
  BY <1>1, <1>3
<1>6. \A i \in DOMAIN s : g[i] \in DOMAIN p /\ p[g[i]].op = "write" /\ p[g[i]].key = s[i]
  BY <1>1, <1>2, <1>3
<1> QED
  BY <1>4, <1>5, <1>6 DEF Traced

LEMMA WritesStep ==
    ASSUME TypeInv, WritesInv, [Next]_vars
    PROVE  WritesInv'
<1> USE DEF shared, queries, locals, sets, tids, Goto
<1>0. /\ wset \in [Txns -> Seq(Keys)] /\ op \in [Txns -> Nat \ {0}]
      /\ \A t \in Txns : prog[t] \in Seq(Operations)
  BY KVSiloAssumption DEF TypeInv, TypeOK
<1>1. ASSUME NEW t \in Txns, Step(t)
      PROVE  WritesInv'
  <2>1. prog' = prog
    BY <1>1 DEF Step, LoadBefore, LoadValue, LoadAfter, Write, Commit, LockRecord, LoadEpoch,
       ValidateRead, FailValidation, Unlock, Abort, ChooseTid, StoreValue, StoreTid, Finish
  <2>2. ASSUME Traced(wset'[t], prog[t], op'[t] - 1),
               \A u \in Txns \ {t} : wset'[u] = wset[u] /\ op'[u] = op[u]
        PROVE  WritesInv'
    BY <2>1, <2>2 DEF WritesInv
  <2>3. CASE LoadAfter(t)
    <3>1. /\ wset' = wset /\ op'[t] \in {op[t], op[t] + 1}
          /\ \A u \in Txns \ {t} : op'[u] = op[u]
      BY <1>0, <2>3 DEF LoadAfter
    <3>2. 1 .. (op[t] - 1) \subseteq 1 .. (op'[t] - 1)
      BY <1>0, <3>1
    <3>3. Traced(wset[t], prog[t], op'[t] - 1)
      <4>1. [DOMAIN wset[t] -> 1 .. (op[t] - 1)] \subseteq [DOMAIN wset[t] -> 1 .. (op'[t] - 1)]
        BY <3>2
      <4> QED
        BY <4>1 DEF WritesInv, Traced
    <3> QED
      BY <2>2, <3>1, <3>3
  <2>4. CASE Write(t)
    <3>1. /\ op[t] \in DOMAIN prog[t] /\ prog[t][op[t]].op = "write"
          /\ wset'[t] = Append(wset[t], prog[t][op[t]].key)
          /\ op'[t] = op[t] + 1
          /\ \A u \in Txns \ {t} : wset'[u] = wset[u] /\ op'[u] = op[u]
      BY <1>0, <2>4 DEF Write, At, KeyOf
    <3>2. Traced(wset'[t], prog[t], op[t])
      BY <1>0, <3>1, TracedAppend DEF WritesInv
    <3>3. op'[t] - 1 = op[t]
      BY <1>0, <3>1
    <3> QED
      BY <2>2, <3>1, <3>2, <3>3
  <2>5. CASE Commit(t)
    <3>1. PICK s \in SortsOf(wset[t]) : wset' = [wset EXCEPT ![t] = s]
      BY <2>5 DEF Commit
    <3>2. wset'[t] = s /\ op' = op /\ \A u \in Txns \ {t} : wset'[u] = wset[u]
      BY <1>0, <2>5, <3>1 DEF Commit
    <3>3. Traced(s, prog[t], op[t] - 1)
      BY <1>0, <3>1, TracedSort DEF WritesInv
    <3> QED
      BY <2>2, <3>2, <3>3
  <2>6. CASE Finish(t)
    <3>1. wset'[t] = <<>> /\ op' = op /\ \A u \in Txns \ {t} : wset'[u] = wset[u]
      BY <1>0, <2>6 DEF Finish
    <3>2. Traced(<<>>, prog[t], op[t] - 1)
      <4>1. <<>> \in [DOMAIN <<>> -> 1 .. (op[t] - 1)] /\ DOMAIN <<>> = {}
        OBVIOUS
      <4> QED
        BY <4>1 DEF Traced
    <3> QED
      BY <2>2, <3>1, <3>2
  <2>7. CASE ~ (LoadAfter(t) \/ Write(t) \/ Commit(t) \/ Finish(t))
    <3>1. wset' = wset /\ op' = op
      BY <1>1, <2>7 DEF Step, LoadBefore, LoadValue, LockRecord, LoadEpoch, ValidateRead,
         FailValidation, Unlock, Abort, ChooseTid, StoreValue, StoreTid
    <3> QED
      BY <2>1, <3>1 DEF WritesInv
  <2> QED
    BY <2>3, <2>4, <2>5, <2>6, <2>7
<1>2. CASE AdvanceEpoch \/ UNCHANGED vars
  BY <1>2 DEF AdvanceEpoch, vars, WritesInv
<1> QED
  BY <1>1, <1>2 DEF Next

\* A query writes no record twice.
WritesOnce ==
    \A p \in Programs : \A i, j \in DOMAIN p :
        p[i].op = "write" /\ p[j].op = "write" /\ p[i].key = p[j].key => i = j

\* Such a query does not wait for itself.
LEMMA NoSelfWait ==
    ASSUME WritesOnce, TypeOK, WritesInv, NEW t \in Txns
    PROVE  ~ WaitsFor(t, t)
<1> SUFFICES ASSUME WaitsFor(t, t) PROVE FALSE
  OBVIOUS
<1>1. PICK i \in HeldPositions(t) :
            \/ pc[t] = "query"
            \/ pc[t] = "lock" /\ idx[t] <= Len(wset[t]) /\ wset[t][i] = wset[t][idx[t]]
  BY DEF WaitsFor, At
<1>2. pc[t] = "lock" /\ i < idx[t] /\ i \in 1 .. Len(wset[t])
  BY <1>1 DEF HeldPositions
<1>3. wset[t] \in Seq(Keys) /\ idx[t] \in Nat \ {0} /\ prog[t] \in Programs
  BY DEF TypeOK
<1>4. i \in DOMAIN wset[t] /\ idx[t] \in DOMAIN wset[t] /\ wset[t][i] = wset[t][idx[t]] /\ i # idx[t]
  BY <1>1, <1>2, <1>3
<1>5. PICK f \in [DOMAIN wset[t] -> 1 .. (op[t] - 1)] :
            /\ \A m, j \in DOMAIN wset[t] : f[m] = f[j] => m = j
            /\ \A m \in DOMAIN wset[t] : f[m] \in DOMAIN prog[t] /\ prog[t][f[m]].op = "write"
                                                /\ prog[t][f[m]].key = wset[t][m]
  BY DEF WritesInv, Traced
<1>6. \A x, y \in DOMAIN prog[t] :
          prog[t][x].op = "write" /\ prog[t][y].op = "write" /\ prog[t][x].key = prog[t][y].key
          => x = y
  BY <1>3 DEF WritesOnce
<1>7. f[i] = f[idx[t]]
  BY <1>4, <1>5, <1>6
<1> QED
  BY <1>4, <1>5, <1>7

\* The next step of t is an iteration of a spin loop.
Spinning(t) ==
    \/ At(t, "read") /\ word[KeyOf(t)].lock = 1
    \/ pc[t] = "lock" /\ idx[t] <= Len(wset[t]) /\ word[wset[t][idx[t]]].lock = 1

\* Who spins waits for somebody who has not finished.
LEMMA SpinsWait ==
    ASSUME TypeInv, LockBitOwned, NEW t \in Txns, Spinning(t)
    PROVE  \E u \in Txns : pc[u] \notin Finished /\ WaitsFor(t, u)
<1>1. PICK k \in Keys : /\ word[k].lock = 1
                        /\ \/ At(t, "read") /\ k = KeyOf(t)
                           \/ pc[t] = "lock" /\ idx[t] <= Len(wset[t]) /\ k = wset[t][idx[t]]
  <2>1. CASE At(t, "read") /\ word[KeyOf(t)].lock = 1
    <3>1. op[t] \in DOMAIN prog[t]
      BY <2>1, KVSiloAssumption DEF At, TypeInv, TypeOK
    <3> QED
      BY <2>1, <3>1, KeyOfType DEF TypeInv
  <2>2. CASE pc[t] = "lock" /\ idx[t] <= Len(wset[t]) /\ word[wset[t][idx[t]]].lock = 1
    BY <2>2 DEF TypeInv, TypeOK
  <2> QED
    BY <2>1, <2>2 DEF Spinning
<1>2. PICK u \in Txns : \E i \in HeldPositions(u) : wset[u][i] = k
  BY <1>1 DEF LockBitOwned
<1>3. WaitsFor(t, u)
  BY <1>1, <1>2 DEF WaitsFor
<1>4. pc[u] \notin Finished
  BY <1>2 DEF HeldPositions, Finished
<1> QED
  BY <1>3, <1>4

\* lockWSet() locks in address order: transactions never wait for each other
\* in a circle, nor does a reader in read() ever stand in one.
THEOREM WaitsEnd == Spec => []NoWaitCycle
<1>1. TypeInv /\ LockInv /\ LockOrder => NoWaitCycle
  BY WaitsAcyclic DEF TypeInv, LockInv
<1> QED
  BY Waiting, <1>1, PTL

\* The database never comes to a standstill: if no query writes a record twice,
\* then as long as one has not ended, some query that has not ended has a next
\* step that is no turn of a spin loop.
THEOREM SomeoneProceeds ==
    ASSUME WritesOnce
    PROVE  Spec => []((\E t \in Txns : pc[t] \notin Finished)
                      => \E t \in Txns : pc[t] \notin Finished /\ ~ Spinning(t))
<1> DEFINE Going == {t \in Txns : pc[t] \notin Finished}
<1>1. ASSUME TypeInv, LockInv, LockOrder, WritesInv, Going # {}
      PROVE  \E t \in Going : ~ Spinning(t)
  <2>1. NoWaitCycle
    BY <1>1, WaitsAcyclic DEF TypeInv, LockInv
  <2>2. PICK t \in Going : \A u \in Going \ {t} : ~ WaitsFor(t, u)
    BY <1>1, <2>1 DEF NoWaitCycle
  <2>3. ~ WaitsFor(t, t)
    BY <1>1, NoSelfWait DEF TypeInv
  <2> QED
    BY <1>1, <2>2, <2>3, SpinsWait DEF LockInv
<1>2. Init => WritesInv
  <2> SUFFICES ASSUME Init, NEW t \in Txns PROVE Traced(<<>>, prog[t], 0)
    BY DEF Init, WritesInv
  <2>1. <<>> \in [DOMAIN <<>> -> 1 .. 0] /\ DOMAIN <<>> = {}
    OBVIOUS
  <2> QED
    BY <2>1 DEF Traced
<1>3. Spec => []WritesInv
  <2>1. TypeInv /\ WritesInv /\ [Next]_vars => WritesInv'
    BY WritesStep
  <2>2. Spec => []TypeInv
    BY Waiting, PTL
  <2> QED
    BY <1>2, <2>1, <2>2, PTL DEF Spec
<1>4. TypeInv /\ LockInv /\ LockOrder /\ WritesInv
      => ((\E t \in Txns : pc[t] \notin Finished)
          => \E t \in Txns : pc[t] \notin Finished /\ ~ Spinning(t))
  BY <1>1
<1> QED
  BY <1>3, <1>4, Waiting, PTL

-----------------------------------------------------------------------------
(* The tid field does not wrap.                                            *)

Chosen == {t \in Txns : pc[t] \in {"install", "publish", "committed"}}

\* No tid exceeds the number of transactions that chose one.
TidBound ==
    /\ \A k \in Keys : word[k].tid <= Cardinality(Chosen)
    /\ \A t \in Txns : /\ maxWriteTid[t].tid <= Cardinality(Chosen)
                       /\ maxReadTid[t].tid <= Cardinality(Chosen)
                       /\ mostRecentlyChosenTid[t].tid <= Cardinality(Chosen)

LEMMA ChosenCardinality ==
    Cardinality(Chosen) \in Nat /\ Cardinality(Chosen) < TidMod
<1>1. IsFiniteSet(Txns) /\ Chosen \subseteq Txns
  BY KVSiloAssumption DEF Chosen
<1>2. IsFiniteSet(Chosen) /\ Cardinality(Chosen) <= Cardinality(Txns)
  BY <1>1, FS_Subset
<1>3. Cardinality(Chosen) \in Nat /\ Cardinality(Txns) \in Nat
  BY <1>1, <1>2, FS_CardinalityType
<1> QED
  BY <1>2, <1>3, NoTidWrap, WidthAssumption

\* A transaction that has still to choose leaves room for its own TID.
LEMMA ChosenRoom ==
    ASSUME NEW t \in Txns, t \notin Chosen
    PROVE  /\ Cardinality(Chosen) + 1 < TidMod
           /\ Cardinality(Chosen \cup {t}) = Cardinality(Chosen) + 1
<1>1. IsFiniteSet(Txns) /\ Chosen \cup {t} \subseteq Txns /\ Chosen \subseteq Txns
  BY KVSiloAssumption DEF Chosen
<1>2. IsFiniteSet(Chosen) /\ IsFiniteSet(Chosen \cup {t})
      /\ Cardinality(Chosen \cup {t}) <= Cardinality(Txns)
  BY <1>1, FS_Subset
<1>3. Cardinality(Chosen \cup {t}) = Cardinality(Chosen) + 1
  BY <1>2, FS_AddElement
<1>4. Cardinality(Chosen) \in Nat /\ Cardinality(Txns) \in Nat
  BY <1>1, <1>2, FS_CardinalityType
<1> QED
  BY <1>2, <1>3, <1>4, NoTidWrap, WidthAssumption

LEMMA ChosenTidOrder ==
    ASSUME TypeOK, NEW t \in Txns, NEW n \in Nat, n + 1 < TidMod,
           maxWriteTid[t].tid <= n, maxReadTid[t].tid <= n,
           mostRecentlyChosenTid[t].tid <= n
    PROVE  /\ ChosenTid(t).tid <= n + 1
           /\ Precedes(maxWriteTid[t], ChosenTid(t))
<1> DEFINE top == WordMax(maxWriteTid[t], maxReadTid[t])
           tidA == NextTid(top)
           tidB == NextTid(mostRecentlyChosenTid[t])
           tidC == [ZeroWord EXCEPT !.epoch = epoch[t]]
           rest == WordMax(tidB, tidC)
<1>1. /\ maxWriteTid[t] \in Words /\ maxReadTid[t] \in Words
      /\ mostRecentlyChosenTid[t] \in Words /\ epoch[t] \in Epochs
  BY DEF TypeOK
<1>2. /\ top \in Words /\ tidA \in Words /\ tidB \in Words /\ tidC \in Words
      /\ rest \in Words
  BY <1>1, WordOperations
<1>3. top.tid <= n /\ ~ Precedes(top, maxWriteTid[t])
  BY <1>1 DEF WordMax, WordLess, Precedes, Words, Epochs
<1>4. ASSUME NEW w \in Words, w.tid <= n
      PROVE  NextTid(w).tid = w.tid + 1 /\ NextTid(w).epoch = w.epoch
  <2>1. (w.tid + 1) % TidMod = w.tid + 1
    BY <1>4, WidthAssumption DEF Words
  <2> QED
    BY <1>4, <2>1 DEF NextTid, Words
<1>5. tidA.tid = top.tid + 1 /\ tidA.epoch = top.epoch /\ tidB.tid <= n + 1
  BY <1>1, <1>2, <1>3, <1>4 DEF Words
<1>6. tidC.tid = 0
  BY <1>1 DEF ZeroWord
<1>7. Precedes(maxWriteTid[t], tidA)
  BY <1>1, <1>2, <1>3, <1>5 DEF Precedes, Words, Epochs
<1>8. rest.tid <= n + 1
  BY <1>2, <1>5, <1>6 DEF WordMax
<1> HIDE DEF tidA, tidB, tidC, rest
<1>9. Precedes(maxWriteTid[t], WordMax(tidA, rest)) /\ WordMax(tidA, rest).tid <= n + 1
  BY <1>1, <1>2, <1>3, <1>5, <1>7, <1>8 DEF WordMax, WordLess, Precedes, Words, Epochs
<1>10. WordMax(tidA, rest) \in Words
  BY <1>2, WordOperations
<1>11. ASSUME NEW w \in Words, Precedes(maxWriteTid[t], w), w.tid <= n + 1
       PROVE  Precedes(maxWriteTid[t], Unlocked(w)) /\ Unlocked(w).tid <= n + 1
  BY <1>11 DEF Precedes, Unlocked, Words
<1>12. ChosenTid(t) = Unlocked(WordMax(tidA, rest))
  BY DEF ChosenTid, tidA, tidB, tidC, rest
<1> QED
  BY <1>9, <1>10, <1>11, <1>12

LEMMA BoundInit == Init => TidBound
<1> SUFFICES ASSUME Init PROVE TidBound
  OBVIOUS
<1>1. ZeroWord.tid = 0
  BY DEF ZeroWord
<1> QED
  BY <1>1, ChosenCardinality DEF Init, TidBound

\* The words read by a step are shared words, so the bound covers them.
LEMMA BoundStep ==
    ASSUME TypeInv, TidBound, Next
    PROVE  TidBound'
<1> USE DEF TypeInv, shared, queries, locals, sets, tids, Goto
<1>0. \A a, b \in Words : WordMax(a, b) = a \/ WordMax(a, b) = b
  BY DEF WordMax
<1>c. Cardinality(Chosen) \in Nat
  BY ChosenCardinality
<1>1. CASE AdvanceEpoch
  BY <1>1 DEF AdvanceEpoch, TidBound, Chosen
<1>2. ASSUME NEW t \in Txns, Step(t)
      PROVE  TidBound'
  <2>0. /\ pc \in [Txns -> Labels] /\ idx \in [Txns -> Nat \ {0}]
        /\ wset \in [Txns -> Seq(Keys)] /\ rset \in [Txns -> Seq(ReadElements)]
        /\ word \in [Keys -> Words]
        /\ mostRecentlyChosenTid \in [Txns -> Words]
        /\ maxWriteTid \in [Txns -> Words] /\ maxReadTid \in [Txns -> Words]
    BY DEF TypeOK
  <2>1. CASE \/ LoadBefore(t) \/ LoadValue(t) \/ LoadAfter(t) \/ Write(t)
             \/ Commit(t) \/ LoadEpoch(t) \/ FailValidation(t) \/ Abort(t)
             \/ StoreValue(t) \/ Finish(t)
    <3>1. UNCHANGED <<word, maxWriteTid, maxReadTid, mostRecentlyChosenTid>>
      BY <2>1 DEF LoadBefore, LoadValue, LoadAfter, Write, Commit, LoadEpoch,
                  FailValidation, Abort, StoreValue, Finish
    <3>2. Chosen' = Chosen
      BY <2>0, <2>1 DEF LoadBefore, LoadValue, LoadAfter, Write, Commit, At,
                  LoadEpoch, FailValidation, Abort, StoreValue, Finish, Chosen
    <3> QED
      BY <3>1, <3>2 DEF TidBound
  <2>2. CASE LockRecord(t)
    <3>1. Chosen' = Chosen
      BY <2>2 DEF LockRecord, Chosen
    <3>2. wset[t][idx[t]] \in Keys
      BY <2>0, <2>2 DEF LockRecord
    <3>3. \A k \in Keys : word'[k].tid = word[k].tid
      BY <2>0, <2>2, <3>2 DEF LockRecord, Locked, Words
    <3>4. \A u \in Txns : maxWriteTid'[u].tid <= Cardinality(Chosen)
      BY <2>0, <2>2, <3>2, <1>0 DEF LockRecord, TidBound
    <3> QED
      BY <2>2, <3>1, <3>3, <3>4 DEF LockRecord, TidBound
  <2>3. CASE ValidateRead(t)
    <3>1. Chosen' = Chosen
      BY <2>3 DEF ValidateRead, Chosen
    <3>2. rset[t][idx[t]].key \in Keys
      <4>1. rset[t][idx[t]] \in ReadElements
        BY <2>0, <2>3 DEF ValidateRead
      <4> QED
        BY <4>1 DEF ReadElements
    <3>3. \A u \in Txns : maxReadTid'[u].tid <= Cardinality(Chosen)
      BY <2>0, <2>3, <3>2, <1>0 DEF ValidateRead, TidBound
    <3> QED
      BY <2>3, <3>1, <3>3 DEF ValidateRead, TidBound
  <2>4. CASE Unlock(t)
    <3>1. Chosen' = Chosen
      BY <2>4 DEF Unlock, Chosen
    <3>2. wset[t][idx[t]] \in Keys
      BY <2>0, <2>4 DEF Unlock
    <3>3. \A k \in Keys : word'[k].tid = word[k].tid
      BY <2>0, <2>4, <3>2 DEF Unlock, Unlocked, Words
    <3> QED
      BY <2>4, <3>1, <3>3 DEF Unlock, TidBound
  <2>5. CASE ChooseTid(t)
    <3>1. t \notin Chosen
      BY <2>5 DEF ChooseTid, Chosen
    <3>2. Chosen' = Chosen \cup {t}
      BY <2>0, <2>5 DEF ChooseTid, Chosen
    <3>3. /\ Cardinality(Chosen') = Cardinality(Chosen) + 1
          /\ Cardinality(Chosen) + 1 < TidMod
      BY <3>1, <3>2, ChosenRoom
    <3>4. ChosenTid(t).tid <= Cardinality(Chosen')
      BY <1>c, <3>3, ChosenTidOrder DEF TidBound
    <3>5. \A u \in Txns : mostRecentlyChosenTid'[u].tid <= Cardinality(Chosen')
      BY <1>c, <2>0, <2>5, <3>3, <3>4 DEF ChooseTid, TidBound, Words
    <3>6. UNCHANGED <<word, maxWriteTid, maxReadTid>>
      BY <2>5 DEF ChooseTid
    <3> HIDE DEF Chosen
    <3> QED
      BY <1>c, <2>0, <3>3, <3>5, <3>6, SMTT(30) DEF TidBound, Words
  <2>6. CASE StoreTid(t)
    <3>1. Chosen' = Chosen
      BY <2>0, <2>6 DEF StoreTid, Chosen
    <3>2. wset[t][idx[t]] \in Keys
      BY <2>0, <2>6 DEF StoreTid, CursorOK
    <3>3. \A k \in Keys : word'[k].tid <= Cardinality(Chosen)
      BY <2>0, <2>6, <3>2 DEF StoreTid, TidBound
    <3> QED
      BY <2>6, <3>1, <3>3 DEF StoreTid, TidBound
  <2> QED
    BY <1>2, <2>1, <2>2, <2>3, <2>4, <2>5, <2>6 DEF Step
<1> QED
  BY <1>1, <1>2 DEF Next

LEMMA BoundStutter ==
    ASSUME TidBound, UNCHANGED vars
    PROVE  TidBound'
BY DEF TidBound, Chosen, vars, tids, shared

-----------------------------------------------------------------------------
(* TIDs grow.                                                              *)

\* Between its lock and its release of a record, a transaction's maxWriteTid
\* is no smaller than the record's TID; the TID it chooses is larger.
GrowInv ==
    \A t \in Txns : \A i \in HeldPositions(t) :
        /\ pc[t] \in {"lock", "validate"} =>
              ~ Precedes(maxWriteTid[t], word[wset[t][i]])
        /\ pc[t] \in {"install", "publish"} =>
              Precedes(word[wset[t][i]], mostRecentlyChosenTid[t])

LEMMA GrowInit == Init => GrowInv
<1> SUFFICES ASSUME Init PROVE GrowInv
  OBVIOUS
<1>1. \A t \in Txns : HeldPositions(t) = {}
  BY DEF Init, HeldPositions
<1> QED
  BY <1>1 DEF GrowInv

\* A step of t that touches no word, and leaves t with at most the locks and
\* in the phase it had, keeps the invariant.
LEMMA GrowFrame ==
    ASSUME TypeOK, NEW t \in Txns, GrowInv,
           \A k \in Keys : Unlocked(word'[k]) = Unlocked(word[k]),
           \A u \in Txns \ {t} :
              /\ pc'[u] = pc[u] /\ idx'[u] = idx[u] /\ wset'[u] = wset[u]
              /\ maxWriteTid'[u] = maxWriteTid[u]
              /\ mostRecentlyChosenTid'[u] = mostRecentlyChosenTid[u],
           word' \in [Keys -> Words],
           \A i \in HeldPositions(t)' :
              /\ pc'[t] \in {"lock", "validate"} =>
                    ~ Precedes(maxWriteTid'[t], word[wset'[t][i]])
              /\ pc'[t] \in {"install", "publish"} =>
                    Precedes(word[wset'[t][i]], mostRecentlyChosenTid'[t]),
           wset'[t] \in Seq(Keys)
    PROVE  GrowInv'
<1>1. \A k \in Keys : word'[k].epoch = word[k].epoch /\ word'[k].tid = word[k].tid
  <2>1. ASSUME NEW a \in Words, NEW b \in Words, Unlocked(a) = Unlocked(b)
        PROVE  a.epoch = b.epoch /\ a.tid = b.tid
    <3>1. ASSUME NEW w \in Words
          PROVE  Unlocked(w).epoch = w.epoch /\ Unlocked(w).tid = w.tid
      BY DEF Unlocked, Words
    <3> QED
      BY <2>1, <3>1
  <2> QED
    BY <2>1 DEF TypeOK
<1>2. \A u \in Txns \ {t} : HeldPositions(u)' = HeldPositions(u)
  BY DEF HeldPositions
<1>3. ASSUME NEW u \in Txns, NEW i \in HeldPositions(u)'
      PROVE  wset'[u][i] \in Keys
  <2>1. wset'[u] \in Seq(Keys) /\ i \in 1 .. Len(wset'[u])
    BY <1>3 DEF HeldPositions, TypeOK
  <2> QED
    BY <2>1
<1>4. \A i \in HeldPositions(t)' :
        /\ pc'[t] \in {"lock", "validate"} =>
              ~ Precedes(maxWriteTid'[t], word'[wset'[t][i]])
        /\ pc'[t] \in {"install", "publish"} =>
              Precedes(word'[wset'[t][i]], mostRecentlyChosenTid'[t])
  BY <1>1, <1>3 DEF Precedes
<1>5. ASSUME NEW u \in Txns \ {t}, NEW i \in HeldPositions(u)'
      PROVE  /\ pc'[u] \in {"lock", "validate"} =>
                   ~ Precedes(maxWriteTid'[u], word'[wset'[u][i]])
             /\ pc'[u] \in {"install", "publish"} =>
                   Precedes(word'[wset'[u][i]], mostRecentlyChosenTid'[u])
  BY <1>1, <1>2, <1>3 DEF Precedes, GrowInv
<1> QED
  BY <1>4, <1>5 DEF GrowInv

\* Locking a record, and unlocking it on abort, leave its TID alone.
LEMMA RelockKeepsTid ==
    ASSUME TypeOK, NEW t \in Txns, LockRecord(t) \/ Unlock(t)
    PROVE  \A k \in Keys : Unlocked(word'[k]) = Unlocked(word[k])
<1>0. /\ wset \in [Txns -> Seq(Keys)] /\ word \in [Keys -> Words]
      /\ idx \in [Txns -> Nat \ {0}]
  BY DEF TypeOK
<1>1. wset[t][idx[t]] \in Keys
  BY <1>0 DEF LockRecord, Unlock
<1>2. CASE LockRecord(t)
  BY <1>0, <1>1, <1>2 DEF LockRecord, Locked, Unlocked, Words
<1>3. CASE Unlock(t)
  BY <1>0, <1>1, <1>3 DEF Unlock, Unlocked, Words
<1> QED
  BY <1>2, <1>3

LEMMA GrowStep ==
    ASSUME TypeInv, TypeInv', LockInv, TidBound, GrowInv, Next
    PROVE  GrowInv'
<1> USE DEF TypeInv, LockInv, shared, queries, locals, sets, tids, Goto
<1>1. CASE AdvanceEpoch
  <2>1. \A u \in Txns : HeldPositions(u)' = HeldPositions(u)
    BY <1>1 DEF AdvanceEpoch, HeldPositions
  <2> QED
    BY <1>1, <2>1 DEF AdvanceEpoch, GrowInv
<1>2. ASSUME NEW t \in Txns, Step(t)
      PROVE  GrowInv'
  <2>0. /\ pc \in [Txns -> Labels] /\ idx \in [Txns -> Nat \ {0}]
        /\ wset \in [Txns -> Seq(Keys)] /\ wset' \in [Txns -> Seq(Keys)]
        /\ word \in [Keys -> Words] /\ word' \in [Keys -> Words]
        /\ mostRecentlyChosenTid \in [Txns -> Words]
        /\ maxWriteTid \in [Txns -> Words]
    BY DEF TypeOK
  <2>1. CASE \/ LoadBefore(t) \/ LoadValue(t) \/ LoadAfter(t) \/ Write(t)
             \/ Commit(t) \/ FailValidation(t) \/ Abort(t) \/ Finish(t)
    <3>1. /\ UNCHANGED <<word, maxWriteTid, mostRecentlyChosenTid>>
          /\ \A u \in Txns \ {t} : pc'[u] = pc[u] /\ idx'[u] = idx[u]
                                   /\ wset'[u] = wset[u]
      BY <2>0, <2>1 DEF LoadBefore, LoadValue, LoadAfter, Write, Commit,
                        FailValidation, Abort, Finish
    <3>2. \/ pc'[t] \notin {"lock", "validate", "install", "publish"}
          \/ HeldPositions(t)' = {}
      <4>1. CASE Commit(t)
        BY <2>0, <4>1 DEF Commit, HeldPositions
      <4>2. CASE ~ Commit(t)
        BY <2>0, <2>1, <4>2 DEF LoadBefore, LoadValue, LoadAfter, Write, At,
                                FailValidation, Abort, Finish
      <4> QED
        BY <4>1, <4>2
    <3> QED
      BY <2>0, <3>1, <3>2, GrowFrame
  <2>2. CASE LockRecord(t)
    <3> DEFINE k == wset[t][idx[t]]
    <3>1. k \in Keys /\ idx[t] \in DOMAIN wset[t]
      BY <2>0, <2>2 DEF LockRecord
    <3>2. \A l \in Keys : Unlocked(word'[l]) = Unlocked(word[l])
      BY <2>2, RelockKeepsTid
    <3>3. \A u \in Txns \ {t} :
              /\ pc'[u] = pc[u] /\ idx'[u] = idx[u] /\ wset'[u] = wset[u]
              /\ maxWriteTid'[u] = maxWriteTid[u]
              /\ mostRecentlyChosenTid'[u] = mostRecentlyChosenTid[u]
      BY <2>0, <2>2 DEF LockRecord
    <3>4. HeldPositions(t)' = HeldPositions(t) \cup {idx[t]}
      BY <2>0, <2>2, <3>1 DEF LockRecord, HeldPositions
    <3>5. ASSUME NEW a \in Words, NEW b \in Words
          PROVE  /\ ~ Precedes(WordMax(a, b), b)
                 /\ \A c \in Words : ~ Precedes(a, c) => ~ Precedes(WordMax(a, b), c)
      BY DEF WordMax, WordLess, Precedes, Words, Epochs
    <3>6. /\ pc[t] = "lock" /\ pc' = pc /\ wset' = wset
          /\ maxWriteTid'[t] = WordMax(maxWriteTid[t], word[k])
      BY <2>0, <2>2 DEF LockRecord
    <3>7. \A i \in HeldPositions(t) : wset[t][i] \in Keys
      BY <2>0 DEF HeldPositions
    <3>8. \A i \in HeldPositions(t)' :
              ~ Precedes(maxWriteTid'[t], word[wset'[t][i]])
      BY <2>0, <3>1, <3>4, <3>5, <3>6, <3>7 DEF GrowInv
    <3> QED
      BY <2>0, <3>2, <3>3, <3>6, <3>8, GrowFrame
  <2>3. CASE LoadEpoch(t) \/ ValidateRead(t) \/ StoreValue(t)
    <3>1. /\ UNCHANGED <<word, wset, maxWriteTid, mostRecentlyChosenTid>>
          /\ \A u \in Txns \ {t} : pc'[u] = pc[u] /\ idx'[u] = idx[u]
      BY <2>0, <2>3 DEF LoadEpoch, ValidateRead, StoreValue
    <3>2. HeldPositions(t)' = HeldPositions(t)
      BY <2>0, <2>3 DEF LoadEpoch, ValidateRead, StoreValue, HeldPositions
    <3>3. /\ pc'[t] \in {"lock", "validate"} => pc[t] \in {"lock", "validate"}
          /\ pc'[t] \in {"install", "publish"} => pc[t] \in {"install", "publish"}
      BY <2>0, <2>3 DEF LoadEpoch, ValidateRead, StoreValue
    <3> QED
      <4>1. \A i \in HeldPositions(t)' :
              /\ pc'[t] \in {"lock", "validate"} =>
                    ~ Precedes(maxWriteTid'[t], word[wset'[t][i]])
              /\ pc'[t] \in {"install", "publish"} =>
                    Precedes(word[wset'[t][i]], mostRecentlyChosenTid'[t])
        BY <3>1, <3>2, <3>3 DEF GrowInv
      <4> QED
        BY <2>0, <3>1, <4>1, GrowFrame
  <2>4. CASE Unlock(t)
    <3>2. \A l \in Keys : Unlocked(word'[l]) = Unlocked(word[l])
      BY <2>4, RelockKeepsTid
    <3>3. pc'[t] = "unlock"
      BY <2>4 DEF Unlock
    <3>4. \A u \in Txns \ {t} :
              /\ pc'[u] = pc[u] /\ idx'[u] = idx[u] /\ wset'[u] = wset[u]
              /\ maxWriteTid'[u] = maxWriteTid[u]
              /\ mostRecentlyChosenTid'[u] = mostRecentlyChosenTid[u]
      BY <2>0, <2>4 DEF Unlock
    <3> QED
      BY <2>0, <3>2, <3>3, <3>4, GrowFrame
  <2>5. CASE ChooseTid(t)
    <3>1. /\ UNCHANGED <<word, wset, maxWriteTid>> /\ pc[t] = "validate"
          /\ pc'[t] = "install" /\ mostRecentlyChosenTid'[t] = ChosenTid(t)
          /\ \A u \in Txns \ {t} :
                pc'[u] = pc[u] /\ idx'[u] = idx[u]
                /\ mostRecentlyChosenTid'[u] = mostRecentlyChosenTid[u]
      BY <2>0, <2>5 DEF ChooseTid
    <3>2. HeldPositions(t)' = HeldPositions(t)
      BY <2>0, <2>5 DEF ChooseTid, HeldPositions
    <3>3. t \notin Chosen
      BY <2>5 DEF ChooseTid, Chosen
    <3>4. Precedes(maxWriteTid[t], ChosenTid(t))
      BY <3>3, ChosenRoom, ChosenCardinality, ChosenTidOrder DEF TidBound
    <3>5. ASSUME NEW a \in Words, NEW b \in Words, NEW c \in Words,
                 ~ Precedes(b, a), Precedes(b, c)
          PROVE  Precedes(a, c)
      BY <3>5 DEF Precedes, Words, Epochs
    <3>6. ChosenTid(t) \in Words
      BY ChosenTidType
    <3>7. \A i \in HeldPositions(t) : Precedes(word[wset[t][i]], ChosenTid(t))
      <4> SUFFICES ASSUME NEW i \in HeldPositions(t)
                   PROVE  Precedes(word[wset[t][i]], ChosenTid(t))
        OBVIOUS
      <4>1. wset[t][i] \in Keys
        BY <2>0 DEF HeldPositions
      <4>2. ~ Precedes(maxWriteTid[t], word[wset[t][i]])
        BY <3>1 DEF GrowInv
      <4> QED
        BY <2>0, <3>4, <3>5, <3>6, <4>1, <4>2
    <3> QED
      BY <2>0, <3>1, <3>2, <3>7, GrowFrame, ZenonT(60)
  <2>6. CASE StoreTid(t)
    <3> DEFINE k == wset[t][idx[t]]
    <3>1. idx[t] \in HeldPositions(t) /\ k \in Keys
      BY <2>0, <2>6 DEF StoreTid, HeldPositions, CursorOK
    <3>2. /\ \A l \in Keys \ {k} : word'[l] = word[l]
          /\ wset' = wset /\ maxWriteTid' = maxWriteTid
          /\ mostRecentlyChosenTid' = mostRecentlyChosenTid
          /\ pc[t] = "publish" /\ pc'[t] = "install"
      BY <2>0, <2>6, <3>1 DEF StoreTid
    <3>3. HeldPositions(t)' = HeldPositions(t) \ {idx[t]}
      BY <2>0, <2>6 DEF StoreTid, HeldPositions
    <3>4. \A u \in Txns \ {t} : HeldPositions(u)' = HeldPositions(u) /\ pc'[u] = pc[u]
      BY <2>0, <2>6 DEF StoreTid, HeldPositions
    <3>5. ASSUME NEW u \in Txns, NEW i \in HeldPositions(u)'
          PROVE  i \in HeldPositions(u) /\ wset[u][i] \in Keys \ {k}
      <4>1. i \in HeldPositions(u) /\ (u # t \/ i # idx[t])
        BY <3>3, <3>4
      <4>2. wset[u][i] \in Keys
        BY <2>0, <4>1 DEF HeldPositions
      <4> QED
        BY <3>1, <4>1, <4>2 DEF LocksExclusive
    <3> QED
      BY <3>2, <3>4, <3>5 DEF GrowInv
  <2> QED
    BY <1>2, <2>1, <2>2, <2>3, <2>4, <2>5, <2>6 DEF Step
<1> QED
  BY <1>1, <1>2 DEF Next

LEMMA GrowStutter ==
    ASSUME GrowInv, UNCHANGED vars
    PROVE  GrowInv'
BY DEF GrowInv, HeldPositions, vars, shared, queries, locals, sets, tids

GrowthInv == TypeInv /\ LockInv /\ TidBound /\ GrowInv

LEMMA Growing == Spec => []GrowthInv
<1>1. Init => GrowthInv
  BY TypeInit, LockInit, BoundInit, GrowInit DEF GrowthInv
<1>2. GrowthInv /\ [Next]_vars => GrowthInv'
  BY TypeStep, TypeStutter, LockStep, LockStutter, BoundStep, BoundStutter,
     GrowStep, GrowStutter DEF GrowthInv
<1> QED
  BY <1>1, <1>2, PTL DEF Spec

LEMMA GrowAction ==
    ASSUME GrowthInv, Next
    PROVE  TidGrows
<1> USE DEF GrowthInv, TypeInv, LockInv
<1>0. word \in [Keys -> Words] /\ wset \in [Txns -> Seq(Keys)]
      /\ mostRecentlyChosenTid \in [Txns -> Words] /\ idx \in [Txns -> Nat \ {0}]
  BY DEF TypeOK
<1>1. CASE word' = word
  BY <1>1 DEF TidGrows
<1>2. ASSUME NEW t \in Txns, LockRecord(t) \/ Unlock(t)
      PROVE  TidGrows
  BY <1>2, RelockKeepsTid DEF TidGrows
<1>3. ASSUME NEW t \in Txns, StoreTid(t)
      PROVE  TidGrows
  <2> DEFINE k == wset[t][idx[t]]
             new == mostRecentlyChosenTid[t]
  <2>1. idx[t] \in HeldPositions(t) /\ k \in Keys /\ pc[t] = "publish"
    BY <1>0, <1>3 DEF StoreTid, HeldPositions, CursorOK
  <2>2. word[k].lock = 1
    BY <2>1 DEF LockBitOwned
  <2>3. Precedes(word[k], new) /\ new.lock = 0
    BY <2>1 DEF GrowInv, ChosenUnlocked
  <2>4. word[k] \in Words /\ new \in Words
    BY <1>0, <2>1
  <2>5. WordLess(Unlocked(word[k]), new)
    BY <2>3, <2>4 DEF WordLess, Unlocked, Precedes, Words, Epochs
  <2>6. word'[k] = new /\ \A l \in Keys \ {k} : word'[l] = word[l]
    BY <1>0, <1>3, <2>1 DEF StoreTid
  <2> QED
    BY <2>2, <2>3, <2>5, <2>6 DEF TidGrows
<1> QED
  BY <1>1, <1>2, <1>3 DEF Next, Step, AdvanceEpoch, LoadBefore, LoadValue,
     LoadAfter, Write, Commit, LoadEpoch, ValidateRead, FailValidation, Abort,
     ChooseTid, StoreValue, Finish, shared

\* A record's TID changes only under its lock, by the store that releases it,
\* and only to a larger one: TIDs order the versions of every record.
THEOREM TidsOnlyGrow == Spec => TidsGrow
<1>1. GrowthInv /\ [Next]_vars => [TidGrows]_vars
  BY GrowAction
<1> QED
  BY Growing, <1>1, PTL DEF Spec, TidsGrow

-----------------------------------------------------------------------------
(* Snapshot reads                                                          *)

\* A record whose new value is stored and whose new TID is not.
Publishing(k) == \E u \in Txns : pc[u] = "publish" /\ wset[u][idx[u]] = k

\* Values come from transactions that will not choose again.
Installed(v) == v = NoTxn \/ v \in Chosen

ValueInv ==
    /\ \A k \in Keys : /\ Installed(value[k])
                       /\ \/ Publishing(k)
                          \/ Unlocked(word[k]) = VersionOfWriter(value[k])
    /\ \A u \in Txns : pc[u] = "publish" => value[wset[u][idx[u]]] = u

ReadInv ==
    \A t \in Txns :
        /\ Installed(data[t])
        /\ \A i \in DOMAIN rset[t] : Installed(rset[t][i].from)
        /\ pc[t] \in {"readValue", "readCheck"} =>
              /\ before[t].lock = 0
              /\ ~ Precedes(word[KeyOf(t)], before[t])
        /\ pc[t] = "readCheck" /\ Unlocked(word[KeyOf(t)]) = before[t] =>
              \/ Publishing(KeyOf(t))
              \/ before[t] = VersionOfWriter(data[t])

SnapshotInv == ValueInv /\ ReadInv /\ SnapshotReads

LEMMA SnapshotInit == Init => SnapshotInv
<1> SUFFICES ASSUME Init PROVE SnapshotInv
  OBVIOUS
<1>1. \A k \in Keys : Unlocked(word[k]) = ZeroWord /\ value[k] = NoTxn
  BY DEF Init, Unlocked, ZeroWord
<1>2. ValueInv
  BY <1>1 DEF Init, ValueInv, Installed, VersionOfWriter
<1>3. ReadInv
  BY DEF Init, ReadInv, Installed
<1>4. SnapshotReads
  BY DEF Init, SnapshotReads
<1> QED
  BY <1>2, <1>3, <1>4 DEF SnapshotInv

\* What a chosen TID names does not change any more.
LEMMA VersionStable ==
    ASSUME TypeInv, Next, NEW v, Installed(v)
    PROVE  VersionOfWriter(v)' = VersionOfWriter(v) /\ Installed(v)'
<1> USE DEF TypeInv, shared, queries, locals, sets, tids, Goto
<1>0. pc \in [Txns -> Labels] /\ mostRecentlyChosenTid \in [Txns -> Words]
  BY DEF TypeOK
<1>1. CASE v = NoTxn
  BY <1>1 DEF VersionOfWriter, Installed
<1>2. CASE v \in Chosen
  <2>0. v \in Txns /\ pc[v] \in {"install", "publish", "committed"}
    BY <1>2 DEF Chosen
  <2>1. CASE AdvanceEpoch
    BY <1>2, <2>1 DEF AdvanceEpoch, VersionOfWriter, Installed, Chosen
  <2>2. ASSUME NEW t \in Txns, Step(t)
        PROVE  mostRecentlyChosenTid'[v] = mostRecentlyChosenTid[v]
               /\ pc'[v] \in {"install", "publish", "committed"}
    <3>1. CASE t = v
      BY <1>0, <2>0, <2>2, <3>1
         DEF Step, LoadBefore, LoadValue, LoadAfter, Write, Commit, LockRecord,
             LoadEpoch, ValidateRead, FailValidation, Unlock, Abort, ChooseTid,
             StoreValue, StoreTid, Finish, At
    <3>2. CASE t # v
      BY <1>0, <2>0, <2>2, <3>2
         DEF Step, LoadBefore, LoadValue, LoadAfter, Write, Commit, LockRecord,
             LoadEpoch, ValidateRead, FailValidation, Unlock, Abort, ChooseTid,
             StoreValue, StoreTid, Finish
    <3> QED
      BY <3>1, <3>2
  <2>3. v # NoTxn
    BY <2>0, KVSiloAssumption
  <2> QED
    BY <2>0, <2>1, <2>2, <2>3 DEF Next, VersionOfWriter, Installed, Chosen
<1> QED
  BY <1>1, <1>2 DEF Installed

\* A record being published is locked.
LEMMA PublishingLocked ==
    ASSUME TypeInv, LockInv, NEW k \in Keys, Publishing(k)
    PROVE  word[k].lock = 1
<1>1. PICK u \in Txns : pc[u] = "publish" /\ wset[u][idx[u]] = k
  BY DEF Publishing
<1>2. idx[u] \in HeldPositions(u)
  BY <1>1 DEF HeldPositions, TypeInv, CursorOK, TypeOK
<1> QED
  BY <1>1, <1>2 DEF LockInv, LockBitOwned

\* A step of t leaves everybody else where they were.
LEMMA OthersFixed ==
    ASSUME TypeOK, NEW t \in Txns, Step(t)
    PROVE  /\ prog' = prog
           /\ \A u \in Txns \ {t} :
                 /\ pc'[u] = pc[u] /\ idx'[u] = idx[u] /\ op'[u] = op[u]
                 /\ wset'[u] = wset[u] /\ rset'[u] = rset[u]
                 /\ before'[u] = before[u] /\ data'[u] = data[u]
<1> USE DEF TypeOK, shared, queries, locals, sets, tids, Goto
<1>1. CASE \/ LoadBefore(t) \/ LoadValue(t) \/ LoadAfter(t) \/ Write(t) \/ Commit(t)
  BY <1>1 DEF LoadBefore, LoadValue, LoadAfter, Write, Commit
<1>2. CASE \/ LockRecord(t) \/ LoadEpoch(t) \/ ValidateRead(t)
           \/ FailValidation(t) \/ Unlock(t) \/ Abort(t)
  BY <1>2 DEF LockRecord, LoadEpoch, ValidateRead, FailValidation, Unlock, Abort
<1>3. CASE ChooseTid(t) \/ StoreValue(t) \/ StoreTid(t) \/ Finish(t)
  BY <1>3 DEF ChooseTid, StoreValue, StoreTid, Finish
<1> QED
  BY <1>1, <1>2, <1>3 DEF Step

\* Only t's store of the TID ends its publishing.
LEMMA PublishingKept ==
    ASSUME TypeOK, NEW t \in Txns, Step(t), ~ StoreTid(t), NEW k, Publishing(k)
    PROVE  Publishing(k)'
<1>1. PICK u \in Txns : pc[u] = "publish" /\ wset[u][idx[u]] = k
  BY DEF Publishing
<1>2. u # t
  BY <1>1 DEF Step, LoadBefore, LoadValue, LoadAfter, Write, Commit, LockRecord,
     LoadEpoch, ValidateRead, FailValidation, Unlock, Abort, ChooseTid,
     StoreValue, Finish, At
<1> QED
  BY <1>1, <1>2, OthersFixed DEF Publishing

LEMMA ValueStep ==
    ASSUME GrowthInv, ValueInv, Next
    PROVE  ValueInv'
<1> USE DEF GrowthInv, TypeInv
<1>0. /\ pc \in [Txns -> Labels] /\ idx \in [Txns -> Nat \ {0}]
      /\ wset \in [Txns -> Seq(Keys)] /\ word \in [Keys -> Words]
      /\ value \in [Keys -> Values]
      /\ mostRecentlyChosenTid \in [Txns -> Words]
  BY DEF TypeOK
<1>1. \A v : Installed(v) =>
         VersionOfWriter(v)' = VersionOfWriter(v) /\ Installed(v)'
  BY VersionStable
<1>2. CASE AdvanceEpoch
  BY <1>1, <1>2 DEF AdvanceEpoch, ValueInv, Publishing, queries, locals, sets, tids
<1>3. ASSUME NEW t \in Txns, Step(t), ~ StoreValue(t), ~ StoreTid(t)
      PROVE  ValueInv'
  <2>1. value' = value
    BY <1>3 DEF Step, LoadBefore, LoadValue, LoadAfter, Write, Commit, LockRecord,
       LoadEpoch, ValidateRead, FailValidation, Unlock, Abort, ChooseTid, Finish,
       shared
  <2>2. \A k \in Keys : Unlocked(word'[k]) = Unlocked(word[k])
    <3>1. CASE LockRecord(t) \/ Unlock(t)
      BY <3>1, RelockKeepsTid
    <3>2. CASE ~ (LockRecord(t) \/ Unlock(t))
      BY <1>3, <3>2 DEF Step, LoadBefore, LoadValue, LoadAfter, Write, Commit,
         LoadEpoch, ValidateRead, FailValidation, Abort, ChooseTid, Finish, shared
    <3> QED
      BY <3>1, <3>2
  <2>3. pc'[t] # "publish"
    BY <1>0, <1>3 DEF Step, LoadBefore, LoadValue, LoadAfter, Write, Commit,
       LockRecord, LoadEpoch, ValidateRead, FailValidation, Unlock, Abort,
       ChooseTid, Finish, At, Goto
  <2>4. \A k \in Keys : Publishing(k) => Publishing(k)'
    BY <1>3, PublishingKept
  <2>5. \A u \in Txns : pc'[u] = "publish" =>
          pc[u] = "publish" /\ wset'[u] = wset[u] /\ idx'[u] = idx[u]
    BY <1>3, <2>3, OthersFixed
  <2> QED
    BY <1>1, <2>1, <2>2, <2>4, <2>5 DEF ValueInv
<1>4. ASSUME NEW t \in Txns, StoreValue(t)
      PROVE  ValueInv'
  <2> DEFINE k == wset[t][idx[t]]
  <2>1. /\ idx[t] \in HeldPositions(t) /\ k \in Keys /\ pc[t] = "install"
        /\ value'[k] = t /\ \A l \in Keys \ {k} : value'[l] = value[l]
        /\ word' = word /\ wset' = wset /\ idx' = idx /\ pc'[t] = "publish"
        /\ \A u \in Txns \ {t} : pc'[u] = pc[u]
    BY <1>0, <1>4 DEF StoreValue, HeldPositions, shared, sets, Goto
  <2>2. Publishing(k)' /\ Installed(t)'
    BY <2>1 DEF Publishing, Installed, Chosen
  <2>3. \A l \in Keys : Publishing(l) => Publishing(l)'
    BY <2>1 DEF Publishing
  <2>4. ASSUME NEW u \in Txns \ {t}, pc[u] = "publish"
        PROVE  wset[u][idx[u]] \in Keys \ {k}
    <3>1. idx[u] \in HeldPositions(u)
      BY <1>0, <2>4 DEF HeldPositions, CursorOK
    <3>2. wset[u][idx[u]] \in Keys
      BY <1>0, <2>4 DEF CursorOK
    <3> QED
      BY <2>1, <3>1, <3>2 DEF LockInv, LocksExclusive
  <2>5. \A u \in Txns : pc'[u] = "publish" => value'[wset'[u][idx'[u]]] = u
    BY <2>1, <2>4 DEF ValueInv
  <2>6. ASSUME NEW l \in Keys
        PROVE  /\ Installed(value[l])'
               /\ \/ Publishing(l)'
                  \/ Unlocked(word'[l]) = VersionOfWriter(value[l])'
    <3>1. CASE l = k
      BY <2>1, <2>2, <3>1 DEF Installed
    <3>2. CASE l # k
      <4>1. value'[l] = value[l]
        BY <2>1, <3>2
      <4>2. Installed(value[l]) /\ (\/ Publishing(l)
                                    \/ Unlocked(word[l]) = VersionOfWriter(value[l]))
        BY DEF ValueInv
      <4>3. Installed(value[l])'
        BY <1>1, <4>1, <4>2 DEF Installed
      <4>4. VersionOfWriter(value[l])' = VersionOfWriter(value[l])
        BY <1>1, <4>1, <4>2 DEF VersionOfWriter
      <4> QED
        BY <2>1, <2>3, <4>2, <4>3, <4>4
    <3> QED
      BY <3>1, <3>2
  <2> QED
    BY <2>5, <2>6 DEF ValueInv
<1>5. ASSUME NEW t \in Txns, StoreTid(t)
      PROVE  ValueInv'
  <2>0. PICK k \in Keys : k = wset[t][idx[t]]
    BY <1>0, <1>5 DEF StoreTid, CursorOK
  <2>1. /\ wset[t][idx[t]] = k /\ pc[t] = "publish"
        /\ word'[k] = mostRecentlyChosenTid[t]
        /\ \A l \in Keys \ {k} : word'[l] = word[l]
        /\ value' = value /\ wset' = wset /\ pc'[t] = "install"
        /\ mostRecentlyChosenTid' = mostRecentlyChosenTid
        /\ \A u \in Txns \ {t} : pc'[u] = pc[u] /\ idx'[u] = idx[u]
    BY <1>0, <1>5, <2>0 DEF StoreTid, sets, tids, Goto
  <2>2. \A l \in Keys \ {k} : Publishing(l) => Publishing(l)'
    BY <2>1 DEF Publishing
  <2>3. value[k] = t /\ t # NoTxn
    BY <2>1, KVSiloAssumption DEF ValueInv
  <2>4. Unlocked(word'[k]) = mostRecentlyChosenTid[t]
    <3>1. ASSUME NEW w \in Words, w.lock = 0
          PROVE  Unlocked(w) = w
      BY <3>1 DEF Unlocked, Words
    <3> QED
      BY <1>0, <2>1, <3>1 DEF LockInv, ChosenUnlocked
  <2>5. Unlocked(word'[k]) = VersionOfWriter(value[k])'
    BY <2>1, <2>3, <2>4 DEF VersionOfWriter
  <2>6. ASSUME NEW l \in Keys \ {k}
        PROVE  Publishing(l)' \/ Unlocked(word'[l]) = VersionOfWriter(value[l])'
    BY <1>1, <2>1, <2>2 DEF ValueInv, VersionOfWriter
  <2>7. \A l \in Keys : Installed(value[l])'
    BY <1>1, <2>1 DEF ValueInv, Installed
  <2>8. \A u \in Txns : pc'[u] = "publish" => value'[wset'[u][idx'[u]]] = u
    BY <2>1 DEF ValueInv
  <2> QED
    BY <2>5, <2>6, <2>7, <2>8 DEF ValueInv
<1> QED
  BY <1>2, <1>3, <1>4, <1>5 DEF Next

\* The two conjuncts of ReadInv about a reader between its loads.
Reading(t) ==
    /\ pc[t] \in {"readValue", "readCheck"} =>
          /\ before[t].lock = 0
          /\ ~ Precedes(word[KeyOf(t)], before[t])
    /\ pc[t] = "readCheck" /\ Unlocked(word[KeyOf(t)]) = before[t] =>
          \/ Publishing(KeyOf(t))
          \/ before[t] = VersionOfWriter(data[t])

\* A reader in the middle of read(), and what a step of anybody else, or a
\* later step of its own, does to the record it reads.
LEMMA ReaderKept ==
    ASSUME GrowthInv, ValueInv, ReadInv, Next, NEW u \in Txns,
           pc'[u] = pc[u], before'[u] = before[u], data'[u] = data[u],
           op'[u] = op[u], prog' = prog
    PROVE  Reading(u)'
<1> USE DEF GrowthInv, TypeInv
<1> SUFFICES ASSUME pc[u] \in {"readValue", "readCheck"}
             PROVE  Reading(u)'
  BY DEF Reading
<1>0. /\ word \in [Keys -> Words] /\ word' \in [Keys -> Words]
      /\ before[u] \in Words /\ before[u].lock = 0
      /\ ~ Precedes(word[KeyOf(u)], before[u])
  BY TypeStep DEF TypeOK, ReadInv
<1>1. KeyOf(u)' = KeyOf(u)
  BY DEF KeyOf
<1>2. PICK k \in Keys : k = KeyOf(u)
  BY KeyOfType DEF CursorOK
<1>3. \/ Unlocked(word'[k]) = Unlocked(word[k])
      \/ word'[k].lock = 0 /\ WordLess(Unlocked(word[k]), word'[k])
  BY GrowAction DEF TidGrows
<1>4. ASSUME NEW a \in Words, NEW b \in Words, NEW c \in Words,
             ~ Precedes(a, c), c.lock = 0,
             Unlocked(b) = Unlocked(a) \/ (b.lock = 0 /\ WordLess(Unlocked(a), b))
      PROVE  /\ ~ Precedes(b, c)
             /\ Unlocked(b) = c => Unlocked(a) = c
  <2>0. \A w \in Words : /\ Unlocked(w).epoch = w.epoch /\ Unlocked(w).tid = w.tid
                         /\ Unlocked(w).lock = 0
    BY DEF Unlocked, Words
  <2>1. CASE Unlocked(b) = Unlocked(a)
    <3>1. b.epoch = a.epoch /\ b.tid = a.tid
      BY <2>0, <2>1
    <3> QED
      BY <1>4, <2>1, <3>1 DEF Precedes
  <2>2. CASE b.lock = 0 /\ WordLess(Unlocked(a), b)
    <3>1. Precedes(a, b)
      BY <2>0, <2>2 DEF WordLess, Precedes
    <3>2. ~ Precedes(b, c) /\ (b.epoch # c.epoch \/ b.tid # c.tid)
      BY <1>4, <3>1 DEF Precedes, Words, Epochs
    <3> QED
      BY <2>0, <3>2
  <2> QED
    BY <1>4, <2>1, <2>2
<1>5. /\ ~ Precedes(word'[k], before[u])
      /\ Unlocked(word'[k]) = before[u] => Unlocked(word[k]) = before[u]
  BY <1>0, <1>2, <1>3, <1>4
<1>6. ASSUME pc[u] = "readCheck", Unlocked(word'[k]) = before[u]
      PROVE  Publishing(k)' \/ before[u] = VersionOfWriter(data[u])'
  <2>1. \/ Publishing(k)
        \/ before[u] = VersionOfWriter(data[u])
    BY <1>2, <1>5, <1>6 DEF ReadInv
  <2>2. CASE before[u] = VersionOfWriter(data[u])
    <3>1. VersionOfWriter(data[u])' = VersionOfWriter(data[u])
      BY VersionStable DEF ReadInv, VersionOfWriter
    <3> QED
      BY <2>2, <3>1
  <2>3. CASE Publishing(k)
    <3>1. CASE AdvanceEpoch
      BY <2>3, <3>1 DEF AdvanceEpoch, Publishing, sets
    <3>2. ASSUME NEW t \in Txns, Step(t)
          PROVE  Publishing(k)'
      <4>1. CASE ~ StoreTid(t)
        BY <2>3, <3>2, <4>1, PublishingKept
      <4>2. CASE StoreTid(t) /\ wset[t][idx[t]] # k
        BY <2>3, <3>2, <4>2, OthersFixed DEF Publishing
      <4>3. CASE StoreTid(t) /\ wset[t][idx[t]] = k
        <5>1. idx[t] \in HeldPositions(t) /\ pc[t] = "publish"
          BY <4>3 DEF StoreTid, HeldPositions, CursorOK, TypeOK
        <5>2. Precedes(word[k], mostRecentlyChosenTid[t])
          BY <4>3, <5>1 DEF GrowInv
        <5>3. word'[k] = mostRecentlyChosenTid[t]
          BY <1>0, <4>3 DEF StoreTid
        <5>4. word[k] \in Words /\ word'[k] \in Words
          BY <1>0
        <5>5. Precedes(before[u], word'[k])
          <6>1. Unlocked(word[k]).epoch = word[k].epoch
                /\ Unlocked(word[k]).tid = word[k].tid
            BY <5>4 DEF Unlocked, Words
          <6> QED
            BY <1>5, <1>6, <5>2, <5>3, <6>1 DEF Precedes
        <5>6. ASSUME NEW w \in Words
              PROVE  ~ Precedes(Unlocked(w), w)
          BY DEF Precedes, Unlocked, Words, Epochs
        <5> QED
          BY <1>6, <5>4, <5>5, <5>6
      <4> QED
        BY <4>1, <4>2, <4>3
    <3> QED
      BY <3>1, <3>2 DEF Next
  <2> QED
    BY <2>1, <2>2, <2>3
<1>7. /\ Publishing(KeyOf(u))' = Publishing(k)'
      /\ word'[KeyOf(u)'] = word'[k]
  BY <1>1, <1>2 DEF Publishing
<1> QED
  BY <1>0, <1>5, <1>6, <1>7 DEF Reading

LEMMA ReadStep ==
    ASSUME GrowthInv, ValueInv, ReadInv, Next
    PROVE  ReadInv'
<1> USE DEF GrowthInv, TypeInv
<1>0. /\ word \in [Keys -> Words] /\ pc \in [Txns -> Labels]
      /\ before \in [Txns -> Words] /\ data \in [Txns -> Values]
      /\ value \in [Keys -> Values] /\ rset \in [Txns -> Seq(ReadElements)]
  BY DEF TypeOK
<1>1. \A v : Installed(v) => Installed(v)'
  BY VersionStable
<1>2. \A u \in Txns : Reading(u)
  BY DEF ReadInv, Reading
<1>3. CASE AdvanceEpoch
  <2>1. ASSUME NEW u \in Txns
        PROVE  Reading(u)'
    <3>1. /\ pc' = pc /\ before' = before /\ data' = data /\ op' = op
          /\ prog' = prog
      BY <1>3 DEF AdvanceEpoch, queries, locals
    <3> QED
      BY <3>1, ReaderKept
  <2>2. \A u \in Txns : /\ Installed(data[u])'
                        /\ \A i \in DOMAIN rset'[u] : Installed(rset[u][i].from)'
    BY <1>1, <1>3 DEF AdvanceEpoch, ReadInv, locals, sets, Installed
  <2> QED
    BY <2>1, <2>2 DEF ReadInv, Reading
<1>4. ASSUME NEW t \in Txns, Step(t)
      PROVE  ReadInv'
  <2>1. ASSUME NEW u \in Txns \ {t}
        PROVE  Reading(u)'
    BY <1>4, OthersFixed, ReaderKept
  <2>2. ASSUME NEW u \in Txns \ {t}
        PROVE  /\ Installed(data[u])'
               /\ \A i \in DOMAIN rset'[u] : Installed(rset[u][i].from)'
    BY <1>1, <1>4, OthersFixed DEF ReadInv, Installed
  <2>3. CASE LoadBefore(t)
    <3>1. KeyOf(t) \in Keys
      BY <2>3, KeyOfType DEF LoadBefore, At, TypeOK
    <3>2. /\ word' = word /\ data' = data /\ rset' = rset /\ pc'[t] = "readValue"
          /\ before'[t] = word[KeyOf(t)] /\ word[KeyOf(t)].lock = 0
          /\ KeyOf(t)' = KeyOf(t)
      BY <1>0, <2>3 DEF LoadBefore, shared, sets, queries, Goto, KeyOf
    <3>3. ASSUME NEW w \in Words
          PROVE  ~ Precedes(w, w)
      BY DEF Precedes, Words, Epochs
    <3>4. Reading(t)'
      BY <1>0, <3>1, <3>2, <3>3 DEF Reading
    <3>5. /\ Installed(data[t])'
          /\ \A i \in DOMAIN rset'[t] : Installed(rset[t][i].from)'
      BY <1>1, <3>2 DEF ReadInv, Installed
    <3> QED
      BY <2>1, <2>2, <3>4, <3>5 DEF ReadInv, Reading
  <2>4. CASE LoadValue(t)
    <3>0. PICK k \in Keys : k = KeyOf(t)
      BY <2>4, KeyOfType DEF LoadValue, CursorOK
    <3>1. /\ word' = word /\ rset' = rset /\ before' = before
          /\ data'[t] = value[k] /\ KeyOf(t)' = k
          /\ pc[t] = "readValue" /\ pc'[t] = "readCheck"
      BY <1>0, <2>4, <3>0 DEF LoadValue, shared, sets, queries, Goto, KeyOf
    <3>2. Installed(value[k])
      BY DEF ValueInv
    <3>3. Publishing(k) \/ Unlocked(word[k]) = VersionOfWriter(value[k])
      BY DEF ValueInv
    <3>4. Publishing(k) => Publishing(k)'
      BY <1>4, <2>4, PublishingKept DEF LoadValue, StoreTid
    <3>5. VersionOfWriter(data[t])' = VersionOfWriter(value[k])
      BY <2>4, <3>1 DEF VersionOfWriter, LoadValue, tids
    <3>6. Publishing(KeyOf(t))' = Publishing(k)'
      BY <3>1 DEF Publishing
    <3>7. before[t].lock = 0 /\ ~ Precedes(word[k], before[t])
      BY <1>2, <3>0, <3>1 DEF Reading
    <3>8. Reading(t)'
      BY <3>1, <3>3, <3>4, <3>5, <3>6, <3>7 DEF Reading
    <3>9. /\ Installed(data[t])'
          /\ \A i \in DOMAIN rset'[t] : Installed(rset[t][i].from)'
      BY <1>1, <3>1, <3>2 DEF ReadInv, Installed
    <3> QED
      BY <2>1, <2>2, <3>8, <3>9 DEF ReadInv, Reading
  <2>5. CASE LoadAfter(t)
    <3>1. pc'[t] = "query" /\ data'[t] = NoTxn
      BY <1>0, <2>5 DEF LoadAfter, Goto
    <3>2. Reading(t)' /\ Installed(data[t])'
      BY <3>1 DEF Reading, Installed
    <3>3. \A i \in DOMAIN rset'[t] : Installed(rset[t][i].from)'
      <4>1. CASE rset' = rset
        BY <1>1, <4>1 DEF ReadInv, Installed
      <4>2. ASSUME NEW r, r.from = data[t],
                   rset' = [rset EXCEPT ![t] = Append(@, r)]
            PROVE  \A i \in DOMAIN rset'[t] : Installed(rset[t][i].from)'
        <5>1. \A i \in DOMAIN rset'[t] :
                 rset'[t][i] = r \/ (i \in DOMAIN rset[t] /\ rset'[t][i] = rset[t][i])
          BY <1>0, <4>2
        <5>2. \A i \in DOMAIN rset'[t] : Installed(rset'[t][i].from)
          BY <4>2, <5>1 DEF ReadInv
        <5> QED
          BY <1>1, <5>2 DEF Installed
      <4>3. \/ rset' = rset
            \/ \E r : r.from = data[t] /\ rset' = [rset EXCEPT ![t] = Append(@, r)]
        BY <2>5 DEF LoadAfter
      <4> QED
        BY <4>1, <4>2, <4>3
    <3> QED
      BY <2>1, <2>2, <3>2, <3>3 DEF ReadInv, Reading
  <2>6. CASE ~ (LoadBefore(t) \/ LoadValue(t) \/ LoadAfter(t))
    <3>1. /\ data' = data /\ pc'[t] \notin {"readValue", "readCheck"}
          /\ rset' = rset \/ (rset'[t] = <<>>)
      BY <1>0, <1>4, <2>6 DEF Step, Write, Commit, LockRecord, LoadEpoch,
         ValidateRead, FailValidation, Unlock, Abort, ChooseTid, StoreValue,
         StoreTid, Finish, At, Goto, locals, sets
    <3>2. Reading(t)'
      BY <3>1 DEF Reading
    <3>3. /\ Installed(data[t])'
          /\ \A i \in DOMAIN rset'[t] : Installed(rset[t][i].from)'
      BY <1>1, <3>1 DEF ReadInv, Installed
    <3> QED
      BY <2>1, <2>2, <3>2, <3>3 DEF ReadInv, Reading
  <2> QED
    BY <2>3, <2>4, <2>5, <2>6
<1> QED
  BY <1>3, <1>4 DEF Next

LEMMA SnapshotStep ==
    ASSUME GrowthInv, SnapshotInv, Next
    PROVE  SnapshotReads'
<1> USE DEF GrowthInv, TypeInv, SnapshotInv
<1>0. /\ word \in [Keys -> Words] /\ rset \in [Txns -> Seq(ReadElements)]
  BY DEF TypeOK
<1>1. \A v : Installed(v) => VersionOfWriter(v)' = VersionOfWriter(v)
  BY VersionStable
<1>2. ASSUME NEW u \in Txns, rset'[u] = rset[u] \/ rset'[u] = <<>>,
             NEW i \in DOMAIN rset'[u]
      PROVE  rset'[u][i].word = VersionOfWriter(rset[u][i].from)'
  <2>1. rset'[u] = rset[u] /\ i \in DOMAIN rset[u]
    BY <1>2
  <2>2. rset[u][i].word = VersionOfWriter(rset[u][i].from)
        /\ Installed(rset[u][i].from)
    BY <2>1 DEF SnapshotReads, ReadInv
  <2> QED
    BY <1>1, <2>1, <2>2 DEF VersionOfWriter
<1>3. CASE AdvanceEpoch
  BY <1>2, <1>3 DEF AdvanceEpoch, sets, SnapshotReads
<1>4. ASSUME NEW t \in Txns, Step(t)
      PROVE  SnapshotReads'
  <2>1. CASE ~ LoadAfter(t)
    <3>1. rset'[t] = rset[t] \/ rset'[t] = <<>>
      BY <1>0, <1>4, <2>1 DEF Step, LoadBefore, LoadValue, Write, Commit,
         LockRecord, LoadEpoch, ValidateRead, FailValidation, Unlock, Abort,
         ChooseTid, StoreValue, StoreTid, Finish, sets
    <3> QED
      BY <1>2, <1>4, <3>1, OthersFixed DEF SnapshotReads
  <2>2. CASE LoadAfter(t) /\ ~ SameWord(before[t], word[KeyOf(t)])
    BY <1>2, <2>2 DEF LoadAfter, SnapshotReads
  <2>3. CASE LoadAfter(t) /\ SameWord(before[t], word[KeyOf(t)])
    <3> DEFINE k == KeyOf(t)
               r == [key |-> k, word |-> word[k], from |-> data[t]]
    <3>1. k \in Keys /\ pc[t] = "readCheck"
      BY <2>3, KeyOfType DEF LoadAfter, CursorOK
    <3>2. before[t] = word[k] /\ word[k].lock = 0 /\ Installed(data[t])
      BY <2>3, <3>1 DEF SameWord, ReadInv
    <3>3. Unlocked(word[k]) = word[k]
      BY <1>0, <3>1, <3>2 DEF Unlocked, Words
    <3>4. ~ Publishing(k)
      BY <3>1, <3>2, PublishingLocked
    <3>5. word[k] = VersionOfWriter(data[t])
      BY <3>1, <3>2, <3>3, <3>4 DEF ReadInv
    <3>6. rset' = [rset EXCEPT ![t] = Append(@, r)]
          /\ mostRecentlyChosenTid' = mostRecentlyChosenTid
      BY <2>3 DEF LoadAfter, tids
    <3>7. r.word = word[k] /\ r.from = data[t]
      OBVIOUS
    <3> HIDE DEF r, k
    <3>8. ASSUME NEW i \in DOMAIN rset'[t]
          PROVE  rset'[t][i].word = VersionOfWriter(rset[t][i].from)'
      <4>1. \/ rset'[t][i] = r
            \/ i \in DOMAIN rset[t] /\ rset'[t][i] = rset[t][i]
        BY <1>0, <3>6
      <4>2. rset'[t][i].word = VersionOfWriter(rset'[t][i].from)
        BY <3>5, <3>7, <4>1 DEF SnapshotReads
      <4> QED
        BY <3>6, <4>2 DEF VersionOfWriter
    <3>9. \A u \in Txns \ {t} : rset'[u] = rset[u]
      BY <3>6
    <3> QED
      BY <1>2, <3>8, <3>9 DEF SnapshotReads
  <2> QED
    BY <2>1, <2>2, <2>3
<1> QED
  BY <1>3, <1>4 DEF Next

LEMMA SnapshotStutter ==
    ASSUME SnapshotInv, UNCHANGED vars
    PROVE  SnapshotInv'
BY DEF SnapshotInv, ValueInv, ReadInv, SnapshotReads, Installed, Chosen,
       Publishing, VersionOfWriter, KeyOf, vars, shared, queries, locals, sets, tids

LEMMA SnapshotsHold == Spec => [](GrowthInv /\ SnapshotInv)
<1>1. GrowthInv /\ SnapshotInv /\ [Next]_vars => SnapshotInv'
  <2>1. ASSUME GrowthInv, SnapshotInv, Next
        PROVE  SnapshotInv'
    BY <2>1, ValueStep, ReadStep, SnapshotStep DEF SnapshotInv
  <2> QED
    BY <2>1, SnapshotStutter
<1> QED
  BY Growing, SnapshotInit, <1>1, PTL DEF Spec

\* The value a read returns is the one installed with the TID word it puts in
\* RSet, although two loads of the word and one of the value are separate steps.
THEOREM ReadsAreSnapshots == Spec => []SnapshotReads
<1>1. SnapshotInv => SnapshotReads
  BY DEF SnapshotInv
<1> QED
  BY SnapshotsHold, <1>1, PTL

-----------------------------------------------------------------------------
(* The history                                                             *)

\* The history has one record for each transaction that chose a TID.
HistoryInv ==
    /\ \A h \in history :
          /\ h.id \in Chosen
          /\ h.tid = mostRecentlyChosenTid[h.id]
          /\ pc[h.id] # "committed" => h.writes = Range(wset[h.id])
          /\ \A r \in h.reads : Installed(r.from)
    /\ \A g, h \in history : g.id = h.id => g = h
    /\ \A t \in Chosen : \E h \in history : h.id = t

LEMMA HistoryInit == Init => HistoryInv
BY DEF Init, HistoryInv, Chosen

\* What no step but the choice of a TID changes.
LEMMA HistoryFrame ==
    ASSUME TypeInv, NEW t \in Txns, Step(t), ~ ChooseTid(t)
    PROVE  /\ history' = history
           /\ mostRecentlyChosenTid' = mostRecentlyChosenTid
           /\ \A u \in Txns : u \in Chosen' <=> u \in Chosen
           /\ \A u \in Chosen : pc'[u] # "committed" =>
                 pc[u] # "committed" /\ wset'[u] = wset[u]
<1> USE DEF TypeInv, shared, queries, locals, sets, tids, Goto
<1>0. pc \in [Txns -> Labels] /\ wset \in [Txns -> Seq(Keys)]
  BY DEF TypeOK
<1>1. CASE \/ LoadBefore(t) \/ LoadValue(t) \/ LoadAfter(t) \/ Write(t) \/ Commit(t)
  BY <1>0, <1>1 DEF LoadBefore, LoadValue, LoadAfter, Write, Commit, At, Chosen
<1>2. CASE \/ LockRecord(t) \/ LoadEpoch(t) \/ ValidateRead(t)
           \/ FailValidation(t) \/ Unlock(t) \/ Abort(t)
  BY <1>0, <1>2 DEF LockRecord, LoadEpoch, ValidateRead, FailValidation, Unlock, Abort,
     Chosen
<1>3. CASE StoreValue(t) \/ StoreTid(t) \/ Finish(t)
  BY <1>0, <1>3 DEF StoreValue, StoreTid, Finish, Chosen
<1> QED
  BY <1>1, <1>2, <1>3 DEF Step

LEMMA ChooseTidHistory ==
    ASSUME TypeInv, NEW t \in Txns, ChooseTid(t)
    PROVE  /\ history' = history \cup {CommitRecord(t)}
           /\ mostRecentlyChosenTid'[t] = ChosenTid(t)
           /\ wset' = wset /\ rset' = rset /\ word' = word /\ value' = value
           /\ pc[t] = "validate" /\ pc'[t] = "install" /\ t \notin Chosen
           /\ \A u \in Txns : u \in Chosen' <=> u \in Chosen \/ u = t
           /\ \A u \in Txns \ {t} :
                 /\ pc'[u] = pc[u] /\ idx'[u] = idx[u]
                 /\ mostRecentlyChosenTid'[u] = mostRecentlyChosenTid[u]
BY DEF ChooseTid, TypeInv, TypeOK, shared, sets, Goto, Chosen

LEMMA HistoryStep ==
    ASSUME GrowthInv, SnapshotInv, HistoryInv, Next
    PROVE  HistoryInv'
<1> USE DEF GrowthInv
<1>1. \A v : Installed(v) => Installed(v)'
  BY VersionStable
<1>2. CASE AdvanceEpoch
  BY <1>1, <1>2 DEF AdvanceEpoch, HistoryInv, Chosen, sets, tids
<1>3. ASSUME NEW t \in Txns, Step(t), ~ ChooseTid(t)
      PROVE  HistoryInv'
  <2>1. Chosen \subseteq Txns /\ Chosen' = Chosen
    BY <1>3, HistoryFrame DEF Chosen
  <2> QED
    BY <1>1, <1>3, <2>1, HistoryFrame DEF HistoryInv
<1>4. ASSUME NEW t \in Txns, ChooseTid(t)
      PROVE  HistoryInv'
  <2> DEFINE new == CommitRecord(t)
  <2>1. /\ new.id = t /\ new.tid = mostRecentlyChosenTid'[t]
        /\ new.writes = Range(wset'[t])
    BY <1>4, ChooseTidHistory DEF TypeInv, CommitRecord
  <2>2. ASSUME NEW r \in new.reads PROVE Installed(r.from)'
    <3>1. PICK q \in Range(rset[t]) : r = [key |-> q.key, from |-> q.from]
      BY <2>2 DEF CommitRecord
    <3>2. PICK i \in DOMAIN rset[t] : q = rset[t][i]
      BY <3>1 DEF Range
    <3> QED
      BY <1>1, <3>1, <3>2 DEF SnapshotInv, ReadInv
  <2>3. \A h \in history : h.id \in Chosen /\ h.id # t
    BY <1>4, ChooseTidHistory DEF TypeInv, HistoryInv
  <2> HIDE DEF new
  <2>4. history' = history \cup {new}
    BY <1>4, ChooseTidHistory DEF TypeInv, new
  <2>5. ASSUME NEW h \in history'
        PROVE  /\ h.id \in Chosen'
               /\ h.tid = mostRecentlyChosenTid'[h.id]
               /\ pc'[h.id] # "committed" => h.writes = Range(wset'[h.id])
               /\ \A r \in h.reads : Installed(r.from)'
    <3>1. CASE h = new
      BY <1>4, <2>1, <2>2, <3>1, ChooseTidHistory
    <3>2. CASE h \in history
      <4>1. h.id \in Chosen /\ h.id \in Txns \ {t}
        BY <2>3, <3>2 DEF Chosen
      <4> QED
        BY <1>1, <1>4, <3>2, <4>1, ChooseTidHistory DEF HistoryInv
    <3> QED
      BY <2>4, <2>5, <3>1, <3>2
  <2>6. \A g, h \in history' : g.id = h.id => g = h
    BY <2>1, <2>3, <2>4 DEF HistoryInv
  <2>7. \A u \in Chosen' : \E h \in history' : h.id = u
    <3> SUFFICES ASSUME NEW u \in Chosen' PROVE \E h \in history' : h.id = u
      OBVIOUS
    <3>1. u \in Txns /\ (u \in Chosen \/ u = t)
      BY <1>4, ChooseTidHistory DEF Chosen
    <3> QED
      BY <2>1, <2>4, <3>1 DEF HistoryInv
  <2> QED
    BY <2>5, <2>6, <2>7 DEF HistoryInv
<1> QED
  BY <1>2, <1>3, <1>4 DEF Next

LEMMA HistoryStutter ==
    ASSUME HistoryInv, UNCHANGED vars
    PROVE  HistoryInv'
BY DEF HistoryInv, Chosen, Installed, vars, sets, tids

-----------------------------------------------------------------------------
(* What is in the records                                                  *)

\* What h wrote in k is still there, or something newer is.
Overwritten(h, k) ==
    /\ ~ Precedes(word[k], h.tid)
    /\ Unlocked(word[k]) = h.tid => value[k] = h.id \/ Publishing(k)

StillHeld(h, k) == \E i \in HeldPositions(h.id) : wset[h.id][i] = k

InstalledInv ==
    /\ \A k \in Keys : value[k] # NoTxn =>
          \E h \in history : h.id = value[k] /\ k \in h.writes
    /\ \A h \in history : \A k \in h.writes : StillHeld(h, k) \/ Overwritten(h, k)

LEMMA InstalledInit == Init => InstalledInv
BY DEF Init, InstalledInv

\* A step that stores neither a value nor a TID leaves the records as they are
\* but for a lock bit.
LEMMA RecordsKept ==
    ASSUME TypeOK, NEW t \in Txns, Step(t), ~ StoreValue(t), ~ StoreTid(t)
    PROVE  /\ value' = value
           /\ \A k \in Keys : Unlocked(word'[k]) = Unlocked(word[k])
           /\ \A k : Publishing(k) => Publishing(k)'
<1>1. value' = value
  BY DEF Step, LoadBefore, LoadValue, LoadAfter, Write, Commit, LockRecord,
         LoadEpoch, ValidateRead, FailValidation, Unlock, Abort, ChooseTid, Finish,
         shared
<1>2. CASE LockRecord(t) \/ Unlock(t)
  BY <1>1, <1>2, RelockKeepsTid, PublishingKept
<1>3. CASE ~ (LockRecord(t) \/ Unlock(t))
  <2>1. word' = word
    BY <1>3 DEF Step, LoadBefore, LoadValue, LoadAfter, Write, Commit,
       LoadEpoch, ValidateRead, FailValidation, Abort, ChooseTid, Finish, shared
  <2> QED
    BY <1>1, <2>1, PublishingKept
<1> QED
  BY <1>2, <1>3

LEMMA InstalledStep ==
    ASSUME GrowthInv, SnapshotInv, HistoryInv, InstalledInv, Next
    PROVE  InstalledInv'
<1> USE DEF GrowthInv
<1>0. /\ pc \in [Txns -> Labels] /\ idx \in [Txns -> Nat \ {0}]
      /\ wset \in [Txns -> Seq(Keys)] /\ value \in [Keys -> Values]
      /\ word \in [Keys -> Words] /\ word' \in [Keys -> Words]
      /\ mostRecentlyChosenTid \in [Txns -> Words]
      /\ \A h \in history : h.id \in Txns /\ h.tid \in Words /\ h.writes \subseteq Keys
  BY TypeStep DEF TypeInv, TypeOK, Commits
<1>1. CASE AdvanceEpoch
  BY <1>1 DEF AdvanceEpoch, InstalledInv, StillHeld, Overwritten, HeldPositions, Publishing,
     sets
<1>2. ASSUME NEW t \in Txns, Step(t), ~ StoreValue(t), ~ StoreTid(t), ~ ChooseTid(t)
      PROVE  InstalledInv'
  <2>1. history' = history /\ value' = value
    BY <1>2, HistoryFrame, RecordsKept DEF TypeInv
  <2>2. ASSUME NEW h \in history, NEW k \in h.writes, Overwritten(h, k)
        PROVE  Overwritten(h, k)'
    <3>1. k \in Keys /\ h.tid \in Words
      BY <1>0
    <3>2. Unlocked(word'[k]) = Unlocked(word[k]) /\ (Publishing(k) => Publishing(k)')
      BY <1>2, <3>1, RecordsKept DEF TypeInv
    <3>3. Precedes(word'[k], h.tid) <=> Precedes(word[k], h.tid)
      BY <1>0, <3>1, <3>2, PrecedesOrder
    <3> QED
      BY <2>1, <2>2, <3>2, <3>3 DEF Overwritten
  <2>3. ASSUME NEW h \in history, NEW k \in h.writes, StillHeld(h, k)
        PROVE  StillHeld(h, k)'
    <3>1. CASE h.id # t
      BY <1>0, <1>2, <2>3, <3>1, OthersFixed, ZenonT(60) DEF StillHeld, HeldPositions, TypeInv
    <3>2. CASE h.id = t
      <4>1. pc[t] \in {"install", "publish", "committed"}
        BY <3>2 DEF HistoryInv, Chosen
      <4>2. Finish(t)
        BY <1>2, <4>1 DEF Step, LoadBefore, LoadValue, LoadAfter, Write, Commit, LockRecord,
           LoadEpoch, ValidateRead, FailValidation, Unlock, Abort, At
      <4>3. HeldPositions(t) = {}
        BY <1>0, <4>2 DEF Finish, HeldPositions
      <4> QED
        BY <2>3, <3>2, <4>3 DEF StillHeld
    <3> QED
      BY <3>1, <3>2
  <2> QED
    BY <2>1, <2>2, <2>3 DEF InstalledInv
<1>3. ASSUME NEW t \in Txns, ChooseTid(t)
      PROVE  InstalledInv'
  <2>0. PICK new : new = CommitRecord(t)
    OBVIOUS
  <2>1. /\ history' = history \cup {new} /\ word' = word /\ value' = value /\ wset' = wset
        /\ idx'[t] = 1 /\ pc'[t] = "install"
        /\ \A u \in Txns \ {t} : pc'[u] = pc[u] /\ idx'[u] = idx[u]
    BY <1>0, <1>3, <2>0, ChooseTidHistory DEF ChooseTid, TypeInv
  <2>2. \A k : Publishing(k) => Publishing(k)'
    BY <1>0, <1>3, RecordsKept DEF ChooseTid, StoreValue, StoreTid, TypeInv, Step
  <2>3. \A h \in history : h.id \in Txns \ {t}
    BY <1>3, ChooseTidHistory DEF HistoryInv, Chosen, TypeInv
  <2>4. ASSUME NEW h \in history, NEW k \in h.writes
        PROVE  (StillHeld(h, k) \/ Overwritten(h, k))'
    <3>1. StillHeld(h, k) => StillHeld(h, k)'
      BY <2>1, <2>3 DEF StillHeld, HeldPositions
    <3>2. Overwritten(h, k) => Overwritten(h, k)'
      BY <2>1, <2>2 DEF Overwritten
    <3> QED
      BY <3>1, <3>2 DEF InstalledInv
  <2>5. ASSUME NEW k \in new.writes PROVE StillHeld(new, k)'
    <3>1. new.id = t /\ k \in Range(wset[t])
      BY <2>0, <2>5 DEF CommitRecord
    <3>2. PICK i \in DOMAIN wset[t] : wset[t][i] = k
      BY <3>1 DEF Range
    <3>3. i \in HeldPositions(t)'
      BY <1>0, <2>1, <3>2 DEF HeldPositions
    <3> QED
      BY <2>1, <3>1, <3>2, <3>3 DEF StillHeld
  <2> QED
    BY <2>1, <2>4, <2>5 DEF InstalledInv
<1>4. ASSUME NEW t \in Txns, StoreValue(t)
      PROVE  InstalledInv'
  <2>0. PICK k0 \in Keys : k0 = wset[t][idx[t]] /\ idx[t] \in DOMAIN wset[t]
    BY <1>0, <1>4 DEF StoreValue
  <2>1. /\ history' = history /\ word' = word /\ wset' = wset /\ idx' = idx
        /\ pc[t] = "install" /\ pc'[t] = "publish"
        /\ \A u \in Txns \ {t} : pc'[u] = pc[u]
        /\ value'[k0] = t /\ \A k \in Keys \ {k0} : value'[k] = value[k]
    BY <1>0, <1>4, <2>0 DEF StoreValue, sets, Goto
  <2>2. \A u \in Txns : HeldPositions(u)' = HeldPositions(u)
    BY <1>0, <2>1 DEF HeldPositions
  <2>3. Publishing(k0)' /\ \A k : Publishing(k) => Publishing(k)'
    BY <2>0, <2>1 DEF Publishing
  <2>4. \A h \in history : \A k \in h.writes : (StillHeld(h, k) \/ Overwritten(h, k))'
    BY <1>0, <2>1, <2>2, <2>3 DEF InstalledInv, StillHeld, Overwritten
  <2>5. \E h \in history : h.id = t /\ k0 \in h.writes
    <3>1. t \in Chosen
      BY <2>1 DEF Chosen
    <3>2. k0 \in Range(wset[t])
      BY <2>0 DEF Range
    <3> QED
      BY <2>1, <3>1, <3>2 DEF HistoryInv
  <2>6. \A k \in Keys : value'[k] # NoTxn =>
            \E h \in history : h.id = value'[k] /\ k \in h.writes
    BY <2>1, <2>5 DEF InstalledInv
  <2> QED
    BY <2>1, <2>4, <2>6 DEF InstalledInv
<1>5. ASSUME NEW t \in Txns, StoreTid(t)
      PROVE  InstalledInv'
  <2>0. PICK k0 \in Keys : k0 = wset[t][idx[t]] /\ idx[t] \in DOMAIN wset[t]
    BY <1>0, <1>5 DEF StoreTid, TypeInv, CursorOK
  <2>1. /\ history' = history /\ value' = value /\ wset' = wset
        /\ pc[t] = "publish" /\ pc'[t] = "install" /\ idx'[t] = idx[t] + 1
        /\ \A u \in Txns \ {t} : pc'[u] = pc[u] /\ idx'[u] = idx[u]
        /\ word'[k0] = mostRecentlyChosenTid[t]
        /\ \A k \in Keys \ {k0} : word'[k] = word[k]
    BY <1>0, <1>5, <2>0 DEF StoreTid, sets, Goto
  <2>2. idx[t] \in HeldPositions(t) /\ value[k0] = t
    BY <1>0, <2>0, <2>1 DEF HeldPositions, SnapshotInv, ValueInv
  <2>3. /\ Precedes(word[k0], mostRecentlyChosenTid[t]) /\ mostRecentlyChosenTid[t].lock = 0
        /\ mostRecentlyChosenTid[t] \in Words
    BY <1>0, <2>0, <2>1, <2>2 DEF GrowInv, LockInv, ChosenUnlocked
  <2>4. \A k \in Keys \ {k0} : Publishing(k) => Publishing(k)'
    BY <2>0, <2>1 DEF Publishing
  <2>5. ASSUME NEW h \in history, k0 \in h.writes PROVE Overwritten(h, k0)'
    <3>1. CASE h.id = t
      <4>1. h.tid = mostRecentlyChosenTid[t]
        BY <3>1 DEF HistoryInv
      <4> QED
        BY <2>1, <2>2, <2>3, <3>1, <4>1, PrecedesOrder DEF Overwritten
    <3>2. CASE h.id # t
      <4>1. ~ StillHeld(h, k0)
        BY <1>0, <2>0, <2>2, <3>2 DEF StillHeld, LockInv, LocksExclusive
      <4>2. ~ Precedes(word[k0], h.tid) /\ h.tid \in Words
        BY <1>0, <2>5, <4>1 DEF InstalledInv, Overwritten
      <4>3. ~ Precedes(mostRecentlyChosenTid[t], h.tid)
        BY <1>0, <2>3, <4>2, PrecedesOrder
      <4>4. mostRecentlyChosenTid[t] # h.tid
        BY <1>0, <2>3, <4>2
      <4> QED
        BY <2>1, <2>3, <4>3, <4>4, PrecedesOrder DEF Overwritten
    <3> QED
      BY <3>1, <3>2
  <2>6. ASSUME NEW h \in history, NEW k \in h.writes, k # k0
        PROVE  (StillHeld(h, k) \/ Overwritten(h, k))'
    <3>0. k \in Keys /\ h.id \in Txns
      BY <1>0
    <3>1. CASE Overwritten(h, k)
      BY <2>1, <2>4, <2>6, <3>0, <3>1 DEF Overwritten
    <3>2. CASE StillHeld(h, k)
      <4>1. PICK i \in HeldPositions(h.id) : wset[h.id][i] = k
        BY <3>2 DEF StillHeld
      <4>2. i \in HeldPositions(h.id)'
        BY <1>0, <2>0, <2>1, <2>6, <3>0, <4>1 DEF HeldPositions
      <4> QED
        BY <2>1, <4>1, <4>2 DEF StillHeld
    <3> QED
      BY <3>1, <3>2 DEF InstalledInv
  <2> QED
    BY <2>1, <2>5, <2>6 DEF InstalledInv
<1> QED
  BY <1>1, <1>2, <1>3, <1>4, <1>5 DEF Next

LEMMA InstalledStutter ==
    ASSUME InstalledInv, UNCHANGED vars
    PROVE  InstalledInv'
BY DEF InstalledInv, StillHeld, Overwritten, HeldPositions, Publishing, vars, shared, sets

\* No record is older than a transaction has seen it.
SeenInv ==
    \A t \in Txns : \A i \in DOMAIN rset[t] :
        ~ Precedes(word[rset[t][i].key], rset[t][i].word)

LEMMA SeenInit == Init => SeenInv
BY DEF Init, SeenInv

LEMMA SeenStep ==
    ASSUME GrowthInv, SeenInv, Next
    PROVE  SeenInv'
<1> USE DEF GrowthInv
<1>0. /\ word \in [Keys -> Words] /\ word' \in [Keys -> Words]
      /\ rset \in [Txns -> Seq(ReadElements)]
  BY TypeStep DEF TypeInv, TypeOK
<1>1. ASSUME NEW k \in Keys, NEW w \in Words, ~ Precedes(word[k], w)
      PROVE  ~ Precedes(word'[k], w)
  <2>1. \/ Unlocked(word'[k]) = Unlocked(word[k])
        \/ WordLess(Unlocked(word[k]), word'[k])
    BY GrowAction DEF TidGrows
  <2>2. CASE Unlocked(word'[k]) = Unlocked(word[k])
    BY <1>0, <1>1, <2>2, PrecedesOrder
  <2>3. CASE WordLess(Unlocked(word[k]), word'[k])
    <3>1. \A a \in Words : a.epoch \in Nat /\ a.tid \in Nat
                          /\ Unlocked(a).epoch = a.epoch /\ Unlocked(a).tid = a.tid
      BY WidthAssumption DEF Words, Epochs, Unlocked
    <3> QED
      BY <1>0, <1>1, <2>3, <3>1 DEF WordLess, Precedes
  <2> QED
    BY <2>1, <2>2, <2>3
<1>2. ASSUME NEW u \in Txns, NEW i \in DOMAIN rset[u]
      PROVE  /\ rset[u][i].key \in Keys /\ rset[u][i].word \in Words
             /\ ~ Precedes(word'[rset[u][i].key], rset[u][i].word)
  <2>1. rset[u][i] \in ReadElements
    BY <1>0, <1>2
  <2>2. rset[u][i].key \in Keys /\ rset[u][i].word \in Words
    BY <2>1 DEF ReadElements
  <2> QED
    BY <1>1, <1>2, <2>2 DEF SeenInv
<1>3. CASE \A u \in Txns : rset'[u] = rset[u] \/ rset'[u] = <<>>
  BY <1>2, <1>3 DEF SeenInv
<1>4. ASSUME NEW t \in Txns, LoadAfter(t)
      PROVE  SeenInv'
  <2> DEFINE e == [key |-> KeyOf(t), word |-> word[KeyOf(t)], from |-> data[t]]
  <2>1. /\ word' = word /\ \A u \in Txns \ {t} : rset'[u] = rset[u]
        /\ rset'[t] = rset[t] \/ rset'[t] = Append(rset[t], e)
    BY <1>0, <1>4 DEF LoadAfter, shared
  <2>2. KeyOf(t) \in Keys /\ e \in ReadElements
    <3>1. op[t] \in DOMAIN prog[t]
      BY <1>4 DEF LoadAfter, TypeInv, CursorOK
    <3>2. KeyOf(t) \in Keys
      BY <3>1, KeyOfType DEF TypeInv
    <3>3. data[t] \in Values
      BY DEF TypeInv, TypeOK
    <3> QED
      BY <1>0, <3>2, <3>3 DEF ReadElements
  <2>3. ~ Precedes(word'[e.key], e.word)
    BY <1>0, <2>1, <2>2, PrecedesOrder
  <2> HIDE DEF e
  <2>4. ASSUME NEW i \in DOMAIN rset'[t] PROVE rset'[t][i] = e \/
               (i \in DOMAIN rset[t] /\ rset'[t][i] = rset[t][i])
    BY <1>0, <2>1, <2>2, <2>4, SMTT(30)
  <2> QED
    BY <1>2, <2>1, <2>3, <2>4 DEF SeenInv
<1>5. ASSUME NEW t \in Txns, Step(t), ~ LoadAfter(t)
      PROVE  \A u \in Txns : rset'[u] = rset[u] \/ rset'[u] = <<>>
  BY <1>0, <1>5 DEF Step, LoadBefore, LoadValue, Write, Commit, LockRecord, LoadEpoch,
     ValidateRead, FailValidation, Unlock, Abort, ChooseTid, StoreValue, StoreTid, Finish, sets
<1>6. AdvanceEpoch => rset' = rset
  BY DEF AdvanceEpoch, sets
<1> QED
  BY <1>3, <1>4, <1>5, <1>6 DEF Next

LEMMA SeenStutter ==
    ASSUME SeenInv, UNCHANGED vars
    PROVE  SeenInv'
BY DEF SeenInv, vars, shared, sets

RecordsInv == GrowthInv /\ SnapshotInv /\ HistoryInv /\ InstalledInv /\ SeenInv

LEMMA RecordsHold == Spec => []RecordsInv
<1>1. Init => HistoryInv /\ InstalledInv /\ SeenInv
  BY HistoryInit, InstalledInit, SeenInit
<1>2. GrowthInv /\ SnapshotInv /\ HistoryInv /\ InstalledInv /\ SeenInv /\ [Next]_vars =>
          HistoryInv' /\ InstalledInv' /\ SeenInv'
  BY HistoryStep, HistoryStutter, InstalledStep, InstalledStutter, SeenStep, SeenStutter
<1> QED
  BY <1>1, <1>2, SnapshotsHold, PTL DEF Spec, RecordsInv

-----------------------------------------------------------------------------
(* The serial order                                                        *)

\* A transaction of the history wrote a version of r's record with the tid of
\* the version r saw and another epoch.
Collides(r) ==
    \E g \in history :
        /\ r.key \in g.writes
        /\ r.word.tid = g.tid.tid /\ r.word.epoch # g.tid.epoch

\* pos puts t, which saw what r says, before who overwrites it.
Before(pos, t, r) ==
    /\ \A h \in history :
          r.key \in h.writes /\ WordLess(r.word, h.tid) => pos[t] < pos[h.id]
    /\ \A u \in Txns \ {t} :
          pc[u] = "validate" /\ r.key \in Range(wset[u]) => pos[t] < pos[u]

\* pos agrees with the conflicts of the committed transactions.
EdgesOrdered(pos) ==
    \A a, b \in history :
        /\ (\E r \in b.reads : r.from = a.id) => pos[a.id] < pos[b.id]
        /\ a.writes \cap b.writes # {} /\ WordLess(a.tid, b.tid) => pos[a.id] < pos[b.id]
        /\ a # b /\ (\E r \in a.reads : /\ r.key \in b.writes
                                        /\ WordLess(VersionOfWriter(r.from), b.tid))
           => pos[a.id] < pos[b.id]

\* A transaction that validates comes after those it read from and those that
\* read or wrote what it holds, and before those that overwrite what it has
\* validated.
Sources(pos, t) ==
    \A i \in DOMAIN rset[t] : rset[t][i].from # NoTxn => pos[rset[t][i].from] < pos[t]

Predecessors(pos, t) ==
    \A h \in history :
        /\ h.writes \cap Range(wset[t]) # {} => pos[h.id] < pos[t]
        /\ (\E r \in h.reads : r.key \in Range(wset[t])) => pos[h.id] < pos[t]

Successors(pos, t) ==
    \A i \in 1 .. (idx[t] - 1) :
        Collides(rset[t][i]) \/ Before(pos, t, rset[t][i])

\* The transactions that loaded the epoch, in the order in which they did.
Serial(pos, n) ==
    /\ \A t \in Txns : pos[t] < n
    /\ EdgesOrdered(pos)
    /\ \A t \in Txns : pc[t] = "validate" =>
          Sources(pos, t) /\ Predecessors(pos, t) /\ Successors(pos, t)

SerialInv == EpochCollision \/ \E pos \in [Txns -> Nat], n \in Nat : Serial(pos, n)

LEMMA SerialInit == Init => SerialInv
<1> SUFFICES ASSUME Init PROVE SerialInv
  OBVIOUS
<1> DEFINE pos == [t \in Txns |-> 0]
<1>1. pos \in [Txns -> Nat] /\ \A t \in Txns : pos[t] < 1
  OBVIOUS
<1>2. Serial(pos, 1)
  BY <1>1 DEF Init, Serial, EdgesOrdered
<1> QED
  BY <1>1, <1>2 DEF SerialInv

\* The version of a record is the TID its writer chose.
VersionsAgree == \A v : Installed(v) => VersionOf(history, v) = VersionOfWriter(v)

LEMMA VersionIs == HistoryInv => VersionsAgree
<1> SUFFICES ASSUME HistoryInv, NEW v, Installed(v)
             PROVE  VersionOf(history, v) = VersionOfWriter(v)
  BY DEF VersionsAgree
<1>1. CASE v = NoTxn
  BY <1>1 DEF VersionOf, VersionOfWriter
<1>2. CASE v # NoTxn
  <2>1. PICK h \in history : h.id = v
    BY <1>2 DEF Installed, HistoryInv
  <2>2. (CHOOSE g \in history : g.id = v) = h
    BY <2>1 DEF HistoryInv
  <2> QED
    BY <1>2, <2>1, <2>2 DEF VersionOf, VersionOfWriter, HistoryInv
<1> QED
  BY <1>1, <1>2

LEMMA HistoryGrows == Next => history \subseteq history'
BY DEF Next, AdvanceEpoch, Step, LoadBefore, LoadValue, LoadAfter, Write, Commit, LockRecord,
       LoadEpoch, ValidateRead, FailValidation, Unlock, Abort, ChooseTid, StoreValue,
       StoreTid, Finish

LEMMA CollisionKept ==
    ASSUME RecordsInv, RecordsInv', EpochCollision, Next
    PROVE  EpochCollision'
<1>1. PICK h \in history, g \in history :
          \E r \in h.reads : /\ r.key \in g.writes
                            /\ VersionOf(history, r.from).tid = g.tid.tid
                            /\ VersionOf(history, r.from).epoch # g.tid.epoch
  BY DEF EpochCollision
<1>2. PICK r \in h.reads : /\ r.key \in g.writes
                          /\ VersionOf(history, r.from).tid = g.tid.tid
                          /\ VersionOf(history, r.from).epoch # g.tid.epoch
  BY <1>1
<1>3. /\ Installed(r.from) /\ Installed(r.from)'
      /\ VersionOfWriter(r.from)' = VersionOfWriter(r.from)
  BY VersionStable DEF RecordsInv, GrowthInv, HistoryInv
<1>4. VersionsAgree /\ VersionsAgree'
  <2>1. HistoryInv' => VersionsAgree'
    BY VersionIs, PTL
  <2> QED
    BY <2>1, VersionIs DEF RecordsInv
<1>5. VersionOf(history', r.from) = VersionOf(history, r.from)
  BY <1>3, <1>4 DEF VersionsAgree
<1>6. h \in history' /\ g \in history'
  BY HistoryGrows
<1> QED
  BY <1>2, <1>5, <1>6 DEF EpochCollision

\* While the history is what it was, its conflicts are.
LEMMA EdgesKept ==
    ASSUME RecordsInv, Next, history' = history, NEW pos, EdgesOrdered(pos)
    PROVE  EdgesOrdered(pos)'
<1>1. \A h \in history : \A r \in h.reads :
          VersionOfWriter(r.from)' = VersionOfWriter(r.from)
  BY VersionStable DEF RecordsInv, GrowthInv, HistoryInv
<1>2. ASSUME NEW a \in history, NEW b \in history,
             NEW r \in a.reads, r.key \in b.writes,
             WordLess(VersionOfWriter(r.from)', b.tid)
      PROVE  WordLess(VersionOfWriter(r.from), b.tid)
  BY <1>1, <1>2
<1> QED
  BY <1>2 DEF EdgesOrdered

\* A step after which no more transactions validate than before.
LEMMA SerialFrame ==
    ASSUME RecordsInv, Next, history' = history,
           NEW pos, NEW n, Serial(pos, n),
           \A t \in Txns : pc'[t] = "validate" =>
              /\ pc[t] = "validate" /\ idx'[t] = idx[t]
              /\ rset'[t] = rset[t] /\ wset'[t] = wset[t]
    PROVE  Serial(pos, n)'
<1>1. EdgesOrdered(pos)'
  BY EdgesKept DEF Serial
<1>2. ASSUME NEW t \in Txns, pc'[t] = "validate"
      PROVE  Sources(pos, t)' /\ Predecessors(pos, t)' /\ Successors(pos, t)'
  <2>1. /\ pc[t] = "validate" /\ idx'[t] = idx[t]
        /\ rset'[t] = rset[t] /\ wset'[t] = wset[t]
    BY <1>2
  <2>2. Sources(pos, t) /\ Predecessors(pos, t) /\ Successors(pos, t)
    BY <2>1 DEF Serial
  <2>3. Sources(pos, t)' /\ Predecessors(pos, t)'
    BY <2>1, <2>2 DEF Sources, Predecessors
  <2>4. \A r : Collides(r) => Collides(r)'
    BY DEF Collides
  <2>5. \A r : Before(pos, t, r) => Before(pos, t, r)'
    BY DEF Before
  <2>6. Successors(pos, t)'
    BY <2>1, <2>2, <2>4, <2>5 DEF Successors
  <2> QED
    BY <2>3, <2>6
<1> QED
  BY <1>1, <1>2 DEF Serial

\* A transaction that loads the epoch is the last so far.
LEMMA SerialLoadEpoch ==
    ASSUME RecordsInv, NEW t \in Txns, LoadEpoch(t),
           NEW pos \in [Txns -> Nat], NEW n \in Nat, Serial(pos, n)
    PROVE  Serial([pos EXCEPT ![t] = n], n + 1)'
<1> DEFINE new == [pos EXCEPT ![t] = n]
<1>0. /\ pc \in [Txns -> Labels] /\ idx \in [Txns -> Nat \ {0}]
      /\ \A h \in history : h.id \in Txns
  BY DEF RecordsInv, GrowthInv, TypeInv, TypeOK, Commits
<1>1. /\ history' = history /\ rset' = rset /\ wset' = wset
      /\ pc[t] = "lock" /\ idx'[t] = 1 /\ pc'[t] = "validate"
      /\ \A u \in Txns \ {t} : pc'[u] = pc[u] /\ idx'[u] = idx[u]
  BY <1>0 DEF LoadEpoch, sets, Goto
<1>2. t \notin Chosen /\ \A h \in history : h.id \in Txns \ {t}
  BY <1>0, <1>1 DEF RecordsInv, HistoryInv, Chosen
<1>3. /\ new[t] = n /\ \A u \in Txns \ {t} : new[u] = pos[u]
      /\ \A u \in Txns : pos[u] < n /\ pos[u] \in Nat
  BY DEF Serial
<1> HIDE DEF new
<1>4. \A u \in Txns : new[u] < n + 1
  BY <1>3
<1>5. EdgesOrdered(new)
  <2>1. EdgesOrdered(pos)
    BY DEF Serial
  <2> QED
    BY <1>2, <1>3, <2>1 DEF EdgesOrdered
<1>6. EdgesOrdered(new)'
  BY <1>1, <1>5, EdgesKept DEF Next, Step
<1>7. ASSUME NEW u \in Txns, NEW i \in DOMAIN rset[u], rset[u][i].from # NoTxn
      PROVE  rset[u][i].from \in Txns \ {t}
  <2>1. Installed(rset[u][i].from)
    BY <1>7 DEF RecordsInv, SnapshotInv, ReadInv
  <2> QED
    BY <1>2, <1>7, <2>1 DEF Installed, Chosen
<1>8. Sources(new, t)' /\ Predecessors(new, t)' /\ Successors(new, t)'
  <2>1. Sources(new, t)'
    BY <1>1, <1>3, <1>7 DEF Sources
  <2>2. Predecessors(new, t)'
    BY <1>1, <1>2, <1>3 DEF Predecessors
  <2>3. Successors(new, t)'
    BY <1>1 DEF Successors
  <2> QED
    BY <2>1, <2>2, <2>3
<1>9. ASSUME NEW u \in Txns \ {t}, pc'[u] = "validate"
      PROVE  Sources(new, u)' /\ Predecessors(new, u)' /\ Successors(new, u)'
  <2>0. Sources(pos, u) /\ Predecessors(pos, u) /\ Successors(pos, u)
    BY <1>1, <1>9 DEF Serial
  <2>1. Sources(new, u)'
    BY <1>1, <1>3, <1>7, <2>0 DEF Sources
  <2>2. Predecessors(new, u)'
    BY <1>1, <1>2, <1>3, <2>0 DEF Predecessors
  <2>3. \A r : Collides(r) => Collides(r)'
    BY <1>1 DEF Collides
  <2>4. \A r : Before(pos, u, r) => Before(new, u, r)'
    BY <1>1, <1>2, <1>3 DEF Before
  <2>5. Successors(new, u)'
    BY <1>1, <2>0, <2>3, <2>4 DEF Successors
  <2> QED
    BY <2>1, <2>2, <2>5
<1>10. \A u \in Txns : pc'[u] = "validate" =>
           Sources(new, u)' /\ Predecessors(new, u)' /\ Successors(new, u)'
  BY <1>8, <1>9
<1>11. Serial(new, n + 1)'
  BY <1>4, <1>6, <1>10 DEF Serial
<1> QED
  BY <1>11 DEF new

\* Validation accepts what is current, and not about to be overwritten, unless
\* the tids of two epochs are mistaken for each other.
LEMMA ValidRead ==
    ASSUME RecordsInv, NEW t \in Txns, pc[t] = "validate",
           NEW i \in DOMAIN rset[t], Valid(t, rset[t][i])
    PROVE  LET r == rset[t][i] IN
           /\ Collides(r) \/ \A h \in history :
                 r.key \in h.writes => ~ WordLess(r.word, h.tid)
           /\ \A u \in Txns \ {t} : pc[u] = "validate" => r.key \notin Range(wset[u])
<1> USE DEF RecordsInv, GrowthInv, TypeInv, LockInv
<1> DEFINE k == rset[t][i].key
           seen == rset[t][i].word
<1>0. /\ pc \in [Txns -> Labels] /\ idx \in [Txns -> Nat \ {0}]
      /\ wset \in [Txns -> Seq(Keys)] /\ value \in [Keys -> Values]
      /\ word \in [Keys -> Words] /\ mostRecentlyChosenTid \in [Txns -> Words]
      /\ \A h \in history : h.id \in Txns /\ h.tid \in Words /\ h.tid.lock = 0
  BY DEF TypeOK, Commits, HistoryInv, ChosenUnlocked
<1>1. k \in Keys /\ seen \in Words
  <2>1. rset[t][i] \in ReadElements
    BY DEF TypeOK
  <2> QED
    BY <2>1 DEF ReadElements
<1>2. /\ seen.tid = word[k].tid
      /\ word[k].lock = 1 => k \in Range(wset[t])
  BY DEF Valid, InWSet
<1>3. ASSUME NEW j \in DOMAIN wset[t], wset[t][j] = k
      PROVE  j \in HeldPositions(t)
  BY <1>0, <1>3 DEF HeldPositions
\* Nobody else holds the record.
<1>4. ASSUME NEW u \in Txns \ {t}, NEW j \in HeldPositions(u)
      PROVE  wset[u][j] # k
  <2>1. CASE word[k].lock = 1
    <3>1. PICK l \in DOMAIN wset[t] : wset[t][l] = k
      BY <1>2, <2>1 DEF Range
    <3>2. l \in HeldPositions(t)
      BY <1>3, <3>1
    <3> QED
      BY <3>1, <3>2 DEF LocksExclusive
  <2>2. CASE word[k].lock # 1
    BY <1>1, <1>4, <2>2 DEF LockBitOwned
  <2> QED
    BY <2>1, <2>2
<1>5. ASSUME NEW u \in Txns \ {t}, pc[u] = "validate" PROVE k \notin Range(wset[u])
  <2>1. \A j \in DOMAIN wset[u] : j \in HeldPositions(u)
    BY <1>0, <1>5 DEF HeldPositions
  <2> QED
    BY <1>4, <2>1 DEF Range
<1>6. ~ Publishing(k)
  <2>1. ASSUME NEW u \in Txns, pc[u] = "publish", wset[u][idx[u]] = k PROVE FALSE
    <3>1. u # t /\ idx[u] \in HeldPositions(u)
      BY <1>0, <2>1 DEF HeldPositions, CursorOK
    <3> QED
      BY <1>4, <2>1, <3>1
  <2> QED
    BY <2>1 DEF Publishing
<1>7. Unlocked(word[k]) = VersionOfWriter(value[k])
  BY <1>1, <1>6 DEF SnapshotInv, ValueInv
<1>8. ~ Precedes(word[k], seen)
  BY DEF SeenInv
<1>9. seen.lock = 0
  BY DEF SnapshotInv, SnapshotReads, VersionOfWriter, ZeroWord, ChosenUnlocked, ReadInv, Installed, Chosen
<1>10. ASSUME NEW h \in history, k \in h.writes, WordLess(seen, h.tid)
       PROVE  Collides(rset[t][i])
  <2>1. h.id # t
    BY DEF HistoryInv, Chosen
  <2>2. ~ StillHeld(h, k)
    BY <1>0, <1>4, <2>1 DEF StillHeld
  <2>3. ~ Precedes(word[k], h.tid)
    BY <1>10, <2>2 DEF InstalledInv, Overwritten
  <2>4. Precedes(seen, h.tid)
    BY <1>0, <1>1, <1>9, <1>10, PrecedesOrder
  <2>5. seen.epoch # word[k].epoch
    <3>1. word[k] \in Words /\ h.tid \in Words
      BY <1>0, <1>1
    <3> QED
      BY <1>1, <1>2, <2>3, <2>4, <3>1 DEF Precedes
  <2>6. value[k] # NoTxn
    <3>1. CASE value[k] = NoTxn
      <4>1. word[k].epoch = 0 /\ word[k].tid = 0
        <5>1. Unlocked(word[k]).epoch = word[k].epoch /\ Unlocked(word[k]).tid = word[k].tid
          BY <1>0, <1>1 DEF Unlocked, Words
        <5> QED
          BY <1>7, <3>1, <5>1 DEF VersionOfWriter, ZeroWord
      <4>2. seen.epoch \in Nat
        BY <1>1, WidthAssumption DEF Words, Epochs
      <4> QED
        BY <1>8, <2>5, <4>1, <4>2 DEF Precedes
    <3> QED
      BY <3>1
  <2>7. PICK g \in history : g.id = value[k] /\ k \in g.writes
    BY <1>1, <2>6 DEF InstalledInv
  <2>8. Unlocked(word[k]) = g.tid
    BY <1>7, <2>6, <2>7 DEF VersionOfWriter, HistoryInv
  <2>9. g.tid.tid = word[k].tid /\ g.tid.epoch = word[k].epoch
    BY <1>0, <1>1, <2>8 DEF Unlocked, Words
  <2> QED
    BY <1>2, <2>5, <2>7, <2>9 DEF Collides
<1> QED
  BY <1>5, <1>10

LEMMA SerialValidate ==
    ASSUME RecordsInv, NEW t \in Txns, ValidateRead(t), NEW pos, NEW n, Serial(pos, n)
    PROVE  Serial(pos, n)'
<1>0. /\ pc \in [Txns -> Labels] /\ idx \in [Txns -> Nat \ {0}]
      /\ rset \in [Txns -> Seq(ReadElements)]
  BY DEF RecordsInv, GrowthInv, TypeInv, TypeOK
<1>1. /\ history' = history /\ rset' = rset /\ wset' = wset /\ pc' = pc
      /\ pc[t] = "validate" /\ idx[t] \in DOMAIN rset[t] /\ Valid(t, rset[t][idx[t]])
      /\ idx'[t] = idx[t] + 1 /\ \A u \in Txns \ {t} : idx'[u] = idx[u]
  BY <1>0 DEF ValidateRead, sets
<1>2. EdgesOrdered(pos)'
  BY <1>1, EdgesKept DEF Serial, Next, Step
<1>3. \A u \in Txns : Sources(pos, u)' <=> Sources(pos, u)
  BY <1>1 DEF Sources
<1>4. \A u \in Txns : Predecessors(pos, u)' <=> Predecessors(pos, u)
  BY <1>1 DEF Predecessors
<1>5. /\ \A r : Collides(r)' <=> Collides(r)
      /\ \A u \in Txns : \A r : Before(pos, u, r)' <=> Before(pos, u, r)
  BY <1>1 DEF Collides, Before
<1>6. Collides(rset[t][idx[t]]) \/ Before(pos, t, rset[t][idx[t]])
  BY <1>1, ValidRead DEF Before
<1>7. ASSUME NEW u \in Txns, pc[u] = "validate" PROVE Successors(pos, u)'
  <2>1. Successors(pos, u)
    BY <1>7 DEF Serial
  <2>2. ASSUME NEW i \in 1 .. (idx'[u] - 1)
        PROVE  Collides(rset[u][i]) \/ Before(pos, u, rset[u][i])
    <3>1. i \in 1 .. (idx[u] - 1) \/ (u = t /\ i = idx[t])
      BY <1>0, <1>1, <2>2
    <3> QED
      BY <1>6, <2>1, <3>1 DEF Successors
  <2>3. rset'[u] = rset[u]
    BY <1>1
  <2> QED
    BY <1>5, <2>2, <2>3 DEF Successors
<1> QED
  BY <1>1, <1>2, <1>3, <1>4, <1>7 DEF Serial

\* A transaction that commits keeps its place.
LEMMA SerialChoose ==
    ASSUME RecordsInv, RecordsInv', NEW t \in Txns, ChooseTid(t),
           NEW pos, NEW n, Serial(pos, n)
    PROVE  Serial(pos, n)' \/ EpochCollision'
<1> USE DEF RecordsInv, GrowthInv, LockInv
<1>0. /\ pc \in [Txns -> Labels] /\ idx \in [Txns -> Nat \ {0}]
      /\ wset \in [Txns -> Seq(Keys)] /\ rset \in [Txns -> Seq(ReadElements)]
      /\ word \in [Keys -> Words]
      /\ \A h \in history : h.id \in Txns /\ h.tid \in Words /\ h.tid.lock = 0
      /\ \A h \in history : h.writes \subseteq Keys
  BY SMTT(30) DEF TypeInv, TypeOK, Commits, HistoryInv, ChosenUnlocked
<1>1. PICK new : new = CommitRecord(t)
  OBVIOUS
<1>2. /\ history' = history \cup {new} /\ wset' = wset /\ rset' = rset /\ word' = word
      /\ pc[t] = "validate" /\ pc'[t] = "install" /\ t \notin Chosen /\ idx[t] > Len(rset[t])
      /\ \A u \in Txns \ {t} : pc'[u] = pc[u] /\ idx'[u] = idx[u]
  BY <1>1, ChooseTidHistory DEF ChooseTid
<1>3. /\ new.id = t /\ new.tid = ChosenTid(t) /\ new.writes = Range(wset[t])
      /\ new.tid \in Words /\ new.tid.lock = 0 /\ new \notin history
  <2>1. new.id = t /\ new.tid = ChosenTid(t) /\ new.writes = Range(wset[t])
    BY <1>1 DEF CommitRecord
  <2>2. new.tid = mostRecentlyChosenTid'[t]
    BY <2>1, ChooseTidHistory
  <2>3. new.tid \in Words /\ new.tid.lock = 0
    BY <2>2 DEF TypeInv, TypeOK, ChosenUnlocked
  <2>4. new \notin history
    BY <1>2, <2>1 DEF HistoryInv
  <2> QED
    BY <2>1, <2>3, <2>4
<1>4. ASSUME NEW r \in new.reads
      PROVE  \E i \in DOMAIN rset[t] : r.key = rset[t][i].key /\ r.from = rset[t][i].from
  <2>1. PICK q \in Range(rset[t]) : r = [key |-> q.key, from |-> q.from]
    BY <1>1, <1>4 DEF CommitRecord
  <2> QED
    BY <2>1 DEF Range
<1>5. \A h \in history : h.id \in Txns \ {t} /\ h.id \in Chosen
  BY <1>0, <1>2 DEF HistoryInv
<1>6. \A v : Installed(v) =>
          /\ Installed(v)' /\ VersionOfWriter(v)' = VersionOfWriter(v)
          /\ VersionOf(history', v) = VersionOfWriter(v)
  <2>1. \A v : Installed(v) => Installed(v)' /\ VersionOfWriter(v)' = VersionOfWriter(v)
    BY VersionStable DEF Next, Step
  <2>2. VersionsAgree'
    <3>1. HistoryInv' => VersionsAgree'
      BY VersionIs, PTL
    <3> QED
      BY <3>1
  <2> QED
    BY <2>1, <2>2 DEF VersionsAgree
<1>7. /\ Sources(pos, t) /\ Predecessors(pos, t) /\ Successors(pos, t)
      /\ EdgesOrdered(pos)
  BY <1>2 DEF Serial
<1>8. ASSUME NEW i \in DOMAIN rset[t]
      PROVE  /\ Installed(rset[t][i].from)
             /\ rset[t][i].word = VersionOfWriter(rset[t][i].from)
             /\ Collides(rset[t][i]) \/ Before(pos, t, rset[t][i])
  <2>1. i \in 1 .. (idx[t] - 1)
    BY <1>0, <1>2
  <2> QED
    BY <1>7, <1>8, <2>1 DEF SnapshotInv, ReadInv, SnapshotReads, Successors
\* The transaction read a version whose tid another epoch gave out again.
<1>9. CASE \E i \in DOMAIN rset[t] : Collides(rset[t][i])
  <2>1. PICK i \in DOMAIN rset[t] : Collides(rset[t][i])
    BY <1>9
  <2>2. PICK g \in history : /\ rset[t][i].key \in g.writes
                            /\ rset[t][i].word.tid = g.tid.tid
                            /\ rset[t][i].word.epoch # g.tid.epoch
    BY <2>1 DEF Collides
  <2>3. [key |-> rset[t][i].key, from |-> rset[t][i].from] \in new.reads
    BY <1>1 DEF CommitRecord, Range
  <2>4. VersionOf(history', rset[t][i].from) = rset[t][i].word
    BY <1>6, <1>8
  <2>5. PICK r \in new.reads : r.key = rset[t][i].key /\ r.from = rset[t][i].from
    BY <2>3
  <2>6. new \in history' /\ g \in history'
    BY <1>2
  <2> QED
    BY <2>2, <2>4, <2>5, <2>6 DEF EpochCollision
<1>10. CASE \A i \in DOMAIN rset[t] : Before(pos, t, rset[t][i])
  \* Who wrote one of its records before it did so with a smaller TID.
  <2>1. ASSUME NEW h \in history, h.writes \cap new.writes # {}
        PROVE  pos[h.id] < pos[t] /\ ~ WordLess(new.tid, h.tid)
    <3>1. PICK k \in Keys : k \in h.writes /\ k \in Range(wset[t])
      BY <1>0, <1>3, <2>1
    <3>2. PICK j \in DOMAIN wset[t] : wset[t][j] = k
      BY <3>1 DEF Range
    <3>3. j \in HeldPositions(t) /\ j \in HeldPositions(t)'
      <4>1. idx'[t] = 1
        BY <1>0 DEF ChooseTid
      <4> QED
        BY <1>0, <1>2, <3>2, <4>1 DEF HeldPositions
    <3>4. ~ StillHeld(h, k)
      BY <1>5, <3>2, <3>3 DEF StillHeld, LocksExclusive
    <3>5. ~ Precedes(word[k], h.tid)
      BY <3>1, <3>4 DEF InstalledInv, Overwritten
    <3>6. Precedes(word[k], new.tid)
      <4>1. Precedes(word'[wset'[t][j]], mostRecentlyChosenTid'[t])
        BY <1>2, <3>3 DEF GrowInv
      <4> QED
        BY <1>2, <1>3, <3>2, <4>1, ChooseTidHistory
    <3>7. ~ Precedes(new.tid, h.tid)
      BY <1>0, <1>3, <3>5, <3>6, PrecedesOrder
    <3>8. ~ WordLess(new.tid, h.tid)
      BY <1>0, <1>3, <3>7, PrecedesOrder
    <3> QED
      BY <1>7, <2>1, <3>1, <3>8 DEF Predecessors
  <2>2. ASSUME NEW h \in history, NEW r \in h.reads
        PROVE  /\ r.from # t /\ Installed(r.from)
               /\ r.key \in new.writes => pos[h.id] < pos[t]
    <3>1. Installed(r.from)
      BY <2>2 DEF HistoryInv
    <3>2. r.from # t
      BY <1>2, <3>1, KVSiloAssumption DEF Installed
    <3> QED
      BY <1>3, <1>7, <3>1, <3>2 DEF Predecessors
  <2>3. ASSUME NEW r \in new.reads
        PROVE  /\ Installed(r.from) /\ r.from # t
               /\ r.from # NoTxn => pos[r.from] < pos[t]
               /\ \A h \in history : r.key \in h.writes /\ WordLess(VersionOfWriter(r.from), h.tid)
                     => pos[t] < pos[h.id]
               /\ \A u \in Txns \ {t} :
                     pc[u] = "validate" /\ r.key \in Range(wset[u]) => pos[t] < pos[u]
    <3>1. PICK i \in DOMAIN rset[t] : r.key = rset[t][i].key /\ r.from = rset[t][i].from
      BY <1>4
    <3>2. Installed(r.from) /\ rset[t][i].word = VersionOfWriter(r.from)
      BY <1>8, <3>1
    <3>3. r.from # t
      BY <1>2, <3>2, KVSiloAssumption DEF Installed
    <3> QED
      BY <1>7, <1>10, <3>1, <3>2, <3>3 DEF Sources, Before
  <2>4. \A a \in history' : a = new \/ a \in history
    BY <1>2
  <2>5. ASSUME NEW a \in history', NEW b \in history', NEW r \in b.reads, r.from = a.id
        PROVE  pos[a.id] < pos[b.id]
    <3>1. r.from # NoTxn
      BY <1>3, <1>5, <2>4, <2>5, KVSiloAssumption
    <3>2. CASE b = new
      BY <1>3, <2>3, <2>5, <3>1, <3>2
    <3>3. CASE b \in history
      <4>1. a \in history
        BY <1>3, <2>2, <2>4, <2>5, <3>3
      <4> QED
        BY <1>7, <2>5, <3>3, <4>1 DEF EdgesOrdered
    <3> QED
      BY <2>4, <3>2, <3>3
  <2>6. ASSUME NEW a \in history', NEW b \in history',
               a.writes \cap b.writes # {}, WordLess(a.tid, b.tid)
        PROVE  pos[a.id] < pos[b.id]
    <3>1. CASE a \in history /\ b \in history
      BY <1>7, <2>6, <3>1 DEF EdgesOrdered
    <3>2. CASE a \in history /\ b = new
      BY <1>3, <2>1, <2>6, <3>2
    <3>3. CASE a = new /\ b \in history
      BY <2>1, <2>6, <3>3
    <3>4. CASE a = new /\ b = new
      BY <1>3, <2>6, <3>4, WordOrder
    <3> QED
      BY <2>4, <3>1, <3>2, <3>3, <3>4
  <2>7. ASSUME NEW a \in history', NEW b \in history', a # b, NEW r \in a.reads,
               r.key \in b.writes, WordLess(VersionOfWriter(r.from)', b.tid)
        PROVE  pos[a.id] < pos[b.id]
    <3>1. Installed(r.from)
      BY <2>2, <2>3, <2>4
    <3>2. WordLess(VersionOfWriter(r.from), b.tid)
      BY <1>6, <2>7, <3>1
    <3>3. CASE a \in history /\ b \in history
      BY <1>7, <2>7, <3>2, <3>3 DEF EdgesOrdered
    <3>4. CASE a \in history /\ b = new
      BY <1>3, <2>2, <2>7, <3>4
    <3>5. CASE a = new /\ b \in history
      BY <1>3, <2>3, <2>7, <3>2, <3>5
    <3> QED
      BY <2>4, <2>7, <3>3, <3>4, <3>5
  <2>8. EdgesOrdered(pos)'
    BY <2>5, <2>6, <2>7 DEF EdgesOrdered
  \* Those that are still validating.
  <2>9. ASSUME NEW u \in Txns, pc'[u] = "validate"
        PROVE  Sources(pos, u)' /\ Predecessors(pos, u)' /\ Successors(pos, u)'
    <3>1. u # t /\ pc[u] = "validate" /\ idx'[u] = idx[u]
      BY <1>2, <2>9
    <3>2. Sources(pos, u) /\ Predecessors(pos, u) /\ Successors(pos, u)
      BY <3>1 DEF Serial
    <3>3. Sources(pos, u)'
      BY <1>2, <3>2 DEF Sources
    <3>4. new.writes \cap Range(wset[u]) = {}
      <4>1. /\ \A j \in DOMAIN wset[u] : j \in HeldPositions(u)
            /\ \A j \in DOMAIN wset[t] : j \in HeldPositions(t)
        BY <1>0, <1>2, <3>1 DEF HeldPositions
      <4> QED
        BY <1>3, <3>1, <4>1 DEF LocksExclusive, Range
    <3>5. \A r \in new.reads : r.key \in Range(wset[u]) => pos[t] < pos[u]
      BY <2>3, <3>1
    <3>6. Predecessors(pos, u)'
      BY <1>2, <1>3, <3>2, <3>4, <3>5 DEF Predecessors
    <3>7. \A r : Collides(r) => Collides(r)'
      BY <1>2 DEF Collides
    <3>8. ASSUME NEW r, Before(pos, u, r) PROVE Before(pos, u, r)'
      <4>1. r.key \in new.writes => pos[u] < pos[t]
        BY <1>2, <1>3, <3>1, <3>8 DEF Before
      <4> QED
        BY <1>2, <1>3, <3>8, <4>1 DEF Before
    <3>9. Successors(pos, u)'
      BY <1>2, <3>1, <3>2, <3>7, <3>8 DEF Successors
    <3> QED
      BY <3>3, <3>6, <3>9
  <2> QED
    BY <2>8, <2>9 DEF Serial
<1> QED
  BY <1>8, <1>9, <1>10

LEMMA SerialStep ==
    ASSUME RecordsInv, RecordsInv', SerialInv, Next
    PROVE  SerialInv'
<1>1. CASE EpochCollision
  BY <1>1, CollisionKept DEF SerialInv
<1>2. ASSUME NEW pos \in [Txns -> Nat], NEW n \in Nat, Serial(pos, n)
      PROVE  SerialInv'
  <2>1. ASSUME NEW t \in Txns, LoadEpoch(t) PROVE SerialInv'
    <3>1. [pos EXCEPT ![t] = n] \in [Txns -> Nat] /\ n + 1 \in Nat
      OBVIOUS
    <3>2. Serial([pos EXCEPT ![t] = n], n + 1)'
      BY <1>2, <2>1, SerialLoadEpoch
    <3> QED
      BY <3>1, <3>2 DEF SerialInv
  <2>2. ASSUME NEW t \in Txns, ValidateRead(t) PROVE SerialInv'
    BY <1>2, <2>2, SerialValidate DEF SerialInv
  <2>3. ASSUME NEW t \in Txns, ChooseTid(t) PROVE SerialInv'
    BY <1>2, <2>3, SerialChoose DEF SerialInv
  <2>4. CASE AdvanceEpoch
    BY <1>2, <2>4, SerialFrame DEF AdvanceEpoch, sets, SerialInv
  <2>5. ASSUME NEW t \in Txns, Step(t), ~ LoadEpoch(t), ~ ValidateRead(t), ~ ChooseTid(t)
        PROVE  SerialInv'
    <3>1. history' = history
      BY <2>5, HistoryFrame DEF RecordsInv, GrowthInv
    <3>2. pc'[t] # "validate"
      <4>0. pc \in [Txns -> Labels]
        BY DEF RecordsInv, GrowthInv, TypeInv, TypeOK
      <4>1. CASE LoadBefore(t) \/ LoadValue(t) \/ LoadAfter(t) \/ Write(t) \/ Commit(t)
        BY <4>0, <4>1 DEF LoadBefore, LoadValue, LoadAfter, Write, Commit, At, Goto
      <4>2. CASE LockRecord(t) \/ FailValidation(t) \/ Unlock(t) \/ Abort(t)
        BY <4>0, <4>2 DEF LockRecord, FailValidation, Unlock, Abort, Goto
      <4>3. CASE StoreValue(t) \/ StoreTid(t) \/ Finish(t)
        BY <4>0, <4>3 DEF StoreValue, StoreTid, Finish, Goto
      <4> QED
        BY <2>5, <4>1, <4>2, <4>3 DEF Step
    <3>3. \A u \in Txns : pc'[u] = "validate" =>
              /\ pc[u] = "validate" /\ idx'[u] = idx[u]
              /\ rset'[u] = rset[u] /\ wset'[u] = wset[u]
      BY <2>5, <3>2, OthersFixed DEF RecordsInv, GrowthInv, TypeInv
    <3>4. Next
      OBVIOUS
    <3>5. Serial(pos, n)'
      BY <1>2, <3>1, <3>3, <3>4, SerialFrame
    <3> QED
      BY <3>5 DEF SerialInv
  <2> QED
    BY <2>1, <2>2, <2>3, <2>4, <2>5 DEF Next
<1> QED
  BY <1>1, <1>2 DEF SerialInv

LEMMA SerialStutter ==
    ASSUME SerialInv, UNCHANGED vars
    PROVE  SerialInv'
<1> USE DEF vars, shared, sets, tids
<1>1. history' = history /\ (EpochCollision => EpochCollision')
  BY DEF EpochCollision
<1>2. ASSUME NEW pos \in [Txns -> Nat], NEW n \in Nat, Serial(pos, n)
      PROVE  Serial(pos, n)'
  <2>1. EdgesOrdered(pos)'
    BY <1>1, <1>2 DEF Serial, EdgesOrdered, VersionOfWriter
  <2>2. ASSUME NEW t \in Txns, pc'[t] = "validate"
        PROVE  Sources(pos, t)' /\ Predecessors(pos, t)' /\ Successors(pos, t)'
    <3>1. Sources(pos, t)'
      BY <1>2, <2>2 DEF Serial, Sources
    <3>2. Predecessors(pos, t)'
      BY <1>1, <1>2, <2>2 DEF Serial, Predecessors
    <3>3. Successors(pos, t)'
      BY <1>1, <1>2, <2>2 DEF Serial, Successors, Collides, Before, VersionOfWriter
    <3> QED
      BY <3>1, <3>2, <3>3
  <2> QED
    BY <1>2, <2>1, <2>2 DEF Serial
<1> QED
  BY <1>1, <1>2 DEF SerialInv

LEMMA SerialHolds == Spec => []SerialInv
<1>1. RecordsInv /\ RecordsInv' /\ SerialInv /\ [Next]_vars => SerialInv'
  BY SerialStep, SerialStutter
<1> QED
  BY <1>1, SerialInit, RecordsHold, PTL DEF Spec

\* The committed transactions are conflict serializable, in the order in which
\* they loaded the epoch between locking and validating, unless one read a
\* version that another replaced by one with the same tid of another epoch,
\* which the validation of kvsilo/ takes for the same.
THEOREM SerializableWithinEpochs == Spec => []SerializableButForCollisions
<1>1. ASSUME RecordsInv, SerialInv PROVE SerializableButForCollisions
  <2> SUFFICES ASSUME ~ EpochCollision PROVE ConflictSerializable(history)
    BY DEF SerializableButForCollisions
  <2>1. PICK pos \in [Txns -> Nat], n \in Nat : Serial(pos, n)
    BY <1>1 DEF SerialInv
  <2>2. /\ \A h \in history : h.id \in Txns
        /\ \A g, h \in history : g.id = h.id => g = h
        /\ VersionsAgree
        /\ \A h \in history : \A r \in h.reads : Installed(r.from)
    BY <1>1, VersionIs DEF RecordsInv, GrowthInv, TypeInv, TypeOK, Commits, HistoryInv
  <2>3. IsFiniteSet(history)
    <3> DEFINE name == [h \in history |-> h.id]
    <3>1. name \in Injection(history, Txns)
      BY <2>2 DEF Injection, IsInjective
    <3> HIDE DEF name
    <3> QED
      BY <3>1, KVSiloAssumption, FS_Injection
  <2> DEFINE f == [h \in history |-> pos[h.id]]
  <2>4. f \in [history -> Nat]
    BY <2>2
  <2>5. ASSUME NEW e \in ConflictEdges(history)
        PROVE  e[1] \in history /\ e[2] \in history /\ pos[e[1].id] < pos[e[2].id]
    <3>0. EdgesOrdered(pos)
      BY <2>1 DEF Serial
    <3>1. CASE e \in ReadFromEdges(history)
      BY <3>0, <3>1 DEF ReadFromEdges, EdgesOrdered
    <3>2. CASE e \in OverwriteEdges(history)
      BY <3>0, <3>2 DEF OverwriteEdges, EdgesOrdered
    <3>3. CASE e \in AntiDependencyEdges(history)
      BY <2>2, <3>0, <3>3 DEF AntiDependencyEdges, EdgesOrdered, VersionsAgree
    <3> QED
      BY <3>1, <3>2, <3>3 DEF ConflictEdges
  <2>6. \A e \in ConflictEdges(history) :
            e[1] \in history /\ e[2] \in history /\ f[e[1]] < f[e[2]]
    BY <2>5
  <2> HIDE DEF f
  <2> QED
    BY <2>3, <2>4, <2>6, Numbered DEF ConflictSerializable
<1> QED
  BY <1>1, RecordsHold, SerialHolds, PTL

\* No word has left the epoch of the words the records start with.
FirstEpoch(w) == w.epoch = 0

FirstEpochInv ==
    /\ \A k \in Keys : FirstEpoch(word[k])
    /\ \A t \in Txns :
          /\ epoch[t] = 0
          /\ FirstEpoch(maxWriteTid[t]) /\ FirstEpoch(maxReadTid[t])
          /\ FirstEpoch(mostRecentlyChosenTid[t])
    /\ \A h \in history : FirstEpoch(h.tid)

LEMMA FirstEpochWords ==
    /\ \A w \in Words : FirstEpoch(w) =>
          FirstEpoch(NextTid(w)) /\ FirstEpoch(Locked(w)) /\ FirstEpoch(Unlocked(w))
    /\ \A v, w \in Words : FirstEpoch(v) /\ FirstEpoch(w) => FirstEpoch(WordMax(v, w))
BY DEF Words, FirstEpoch, NextTid, Locked, Unlocked, WordMax

LEMMA FirstEpochStep ==
    ASSUME TypeInv, FirstEpochInv, E = 0, [Next]_vars
    PROVE  FirstEpochInv'
<1> USE DEF FirstEpochInv
<1>0. TypeOK /\ CursorOK
  BY DEF TypeInv
<1>1. ASSUME NEW t \in Txns, Step(t) PROVE FirstEpochInv'
  <2>1. CASE LockRecord(t)
    <3> DEFINE k == wset[t][idx[t]]
    <3>1. k \in Keys /\ word[k] \in Words /\ maxWriteTid[t] \in Words
      BY <1>0, <2>1 DEF LockRecord, TypeOK
    <3>2. FirstEpoch(Locked(word[k])) /\ FirstEpoch(WordMax(maxWriteTid[t], word[k]))
      BY <3>1, FirstEpochWords
    <3>3. /\ word' = [word EXCEPT ![k] = Locked(word[k])]
          /\ maxWriteTid' = [maxWriteTid EXCEPT ![t] = WordMax(maxWriteTid[t], word[k])]
          /\ UNCHANGED <<epoch, maxReadTid, mostRecentlyChosenTid, history>>
      BY <2>1 DEF LockRecord
    <3> HIDE DEF k
    <3> QED
      BY <1>0, <3>1, <3>2, <3>3 DEF TypeOK
  <2>2. CASE LoadEpoch(t)
    BY <1>0, <2>2 DEF LoadEpoch, TypeOK, shared
  <2>3. CASE ValidateRead(t)
    <3> DEFINE r == rset[t][idx[t]]
    <3>1. word[r.key] \in Words /\ r.key \in Keys /\ maxReadTid[t] \in Words
      <4>1. r \in ReadElements
        BY <1>0, <2>3 DEF ValidateRead, TypeOK
      <4> QED
        BY <1>0, <4>1 DEF ReadElements, TypeOK
    <3>2. FirstEpoch(WordMax(maxReadTid[t], word[r.key]))
      BY <3>1, FirstEpochWords
    <3>3. /\ maxReadTid' = [maxReadTid EXCEPT ![t] = WordMax(maxReadTid[t], word[r.key])]
          /\ UNCHANGED <<word, epoch, maxWriteTid, mostRecentlyChosenTid, history>>
      BY <2>3 DEF ValidateRead, shared
    <3> HIDE DEF r
    <3> QED
      BY <1>0, <3>2, <3>3 DEF TypeOK
  <2>4. CASE Unlock(t)
    <3> DEFINE k == wset[t][idx[t]]
    <3>1. k \in Keys /\ word[k] \in Words
      BY <1>0, <2>4 DEF Unlock, TypeOK
    <3>2. FirstEpoch(Unlocked(word[k]))
      BY <3>1, FirstEpochWords
    <3>3. /\ word' = [word EXCEPT ![k] = Unlocked(word[k])]
          /\ UNCHANGED <<epoch, maxWriteTid, maxReadTid, mostRecentlyChosenTid, history>>
      BY <2>4 DEF Unlock, tids
    <3> HIDE DEF k
    <3> QED
      BY <1>0, <3>2, <3>3 DEF TypeOK
  <2>5. CASE ChooseTid(t)
    <3>1. FirstEpoch(ChosenTid(t))
      <4> DEFINE max == WordMax(maxWriteTid[t], maxReadTid[t])
                 tidC == [ZeroWord EXCEPT !.epoch = epoch[t]]
      <4>1. /\ maxWriteTid[t] \in Words /\ maxReadTid[t] \in Words
            /\ mostRecentlyChosenTid[t] \in Words
        BY <1>0 DEF TypeOK
      <4>2. max \in Words /\ FirstEpoch(max)
        BY <4>1, FirstEpochWords, WordOperations
      <4>3. tidC = ZeroWord /\ ZeroWord \in Words /\ FirstEpoch(ZeroWord)
        BY WordOperations DEF ZeroWord, FirstEpoch
      <4> HIDE DEF max, tidC
      <4>4. /\ NextTid(max) \in Words /\ FirstEpoch(NextTid(max))
            /\ NextTid(mostRecentlyChosenTid[t]) \in Words
            /\ FirstEpoch(NextTid(mostRecentlyChosenTid[t]))
        BY <4>1, <4>2, FirstEpochWords, WordOperations
      <4>5. WordMax(NextTid(mostRecentlyChosenTid[t]), tidC) \in Words
            /\ FirstEpoch(WordMax(NextTid(mostRecentlyChosenTid[t]), tidC))
        BY <4>3, <4>4, FirstEpochWords, WordOperations
      <4>6. WordMax(NextTid(max), WordMax(NextTid(mostRecentlyChosenTid[t]), tidC)) \in Words
            /\ FirstEpoch(WordMax(NextTid(max),
                                  WordMax(NextTid(mostRecentlyChosenTid[t]), tidC)))
        BY <4>4, <4>5, FirstEpochWords, WordOperations
      <4> QED
        BY <4>6, FirstEpochWords DEF ChosenTid, max, tidC
    <3>2. CommitRecord(t).tid = ChosenTid(t)
      BY DEF CommitRecord
    <3>3. /\ mostRecentlyChosenTid' = [mostRecentlyChosenTid EXCEPT ![t] = ChosenTid(t)]
          /\ history' = history \cup {CommitRecord(t)}
          /\ UNCHANGED <<word, epoch, maxWriteTid, maxReadTid>>
      BY <2>5 DEF ChooseTid, shared
    <3> QED
      BY <1>0, <3>1, <3>2, <3>3 DEF TypeOK
  <2>6. CASE StoreTid(t)
    BY <1>0, <2>6 DEF StoreTid, TypeOK, tids
  <2>7. CASE \/ LoadBefore(t) \/ LoadValue(t) \/ LoadAfter(t) \/ Write(t) \/ Commit(t)
             \/ FailValidation(t) \/ Abort(t) \/ StoreValue(t) \/ Finish(t)
    <3>1. UNCHANGED <<word, tids, history>>
      BY <2>7 DEF LoadBefore, LoadValue, LoadAfter, Write, Commit, FailValidation, Abort,
         StoreValue, Finish, shared, tids
    <3> QED
      BY <3>1 DEF tids
  <2> QED
    BY <1>1, <2>1, <2>2, <2>3, <2>4, <2>5, <2>6, <2>7 DEF Step
<1>2. CASE AdvanceEpoch \/ UNCHANGED vars
  BY <1>2 DEF AdvanceEpoch, vars, shared, tids
<1> QED
  BY <1>1, <1>2 DEF Next

LEMMA FirstEpochInit ==
    ASSUME Init
    PROVE  FirstEpochInv
BY DEF Init, FirstEpochInv, FirstEpoch, ZeroWord

LEMMA NoCollisionInFirstEpoch ==
    ASSUME RecordsInv, FirstEpochInv
    PROVE  ~ EpochCollision
<1>1. ASSUME NEW h \in history, NEW g \in history, NEW r \in h.reads
      PROVE  VersionOf(history, r.from).epoch = g.tid.epoch
  <2>1. Installed(r.from) /\ VersionsAgree
    BY <1>1, VersionIs DEF RecordsInv, HistoryInv
  <2>2. VersionOf(history, r.from) = VersionOfWriter(r.from)
    BY <2>1 DEF VersionsAgree
  <2>3. VersionOfWriter(r.from).epoch = 0
    BY <2>1 DEF VersionOfWriter, Installed, Chosen, FirstEpochInv, FirstEpoch, ZeroWord
  <2> QED
    BY <2>2, <2>3 DEF FirstEpochInv, FirstEpoch
<1> QED
  BY <1>1 DEF EpochCollision

\* Until the leader first takes E away from 0, the epoch of the words the
\* records start with, every execution is serializable, with nothing said of
\* tids: the comparison of epochs that validation leaves out is then none.
\* Another E that never moves does not do: the first write of a record leaves
\* the records' epoch.
THEOREM SerializableInFirstEpoch == Spec /\ [](E = 0) => []Serializable
<1>1. RecordsInv /\ FirstEpochInv /\ SerializableButForCollisions => Serializable
  BY NoCollisionInFirstEpoch DEF SerializableButForCollisions, Serializable
<1>2. RecordsInv => TypeInv
  BY DEF RecordsInv, GrowthInv
<1>3. TypeInv /\ FirstEpochInv /\ E = 0 /\ [Next]_vars => FirstEpochInv'
  BY FirstEpochStep
<1>4. Init => FirstEpochInv
  BY FirstEpochInit
<1> QED
  BY <1>1, <1>2, <1>3, <1>4, RecordsHold, SerializableWithinEpochs, PTL DEF Spec
=============================================================================
