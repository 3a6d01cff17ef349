----------------------------- MODULE SiloProofs -----------------------------
(***************************************************************************)
(* Theorems about Silo, for every set of workers, keys and programs: its   *)
(* table holds committed versions, and its transactions are serializable   *)
(* in the order in which they loaded the epoch, which never contradicts    *)
(* the epochs of their TIDs.                                               *)
(***************************************************************************)
EXTENDS Silo, SerializabilityProofs, TLAPS

-----------------------------------------------------------------------------
(* Types                                                                   *)

SeenRecords == [word : Words, from : Ids, epoch : 0 .. MaxEpoch]

LEMMA NothingType == Nothing \in SeenRecords /\ Nothing.word.lock = 0
<1>1. 0 \in 0 .. MaxEpoch
  BY SiloAssumption
<1> QED
  BY <1>1, WordOperations DEF Nothing, SeenRecords, Ids, ZeroWord

\* One worker sees something else.
LEMMA SeenUpdate ==
    ASSUME TypeOK, NEW w \in Workers, NEW x \in SeenRecords, x.word.lock = 0,
           seen' = [seen EXCEPT ![w] = x]
    PROVE  /\ seen' \in [Workers -> SeenRecords]
           /\ \A u \in Workers : seen'[u].word.lock = 0
BY DEF TypeOK, SeenRecords

LEMMA SiloTypeInit == Init => TypeOK
<1> SUFFICES ASSUME Init PROVE TypeOK
  OBVIOUS
<1>1. 1 \in Epochs /\ 0 \in Epochs /\ 0 \in 0 .. MaxEpoch
  <2>1. MaxEpoch \in Nat /\ EpochMod \in Nat /\ MaxEpoch + 1 < EpochMod
    BY SiloAssumption, WidthAssumption
  <2> QED
    BY <2>1 DEF Epochs
<1>2. word \in [Keys -> Words]
  <2>1. InitialTids \subseteq 0 .. (TidMod - 1)
    BY SiloAssumption
  <2>2. ASSUME NEW x \in [epoch : {1}, tid : InitialTids, lock : {0}]
        PROVE  x \in Words
    <3>1. x.epoch = 1 /\ x.tid \in InitialTids /\ x.lock = 0
          /\ x = [epoch |-> x.epoch, tid |-> x.tid, lock |-> x.lock]
      OBVIOUS
    <3>2. x.epoch \in Epochs
      BY <1>1, <3>1
    <3>3. x.tid \in 0 .. (TidMod - 1)
      BY <2>1, <3>1
    <3>4. x.lock \in 0 .. 1
      BY <3>1
    <3> QED
      BY <3>1, <3>2, <3>3, <3>4 DEF Words
  <2> QED
    BY <2>2 DEF Init
<1>3. localEpoch \in [Workers -> Epochs]
  BY <1>1 DEF Init
<1>4. \A w \in Workers : number[w] <= Quota[w]
  BY SiloAssumption DEF Init
<1>5. seen \in [Workers -> SeenRecords] /\ \A w \in Workers : seen[w].word.lock = 0
  BY NothingType DEF Init
<1> QED
  BY <1>1, <1>2, <1>3, <1>4, <1>5, WordOperations DEF Init, TypeOK, Labels, Ids, SeenRecords

LEMMA SiloKeyOf ==
    ASSUME TypeOK, NEW w \in Workers, op[w] \in DOMAIN steps[w]
    PROVE  KeyOf(w) \in Keys
<1>1. steps[w][op[w]] \in Steps
  BY DEF TypeOK
<1> QED
  BY <1>1 DEF KeyOf, Steps

LEMMA SiloSortType ==
    ASSUME NEW s \in Seq(Keys), NEW q \in SortsOf(s)
    PROVE  q \in Seq(Keys)
<1>1. Range(s) \subseteq Keys
  BY DEF Range
<1>2. q \in [DOMAIN s -> Keys]
  BY <1>1 DEF SortsOf
<1> QED
  BY <1>2

LEMMA ChosenTidWord ==
    ASSUME TypeOK, NEW w \in Workers
    PROVE  /\ NextTid(WordMax(maxWriteTid[w], maxReadTid[w])) \in Words
           /\ NextTid(mostRecentlyChosenTid[w]) \in Words
           /\ TidC(w) \in Words
           /\ ChosenTid(w) \in Words
BY WordOperations DEF ChosenTid, TidC, TypeOK

LEMMA SiloTypeStep ==
    ASSUME TypeOK, Next
    PROVE  TypeOK'
<1> USE DEF TypeOK, shared, locals, sets, tids, Goto, Labels
<1>1. CASE Quit
  BY <1>1 DEF Quit
<1>2. ASSUME NEW w \in Workers, Work(w)
      PROVE  TypeOK'
  <2>1. CASE NewSteps(w)
    <3>1. PICK p \in Programs : steps' = [steps EXCEPT ![w] = p]
      BY <2>1 DEF NewSteps
    <3>2. p \in Seq(Steps)
      BY <3>1, SiloProgramsAssumption
    <3>3. number'[w] = number[w] + 1 /\ number[w] + 1 <= Quota[w]
      <4>1. Quota[w] \in Nat /\ number[w] \in Nat /\ number[w] < Quota[w]
        BY <2>1, SiloAssumption DEF NewSteps
      <4> QED
        BY <2>1, <4>1 DEF NewSteps
    <3> QED
      BY <2>1, <3>1, <3>2, <3>3, SMTT(30) DEF NewSteps
  <2>2. CASE Begin(w)
    <3>1. globalEpoch' \in 0 .. MaxEpoch
      BY <2>2, SiloAssumption, SMTT(30) DEF Begin, AdvanceEpoch
    <3> QED
      BY <2>2, <3>1, WordOperations, SMTT(30) DEF Begin
  <2>3. CASE Stop(w)
    <3>1. globalEpoch' \in 0 .. MaxEpoch
      BY <2>3, SiloAssumption, SMTT(30) DEF Stop, AdvanceEpoch
    <3> QED
      BY <2>3, <3>1 DEF Stop
  <2>4. CASE ReadAgain(w)
    BY <2>4, SMTT(30) DEF ReadAgain, At
  <2>5. CASE LoadTid(w)
    <3>1. op[w] \in DOMAIN steps[w] /\ word[KeyOf(w)].lock = 0
      BY <2>5 DEF LoadTid, At, CanRead
    <3>2. word[KeyOf(w)] \in Words
      BY <3>1, SiloKeyOf
    <3> DEFINE x == [seen[w] EXCEPT !.word = word[KeyOf(w)]]
    <3>3. x \in SeenRecords /\ x.word = word[KeyOf(w)]
      BY <3>2, ZenonT(60) DEF SeenRecords
    <3>4. seen' = [seen EXCEPT ![w] = x]
      BY <2>5 DEF LoadTid
    <3>5. seen' \in [Workers -> SeenRecords] /\ \A u \in Workers : seen'[u].word.lock = 0
      BY <3>1, <3>3, <3>4, SeenUpdate
    <3> QED
      BY <2>5, <3>1, <3>5, SMTT(30) DEF LoadTid, SeenRecords
  <2>6. CASE CopyValue(w)
    <3>1. KeyOf(w) \in Keys
      BY <2>6, SiloKeyOf DEF CopyValue
    <3> DEFINE x == [seen[w] EXCEPT !.from = value[KeyOf(w)]]
    <3>2. x \in SeenRecords /\ x.word = seen[w].word
      BY <3>1, ZenonT(60) DEF SeenRecords
    <3>3. seen' = [seen EXCEPT ![w] = x]
      BY <2>6 DEF CopyValue
    <3>4. seen' \in [Workers -> SeenRecords] /\ \A u \in Workers : seen'[u].word.lock = 0
      BY <3>2, <3>3, SeenUpdate
    <3> QED
      BY <2>6, <3>4, SMTT(30) DEF CopyValue, SeenRecords
  <2>7. CASE CheckTid(w)
    <3>1. KeyOf(w) \in Keys /\ op[w] \in DOMAIN steps[w]
      BY <2>7, SiloKeyOf DEF CheckTid
    <3>2. CASE seen[w].word = word[KeyOf(w)]
      <4>1. PICK r \in ReadElements :
               r.word = seen[w].word /\ readSet' = [readSet EXCEPT ![w] = Append(@, r)]
        <5>1. [key |-> KeyOf(w), word |-> word[KeyOf(w)], from |-> seen[w].from]
                 \in ReadElements
          BY <3>1 DEF ReadElements
        <5> QED
          BY <2>7, <3>2, <5>1 DEF CheckTid
      <4>2. readSet' \in [Workers -> Seq(ReadElements)]
        BY <4>1
      <4>3. \A u \in Workers : \A i \in DOMAIN readSet'[u] : readSet'[u][i].word.lock = 0
        BY <4>1, SMTT(30)
      <4>4. /\ seen' = [seen EXCEPT ![w] = Nothing] /\ op' = [op EXCEPT ![w] = op[w] + 1]
            /\ pc' = [pc EXCEPT ![w] = "steps"]
        BY <2>7, <3>2 DEF CheckTid
      <4>5. /\ seen' \in [Workers -> SeenRecords]
            /\ \A u \in Workers : seen'[u].word.lock = 0
        BY <4>4, NothingType DEF SeenRecords
      <4> QED
        <5>1. op' \in [Workers -> Nat \ {0}] /\ pc' \in [Workers -> Labels]
          BY <4>4
        <5>2. \A u \in Workers : pc'[u] \in {"value", "check"} => op'[u] \in DOMAIN steps[u]
          BY <4>4
        <5>3. UNCHANGED <<word, value, globalEpoch, localEpoch, number, steps, idx, writeSet,
                          maxWriteTid, maxReadTid, mostRecentlyChosenTid>>
          BY <2>7 DEF CheckTid
        <5>4. \A u \in Workers : pc'[u] = "publish" => idx'[u] \in DOMAIN writeSet'[u]
          BY <4>4, <5>3
        <5> QED
          BY <4>2, <4>3, <4>5, <5>1, <5>2, <5>3, <5>4 DEF SeenRecords
    <3>3. CASE seen[w].word # word[KeyOf(w)]
      <4>1. PICK x \in SeenRecords : x.word.lock = 0 /\ seen' = [seen EXCEPT ![w] = x]
        <5>1. CASE word[KeyOf(w)].lock = 0
          <6>1. [Nothing EXCEPT !.word = word[KeyOf(w)]] \in SeenRecords
            BY <3>1, NothingType DEF SeenRecords
          <6>2. [Nothing EXCEPT !.word = word[KeyOf(w)]].word = word[KeyOf(w)]
            BY DEF Nothing
          <6> QED
            BY <2>7, <3>3, <5>1, <6>1, <6>2 DEF CheckTid
        <5>2. CASE word[KeyOf(w)].lock # 0
          BY <2>7, <3>3, <5>2, NothingType DEF CheckTid
        <5> QED
          BY <5>1, <5>2
      <4>2. /\ seen' \in [Workers -> SeenRecords]
            /\ \A u \in Workers : seen'[u].word.lock = 0
        BY <4>1 DEF SeenRecords
      <4>3. PICK label \in {"value", "steps"} : pc' = [pc EXCEPT ![w] = label]
        BY <2>7, <3>3 DEF CheckTid
      <4>4. UNCHANGED <<readSet, op>>
        BY <2>7, <3>3 DEF CheckTid
      <4> QED
        BY <2>7, <3>1, <4>2, <4>3, <4>4, SMTT(30) DEF CheckTid, SeenRecords
    <3> QED
      BY <3>2, <3>3
  <2>8. CASE Write(w)
    <3>1. KeyOf(w) \in Keys
      BY <2>8, SiloKeyOf, SMTT(30) DEF Write, At
    <3>2. writeSet' \in [Workers -> Seq(Keys)]
      BY <2>8, <3>1 DEF Write
    <3>3. op' = [op EXCEPT ![w] = op[w] + 1] /\ pc[w] = "steps"
          /\ \A u \in Workers \ {w} : writeSet'[u] = writeSet[u]
      BY <2>8 DEF Write, At
    <3>4. \A u \in Workers : pc[u] = "publish" => writeSet'[u] = writeSet[u]
      BY <3>3
    <3>5. \A u \in Workers : pc[u] \in {"value", "check"} => op'[u] = op[u]
      BY <3>3
    <3>6. op' \in [Workers -> Nat \ {0}]
      BY <3>3
    <3>7. UNCHANGED <<shared, pc, number, steps, idx, seen, readSet, tids>>
      BY <2>8 DEF Write
    <3> QED
      BY <3>2, <3>4, <3>5, <3>6, <3>7
  <2>9. CASE Sort(w)
    <3>1. PICK q \in SortsOf(writeSet[w]) : writeSet' = [writeSet EXCEPT ![w] = q]
      BY <2>9 DEF Sort
    <3>2. q \in Seq(Keys)
      BY <3>1, SiloSortType
    <3> QED
      BY <2>9, <3>1, <3>2, SMTT(30) DEF Sort
  <2>10. CASE LockRecord(w)
    <3>1. writeSet[w][idx[w]] \in Keys
      BY <2>10 DEF LockRecord
    <3>2. word' \in [Keys -> Words] /\ maxWriteTid' \in [Workers -> Words]
      BY <2>10, <3>1, WordOperations DEF LockRecord
    <3> QED
      BY <2>10, <3>2, SMTT(30) DEF LockRecord
  <2>11. CASE LoadEpoch(w)
    <3> DEFINE x == [seen[w] EXCEPT !.epoch = globalEpoch]
    <3>1. x \in SeenRecords /\ x.word = seen[w].word
      BY ZenonT(60) DEF SeenRecords
    <3>2. seen' = [seen EXCEPT ![w] = x]
      BY <2>11 DEF LoadEpoch
    <3>3. seen' \in [Workers -> SeenRecords] /\ \A u \in Workers : seen'[u].word.lock = 0
      BY <3>1, <3>2, SeenUpdate
    <3> QED
      BY <2>11, <3>3, SMTT(30) DEF LoadEpoch, SeenRecords
  <2>12. CASE StoreEpoch(w)
    <3>1. seen[w].epoch \in Epochs
      BY SiloAssumption, WidthAssumption, SMTT(30) DEF Epochs
    <3>2. /\ seen' \in [Workers -> SeenRecords]
          /\ \A u \in Workers : seen'[u].word.lock = 0
      BY <2>12, NothingType DEF StoreEpoch, SeenRecords
    <3> QED
      BY <2>12, <3>1, <3>2, SMTT(30) DEF StoreEpoch, SeenRecords
  <2>13. CASE ValidateRead(w)
    <3>1. readSet[w][idx[w]] \in ReadElements
      BY <2>13 DEF ValidateRead
    <3>2. maxReadTid' \in [Workers -> Words]
      BY <2>13, <3>1, WordOperations DEF ValidateRead, ReadElements
    <3> QED
      BY <2>13, <3>2, SMTT(30) DEF ValidateRead
  <2>14. CASE FailValidation(w)
    BY <2>14, SMTT(30) DEF FailValidation
  <2>15. CASE UnlockRecord(w)
    <3>1. writeSet[w][idx[w]] \in Keys
      BY <2>15 DEF UnlockRecord
    <3>2. word' \in [Keys -> Words]
      BY <2>15, <3>1, WordOperations DEF UnlockRecord
    <3> QED
      BY <2>15, <3>2, SMTT(30) DEF UnlockRecord
  <2>16. CASE Abort(w)
    BY <2>16, SMTT(30) DEF Abort
  <2>17. CASE ChooseTid(w)
    <3>1. mostRecentlyChosenTid' \in [Workers -> Words]
      BY <2>17, ChosenTidWord DEF ChooseTid
    <3>2. /\ pc' = [pc EXCEPT ![w] = "install"] /\ idx' = [idx EXCEPT ![w] = 1]
          /\ UNCHANGED <<shared, locals, seen, sets, maxWriteTid, maxReadTid>>
      BY <2>17 DEF ChooseTid
    <3> QED
      BY <3>1, <3>2
  <2>18. CASE StoreValue(w)
    <3>1. Id(w) \in Ids
      BY DEF Id, Ids
    <3> QED
      BY <2>18, <3>1, SMTT(30) DEF StoreValue
  <2>19. CASE StoreTid(w)
    <3>1. writeSet[w][idx[w]] \in Keys
      BY <2>19 DEF StoreTid
    <3>2. word' \in [Keys -> Words]
      BY <2>19, <3>1 DEF StoreTid
    <3> QED
      BY <2>19, <3>2, SMTT(30) DEF StoreTid
  <2>20. CASE Finish(w)
    BY <2>20, SMTT(30) DEF Finish
  <2> QED
    BY <1>2, <2>1, <2>2, <2>3, <2>4, <2>5, <2>6, <2>7, <2>8, <2>9, <2>10, <2>11,
       <2>12, <2>13, <2>14, <2>15, <2>16, <2>17, <2>18, <2>19, <2>20 DEF Work
<1> QED
  BY <1>1, <1>2 DEF Next

LEMMA SiloTypeStutter ==
    ASSUME TypeOK, UNCHANGED vars
    PROVE  TypeOK'
BY DEF TypeOK, vars, shared, locals, sets, tids

\* Every variable keeps the range of its C++ type; no word outgrows its bit
\* fields, and read() returns no locked word.
THEOREM SiloTyping == Spec => []TypeOK
<1>1. TypeOK /\ [Next]_vars => TypeOK'
  BY SiloTypeStep, SiloTypeStutter
<1> QED
  BY SiloTypeInit, <1>1, PTL DEF Spec

-----------------------------------------------------------------------------
(* The epochs                                                              *)

\* The leader stores the epoch once on the way from one increment to the next.
LeaderInv ==
    /\ pc[Leader] \in {"next", "retry", "validate", "install", "publish", "unlock"} =>
          globalEpoch <= localEpoch[Leader]
    /\ pc[Leader] = "epoch" => seen[Leader].epoch = globalEpoch

\* A follower that is about to store an epoch that has passed still shows the
\* leader one that is not the current one, so there is no second increment.
FollowerInv ==
    \A w \in Workers \ {Leader} : pc[w] = "epoch" =>
        \/ seen[w].epoch = globalEpoch
        \/ seen[w].epoch = globalEpoch - 1 /\ localEpoch[w] # globalEpoch

EpochInv == LeaderInv /\ FollowerInv /\ EpochLag

\* The types that matter here.
EpochTypes ==
    /\ globalEpoch \in Int
    /\ localEpoch \in [Workers -> Int]
    /\ pc \in [Workers -> Labels]
    /\ \A w \in Workers : seen[w].epoch \in Int

LEMMA EpochTypesOK == TypeOK => EpochTypes
<1> SUFFICES ASSUME TypeOK PROVE EpochTypes
  OBVIOUS
<1>1. Epochs \subseteq Int /\ 0 .. MaxEpoch \subseteq Int
  BY DEF Epochs
<1> QED
  BY <1>1 DEF TypeOK, EpochTypes

LEMMA EpochInit == Init => EpochInv
<1> SUFFICES ASSUME Init PROVE EpochInv
  OBVIOUS
<1>1. \A w \in Workers : localEpoch[w] \in 0 .. 1
  BY DEF Init
<1>2. \A w \in Workers : pc[w] = "next" /\ globalEpoch = 0
  BY DEF Init
<1> QED
  BY <1>1, <1>2, SiloAssumption DEF EpochInv, LeaderInv, FollowerInv, EpochLag

Loaded == {"next", "retry", "validate", "install", "publish", "unlock"}

\* Steps of worker w that leave the epochs alone, and load none.
LEMMA EpochFrame ==
    ASSUME EpochTypes, EpochInv, NEW w \in Workers, NEW label,
           UNCHANGED <<globalEpoch, localEpoch>>,
           pc' = [pc EXCEPT ![w] = label], label # "epoch",
           label \in Loaded => pc[w] \in Loaded,
           \A u \in Workers \ {w} : seen'[u] = seen[u]
    PROVE  EpochInv'
<1> USE SiloAssumption DEF EpochInv, EpochTypes, Loaded
<1>1. LeaderInv'
  BY DEF LeaderInv
<1>2. FollowerInv'
  BY DEF FollowerInv
<1>3. EpochLag'
  BY DEF EpochLag
<1> QED
  BY <1>1, <1>2, <1>3

\* The increment waits for every follower, and for the leader's own store.
LEMMA EpochStepsOn ==
    ASSUME EpochTypes, EpochInv, NEW w \in Workers, NEW label \in {"steps", "stopped"},
           pc[w] = "retry", AdvanceEpoch(w), UNCHANGED <<localEpoch, seen>>,
           pc' = [pc EXCEPT ![w] = label]
    PROVE  EpochInv'
<1> USE SiloAssumption DEF EpochInv, EpochTypes
<1>1. /\ w = Leader /\ globalEpoch' = globalEpoch + 1
      /\ \A u \in Workers \ {Leader} : localEpoch[u] = globalEpoch
      /\ globalEpoch <= localEpoch[Leader]
  BY DEF AdvanceEpoch, EpochLoaded, LeaderInv
<1>2. LeaderInv'
  BY <1>1 DEF LeaderInv
<1>3. FollowerInv'
  BY <1>1 DEF FollowerInv
<1>4. EpochLag'
  BY <1>1 DEF EpochLag
<1> QED
  BY <1>2, <1>3, <1>4

LEMMA EpochStep ==
    ASSUME TypeOK, EpochInv, Next
    PROVE  EpochInv'
<1> USE SiloAssumption DEF Goto, shared, locals, sets, tids
<1> EpochTypes
  BY EpochTypesOK
<1> /\ pc \in [Workers -> Labels] /\ localEpoch \in [Workers -> Int] /\ globalEpoch \in Int
  BY DEF EpochTypes
<1>1. CASE Quit
  BY <1>1 DEF Quit, EpochInv, LeaderInv, FollowerInv, EpochLag
<1>2. ASSUME NEW w \in Workers, Work(w)
      PROVE  EpochInv'
  \* The steps that neither move an epoch nor touch what was seen.
  <2>1. ASSUME NEW label, pc' = [pc EXCEPT ![w] = label], label # "epoch",
               UNCHANGED <<globalEpoch, localEpoch, seen>>,
               label \in Loaded => pc[w] \in Loaded
        PROVE  EpochInv'
    BY <2>1, EpochFrame
  <2>2. ASSUME UNCHANGED <<globalEpoch, localEpoch, pc, seen>>
        PROVE  EpochInv'
    BY <2>2 DEF EpochInv, LeaderInv, FollowerInv, EpochLag
  <2>3. CASE NewSteps(w)
    BY <2>1, <2>3 DEF NewSteps, Loaded
  <2>4. CASE Begin(w)
    <3>1. CASE AdvanceEpoch(w)
      BY <2>4, <3>1, EpochStepsOn DEF Begin
    <3>2. CASE UNCHANGED globalEpoch
      BY <2>1, <2>4, <3>2 DEF Begin, Loaded
    <3> QED
      BY <2>4, <3>1, <3>2 DEF Begin
  <2>5. CASE Stop(w)
    <3>1. CASE pc[w] = "retry" /\ AdvanceEpoch(w)
      BY <2>5, <3>1, EpochStepsOn DEF Stop
    <3>2. CASE UNCHANGED globalEpoch
      BY <2>1, <2>5, <3>2 DEF Stop, Loaded
    <3> QED
      BY <2>5, <3>1, <3>2 DEF Stop
  <2>6. CASE ReadAgain(w) \/ Write(w)
    BY <2>2, <2>6 DEF ReadAgain, Write
  <2>7. CASE LoadTid(w) \/ CopyValue(w) \/ CheckTid(w)
    <3>1. \E label \in {"value", "check", "steps"} : pc' = [pc EXCEPT ![w] = label]
      BY <2>7 DEF LoadTid, CopyValue, CheckTid
    <3>2. UNCHANGED <<globalEpoch, localEpoch>>
      BY <2>7 DEF LoadTid, CopyValue, CheckTid
    <3>3. \A u \in Workers \ {w} : seen'[u] = seen[u]
      BY <2>7 DEF LoadTid, CopyValue, CheckTid, TypeOK
    <3> QED
      BY <3>1, <3>2, <3>3, EpochFrame DEF Loaded
  <2>8. CASE Sort(w)
    BY <2>1, <2>8 DEF Sort, Loaded
  <2>9. CASE LockRecord(w) \/ ValidateRead(w) \/ UnlockRecord(w)
    BY <2>2, <2>9 DEF LockRecord, ValidateRead, UnlockRecord
  <2>10. CASE LoadEpoch(w)
    <3>1. /\ pc[w] = "lock" /\ pc' = [pc EXCEPT ![w] = "epoch"]
          /\ \A u \in Workers \ {w} : seen'[u] = seen[u]
          /\ seen'[w].epoch = globalEpoch
          /\ UNCHANGED <<globalEpoch, localEpoch>>
      BY <2>10 DEF LoadEpoch, TypeOK
    <3>2. LeaderInv'
      BY <3>1 DEF LeaderInv, EpochInv
    <3>3. FollowerInv'
      BY <3>1 DEF FollowerInv, EpochInv
    <3>4. EpochLag'
      BY <3>1 DEF EpochLag, EpochInv
    <3> QED
      BY <3>2, <3>3, <3>4 DEF EpochInv
  <2>11. CASE StoreEpoch(w)
    <3>1. /\ pc[w] = "epoch" /\ pc' = [pc EXCEPT ![w] = "validate"]
          /\ \A u \in Workers \ {w} : seen'[u] = seen[u]
          /\ localEpoch' = [localEpoch EXCEPT ![w] = seen[w].epoch]
          /\ UNCHANGED globalEpoch
      BY <2>11 DEF StoreEpoch, TypeOK
    <3>2. LeaderInv'
      BY <3>1 DEF LeaderInv, EpochInv, EpochTypes
    <3>3. FollowerInv'
      BY <3>1 DEF FollowerInv, EpochInv
    <3>4. globalEpoch - seen[w].epoch <= 1
      BY <3>1 DEF LeaderInv, FollowerInv, EpochInv, EpochTypes
    <3>5. EpochLag'
      BY <3>1, <3>4 DEF EpochLag, EpochInv
    <3> QED
      BY <3>2, <3>3, <3>5 DEF EpochInv
  <2>12. CASE FailValidation(w) \/ Abort(w) \/ ChooseTid(w)
    BY <2>1, <2>12 DEF FailValidation, Abort, ChooseTid, Loaded
  <2>13. CASE StoreValue(w) \/ StoreTid(w) \/ Finish(w)
    BY <2>1, <2>13 DEF StoreValue, StoreTid, Finish, Loaded
  <2> QED
    BY <1>2, <2>3, <2>4, <2>5, <2>6, <2>7, <2>8, <2>9, <2>10, <2>11, <2>12, <2>13 DEF Work
<1> QED
  BY <1>1, <1>2 DEF Next

\* stepEpochTime(): "Silo requires that E and e_w never diverge too far",
\* also while a worker is between loading the epoch and storing it.
THEOREM EpochsStayClose == Spec => []EpochLag
<1>1. TypeOK /\ EpochInv /\ [Next]_vars => EpochInv'
  <2>1. ASSUME EpochInv, UNCHANGED vars
        PROVE  EpochInv'
    BY <2>1 DEF vars, shared, EpochInv, LeaderInv, FollowerInv, EpochLag
  <2> QED
    BY <2>1, EpochStep
<1>2. EpochInv => EpochLag
  BY DEF EpochInv
<1> QED
  BY EpochInit, SiloTyping, <1>1, <1>2, PTL DEF Spec

-----------------------------------------------------------------------------
(* What a step leaves alone                                                *)

\* Everything but quit.
core == <<shared, pc, locals, idx, seen, sets, tids, history>>

LEMMA CoreKept == Quit \/ UNCHANGED vars => UNCHANGED core
BY DEF Quit, vars, core, shared, locals, sets, tids

\* A step of w leaves the other workers where they were.
LEMMA OthersFixed ==
    ASSUME TypeOK, NEW w \in Workers, Work(w)
    PROVE  \A u \in Workers \ {w} :
              /\ pc'[u] = pc[u] /\ idx'[u] = idx[u] /\ op'[u] = op[u]
              /\ number'[u] = number[u] /\ steps'[u] = steps[u]
              /\ seen'[u] = seen[u] /\ localEpoch'[u] = localEpoch[u]
              /\ readSet'[u] = readSet[u] /\ writeSet'[u] = writeSet[u]
              /\ maxWriteTid'[u] = maxWriteTid[u] /\ maxReadTid'[u] = maxReadTid[u]
              /\ mostRecentlyChosenTid'[u] = mostRecentlyChosenTid[u]
<1> USE DEF TypeOK, shared, locals, sets, tids, Goto
<1>1. CASE NewSteps(w) \/ Begin(w) \/ Stop(w) \/ ReadAgain(w)
  BY <1>1, SMTT(30) DEF NewSteps, Begin, Stop, ReadAgain
<1>2. CASE LoadTid(w) \/ CopyValue(w) \/ CheckTid(w)
  BY <1>2, SMTT(30) DEF LoadTid, CopyValue, CheckTid
<1>3. CASE Write(w) \/ Sort(w) \/ LockRecord(w) \/ LoadEpoch(w) \/ StoreEpoch(w)
  <2>1. CASE Write(w) \/ Sort(w)
    BY <2>1, SMTT(30) DEF Write, Sort
  <2>2. CASE LockRecord(w) \/ LoadEpoch(w) \/ StoreEpoch(w)
    BY <2>2, SMTT(30) DEF LockRecord, LoadEpoch, StoreEpoch
  <2> QED
    BY <1>3, <2>1, <2>2
<1>4. CASE ValidateRead(w) \/ FailValidation(w) \/ UnlockRecord(w) \/ Abort(w)
  BY <1>4 DEF ValidateRead, FailValidation, UnlockRecord, Abort
<1>5. CASE ChooseTid(w) \/ StoreValue(w) \/ StoreTid(w) \/ Finish(w)
  BY <1>5 DEF ChooseTid, StoreValue, StoreTid, Finish
<1> QED
  BY <1>1, <1>2, <1>3, <1>4, <1>5 DEF Work

\* Which steps touch the records, the TIDs and the history.
LEMMA StepTouches ==
    ASSUME NEW w \in Workers, Work(w)
    PROVE  /\ ~ (LockRecord(w) \/ UnlockRecord(w) \/ StoreTid(w)) => word' = word
           /\ ~ StoreValue(w) => value' = value
           /\ ~ ChooseTid(w) => history' = history
                                /\ mostRecentlyChosenTid' = mostRecentlyChosenTid
           /\ ~ (LockRecord(w) \/ Begin(w)) => maxWriteTid' = maxWriteTid
           /\ ~ (ValidateRead(w) \/ Begin(w)) => maxReadTid' = maxReadTid
<1> USE DEF shared, locals, sets, tids
<1>1. CASE NewSteps(w) \/ Begin(w) \/ Stop(w) \/ ReadAgain(w)
  BY <1>1 DEF NewSteps, Begin, Stop, ReadAgain
<1>2. CASE LoadTid(w) \/ CopyValue(w) \/ CheckTid(w)
  BY <1>2 DEF LoadTid, CopyValue, CheckTid
<1>3. CASE Write(w) \/ Sort(w) \/ LockRecord(w) \/ LoadEpoch(w) \/ StoreEpoch(w)
  BY <1>3 DEF Write, Sort, LockRecord, LoadEpoch, StoreEpoch
<1>4. CASE ValidateRead(w) \/ FailValidation(w) \/ UnlockRecord(w) \/ Abort(w)
  BY <1>4 DEF ValidateRead, FailValidation, UnlockRecord, Abort
<1>5. CASE ChooseTid(w) \/ StoreValue(w) \/ StoreTid(w) \/ Finish(w)
  BY <1>5 DEF ChooseTid, StoreValue, StoreTid, Finish
<1> QED
  BY <1>1, <1>2, <1>3, <1>4, <1>5 DEF Work

-----------------------------------------------------------------------------
(* Locks                                                                   *)

\* The positions of the write set whose records w has locked and not released.
HeldPositions(w) ==
    {i \in 1 .. Len(writeSet[w]) :
        \/ pc[w] = "lock" /\ i < idx[w]
        \/ pc[w] \in {"epoch", "validate"}
        \/ pc[w] \in {"install", "publish", "unlock"} /\ i >= idx[w]}

LocksExclusive ==
    \A w, u \in Workers :
        \A i \in HeldPositions(w), j \in HeldPositions(u) :
            writeSet[w][i] = writeSet[u][j] => w = u /\ i = j

LockBitOwned ==
    \A k \in Keys :
        word[k].lock = 1 <=>
            \E w \in Workers : \E i \in HeldPositions(w) : writeSet[w][i] = k

\* A chosen TID is stored unlocked.
ChosenUnlocked == \A w \in Workers : mostRecentlyChosenTid[w].lock = 0

LockInv == LocksExclusive /\ LockBitOwned /\ ChosenUnlocked

LEMMA LockInit == Init => LockInv
<1> SUFFICES ASSUME Init PROVE LockInv
  OBVIOUS
<1>1. \A w \in Workers : HeldPositions(w) = {}
  BY DEF Init, HeldPositions
<1>2. \A k \in Keys : word[k].lock = 0
  BY DEF Init
<1> QED
  BY <1>1, <1>2 DEF Init, LockInv, LocksExclusive, LockBitOwned, ChosenUnlocked, ZeroWord

\* Steps that move no lock keep the invariant.
LEMMA LockFrame ==
    ASSUME LocksExclusive, LockBitOwned,
           \A u \in Workers : /\ HeldPositions(u)' = HeldPositions(u)
                              /\ \A i \in HeldPositions(u) : writeSet'[u][i] = writeSet[u][i],
           word' = word
    PROVE  LocksExclusive' /\ LockBitOwned'
<1>1. LocksExclusive'
  BY DEF LocksExclusive
<1>2. LockBitOwned'
  BY DEF LockBitOwned
<1> QED
  BY <1>1, <1>2

\* Worker w gives back the record at its position i.
LEMMA LockRelease ==
    ASSUME TypeOK, LocksExclusive, LockBitOwned,
           NEW w \in Workers, NEW i \in HeldPositions(w),
           writeSet' = writeSet,
           \A u \in Workers \ {w} : HeldPositions(u)' = HeldPositions(u),
           HeldPositions(w)' = HeldPositions(w) \ {i},
           word'[writeSet[w][i]].lock = 0,
           \A k \in Keys \ {writeSet[w][i]} : word'[k] = word[k]
    PROVE  LocksExclusive' /\ LockBitOwned'
<1>1. \A u \in Workers : HeldPositions(u)' \subseteq HeldPositions(u)
  OBVIOUS
<1>2. LocksExclusive'
  BY <1>1 DEF LocksExclusive
<1>3. ASSUME NEW u \in Workers, NEW j \in HeldPositions(u)'
      PROVE  writeSet[u][j] # writeSet[w][i]
  BY <1>1 DEF LocksExclusive
<1>4. ASSUME NEW k \in Keys
      PROVE  word'[k].lock = 1 <=>
               \E u \in Workers : \E j \in HeldPositions(u)' : writeSet'[u][j] = k
  <2>1. CASE k = writeSet[w][i]
    BY <2>1, <1>3
  <2>2. CASE k # writeSet[w][i]
    BY <2>2, <1>1 DEF LockBitOwned
  <2> QED
    BY <2>1, <2>2
<1>5. LockBitOwned'
  BY <1>4 DEF LockBitOwned
<1> QED
  BY <1>2, <1>5

\* The steps of a worker that holds what it held, and may hold something.
Holds(w) ==
    \/ LoadEpoch(w) \/ StoreEpoch(w) \/ ValidateRead(w) \/ FailValidation(w)
    \/ ChooseTid(w) \/ StoreValue(w)

\* What a step does to the locks its worker holds.
LEMMA HeldByStep ==
    ASSUME TypeOK, NEW w \in Workers, Work(w)
    PROVE  /\ \A u \in Workers \ {w} : HeldPositions(u)' = HeldPositions(u)
           /\ LockRecord(w) =>
                 /\ idx[w] \in DOMAIN writeSet[w] /\ writeSet' = writeSet
                 /\ pc[w] = "lock" /\ pc'[w] = "lock" /\ idx[w] \notin HeldPositions(w)
                 /\ HeldPositions(w)' = HeldPositions(w) \cup {idx[w]}
           /\ UnlockRecord(w) \/ StoreTid(w) =>
                 /\ idx[w] \in HeldPositions(w) /\ writeSet' = writeSet
                 /\ HeldPositions(w)' = HeldPositions(w) \ {idx[w]}
           /\ Holds(w) =>
                 /\ HeldPositions(w)' = HeldPositions(w)
                 /\ word' = word /\ writeSet' = writeSet
           /\ ~ (LockRecord(w) \/ UnlockRecord(w) \/ StoreTid(w) \/ Holds(w)) =>
                 /\ HeldPositions(w) = {} /\ HeldPositions(w)' = {} /\ word' = word
<1> USE DEF shared, locals, sets, tids, Goto
<1>0. /\ pc \in [Workers -> Labels] /\ idx \in [Workers -> Nat \ {0}]
      /\ writeSet \in [Workers -> Seq(Keys)]
      /\ \A u \in Workers : pc[u] = "publish" => idx[u] \in DOMAIN writeSet[u]
  BY DEF TypeOK
<1>1. \A u \in Workers \ {w} : HeldPositions(u)' = HeldPositions(u)
  BY OthersFixed DEF HeldPositions
<1>2. ASSUME LockRecord(w)
      PROVE  /\ idx[w] \in DOMAIN writeSet[w] /\ writeSet' = writeSet
             /\ pc[w] = "lock" /\ pc'[w] = "lock" /\ idx[w] \notin HeldPositions(w)
             /\ HeldPositions(w)' = HeldPositions(w) \cup {idx[w]}
  <2>1. /\ idx[w] \in DOMAIN writeSet[w] /\ writeSet' = writeSet
        /\ pc[w] = "lock" /\ pc'[w] = "lock" /\ idx'[w] = idx[w] + 1
    BY <1>0, <1>2 DEF LockRecord
  <2>2. HeldPositions(w)' = HeldPositions(w) \cup {idx[w]} /\ idx[w] \notin HeldPositions(w)
    BY <1>0, <2>1 DEF HeldPositions
  <2> QED
    BY <2>1, <2>2
<1>3. ASSUME UnlockRecord(w) \/ StoreTid(w)
      PROVE  /\ idx[w] \in HeldPositions(w) /\ writeSet' = writeSet
             /\ HeldPositions(w)' = HeldPositions(w) \ {idx[w]}
  <2>1. /\ idx[w] \in DOMAIN writeSet[w] /\ writeSet' = writeSet /\ idx'[w] = idx[w] + 1
        /\ \/ pc[w] = "unlock" /\ pc'[w] = "unlock"
           \/ pc[w] = "publish" /\ pc'[w] = "install"
    BY <1>0, <1>3 DEF UnlockRecord, StoreTid
  <2> QED
    BY <1>0, <2>1 DEF HeldPositions
<1>4. ASSUME Holds(w)
      PROVE  /\ HeldPositions(w)' = HeldPositions(w)
             /\ word' = word /\ writeSet' = writeSet
  <2>1. word' = word /\ writeSet' = writeSet
    BY <1>4 DEF Holds, LoadEpoch, StoreEpoch, ValidateRead, FailValidation, ChooseTid,
                StoreValue
  <2>2. HeldPositions(w)' = HeldPositions(w)
    BY <1>0, <1>4 DEF Holds, LoadEpoch, StoreEpoch, ValidateRead, FailValidation, ChooseTid,
                      StoreValue, HeldPositions
  <2> QED
    BY <2>1, <2>2
<1>5. ASSUME ~ (LockRecord(w) \/ UnlockRecord(w) \/ StoreTid(w) \/ Holds(w))
      PROVE  HeldPositions(w) = {} /\ HeldPositions(w)' = {} /\ word' = word
  <2>0. \/ NewSteps(w) \/ Begin(w) \/ Stop(w) \/ ReadAgain(w) \/ LoadTid(w)
        \/ CopyValue(w) \/ CheckTid(w) \/ Write(w) \/ Sort(w) \/ Abort(w) \/ Finish(w)
    BY <1>5 DEF Work, Holds
  <2>1. word' = word
    BY <1>5, StepTouches
  <2>2. /\ \/ pc[w] \in {"next", "retry", "steps", "value", "check"}
           \/ pc[w] \in {"unlock", "install"} /\ idx[w] > Len(writeSet[w])
        /\ \/ pc'[w] \in {"next", "retry", "steps", "value", "check", "stopped"}
           \/ pc'[w] = "lock" /\ idx'[w] = 1
    BY <1>0, <2>0 DEF NewSteps, Begin, Stop, ReadAgain, LoadTid, CopyValue, CheckTid,
                      Write, Sort, Abort, Finish, At
  <2>3. HeldPositions(w) = {} /\ HeldPositions(w)' = {}
    BY <1>0, <2>2 DEF HeldPositions
  <2> QED
    BY <2>1, <2>3
<1> QED
  BY <1>1, <1>2, <1>3, <1>4, <1>5

LEMMA LockStep ==
    ASSUME TypeOK, LockInv, NEW w \in Workers, Work(w)
    PROVE  LockInv'
<1> USE DEF LockInv
<1>0. /\ idx \in [Workers -> Nat \ {0}] /\ writeSet \in [Workers -> Seq(Keys)]
      /\ mostRecentlyChosenTid \in [Workers -> Words] /\ word \in [Keys -> Words]
  BY DEF TypeOK
<1>1. ChosenUnlocked'
  <2>1. CASE ChooseTid(w)
    <3>1. ChosenTid(w).lock = 0
      BY ChosenTidWord, WordOperations DEF ChosenTid, Unlocked, Words, TypeOK
    <3> QED
      BY <1>0, <2>1, <3>1 DEF ChooseTid, ChosenUnlocked
  <2>2. CASE ~ ChooseTid(w)
    BY <2>2, StepTouches DEF ChosenUnlocked
  <2> QED
    BY <2>1, <2>2
<1>2. \A u \in Workers \ {w} : HeldPositions(u)' = HeldPositions(u) /\ writeSet'[u] = writeSet[u]
  BY HeldByStep, OthersFixed
<1>3. CASE LockRecord(w)
  <2> DEFINE k == writeSet[w][idx[w]]
  <2>1. /\ idx[w] \in DOMAIN writeSet[w] /\ writeSet' = writeSet
        /\ HeldPositions(w)' = HeldPositions(w) \cup {idx[w]}
    BY <1>3, HeldByStep
  <2>2. k \in Keys /\ word[k].lock = 0
    BY <1>0, <1>3, <2>1 DEF LockRecord
  <2>3. word'[k].lock = 1 /\ \A l \in Keys \ {k} : word'[l] = word[l]
    BY <1>0, <1>3, <2>2 DEF LockRecord, Locked, Words
  <2>4. \A u \in Workers : \A i \in HeldPositions(u) : writeSet[u][i] # k
    BY <2>2 DEF LockBitOwned
  <2>5. LocksExclusive'
    BY <1>2, <2>1, <2>4 DEF LocksExclusive
  <2>6. LockBitOwned'
    <3> SUFFICES ASSUME NEW l \in Keys
                 PROVE  word'[l].lock = 1 <=>
                   \E u \in Workers : \E i \in HeldPositions(u)' : writeSet'[u][i] = l
      BY DEF LockBitOwned
    <3>1. CASE l = k
      BY <3>1, <2>1, <2>3
    <3>2. CASE l # k
      BY <3>2, <1>2, <2>1, <2>3 DEF LockBitOwned
    <3> QED
      BY <3>1, <3>2
  <2> QED
    BY <1>1, <2>5, <2>6
<1>4. CASE UnlockRecord(w) \/ StoreTid(w)
  <2>1. /\ idx[w] \in HeldPositions(w) /\ writeSet' = writeSet
        /\ HeldPositions(w)' = HeldPositions(w) \ {idx[w]}
    BY <1>4, HeldByStep
  <2>2. writeSet[w][idx[w]] \in Keys
    BY <1>0, <2>1 DEF HeldPositions
  <2>3. /\ word'[writeSet[w][idx[w]]].lock = 0
        /\ \A l \in Keys \ {writeSet[w][idx[w]]} : word'[l] = word[l]
    BY <1>0, <1>4, <2>2 DEF UnlockRecord, StoreTid, Unlocked, Words, ChosenUnlocked
  <2> QED
    BY <1>1, <1>2, <2>1, <2>3, LockRelease
<1>5. CASE ~ (LockRecord(w) \/ UnlockRecord(w) \/ StoreTid(w))
  <2>1. /\ word' = word
        /\ \/ HeldPositions(w) = {} /\ HeldPositions(w)' = {}
           \/ HeldPositions(w)' = HeldPositions(w) /\ writeSet' = writeSet
    BY <1>5, HeldByStep
  <2>2. \A u \in Workers : /\ HeldPositions(u)' = HeldPositions(u)
                           /\ \A i \in HeldPositions(u) : writeSet'[u][i] = writeSet[u][i]
    BY <1>2, <2>1
  <2> QED
    BY <1>1, <2>1, <2>2, LockFrame
<1> QED
  BY <1>3, <1>4, <1>5

LEMMA LockStutter ==
    ASSUME LockInv, UNCHANGED core
    PROVE  LockInv'
BY DEF LockInv, LocksExclusive, LockBitOwned, ChosenUnlocked, HeldPositions,
       core, shared, sets, tids

-----------------------------------------------------------------------------
(* The tid field does not wrap.                                            *)

\* The transactions that have still to choose a TID.
Unchosen == AllIds \ {h.id : h \in history}

\* There is room above x for all of them.
Low(x) == x.tid + Cardinality(Unchosen) < TidMod

TidBound ==
    /\ \A k \in Keys : Low(word[k])
    /\ \A w \in Workers :
          Low(maxWriteTid[w]) /\ Low(maxReadTid[w]) /\ Low(mostRecentlyChosenTid[w])

LEMMA AllIdsFinite == IsFiniteSet(AllIds)
<1> DEFINE Of == [w \in Workers |-> {w} \X (1 .. Quota[w])]
           all == {Of[w] : w \in Workers}
<1>1. IsFiniteSet(all)
  <2>1. Of \in Surjection(Workers, all)
    BY DEF Surjection
  <2> HIDE DEF Of, all
  <2> QED
    BY <2>1, SiloAssumption, FS_Surjection
<1>2. ASSUME NEW w \in Workers PROVE IsFiniteSet(Of[w])
  <2>1. 1 \in Int /\ Quota[w] \in Int
    BY SiloAssumption
  <2>2. IsFiniteSet(1 .. Quota[w])
    BY <2>1, FS_Interval
  <2>3. IsFiniteSet({w})
    BY FS_Singleton
  <2>4. IsFiniteSet({w} \X (1 .. Quota[w]))
    BY <2>2, <2>3, FS_Product
  <2> QED
    BY <2>4
<1> HIDE DEF Of
<1>3. \A S \in all : IsFiniteSet(S)
  BY <1>2
<1> HIDE DEF all
<1>4. IsFiniteSet(UNION all)
  BY <1>1, <1>3, FS_UNION
<1>5. AllIds = UNION all
  BY DEF AllIds, Of, all
<1> QED
  BY <1>4, <1>5

\* An id names a worker, and a number from 1 on.
LEMMA AllIdsPairs ==
    \A x \in AllIds : x = <<x[1], x[2]>> /\ x[1] \in Workers /\ x[2] \in Nat \ {0}
BY SiloAssumption DEF AllIds

LEMMA UnchosenCardinality == IsFiniteSet(Unchosen) /\ Cardinality(Unchosen) \in Nat
<1>1. Unchosen \subseteq AllIds
  BY DEF Unchosen
<1>2. IsFiniteSet(Unchosen)
  BY <1>1, AllIdsFinite, FS_Subset
<1> QED
  BY <1>2, FS_CardinalityType

LEMMA IdInAll == TypeOK => \A w \in Workers : number[w] # 0 => Id(w) \in AllIds
<1> SUFFICES ASSUME TypeOK, NEW w \in Workers, number[w] # 0 PROVE Id(w) \in AllIds
  OBVIOUS
<1>1. number[w] \in 1 .. Quota[w]
  BY SiloAssumption, SMTT(30) DEF TypeOK
<1> QED
  BY <1>1 DEF Id, AllIds

\* Whoever is on its way has been given a number.
Numbers == \A w \in Workers : number[w] = 0 => pc[w] \in {"next", "stopped"}

LEMMA NumbersInit == Init => Numbers
BY DEF Init, Numbers

LEMMA NumbersStep ==
    ASSUME TypeOK, Numbers, NEW w \in Workers, Work(w)
    PROVE  Numbers'
<1> USE DEF shared, locals, sets, tids, Goto, Numbers
<1>0. pc \in [Workers -> Labels] /\ number \in [Workers -> Nat]
  BY DEF TypeOK
<1>1. CASE NewSteps(w)
  BY <1>0, <1>1 DEF NewSteps
<1>2. CASE Begin(w) \/ Stop(w) \/ ReadAgain(w) \/ LoadTid(w) \/ CopyValue(w) \/ CheckTid(w)
  BY <1>0, <1>2 DEF Begin, Stop, ReadAgain, LoadTid, CopyValue, CheckTid, At
<1>3. CASE Write(w) \/ Sort(w) \/ LockRecord(w) \/ LoadEpoch(w) \/ StoreEpoch(w)
  BY <1>0, <1>3 DEF Write, Sort, LockRecord, LoadEpoch, StoreEpoch, At
<1>4. CASE ValidateRead(w) \/ FailValidation(w) \/ UnlockRecord(w) \/ Abort(w)
  BY <1>0, <1>4 DEF ValidateRead, FailValidation, UnlockRecord, Abort
<1>5. CASE ChooseTid(w) \/ StoreValue(w) \/ StoreTid(w) \/ Finish(w)
  BY <1>0, <1>5 DEF ChooseTid, StoreValue, StoreTid, Finish
<1> QED
  BY <1>1, <1>2, <1>3, <1>4, <1>5 DEF Work

\* The next TID is above all that it is drawn from, and by one tid at most.
LEMMA ChosenTidOrder ==
    ASSUME TypeOK, NEW w \in Workers, NEW n \in Nat, n + 1 < TidMod,
           maxWriteTid[w].tid <= n, maxReadTid[w].tid <= n,
           mostRecentlyChosenTid[w].tid <= n
    PROVE  /\ ChosenTid(w) \in Words /\ ChosenTid(w).lock = 0
           /\ ChosenTid(w).tid <= n + 1
           /\ Precedes(maxWriteTid[w], ChosenTid(w))
           /\ Precedes(maxReadTid[w], ChosenTid(w))
           /\ Precedes(mostRecentlyChosenTid[w], ChosenTid(w))
           /\ localEpoch[w] <= ChosenTid(w).epoch
           /\ \A e \in Nat : /\ maxWriteTid[w].epoch <= e /\ maxReadTid[w].epoch <= e
                             /\ mostRecentlyChosenTid[w].epoch <= e /\ localEpoch[w] <= e
                             => ChosenTid(w).epoch <= e
<1> DEFINE a == maxWriteTid[w]
           b == maxReadTid[w]
           c == mostRecentlyChosenTid[w]
           d == TidC(w)
           top == WordMax(a, b)
           tidA == NextTid(top)
           tidB == NextTid(c)
           rest == WordMax(tidB, d)
           all == WordMax(tidA, rest)
<1>1. a \in Words /\ b \in Words /\ c \in Words /\ localEpoch[w] \in Epochs
  BY DEF TypeOK
<1>2. /\ top \in Words /\ tidA \in Words /\ tidB \in Words /\ d \in Words
      /\ rest \in Words /\ all \in Words
  BY <1>1, WordOperations, ChosenTidWord
<1>3. ASSUME NEW x \in Words
      PROVE  x.epoch \in Nat /\ x.tid \in Nat /\ x.lock \in 0 .. 1
  BY WidthAssumption DEF Words, Epochs
<1>4. /\ top.tid <= n /\ ~ Precedes(top, a) /\ ~ Precedes(top, b)
      /\ top = a \/ top = b
  BY <1>1, <1>3 DEF WordMax, WordLess, Precedes
<1>5. ASSUME NEW x \in Words, x.tid <= n
      PROVE  NextTid(x).tid = x.tid + 1 /\ NextTid(x).epoch = x.epoch
  <2>1. (x.tid + 1) % TidMod = x.tid + 1
    BY <1>5, <1>3, WidthAssumption
  <2> QED
    BY <1>5, <2>1 DEF NextTid, Words
<1>6. /\ tidA.tid = top.tid + 1 /\ tidA.epoch = top.epoch
      /\ tidB.tid = c.tid + 1 /\ tidB.epoch = c.epoch
  BY <1>1, <1>2, <1>4, <1>5
<1>7. d.tid = 0 /\ d.epoch = localEpoch[w]
  BY <1>1 DEF TidC, ZeroWord
<1>8. /\ Precedes(a, tidA) /\ Precedes(b, tidA) /\ Precedes(c, tidB)
      /\ tidA.tid <= n + 1 /\ tidB.tid <= n + 1
  BY <1>1, <1>2, <1>3, <1>4, <1>6 DEF Precedes
<1> HIDE DEF tidA, tidB, d
<1>9. /\ rest = tidB \/ rest = d
      /\ ~ Precedes(rest, tidB) /\ ~ Precedes(rest, d)
  BY <1>2, <1>3 DEF WordMax, WordLess, Precedes
<1> HIDE DEF rest
<1>10. /\ all = tidA \/ all = rest
       /\ ~ Precedes(all, tidA) /\ ~ Precedes(all, rest)
  BY <1>2, <1>3 DEF WordMax, WordLess, Precedes
<1> HIDE DEF all
<1>11. all = tidA \/ all = tidB \/ all = d
  BY <1>9, <1>10
<1>12. ~ Precedes(all, tidB) /\ ~ Precedes(all, d)
  BY <1>2, <1>3, <1>9, <1>10 DEF Precedes
<1>13. all.tid <= n + 1
  BY <1>7, <1>8, <1>11
<1>14. Precedes(a, all) /\ Precedes(b, all) /\ Precedes(c, all)
  BY <1>1, <1>2, <1>8, <1>10, <1>12, PrecedesOrder
<1>15. localEpoch[w] <= all.epoch
  BY <1>2, <1>3, <1>7, <1>12 DEF Precedes
<1>16. all.epoch \in {a.epoch, b.epoch, c.epoch, localEpoch[w]}
  BY <1>4, <1>6, <1>7, <1>11
<1>17. ChosenTid(w) = Unlocked(all)
  BY DEF ChosenTid, all, rest, tidA, tidB, d
<1>18. /\ Unlocked(all) \in Words /\ Unlocked(all).lock = 0
       /\ Unlocked(all).tid = all.tid /\ Unlocked(all).epoch = all.epoch
  BY <1>2, WordOperations DEF Unlocked, Words
<1>19. /\ Precedes(a, Unlocked(all)) /\ Precedes(b, Unlocked(all)) /\ Precedes(c, Unlocked(all))
  BY <1>14, <1>18 DEF Precedes
<1> HIDE DEF a, b, c
<1>20. \A e \in Nat : a.epoch <= e /\ b.epoch <= e /\ c.epoch <= e /\ localEpoch[w] <= e
                      => all.epoch <= e
  BY <1>16
<1> QED
  BY <1>13, <1>15, <1>17, <1>18, <1>19, <1>20 DEF a, b, c
-----------------------------------------------------------------------------
(* The history                                                             *)

\* Where the current transaction of a worker has already passed validation, or
\* there is none.
Past == {"next", "stopped", "install", "publish"}
Installing(w) == pc[w] \in {"install", "publish"}

\* What is known of a transaction of the history and its worker.
CommitInv(h) ==
    /\ h.id \in AllIds
    /\ h.tid \in Words /\ h.tid.lock = 0
    /\ h.writes \subseteq Keys
    /\ ~ Precedes(mostRecentlyChosenTid[h.id[1]], h.tid)
    /\ h.id[2] <= number[h.id[1]]
    /\ pc[h.id[1]] \notin Past => h.id[2] < number[h.id[1]]

HistoryInv ==
    /\ \A h \in history : CommitInv(h)
    /\ \A g, h \in history : g.id = h.id => g = h
    /\ \A w \in Workers : Installing(w) =>
          \E h \in history : /\ h.id = Id(w) /\ h.tid = mostRecentlyChosenTid[w]
                             /\ h.writes = Range(writeSet[w])
    /\ WorkerTidsGrow

ChoiceInv == Numbers /\ TidBound /\ HistoryInv

LEMMA ChoiceInit == Init => ChoiceInv
<1> SUFFICES ASSUME Init PROVE ChoiceInv
  OBVIOUS
<1>1. HistoryInv
  BY DEF Init, HistoryInv, Installing, WorkerTidsGrow
<1>2. Unchosen = AllIds
  BY DEF Init, Unchosen
<1>3. \A k \in Keys : word[k].tid \in InitialTids
  BY DEF Init
<1>4. \A k \in Keys : Low(word[k])
  BY <1>2, <1>3, SiloNoTidWrap DEF Low
<1>5. Low(ZeroWord)
  BY <1>2, SiloNoTidWrap DEF Low, ZeroWord
<1>6. TidBound
  BY <1>4, <1>5 DEF Init, TidBound
<1> QED
  BY <1>1, <1>6, NumbersInit DEF ChoiceInv

\* The words of a worker with a TID to choose leave room for it.
LEMMA NextTidFits ==
    ASSUME TypeOK, ChoiceInv, NEW w \in Workers, pc[w] = "validate"
    PROVE  /\ Id(w) \in Unchosen
           /\ \E n \in Nat : /\ n + Cardinality(Unchosen) + 1 = TidMod /\ n + 1 < TidMod
                             /\ maxWriteTid[w].tid <= n /\ maxReadTid[w].tid <= n
                             /\ mostRecentlyChosenTid[w].tid <= n
<1>1. Id(w) \in AllIds
  <2>1. number[w] # 0
    BY DEF ChoiceInv, Numbers
  <2> QED
    BY <2>1, IdInAll
<1>2. ASSUME NEW h \in history PROVE h.id # Id(w)
  <2>1. CommitInv(h) /\ number[w] \in Nat
    BY DEF ChoiceInv, HistoryInv, TypeOK
  <2> QED
    BY <2>1 DEF CommitInv, Id, Past
<1>3. Id(w) \in Unchosen
  BY <1>1, <1>2 DEF Unchosen
<1>4. Cardinality(Unchosen) \in Nat /\ Cardinality(Unchosen) # 0
  BY <1>3, UnchosenCardinality, FS_EmptySet
<1>5. /\ maxWriteTid[w] \in Words /\ maxReadTid[w] \in Words
      /\ mostRecentlyChosenTid[w] \in Words
  BY DEF TypeOK
<1>6. \A x \in Words : x.tid \in Nat
  BY WidthAssumption DEF Words
<1>7. Low(maxWriteTid[w]) /\ Low(maxReadTid[w]) /\ Low(mostRecentlyChosenTid[w])
  BY DEF ChoiceInv, TidBound
<1> DEFINE n == TidMod - 1 - Cardinality(Unchosen)
<1>8. TidMod \in Nat
  BY WidthAssumption
<1>9. /\ n \in Nat /\ n + Cardinality(Unchosen) + 1 = TidMod /\ n + 1 < TidMod
      /\ maxWriteTid[w].tid <= n /\ maxReadTid[w].tid <= n
      /\ mostRecentlyChosenTid[w].tid <= n
  BY <1>4, <1>5, <1>6, <1>7, <1>8 DEF Low
<1> QED
  BY <1>3, <1>9

\* What the choice of a TID does.
LEMMA Chooses ==
    ASSUME TypeOK, ChoiceInv, NEW w \in Workers, ChooseTid(w)
    PROVE  /\ ChosenTid(w) \in Words /\ ChosenTid(w).lock = 0
           /\ Precedes(maxWriteTid[w], ChosenTid(w))
           /\ Precedes(maxReadTid[w], ChosenTid(w))
           /\ Precedes(mostRecentlyChosenTid[w], ChosenTid(w))
           /\ localEpoch[w] <= ChosenTid(w).epoch
           /\ \A e \in Nat : /\ maxWriteTid[w].epoch <= e /\ maxReadTid[w].epoch <= e
                             /\ mostRecentlyChosenTid[w].epoch <= e /\ localEpoch[w] <= e
                             => ChosenTid(w).epoch <= e
           /\ Id(w) \in Unchosen /\ Unchosen' = Unchosen \ {Id(w)}
           /\ ChosenTid(w).tid + Cardinality(Unchosen') < TidMod
           /\ \A h \in history : h.id # Id(w)
           /\ mostRecentlyChosenTid' = [mostRecentlyChosenTid EXCEPT ![w] = ChosenTid(w)]
           /\ UNCHANGED <<word, value, maxWriteTid, maxReadTid, number, readSet, writeSet,
                          globalEpoch, localEpoch>>
           /\ pc[w] = "validate" /\ pc'[w] = "install" /\ idx'[w] = 1
           /\ idx[w] > Len(readSet[w])
           /\ \E c : /\ history' = history \cup {c}
                     /\ c.id = Id(w) /\ c.tid = ChosenTid(w)
                     /\ c.writes = Range(writeSet[w])
                     /\ c.reads = {[key |-> r.key, from |-> r.from] : r \in Range(readSet[w])}
<1> USE DEF shared, locals, sets, tids, Goto
<1>1. /\ pc[w] = "validate" /\ pc'[w] = "install" /\ idx'[w] = 1 /\ idx[w] > Len(readSet[w])
      /\ mostRecentlyChosenTid' = [mostRecentlyChosenTid EXCEPT ![w] = ChosenTid(w)]
      /\ UNCHANGED <<word, value, maxWriteTid, maxReadTid, number, readSet, writeSet,
                     globalEpoch, localEpoch>>
  BY DEF ChooseTid, TypeOK
<1>2. PICK n \in Nat : /\ n + Cardinality(Unchosen) + 1 = TidMod /\ n + 1 < TidMod
                       /\ maxWriteTid[w].tid <= n /\ maxReadTid[w].tid <= n
                       /\ mostRecentlyChosenTid[w].tid <= n
  BY <1>1, NextTidFits
<1>3. /\ ChosenTid(w) \in Words /\ ChosenTid(w).lock = 0
      /\ ChosenTid(w).tid <= n + 1
      /\ Precedes(maxWriteTid[w], ChosenTid(w))
      /\ Precedes(maxReadTid[w], ChosenTid(w))
      /\ Precedes(mostRecentlyChosenTid[w], ChosenTid(w))
      /\ localEpoch[w] <= ChosenTid(w).epoch
      /\ \A e \in Nat : /\ maxWriteTid[w].epoch <= e /\ maxReadTid[w].epoch <= e
                        /\ mostRecentlyChosenTid[w].epoch <= e /\ localEpoch[w] <= e
                        => ChosenTid(w).epoch <= e
  BY <1>2, ChosenTidOrder
<1>4. PICK c : /\ history' = history \cup {c}
               /\ c.id = Id(w) /\ c.tid = ChosenTid(w) /\ c.writes = Range(writeSet[w])
               /\ c.reads = {[key |-> r.key, from |-> r.from] : r \in Range(readSet[w])}
  <2> DEFINE new == [id |-> Id(w), tid |-> ChosenTid(w),
                     reads |-> {[key |-> r.key, from |-> r.from] : r \in Range(readSet[w])},
                     writes |-> Range(writeSet[w])]
  <2>1. history' = history \cup {new}
    BY DEF ChooseTid
  <2>2. /\ new.id = Id(w) /\ new.tid = ChosenTid(w) /\ new.writes = Range(writeSet[w])
        /\ new.reads = {[key |-> r.key, from |-> r.from] : r \in Range(readSet[w])}
    OBVIOUS
  <2> HIDE DEF new
  <2> QED
    BY <2>1, <2>2
<1>5. Id(w) \in Unchosen
  BY <1>1, NextTidFits
<1>6. Unchosen' = Unchosen \ {Id(w)}
  BY <1>4 DEF Unchosen
<1>7. Cardinality(Unchosen') = Cardinality(Unchosen) - 1 /\ Cardinality(Unchosen) \in Nat
  BY <1>5, <1>6, UnchosenCardinality, FS_RemoveElement
<1>8. ChosenTid(w).tid + Cardinality(Unchosen') < TidMod
  <2>1. ChosenTid(w).tid \in Int
    BY <1>3, WidthAssumption DEF Words
  <2> QED
    BY <1>2, <1>3, <1>7, <2>1
<1>9. \A h \in history : h.id # Id(w)
  BY <1>5 DEF Unchosen
<1> QED
  BY <1>1, <1>3, <1>4, <1>5, <1>6, <1>8, <1>9

\* Steps that choose no TID leave as many to choose.
LEMMA BoundStep ==
    ASSUME TypeOK, ChoiceInv, NEW w \in Workers, Work(w)
    PROVE  TidBound'
<1> USE DEF shared, locals, sets, tids
<1>0. /\ word \in [Keys -> Words] /\ maxWriteTid \in [Workers -> Words]
      /\ maxReadTid \in [Workers -> Words] /\ writeSet \in [Workers -> Seq(Keys)]
      /\ readSet \in [Workers -> Seq(ReadElements)] /\ idx \in [Workers -> Nat \ {0}]
      /\ mostRecentlyChosenTid \in [Workers -> Words]
      /\ pc[w] = "publish" => idx[w] \in DOMAIN writeSet[w]
  BY DEF TypeOK
<1>1. /\ \A k \in Keys : Low(word[k])
      /\ \A u \in Workers : /\ Low(maxWriteTid[u]) /\ Low(maxReadTid[u])
                            /\ Low(mostRecentlyChosenTid[u])
  BY DEF ChoiceInv, TidBound
<1>2. CASE ChooseTid(w)
  <2>1. \A x \in Words : Low(x) => Low(x)'
    <3>1. Cardinality(Unchosen') = Cardinality(Unchosen) - 1 /\ Cardinality(Unchosen) \in Nat
      BY <1>2, Chooses, UnchosenCardinality, FS_RemoveElement
    <3>2. \A x \in Words : x.tid \in Int
      BY WidthAssumption DEF Words
    <3> QED
      BY <3>1, <3>2, WidthAssumption DEF Low
  <2>2. Low(mostRecentlyChosenTid[w])'
    BY <1>0, <1>2, Chooses DEF Low
  <2>3. \A u \in Workers \ {w} : mostRecentlyChosenTid'[u] = mostRecentlyChosenTid[u]
    BY <1>0, <1>2, Chooses
  <2>4. UNCHANGED <<word, maxWriteTid, maxReadTid>>
    BY <1>2, Chooses
  <2>5. \A k \in Keys : Low(word[k])'
    BY <1>0, <1>1, <2>1, <2>4
  <2>6. \A u \in Workers : Low(maxWriteTid[u])' /\ Low(maxReadTid[u])'
    BY <1>0, <1>1, <2>1, <2>4
  <2>7. \A u \in Workers \ {w} : Low(mostRecentlyChosenTid[u])'
    BY <1>0, <1>1, <2>1, <2>3 DEF Low
  <2> QED
    BY <2>2, <2>5, <2>6, <2>7 DEF TidBound
<1>3. ASSUME ~ ChooseTid(w) PROVE TidBound'
  <2>1. /\ history' = history /\ mostRecentlyChosenTid' = mostRecentlyChosenTid
        /\ Unchosen' = Unchosen
    BY <1>3, StepTouches DEF Unchosen
  <2>2. \A x, y : Low(x) /\ y.tid = x.tid => Low(y)
    BY DEF Low
  <2>3. \A x, y : Low(x) /\ Low(y) => Low(WordMax(x, y))
    BY DEF WordMax
  <2>4. Low(ZeroWord)
    <3>1. Unchosen \subseteq AllIds
      BY DEF Unchosen
    <3>2. Cardinality(Unchosen) <= Cardinality(AllIds)
      BY <3>1, AllIdsFinite, FS_Subset
    <3>3. Cardinality(Unchosen) \in Nat /\ Cardinality(AllIds) \in Nat
      BY UnchosenCardinality, AllIdsFinite, FS_CardinalityType
    <3> QED
      BY <3>2, <3>3, SiloNoTidWrap, WidthAssumption DEF Low, ZeroWord
  <2>5. \A k \in Keys : Low(word'[k])
    <3>1. CASE LockRecord(w)
      <4>1. writeSet[w][idx[w]] \in Keys
        BY <1>0, <3>1 DEF LockRecord
      <4>2. /\ word'[writeSet[w][idx[w]]] = Locked(word[writeSet[w][idx[w]]])
            /\ \A k \in Keys \ {writeSet[w][idx[w]]} : word'[k] = word[k]
        BY <1>0, <3>1, <4>1 DEF LockRecord
      <4>3. \A x \in Words : Locked(x).tid = x.tid
        BY DEF Locked, Words
      <4> QED
        BY <1>0, <1>1, <2>2, <4>1, <4>2, <4>3, SMTT(30)
    <3>2. CASE UnlockRecord(w)
      <4>1. writeSet[w][idx[w]] \in Keys
        BY <1>0, <3>2 DEF UnlockRecord
      <4>2. /\ word'[writeSet[w][idx[w]]] = Unlocked(word[writeSet[w][idx[w]]])
            /\ \A k \in Keys \ {writeSet[w][idx[w]]} : word'[k] = word[k]
        BY <1>0, <3>2, <4>1 DEF UnlockRecord
      <4>3. \A x \in Words : Unlocked(x).tid = x.tid
        BY DEF Unlocked, Words
      <4> QED
        BY <1>0, <1>1, <2>2, <4>1, <4>2, <4>3, SMTT(30)
    <3>3. CASE StoreTid(w)
      <4>1. writeSet[w][idx[w]] \in Keys
        BY <1>0, <3>3 DEF StoreTid
      <4>2. /\ word'[writeSet[w][idx[w]]] = mostRecentlyChosenTid[w]
            /\ \A k \in Keys \ {writeSet[w][idx[w]]} : word'[k] = word[k]
        BY <1>0, <3>3, <4>1 DEF StoreTid
      <4> QED
        BY <1>1, <4>2
    <3> QED
      BY <1>1, <3>1, <3>2, <3>3, StepTouches
  <2>6. \A u \in Workers : Low(maxWriteTid'[u])
    <3>1. CASE Begin(w)
      BY <1>0, <1>1, <2>4, <3>1 DEF Begin
    <3>2. CASE LockRecord(w)
      <4>1. writeSet[w][idx[w]] \in Keys
        BY <1>0, <3>2 DEF LockRecord
      <4>2. /\ maxWriteTid'[w] = WordMax(maxWriteTid[w], word[writeSet[w][idx[w]]])
            /\ \A u \in Workers \ {w} : maxWriteTid'[u] = maxWriteTid[u]
        BY <1>0, <3>2 DEF LockRecord
      <4> QED
        BY <1>1, <2>3, <4>1, <4>2
    <3> QED
      BY <1>1, <3>1, <3>2, StepTouches
  <2>7. \A u \in Workers : Low(maxReadTid'[u])
    <3>1. CASE Begin(w)
      BY <1>0, <1>1, <2>4, <3>1 DEF Begin
    <3>2. CASE ValidateRead(w)
      <4>1. readSet[w][idx[w]] \in ReadElements
        BY <1>0, <3>2 DEF ValidateRead
      <4>2. /\ maxReadTid'[w] = WordMax(maxReadTid[w], word[readSet[w][idx[w]].key])
            /\ \A u \in Workers \ {w} : maxReadTid'[u] = maxReadTid[u]
        BY <1>0, <3>2 DEF ValidateRead
      <4>3. Low(word[readSet[w][idx[w]].key])
        BY <1>1, <4>1 DEF ReadElements
      <4> QED
        BY <1>1, <2>3, <4>2, <4>3
    <3> QED
      BY <1>1, <3>1, <3>2, StepTouches
  <2>8. \A x : Low(x)' <=> x'.tid + Cardinality(Unchosen) < TidMod
    BY <2>1 DEF Low
  <2> QED
    BY <1>1, <2>1, <2>5, <2>6, <2>7 DEF TidBound, Low
<1> QED
  BY <1>2, <1>3
\* A step that chooses no TID, and after which its worker has not gone back
\* behind validation with the transaction that passed it.
LEMMA HistoryFrame ==
    ASSUME TypeOK, HistoryInv, NEW w \in Workers, Work(w), ~ ChooseTid(w),
           number'[w] \in Nat, number[w] <= number'[w],
           pc'[w] \in Past \/ pc[w] \notin Past \/ number[w] < number'[w],
           Installing(w)' =>
              Installing(w) /\ number'[w] = number[w] /\ writeSet'[w] = writeSet[w]
    PROVE  HistoryInv'
<1>0. /\ history' = history /\ mostRecentlyChosenTid' = mostRecentlyChosenTid
      /\ number \in [Workers -> Nat]
  BY StepTouches DEF TypeOK
<1>1. \A u \in Workers \ {w} :
         pc'[u] = pc[u] /\ number'[u] = number[u] /\ writeSet'[u] = writeSet[u]
  BY OthersFixed
<1>2. ASSUME NEW h \in history
      PROVE  CommitInv(h)'
  <2>1. CommitInv(h) /\ h.id[1] \in Workers /\ h.id[2] \in Nat
    BY AllIdsPairs DEF HistoryInv, CommitInv
  <2>2. CASE h.id[1] = w
    BY <1>0, <2>1, <2>2 DEF CommitInv
  <2>3. CASE h.id[1] # w
    BY <1>0, <1>1, <2>1, <2>3 DEF CommitInv
  <2> QED
    BY <2>2, <2>3
<1>3. ASSUME NEW u \in Workers, Installing(u)'
      PROVE  \E h \in history : /\ h.id = Id(u)' /\ h.tid = mostRecentlyChosenTid[u]
                                /\ h.writes = Range(writeSet'[u])
  <2>1. Installing(u) /\ number'[u] = number[u] /\ writeSet'[u] = writeSet[u]
    <3>1. CASE u = w
      BY <1>3, <3>1
    <3>2. CASE u # w
      BY <1>1, <1>3, <3>2 DEF Installing
    <3> QED
      BY <3>1, <3>2
  <2>2. PICK h \in history : /\ h.id = Id(u) /\ h.tid = mostRecentlyChosenTid[u]
                             /\ h.writes = Range(writeSet[u])
    BY <2>1 DEF HistoryInv
  <2>3. h.id = Id(u)' /\ h.writes = Range(writeSet'[u])
    BY <2>1, <2>2 DEF Id
  <2> QED
    BY <2>2, <2>3
<1>4. WorkerTidsGrow'
  BY <1>0 DEF HistoryInv, WorkerTidsGrow
<1> QED
  BY <1>0, <1>2, <1>3, <1>4 DEF HistoryInv

LEMMA HistoryStep ==
    ASSUME TypeOK, LockInv, ChoiceInv, NEW w \in Workers, Work(w)
    PROVE  HistoryInv'
<1> USE DEF Goto, shared, locals, sets, tids
<1>0. /\ number \in [Workers -> Nat] /\ pc \in [Workers -> Labels]
      /\ writeSet \in [Workers -> Seq(Keys)] /\ mostRecentlyChosenTid \in [Workers -> Words]
      /\ HistoryInv
  BY DEF TypeOK, ChoiceInv
<1>1. CASE NewSteps(w)
  <2>1. number'[w] = number[w] + 1 /\ pc'[w] = "retry"
    BY <1>0, <1>1 DEF NewSteps
  <2>2. number'[w] \in Nat /\ number[w] <= number'[w] /\ number[w] < number'[w]
    BY <1>0, <2>1
  <2>3. ~ ChooseTid(w)
    BY <1>1 DEF NewSteps, ChooseTid
  <2> QED
    BY <1>0, <2>1, <2>2, <2>3, HistoryFrame DEF Installing
<1>2. ASSUME ~ ChooseTid(w), number' = number, pc'[w] \in Past \/ pc[w] \notin Past,
             Installing(w)' => Installing(w) /\ writeSet'[w] = writeSet[w]
      PROVE  HistoryInv'
  <2>1. number'[w] \in Nat /\ number[w] <= number'[w] /\ number'[w] = number[w]
    BY <1>0, <1>2
  <2> QED
    BY <1>0, <1>2, <2>1, HistoryFrame
<1>3. CASE Begin(w) \/ Stop(w) \/ ReadAgain(w) \/ LoadTid(w) \/ CopyValue(w)
  BY <1>0, <1>2, <1>3 DEF Begin, Stop, ReadAgain, LoadTid, CopyValue, At, Past, Installing,
     ChooseTid
<1>4. CASE CheckTid(w) \/ Write(w) \/ Sort(w) \/ LockRecord(w) \/ LoadEpoch(w)
  BY <1>0, <1>2, <1>4 DEF CheckTid, Write, Sort, LockRecord, LoadEpoch, At, Past, Installing,
     ChooseTid
<1>5. CASE \/ StoreEpoch(w) \/ FailValidation(w) \/ UnlockRecord(w) \/ Abort(w)
  BY <1>0, <1>2, <1>5 DEF StoreEpoch, FailValidation, UnlockRecord, Abort, At, Past,
     Installing, ChooseTid
<1>6. CASE ValidateRead(w)
  BY <1>0, <1>2, <1>6 DEF ValidateRead, ChooseTid, Past, Installing
<1>7. CASE StoreValue(w) \/ StoreTid(w) \/ Finish(w)
  BY <1>0, <1>2, <1>7 DEF StoreValue, StoreTid, Finish, Past, Installing, ChooseTid
<1>8. CASE ChooseTid(w)
  <2>1. PICK c : /\ history' = history \cup {c}
                 /\ c.id = Id(w) /\ c.tid = ChosenTid(w) /\ c.writes = Range(writeSet[w])
    BY <1>8, Chooses
  <2>2. /\ ChosenTid(w) \in Words /\ ChosenTid(w).lock = 0
        /\ Precedes(mostRecentlyChosenTid[w], ChosenTid(w))
        /\ Id(w) \in AllIds
        /\ mostRecentlyChosenTid' = [mostRecentlyChosenTid EXCEPT ![w] = ChosenTid(w)]
        /\ UNCHANGED <<number, writeSet>>
        /\ pc[w] = "validate" /\ pc'[w] = "install"
    BY <1>8, Chooses DEF Unchosen
  <2>3. \A u \in Workers \ {w} : pc'[u] = pc[u]
    BY OthersFixed
  <2>4. ASSUME NEW h \in history
        PROVE  /\ CommitInv(h)'
               /\ h.id[1] = w => h.id[2] < number[w] /\ WordLess(h.tid, ChosenTid(w))
    <3>1. CommitInv(h) /\ h.id[1] \in Workers /\ h.id[2] \in Nat
      BY AllIdsPairs DEF ChoiceInv, HistoryInv, CommitInv
    <3>2. CASE h.id[1] # w
      BY <1>0, <2>2, <2>3, <3>1, <3>2 DEF CommitInv
    <3>3. CASE h.id[1] = w
      <4>1. h.id[2] < number[w]
        BY <2>2, <3>1, <3>3 DEF CommitInv, Past
      <4>2. Precedes(h.tid, ChosenTid(w))
        <5>1. ASSUME NEW a \in Words, NEW b \in Words, NEW c0 \in Words,
                     ~ Precedes(b, a), Precedes(b, c0)
              PROVE  Precedes(a, c0)
          BY <5>1, WidthAssumption DEF Precedes, Words, Epochs
        <5> QED
          BY <1>0, <2>2, <3>1, <3>3, <5>1 DEF CommitInv
      <4>3. WordLess(h.tid, ChosenTid(w)) /\ ~ Precedes(ChosenTid(w), h.tid)
        BY <2>2, <3>1, <4>2, PrecedesOrder DEF CommitInv
      <4> QED
        BY <1>0, <2>2, <3>1, <3>3, <4>1, <4>3 DEF CommitInv
    <3> QED
      BY <3>2, <3>3
  <2>5. CommitInv(c)'
    <3>1. c.id[1] = w /\ c.id[2] = number[w]
      BY <2>1 DEF Id
    <3>2. c.writes \subseteq Keys
      BY <1>0, <2>1 DEF Range
    <3>3. ~ Precedes(mostRecentlyChosenTid'[w], c.tid)
      BY <1>0, <2>1, <2>2, PrecedesOrder
    <3> QED
      BY <1>0, <2>1, <2>2, <3>1, <3>2, <3>3 DEF CommitInv, Past
  <2>6. \A g, h \in history' : g.id = h.id => g = h
    <3>1. \A h \in history : h.id # c.id
      BY <1>8, <2>1, Chooses
    <3> QED
      BY <1>0, <2>1, <3>1 DEF HistoryInv
  <2>7. ASSUME NEW u \in Workers, Installing(u)'
        PROVE  \E h \in history' : /\ h.id = Id(u)' /\ h.tid = mostRecentlyChosenTid'[u]
                                   /\ h.writes = Range(writeSet'[u])
    <3>1. CASE u = w
      BY <1>0, <2>1, <2>2, <3>1 DEF Id
    <3>2. CASE u # w
      <4>1. Installing(u) /\ mostRecentlyChosenTid'[u] = mostRecentlyChosenTid[u]
        BY <1>0, <2>2, <2>3, <2>7, <3>2 DEF Installing
      <4> QED
        BY <1>0, <2>1, <2>2, <4>1 DEF HistoryInv, Id
    <3> QED
      BY <3>1, <3>2
  <2>8. WorkerTidsGrow'
    <3> SUFFICES ASSUME NEW g \in history', NEW h \in history',
                        g.id[1] = h.id[1], g.id[2] < h.id[2]
                 PROVE  WordLess(g.tid, h.tid)
      BY DEF WorkerTidsGrow
    <3>0. c.id[1] = w /\ c.id[2] = number[w]
      BY <2>1 DEF Id
    <3>1. CASE g \in history /\ h \in history
      BY <1>0, <3>1 DEF HistoryInv, WorkerTidsGrow
    <3>2. CASE g \in history /\ h = c
      BY <2>1, <2>4, <3>0, <3>2
    <3>3. CASE g = c /\ h \in history
      <4>1. h.id[2] < number[w] /\ number[w] < h.id[2]
        BY <2>4, <3>0, <3>3
      <4>2. h.id[2] \in Nat /\ number[w] \in Nat
        BY <1>0, <3>3, AllIdsPairs DEF HistoryInv, CommitInv
      <4> QED
        BY <4>1, <4>2
    <3>4. CASE g = c /\ h = c
      BY <1>0, <3>0, <3>4
    <3> QED
      BY <2>1, <3>1, <3>2, <3>3, <3>4
  <2> QED
    BY <2>1, <2>4, <2>5, <2>6, <2>7, <2>8 DEF HistoryInv
<1> QED
  BY <1>1, <1>3, <1>4, <1>5, <1>6, <1>7, <1>8 DEF Work

LEMMA ChoiceStutter ==
    ASSUME ChoiceInv, UNCHANGED core
    PROVE  ChoiceInv'
<1> USE DEF core, shared, locals, sets, tids
<1>1. Numbers'
  BY DEF ChoiceInv, Numbers
<1>2. TidBound'
  BY DEF ChoiceInv, TidBound, Low, Unchosen
<1>3. HistoryInv'
  BY DEF ChoiceInv, HistoryInv, CommitInv, Installing, Id, WorkerTidsGrow
<1> QED
  BY <1>1, <1>2, <1>3 DEF ChoiceInv

-----------------------------------------------------------------------------
(* The TIDs of the records grow                                            *)

\* What a worker has locked and not replaced is below the TID it chooses.
GrowInv ==
    \A w \in Workers : \A i \in HeldPositions(w) :
        /\ pc[w] \in {"lock", "epoch", "validate"} =>
              ~ Precedes(maxWriteTid[w], word[writeSet[w][i]])
        /\ pc[w] \in {"install", "publish"} =>
              Precedes(word[writeSet[w][i]], mostRecentlyChosenTid[w])

LEMMA GrowInit == Init => GrowInv
BY DEF Init, GrowInv, HeldPositions

\* The word of a record someone else holds is not touched.
LEMMA HeldWordKept ==
    ASSUME TypeOK, LockInv, NEW w \in Workers, Work(w), NEW u \in Workers,
           NEW i \in HeldPositions(u), ~ (u = w /\ i = idx[w])
    PROVE  word'[writeSet[u][i]] = word[writeSet[u][i]]
<1>0. /\ word \in [Keys -> Words] /\ writeSet \in [Workers -> Seq(Keys)]
      /\ idx \in [Workers -> Nat \ {0}]
  BY DEF TypeOK
<1> DEFINE k == writeSet[u][i]
<1>1. k \in Keys /\ word[k].lock = 1
  <2>1. k \in Keys
    BY <1>0 DEF HeldPositions
  <2> QED
    BY <2>1 DEF LockInv, LockBitOwned
<1>2. CASE LockRecord(w)
  <2>1. writeSet[w][idx[w]] # k /\ writeSet[w][idx[w]] \in Keys
    BY <1>0, <1>1, <1>2 DEF LockRecord
  <2> QED
    BY <1>0, <1>1, <1>2, <2>1 DEF LockRecord
<1>3. CASE UnlockRecord(w) \/ StoreTid(w)
  <2>1. idx[w] \in HeldPositions(w)
    BY <1>3, HeldByStep
  <2>2. writeSet[w][idx[w]] # k /\ writeSet[w][idx[w]] \in Keys
    <3>1. writeSet[w][idx[w]] # k
      BY <2>1 DEF LockInv, LocksExclusive
    <3> QED
      BY <1>0, <2>1, <3>1 DEF HeldPositions
  <2> QED
    BY <1>0, <1>1, <1>3, <2>2 DEF UnlockRecord, StoreTid
<1> QED
  BY <1>2, <1>3, StepTouches

LEMMA GrowStep ==
    ASSUME TypeOK, LockInv, ChoiceInv, GrowInv, NEW w \in Workers, Work(w)
    PROVE  GrowInv'
<1> USE DEF shared, locals, sets, tids, Goto
<1>0. /\ word \in [Keys -> Words] /\ writeSet \in [Workers -> Seq(Keys)]
      /\ pc \in [Workers -> Labels] /\ maxWriteTid \in [Workers -> Words]
      /\ idx \in [Workers -> Nat \ {0}] /\ mostRecentlyChosenTid \in [Workers -> Words]
  BY DEF TypeOK
<1>1. ASSUME NEW u \in Workers \ {w}, NEW i \in HeldPositions(u)'
      PROVE  /\ pc'[u] \in {"lock", "epoch", "validate"} =>
                   ~ Precedes(maxWriteTid'[u], word'[writeSet'[u][i]])
             /\ pc'[u] \in {"install", "publish"} =>
                   Precedes(word'[writeSet'[u][i]], mostRecentlyChosenTid'[u])
  <2>1. /\ i \in HeldPositions(u) /\ writeSet'[u] = writeSet[u] /\ pc'[u] = pc[u]
        /\ maxWriteTid'[u] = maxWriteTid[u]
        /\ mostRecentlyChosenTid'[u] = mostRecentlyChosenTid[u]
    BY HeldByStep, OthersFixed
  <2>2. word'[writeSet[u][i]] = word[writeSet[u][i]]
    BY <2>1, HeldWordKept
  <2> QED
    BY <2>1, <2>2 DEF GrowInv
<1>2. ASSUME NEW i \in HeldPositions(w)'
      PROVE  /\ pc'[w] \in {"lock", "epoch", "validate"} =>
                   ~ Precedes(maxWriteTid'[w], word'[writeSet'[w][i]])
             /\ pc'[w] \in {"install", "publish"} =>
                   Precedes(word'[writeSet'[w][i]], mostRecentlyChosenTid'[w])
  <2>1. CASE LockRecord(w)
    <3> DEFINE k == writeSet[w][idx[w]]
    <3>1. /\ k \in Keys /\ word'[k] = Locked(word[k]) /\ pc[w] = "lock" /\ pc'[w] = "lock"
          /\ writeSet' = writeSet
          /\ maxWriteTid'[w] = WordMax(maxWriteTid[w], word[k])
          /\ i \in HeldPositions(w) \cup {idx[w]}
      <4>1. /\ idx[w] \in DOMAIN writeSet[w] /\ writeSet' = writeSet
            /\ pc[w] = "lock" /\ pc'[w] = "lock"
            /\ i \in HeldPositions(w) \cup {idx[w]}
        BY <1>2, <2>1, HeldByStep
      <4>2. k \in Keys
        BY <1>0, <4>1
      <4>3. /\ word' = [word EXCEPT ![k] = Locked(@)]
            /\ maxWriteTid' = [maxWriteTid EXCEPT ![w] = WordMax(@, word[k])]
        BY <2>1 DEF LockRecord
      <4> QED
        BY <1>0, <4>1, <4>2, <4>3
    <3>2. \A a, b \in Words : ~ Precedes(WordMax(a, b), a) /\ ~ Precedes(WordMax(a, b), b)
      BY WidthAssumption DEF WordMax, WordLess, Precedes, Words, Epochs
    <3>3. CASE i = idx[w]
      <4>1. \A a, b \in Words : ~ Precedes(a, b) => ~ Precedes(a, Locked(b))
        BY DEF Precedes, Locked, Words
      <4>2. WordMax(maxWriteTid[w], word[k]) \in Words
        BY <1>0, <3>1, WordOperations
      <4> QED
        BY <1>0, <3>1, <3>2, <3>3, <4>1, <4>2
    <3>4. CASE i # idx[w]
      <4>1. i \in HeldPositions(w) /\ writeSet[w][i] \in Keys
        BY <1>0, <3>1, <3>4 DEF HeldPositions
      <4>2. word'[writeSet[w][i]] = word[writeSet[w][i]]
        BY <3>4, <4>1, HeldWordKept
      <4>3. ~ Precedes(maxWriteTid[w], word[writeSet[w][i]])
        BY <3>1, <4>1 DEF GrowInv
      <4>4. \A a, b, c \in Words : ~ Precedes(a, c) => ~ Precedes(WordMax(a, b), c)
        BY WidthAssumption DEF WordMax, WordLess, Precedes, Words, Epochs
      <4>5. ~ Precedes(maxWriteTid'[w], word'[writeSet'[w][i]])
        BY <1>0, <3>1, <4>1, <4>2, <4>3, <4>4
      <4> QED
        BY <3>1, <4>5
    <3> QED
      BY <3>3, <3>4
  <2>2. CASE UnlockRecord(w) \/ StoreTid(w)
    <3>1. /\ i \in HeldPositions(w) /\ i # idx[w] /\ writeSet' = writeSet
          /\ maxWriteTid' = maxWriteTid /\ mostRecentlyChosenTid' = mostRecentlyChosenTid
      BY <1>2, <2>2, HeldByStep DEF UnlockRecord, StoreTid
    <3>2. \/ pc[w] = "unlock" /\ pc'[w] = "unlock"
          \/ pc[w] = "publish" /\ pc'[w] = "install"
      BY <1>0, <2>2 DEF UnlockRecord, StoreTid
    <3>3. word'[writeSet[w][i]] = word[writeSet[w][i]]
      BY <3>1, HeldWordKept
    <3> QED
      BY <3>1, <3>2, <3>3 DEF GrowInv
  <2>3. CASE Holds(w)
    <3>1. i \in HeldPositions(w) /\ word' = word /\ writeSet' = writeSet
      BY <1>2, <2>3, HeldByStep
    <3>2. CASE ChooseTid(w)
      <4>1. /\ pc[w] = "validate" /\ pc'[w] = "install"
            /\ mostRecentlyChosenTid'[w] = ChosenTid(w)
            /\ Precedes(maxWriteTid[w], ChosenTid(w)) /\ ChosenTid(w) \in Words
        BY <1>0, <3>2, Chooses
      <4>2. ~ Precedes(maxWriteTid[w], word[writeSet[w][i]]) /\ writeSet[w][i] \in Keys
        BY <1>0, <3>1, <4>1 DEF GrowInv, HeldPositions
      <4>3. ASSUME NEW a \in Words, NEW b \in Words, NEW c \in Words,
                   ~ Precedes(b, a), Precedes(b, c)
            PROVE  Precedes(a, c)
        BY <4>3, WidthAssumption DEF Precedes, Words, Epochs
      <4> QED
        BY <1>0, <3>1, <4>1, <4>2, <4>3
    <3>3. CASE ~ ChooseTid(w)
      <4>1. /\ maxWriteTid' = maxWriteTid /\ mostRecentlyChosenTid' = mostRecentlyChosenTid
            /\ \/ pc[w] \in {"lock", "epoch", "validate"} /\ pc'[w] \notin {"install", "publish"}
               \/ pc[w] = "install" /\ pc'[w] = "publish"
        BY <1>0, <2>3, <3>3 DEF Holds, LoadEpoch, StoreEpoch, ValidateRead, FailValidation,
           StoreValue
      <4> QED
        BY <3>1, <4>1 DEF GrowInv
    <3> QED
      BY <3>2, <3>3
  <2>4. CASE ~ (LockRecord(w) \/ UnlockRecord(w) \/ StoreTid(w) \/ Holds(w))
    BY <1>2, <2>4, HeldByStep
  <2> QED
    BY <2>1, <2>2, <2>3, <2>4
<1> QED
  BY <1>1, <1>2 DEF GrowInv

LEMMA GrowStutter ==
    ASSUME GrowInv, UNCHANGED core
    PROVE  GrowInv'
BY DEF GrowInv, HeldPositions, core, shared, sets, tids

\* All that is known of locks and TIDs.
TidInv == TypeOK /\ LockInv /\ ChoiceInv /\ GrowInv

LEMMA TidsHold == Spec => []TidInv
<1>1. Init => LockInv /\ ChoiceInv /\ GrowInv
  BY LockInit, ChoiceInit, GrowInit
<1>2. ASSUME TypeOK, LockInv, ChoiceInv, GrowInv, [Next]_vars
      PROVE  LockInv' /\ ChoiceInv' /\ GrowInv'
  <2>1. CASE Quit \/ UNCHANGED vars
    BY <1>2, <2>1, CoreKept, LockStutter, ChoiceStutter, GrowStutter
  <2>2. ASSUME NEW w \in Workers, Work(w)
        PROVE  LockInv' /\ ChoiceInv' /\ GrowInv'
    <3>1. Numbers'
      BY <1>2, <2>2, NumbersStep DEF ChoiceInv
    <3>2. TidBound' /\ HistoryInv'
      BY <1>2, <2>2, BoundStep, HistoryStep
    <3> QED
      BY <1>2, <2>2, <3>1, <3>2, LockStep, GrowStep DEF ChoiceInv
  <2> QED
    BY <1>2, <2>1, <2>2 DEF Next
<1> QED
  BY <1>1, <1>2, SiloTyping, PTL DEF Spec, TidInv

\* "(b) larger than the worker's most recently chosen TID": the TIDs a worker
\* chooses grow, through aborts and retries.
THEOREM TidsOfWorkersGrow == Spec => []WorkerTidsGrow
<1>1. TidInv => WorkerTidsGrow
  BY DEF TidInv, ChoiceInv, HistoryInv
<1> QED
  BY <1>1, TidsHold, PTL
-----------------------------------------------------------------------------
(* Waiting                                                                 *)

\* write() puts no key in the write set twice, and validationPhase() sorts it.
Ascend(s) == \A i, j \in DOMAIN s : i < j => s[i] < s[j]
OnceEach(s) == \A i, j \in DOMAIN s : s[i] = s[j] => i = j
LockOrder ==
    \A w \in Workers : OnceEach(writeSet[w]) /\ (pc[w] = "lock" => Ascend(writeSet[w]))

\* Sorting keeps what is there once: as many places hold as many keys.
LEMMA SortOnce ==
    ASSUME NEW s \in Seq(Keys), OnceEach(s), NEW q \in SortsOf(s)
    PROVE  OnceEach(q) /\ Ascend(q)
<1> DEFINE D == DOMAIN s
<1>1. /\ D = 1 .. Len(s) /\ DOMAIN q = D /\ Range(q) = Range(s) /\ q \in [D -> Range(s)]
      /\ \A i, j \in D : i < j => q[i] <= q[j]
  BY DEF SortsOf
<1>2. IsFiniteSet(D)
  BY FS_Interval
<1>3. s \in Surjection(D, Range(s)) /\ s \in Injection(D, Range(s))
  BY DEF Surjection, Injection, IsInjective, OnceEach, Range
<1>4. q \in Surjection(D, Range(s))
  BY <1>1 DEF Surjection, Range
<1>5. q \in Injection(D, Range(s))
  BY <1>2, <1>3, <1>4, FS_Surjection
<1>6. OnceEach(q)
  BY <1>1, <1>5 DEF OnceEach, Injection, IsInjective
<1>7. \A i \in D : q[i] \in Nat
  <2>1. Range(s) \subseteq Keys
    BY DEF Range
  <2>2. \A i \in D : q[i] \in Range(s)
    BY <1>1
  <2> QED
    BY <2>1, <2>2, SiloAssumption
<1>8. ASSUME NEW i \in D, NEW j \in D, i < j
      PROVE  q[i] < q[j]
  <2>1. q[i] # q[j]
    BY <1>1, <1>6, <1>8 DEF OnceEach
  <2> QED
    BY <1>1, <1>7, <1>8, <2>1
<1> QED
  BY <1>1, <1>6, <1>8 DEF Ascend

LEMMA LockOrderStep ==
    ASSUME TypeOK, LockOrder, NEW w \in Workers, Work(w)
    PROVE  LockOrder'
<1> USE DEF shared, locals, sets, tids, Goto
<1>0. pc \in [Workers -> Labels] /\ writeSet \in [Workers -> Seq(Keys)]
  BY DEF TypeOK
<1>1. SUFFICES OnceEach(writeSet'[w]) /\ (pc'[w] = "lock" => Ascend(writeSet'[w]))
  BY OthersFixed DEF LockOrder
<1>2. CASE Sort(w)
  <2>1. writeSet'[w] \in SortsOf(writeSet[w])
    BY <1>0, <1>2 DEF Sort
  <2> QED
    BY <1>0, <2>1, SortOnce DEF LockOrder
<1>3. CASE Write(w)
  <2>1. pc'[w] = "steps" /\ KeyOf(w) \in Keys
    <3>1. steps[w] \in Seq(Steps) /\ op[w] \in Nat \ {0} /\ op[w] <= Len(steps[w])
      BY <1>3 DEF Write, At, TypeOK
    <3>2. KeyOf(w) \in Keys
      BY <3>1, SiloKeyOf
    <3> QED
      BY <1>3, <3>2 DEF Write, At
  <2>2. CASE InWriteSet(w, KeyOf(w))
    BY <1>3, <2>1, <2>2 DEF Write, LockOrder
  <2>3. CASE ~ InWriteSet(w, KeyOf(w))
    <3>1. \A i \in DOMAIN writeSet[w] : writeSet[w][i] # KeyOf(w)
      BY <2>3 DEF InWriteSet, Range
    <3>2. writeSet'[w] = Append(writeSet[w], KeyOf(w))
      BY <1>0, <1>3, <2>3 DEF Write
    <3>3. OnceEach(writeSet[w])
      BY DEF LockOrder
    <3>4. OnceEach(Append(writeSet[w], KeyOf(w)))
      BY <1>0, <2>1, <3>1, <3>3 DEF OnceEach
    <3> QED
      BY <2>1, <3>2, <3>4
  <2> QED
    BY <2>2, <2>3
<1>4. CASE Abort(w) \/ Finish(w)
  <2>1. writeSet'[w] = <<>> /\ pc'[w] # "lock"
    BY <1>0, <1>4 DEF Abort, Finish
  <2> QED
    BY <2>1 DEF OnceEach
<1>5. CASE ~ (Sort(w) \/ Write(w) \/ Abort(w) \/ Finish(w))
  <2>1. CASE NewSteps(w) \/ Begin(w) \/ Stop(w) \/ ReadAgain(w) \/ LoadTid(w)
    BY <1>0, <2>1 DEF NewSteps, Begin, Stop, ReadAgain, LoadTid, At, LockOrder
  <2>2. CASE CopyValue(w) \/ CheckTid(w)
    BY <1>0, <2>2 DEF CopyValue, CheckTid, LockOrder
  <2>3. CASE LockRecord(w) \/ LoadEpoch(w) \/ StoreEpoch(w) \/ ValidateRead(w)
    BY <1>0, <2>3 DEF LockRecord, LoadEpoch, StoreEpoch, ValidateRead, LockOrder
  <2>4. CASE FailValidation(w) \/ UnlockRecord(w) \/ ChooseTid(w) \/ StoreValue(w) \/ StoreTid(w)
    BY <1>0, <2>4 DEF FailValidation, UnlockRecord, ChooseTid, StoreValue, StoreTid, LockOrder
  <2> QED
    BY <1>5, <2>1, <2>2, <2>3, <2>4 DEF Work
<1> QED
  BY <1>2, <1>3, <1>4, <1>5

\* The next step of w is a turn of a spin loop on the lock bit of k.
SpinsOn(w, k) ==
    \/ At(w, "read") /\ ~ InReadSet(w, k) /\ ~ InWriteSet(w, k) /\ k = KeyOf(w)
       /\ word[k].lock = 1
    \/ pc[w] = "lock" /\ idx[w] <= Len(writeSet[w]) /\ k = writeSet[w][idx[w]]
       /\ word[k].lock = 1

Spinning(w) == \E k \in Keys : SpinsOn(w, k)
Holding(w) == HeldPositions(w) # {}

\* A holder that spins wants a later record than any it holds.
LEMMA SpinsUpwards ==
    ASSUME TypeOK, LockOrder, NEW w \in Workers, NEW i \in HeldPositions(w),
           NEW k \in Keys, SpinsOn(w, k)
    PROVE  writeSet[w][i] < k
<1>1. writeSet[w] \in Seq(Keys) /\ idx[w] \in Nat \ {0}
  BY DEF TypeOK
<1>2. /\ pc[w] = "lock" /\ idx[w] <= Len(writeSet[w]) /\ k = writeSet[w][idx[w]]
      /\ i < idx[w] /\ i \in 1 .. Len(writeSet[w])
  BY DEF HeldPositions, SpinsOn, At
<1>3. i \in DOMAIN writeSet[w] /\ idx[w] \in DOMAIN writeSet[w]
  BY <1>1, <1>2
<1> QED
  BY <1>2, <1>3 DEF LockOrder, Ascend

\* No deadlock: whenever a worker spins on a lock, some worker that holds locks
\* does not, and so it can take the next of its steps to their release.  The
\* holder that wants the last record is waited for by none that wants more.
HolderProceeds ==
    \A w \in Workers : Spinning(w) => \E u \in Workers : Holding(u) /\ ~ Spinning(u)

LEMMA HoldersProceed ==
    ASSUME TypeOK, LockBitOwned, LockOrder
    PROVE  HolderProceeds
<1> SUFFICES ASSUME NEW w \in Workers, Spinning(w),
                    \A u \in Workers : Holding(u) => Spinning(u)
             PROVE  FALSE
  BY DEF HolderProceeds
<1> DEFINE Wanters == {u \in Workers : Holding(u)}
           wanted == [u \in Wanters |-> CHOOSE k \in Keys : SpinsOn(u, k)]
<1>1. ASSUME NEW u \in Workers, NEW k \in Keys, SpinsOn(u, k)
      PROVE  \E v \in Wanters : \E i \in HeldPositions(v) : writeSet[v][i] = k
  <2>1. word[k].lock = 1
    BY <1>1 DEF SpinsOn
  <2> QED
    BY <2>1 DEF LockBitOwned, Holding
<1>2. \A u \in Wanters : wanted[u] \in Keys /\ SpinsOn(u, wanted[u])
  BY DEF Spinning
<1>3. Wanters # {}
  BY <1>1 DEF Spinning
<1>4. IsFiniteSet(Wanters)
  BY FS_Subset, SiloAssumption
<1>5. wanted \in [Wanters -> Nat]
  BY <1>2, SiloAssumption
<1> HIDE DEF Wanters, wanted
<1>6. PICK u \in Wanters : \A v \in Wanters : wanted[v] <= wanted[u]
  BY <1>3, <1>4, <1>5, Greatest
<1>7. u \in Workers
  BY DEF Wanters
<1>8. PICK v \in Wanters : \E i \in HeldPositions(v) : writeSet[v][i] = wanted[u]
  BY <1>1, <1>2, <1>7
<1>9. v \in Workers
  BY DEF Wanters
<1>10. wanted[u] < wanted[v]
  BY <1>2, <1>8, <1>9, SpinsUpwards
<1>11. wanted[v] <= wanted[u] /\ wanted[u] \in Nat /\ wanted[v] \in Nat
  BY <1>5, <1>6, <1>8
<1> QED
  BY <1>10, <1>11

\* The workers of silo/ do not block each other for ever: see HolderProceeds.
THEOREM NoStandstill == Spec => []HolderProceeds
<1>1. Init => LockOrder
  BY DEF Init, LockOrder, OnceEach
<1>2. TypeOK /\ LockOrder /\ [Next]_vars => LockOrder'
  <2>1. ASSUME LockOrder, UNCHANGED core
        PROVE  LockOrder'
    BY <2>1 DEF LockOrder, core, sets
  <2> QED
    BY <2>1, CoreKept, LockOrderStep DEF Next
<1>3. TidInv /\ LockOrder => HolderProceeds
  BY HoldersProceed DEF TidInv, LockInv
<1> QED
  BY <1>1, <1>2, <1>3, SiloTyping, TidsHold, PTL DEF Spec

-----------------------------------------------------------------------------
(* What a step does to the records                                         *)

\* Words compared by epoch and tid, whatever their lock bit.
LEMMA PrecedesTotal ==
    /\ \A a, b, c \in Words : ~ Precedes(b, a) /\ Precedes(b, c) => Precedes(a, c)
    /\ \A a, b, c \in Words : ~ Precedes(b, a) /\ ~ Precedes(c, b) => ~ Precedes(c, a)
    /\ \A a, b \in Words : Precedes(a, b) => a.epoch <= b.epoch
    /\ \A a, b \in Words : a.lock = 0 /\ b.lock = 0 /\ a # b => Precedes(a, b) \/ Precedes(b, a)
    /\ \A a \in Words : /\ Unlocked(a) \in Words /\ Unlocked(a).lock = 0
                        /\ Unlocked(a).epoch = a.epoch /\ Unlocked(a).tid = a.tid
                        /\ ~ Precedes(a, Unlocked(a))
    /\ \A a, b \in Words : ~ Precedes(WordMax(a, b), a) /\ ~ Precedes(WordMax(a, b), b)
<1>1. \A a \in Words : a.epoch \in Nat /\ a.tid \in Nat /\ a.lock \in 0 .. 1
  BY WidthAssumption DEF Words, Epochs
<1>2. /\ \A a, b, c \in Words : ~ Precedes(b, a) /\ Precedes(b, c) => Precedes(a, c)
      /\ \A a, b, c \in Words : ~ Precedes(b, a) /\ ~ Precedes(c, b) => ~ Precedes(c, a)
      /\ \A a, b \in Words : Precedes(a, b) => a.epoch <= b.epoch
  BY <1>1 DEF Precedes
<1>3. \A a, b \in Words : a.lock = 0 /\ b.lock = 0 /\ a # b => Precedes(a, b) \/ Precedes(b, a)
  <2>1. \A a, b \in Words : a.epoch = b.epoch /\ a.tid = b.tid /\ a.lock = b.lock => a = b
    BY DEF Words
  <2> QED
    BY <1>1, <2>1 DEF Precedes
<1>4. \A a \in Words : /\ Unlocked(a) \in Words /\ Unlocked(a).lock = 0
                       /\ Unlocked(a).epoch = a.epoch /\ Unlocked(a).tid = a.tid
                       /\ ~ Precedes(a, Unlocked(a))
  <2>1. \A a \in Words : /\ Unlocked(a) \in Words /\ Unlocked(a).lock = 0
                         /\ Unlocked(a).epoch = a.epoch /\ Unlocked(a).tid = a.tid
    BY WordOperations DEF Unlocked, Words
  <2> QED
    BY <1>1, <2>1 DEF Precedes
<1>5. \A a, b \in Words : ~ Precedes(WordMax(a, b), a) /\ ~ Precedes(WordMax(a, b), b)
  BY <1>1 DEF WordMax, WordLess, Precedes
<1> QED
  BY <1>2, <1>3, <1>4, <1>5

\* A record keeps its TID, or its holder stores a larger one and lets go.
LEMMA RecordsGrow ==
    ASSUME TidInv, TidInv', NEW w \in Workers, Work(w), NEW k \in Keys
    PROVE  /\ ~ Precedes(word'[k], word[k])
           /\ ~ (StoreTid(w) /\ k = writeSet[w][idx[w]]) =>
                 Unlocked(word'[k]) = Unlocked(word[k])
           /\ StoreTid(w) /\ k = writeSet[w][idx[w]] =>
                 word'[k] = mostRecentlyChosenTid[w] /\ Precedes(word[k], word'[k])
<1>0. /\ word \in [Keys -> Words] /\ word' \in [Keys -> Words]
      /\ writeSet \in [Workers -> Seq(Keys)] /\ idx \in [Workers -> Nat \ {0}]
      /\ mostRecentlyChosenTid \in [Workers -> Words]
  BY DEF TidInv, TypeOK
<1>1. ASSUME Unlocked(word'[k]) = Unlocked(word[k])
      PROVE  ~ Precedes(word'[k], word[k])
  BY <1>0, <1>1, PrecedesOrder
<1>2. CASE LockRecord(w) \/ UnlockRecord(w)
  <2>0. ~ StoreTid(w)
    BY <1>2 DEF LockRecord, UnlockRecord, StoreTid
  <2>1. writeSet[w][idx[w]] \in Keys
    BY <1>0, <1>2 DEF LockRecord, UnlockRecord
  <2>2. word'[k] \in {word[k], Locked(word[k]), Unlocked(word[k])}
    BY <1>0, <1>2, <2>1 DEF LockRecord, UnlockRecord
  <2>3. \A a \in Words : Unlocked(Locked(a)) = Unlocked(a) /\ Unlocked(Unlocked(a)) = Unlocked(a)
    BY DEF Locked, Unlocked, Words
  <2> QED
    BY <1>0, <1>1, <2>0, <2>2, <2>3
<1>3. CASE StoreTid(w)
  <2>1. idx[w] \in HeldPositions(w) /\ writeSet[w][idx[w]] \in Keys /\ pc[w] = "publish"
    <3>1. idx[w] \in HeldPositions(w)
      BY <1>3, HeldByStep DEF TidInv
    <3> QED
      BY <1>0, <1>3, <3>1 DEF HeldPositions, StoreTid
  <2>2. Precedes(word[writeSet[w][idx[w]]], mostRecentlyChosenTid[w])
    BY <2>1 DEF TidInv, GrowInv
  <2>3. word' = [word EXCEPT ![writeSet[w][idx[w]]] = mostRecentlyChosenTid[w]]
    BY <1>3 DEF StoreTid
  <2>4. CASE k = writeSet[w][idx[w]]
    BY <1>0, <1>3, <2>2, <2>3, <2>4, PrecedesOrder
  <2>5. CASE k # writeSet[w][idx[w]]
    BY <1>0, <1>1, <2>3, <2>5
  <2> QED
    BY <2>4, <2>5
<1>4. CASE word' = word /\ ~ StoreTid(w)
  BY <1>0, <1>1, <1>4
<1> QED
  BY <1>2, <1>3, <1>4, StepTouches

\* Between loading the epoch and choosing a TID, a transaction holds all that
\* it is going to write, and holds it alone.
Placed(w) == pc[w] \in {"epoch", "validate"}

LEMMA PlacedHolds ==
    ASSUME TidInv, NEW w \in Workers, Placed(w), NEW k \in Range(writeSet[w])
    PROVE  /\ k \in Keys
           /\ \E i \in HeldPositions(w) : writeSet[w][i] = k
           /\ \A u \in Workers \ {w} : \A j \in HeldPositions(u) : writeSet[u][j] # k
<1>1. PICK i \in DOMAIN writeSet[w] : writeSet[w][i] = k
  BY DEF Range
<1>2. writeSet[w] \in Seq(Keys)
  BY DEF TidInv, TypeOK
<1>3. k \in Keys /\ i \in HeldPositions(w)
  BY <1>1, <1>2 DEF HeldPositions, Placed
<1>4. \A u \in Workers \ {w} : \A j \in HeldPositions(u) : writeSet[u][j] # k
  BY <1>1, <1>3 DEF TidInv, LockInv, LocksExclusive
<1> QED
  BY <1>1, <1>3, <1>4

-----------------------------------------------------------------------------
(* Versions                                                                *)

\* What h wrote in k is about to be stored.
StillHeld(h, k) ==
    \E w \in Workers : /\ Installing(w) /\ h.id = Id(w)
                       /\ \E i \in HeldPositions(w) : writeSet[w][i] = k

\* A record is not older than any version of it that has been stored, and no
\* two versions of it have one TID.
VersionsInv ==
    /\ \A h \in history : \A k \in h.writes :
          StillHeld(h, k) \/ ~ Precedes(word[k], h.tid)
    /\ \A g, h \in history : g # h /\ g.writes \cap h.writes # {} => g.tid # h.tid

LEMMA VersionsInit == Init => VersionsInv
BY DEF Init, VersionsInv

\* A transaction chooses a TID above that of the records it writes, and of all
\* who wrote them before.
LEMMA NewVersion ==
    ASSUME TidInv, TidInv', VersionsInv, NEW w \in Workers, ChooseTid(w),
           NEW k \in Range(writeSet[w])
    PROVE  /\ Precedes(word[k], ChosenTid(w))
           /\ \A h \in history : k \in h.writes => Precedes(h.tid, ChosenTid(w))
<1>0. /\ word \in [Keys -> Words] /\ mostRecentlyChosenTid \in [Workers -> Words]
      /\ TypeOK /\ ChoiceInv
  BY DEF TidInv, TypeOK
<1>1. /\ ChosenTid(w) \in Words /\ writeSet' = writeSet /\ word' = word
      /\ mostRecentlyChosenTid'[w] = ChosenTid(w)
      /\ pc[w] = "validate" /\ pc'[w] = "install"
  BY <1>0, Chooses
<1>2. /\ k \in Keys
      /\ \A u \in Workers \ {w} : \A j \in HeldPositions(u) : writeSet[u][j] # k
  BY <1>1, PlacedHolds DEF Placed
<1>3. PICK i \in HeldPositions(w) : writeSet[w][i] = k
  BY <1>1, PlacedHolds DEF Placed
<1>4. Precedes(word[k], ChosenTid(w))
  <2>1. i \in HeldPositions(w)'
    BY <1>0, <1>3, HeldByStep DEF Work, Holds
  <2> QED
    BY <1>1, <1>3, <2>1 DEF TidInv, GrowInv
<1>5. ASSUME NEW h \in history, k \in h.writes
      PROVE  Precedes(h.tid, ChosenTid(w))
  <2>1. ~ StillHeld(h, k)
    BY <1>1, <1>2 DEF StillHeld, Installing
  <2>2. ~ Precedes(word[k], h.tid) /\ h.tid \in Words
    BY <1>0, <1>5, <2>1 DEF VersionsInv, ChoiceInv, HistoryInv, CommitInv
  <2> QED
    BY <1>0, <1>1, <1>2, <1>4, <2>2, PrecedesTotal
<1> QED
  BY <1>4, <1>5

LEMMA VersionsStep ==
    ASSUME TidInv, TidInv', VersionsInv, NEW w \in Workers, Work(w)
    PROVE  VersionsInv'
<1>0. /\ word \in [Keys -> Words] /\ word' \in [Keys -> Words]
      /\ TypeOK /\ LockInv /\ ChoiceInv /\ HistoryInv
      /\ \A h \in history : h.tid \in Words /\ h.writes \subseteq Keys
      /\ writeSet \in [Workers -> Seq(Keys)]
  BY DEF TidInv, TypeOK, ChoiceInv, HistoryInv, CommitInv
<1>1. ASSUME NEW h \in history, NEW k \in h.writes, ~ Precedes(word[k], h.tid)
      PROVE  ~ Precedes(word'[k], h.tid)
  BY <1>0, <1>1, RecordsGrow, PrecedesTotal
<1>2. ASSUME NEW h \in history, NEW k \in h.writes, StillHeld(h, k)
      PROVE  StillHeld(h, k)' \/ ~ Precedes(word'[k], h.tid)
  <2>1. PICK u \in Workers : /\ Installing(u) /\ h.id = Id(u)
                              /\ \E i \in HeldPositions(u) : writeSet[u][i] = k
    BY <1>2 DEF StillHeld
  <2>2. PICK i \in HeldPositions(u) : writeSet[u][i] = k
    BY <2>1
  <2>3. CASE u # w
    BY <2>1, <2>2, <2>3, <1>0, HeldByStep, OthersFixed, SMTT(30) DEF StillHeld, Installing, Id
  <2>4. CASE u = w
    <3>1. pc[w] \in {"install", "publish"}
      BY <2>1, <2>4 DEF Installing
    <3>2. StoreValue(w) \/ StoreTid(w) \/ Finish(w)
      BY <3>1 DEF Work, NewSteps, Begin, Stop, ReadAgain, LoadTid, CopyValue, CheckTid,
         Write, Sort, LockRecord, LoadEpoch, StoreEpoch, ValidateRead, FailValidation,
         UnlockRecord, Abort, ChooseTid, At
    <3>3. CASE Finish(w)
      <4>1. HeldPositions(w) = {}
        BY <1>0, <3>3 DEF Finish, HeldPositions, TypeOK
      <4> QED
        BY <2>2, <2>4, <4>1
    <3>4. CASE StoreValue(w)
      <4>1. HeldPositions(w)' = HeldPositions(w) /\ writeSet' = writeSet
        BY <1>0, <3>4, HeldByStep DEF Holds
      <4>2. Installing(w)' /\ Id(w)' = Id(w)
        BY <1>0, <3>4 DEF StoreValue, Installing, Id, Goto, locals, TypeOK
      <4> QED
        BY <2>1, <2>2, <2>4, <4>1, <4>2 DEF StillHeld
    <3>5. CASE StoreTid(w)
      <4>1. HeldPositions(w)' = HeldPositions(w) \ {idx[w]} /\ writeSet' = writeSet
        BY <1>0, <3>5, HeldByStep
      <4>2. Installing(w)' /\ Id(w)' = Id(w)
        BY <1>0, <3>5 DEF StoreTid, Installing, Id, Goto, locals, TypeOK
      <4>3. CASE i # idx[w]
        BY <2>1, <2>2, <2>4, <4>1, <4>2, <4>3 DEF StillHeld
      <4>4. CASE i = idx[w]
        <5>1. word'[k] = mostRecentlyChosenTid[w]
          BY <1>0, <2>2, <2>4, <3>5, <4>4 DEF StoreTid
        <5>2. h.tid = mostRecentlyChosenTid[w]
          BY <1>0, <2>1, <2>4 DEF HistoryInv
        <5> QED
          BY <1>0, <5>1, <5>2, PrecedesOrder
      <4> QED
        BY <4>3, <4>4
    <3> QED
      BY <3>2, <3>3, <3>4, <3>5
  <2> QED
    BY <2>3, <2>4
<1>3. CASE history' = history
  BY <1>1, <1>2, <1>3 DEF VersionsInv
<1>4. CASE ChooseTid(w)
  <2>1. PICK c : /\ history' = history \cup {c}
                 /\ c.id = Id(w) /\ c.tid = ChosenTid(w) /\ c.writes = Range(writeSet[w])
    BY <1>0, <1>4, Chooses
  <2>2. /\ ChosenTid(w) \in Words /\ pc[w] = "validate" /\ pc'[w] = "install"
        /\ writeSet' = writeSet /\ number' = number
    BY <1>0, <1>4, Chooses
  <2>3. ASSUME NEW k \in c.writes PROVE StillHeld(c, k)'
    <3>1. PICK i \in HeldPositions(w) : writeSet[w][i] = k
      BY <2>1, <2>2, <2>3, PlacedHolds DEF Placed
    <3>2. i \in HeldPositions(w)'
      BY <1>0, <1>4, <3>1, HeldByStep DEF Holds
    <3>3. c.id = Id(w)' /\ Installing(w)'
      BY <2>1, <2>2 DEF Id, Installing
    <3> QED
      BY <2>2, <3>1, <3>2, <3>3 DEF StillHeld
  <2>4. ASSUME NEW h \in history, h.writes \cap c.writes # {} PROVE h.tid # c.tid
    <3>1. Precedes(h.tid, c.tid)
      BY <1>4, <2>1, <2>4, NewVersion
    <3> QED
      BY <1>0, <3>1, PrecedesOrder
  <2> QED
    BY <1>1, <1>2, <2>1, <2>3, <2>4 DEF VersionsInv
<1> QED
  BY <1>3, <1>4, StepTouches

LEMMA VersionsStutter ==
    ASSUME VersionsInv, UNCHANGED core
    PROVE  VersionsInv'
BY DEF VersionsInv, StillHeld, Installing, Id, HeldPositions, core, shared, locals, sets

-----------------------------------------------------------------------------
(* Values and reads                                                        *)

\* v is a transaction of the history H, and wrote k.
Committed(H, v, k) == \E h \in H : h.id = v /\ k \in h.writes

\* A record whose new value is stored and whose new TID is not.
Publishing(k) == \E u \in Workers : pc[u] = "publish" /\ writeSet[u][idx[u]] = k

\* By H, v is the writer of the version x of k; the version that was there first is
\* below those of all the writers.
Agrees(H, k, v, x) ==
    IF v = NoTxn THEN \A h \in H : k \in h.writes => Precedes(x, h.tid)
    ELSE \E h \in H : h.id = v /\ k \in h.writes /\ h.tid = x

ValueInv ==
    /\ \A k \in Keys :
          /\ value[k] = NoTxn \/ Committed(history, value[k], k)
          /\ Publishing(k) \/ Agrees(history, k, value[k], Unlocked(word[k]))
    /\ \A u \in Workers : pc[u] = "publish" => value[writeSet[u][idx[u]]] = Id(u)

\* What read() knows of the record it is at.
Reading(w) ==
    /\ pc[w] \in {"value", "check"} => ~ Precedes(word[KeyOf(w)], seen[w].word)
    /\ pc[w] = "check" =>
          /\ seen[w].from = NoTxn \/ Committed(history, seen[w].from, KeyOf(w))
          /\ Unlocked(word[KeyOf(w)]) = seen[w].word =>
                \/ Publishing(KeyOf(w))
                \/ Agrees(history, KeyOf(w), seen[w].from, seen[w].word)

ReadInv ==
    /\ \A w \in Workers :
          /\ Reading(w)
          /\ \A i \in DOMAIN readSet[w] :
                LET r == readSet[w][i] IN
                ~ Precedes(word[r.key], r.word) /\ Agrees(history, r.key, r.from, r.word)
    /\ \A h \in history : \A r \in h.reads : r.from = NoTxn \/ Committed(history, r.from, r.key)

LEMMA ReadsInit == Init => ValueInv /\ ReadInv
<1> SUFFICES ASSUME Init PROVE ValueInv /\ ReadInv
  OBVIOUS
<1>1. ValueInv
  BY DEF Init, ValueInv, Agrees
<1>2. \A w \in Workers : pc[w] = "next" /\ DOMAIN readSet[w] = {}
  BY DEF Init
<1> QED
  BY <1>1, <1>2 DEF Init, ReadInv, Reading

\* Who is publishing holds the record.
LEMMA PublishingHolds ==
    ASSUME TidInv, NEW u \in Workers, pc[u] = "publish"
    PROVE  /\ idx[u] \in HeldPositions(u) /\ idx[u] \in DOMAIN writeSet[u]
           /\ writeSet[u][idx[u]] \in Keys /\ word[writeSet[u][idx[u]]].lock = 1
<1>0. /\ idx[u] \in DOMAIN writeSet[u] /\ idx[u] \in Nat /\ writeSet[u] \in Seq(Keys)
  BY DEF TidInv, TypeOK
<1>1. idx[u] \in HeldPositions(u) /\ writeSet[u][idx[u]] \in Keys
  BY <1>0 DEF HeldPositions
<1> QED
  BY <1>0, <1>1 DEF TidInv, LockInv, LockBitOwned

\* A history only grows, by transactions that overwrite what is in the records.
LEMMA HistoryGrows ==
    ASSUME TidInv, TidInv', VersionsInv, NEW w \in Workers, Work(w)
    PROVE  /\ history \subseteq history'
           /\ \A v, k : Committed(history, v, k) => Committed(history', v, k)
           /\ \A h \in history' \ history : \A k \in h.writes \cap Keys :
                 Precedes(word[k], h.tid)
<1>1. CASE ChooseTid(w)
  <2>1. PICK c : /\ history' = history \cup {c}
                 /\ c.tid = ChosenTid(w) /\ c.writes = Range(writeSet[w])
    BY <1>1, Chooses DEF TidInv
  <2> QED
    BY <1>1, <2>1, NewVersion DEF Committed
<1>2. CASE ~ ChooseTid(w)
  BY <1>2, StepTouches DEF Committed
<1> QED
  BY <1>1, <1>2

\* What holds of a version that is current or older keeps holding of it.
LEMMA AgreesKept ==
    ASSUME TidInv, TidInv', VersionsInv, NEW w \in Workers, Work(w),
           NEW k \in Keys, NEW v, NEW x \in Words, ~ Precedes(word[k], x), Agrees(history, k, v, x)
    PROVE  Agrees(history', k, v, x)
<1>1. CASE v # NoTxn
  BY <1>1, HistoryGrows DEF Agrees
<1>2. CASE v = NoTxn
  <2> SUFFICES ASSUME NEW h \in history', k \in h.writes PROVE Precedes(x, h.tid)
    BY <1>2 DEF Agrees
  <2>1. CASE h \in history
    BY <1>2, <2>1 DEF Agrees
  <2>2. CASE h \notin history
    <3>1. Precedes(word[k], h.tid)
      BY <2>2, HistoryGrows
    <3>2. h.tid \in Words /\ word[k] \in Words
      BY DEF TidInv, TypeOK, ChoiceInv, HistoryInv, CommitInv
    <3> QED
      BY <3>1, <3>2, PrecedesTotal
  <2> QED
    BY <2>1, <2>2
<1> QED
  BY <1>1, <1>2

LEMMA SawKept ==
    ASSUME TidInv, TidInv', VersionsInv, NEW w \in Workers, Work(w),
           NEW k \in Keys, NEW v, NEW x \in Words, ~ Precedes(word[k], x),
           Agrees(history, k, v, x)
    PROVE  ~ Precedes(word'[k], x) /\ Agrees(history', k, v, x)
<1>1. word[k] \in Words /\ word'[k] \in Words /\ ~ Precedes(word'[k], word[k])
  BY RecordsGrow DEF TidInv, TypeOK
<1> QED
  BY <1>1, AgreesKept, PrecedesTotal

\* Only storing the TID ends a publication.
LEMMA PublishingKept ==
    ASSUME TidInv, NEW w \in Workers, Work(w), NEW k, Publishing(k),
           ~ (StoreTid(w) /\ k = writeSet[w][idx[w]])
    PROVE  Publishing(k)'
<1>1. PICK u \in Workers : pc[u] = "publish" /\ writeSet[u][idx[u]] = k
  BY DEF Publishing
<1>2. CASE u = w
  <2>1. StoreTid(w)
    BY <1>1, <1>2 DEF Work, NewSteps, Begin, Stop, ReadAgain, LoadTid, CopyValue, CheckTid,
       Write, Sort, LockRecord, LoadEpoch, StoreEpoch, ValidateRead, FailValidation,
       UnlockRecord, Abort, ChooseTid, StoreValue, Finish, At
  <2> QED
    BY <1>1, <1>2, <2>1
<1>3. CASE u # w
  BY <1>1, <1>3, OthersFixed DEF Publishing, TidInv
<1> QED
  BY <1>2, <1>3

LEMMA ValueStep ==
    ASSUME TidInv, TidInv', VersionsInv, ValueInv, NEW w \in Workers, Work(w)
    PROVE  ValueInv'
<1> USE DEF shared, locals, sets, tids, Goto
<1>0. /\ word \in [Keys -> Words] /\ word' \in [Keys -> Words]
      /\ value \in [Keys -> Ids] /\ writeSet \in [Workers -> Seq(Keys)]
      /\ idx \in [Workers -> Nat \ {0}] /\ pc \in [Workers -> Labels]
      /\ mostRecentlyChosenTid \in [Workers -> Words]
      /\ TypeOK /\ LockInv /\ ChoiceInv /\ HistoryInv
  BY DEF TidInv, TypeOK, ChoiceInv
<1>1. ASSUME NEW k \in Keys, value'[k] = value[k], Unlocked(word'[k]) = Unlocked(word[k]),
             Publishing(k) => Publishing(k)'
      PROVE  /\ value'[k] = NoTxn \/ Committed(history', value'[k], k)
             /\ Publishing(k)' \/ Agrees(history', k, value'[k], Unlocked(word'[k]))
  <2>1. value'[k] = NoTxn \/ Committed(history', value'[k], k)
    BY <1>1, HistoryGrows DEF ValueInv
  <2>2. ASSUME ~ Publishing(k) PROVE Agrees(history', k, value'[k], Unlocked(word'[k]))
    <3> DEFINE x == Unlocked(word[k])
               v == value[k]
    <3>1. x \in Words /\ ~ Precedes(word[k], x) /\ Agrees(history, k, v, x)
      BY <1>0, <2>2, PrecedesTotal DEF ValueInv
    <3> HIDE DEF x, v
    <3>2. Agrees(history', k, v, x)
      BY <3>1, AgreesKept
    <3> QED
      BY <1>1, <3>2 DEF x, v
  <2> QED
    BY <1>1, <2>1, <2>2
<1>2. ASSUME ~ StoreValue(w), ~ StoreTid(w)
      PROVE  ValueInv'
  <2>1. value' = value
    BY <1>2, StepTouches
  <2>2. \A k \in Keys : Unlocked(word'[k]) = Unlocked(word[k])
    BY <1>2, RecordsGrow
  <2>3. ASSUME NEW u \in Workers, pc'[u] = "publish"
        PROVE  /\ pc[u] = "publish" /\ idx'[u] = idx[u] /\ writeSet'[u] = writeSet[u]
               /\ number'[u] = number[u]
    <3>1. CASE u = w
      <4>1. pc'[w] # "publish"
        BY <1>0, <1>2 DEF Work, NewSteps, Begin, Stop, ReadAgain, LoadTid, CopyValue, CheckTid,
           Write, Sort, LockRecord, LoadEpoch, StoreEpoch, ValidateRead, FailValidation,
           UnlockRecord, Abort, ChooseTid, Finish, At
      <4> QED
        BY <2>3, <3>1, <4>1
    <3>2. CASE u # w
      BY <1>0, <2>3, <3>2, OthersFixed
    <3> QED
      BY <3>1, <3>2
  <2>4. \A u \in Workers : pc'[u] = "publish" => value'[writeSet'[u][idx'[u]]] = Id(u)'
    BY <2>1, <2>3 DEF ValueInv, Id
  <2>5. \A k \in Keys : Publishing(k) => Publishing(k)'
    BY <1>2, PublishingKept
  <2> QED
    BY <1>1, <2>1, <2>2, <2>4, <2>5 DEF ValueInv
<1>3. CASE StoreValue(w)
  <2>0. PICK k0 \in Keys : k0 = writeSet[w][idx[w]] /\ idx[w] \in DOMAIN writeSet[w]
    BY <1>0, <1>3 DEF StoreValue
  <2>1. /\ value' = [value EXCEPT ![k0] = Id(w)] /\ word' = word /\ writeSet' = writeSet
        /\ history' = history /\ idx' = idx /\ number' = number
        /\ pc[w] = "install" /\ pc' = [pc EXCEPT ![w] = "publish"]
    BY <1>3, <2>0 DEF StoreValue
  <2>2. Publishing(k0)' /\ value'[k0] = Id(w)
    BY <1>0, <2>0, <2>1 DEF Publishing
  <2>3. Committed(history', Id(w), k0)
    <3>1. k0 \in Range(writeSet[w])
      BY <2>0 DEF Range
    <3> QED
      BY <1>0, <2>1, <3>1 DEF HistoryInv, Installing, Committed
  <2>4. \A k \in Keys \ {k0} : /\ value'[k] = value[k] /\ Unlocked(word'[k]) = Unlocked(word[k])
                               /\ Publishing(k) => Publishing(k)'
    BY <1>0, <2>1 DEF Publishing
  <2>5. idx[w] \in HeldPositions(w)
    BY <1>0, <2>0, <2>1 DEF HeldPositions
  <2>6. ASSUME NEW u \in Workers, pc'[u] = "publish"
        PROVE  value'[writeSet'[u][idx'[u]]] = Id(u)'
    <3>1. CASE u = w
      BY <2>0, <2>1, <2>2, <3>1 DEF Id
    <3>2. CASE u # w
      <4>1. pc[u] = "publish"
        BY <1>0, <2>1, <2>6, <3>2
      <4>2. idx[u] \in HeldPositions(u) /\ writeSet[u][idx[u]] \in Keys
        BY <4>1, PublishingHolds
      <4>3. writeSet[u][idx[u]] # k0
        BY <1>0, <2>0, <2>5, <3>2, <4>2 DEF LockInv, LocksExclusive
      <4> QED
        BY <1>0, <2>1, <4>1, <4>2, <4>3 DEF ValueInv, Id
    <3> QED
      BY <3>1, <3>2
  <2> QED
    BY <1>1, <2>2, <2>3, <2>4, <2>6 DEF ValueInv
<1>4. CASE StoreTid(w)
  <2>0. PICK k0 \in Keys : k0 = writeSet[w][idx[w]] /\ idx[w] \in DOMAIN writeSet[w]
    BY <1>0, <1>4, PublishingHolds DEF StoreTid
  <2>1. /\ value' = value /\ writeSet' = writeSet /\ number' = number
        /\ word' = [word EXCEPT ![k0] = mostRecentlyChosenTid[w]]
        /\ history' = history /\ idx' = [idx EXCEPT ![w] = idx[w] + 1]
        /\ pc[w] = "publish" /\ pc' = [pc EXCEPT ![w] = "install"]
    BY <1>4, <2>0 DEF StoreTid
  <2>2. value[k0] = Id(w) /\ Id(w) # NoTxn
    <3>1. Id(w) \in Workers \X Nat
      BY <1>0 DEF Id, TypeOK
    <3> QED
      BY <2>0, <2>1, <3>1, SiloAssumption DEF ValueInv
  <2>3. k0 \in Range(writeSet[w])
    BY <2>0 DEF Range
  <2>4. PICK h \in history : /\ h.id = Id(w) /\ h.tid = mostRecentlyChosenTid[w]
                             /\ k0 \in h.writes
    BY <1>0, <2>1, <2>3 DEF HistoryInv, Installing
  <2>5. Unlocked(word'[k0]) = mostRecentlyChosenTid[w]
    BY <1>0, <2>1, PrecedesOrder DEF LockInv, ChosenUnlocked
  <2>6. Agrees(history', k0, value'[k0], Unlocked(word'[k0])) /\ Committed(history', value'[k0], k0)
    BY <2>1, <2>2, <2>4, <2>5 DEF Agrees, Committed
  <2>7. \A k \in Keys \ {k0} : /\ value'[k] = value[k] /\ Unlocked(word'[k]) = Unlocked(word[k])
                               /\ Publishing(k) => Publishing(k)'
    BY <1>0, <2>0, <2>1, PublishingKept
  <2>8. \A u \in Workers : pc'[u] = "publish" =>
            u # w /\ pc[u] = "publish" /\ idx'[u] = idx[u]
    BY <1>0, <2>1
  <2>9. \A u \in Workers : pc'[u] = "publish" => value'[writeSet'[u][idx'[u]]] = Id(u)'
    BY <2>1, <2>8 DEF ValueInv, Id
  <2> QED
    BY <1>1, <2>6, <2>7, <2>9 DEF ValueInv
<1> QED
  BY <1>2, <1>3, <1>4

\* What a transaction knows of the version it is reading.
LEMMA CheckKept ==
    ASSUME TidInv, TidInv', VersionsInv, NEW w \in Workers, Work(w),
           NEW k \in Keys, NEW v, NEW x \in Words, ~ Precedes(word[k], x),
           Unlocked(word[k]) = x => Publishing(k) \/ Agrees(history, k, v, x)
    PROVE  Unlocked(word'[k]) = x => Publishing(k)' \/ Agrees(history', k, v, x)
<1> SUFFICES ASSUME Unlocked(word'[k]) = x
             PROVE  Publishing(k)' \/ Agrees(history', k, v, x)
  OBVIOUS
<1>0. word[k] \in Words /\ word'[k] \in Words
  BY DEF TidInv, TypeOK
<1>1. ~ (StoreTid(w) /\ k = writeSet[w][idx[w]])
  <2> SUFFICES ASSUME Precedes(word[k], word'[k]) PROVE FALSE
    BY RecordsGrow
  <2>1. ~ Precedes(word'[k], x) /\ Unlocked(x) = x
    BY <1>0, PrecedesTotal, PrecedesOrder
  <2>2. Unlocked(word'[k]) = Unlocked(x)
    BY <2>1
  <2> QED
    BY <1>0, <2>2, PrecedesOrder
<1>2. Unlocked(word[k]) = x
  BY <1>1, RecordsGrow
<1> QED
  BY <1>1, <1>2, AgreesKept, PublishingKept

LEMMA ReadStep ==
    ASSUME TidInv, TidInv', VersionsInv, ValueInv, ReadInv, NEW w \in Workers, Work(w)
    PROVE  ReadInv'
<1> USE DEF shared, locals, sets, tids, Goto
<1>0. /\ word \in [Keys -> Words] /\ word' \in [Keys -> Words] /\ value \in [Keys -> Ids]
      /\ readSet \in [Workers -> Seq(ReadElements)] /\ pc \in [Workers -> Labels]
      /\ seen \in [Workers -> SeenRecords] /\ op \in [Workers -> Nat \ {0}]
      /\ TypeOK /\ ChoiceInv
  BY DEF TidInv, TypeOK, SeenRecords
<1>1. \A u \in Workers : pc[u] \in {"value", "check"} =>
         KeyOf(u) \in Keys /\ seen[u].word \in Words /\ seen[u].word.lock = 0
  BY <1>0, SiloKeyOf DEF TypeOK, SeenRecords
\* The transactions that have committed.
<1>2. \A h \in history' : \A r \in h.reads :
         r.from = NoTxn \/ Committed(history', r.from, r.key)
  <2> SUFFICES ASSUME NEW h \in history', NEW r \in h.reads, r.from # NoTxn
               PROVE  Committed(history', r.from, r.key)
    OBVIOUS
  <2>1. CASE h \in history
    BY <2>1, HistoryGrows DEF ReadInv
  <2>2. CASE h \notin history
    <3>1. ChooseTid(w)
      BY <2>2, StepTouches
    <3>2. PICK c : /\ history' = history \cup {c}
                   /\ c.reads = {[key |-> q.key, from |-> q.from] : q \in Range(readSet[w])}
      BY <1>0, <3>1, Chooses
    <3>3. PICK q \in Range(readSet[w]) : r = [key |-> q.key, from |-> q.from]
      BY <2>2, <3>2
    <3>4. PICK i \in DOMAIN readSet[w] : q = readSet[w][i]
      BY <3>3 DEF Range
    <3>5. Agrees(history, q.key, q.from, q.word)
      BY <3>4 DEF ReadInv
    <3> QED
      BY <3>3, <3>5, HistoryGrows DEF Agrees, Committed
  <2> QED
    BY <2>1, <2>2
\* The read sets.
<1>3. ASSUME NEW u \in Workers, NEW r \in ReadElements,
             ~ Precedes(word[r.key], r.word), Agrees(history, r.key, r.from, r.word)
      PROVE  ~ Precedes(word'[r.key], r.word) /\ Agrees(history', r.key, r.from, r.word)
  BY <1>3, SawKept DEF ReadElements
<1>4. ASSUME NEW u \in Workers, NEW i \in DOMAIN readSet[u]
      PROVE  /\ ~ Precedes(word'[readSet[u][i].key], readSet[u][i].word)
             /\ Agrees(history', readSet[u][i].key, readSet[u][i].from, readSet[u][i].word)
  <2>1. readSet[u][i] \in ReadElements
    BY <1>0
  <2> QED
    BY <1>3, <2>1 DEF ReadInv
<1>5. ASSUME NEW u \in Workers, NEW i \in DOMAIN readSet'[u]
      PROVE  /\ ~ Precedes(word'[readSet'[u][i].key], readSet'[u][i].word)
             /\ Agrees(history', readSet'[u][i].key, readSet'[u][i].from, readSet'[u][i].word)
  <2>1. CASE readSet'[u] = readSet[u]
    BY <1>4, <1>5, <2>1
  <2>2. CASE readSet'[u] = <<>>
    BY <1>5, <2>2
  <2>3. CASE readSet'[u] # readSet[u] /\ readSet'[u] # <<>>
    <3>1. u = w /\ CheckTid(w)
      <4>1. u = w
        BY <1>0, <2>3, OthersFixed
      <4>2. CASE Abort(w) \/ Finish(w)
        BY <1>0, <2>3, <4>1, <4>2 DEF Abort, Finish
      <4>3. CASE ~ (Abort(w) \/ Finish(w) \/ CheckTid(w))
        BY <2>3, <4>1, <4>3 DEF Work, NewSteps, Begin, Stop, ReadAgain, LoadTid, CopyValue,
           Write, Sort, LockRecord, LoadEpoch, StoreEpoch, ValidateRead, FailValidation,
           UnlockRecord, ChooseTid, StoreValue, StoreTid
      <4> QED
        BY <4>1, <4>2, <4>3
    <3> DEFINE k == KeyOf(w)
               e == [key |-> k, word |-> word[k], from |-> seen[w].from]
    <3>2. seen[w].word = word[k] /\ readSet'[w] = Append(readSet[w], e) /\ pc[w] = "check"
      BY <1>0, <2>3, <3>1 DEF CheckTid
    <3>3. k \in Keys /\ word[k] \in Words /\ word[k].lock = 0
      BY <1>0, <1>1, <3>2
    <3>4. Unlocked(word[k]) = word[k]
      BY <3>3, PrecedesOrder
    <3>5. ~ Publishing(k)
      BY <3>3, PublishingHolds DEF Publishing
    <3>6. Agrees(history, k, seen[w].from, seen[w].word) /\ ~ Precedes(word[k], seen[w].word)
      BY <3>2, <3>4, <3>5 DEF ReadInv, Reading
    <3>7. e \in ReadElements
      BY <1>0, <3>3 DEF ReadElements, SeenRecords
    <3>8. /\ e.key = k /\ e.from = seen[w].from /\ e.word = seen[w].word
      BY <3>2
    <3> HIDE DEF e
    <3>9. ~ Precedes(word'[e.key], e.word) /\ Agrees(history', e.key, e.from, e.word)
      BY <1>3, <3>6, <3>7, <3>8
    <3>10. readSet'[w][i] = e \/ (i \in DOMAIN readSet[w] /\ readSet'[w][i] = readSet[w][i])
      BY <1>0, <1>5, <3>1, <3>2, <3>7
    <3> QED
      BY <1>4, <3>1, <3>9, <3>10
  <2> QED
    BY <2>1, <2>2, <2>3
\* Those that are reading.
<1>6. ASSUME NEW u \in Workers, pc'[u] = pc[u], seen'[u] = seen[u], op'[u] = op[u],
             steps'[u] = steps[u]
      PROVE  Reading(u)'
  <2>1. KeyOf(u)' = KeyOf(u)
    BY <1>6 DEF KeyOf
  <2>2. PICK k : k = KeyOf(u)
    OBVIOUS
  <2>3. ASSUME pc[u] \in {"value", "check"}
        PROVE  ~ Precedes(word'[k], seen[u].word) /\ k \in Keys
    <3>1. k \in Keys /\ seen[u].word \in Words /\ ~ Precedes(word[k], seen[u].word)
      BY <1>1, <2>2, <2>3 DEF ReadInv, Reading
    <3>2. ~ Precedes(word'[k], word[k])
      BY <3>1, RecordsGrow
    <3> QED
      BY <1>0, <3>1, <3>2, PrecedesTotal
  <2>4. ASSUME pc[u] = "check"
        PROVE  /\ seen[u].from = NoTxn \/ Committed(history', seen[u].from, k)
               /\ Unlocked(word'[k]) = seen[u].word =>
                     Publishing(k)' \/ Agrees(history', k, seen[u].from, seen[u].word)
    <3>1. /\ seen[u].from = NoTxn \/ Committed(history, seen[u].from, k)
          /\ Unlocked(word[k]) = seen[u].word =>
                Publishing(k) \/ Agrees(history, k, seen[u].from, seen[u].word)
          /\ ~ Precedes(word[k], seen[u].word) /\ seen[u].word \in Words /\ k \in Keys
      BY <1>1, <2>2, <2>4 DEF ReadInv, Reading
    <3> QED
      BY <3>1, CheckKept, HistoryGrows
  <2>5. /\ pc'[u] \in {"value", "check"} => ~ Precedes(word'[k], seen'[u].word)
        /\ pc'[u] = "check" =>
              /\ seen'[u].from = NoTxn \/ Committed(history', seen'[u].from, k)
              /\ Unlocked(word'[k]) = seen'[u].word =>
                    Publishing(k)' \/ Agrees(history', k, seen'[u].from, seen'[u].word)
    BY <1>6, <2>3, <2>4
  <2>6. k = KeyOf(u)'
    BY <2>1, <2>2
  <2> HIDE <2>1, <2>2
  <2> QED
    BY <2>5, <2>6 DEF Reading, Publishing
<1>7. ASSUME NEW k \in Keys, KeyOf(w)' = k, seen'[w].word = word[k], word' = word,
             pc'[w] = "value"
      PROVE  Reading(w)'
  BY <1>0, <1>7, PrecedesOrder DEF Reading
<1>8. Reading(w)'
  <2>1. CASE LoadTid(w)
    <3>1. KeyOf(w) \in Keys
      BY <1>0, <2>1, SiloKeyOf DEF LoadTid, At
    <3>2. /\ KeyOf(w)' = KeyOf(w) /\ pc'[w] = "value" /\ word' = word
          /\ seen'[w].word = word[KeyOf(w)]
      BY <1>0, <2>1 DEF LoadTid, KeyOf, SeenRecords
    <3> QED
      BY <1>7, <3>1, <3>2
  <2>2. CASE CopyValue(w)
    <3>1. /\ pc[w] = "value" /\ pc'[w] = "check" /\ KeyOf(w)' = KeyOf(w) /\ word' = word
          /\ seen'[w].word = seen[w].word /\ seen'[w].from = value[KeyOf(w)]
          /\ history' = history
      BY <1>0, <2>2 DEF CopyValue, KeyOf, SeenRecords
    <3>2. PICK k \in Keys : k = KeyOf(w)
      BY <1>1, <3>1
    <3>3. ~ Precedes(word[k], seen[w].word)
      BY <3>1, <3>2 DEF ReadInv, Reading
    <3>4. value[k] = NoTxn \/ Committed(history, value[k], k)
      BY DEF ValueInv
    <3>5. Publishing(k)' \/ Agrees(history, k, value[k], Unlocked(word[k]))
      <4>1. ~ StoreTid(w)
        BY <3>1 DEF StoreTid
      <4> QED
        BY <4>1, PublishingKept DEF ValueInv
    <3>6. k = KeyOf(w)'
      BY <3>1, <3>2
    <3> QED
      BY <3>1, <3>2, <3>3, <3>4, <3>5, <3>6 DEF Reading, Publishing
  <2>3. CASE CheckTid(w)
    <3>1. CASE pc'[w] = "value"
      <4>1. KeyOf(w) \in Keys
        BY <1>1, <2>3 DEF CheckTid
      <4>2. /\ op' = op /\ steps' = steps /\ word' = word
            /\ seen' = [seen EXCEPT ![w] = [Nothing EXCEPT !.word = word[KeyOf(w)]]]
        BY <1>0, <2>3, <3>1 DEF CheckTid
      <4>3. seen'[w].word = word[KeyOf(w)]
        BY <1>0, <4>2 DEF Nothing
      <4> QED
        BY <1>7, <3>1, <4>1, <4>2, <4>3 DEF KeyOf
    <3>2. CASE pc'[w] # "value"
      <4>1. pc'[w] = "steps"
        BY <1>0, <2>3, <3>2 DEF CheckTid
      <4> QED
        BY <4>1 DEF Reading
    <3> QED
      BY <3>1, <3>2
  <2>4. CASE ~ (LoadTid(w) \/ CopyValue(w) \/ CheckTid(w))
    <3>1. pc'[w] \notin {"value", "check"}
      BY <1>0, <2>4 DEF Work, NewSteps, Begin, Stop, ReadAgain, Write, Sort, At,
         LockRecord, LoadEpoch, StoreEpoch, ValidateRead, FailValidation, UnlockRecord,
         Abort, ChooseTid, StoreValue, StoreTid, Finish
    <3> QED
      BY <3>1 DEF Reading
  <2> QED
    BY <2>1, <2>2, <2>3, <2>4
<1>9. \A u \in Workers : Reading(u)'
  BY <1>0, <1>6, <1>8, OthersFixed, ZenonT(60)
<1> QED
  BY <1>2, <1>5, <1>9 DEF ReadInv

LEMMA ReadsStutter ==
    ASSUME ValueInv, ReadInv, UNCHANGED core
    PROVE  ValueInv' /\ ReadInv'
BY DEF ValueInv, ReadInv, Reading, Publishing, KeyOf, Id, core, shared, locals, sets

RecordsInv == TidInv /\ VersionsInv /\ ValueInv /\ ReadInv

LEMMA RecordsHold == Spec => []RecordsInv
<1>1. Init => VersionsInv /\ ValueInv /\ ReadInv
  BY VersionsInit, ReadsInit
<1>2. ASSUME TidInv, TidInv', VersionsInv, ValueInv, ReadInv, [Next]_vars
      PROVE  VersionsInv' /\ ValueInv' /\ ReadInv'
  <2>1. CASE Quit \/ UNCHANGED vars
    BY <1>2, <2>1, CoreKept, VersionsStutter, ReadsStutter
  <2>2. ASSUME NEW w \in Workers, Work(w)
        PROVE  VersionsInv' /\ ValueInv' /\ ReadInv'
    BY <1>2, <2>2, VersionsStep, ValueStep, ReadStep
  <2> QED
    BY <1>2, <2>1, <2>2 DEF Next
<1> QED
  BY <1>1, <1>2, TidsHold, PTL DEF Spec, RecordsInv

\* Whenever no worker is inside a commit, no lock is left, every record holds
\* the value and the TID of the last of its writers or what was there before
\* any, and no two versions of it have one TID, whatever tids init() left.
THEOREM TableAtRest == Spec => []RestingTable
<1>1. ASSUME RecordsInv PROVE RestingTable
  <2> SUFFICES ASSUME Quiescent, NEW k \in Keys
               PROVE  /\ word[k].lock = 0
                      /\ IF value[k] = NoTxn THEN \A h \in history : k \notin h.writes
                         ELSE \E h \in history :
                                  /\ h.id = value[k] /\ k \in h.writes /\ h.tid = word[k]
                                  /\ \A g \in history : k \in g.writes /\ g # h =>
                                        WordLess(g.tid, h.tid)
    BY DEF RestingTable
  <2>0. /\ word[k] \in Words /\ LockInv
        /\ \A h \in history : h.tid \in Words /\ h.tid.lock = 0
    BY <1>1 DEF RecordsInv, TidInv, TypeOK, ChoiceInv, HistoryInv, CommitInv
  <2>1. \A w \in Workers : HeldPositions(w) = {} /\ pc[w] \in {"next", "retry", "stopped"}
    BY DEF Quiescent, HeldPositions
  <2>2. word[k].lock = 0
    <3>1. word[k].lock # 1
      BY <2>0, <2>1 DEF LockInv, LockBitOwned
    <3> QED
      BY <2>0, <3>1 DEF Words
  <2>3. Agrees(history, k, value[k], word[k])
    <3>1. ~ Publishing(k) /\ Unlocked(word[k]) = word[k]
      BY <2>0, <2>1, <2>2, PrecedesOrder DEF Publishing
    <3>2. Publishing(k) \/ Agrees(history, k, value[k], Unlocked(word[k]))
      BY <1>1 DEF RecordsInv, ValueInv
    <3> QED
      BY <3>1, <3>2
  <2>4. \A h \in history : k \in h.writes => ~ Precedes(word[k], h.tid)
    BY <1>1, <2>1 DEF RecordsInv, VersionsInv, StillHeld, Installing
  <2>5. CASE value[k] = NoTxn
    BY <2>2, <2>3, <2>4, <2>5 DEF Agrees
  <2>6. CASE value[k] # NoTxn
    <3>1. PICK h \in history : h.id = value[k] /\ k \in h.writes /\ h.tid = word[k]
      BY <2>3, <2>6 DEF Agrees
    <3>2. ASSUME NEW g \in history, k \in g.writes, g # h PROVE WordLess(g.tid, h.tid)
      <4>1. g.tid # h.tid
        BY <1>1, <3>1, <3>2 DEF RecordsInv, VersionsInv
      <4>2. ~ Precedes(h.tid, g.tid)
        BY <2>4, <3>1, <3>2
      <4> QED
        BY <2>0, <4>1, <4>2, PrecedesTotal, PrecedesOrder
    <3> QED
      BY <2>2, <2>6, <3>1, <3>2
  <2> QED
    BY <2>5, <2>6
<1> QED
  BY <1>1, RecordsHold, PTL

-----------------------------------------------------------------------------
(* The epochs of the words                                                 *)

\* The epoch of the first records is 1, the first global epoch is 0.
AtLeast1(e) == IF e = 0 THEN 1 ELSE e
LoadedEpoch(w) == IF pc[w] = "epoch" THEN seen[w].epoch ELSE localEpoch[w]

\* What w may have met so far.
CurrentEpoch(w) == AtLeast1(IF Placed(w) THEN LoadedEpoch(w) ELSE globalEpoch)

\* A worker has met no word of an epoch later than the one it loaded.
WordEpochInv ==
    /\ \A k \in Keys : 1 <= word[k].epoch /\ word[k].epoch <= AtLeast1(globalEpoch)
    /\ \A w \in Workers :
          /\ Placed(w) => LoadedEpoch(w) <= globalEpoch
          /\ mostRecentlyChosenTid[w].epoch <= CurrentEpoch(w)
          /\ maxWriteTid[w].epoch <= CurrentEpoch(w)
          /\ maxReadTid[w].epoch <= CurrentEpoch(w)
          /\ pc[w] \in {"value", "check"} => seen[w].word.epoch <= CurrentEpoch(w)
          /\ \A i \in DOMAIN readSet[w] : readSet[w][i].word.epoch <= CurrentEpoch(w)

LEMMA WordEpochInit == Init => WordEpochInv
<1> SUFFICES ASSUME Init PROVE WordEpochInv
  OBVIOUS
<1>1. \A k \in Keys : word[k].epoch = 1
  BY DEF Init
<1>2. \A w \in Workers : CurrentEpoch(w) = 1 /\ ~ Placed(w)
  BY DEF Init, CurrentEpoch, AtLeast1, Placed
<1> QED
  BY <1>1, <1>2 DEF Init, WordEpochInv, AtLeast1, ZeroWord

\* The types that matter here.
LEMMA EpochNumbers ==
    ASSUME TypeOK
    PROVE  /\ globalEpoch \in Nat /\ localEpoch \in [Workers -> Nat]
           /\ \A w \in Workers : seen[w].epoch \in Nat /\ LoadedEpoch(w) \in Nat
           /\ \A e \in Nat : AtLeast1(e) \in Nat /\ e <= AtLeast1(e) /\ 1 <= AtLeast1(e)
           /\ \A d, e \in Nat : d <= e => AtLeast1(d) <= AtLeast1(e)
           /\ \A w \in Workers : CurrentEpoch(w) \in Nat /\ 1 <= CurrentEpoch(w)
           /\ \A x \in Words : x.epoch \in Nat
<1>1. globalEpoch \in Nat /\ localEpoch \in [Workers -> Nat]
      /\ \A w \in Workers : seen[w].epoch \in Nat
  <2>1. Epochs \subseteq Nat /\ 0 .. MaxEpoch \subseteq Nat
    BY DEF Epochs
  <2> QED
    BY <2>1 DEF TypeOK
<1>2. \A w \in Workers : LoadedEpoch(w) \in Nat
  BY <1>1 DEF LoadedEpoch
<1>3. \A e \in Nat : AtLeast1(e) \in Nat /\ e <= AtLeast1(e) /\ 1 <= AtLeast1(e)
  BY DEF AtLeast1
<1>4. \A d, e \in Nat : d <= e => AtLeast1(d) <= AtLeast1(e)
  BY DEF AtLeast1
<1>5. \A w \in Workers : CurrentEpoch(w) \in Nat /\ 1 <= CurrentEpoch(w)
  BY <1>1, <1>2, <1>3 DEF CurrentEpoch
<1>6. \A x \in Words : x.epoch \in Nat
  BY WidthAssumption DEF Words, Epochs
<1> QED
  BY <1>1, <1>2, <1>3, <1>4, <1>5, <1>6

\* The epoch only goes up, and a worker that has loaded it keeps what it
\* loaded until it has validated.
LEMMA EpochsGrow ==
    ASSUME TypeOK, WordEpochInv, NEW w \in Workers, Work(w)
    PROVE  /\ globalEpoch <= globalEpoch' /\ globalEpoch' \in Nat
           /\ \A u \in Workers : /\ CurrentEpoch(u) <= CurrentEpoch(u)'
                                 /\ Placed(u)' => LoadedEpoch(u)' <= globalEpoch'
           /\ \A u \in Workers : Placed(u)' =>
                 \/ Placed(u) /\ LoadedEpoch(u)' = LoadedEpoch(u) /\ ~ LoadEpoch(u)
                 \/ u = w /\ LoadEpoch(w) /\ LoadedEpoch(w)' = globalEpoch
           /\ ~ (Begin(w) \/ Stop(w)) => globalEpoch' = globalEpoch
<1> USE DEF shared, locals, sets, tids, Goto
<1>0. /\ pc \in [Workers -> Labels] /\ localEpoch \in [Workers -> Nat]
      /\ seen \in [Workers -> SeenRecords] /\ globalEpoch \in Nat
  BY EpochNumbers DEF TypeOK, SeenRecords
<1>1. globalEpoch <= globalEpoch' /\ globalEpoch' \in Nat
      /\ (~ (Begin(w) \/ Stop(w)) => globalEpoch' = globalEpoch)
  <2>1. CASE Begin(w) \/ Stop(w)
    BY <1>0, <2>1 DEF Begin, Stop, AdvanceEpoch
  <2>2. CASE ~ (Begin(w) \/ Stop(w))
    BY <1>0, <2>2 DEF Work, NewSteps, ReadAgain, LoadTid, CopyValue, CheckTid, Write, Sort,
       LockRecord, LoadEpoch, StoreEpoch, ValidateRead, FailValidation, UnlockRecord,
       Abort, ChooseTid, StoreValue, StoreTid, Finish
  <2> QED
    BY <2>1, <2>2
<1>2. ASSUME NEW u \in Workers, Placed(u)'
      PROVE  \/ Placed(u) /\ LoadedEpoch(u)' = LoadedEpoch(u) /\ ~ LoadEpoch(u)
             \/ u = w /\ LoadEpoch(w) /\ LoadedEpoch(w)' = globalEpoch
  <2>1. CASE u # w
    <3>1. pc'[u] = pc[u] /\ seen'[u] = seen[u] /\ localEpoch'[u] = localEpoch[u]
      BY <2>1, OthersFixed
    <3> QED
      BY <1>2, <3>1 DEF Placed, LoadedEpoch, LoadEpoch
  <2>2. CASE u = w
    <3>1. CASE LoadEpoch(w)
      BY <1>0, <2>2, <3>1 DEF LoadEpoch, LoadedEpoch, SeenRecords
    <3>2. CASE StoreEpoch(w)
      BY <1>0, <2>2, <3>2 DEF StoreEpoch, LoadEpoch, LoadedEpoch, Placed
    <3>3. CASE ValidateRead(w)
      BY <1>0, <2>2, <3>3 DEF ValidateRead, LoadEpoch, LoadedEpoch, Placed
    <3>4. CASE ~ (LoadEpoch(w) \/ StoreEpoch(w) \/ ValidateRead(w))
      <4>1. ~ Placed(w)'
        BY <1>0, <3>4 DEF Placed, Work, NewSteps, Begin, Stop, ReadAgain, LoadTid, CopyValue,
           CheckTid, Write, Sort, LockRecord, FailValidation, UnlockRecord, At,
           Abort, ChooseTid, StoreValue, StoreTid, Finish
      <4> QED
        BY <1>2, <2>2, <4>1
    <3> QED
      BY <3>1, <3>2, <3>3, <3>4
  <2> QED
    BY <2>1, <2>2
<1>3. \A u \in Workers : Placed(u) => LoadedEpoch(u) <= globalEpoch /\ LoadedEpoch(u) \in Nat
  BY EpochNumbers DEF WordEpochInv
<1>4. ASSUME NEW u \in Workers, Placed(u)' PROVE LoadedEpoch(u)' <= globalEpoch'
  BY <1>0, <1>1, <1>2, <1>3, <1>4
<1>5. ASSUME NEW u \in Workers PROVE CurrentEpoch(u) <= CurrentEpoch(u)'
  <2> DEFINE d == IF Placed(u) THEN LoadedEpoch(u) ELSE globalEpoch
  <2>1. /\ d \in Nat /\ d' \in Nat /\ d <= d'
    <3>1. CASE Placed(u)'
      <4>0. ~ Placed(u) \/ Placed(u)
        OBVIOUS
      <4>1. CASE Placed(u) /\ LoadedEpoch(u)' = LoadedEpoch(u)
        BY <1>3, <3>1, <4>1
      <4>2. CASE u = w /\ LoadEpoch(w) /\ LoadedEpoch(w)' = globalEpoch
        <5>1. ~ Placed(u)
          BY <4>2 DEF LoadEpoch, Placed
        <5> QED
          BY <1>0, <3>1, <4>2, <5>1
      <4> QED
        BY <1>2, <3>1, <4>1, <4>2
    <3>2. CASE ~ Placed(u)'
      BY <1>0, <1>1, <1>3, <3>2
    <3> QED
      BY <3>1, <3>2
  <2>2. CurrentEpoch(u) = AtLeast1(d) /\ CurrentEpoch(u)' = AtLeast1(d')
    BY DEF CurrentEpoch, AtLeast1
  <2> HIDE DEF d
  <2> QED
    BY <2>1, <2>2, EpochNumbers
<1> QED
  BY <1>1, <1>2, <1>4, <1>5

CurrentEpochNat == \A u \in Workers : CurrentEpoch(u) \in Nat

LEMMA CurrentEpochType == TypeOK => CurrentEpochNat
BY EpochNumbers DEF CurrentEpochNat

LEMMA WordEpochStep ==
    ASSUME TidInv, TidInv', WordEpochInv, NEW w \in Workers, Work(w)
    PROVE  WordEpochInv'
<1> USE DEF shared, locals, sets, tids, Goto
<1>0. /\ pc \in [Workers -> Labels] /\ word \in [Keys -> Words]
      /\ word' \in [Keys -> Words] /\ mostRecentlyChosenTid \in [Workers -> Words]
      /\ seen \in [Workers -> SeenRecords] /\ readSet \in [Workers -> Seq(ReadElements)]
      /\ maxWriteTid \in [Workers -> Words] /\ maxReadTid \in [Workers -> Words]
      /\ writeSet \in [Workers -> Seq(Keys)] /\ idx \in [Workers -> Nat \ {0}]
      /\ TypeOK /\ TypeOK' /\ ChoiceInv
  BY DEF TidInv, TypeOK, SeenRecords
<1>1. /\ globalEpoch \in Nat /\ globalEpoch' \in Nat /\ globalEpoch <= globalEpoch'
      /\ AtLeast1(globalEpoch) <= AtLeast1(globalEpoch') /\ AtLeast1(globalEpoch) \in Nat
      /\ AtLeast1(globalEpoch') \in Nat
      /\ \A x \in Words : x.epoch \in Nat
  BY <1>0, EpochNumbers, EpochsGrow
<1>2. \A u \in Workers : /\ CurrentEpoch(u) \in Nat /\ CurrentEpoch(u)' \in Nat
                         /\ CurrentEpoch(u) <= CurrentEpoch(u)' /\ 1 <= CurrentEpoch(u)
                         /\ Placed(u)' => LoadedEpoch(u)' <= globalEpoch'
  <2>1. \A u \in Workers : CurrentEpoch(u) \in Nat /\ 1 <= CurrentEpoch(u)
    BY <1>0, EpochNumbers
  <2>2. TypeOK' => CurrentEpochNat'
    BY CurrentEpochType, PTL
  <2>3. \A u \in Workers : CurrentEpoch(u)' \in Nat
    BY <1>0, <2>2 DEF CurrentEpochNat
  <2> QED
    BY <1>0, <2>1, <2>3, EpochsGrow
<1>3. ASSUME ~ Placed(w), NEW k \in Keys
      PROVE  word[k].epoch <= CurrentEpoch(w) /\ word[k].epoch \in Nat
  BY <1>0, <1>1, <1>3 DEF WordEpochInv, CurrentEpoch
<1>4. \A a, b \in Words : \A e \in Nat :
         a.epoch <= e /\ b.epoch <= e => WordMax(a, b).epoch <= e
  BY DEF WordMax
\* The records.
<1>5. ASSUME NEW k \in Keys
      PROVE  1 <= word'[k].epoch /\ word'[k].epoch <= AtLeast1(globalEpoch')
  <2>1. 1 <= word[k].epoch /\ word[k].epoch <= AtLeast1(globalEpoch) /\ word[k] \in Words
    BY <1>0 DEF WordEpochInv
  <2>2. CASE StoreTid(w) /\ k = writeSet[w][idx[w]]
    <3>1. word'[k] = mostRecentlyChosenTid[w] /\ Precedes(word[k], word'[k])
      BY <2>2, RecordsGrow
    <3>2. word[k].epoch <= word'[k].epoch
      BY <1>0, <3>1, PrecedesTotal
    <3>3. mostRecentlyChosenTid[w].epoch <= AtLeast1(globalEpoch)
      BY <2>2 DEF WordEpochInv, CurrentEpoch, Placed, StoreTid
    <3> QED
      BY <1>0, <1>1, <2>1, <3>1, <3>2, <3>3
  <2>3. CASE ~ (StoreTid(w) /\ k = writeSet[w][idx[w]])
    <3>1. Unlocked(word'[k]) = Unlocked(word[k])
      BY <2>3, RecordsGrow
    <3>2. word'[k].epoch = word[k].epoch
      BY <1>0, <3>1, PrecedesTotal
    <3> QED
      BY <1>0, <1>1, <2>1, <3>2
  <2> QED
    BY <2>2, <2>3
\* The other workers.
<1>6. ASSUME NEW u \in Workers \ {w}
      PROVE  /\ mostRecentlyChosenTid'[u].epoch <= CurrentEpoch(u)'
             /\ maxWriteTid'[u].epoch <= CurrentEpoch(u)'
             /\ maxReadTid'[u].epoch <= CurrentEpoch(u)'
             /\ pc'[u] \in {"value", "check"} => seen'[u].word.epoch <= CurrentEpoch(u)'
             /\ \A i \in DOMAIN readSet'[u] : readSet'[u][i].word.epoch <= CurrentEpoch(u)'
  <2>1. /\ pc'[u] = pc[u] /\ seen'[u] = seen[u] /\ readSet'[u] = readSet[u]
        /\ maxWriteTid'[u] = maxWriteTid[u] /\ maxReadTid'[u] = maxReadTid[u]
        /\ mostRecentlyChosenTid'[u] = mostRecentlyChosenTid[u]
    BY <1>0, OthersFixed
  <2>2. /\ seen[u].word.epoch \in Nat
        /\ \A i \in DOMAIN readSet[u] : readSet[u][i].word.epoch \in Nat
    <3>1. seen[u] \in SeenRecords /\ \A i \in DOMAIN readSet[u] : readSet[u][i] \in ReadElements
      BY <1>0
    <3>2. seen[u].word \in Words /\ \A i \in DOMAIN readSet[u] : readSet[u][i].word \in Words
      BY <3>1 DEF SeenRecords, ReadElements
    <3> QED
      BY <1>1, <3>2
  <2>3. \A e \in Nat : e <= CurrentEpoch(u) => e <= CurrentEpoch(u)'
    BY <1>2
  <2>4. /\ mostRecentlyChosenTid[u].epoch \in Nat /\ maxWriteTid[u].epoch \in Nat
        /\ maxReadTid[u].epoch \in Nat
    BY <1>0, <1>1
  <2> HIDE DEF CurrentEpoch
  <2> QED
    BY <2>1, <2>2, <2>3, <2>4 DEF WordEpochInv
\* The worker of the step.
<1>7. \A e \in Nat : e <= CurrentEpoch(w) => e <= CurrentEpoch(w)'
  BY <1>2
<1>8. mostRecentlyChosenTid'[w].epoch <= CurrentEpoch(w)'
  <2>1. CASE ChooseTid(w)
    <3>1. /\ mostRecentlyChosenTid'[w] = ChosenTid(w) /\ pc[w] = "validate"
          /\ ChosenTid(w) \in Words
          /\ \A e \in Nat : /\ maxWriteTid[w].epoch <= e /\ maxReadTid[w].epoch <= e
                            /\ mostRecentlyChosenTid[w].epoch <= e /\ localEpoch[w] <= e
                            => ChosenTid(w).epoch <= e
      BY <1>0, <2>1, Chooses
    <3>2. localEpoch[w] <= CurrentEpoch(w)
      BY <1>0, <3>1, EpochNumbers DEF CurrentEpoch, LoadedEpoch, Placed
    <3>3. ChosenTid(w).epoch <= CurrentEpoch(w)
      BY <1>2, <3>1, <3>2 DEF WordEpochInv
    <3> QED
      BY <1>1, <1>7, <3>1, <3>3
  <2>2. CASE ~ ChooseTid(w)
    BY <1>0, <1>1, <1>7, <2>2, StepTouches DEF WordEpochInv
  <2> QED
    BY <2>1, <2>2
<1>9. maxWriteTid'[w].epoch <= CurrentEpoch(w)'
  <2>1. CASE Begin(w)
    BY <1>0, <1>2, <2>1 DEF Begin, ZeroWord
  <2>2. CASE LockRecord(w)
    <3> DEFINE k == writeSet[w][idx[w]]
    <3>1. k \in Keys /\ ~ Placed(w)
      BY <1>0, <2>2 DEF LockRecord, Placed
    <3>2. maxWriteTid' = [maxWriteTid EXCEPT ![w] = WordMax(@, word[k])]
      BY <2>2 DEF LockRecord
    <3>3. word[k].epoch <= CurrentEpoch(w) /\ maxWriteTid[w].epoch <= CurrentEpoch(w)
      BY <1>3, <3>1 DEF WordEpochInv
    <3>4. WordMax(maxWriteTid[w], word[k]).epoch <= CurrentEpoch(w)
      BY <1>0, <1>2, <1>4, <3>1, <3>3
    <3>5. WordMax(maxWriteTid[w], word[k]).epoch \in Nat
      BY <1>0, <1>1, <3>1, WordOperations
    <3> QED
      BY <1>0, <1>7, <3>2, <3>4, <3>5
  <2>3. CASE ~ (LockRecord(w) \/ Begin(w))
    BY <1>0, <1>1, <1>7, <2>3, StepTouches DEF WordEpochInv
  <2> QED
    BY <2>1, <2>2, <2>3
<1>10. maxReadTid'[w].epoch <= CurrentEpoch(w)'
  <2>1. CASE Begin(w)
    BY <1>0, <1>2, <2>1 DEF Begin, ZeroWord
  <2>2. CASE ValidateRead(w)
    <3> DEFINE r == readSet[w][idx[w]]
    <3>1. r \in ReadElements /\ idx[w] \in DOMAIN readSet[w]
      BY <1>0, <2>2 DEF ValidateRead
    <3>2. /\ maxReadTid' = [maxReadTid EXCEPT ![w] = WordMax(@, word[r.key])]
          /\ word[r.key].epoch = r.word.epoch
      BY <2>2 DEF ValidateRead, Valid
    <3>3. word[r.key].epoch <= CurrentEpoch(w) /\ maxReadTid[w].epoch <= CurrentEpoch(w)
      BY <3>1, <3>2 DEF WordEpochInv
    <3>4. r.key \in Keys
      BY <3>1 DEF ReadElements
    <3>5. WordMax(maxReadTid[w], word[r.key]).epoch <= CurrentEpoch(w)
      BY <1>0, <1>2, <1>4, <3>3, <3>4
    <3>6. WordMax(maxReadTid[w], word[r.key]).epoch \in Nat
      BY <1>0, <1>1, <3>4, WordOperations
    <3> QED
      BY <1>0, <1>7, <3>2, <3>5, <3>6
  <2>3. CASE ~ (ValidateRead(w) \/ Begin(w))
    BY <1>0, <1>1, <1>7, <2>3, StepTouches DEF WordEpochInv
  <2> QED
    BY <2>1, <2>2, <2>3
<1>11. ASSUME pc'[w] \in {"value", "check"}
       PROVE  seen'[w].word.epoch <= CurrentEpoch(w)'
  <2>1. LoadTid(w) \/ CopyValue(w) \/ CheckTid(w)
    BY <1>0, <1>11 DEF Work, NewSteps, Begin, Stop, ReadAgain, Write, Sort, At,
       LockRecord, LoadEpoch, StoreEpoch, ValidateRead, FailValidation, UnlockRecord,
       Abort, ChooseTid, StoreValue, StoreTid, Finish
  <2>2. KeyOf(w) \in Keys /\ ~ Placed(w)
    BY <1>0, <2>1, SiloKeyOf DEF TypeOK, LoadTid, CopyValue, CheckTid, At, Placed
  <2>3. CASE LoadTid(w) \/ CheckTid(w)
    <3>1. seen'[w].word = word[KeyOf(w)]
      <4>1. CASE LoadTid(w)
        BY <1>0, <4>1 DEF LoadTid, SeenRecords
      <4>2. CASE CheckTid(w)
        <5>1. seen' = [seen EXCEPT ![w] = [Nothing EXCEPT !.word = word[KeyOf(w)]]]
          BY <1>0, <1>11, <4>2 DEF CheckTid
        <5> QED
          BY <1>0, <5>1 DEF Nothing
      <4> QED
        BY <2>3, <4>1, <4>2
    <3> QED
      BY <1>3, <1>7, <2>2, <3>1
  <2>4. CASE CopyValue(w)
    <3>1. seen'[w].word = seen[w].word /\ pc[w] = "value" /\ seen[w].word \in Words
      BY <1>0, <2>4 DEF CopyValue, SeenRecords
    <3> QED
      BY <1>1, <1>7, <3>1 DEF WordEpochInv
  <2> QED
    BY <2>1, <2>3, <2>4
<1>12. ASSUME NEW i \in DOMAIN readSet'[w]
       PROVE  readSet'[w][i].word.epoch <= CurrentEpoch(w)'
  <2>1. ASSUME NEW j \in DOMAIN readSet[w] PROVE readSet[w][j].word.epoch <= CurrentEpoch(w)'
    <3>1. readSet[w][j] \in ReadElements
      BY <1>0
    <3> QED
      BY <1>1, <1>7, <3>1 DEF WordEpochInv, ReadElements
  <2>2. CASE readSet'[w] = readSet[w]
    BY <1>12, <2>1, <2>2
  <2>3. CASE readSet'[w] = <<>>
    BY <1>12, <2>3
  <2>4. CASE readSet'[w] # readSet[w] /\ readSet'[w] # <<>>
    <3>1. CheckTid(w)
      <4>1. CASE Abort(w) \/ Finish(w)
        BY <1>0, <2>4, <4>1 DEF Abort, Finish
      <4>2. CASE ~ (Abort(w) \/ Finish(w) \/ CheckTid(w))
        BY <2>4, <4>2 DEF Work, NewSteps, Begin, Stop, ReadAgain, LoadTid, CopyValue,
           Write, Sort, LockRecord, LoadEpoch, StoreEpoch, ValidateRead, FailValidation,
           UnlockRecord, ChooseTid, StoreValue, StoreTid
      <4> QED
        BY <4>1, <4>2
    <3> DEFINE k == KeyOf(w)
               e == [key |-> k, word |-> word[k], from |-> seen[w].from]
    <3>2. readSet'[w] = Append(readSet[w], e) /\ pc[w] = "check"
      BY <1>0, <2>4, <3>1 DEF CheckTid
    <3>3. k \in Keys /\ ~ Placed(w)
      BY <1>0, <3>2, SiloKeyOf DEF TypeOK, Placed
    <3>4. e.word.epoch <= CurrentEpoch(w)'
      BY <1>3, <1>7, <3>3
    <3>5. e \in ReadElements
      BY <1>0, <3>3 DEF ReadElements, SeenRecords
    <3> HIDE DEF e
    <3>6. readSet'[w][i] = e \/ (i \in DOMAIN readSet[w] /\ readSet'[w][i] = readSet[w][i])
      BY <1>0, <1>12, <3>2, <3>5
    <3> QED
      BY <2>1, <3>4, <3>6
  <2> QED
    BY <2>2, <2>3, <2>4
<1> QED
  <2>1. \A u \in Workers :
          /\ Placed(u)' => LoadedEpoch(u)' <= globalEpoch'
          /\ mostRecentlyChosenTid'[u].epoch <= CurrentEpoch(u)'
          /\ maxWriteTid'[u].epoch <= CurrentEpoch(u)'
          /\ maxReadTid'[u].epoch <= CurrentEpoch(u)'
          /\ pc'[u] \in {"value", "check"} => seen'[u].word.epoch <= CurrentEpoch(u)'
          /\ \A i \in DOMAIN readSet'[u] : readSet'[u][i].word.epoch <= CurrentEpoch(u)'
    BY <1>2, <1>6, <1>8, <1>9, <1>10, <1>11, <1>12
  <2> QED
    BY <1>5, <2>1 DEF WordEpochInv, AtLeast1

LEMMA WordEpochStutter ==
    ASSUME WordEpochInv, UNCHANGED core
    PROVE  WordEpochInv'
BY DEF WordEpochInv, CurrentEpoch, LoadedEpoch, Placed, AtLeast1, core, shared, sets, tids

\* What has been validated is not above maxReadTid.
ReadMax ==
    \A w \in Workers : pc[w] = "validate" =>
        \A i \in DOMAIN readSet[w] : i < idx[w] =>
            ~ Precedes(maxReadTid[w], readSet[w][i].word)

LEMMA ReadMaxStep ==
    ASSUME TypeOK, ReadMax, NEW w \in Workers, Work(w)
    PROVE  ReadMax'
<1> USE DEF shared, locals, sets, tids, Goto
<1>0. /\ pc \in [Workers -> Labels] /\ word \in [Keys -> Words]
      /\ readSet \in [Workers -> Seq(ReadElements)] /\ idx \in [Workers -> Nat \ {0}]
      /\ maxReadTid \in [Workers -> Words]
  BY DEF TypeOK
<1> SUFFICES ASSUME NEW u \in Workers, pc'[u] = "validate",
                    NEW i \in DOMAIN readSet'[u], i < idx'[u]
             PROVE  ~ Precedes(maxReadTid'[u], readSet'[u][i].word)
  BY DEF ReadMax
<1>1. CASE u # w
  BY <1>1, OthersFixed DEF ReadMax
<1>2. CASE u = w
  <2>1. StoreEpoch(w) \/ ValidateRead(w)
    BY <1>0, <1>2 DEF Work, NewSteps, Begin, Stop, ReadAgain, LoadTid, CopyValue,
       CheckTid, Write, Sort, LockRecord, LoadEpoch, FailValidation, UnlockRecord, At,
       Abort, ChooseTid, StoreValue, StoreTid, Finish
  <2>2. CASE StoreEpoch(w)
    BY <1>0, <1>2, <2>2 DEF StoreEpoch
  <2>3. CASE ValidateRead(w)
    <3> DEFINE r == readSet[w][idx[w]]
    <3>1. r \in ReadElements /\ readSet' = readSet /\ idx' = [idx EXCEPT ![w] = idx[w] + 1]
          /\ pc[w] = "validate"
      BY <1>0, <2>3 DEF ValidateRead
    <3>2. /\ maxReadTid' = [maxReadTid EXCEPT ![w] = WordMax(@, word[r.key])]
          /\ word[r.key].epoch = r.word.epoch /\ word[r.key].tid = r.word.tid
      BY <2>3 DEF ValidateRead, Valid
    <3>3. r.key \in Keys /\ r.word \in Words /\ readSet[w][i].word \in Words
      <4>1. i \in DOMAIN readSet[w]
        BY <1>2, <3>1
      <4>2. readSet[w][i] \in ReadElements
        BY <1>0, <4>1
      <4> QED
        BY <3>1, <4>2 DEF ReadElements
    <3> DEFINE m == WordMax(maxReadTid[w], word[r.key])
    <3>4. m \in Words /\ ~ Precedes(m, maxReadTid[w]) /\ ~ Precedes(m, word[r.key])
          /\ maxReadTid'[w] = m
      <4>1. maxReadTid[w] \in Words /\ word[r.key] \in Words /\ maxReadTid'[w] = m
        BY <1>0, <3>2, <3>3
      <4>2. m \in Words
        BY <4>1, WordOperations
      <4>3. \A a, b \in Words : ~ Precedes(WordMax(a, b), a) /\ ~ Precedes(WordMax(a, b), b)
        BY PrecedesTotal
      <4> QED
        BY <4>1, <4>2, <4>3
    <3>5. CASE i = idx[w]
      BY <1>2, <3>1, <3>2, <3>4, <3>5 DEF Precedes
    <3>6. CASE i # idx[w]
      <4>1. i < idx[w]
        BY <1>0, <1>2, <3>1, <3>6
      <4>2. ~ Precedes(maxReadTid[w], readSet[w][i].word)
        BY <1>2, <3>1, <4>1 DEF ReadMax
      <4> HIDE DEF m
      <4>3. ~ Precedes(m, readSet[w][i].word)
        BY <1>0, <3>3, <3>4, <4>2, PrecedesTotal
      <4> QED
        BY <1>2, <3>1, <3>4, <4>3
    <3> QED
      BY <3>5, <3>6
  <2> QED
    BY <2>1, <2>2, <2>3
<1> QED
  BY <1>1, <1>2

LEMMA ReadMaxStutter ==
    ASSUME ReadMax, UNCHANGED core
    PROVE  ReadMax'
BY DEF ReadMax, core, sets, tids

-----------------------------------------------------------------------------
(* The serial order                                                        *)

\* The version the writer `from' left is older than x, by H.
Older(H, from, x) == from = NoTxn \/ \E g \in H : g.id = from /\ WordLess(g.tid, x)

\* b depends on a.
Conflict(H, a, b) ==
    \/ \E r \in b.reads : r.from = a.id
    \/ a.writes \cap b.writes # {} /\ WordLess(a.tid, b.tid)
    \/ a # b /\ \E r \in a.reads : r.key \in b.writes /\ Older(H, r.from, b.tid)

EdgesOrdered(H, pos) == \A a, b \in H : Conflict(H, a, b) => pos[a.id] < pos[b.id]

\* What a transaction that has loaded the epoch read came before it.
Sources(pos, w) ==
    \A i \in DOMAIN readSet[w] :
        readSet[w][i].from # NoTxn => pos[readSet[w][i].from] < pos[Id(w)]

\* Who has read or written what it holds came before it.
Predecessors(pos, w) ==
    \A h \in history :
        \/ h.writes \cap Range(writeSet[w]) # {}
        \/ \E r \in h.reads : r.key \in Range(writeSet[w])
        => pos[h.id] < pos[Id(w)]

\* Who has replaced or is about to replace the version r that w read comes after it.
Before(pos, w, r) ==
    /\ \A h \in history :
          r.key \in h.writes /\ Precedes(r.word, h.tid) => pos[Id(w)] < pos[h.id]
    /\ \A u \in Workers \ {w} :
          Placed(u) /\ r.key \in Range(writeSet[u]) => pos[Id(w)] < pos[Id(u)]

\* That is known of what has been validated.
Successors(pos, w) ==
    pc[w] = "validate" =>
        \A i \in DOMAIN readSet[w] : i < idx[w] => Before(pos, w, readSet[w][i])

Serial(pos, n) ==
    /\ \A x \in AllIds : pos[x] < n
    /\ EdgesOrdered(history, pos)
    /\ \A w \in Workers :
          Placed(w) => Sources(pos, w) /\ Predecessors(pos, w) /\ Successors(pos, w)

\* A transaction others can depend on.
Touches(h) == h.writes # {} \/ \E r \in h.reads : r.from # NoTxn

\* The order is that of the epochs that were loaded, and the TIDs have them.
EpochsLoaded(pos, loaded) ==
    /\ \A x \in AllIds : loaded[x] <= globalEpoch
    /\ \A x, y \in AllIds : pos[x] < pos[y] => loaded[x] <= loaded[y]
    /\ \A w \in Workers : Placed(w) => loaded[Id(w)] = LoadedEpoch(w)
    /\ \A h \in history :
          /\ h.tid.epoch <= AtLeast1(loaded[h.id])
          /\ Touches(h) => AtLeast1(loaded[h.id]) <= h.tid.epoch

SerialInv ==
    \E pos, loaded \in [AllIds -> Nat], n \in Nat : Serial(pos, n) /\ EpochsLoaded(pos, loaded)

LEMMA SerialInit == Init => SerialInv
<1> SUFFICES ASSUME Init PROVE SerialInv
  OBVIOUS
<1> DEFINE zero == [x \in AllIds |-> 0]
<1>1. zero \in [AllIds -> Nat] /\ 1 \in Nat /\ \A x \in AllIds : zero[x] = 0
  OBVIOUS
<1>2. \A w \in Workers : ~ Placed(w)
  BY DEF Init, Placed
<1> HIDE DEF zero
<1>3. Serial(zero, 1)
  BY <1>1, <1>2 DEF Init, Serial, EdgesOrdered
<1>4. EpochsLoaded(zero, zero)
  BY <1>1, <1>2 DEF Init, EpochsLoaded
<1> QED
  BY <1>1, <1>3, <1>4 DEF SerialInv

\* The transaction of a worker that has loaded the epoch is a new one.
LEMMA PlacedId ==
    ASSUME TidInv, NEW w \in Workers, Placed(w) \/ pc[w] = "lock"
    PROVE  /\ Id(w) \in AllIds /\ Id(w) # NoTxn
           /\ \A h \in history : h.id # Id(w)
<1>0. TypeOK /\ Numbers /\ number \in [Workers -> Nat]
  BY DEF TidInv, ChoiceInv, TypeOK
<1>1. number[w] # 0 /\ pc[w] \notin Past
  BY <1>0 DEF Numbers, Placed, Past
<1>2. Id(w) \in AllIds
  BY <1>0, <1>1, IdInAll
<1>3. Id(w) # NoTxn
  BY <1>0, SiloAssumption DEF Id
<1>4. ASSUME NEW h \in history PROVE h.id # Id(w)
  <2>1. CommitInv(h)
    BY DEF TidInv, ChoiceInv, HistoryInv
  <2> QED
    BY <1>0, <1>1, <2>1 DEF CommitInv, Id
<1> QED
  BY <1>2, <1>3, <1>4

\* Nobody has replaced the version r, and nobody but w can.
Settled(w, r) ==
    /\ \A h \in history : r.key \in h.writes => ~ Precedes(r.word, h.tid)
    /\ \A u \in Workers \ {w} : Placed(u) => r.key \notin Range(writeSet[u])

\* What validation accepts is settled.
LEMMA ValidRead ==
    ASSUME RecordsInv, NEW w \in Workers, pc[w] = "validate",
           NEW i \in DOMAIN readSet[w], Valid(w, readSet[w][i])
    PROVE  Settled(w, readSet[w][i])
<1> USE DEF RecordsInv, TidInv
<1> DEFINE k == readSet[w][i].key
           x == readSet[w][i].word
<1>0. /\ word \in [Keys -> Words] /\ LockInv
      /\ \A h \in history : h.tid \in Words
  BY DEF TypeOK, ChoiceInv, HistoryInv, CommitInv
<1>1. k \in Keys /\ x \in Words /\ x.lock = 0
  <2>1. readSet[w][i] \in ReadElements /\ x.lock = 0
    BY DEF TypeOK
  <2> QED
    BY <2>1 DEF ReadElements
<1>2. /\ x.tid = word[k].tid /\ x.epoch = word[k].epoch
      /\ word[k].lock = 1 => k \in Range(writeSet[w])
  BY DEF Valid, InWriteSet
<1> HIDE DEF k, x
<1>3. ASSUME NEW u \in Workers \ {w}, NEW j \in HeldPositions(u)
      PROVE  writeSet[u][j] # k
  <2>1. CASE word[k].lock = 1
    BY <1>2, <2>1, PlacedHolds DEF Placed
  <2>2. CASE word[k].lock # 1
    BY <1>0, <1>1, <2>2 DEF LockInv, LockBitOwned
  <2> QED
    BY <2>1, <2>2
<1>4. ASSUME NEW u \in Workers \ {w}, Placed(u)
      PROVE  k \notin Range(writeSet[u])
  BY <1>3, <1>4, PlacedHolds
<1>5. ASSUME NEW h \in history, k \in h.writes
      PROVE  ~ Precedes(x, h.tid)
  <2>1. ~ StillHeld(h, k)
    BY <1>3 DEF StillHeld, Installing
  <2>2. ~ Precedes(word[k], h.tid)
    BY <1>5, <2>1 DEF VersionsInv
  <2> QED
    BY <1>2, <2>2 DEF Precedes
<1> QED
  BY <1>4, <1>5 DEF Settled, k, x

\* A step that commits nothing and gives no worker a place keeps the order.
LEMMA SerialFrame ==
    ASSUME NEW pos, NEW loaded, NEW n, Serial(pos, n), EpochsLoaded(pos, loaded),
           \A x \in AllIds : loaded[x] \in Nat,
           globalEpoch \in Nat, globalEpoch' \in Nat, globalEpoch <= globalEpoch',
           history' = history,
           \A u \in Workers : Placed(u)' =>
              /\ Placed(u) /\ LoadedEpoch(u)' = LoadedEpoch(u)
              /\ number'[u] = number[u] /\ readSet'[u] = readSet[u]
              /\ writeSet'[u] = writeSet[u],
           \A u \in Workers : pc'[u] = "validate" =>
              \A i \in DOMAIN readSet'[u] : i < idx'[u] =>
                  \/ pc[u] = "validate" /\ i < idx[u]
                  \/ Settled(u, readSet[u][i])
    PROVE  Serial(pos, n)' /\ EpochsLoaded(pos, loaded)'
<1>1. \A u \in Workers : Placed(u)' => Id(u)' = Id(u)
  BY DEF Id
<1>2. ASSUME NEW u \in Workers, Placed(u)'
      PROVE  Sources(pos, u)' /\ Predecessors(pos, u)' /\ Successors(pos, u)'
  <2>0. Sources(pos, u) /\ Predecessors(pos, u) /\ Successors(pos, u) /\ Placed(u)
    BY <1>2 DEF Serial
  <2>1. /\ readSet'[u] = readSet[u] /\ writeSet'[u] = writeSet[u] /\ Id(u)' = Id(u)
    BY <1>1, <1>2
  <2>2. Sources(pos, u)'
    BY <2>0, <2>1 DEF Sources
  <2>3. Predecessors(pos, u)'
    BY <2>0, <2>1 DEF Predecessors
  <2>4. ASSUME NEW r, Before(pos, u, r) \/ Settled(u, r) PROVE Before(pos, u, r)'
    <3>1. Before(pos, u, r)
      BY <2>4 DEF Before, Settled
    <3> QED
      BY <1>1, <2>1, <3>1 DEF Before
  <2>5. Successors(pos, u)'
    BY <2>0, <2>1, <2>4 DEF Successors
  <2> QED
    BY <2>2, <2>3, <2>5
<1>3. Serial(pos, n)'
  BY <1>2 DEF Serial
<1>4. \A x \in AllIds : loaded[x] <= globalEpoch'
  BY DEF EpochsLoaded
<1>5. \A u \in Workers : Placed(u)' => loaded[Id(u)'] = LoadedEpoch(u)'
  BY <1>1 DEF EpochsLoaded
<1>6. EpochsLoaded(pos, loaded)'
  BY <1>4, <1>5 DEF EpochsLoaded
<1> QED
  BY <1>3, <1>6

\* A transaction that loads the epoch is the last so far.
LEMMA SerialLoadEpoch ==
    ASSUME RecordsInv, WordEpochInv, NEW w \in Workers, LoadEpoch(w),
           NEW pos \in [AllIds -> Nat], NEW loaded \in [AllIds -> Nat], NEW n \in Nat,
           Serial(pos, n), EpochsLoaded(pos, loaded), NEW me, me = Id(w),
           NEW e, e = globalEpoch
    PROVE  /\ Serial([pos EXCEPT ![me] = n], n + 1)'
           /\ EpochsLoaded([pos EXCEPT ![me] = n], [loaded EXCEPT ![me] = e])'
<1> USE DEF shared, locals, sets, tids, Goto
<1>0. /\ pc \in [Workers -> Labels] /\ TypeOK /\ TidInv
      /\ readSet \in [Workers -> Seq(ReadElements)]
  BY DEF RecordsInv, TidInv, TypeOK
<1>1. me = Id(w) /\ e = globalEpoch
  OBVIOUS
<1> DEFINE newPos == [pos EXCEPT ![me] = n]
           newLoaded == [loaded EXCEPT ![me] = e]
<1>2. /\ history' = history /\ readSet' = readSet /\ writeSet' = writeSet
      /\ number' = number /\ globalEpoch' = globalEpoch
      /\ pc[w] = "lock" /\ pc'[w] = "epoch" /\ \A u \in Workers \ {w} : pc'[u] = pc[u]
      /\ \A u \in Workers \ {w} : idx'[u] = idx[u]
  BY <1>0 DEF LoadEpoch
<1>3. me \in AllIds /\ me # NoTxn /\ \A h \in history : h.id # me /\ h.id \in AllIds
  BY <1>0, <1>1, <1>2, PlacedId DEF TidInv, ChoiceInv, HistoryInv, CommitInv
<1>4. /\ newPos[me] = n /\ newLoaded[me] = globalEpoch
      /\ \A x \in AllIds \ {me} : newPos[x] = pos[x] /\ newLoaded[x] = loaded[x]
      /\ \A x \in AllIds : pos[x] < n /\ pos[x] \in Nat /\ loaded[x] \in Nat
  BY <1>3 DEF Serial
<1> HIDE DEF newPos, newLoaded
<1>5. globalEpoch \in Nat
  BY <1>0, EpochNumbers
<1>6. /\ \A u \in Workers : Id(u)' = Id(u)
      /\ \A u \in Workers \ {w} : Placed(u) => Id(u) \in AllIds \ {me}
  <2>1. ASSUME NEW u \in Workers \ {w}, Placed(u) PROVE Id(u) \in AllIds \ {me}
    BY <1>0, <1>1, <2>1, PlacedId DEF Id
  <2> QED
    BY <1>2, <2>1 DEF Id
<1>7. ASSUME NEW u \in Workers, NEW i \in DOMAIN readSet[u], readSet[u][i].from # NoTxn
      PROVE  readSet[u][i].from \in AllIds \ {me}
  <2>1. Agrees(history, readSet[u][i].key, readSet[u][i].from, readSet[u][i].word)
    BY DEF RecordsInv, ReadInv
  <2> QED
    BY <1>3, <1>7, <2>1 DEF Agrees
<1>8. EdgesOrdered(history, newPos)
  BY <1>3, <1>4 DEF Serial, EdgesOrdered
<1>9. Placed(w)' /\ Id(w)' = me /\ LoadedEpoch(w)' = globalEpoch
  <2>1. LoadedEpoch(w)' = globalEpoch
    <3>1. Placed(w)' /\ ~ Placed(w)
      BY <1>2 DEF Placed
    <3> QED
      BY <1>0, <3>1, EpochsGrow DEF Work
  <2> QED
    BY <1>1, <1>2, <1>6, <2>1 DEF Placed
<1>10. ASSUME NEW u \in Workers \ {w}, Placed(u)'
       PROVE  Placed(u) /\ LoadedEpoch(u)' = LoadedEpoch(u)
  BY <1>0, <1>10, EpochsGrow DEF Work
<1>11. Sources(newPos, w)' /\ Predecessors(newPos, w)' /\ Successors(newPos, w)'
  <2>1. Sources(newPos, w)'
    BY <1>2, <1>4, <1>7, <1>9 DEF Sources
  <2>2. Predecessors(newPos, w)'
    BY <1>2, <1>3, <1>4, <1>9 DEF Predecessors
  <2>3. Successors(newPos, w)'
    BY <1>2 DEF Successors
  <2> QED
    BY <2>1, <2>2, <2>3
<1>12. ASSUME NEW u \in Workers \ {w}, Placed(u)'
       PROVE  Sources(newPos, u)' /\ Predecessors(newPos, u)' /\ Successors(newPos, u)'
  <2>0. /\ Sources(pos, u) /\ Predecessors(pos, u) /\ Successors(pos, u) /\ Placed(u)
        /\ Id(u) \in AllIds \ {me} /\ Id(u)' = Id(u) /\ newPos[Id(u)] = pos[Id(u)]
        /\ pos[Id(u)] < n
    BY <1>4, <1>6, <1>10, <1>12 DEF Serial
  <2>1. Sources(newPos, u)'
    BY <1>2, <1>4, <1>7, <2>0 DEF Sources
  <2>2. Predecessors(newPos, u)'
    BY <1>2, <1>3, <1>4, <2>0 DEF Predecessors
  <2>3. ASSUME NEW r, Before(pos, u, r) PROVE Before(newPos, u, r)'
    <3>1. \A h \in history :
             r.key \in h.writes /\ Precedes(r.word, h.tid) => newPos[Id(u)] < newPos[h.id]
      BY <1>3, <1>4, <2>0, <2>3 DEF Before
    <3>2. ASSUME NEW v \in Workers \ {u}, Placed(v)', r.key \in Range(writeSet[v])
          PROVE  newPos[Id(u)] < newPos[Id(v)]
      <4>1. CASE v = w
        BY <1>1, <1>4, <2>0, <4>1
      <4>2. CASE v # w
        <5>1. Placed(v) /\ newPos[Id(v)] = pos[Id(v)]
          BY <1>4, <1>6, <1>10, <3>2, <4>2
        <5> QED
          BY <2>0, <2>3, <3>2, <5>1 DEF Before
      <4> QED
        BY <4>1, <4>2
    <3> QED
      BY <1>2, <1>6, <3>1, <3>2 DEF Before
  <2>4. Successors(newPos, u)'
    BY <1>2, <2>0, <2>3 DEF Successors
  <2> QED
    BY <2>1, <2>2, <2>4
<1>13. Serial(newPos, n + 1)'
  <2>1. \A x \in AllIds : newPos[x] < n + 1
    BY <1>4
  <2> QED
    BY <1>2, <1>8, <1>11, <1>12, <2>1 DEF Serial
<1>14. EpochsLoaded(newPos, newLoaded)'
  <2>1. \A x \in AllIds : newLoaded[x] <= globalEpoch /\ loaded[x] <= globalEpoch
    BY <1>4, <1>5 DEF EpochsLoaded
  <2>2. \A x, y \in AllIds : newPos[x] < newPos[y] => newLoaded[x] <= newLoaded[y]
    BY <1>4, <1>5, <2>1 DEF EpochsLoaded
  <2>3. \A u \in Workers : Placed(u)' => newLoaded[Id(u)'] = LoadedEpoch(u)'
    BY <1>4, <1>6, <1>9, <1>10 DEF EpochsLoaded
  <2>4. \A h \in history' :
           /\ h.tid.epoch <= AtLeast1(newLoaded[h.id])
           /\ Touches(h) => AtLeast1(newLoaded[h.id]) <= h.tid.epoch
    <3>1. \A h \in history' : newLoaded[h.id] = loaded[h.id]
      BY <1>2, <1>3, <1>4
    <3> QED
      BY <1>2, <3>1 DEF EpochsLoaded
  <2>5. \A x \in AllIds : newLoaded[x] <= globalEpoch'
    BY <1>2, <2>1
  <2> QED
    BY <2>2, <2>3, <2>4, <2>5 DEF EpochsLoaded
<1> QED
  BY <1>13, <1>14 DEF newPos, newLoaded

\* The TID has the epoch that was loaded, which is 0 for what touched nothing.
LEMMA ChosenEpoch ==
    ASSUME RecordsInv, RecordsInv', WordEpochInv, ReadMax, NEW w \in Workers, ChooseTid(w),
           NEW pos, NEW loaded \in [AllIds -> Nat], EpochsLoaded(pos, loaded)
    PROVE  /\ ChosenTid(w).epoch <= AtLeast1(localEpoch[w])
           /\ \/ Range(writeSet[w]) # {}
              \/ \E i \in DOMAIN readSet[w] : readSet[w][i].from # NoTxn
              => AtLeast1(localEpoch[w]) <= ChosenTid(w).epoch
<1> USE DEF RecordsInv, TidInv
<1>0. /\ TypeOK /\ ChoiceInv /\ word \in [Keys -> Words] /\ maxReadTid \in [Workers -> Words]
      /\ readSet \in [Workers -> Seq(ReadElements)] /\ idx \in [Workers -> Nat \ {0}]
      /\ localEpoch[w] \in Nat /\ CurrentEpoch(w) \in Nat
      /\ \A x \in Words : x.epoch \in Nat
      /\ \A h \in history : h.id \in AllIds /\ h.tid \in Words
  BY EpochNumbers DEF TypeOK, ChoiceInv, HistoryInv, CommitInv
<1>1. /\ ChosenTid(w) \in Words /\ pc[w] = "validate" /\ idx[w] > Len(readSet[w])
      /\ Precedes(maxReadTid[w], ChosenTid(w)) /\ localEpoch[w] <= ChosenTid(w).epoch
      /\ \A e \in Nat : /\ maxWriteTid[w].epoch <= e /\ maxReadTid[w].epoch <= e
                        /\ mostRecentlyChosenTid[w].epoch <= e /\ localEpoch[w] <= e
                        => ChosenTid(w).epoch <= e
  BY <1>0, Chooses
<1>2. CurrentEpoch(w) = AtLeast1(localEpoch[w]) /\ localEpoch[w] <= AtLeast1(localEpoch[w])
  BY <1>0, <1>1, EpochNumbers DEF CurrentEpoch, LoadedEpoch, Placed
<1>3. ChosenTid(w).epoch <= AtLeast1(localEpoch[w])
  BY <1>0, <1>1, <1>2 DEF WordEpochInv
<1>4. ASSUME 1 <= ChosenTid(w).epoch PROVE AtLeast1(localEpoch[w]) <= ChosenTid(w).epoch
  BY <1>1, <1>4 DEF AtLeast1
<1>5. ASSUME NEW k \in Range(writeSet[w]) PROVE 1 <= ChosenTid(w).epoch
  <2>1. Precedes(word[k], ChosenTid(w)) /\ k \in Keys
    BY <1>1, NewVersion, PlacedHolds DEF Placed
  <2>2. 1 <= word[k].epoch /\ word[k].epoch <= ChosenTid(w).epoch
    BY <1>0, <1>1, <2>1, PrecedesTotal DEF WordEpochInv
  <2> QED
    BY <1>0, <1>1, <2>1, <2>2
<1>6. ASSUME NEW i \in DOMAIN readSet[w], readSet[w][i].from # NoTxn
      PROVE  1 <= ChosenTid(w).epoch
  <2> DEFINE r == readSet[w][i]
  <2>1. r \in ReadElements /\ i < idx[w]
    BY <1>0, <1>1
  <2>2. r.word \in Words
    BY <2>1 DEF ReadElements
  <2>3. Precedes(r.word, ChosenTid(w))
    <3>1. ~ Precedes(maxReadTid[w], r.word)
      BY <1>1, <2>1 DEF ReadMax
    <3> HIDE DEF r
    <3> QED
      BY <1>0, <1>1, <2>2, <3>1, PrecedesTotal
  <2>4. PICK h \in history : r.key \in h.writes /\ h.tid = r.word
    <3>1. Agrees(history, r.key, r.from, r.word)
      BY DEF ReadInv
    <3> QED
      BY <1>6, <3>1 DEF Agrees
  <2>5. 1 <= h.tid.epoch
    <3>1. AtLeast1(loaded[h.id]) <= h.tid.epoch
      BY <2>4 DEF EpochsLoaded, Touches
    <3>2. loaded[h.id] \in Nat
      BY <1>0
    <3> QED
      BY <1>0, <3>1, <3>2 DEF AtLeast1
  <2>6. h.tid.epoch <= ChosenTid(w).epoch
    BY <1>0, <1>1, <2>3, <2>4, PrecedesTotal
  <2> QED
    BY <1>0, <1>1, <2>5, <2>6
<1> QED
  BY <1>3, <1>4, <1>5, <1>6

\* A transaction that commits keeps its place.
LEMMA SerialChoose ==
    ASSUME RecordsInv, RecordsInv', WordEpochInv, ReadMax, NEW w \in Workers, ChooseTid(w),
           NEW pos \in [AllIds -> Nat], NEW loaded \in [AllIds -> Nat], NEW n \in Nat,
           Serial(pos, n), EpochsLoaded(pos, loaded)
    PROVE  Serial(pos, n)' /\ EpochsLoaded(pos, loaded)'
<1> USE DEF shared, locals, sets, tids, Goto
<1>0. /\ TypeOK /\ ChoiceInv /\ TidInv /\ VersionsInv
      /\ pc \in [Workers -> Labels] /\ idx \in [Workers -> Nat \ {0}]
      /\ readSet \in [Workers -> Seq(ReadElements)]
      /\ \A h \in history : h.id \in AllIds /\ h.tid \in Words /\ h.tid.lock = 0
      /\ \A g, h \in history : g.id = h.id => g = h
      /\ NoTxn \notin AllIds
  <2>1. NoTxn \notin AllIds
    BY SiloAssumption DEF AllIds
  <2> QED
    BY <2>1 DEF RecordsInv, TidInv, TypeOK, ChoiceInv, HistoryInv, CommitInv
<1>1. PICK c : /\ history' = history \cup {c}
               /\ c.id = Id(w) /\ c.tid = ChosenTid(w) /\ c.writes = Range(writeSet[w])
               /\ c.reads = {[key |-> r.key, from |-> r.from] : r \in Range(readSet[w])}
  BY <1>0, Chooses
<1>2. /\ pc[w] = "validate" /\ pc'[w] = "install" /\ idx[w] > Len(readSet[w])
      /\ UNCHANGED <<readSet, writeSet, number, globalEpoch, localEpoch, seen>>
      /\ \A u \in Workers \ {w} : pc'[u] = pc[u] /\ idx'[u] = idx[u]
      /\ c.tid \in Words /\ c.tid.lock = 0
  <2>1. /\ pc[w] = "validate" /\ pc'[w] = "install" /\ idx[w] > Len(readSet[w])
        /\ UNCHANGED <<readSet, writeSet, number, globalEpoch, localEpoch, seen>>
    BY <1>0, Chooses DEF ChooseTid
  <2>2. \A u \in Workers \ {w} : pc'[u] = pc[u] /\ idx'[u] = idx[u]
    BY <1>0 DEF ChooseTid
  <2>3. c.tid \in Words /\ c.tid.lock = 0
    BY <1>0, <1>1, Chooses
  <2> QED
    BY <2>1, <2>2, <2>3
<1>3. Placed(w) /\ ~ Placed(w)' /\ \A u \in Workers \ {w} : Placed(u)' <=> Placed(u)
  BY <1>2 DEF Placed
<1>4. /\ c.id \in AllIds /\ c.id # NoTxn /\ \A h \in history : h.id # c.id
  BY <1>0, <1>1, <1>3, PlacedId
<1>5. /\ Sources(pos, w) /\ Predecessors(pos, w) /\ Successors(pos, w)
      /\ EdgesOrdered(history, pos)
  BY <1>3 DEF Serial
\* What it read.
<1>6. ASSUME NEW r \in c.reads
      PROVE  \E i \in DOMAIN readSet[w] : r.key = readSet[w][i].key /\ r.from = readSet[w][i].from
  <2>1. PICK q \in Range(readSet[w]) : r = [key |-> q.key, from |-> q.from]
    BY <1>1, <1>6
  <2> QED
    BY <2>1 DEF Range
<1>7. ASSUME NEW i \in DOMAIN readSet[w]
      PROVE  /\ Agrees(history, readSet[w][i].key, readSet[w][i].from, readSet[w][i].word)
             /\ Before(pos, w, readSet[w][i]) /\ readSet[w][i].word \in Words
             /\ readSet[w][i].word.lock = 0
  <2>1. readSet[w][i] \in ReadElements /\ i < idx[w]
    BY <1>0, <1>2
  <2>2. readSet[w][i].word.lock = 0
    BY <1>0 DEF TypeOK
  <2> QED
    BY <1>2, <1>5, <2>1, <2>2 DEF RecordsInv, ReadInv, Successors, ReadElements
<1>8. ASSUME NEW r \in c.reads
      PROVE  /\ r.from = NoTxn \/ \E g \in history : g.id = r.from
             /\ r.from # NoTxn => pos[r.from] < pos[c.id]
             /\ \A h \in history : r.key \in h.writes /\ Older(history, r.from, h.tid)
                   => pos[c.id] < pos[h.id]
             /\ \A u \in Workers \ {w} :
                   Placed(u) /\ r.key \in Range(writeSet[u]) => pos[c.id] < pos[Id(u)]
  <2>1. PICK i \in DOMAIN readSet[w] : r.key = readSet[w][i].key /\ r.from = readSet[w][i].from
    BY <1>6
  <2> DEFINE q == readSet[w][i]
  <2>2. /\ Agrees(history, q.key, q.from, q.word) /\ Before(pos, w, q)
        /\ q.word \in Words /\ q.word.lock = 0 /\ r.key = q.key /\ r.from = q.from
    BY <1>7, <2>1
  <2>3. r.from # NoTxn => pos[r.from] < pos[c.id]
    BY <1>1, <1>5, <2>1 DEF Sources
  <2> HIDE DEF q
  <2>4. r.from = NoTxn \/ \E g \in history : g.id = r.from
    BY <2>2 DEF Agrees
  <2>5. ASSUME NEW h \in history, r.key \in h.writes, Older(history, r.from, h.tid)
        PROVE  pos[c.id] < pos[h.id]
    <3>1. Precedes(q.word, h.tid)
      <4>1. CASE r.from = NoTxn
        BY <2>2, <2>5, <4>1 DEF Agrees
      <4>2. CASE r.from # NoTxn
        <5>1. PICK g \in history : g.id = r.from /\ WordLess(g.tid, h.tid)
          BY <2>5, <4>2 DEF Older
        <5>2. g.tid = q.word
          BY <1>0, <2>2, <4>2, <5>1 DEF Agrees
        <5> QED
          BY <1>0, <2>2, <5>1, <5>2, PrecedesOrder
      <4> QED
        BY <4>1, <4>2
    <3> QED
      BY <1>1, <2>2, <2>5, <3>1 DEF Before
  <2>6. \A u \in Workers \ {w} :
            Placed(u) /\ r.key \in Range(writeSet[u]) => pos[c.id] < pos[Id(u)]
    BY <1>1, <2>2 DEF Before
  <2> QED
    BY <2>3, <2>4, <2>5, <2>6
\* Nobody depends on it yet but by what it read.
<1>9. ASSUME NEW h \in history
      PROVE  /\ \A r \in h.reads : r.from = NoTxn \/ \E g \in history : g.id = r.from
             /\ h.writes \cap c.writes # {} => pos[h.id] < pos[c.id] /\ ~ WordLess(c.tid, h.tid)
             /\ \A r \in h.reads : r.key \in c.writes => pos[h.id] < pos[c.id]
  <2>1. \A r \in h.reads : r.from = NoTxn \/ \E g \in history : g.id = r.from
    BY DEF RecordsInv, ReadInv, Committed
  <2>2. ASSUME h.writes \cap c.writes # {} PROVE ~ WordLess(c.tid, h.tid)
    <3>1. Precedes(h.tid, c.tid)
      BY <1>1, <2>2, NewVersion DEF RecordsInv
    <3> QED
      BY <1>0, <1>2, <3>1, PrecedesOrder
  <2> QED
    BY <1>1, <1>5, <2>1, <2>2 DEF Predecessors
<1>10. ASSUME NEW a \in history', NEW b \in history', Conflict(history', a, b)
       PROVE  pos[a.id] < pos[b.id]
  <2>1. a \in {c} \cup history /\ b \in {c} \cup history
    BY <1>1
  <2>2. \A g \in history' : \A r \in g.reads : r.from = NoTxn \/ \E h \in history : h.id = r.from
    BY <1>1, <1>8, <1>9
  <2>3. ASSUME NEW r \in b.reads, r.from = a.id PROVE pos[a.id] < pos[b.id]
    <3>1. a \in history
      BY <1>4, <2>1, <2>2, <2>3
    <3>2. CASE b = c
      BY <1>0, <1>8, <2>3, <3>1, <3>2
    <3>3. CASE b \in history
      BY <1>5, <2>3, <3>1, <3>3 DEF EdgesOrdered, Conflict
    <3> QED
      BY <2>1, <3>2, <3>3
  <2>4. ASSUME a.writes \cap b.writes # {}, WordLess(a.tid, b.tid) PROVE pos[a.id] < pos[b.id]
    <3>1. CASE a \in history /\ b \in history
      BY <1>5, <2>4, <3>1 DEF EdgesOrdered, Conflict
    <3>2. CASE a \in history /\ b = c
      BY <1>9, <2>4, <3>2
    <3>3. CASE a = c /\ b \in history
      BY <1>9, <2>4, <3>3
    <3>4. CASE a = c /\ b = c
      BY <1>2, <2>4, <3>4, WordOrder
    <3> QED
      BY <2>1, <3>1, <3>2, <3>3, <3>4
  <2>5. ASSUME a # b, NEW r \in a.reads, r.key \in b.writes, Older(history', r.from, b.tid)
        PROVE  pos[a.id] < pos[b.id]
    <3>1. Older(history, r.from, b.tid)
      BY <1>1, <1>4, <2>2, <2>5 DEF Older
    <3>2. CASE a \in history /\ b \in history
      BY <1>5, <2>5, <3>1, <3>2 DEF EdgesOrdered, Conflict
    <3>3. CASE a \in history /\ b = c
      BY <1>9, <2>5, <3>3
    <3>4. CASE a = c /\ b \in history
      BY <1>8, <2>5, <3>1, <3>4
    <3> QED
      BY <2>1, <2>5, <3>2, <3>3, <3>4
  <2> QED
    BY <1>10, <2>3, <2>4, <2>5 DEF Conflict
\* The others that have loaded the epoch.
<1>11. ASSUME NEW u \in Workers, Placed(u)'
       PROVE  Sources(pos, u)' /\ Predecessors(pos, u)' /\ Successors(pos, u)'
  <2>1. u # w /\ Placed(u) /\ Id(u)' = Id(u) /\ pc'[u] = pc[u] /\ idx'[u] = idx[u]
    BY <1>2, <1>3, <1>11 DEF Id
  <2>2. Sources(pos, u) /\ Predecessors(pos, u) /\ Successors(pos, u)
    BY <2>1 DEF Serial
  <2>3. Sources(pos, u)'
    BY <1>2, <2>1, <2>2 DEF Sources
  <2>4. c.writes \cap Range(writeSet[u]) = {}
    <3> SUFFICES ASSUME NEW k \in Range(writeSet[w]), k \in Range(writeSet[u]) PROVE FALSE
      BY <1>1
    <3>0. TidInv /\ Placed(w) /\ Placed(u) /\ u \in Workers \ {w}
      BY <1>0, <1>3, <2>1
    <3>1. \A v \in Workers \ {w} : \A j \in HeldPositions(v) : writeSet[v][j] # k
      BY <3>0, PlacedHolds
    <3>2. \E j \in HeldPositions(u) : writeSet[u][j] = k
      BY <3>0, PlacedHolds
    <3> QED
      BY <3>0, <3>1, <3>2
  <2>5. Predecessors(pos, u)'
    BY <1>1, <1>2, <1>8, <2>1, <2>2, <2>4 DEF Predecessors
  <2>6. ASSUME NEW r, Before(pos, u, r) PROVE Before(pos, u, r)'
    <3>1. r.key \in c.writes => pos[Id(u)] < pos[c.id]
      BY <1>1, <1>3, <2>1, <2>6 DEF Before
    <3>2. \A h \in history' : r.key \in h.writes /\ Precedes(r.word, h.tid) => pos[Id(u)] < pos[h.id]
      BY <1>1, <2>6, <3>1 DEF Before
    <3>3. \A v \in Workers : Placed(v)' => Placed(v) /\ Id(v)' = Id(v)
      BY <1>2, <1>3 DEF Id
    <3> QED
      BY <1>2, <2>1, <2>6, <3>2, <3>3 DEF Before
  <2>7. Successors(pos, u)'
    BY <1>2, <2>1, <2>2, <2>6 DEF Successors
  <2> QED
    BY <2>3, <2>5, <2>7
<1>12. Serial(pos, n)'
  <2>1. EdgesOrdered(history', pos)
    BY <1>10 DEF EdgesOrdered
  <2> QED
    BY <1>11, <2>1 DEF Serial
\* The epochs.
<1>13. loaded[c.id] = localEpoch[w]
  BY <1>1, <1>2, <1>3 DEF EpochsLoaded, LoadedEpoch
<1>14. /\ c.tid.epoch <= AtLeast1(loaded[c.id])
       /\ Touches(c) => AtLeast1(loaded[c.id]) <= c.tid.epoch
  <2>1. ASSUME Touches(c)
        PROVE  Range(writeSet[w]) # {} \/ \E i \in DOMAIN readSet[w] : readSet[w][i].from # NoTxn
    BY <1>1, <1>6, <2>1 DEF Touches
  <2> QED
    BY <1>1, <1>13, <2>1, ChosenEpoch
<1>15. \A u \in Workers : Placed(u)' => Placed(u) /\ Id(u)' = Id(u) /\ LoadedEpoch(u)' = LoadedEpoch(u)
  BY <1>2, <1>3 DEF Id, LoadedEpoch
<1>16. \A h \in history' : /\ h.tid.epoch <= AtLeast1(loaded[h.id])
                           /\ Touches(h) => AtLeast1(loaded[h.id]) <= h.tid.epoch
  BY <1>1, <1>14 DEF EpochsLoaded
<1>17. EpochsLoaded(pos, loaded)'
  BY <1>2, <1>15, <1>16 DEF EpochsLoaded
<1> QED
  BY <1>12, <1>17

\* What a step does to a worker that has loaded the epoch before.
LEMMA PlacedKept ==
    ASSUME RecordsInv, NEW w \in Workers, Work(w), ~ LoadEpoch(w), NEW u \in Workers, Placed(u)'
    PROVE  /\ Placed(u) /\ number'[u] = number[u]
           /\ readSet'[u] = readSet[u] /\ writeSet'[u] = writeSet[u]
<1> USE DEF shared, locals, sets, tids, Goto
<1>0. TypeOK /\ pc \in [Workers -> Labels]
  BY DEF RecordsInv, TidInv, TypeOK
<1>1. CASE u # w
  BY <1>0, <1>1, OthersFixed DEF Placed
<1>2. CASE u = w
  <2>1. StoreEpoch(w) \/ ValidateRead(w)
    BY <1>0, <1>2 DEF Placed, Work, NewSteps, Begin, Stop, ReadAgain, LoadTid, CopyValue,
       CheckTid, Write, Sort, LockRecord, FailValidation, UnlockRecord, At,
       Abort, ChooseTid, StoreValue, StoreTid, Finish
  <2> QED
    BY <1>2, <2>1 DEF StoreEpoch, ValidateRead, Placed
<1> QED
  BY <1>1, <1>2

\* What a step validates is settled.
LEMMA ValidatedSettled ==
    ASSUME RecordsInv, NEW w \in Workers, Work(w), NEW u \in Workers, pc'[u] = "validate",
           NEW i \in DOMAIN readSet'[u], i < idx'[u]
    PROVE  (pc[u] = "validate" /\ i < idx[u]) \/ Settled(u, readSet[u][i])
<1> USE DEF shared, locals, sets, tids, Goto
<1>0. /\ TypeOK /\ pc \in [Workers -> Labels] /\ idx \in [Workers -> Nat \ {0}]
      /\ readSet \in [Workers -> Seq(ReadElements)]
  BY DEF RecordsInv, TidInv, TypeOK
<1>1. CASE u # w
  BY <1>0, <1>1, OthersFixed
<1>2. CASE u = w
  <2>1. StoreEpoch(w) \/ ValidateRead(w)
    BY <1>0, <1>2 DEF Work, NewSteps, Begin, Stop, ReadAgain, LoadTid, CopyValue,
       CheckTid, Write, Sort, LockRecord, LoadEpoch, FailValidation, UnlockRecord, At,
       Abort, ChooseTid, StoreValue, StoreTid, Finish
  <2>2. CASE StoreEpoch(w)
    <3>1. readSet' = readSet /\ idx'[w] = 1
      BY <1>0, <2>2 DEF StoreEpoch
    <3> QED
      BY <1>0, <1>2, <3>1
  <2>3. CASE ValidateRead(w)
    <3>1. /\ pc[w] = "validate" /\ readSet' = readSet /\ idx'[w] = idx[w] + 1
          /\ Valid(w, readSet[w][idx[w]])
      BY <1>0, <2>3 DEF ValidateRead
    <3>2. CASE i = idx[w]
      BY <1>2, <3>1, <3>2, ValidRead
    <3>3. CASE i # idx[w]
      <4>1. i \in DOMAIN readSet[w]
        BY <1>2, <3>1
      <4> QED
        BY <1>0, <1>2, <3>1, <3>3, <4>1
    <3> QED
      BY <3>2, <3>3
  <2> QED
    BY <2>1, <2>2, <2>3
<1> QED
  BY <1>1, <1>2

OrderInv == RecordsInv /\ WordEpochInv /\ ReadMax /\ SerialInv

LEMMA SerialStep ==
    ASSUME RecordsInv, RecordsInv', WordEpochInv, ReadMax, SerialInv,
           NEW w \in Workers, Work(w)
    PROVE  SerialInv'
<1>0. TypeOK /\ globalEpoch \in Nat
  <2>1. TypeOK
    BY DEF RecordsInv, TidInv
  <2> QED
    BY <2>1, EpochNumbers
<1>1. PICK pos, loaded \in [AllIds -> Nat], n \in Nat : Serial(pos, n) /\ EpochsLoaded(pos, loaded)
  BY DEF SerialInv
<1>2. CASE LoadEpoch(w)
  <2>1. PICK me, e : me = Id(w) /\ e = globalEpoch
    OBVIOUS
  <2> DEFINE newPos == [pos EXCEPT ![me] = n]
             newLoaded == [loaded EXCEPT ![me] = e]
  <2>2. Serial(newPos, n + 1)' /\ EpochsLoaded(newPos, newLoaded)'
    BY <1>1, <1>2, <2>1, SerialLoadEpoch
  <2>3. newPos \in [AllIds -> Nat]
    OBVIOUS
  <2>4. newLoaded \in [AllIds -> Nat]
    BY <1>0, <2>1
  <2>5. n + 1 \in Nat
    OBVIOUS
  <2> HIDE DEF newPos, newLoaded
  <2> QED
    BY <2>2, <2>3, <2>4, <2>5 DEF SerialInv
<1>3. CASE ChooseTid(w)
  <2>1. Serial(pos, n)' /\ EpochsLoaded(pos, loaded)'
    BY <1>1, <1>3, SerialChoose
  <2> QED
    BY <2>1 DEF SerialInv
<1>4. CASE ~ LoadEpoch(w) /\ ~ ChooseTid(w)
  <2>1. history' = history
    BY <1>4, StepTouches
  <2>2. globalEpoch' \in Nat /\ globalEpoch <= globalEpoch'
    BY <1>0, EpochsGrow
  <2>3. \A u \in Workers : Placed(u)' =>
           /\ Placed(u) /\ LoadedEpoch(u)' = LoadedEpoch(u)
           /\ number'[u] = number[u] /\ readSet'[u] = readSet[u]
           /\ writeSet'[u] = writeSet[u]
    BY <1>0, <1>4, PlacedKept, EpochsGrow
  <2>4. \A u \in Workers : pc'[u] = "validate" =>
           \A i \in DOMAIN readSet'[u] : i < idx'[u] =>
               (pc[u] = "validate" /\ i < idx[u]) \/ Settled(u, readSet[u][i])
    BY ValidatedSettled
  <2>5. Serial(pos, n)' /\ EpochsLoaded(pos, loaded)'
    BY <1>0, <1>1, <2>1, <2>2, <2>3, <2>4, SerialFrame
  <2> QED
    BY <2>5 DEF SerialInv
<1> QED
  BY <1>2, <1>3, <1>4

LEMMA SerialStutter ==
    ASSUME TypeOK, SerialInv, UNCHANGED core
    PROVE  SerialInv'
<1>1. PICK pos, loaded \in [AllIds -> Nat], n \in Nat : Serial(pos, n) /\ EpochsLoaded(pos, loaded)
  BY DEF SerialInv
<1> USE DEF core, shared, locals, sets, tids
<1>2. globalEpoch \in Nat /\ globalEpoch' = globalEpoch /\ history' = history
  BY EpochNumbers
<1>3. \A u \in Workers : Placed(u)' =>
         /\ Placed(u) /\ LoadedEpoch(u)' = LoadedEpoch(u)
         /\ number'[u] = number[u] /\ readSet'[u] = readSet[u]
         /\ writeSet'[u] = writeSet[u]
  BY DEF Placed, LoadedEpoch
<1>4. Serial(pos, n)' /\ EpochsLoaded(pos, loaded)'
  BY <1>1, <1>2, <1>3, SerialFrame
<1> QED
  BY <1>4 DEF SerialInv

LEMMA OrderHolds == Spec => []OrderInv
<1>1. Init => WordEpochInv /\ ReadMax /\ SerialInv
  BY WordEpochInit, SerialInit DEF Init, ReadMax
<1>2. ASSUME RecordsInv, RecordsInv', WordEpochInv, ReadMax, SerialInv, [Next]_vars
      PROVE  WordEpochInv' /\ ReadMax' /\ SerialInv'
  <2>0. TidInv /\ TidInv' /\ TypeOK
    BY <1>2 DEF RecordsInv, TidInv
  <2>1. CASE Quit \/ UNCHANGED vars
    BY <1>2, <2>0, <2>1, CoreKept, WordEpochStutter, ReadMaxStutter, SerialStutter
  <2>2. ASSUME NEW w \in Workers, Work(w)
        PROVE  WordEpochInv' /\ ReadMax' /\ SerialInv'
    BY <1>2, <2>0, <2>2, WordEpochStep, ReadMaxStep, SerialStep
  <2> QED
    BY <1>2, <2>1, <2>2 DEF Next
<1> QED
  BY <1>1, <1>2, RecordsHold, PTL DEF Spec, OrderInv

\* What the conflict edges of a history are, and that positions agree with them.
LEMMA EdgesAgree ==
    ASSUME OrderInv
    PROVE  \E pos, loaded \in [AllIds -> Nat] :
              /\ EpochsLoaded(pos, loaded)
              /\ \A e \in ConflictEdges(history) :
                    /\ e[1] \in history /\ e[2] \in history
                    /\ pos[e[1].id] < pos[e[2].id] /\ Touches(e[2])
<1>0. /\ \A g, h \in history : g.id = h.id => g = h
      /\ \A h \in history : h.id \in AllIds
      /\ \A h \in history : \A r \in h.reads : r.from = NoTxn \/ Committed(history, r.from, r.key)
      /\ NoTxn \notin AllIds
  <2>1. NoTxn \notin AllIds
    BY SiloAssumption DEF AllIds
  <2> QED
    BY <2>1 DEF OrderInv, RecordsInv, TidInv, ChoiceInv, HistoryInv, CommitInv, ReadInv
<1>1. PICK pos, loaded \in [AllIds -> Nat], n \in Nat : Serial(pos, n) /\ EpochsLoaded(pos, loaded)
  BY DEF OrderInv, SerialInv
<1>2. ASSUME NEW e \in ConflictEdges(history)
      PROVE  /\ e[1] \in history /\ e[2] \in history
             /\ Conflict(history, e[1], e[2]) /\ Touches(e[2])
  <2>1. CASE e \in ReadFromEdges(history)
    BY <1>0, <2>1 DEF ReadFromEdges, Conflict, Touches
  <2>2. CASE e \in OverwriteEdges(history)
    BY <2>2 DEF OverwriteEdges, Conflict, Touches
  <2>3. CASE e \in AntiDependencyEdges(history)
    <3>1. /\ e[1] \in history /\ e[2] \in history /\ e[1] # e[2]
          /\ \E r \in e[1].reads : /\ r.key \in e[2].writes
                                   /\ WordLess(VersionOf(history, r.from), e[2].tid)
      BY <2>3 DEF AntiDependencyEdges
    <3>2. PICK r \in e[1].reads : /\ r.key \in e[2].writes
                                  /\ WordLess(VersionOf(history, r.from), e[2].tid)
      BY <3>1
    <3>3. Older(history, r.from, e[2].tid)
      <4>1. CASE r.from = NoTxn
        BY <4>1 DEF Older
      <4>2. CASE r.from # NoTxn
        <5>1. PICK g \in history : g.id = r.from
          BY <1>0, <3>1, <4>2 DEF Committed
        <5>2. (CHOOSE h \in history : h.id = r.from) = g
          BY <1>0, <5>1
        <5>3. VersionOf(history, r.from) = g.tid
          BY <4>2, <5>2 DEF VersionOf
        <5> QED
          BY <3>2, <5>1, <5>3 DEF Older
      <4> QED
        BY <4>1, <4>2
    <3> QED
      BY <3>1, <3>2, <3>3 DEF Conflict, Touches
  <2> QED
    BY <2>1, <2>2, <2>3 DEF ConflictEdges
<1>3. EdgesOrdered(history, pos)
  BY <1>1 DEF Serial
<1> QED
  BY <1>1, <1>2, <1>3 DEF EdgesOrdered

LEMMA OrderSerializable == OrderInv => Serializable
<1> SUFFICES ASSUME OrderInv PROVE Serializable
  OBVIOUS
<1>1. PICK pos \in [AllIds -> Nat] :
         \A e \in ConflictEdges(history) :
            e[1] \in history /\ e[2] \in history /\ pos[e[1].id] < pos[e[2].id]
  BY EdgesAgree
<1>2. /\ \A g, h \in history : g.id = h.id => g = h
      /\ \A h \in history : h.id \in AllIds
  BY DEF OrderInv, RecordsInv, TidInv, ChoiceInv, HistoryInv, CommitInv
<1>3. IsFiniteSet(history)
  <2> DEFINE name == [h \in history |-> h.id]
  <2>1. name \in Injection(history, AllIds)
    BY <1>2 DEF Injection, IsInjective
  <2> HIDE DEF name
  <2> QED
    BY <2>1, AllIdsFinite, FS_Injection
<1> DEFINE f == [h \in history |-> pos[h.id]]
<1>4. f \in [history -> Nat]
  BY <1>2
<1>5. \A e \in ConflictEdges(history) :
         e[1] \in history /\ e[2] \in history /\ f[e[1]] < f[e[2]]
  BY <1>1
<1> HIDE DEF f
<1> QED
  BY <1>3, <1>4, <1>5, Numbered DEF Serializable, ConflictSerializable

\* The transactions that commit are conflict serializable, in the order in
\* which they loaded the epoch between locking and validating, whatever the
\* interleaving of their loads and stores and of the epoch's increments.
THEOREM SiloSerializable == Spec => []Serializable
BY OrderHolds, OrderSerializable, PTL

\* A transaction of an earlier epoch depends on none of a later one: the
\* serial order is that of the epochs loaded, and these are those of the TIDs
\* of whoever is depended on or depends.
THEOREM EpochsOrdered == Spec => []EpochsOrderConflicts
<1>1. ASSUME OrderInv PROVE EpochsOrderConflicts
  <2>1. PICK pos, loaded \in [AllIds -> Nat] :
           /\ EpochsLoaded(pos, loaded)
           /\ \A e \in ConflictEdges(history) :
                 /\ e[1] \in history /\ e[2] \in history
                 /\ pos[e[1].id] < pos[e[2].id] /\ Touches(e[2])
    BY <1>1, EdgesAgree
  <2> SUFFICES ASSUME NEW e \in ConflictEdges(history)
               PROVE  e[1].tid.epoch <= e[2].tid.epoch
    BY DEF EpochsOrderConflicts
  <2>2. TypeOK /\ \A h \in history : h.tid \in Words /\ h.id \in AllIds
    BY <1>1 DEF OrderInv, RecordsInv, TidInv, ChoiceInv, HistoryInv, CommitInv
  <2>3. PICK a \in history, b \in history :
           /\ a = e[1] /\ b = e[2] /\ pos[a.id] < pos[b.id] /\ Touches(b)
    BY <2>1
  <2>4. /\ a.tid.epoch <= AtLeast1(loaded[a.id]) /\ AtLeast1(loaded[b.id]) <= b.tid.epoch
        /\ loaded[a.id] <= loaded[b.id] /\ loaded[a.id] \in Nat /\ loaded[b.id] \in Nat
    BY <2>1, <2>2, <2>3 DEF EpochsLoaded
  <2>5. AtLeast1(loaded[a.id]) <= AtLeast1(loaded[b.id])
    BY <2>2, <2>4, EpochNumbers
  <2>6. /\ a.tid.epoch \in Nat /\ b.tid.epoch \in Nat
        /\ AtLeast1(loaded[a.id]) \in Nat /\ AtLeast1(loaded[b.id]) \in Nat
    BY <2>2, <2>4, EpochNumbers
  <2> QED
    BY <2>3, <2>4, <2>5, <2>6
<1> QED
  BY <1>1, OrderHolds, PTL

-----------------------------------------------------------------------------
(* The abstract store                                                      *)

LEMMA StoreOperators ==
    /\ Store!Words = Words
    /\ \A a, b : Store!WordLess(a, b) <=> WordLess(a, b)
    /\ \A H : Store!ConflictSerializable(H) <=> ConflictSerializable(H)
<1>1. Store!Words = Words
  BY DEF Store!Words, Words, Store!Epochs, Epochs
<1>2. \A a, b : Store!WordLess(a, b) <=> WordLess(a, b)
  BY DEF Store!WordLess, WordLess
<1>3. \A H, v : Store!VersionOf(H, v) = VersionOf(H, v)
  BY DEF Store!VersionOf, VersionOf, Store!ZeroWord, ZeroWord
<1>4. \A H : Store!ReadFromEdges(H) = ReadFromEdges(H)
  BY DEF Store!ReadFromEdges, ReadFromEdges
<1>5. \A H : Store!OverwriteEdges(H) = OverwriteEdges(H)
  BY <1>2 DEF Store!OverwriteEdges, OverwriteEdges
<1>6. \A H : Store!AntiDependencyEdges(H) = AntiDependencyEdges(H)
  BY <1>2, <1>3 DEF Store!AntiDependencyEdges, AntiDependencyEdges
<1>7. \A H : Store!ConflictEdges(H) = ConflictEdges(H)
  BY <1>4, <1>5, <1>6 DEF Store!ConflictEdges, ConflictEdges
<1>8. \A H : Store!Cardinality(H) = Cardinality(H)
  BY DEF Store!Cardinality, Cardinality
<1>9. \A H, edges : Store!SerialOrderExists(H, edges) <=> SerialOrderExists(H, edges)
  BY <1>8 DEF Store!SerialOrderExists, SerialOrderExists
<1>10. \A H : Store!ConflictSerializable(H) <=> ConflictSerializable(H)
  BY <1>7, <1>9 DEF Store!ConflictSerializable, ConflictSerializable
<1> QED
  BY <1>1, <1>2, <1>10

LEMMA StoreInit == Init => Store!Init
<1> SUFFICES ASSUME Init PROVE Store!Init
  OBVIOUS
<1>1. \A k \in Keys : Unlocked(word[k]) \in Words
  <2>1. TypeOK
    BY SiloTypeInit
  <2> QED
    BY <2>1, WordOperations DEF TypeOK
<1> QED
  BY <1>1, StoreOperators DEF Init, Store!Init

\* Choosing a TID is the commit of the store, storing it in a record installs
\* the version, and nothing else is visible.
LEMMA StoreStep ==
    ASSUME OrderInv, OrderInv', [Next]_vars
    PROVE  [Store!Next]_(Store!vars)
<1> USE DEF OrderInv, RecordsInv
<1>0. /\ word \in [Keys -> Words] /\ word' \in [Keys -> Words]
      /\ TypeOK /\ ChoiceInv /\ LockInv
  BY DEF TidInv, TypeOK
<1>1. ASSUME history' = history, \A k \in Keys : Unlocked(word'[k]) = Unlocked(word[k])
      PROVE  UNCHANGED Store!vars
  BY <1>1 DEF Store!vars
<1>2. CASE Quit \/ UNCHANGED vars
  BY <1>1, <1>2, CoreKept DEF core, shared
<1>3. ASSUME NEW w \in Workers, ChooseTid(w) PROVE Store!Next
  <2>1. PICK c : /\ history' = history \cup {c}
                 /\ c.id = Id(w)
                 /\ c.reads = {[key |-> r.key, from |-> r.from] : r \in Range(readSet[w])}
    BY <1>0, <1>3, Chooses
  <2>2. word' = word /\ \A g \in history : g.id # c.id
    BY <1>0, <1>3, <2>1, Chooses
  <2>3. ASSUME NEW r \in c.reads
        PROVE  r.from = NoTxn \/ \E g \in history : g.id = r.from /\ r.key \in g.writes
    <3>1. PICK q \in Range(readSet[w]) : r = [key |-> q.key, from |-> q.from]
      BY <2>1, <2>3
    <3>2. PICK i \in DOMAIN readSet[w] : q = readSet[w][i]
      BY <3>1 DEF Range
    <3>3. Agrees(history, q.key, q.from, q.word)
      BY <3>2 DEF ReadInv
    <3> QED
      BY <3>1, <3>3 DEF Agrees
  <2>4. Store!ConflictSerializable(history')
    <3>1. OrderInv' => Serializable'
      BY OrderSerializable, PTL
    <3> QED
      BY <3>1, StoreOperators DEF Serializable
  <2>5. Store!Commit(c)
    BY <2>1, <2>2, <2>3, <2>4 DEF Store!Commit
  <2>6. c \in history' \ history
    BY <2>1, <2>2
  <2> QED
    BY <2>5, <2>6 DEF Store!Next
<1>4. ASSUME NEW w \in Workers, StoreTid(w) PROVE Store!Next
  <2>1. /\ pc[w] = "publish" /\ history' = history
        /\ word' = [word EXCEPT ![writeSet[w][idx[w]]] = mostRecentlyChosenTid[w]]
    BY <1>4 DEF StoreTid
  <2>2. PICK k \in Keys : k = writeSet[w][idx[w]] /\ idx[w] \in DOMAIN writeSet[w]
    BY <2>1, PublishingHolds
  <2>3. PICK h \in history : /\ h.id = Id(w) /\ h.tid = mostRecentlyChosenTid[w]
                             /\ h.writes = Range(writeSet[w])
    BY <1>0, <2>1 DEF ChoiceInv, HistoryInv, Installing
  <2>4. k \in h.writes
    BY <2>2, <2>3 DEF Range
  <2>5. h.tid \in Words /\ h.tid.lock = 0 /\ Unlocked(h.tid) = h.tid
    BY <1>0, PrecedesOrder DEF ChoiceInv, HistoryInv, CommitInv
  <2>6. Precedes(word[k], h.tid)
    BY <1>4, <2>2, <2>3, RecordsGrow DEF Work
  <2>7. WordLess(Unlocked(word[k]), h.tid)
    <3>1. Precedes(Unlocked(word[k]), h.tid) /\ Unlocked(word[k]) \in Words
          /\ Unlocked(word[k]).lock = 0
      BY <1>0, <2>5, <2>6, PrecedesTotal DEF Precedes
    <3> QED
      BY <2>5, <3>1, PrecedesOrder
  <2>8. [j \in Keys |-> Unlocked(word'[j])]
           = [[j \in Keys |-> Unlocked(word[j])] EXCEPT ![k] = h.tid]
    <3>1. \A j \in Keys : Unlocked(word'[j]) = IF j = k THEN h.tid ELSE Unlocked(word[j])
      BY <1>0, <2>1, <2>2, <2>3, <2>5
    <3> QED
      BY <3>1
  <2>9. Store!Install(h, k)
    BY <2>1, <2>4, <2>7, <2>8, StoreOperators DEF Store!Install
  <2> QED
    BY <2>9 DEF Store!Next
<1>5. ASSUME NEW w \in Workers, Work(w), ~ ChooseTid(w), ~ StoreTid(w)
      PROVE  UNCHANGED Store!vars
  <2>1. history' = history
    BY <1>5, StepTouches
  <2>2. \A k \in Keys : Unlocked(word'[k]) = Unlocked(word[k])
    BY <1>5, RecordsGrow
  <2> QED
    BY <1>1, <2>1, <2>2
<1> QED
  BY <1>2, <1>3, <1>4, <1>5 DEF Next

\* The protocol implements the abstract store: whatever its locks, loads and
\* retries, transactions commit one at a time and each leaves a serializable
\* history, and versions are only replaced by later ones of committed
\* transactions.
THEOREM SiloImplementsStore == Spec => ImplementsStore
<1>1. OrderInv /\ OrderInv' /\ [Next]_vars => [Store!Next]_(Store!vars)
  BY StoreStep
<1> QED
  BY <1>1, StoreInit, OrderHolds, PTL DEF Spec, ImplementsStore, Store!Spec
=============================================================================
