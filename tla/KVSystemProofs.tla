--------------------------- MODULE KVSystemProofs ---------------------------
(***************************************************************************)
(* Theorems about KVSystem: a whole database does what KVDatabase says of  *)
(* its threads and what KVSilo says of its transactions, so that what is   *)
(* proved about these holds in it.                                         *)
(***************************************************************************)
EXTENDS KVSystem, KVDatabaseProofs, FiniteSetTheorems

Proofs == INSTANCE KVSiloProofs WITH Txns <- Queries, pc <- at

-----------------------------------------------------------------------------
(* The transactions are those the theorems about KVSilo speak of.          *)

LEMMA SameWords ==
    /\ Transaction!Epochs = Proofs!Epochs
    /\ Transaction!ZeroWord = Proofs!ZeroWord
    /\ \A a, b : Transaction!WordMax(a, b) = Proofs!WordMax(a, b)
    /\ \A a : Transaction!NextTid(a) = Proofs!NextTid(a)
    /\ \A a : Transaction!Locked(a) = Proofs!Locked(a)
    /\ \A a : Transaction!Unlocked(a) = Proofs!Unlocked(a)
<1>1. /\ Transaction!Epochs = Proofs!Epochs
      /\ Transaction!ZeroWord = Proofs!ZeroWord
  BY DEF Transaction!Epochs, Proofs!Epochs, Transaction!ZeroWord, Proofs!ZeroWord
<1>2. \A a, b : Transaction!WordMax(a, b) = Proofs!WordMax(a, b)
  BY DEF Transaction!WordMax, Proofs!WordMax, Transaction!WordLess, Proofs!WordLess
<1>3. \A a : Transaction!NextTid(a) = Proofs!NextTid(a)
  BY DEF Transaction!NextTid, Proofs!NextTid
<1>4. \A a : Transaction!Locked(a) = Proofs!Locked(a)
  BY DEF Transaction!Locked, Proofs!Locked
<1>5. \A a : Transaction!Unlocked(a) = Proofs!Unlocked(a)
  BY DEF Transaction!Unlocked, Proofs!Unlocked
<1> QED
  BY <1>1, <1>2, <1>3, <1>4, <1>5

LEMMA SameInit == Transaction!Init <=> Proofs!Init
BY SameWords DEF Transaction!Init, Proofs!Init

LEMMA SameSteps ==
    ASSUME NEW t \in Queries
    PROVE  Transaction!Step(t) <=> Proofs!Step(t)
<1> USE DEF Transaction!shared, Proofs!shared, Transaction!queries, Proofs!queries,
            Transaction!locals, Proofs!locals, Transaction!sets, Proofs!sets,
            Transaction!tids, Proofs!tids, Transaction!Goto, Proofs!Goto,
            Transaction!At, Proofs!At, Transaction!KeyOf, Proofs!KeyOf
<1>1. Transaction!LoadBefore(t) <=> Proofs!LoadBefore(t)
  BY DEF Transaction!LoadBefore, Proofs!LoadBefore
<1>2. Transaction!LoadValue(t) <=> Proofs!LoadValue(t)
  BY DEF Transaction!LoadValue, Proofs!LoadValue
<1>3. Transaction!LoadAfter(t) <=> Proofs!LoadAfter(t)
  BY SameWords DEF Transaction!LoadAfter, Proofs!LoadAfter, Transaction!SameWord, Proofs!SameWord
<1>4. Transaction!Write(t) <=> Proofs!Write(t)
  BY DEF Transaction!Write, Proofs!Write
<1>5. Transaction!Commit(t) <=> Proofs!Commit(t)
  BY DEF Transaction!Commit, Proofs!Commit, Transaction!SortsOf, Proofs!SortsOf,
     Transaction!Ascending, Proofs!Ascending, Transaction!Bijection, Proofs!Bijection,
     Transaction!Injection, Proofs!Injection, Transaction!Surjection, Proofs!Surjection,
     Transaction!IsInjective, Proofs!IsInjective
<1>6. Transaction!LockRecord(t) <=> Proofs!LockRecord(t)
  BY SameWords DEF Transaction!LockRecord, Proofs!LockRecord, Transaction!CanLock, Proofs!CanLock
<1>7. Transaction!LoadEpoch(t) <=> Proofs!LoadEpoch(t)
  BY DEF Transaction!LoadEpoch, Proofs!LoadEpoch
<1>8. Transaction!ValidateRead(t) <=> Proofs!ValidateRead(t)
  BY SameWords DEF Transaction!ValidateRead, Proofs!ValidateRead, Transaction!Valid,
     Proofs!Valid, Transaction!InWSet, Proofs!InWSet, Transaction!Range, Proofs!Range
<1>9. Transaction!FailValidation(t) <=> Proofs!FailValidation(t)
  BY DEF Transaction!FailValidation, Proofs!FailValidation, Transaction!Valid,
     Proofs!Valid, Transaction!InWSet, Proofs!InWSet, Transaction!Range, Proofs!Range
<1>10. Transaction!Unlock(t) <=> Proofs!Unlock(t)
  BY SameWords DEF Transaction!Unlock, Proofs!Unlock
<1>11. Transaction!Abort(t) <=> Proofs!Abort(t)
  BY DEF Transaction!Abort, Proofs!Abort
<1>12. Transaction!ChooseTid(t) <=> Proofs!ChooseTid(t)
  <2>1. Transaction!ChosenTid(t) = Proofs!ChosenTid(t)
    BY SameWords DEF Transaction!ChosenTid, Proofs!ChosenTid
  <2>2. Transaction!CommitRecord(t) = Proofs!CommitRecord(t)
    BY <2>1 DEF Transaction!CommitRecord, Proofs!CommitRecord, Transaction!Range,
       Proofs!Range
  <2> QED
    BY <2>1, <2>2 DEF Transaction!ChooseTid, Proofs!ChooseTid
<1>13. Transaction!StoreValue(t) <=> Proofs!StoreValue(t)
  BY DEF Transaction!StoreValue, Proofs!StoreValue
<1>14. Transaction!StoreTid(t) <=> Proofs!StoreTid(t)
  BY DEF Transaction!StoreTid, Proofs!StoreTid
<1>15. Transaction!Finish(t) <=> Proofs!Finish(t)
  BY DEF Transaction!Finish, Proofs!Finish
<1> QED
  BY <1>1, <1>2, <1>3, <1>4, <1>5, <1>6, <1>7, <1>8, <1>9, <1>10, <1>11, <1>12, <1>13,
     <1>14, <1>15 DEF Transaction!Step, Proofs!Step

LEMMA SameNext == [Transaction!Next]_(Transaction!vars) => [Proofs!Next]_(Proofs!vars)
<1>1. UNCHANGED Transaction!vars => UNCHANGED Proofs!vars
  BY DEF Transaction!vars, Proofs!vars, Transaction!shared, Proofs!shared,
         Transaction!queries, Proofs!queries, Transaction!locals, Proofs!locals,
         Transaction!sets, Proofs!sets, Transaction!tids, Proofs!tids
<1>2. Transaction!AdvanceEpoch <=> Proofs!AdvanceEpoch
  BY DEF Transaction!AdvanceEpoch, Proofs!AdvanceEpoch, Transaction!NextEpoch,
     Proofs!NextEpoch, Transaction!queries, Proofs!queries, Transaction!locals,
     Proofs!locals, Transaction!sets, Proofs!sets, Transaction!tids, Proofs!tids
<1>3. Transaction!Next <=> Proofs!Next
  BY <1>2, SameSteps DEF Transaction!Next, Proofs!Next
<1> QED
  BY <1>1, <1>3

-----------------------------------------------------------------------------
(* Every step of a database is one of its threads', and one of KVSilo or   *)
(* none at all.                                                            *)

LEMMA ThreadStep == [SystemNext]_allVars => [Next]_vars
<1>1. ASSUME NEW w \in Workers, WorkStep(w) PROVE [Next]_vars
  BY <1>1 DEF WorkStep, StepQuery, Next, Work
<1>2. LeadStep => [Next]_vars
  BY DEF LeadStep, Next, Lead
<1> QED
  BY <1>1, <1>2 DEF SystemNext, ConstructStep, TerminateStep, LogStep, Next, allVars

\* The whole database, whose workers run their queries access by access, does
\* nothing that KVDatabase does not allow its threads.
THEOREM SystemIsDatabase == SystemSpec => Spec
BY ThreadStep, PTL DEF SystemSpec, SystemInit, Spec

\* A worker holds queries that clients submitted.
LEMMA SentQueries ==
    ASSUME DatabaseInv, NEW w \in Workers, query[w] # NoQuery
    PROVE  query[w] \in Queries
<1>2. query[w] \in Submitted
  BY DEF DatabaseInv, PlacesInv, NoQueryLost, InHand
<1>3. PICK c \in Clients : query[w] \in {c} \X (1 .. sent[c])
  BY <1>2 DEF Submitted
<1>4. sent[c] <= Quota[c] /\ sent[c] \in Nat /\ Quota[c] \in Nat
  BY KVDatabaseAssumption DEF DatabaseInv, DatabaseTypes, PlacesInv, SentInv
<1>5. query[w] \in {c} \X (1 .. Quota[c])
  BY <1>3, <1>4
<1> QED
  BY <1>5 DEF Queries

LEMMA QueryInHand ==
    ASSUME DatabaseInv, NEW w \in Workers, pc[w] = "query"
    PROVE  query[w] \in Queries
<1>1. query[w] # NoQuery
  BY DEF DatabaseInv, PlacesInv, HandInv, Holding
<1> QED
  BY <1>1, SentQueries

LEMMA TransactionStep ==
    DatabaseInv /\ [SystemNext]_allVars => [Transaction!Next]_(Transaction!vars)
<1> SUFFICES ASSUME DatabaseInv, [SystemNext]_allVars
             PROVE  [Transaction!Next]_(Transaction!vars)
  OBVIOUS
<1>1. UNCHANGED <<E, txnVars>> => UNCHANGED Transaction!vars
  BY DEF txnVars, Transaction!vars, Transaction!shared, Transaction!queries,
         Transaction!locals, Transaction!sets, Transaction!tids
<1>2. ASSUME NEW w \in Workers, WorkStep(w)
      PROVE  [Transaction!Next]_(Transaction!vars)
  <2>1. CASE Loop(w) /\ UNCHANGED txnVars
    <3>1. E' = E
      BY <2>1 DEF Loop, SeeStart, CheckStop, Dequeue, DequeueFails, LoadE, StoreE, env
    <3> QED
      BY <1>1, <2>1, <3>1
  <2>2. CASE StepQuery(w)
    <3>1. query[w] \in Queries /\ Transaction!Step(query[w])
      BY <2>2, QueryInHand DEF StepQuery
    <3> QED
      BY <3>1 DEF Transaction!Next
  <2> QED
    BY <1>2, <2>1, <2>2 DEF WorkStep
<1>3. CASE LeadStep
  <2>1. CASE (LeaderCheck \/ LeaderTooEarly) /\ UNCHANGED txnVars
    BY <1>1, <2>1 DEF LeaderCheck, LeaderTooEarly, env
  <2>2. CASE Transaction!AdvanceEpoch
    BY <2>2 DEF Transaction!Next
  <2> QED
    BY <1>3, <2>1, <2>2 DEF LeadStep
<1>4. CASE /\ UNCHANGED txnVars
           /\ \/ Construct \/ Terminate \/ Log \/ StoreStop
              \/ \E c \in Clients : Submit(c)
  <2>1. E' = E
    BY <1>4 DEF Construct, MakeLogger, MakeWorker, StoreStart, Terminate, JoinLeader,
       JoinWorker, WorkersJoined, CollectResult, JoinLogger, Log, StoreStop, Submit, env
  <2> QED
    BY <1>1, <1>4, <2>1
<1>5. CASE UNCHANGED allVars
  BY <1>1, <1>5 DEF allVars, vars, env
<1> QED
  BY <1>2, <1>3, <1>4, <1>5 DEF SystemNext, ConstructStep, TerminateStep, LogStep

\* And nothing KVSilo does not allow its transactions: a worker takes only steps
\* of a query that a client submitted and that it has in its hands.
THEOREM SystemIsKVSilo == SystemSpec => Transaction!Spec
<1>1. SystemSpec => []DatabaseInv
  BY SystemIsDatabase, DatabaseInvHolds
<1>2. SystemInit => Transaction!Init
  BY DEF SystemInit
<1> QED
  BY <1>1, <1>2, TransactionStep, PTL DEF SystemSpec, Transaction!Spec

\* So the queries whose transactions run access by access are counted, too.
THEOREM SystemCounts == SystemSpec => []EveryQueryCounted
BY SystemIsDatabase, QueriesAreCounted, PTL

-----------------------------------------------------------------------------
(* What is proved about KVSilo holds in a database: the queries of finitely  *)
(* many clients are as many transactions as KVSilo assumes.                *)

QueriesOf == [c \in Clients |-> {c} \X (1 .. Quota[c])]

LEMMA QueriesFinite == IsFiniteSet(Queries)
<1> DEFINE Sets == {{c} \X (1 .. Quota[c]) : c \in Clients}
<1>1. IsFiniteSet(Sets)
  <2>1. QueriesOf \in Surjection(Clients, Sets)
    BY DEF QueriesOf, Surjection
  <2> QED
    BY <2>1, KVDatabaseAssumption, FS_Surjection
<1>2. ASSUME NEW T \in Sets PROVE IsFiniteSet(T)
  <2>1. PICK c \in Clients : T = {c} \X (1 .. Quota[c])
    OBVIOUS
  <2>2. IsFiniteSet({c}) /\ IsFiniteSet(1 .. Quota[c])
    <3>1. Quota[c] \in Int /\ 1 \in Int
      BY KVDatabaseAssumption
    <3>2. IsFiniteSet(1 .. Quota[c])
      BY <3>1, FS_Interval
    <3>3. IsFiniteSet({c})
      BY FS_Singleton
    <3> QED
      BY <3>2, <3>3
  <2> QED
    BY <2>1, <2>2, FS_Product
<1>3. IsFiniteSet(UNION Sets)
  BY <1>1, <1>2, FS_UNION
<1> QED
  BY <1>3 DEF Queries

\* The assumptions of KVSilo.
LEMMA TransactionAssumptions ==
    /\ Proofs!WidthAssumption
    /\ Proofs!IsFiniteSet(Queries)
    /\ NoTxn \notin Queries
    /\ Keys \subseteq Nat
    /\ Programs \subseteq Seq(Proofs!Operations)
    /\ Proofs!Cardinality(Queries) < TidMod
<1>1. Proofs!IsFiniteSet(Queries) = IsFiniteSet(Queries)
  BY DEF Proofs!IsFiniteSet, IsFiniteSet
<1>2. Proofs!Cardinality(Queries) = Cardinality(Queries)
  BY DEF Proofs!Cardinality, Cardinality
<1>3. Programs \subseteq Seq(Proofs!Operations)
  BY SystemAssumption DEF Proofs!Operations
<1> QED
  BY <1>1, <1>2, <1>3, QueriesFinite, SystemAssumption, KVDatabaseAssumption
     DEF Proofs!WidthAssumption

LEMMA SystemIsProved == SystemSpec => Proofs!Spec
<1>1. Transaction!Spec => Proofs!Spec
  BY SameInit, SameNext, PTL DEF Transaction!Spec, Proofs!Spec
<1> QED
  BY <1>1, SystemIsKVSilo

LEMMA SystemTyping == SystemSpec => []Proofs!TypeOK
<1>1. Proofs!Spec => []Proofs!TypeOK
  BY Proofs!Typing, TransactionAssumptions
<1> QED
  BY <1>1, SystemIsProved

-----------------------------------------------------------------------------
(* Epochs                                                                  *)

Running(t) == \E w \in Workers : pc[w] = "query" /\ query[w] = t

\* A transaction nobody runs has not begun, or has ended.
RestInv == \A t \in Queries : Running(t) \/ at[t] \in {"query"} \cup Proofs!Finished

\* What commit() has loaded or chosen is not before the epoch the worker stored,
\* until E wraps.
EpochInv ==
    \A w \in Workers \ wrapped : LET t == query[w] IN
        pc[w] = "query" =>
            /\ at[t] = "validate" => epoch[t] >= workerE[w]
            /\ at[t] \in {"install", "publish"} =>
                  mostRecentlyChosenTid[t].epoch >= workerE[w]

LEMMA ChosenEpoch ==
    ASSUME Proofs!TypeOK, NEW t \in Queries
    PROVE  /\ Proofs!ChosenTid(t) \in Proofs!Words
           /\ Proofs!ChosenTid(t).epoch >= epoch[t]
           /\ Proofs!ChosenTid(t).epoch \in Nat /\ epoch[t] \in Nat
<1> DEFINE tidA == Proofs!NextTid(Proofs!WordMax(maxWriteTid[t], maxReadTid[t]))
           tidB == Proofs!NextTid(mostRecentlyChosenTid[t])
           tidC == [Proofs!ZeroWord EXCEPT !.epoch = epoch[t]]
<1>1. /\ maxWriteTid[t] \in Proofs!Words /\ maxReadTid[t] \in Proofs!Words
      /\ mostRecentlyChosenTid[t] \in Proofs!Words /\ epoch[t] \in Proofs!Epochs
  BY DEF Proofs!TypeOK
<1>2. tidA \in Proofs!Words /\ tidB \in Proofs!Words /\ tidC \in Proofs!Words
  BY <1>1, Proofs!WordOperations, TransactionAssumptions
<1>3. tidC.epoch = epoch[t]
  BY DEF Proofs!ZeroWord
<1>4. Proofs!ChosenTid(t) = Proofs!Unlocked(Proofs!WordMax(tidA, Proofs!WordMax(tidB, tidC)))
  BY DEF Proofs!ChosenTid
<1> HIDE DEF tidA, tidB, tidC
<1>5. ASSUME NEW a \in Proofs!Words, NEW b \in Proofs!Words
      PROVE  /\ Proofs!WordMax(a, b) \in Proofs!Words
             /\ Proofs!WordMax(a, b).epoch >= b.epoch
             /\ Proofs!Unlocked(a) \in Proofs!Words
             /\ Proofs!Unlocked(a).epoch = a.epoch
  BY <1>5 DEF Proofs!WordMax, Proofs!WordLess, Proofs!Words, Proofs!Epochs, Proofs!Unlocked
<1>6. ASSUME NEW a \in Proofs!Words PROVE a.epoch \in Nat
  BY <1>6, TransactionAssumptions DEF Proofs!Words, Proofs!Epochs, Proofs!WidthAssumption
<1>7. Proofs!WordMax(tidB, tidC) \in Proofs!Words /\ Proofs!WordMax(tidB, tidC).epoch >= epoch[t]
  BY <1>2, <1>3, <1>5
<1> DEFINE rest == Proofs!WordMax(tidB, tidC)
           top == Proofs!WordMax(tidA, rest)
<1> HIDE DEF rest
<1>8. rest \in Proofs!Words /\ rest.epoch >= epoch[t] /\ epoch[t] \in Nat
  BY <1>2, <1>3, <1>6, <1>7 DEF rest
<1>9. top \in Proofs!Words /\ top.epoch >= rest.epoch
  BY <1>2, <1>5, <1>8
<1> HIDE DEF top
<1>10. Proofs!Unlocked(top) \in Proofs!Words /\ Proofs!Unlocked(top).epoch = top.epoch
  BY <1>5, <1>9
<1>11. Proofs!Unlocked(top).epoch >= epoch[t]
  BY <1>6, <1>8, <1>9, <1>10
<1>12. Proofs!Unlocked(top).epoch \in Nat
  BY <1>6, <1>10
<1> QED
  BY <1>4, <1>8, <1>10, <1>11, <1>12 DEF top, rest

\* What a step of a transaction does to what the invariants above speak of.
LEMMA StepEpochs ==
    ASSUME Proofs!TypeOK, NEW t \in Queries, Proofs!Step(t)
    PROVE  /\ E' = E /\ at[t] \notin Proofs!Finished
           /\ \A u \in Queries \ {t} :
                 /\ at'[u] = at[u] /\ epoch'[u] = epoch[u]
                 /\ mostRecentlyChosenTid'[u] = mostRecentlyChosenTid[u]
           /\ at'[t] = "validate" =>
                 epoch'[t] = E \/ (at[t] = "validate" /\ epoch'[t] = epoch[t])
           /\ at'[t] \in {"install", "publish"} =>
                 \/ /\ at[t] = "validate"
                    /\ mostRecentlyChosenTid'[t].epoch >= epoch[t]
                    /\ mostRecentlyChosenTid'[t].epoch \in Nat /\ epoch[t] \in Nat
                 \/ /\ at[t] \in {"install", "publish"}
                    /\ mostRecentlyChosenTid'[t] = mostRecentlyChosenTid[t]
<1> USE DEF Proofs!shared, Proofs!queries, Proofs!locals, Proofs!sets, Proofs!tids,
            Proofs!Goto, Proofs!At, Proofs!Finished
<1>0. /\ at \in [Queries -> Proofs!Labels] /\ epoch \in [Queries -> Proofs!Epochs]
      /\ mostRecentlyChosenTid \in [Queries -> Proofs!Words]
  BY DEF Proofs!TypeOK
<1>1. CASE Proofs!LoadBefore(t) \/ Proofs!LoadValue(t) \/ Proofs!LoadAfter(t)
           \/ Proofs!Write(t) \/ Proofs!Commit(t)
  BY <1>0, <1>1 DEF Proofs!LoadBefore, Proofs!LoadValue, Proofs!LoadAfter, Proofs!Write,
     Proofs!Commit
<1>2. CASE Proofs!LockRecord(t) \/ Proofs!LoadEpoch(t) \/ Proofs!ValidateRead(t)
           \/ Proofs!FailValidation(t) \/ Proofs!Unlock(t) \/ Proofs!Abort(t)
  BY <1>0, <1>2 DEF Proofs!LockRecord, Proofs!LoadEpoch, Proofs!ValidateRead,
     Proofs!FailValidation, Proofs!Unlock, Proofs!Abort
<1>3. CASE Proofs!ChooseTid(t)
  BY <1>0, <1>3, ChosenEpoch DEF Proofs!ChooseTid
<1>4. CASE Proofs!StoreValue(t) \/ Proofs!StoreTid(t) \/ Proofs!Finish(t)
  BY <1>0, <1>4 DEF Proofs!StoreValue, Proofs!StoreTid, Proofs!Finish
<1> QED
  BY <1>1, <1>2, <1>3, <1>4 DEF Proofs!Step

SystemInv == DatabaseInv /\ Proofs!TypeOK

LEMMA SystemInvHolds == SystemSpec => []SystemInv
BY SystemIsDatabase, DatabaseInvHolds, SystemTyping, PTL DEF SystemInv

LEMMA WorkerEpochs ==
    ASSUME DatabaseInv, NEW w \in Workers, pc[w] # "absent"
    PROVE  /\ w \in DOMAIN workerE /\ workerE[w] \in Nat /\ E \in Nat
           /\ w \notin wrapped /\ pc[w] # "storeE" => workerE[w] <= E
<1>1. workerE \in Seq(Epochs) /\ E \in Nat
  BY EpochsAre DEF DatabaseInv, DatabaseTypes, TypeOK
<1>2. w \in 1 .. Len(workerE)
  BY WorkersAre DEF DatabaseInv, LifeInv, MadeInv
<1>3. w \in DOMAIN workerE /\ workerE[w] \in Epochs
  BY <1>1, <1>2, WorkersAre
<1> QED
  BY <1>1, <1>3, EpochsAre DEF DatabaseInv, LifeInv, EpochsBehind

LEMMA EpochStep ==
    ASSUME SystemInv, RestInv, EpochInv, [SystemNext]_allVars
    PROVE  RestInv' /\ EpochInv'
<1>1. /\ pc \in [Workers -> WorkerLabels] /\ DatabaseInv
      /\ Proofs!TypeOK
  BY WorkersAtLabels DEF SystemInv, DatabaseInv, DatabaseTypes
<1>2. \A t \in Queries : at[t] \in Proofs!Labels
  BY <1>1 DEF Proofs!TypeOK
<1>3. CASE /\ UNCHANGED <<workerE, query, at, epoch, mostRecentlyChosenTid>>
           /\ \A w \in Workers : w \in wrapped => w \in wrapped' \/ pc'[w] # "query"
           /\ \A w \in Workers : pc[w] = "query" <=> pc'[w] = "query"
  BY <1>3 DEF RestInv, Running, EpochInv
<1>4. ASSUME NEW w \in Workers, Loop(w), UNCHANGED txnVars
      PROVE  RestInv' /\ EpochInv'
  <2>0. UNCHANGED <<at, epoch, mostRecentlyChosenTid>>
    BY <1>4 DEF txnVars
  <2>1. CASE StoreE(w)
    <3>1. /\ pc[w] = "storeE" /\ \A v \in Workers : pc'[v] = IF v = w THEN "query" ELSE pc[v]
          /\ query' = query /\ workerE' = [workerE EXCEPT ![w] = loaded[w]]
          /\ wrapped' = wrapped
      BY <1>1, <2>1 DEF StoreE, Goto
    <3>2. \A v \in Workers : pc[v] = "query" => v \in DOMAIN workerE
      BY <1>1, WorkerEpochs
    <3>3. ASSUME NEW t \in Queries, Running(t) PROVE Running(t)'
      BY <3>1, <3>3 DEF Running
    <3>4. \A v \in Workers \ {w} : pc[v] = "query" => workerE'[v] = workerE[v]
      BY <3>1, <3>2
    <3>5. ~ Running(query[w])
      BY <1>1, <3>1 DEF Running, DatabaseInv, PlacesInv, HandInv, Holding
    <3>6. query[w] \in Queries
      <4>1. query[w] # NoQuery
        BY <1>1, <3>1 DEF DatabaseInv, PlacesInv, HandInv, Holding
      <4> QED
        BY <1>1, <4>1, SentQueries
    <3>7. at[query[w]] \in {"query"} \cup Proofs!Finished
      BY <3>5, <3>6 DEF RestInv
    <3> QED
      BY <2>0, <3>1, <3>3, <3>4, <3>7 DEF RestInv, EpochInv, Proofs!Finished
  <2>2. CASE Dequeue(w)
    <3>1. /\ pc[w] = "dequeue" /\ \A v \in Workers : pc'[v] = IF v = w THEN "loadE" ELSE pc[v]
          /\ workerE' = workerE /\ wrapped' = wrapped /\ \A v \in Workers \ {w} : query'[v] = query[v]
      BY <1>1, <2>2 DEF Dequeue, Goto, env, DatabaseInv, DatabaseTypes
    <3> QED
      BY <2>0, <3>1 DEF RestInv, Running, EpochInv
  <2>3. CASE SeeStart(w) \/ CheckStop(w) \/ DequeueFails(w) \/ LoadE(w)
    <3>1. \A v \in Workers : pc[v] = "query" <=> pc'[v] = "query"
      BY <1>1, <2>3 DEF SeeStart, CheckStop, DequeueFails, LoadE, Goto
    <3>2. /\ UNCHANGED <<workerE, query>>
          /\ \A v \in Workers : v \in wrapped => v \in wrapped' \/ pc'[v] # "query"
      BY <1>1, <2>3 DEF SeeStart, CheckStop, DequeueFails, LoadE, Goto, env
    <3> QED
      BY <1>3, <2>0, <3>1, <3>2
  <2> QED
    BY <1>4, <2>1, <2>2, <2>3 DEF Loop
<1>5. ASSUME NEW w \in Workers, StepQuery(w)
      PROVE  RestInv' /\ EpochInv'
  <2> DEFINE t == query[w]
  <2>1. t \in Queries /\ pc[w] = "query" /\ Proofs!Step(t)
    BY <1>1, <1>5, QueryInHand, SameSteps DEF StepQuery
  <2>2. \A v \in Workers \ {w} : query[v] # t
    BY <1>1, <2>1 DEF DatabaseInv, PlacesInv, HandInv, Holding
  <2>3. /\ workerE' = workerE /\ wrapped' = wrapped /\ workerE[w] \in Nat /\ E \in Nat
        /\ w \notin wrapped => workerE[w] <= E
    <3>1. /\ E \in Nat /\ workerE[w] \in Nat
          /\ w \notin wrapped => workerE[w] <= E
      BY <1>1, <2>1, WorkerEpochs
    <3> QED
      BY <1>5, <3>1 DEF StepQuery, RunQuery, vars, env
  <2>4. \A v \in Workers \ {w} : pc'[v] = pc[v] /\ query'[v] = query[v]
    BY <1>1, <1>5 DEF StepQuery, RunQuery, vars, workerVars, Goto, DatabaseInv, DatabaseTypes
  <2>5. CASE at'[t] \in Proofs!Finished
    <3>1. pc'[w] = "loop"
      BY <1>1, <1>5, <2>5 DEF StepQuery, RunQuery, Goto, Proofs!Finished, Transaction!Finished
    <3>2. EpochInv'
      <4>1. ASSUME NEW v \in Workers \ wrapped, pc'[v] = "query"
            PROVE  /\ v # w /\ query'[v] = query[v] /\ pc[v] = "query"
                   /\ query[v] \in Queries \ {t}
        BY <1>1, <2>2, <2>4, <3>1, <4>1, QueryInHand
      <4> HIDE DEF t
      <4> QED
        BY <1>1, <2>1, <2>3, <4>1, StepEpochs DEF EpochInv
    <3>3. RestInv'
      <4> SUFFICES ASSUME NEW u \in Queries, u # t
                   PROVE  Running(u)' \/ at'[u] \in {"query"} \cup Proofs!Finished
        BY <2>5 DEF RestInv
      <4>1. at'[u] = at[u]
        BY <1>1, <2>1, StepEpochs
      <4>2. Running(u) => Running(u)'
        BY <2>4 DEF Running
      <4> QED
        BY <4>1, <4>2 DEF RestInv
    <3> QED
      BY <3>2, <3>3
  <2>6. CASE at'[t] \notin Proofs!Finished
    <3>1. UNCHANGED <<pc, query, workerE>>
      BY <1>5, <2>6 DEF StepQuery, vars, env, workerVars, Proofs!Finished, Transaction!Finished
    <3>2. EpochInv'
      <4> SUFFICES ASSUME NEW v \in Workers \ wrapped, pc[v] = "query"
                   PROVE  /\ at'[query[v]] = "validate" => epoch'[query[v]] >= workerE[v]
                          /\ at'[query[v]] \in {"install", "publish"} =>
                                mostRecentlyChosenTid'[query[v]].epoch >= workerE[v]
        BY <2>3, <3>1 DEF EpochInv
      <4>1. CASE v = w
        <5>1. /\ at[t] = "validate" => epoch[t] >= workerE[w]
              /\ at[t] \in {"install", "publish"} =>
                    mostRecentlyChosenTid[t].epoch >= workerE[w]
          BY <2>1, <4>1 DEF EpochInv
        <5> HIDE DEF t
        <5>2. /\ at'[t] = "validate" => epoch'[t] >= workerE[w]
              /\ at'[t] \in {"install", "publish"} =>
                    mostRecentlyChosenTid'[t].epoch >= workerE[w]
          BY <1>1, <2>1, <2>3, <4>1, <5>1, StepEpochs
        <5> QED
          BY <4>1, <5>2 DEF t
      <4>2. CASE v # w
        <5>1. query[v] \in Queries \ {t}
          BY <1>1, <2>2, <4>2, QueryInHand
        <5> HIDE DEF t
        <5> QED
          BY <1>1, <2>1, <5>1, StepEpochs DEF EpochInv
      <4> QED
        BY <4>1, <4>2
    <3>3. RestInv'
      <4> SUFFICES ASSUME NEW u \in Queries
                   PROVE  Running(u)' \/ at'[u] \in {"query"} \cup Proofs!Finished
        BY DEF RestInv
      <4>1. Running(u) <=> Running(u)'
        BY <3>1 DEF Running
      <4>2. u = t => Running(u)
        BY <2>1 DEF Running
      <4>3. u # t => at'[u] = at[u]
        BY <1>1, <2>1, StepEpochs
      <4> QED
        BY <4>1, <4>2, <4>3 DEF RestInv
    <3> QED
      BY <3>2, <3>3
  <2> QED
    BY <2>5, <2>6
<1>6. CASE LeadStep
  <2>1. /\ UNCHANGED <<workerE, query, pc, at, epoch, mostRecentlyChosenTid>>
        /\ \A w \in Workers : w \in wrapped => w \in wrapped'
    BY <1>6 DEF LeadStep, LeaderCheck, LeaderTooEarly, LeaderAdvance, env, workerVars,
       txnVars, Transaction!AdvanceEpoch, Transaction!tids
  <2> QED
    BY <1>3, <2>1
<1>7. CASE MakeWorker /\ UNCHANGED txnVars
  <2>1. UNCHANGED <<at, epoch, mostRecentlyChosenTid, query>>
    BY <1>7 DEF MakeWorker, txnVars
  <2>2. /\ next \in Workers /\ pc[next] = "absent" /\ pc' = [pc EXCEPT ![next] = "wait"]
        /\ workerE' = Append(workerE, 0) /\ wrapped' = wrapped
    BY <1>1, <1>7, WorkersAre DEF MakeWorker, MoreWorkers, Goto, DatabaseInv, DatabaseTypes,
       TypeOK, LifeInv, MadeInv
  <2>3. \A v \in Workers : pc[v] = "query" <=> pc'[v] = "query"
    BY <1>1, <2>2
  <2>4. ASSUME NEW v \in Workers, pc[v] = "query" PROVE workerE'[v] = workerE[v]
    <3>1. v \in DOMAIN workerE /\ workerE \in Seq(Epochs)
      BY <1>1, <2>4, WorkerEpochs DEF DatabaseInv, DatabaseTypes, TypeOK
    <3> QED
      BY <2>2, <3>1
  <2> QED
    BY <2>1, <2>2, <2>3, <2>4 DEF RestInv, Running, EpochInv
<1>8. CASE /\ UNCHANGED txnVars
           /\ \/ MakeLogger \/ StoreStart \/ Terminate \/ Log \/ StoreStop
              \/ \E c \in Clients : Submit(c)
  <2>1. UNCHANGED <<workerE, query, pc, wrapped>>
    BY <1>8 DEF MakeLogger, StoreStart, Terminate, JoinLeader, JoinWorker, WorkersJoined,
       CollectResult, JoinLogger, Log, StoreStop, Submit, env, workerVars
  <2> QED
    BY <1>3, <1>8, <2>1 DEF txnVars
<1>9. CASE UNCHANGED allVars
  BY <1>3, <1>9 DEF allVars, vars, env, workerVars, txnVars
<1> QED
  BY <1>4, <1>5, <1>6, <1>7, <1>8, <1>9 DEF SystemNext, ConstructStep, TerminateStep,
     LogStep, WorkStep, Construct

\* run() stores in workerE the epoch it found before each transaction: no TID
\* the transaction chooses is of an earlier one, whatever the epoch starts with
\* and however many times the leader advances it meanwhile, unless it wraps to 0
\* between the load in run() and the choice.
THEOREM EpochsAreAdvertised == SystemSpec => []EpochsAdvertised
<1>1. SystemInit => RestInv /\ EpochInv
  BY DEF SystemInit, Init, Transaction!Init, RestInv, EpochInv
<1>2. EpochInv => EpochsAdvertised
  BY DEF EpochInv, EpochsAdvertised
<1>3. SystemInv /\ RestInv /\ EpochInv /\ [SystemNext]_allVars => RestInv' /\ EpochInv'
  BY EpochStep
<1> QED
  BY <1>1, <1>2, <1>3, SystemInvHolds, PTL DEF SystemSpec

-----------------------------------------------------------------------------
(* The transactions of a database                                          *)

LEMMA SystemRecords == SystemSpec => []Proofs!RecordsInv
<1>1. Proofs!Spec => []Proofs!RecordsInv
  BY Proofs!RecordsHold, TransactionAssumptions
<1> QED
  BY <1>1, SystemIsProved

LEMMA SameProperties ==
    /\ \A t : Proofs!HeldPositions(t) = Transaction!HeldPositions(t)
    /\ Proofs!LocksExclusive => Transaction!LocksExclusive
    /\ Proofs!LockBitOwned => Transaction!LockBitOwned
    /\ Proofs!NoWaitCycle => Transaction!NoWaitCycle
    /\ Proofs!SnapshotReads => Transaction!SnapshotReads
<1>1. \A t : Proofs!HeldPositions(t) = Transaction!HeldPositions(t)
  BY DEF Proofs!HeldPositions, Transaction!HeldPositions
<1>2. Proofs!LocksExclusive => Transaction!LocksExclusive
  BY <1>1 DEF Proofs!LocksExclusive, Transaction!LocksExclusive
<1>3. Proofs!LockBitOwned => Transaction!LockBitOwned
  BY <1>1 DEF Proofs!LockBitOwned, Transaction!LockBitOwned
<1>4. \A v : Proofs!VersionOfWriter(v) = Transaction!VersionOfWriter(v)
  BY SameWords DEF Proofs!VersionOfWriter, Transaction!VersionOfWriter
<1>5. Proofs!SnapshotReads => Transaction!SnapshotReads
  BY <1>4 DEF Proofs!SnapshotReads, Transaction!SnapshotReads
<1>6. \A t : /\ Proofs!KeyOf(t) = Transaction!KeyOf(t)
             /\ \A kind : Proofs!At(t, kind) <=> Transaction!At(t, kind)
  BY DEF Proofs!KeyOf, Transaction!KeyOf, Proofs!At, Transaction!At
<1>7. \A t, u : Proofs!WaitsFor(t, u) <=> Transaction!WaitsFor(t, u)
  BY <1>1, <1>6 DEF Proofs!WaitsFor, Transaction!WaitsFor
<1>8. Proofs!NoWaitCycle => Transaction!NoWaitCycle
  BY <1>7 DEF Proofs!NoWaitCycle, Transaction!NoWaitCycle
<1> QED
  BY <1>1, <1>2, <1>3, <1>5, <1>8

LEMMA SameSerializability ==
    Proofs!SerializableButForCollisions => Transaction!SerializableButForCollisions
<1>1. \A H, v : Proofs!VersionOf(H, v) = Transaction!VersionOf(H, v)
  BY SameWords DEF Proofs!VersionOf, Transaction!VersionOf
<1>2. \A a, b : Proofs!WordLess(a, b) <=> Transaction!WordLess(a, b)
  BY DEF Proofs!WordLess, Transaction!WordLess
<1>3. Proofs!EpochCollision <=> Transaction!EpochCollision
  BY <1>1 DEF Proofs!EpochCollision, Transaction!EpochCollision
<1>4. Proofs!ConflictEdges(history) = Transaction!ConflictEdges(history)
  BY <1>1, <1>2 DEF Proofs!ConflictEdges, Transaction!ConflictEdges, Proofs!ReadFromEdges,
     Transaction!ReadFromEdges, Proofs!OverwriteEdges, Transaction!OverwriteEdges,
     Proofs!AntiDependencyEdges, Transaction!AntiDependencyEdges
<1>5. Proofs!Cardinality(history) = Transaction!Cardinality(history)
  BY DEF Proofs!Cardinality, Transaction!Cardinality
<1>6. Proofs!ConflictSerializable(history) <=> Transaction!ConflictSerializable(history)
  BY <1>4, <1>5 DEF Proofs!ConflictSerializable, Transaction!ConflictSerializable,
     Proofs!SerialOrderExists, Transaction!SerialOrderExists
<1> QED
  BY <1>3, <1>6 DEF Proofs!SerializableButForCollisions,
     Transaction!SerializableButForCollisions

\* Whatever the clients submit and however the threads of the database
\* interleave: records are locked by one transaction at a time and by no other
\* than one in its commit phase, transactions never wait in a circle, reads
\* return what was installed with their TID, and the committed transactions are
\* serializable as long as no two epochs give a record the same tid.
THEOREM SystemIsolation ==
    SystemSpec => [](/\ Transaction!LocksOwned /\ Transaction!NoWaitCycle
                     /\ Transaction!SnapshotReads
                     /\ Transaction!SerializableButForCollisions)
<1>1. Proofs!RecordsInv => Transaction!LocksOwned /\ Transaction!SnapshotReads
  BY SameProperties DEF Proofs!RecordsInv, Proofs!GrowthInv, Proofs!LockInv,
     Proofs!SnapshotInv, Transaction!LocksOwned
<1>2. Proofs!Spec => []Proofs!NoWaitCycle
  BY Proofs!WaitsEnd, TransactionAssumptions
<1>3. SystemSpec => []Transaction!NoWaitCycle
  BY <1>2, SystemIsProved, SameProperties, PTL
<1>4. Proofs!Spec => []Proofs!SerializableButForCollisions
  BY Proofs!SerializableWithinEpochs, TransactionAssumptions
<1>5. SystemSpec => []Transaction!SerializableButForCollisions
  BY <1>4, SystemIsProved, SameSerializability, PTL
<1> QED
  BY <1>1, <1>3, <1>5, SystemRecords, PTL

-----------------------------------------------------------------------------
(* What terminate() leaves                                                 *)

Committed == {t \in Queries : at[t] = "committed"}

\* C[w] is the set of the transactions w has counted as commits.
Credited(C) ==
    /\ \A w \in Workers : Cardinality(C[w]) = result[w].commits
    /\ \A v, w \in Workers : v # w => C[v] \cap C[w] = {}
    /\ UNION {C[w] : w \in Workers} = Committed
    /\ total.commits = Cardinality(UNION {C[w] : w \in deleted})

CreditInv == \E C \in [Workers -> SUBSET Queries] : Credited(C)

LEMMA CreditInit == SystemInit => CreditInv /\ DeleteInv
<1> SUFFICES ASSUME SystemInit PROVE CreditInv /\ DeleteInv
  OBVIOUS
<1> DEFINE C == [w \in Workers |-> {}]
<1>1. C \in [Workers -> SUBSET Queries]
  OBVIOUS
<1>2. Cardinality({}) = 0
  BY FS_EmptySet
<1>3. UNION {C[w] : w \in Workers} = {} /\ UNION {C[w] : w \in deleted} = {}
  BY DEF SystemInit, Init
<1>4. Committed = {}
  BY DEF SystemInit, Transaction!Init, Committed
<1>5. Credited(C)
  BY <1>2, <1>3, <1>4 DEF Credited, SystemInit, Init, ZeroResult
<1>6. DeleteInv
  BY DEF SystemInit, Init, DeleteInv
<1> QED
  BY <1>1, <1>5, <1>6 DEF CreditInv

\* Only the end of a query moves a transaction into Committed.
LEMMA CommittedStep ==
    ASSUME SystemInv, NEW w \in Workers, StepQuery(w)
    PROVE  /\ query[w] \in Queries \ Committed
           /\ \A t \in Queries \ {query[w]} : at'[t] = at[t]
           /\ at'[query[w]] = "committed" =>
                 /\ result' = [result EXCEPT ![w].commits = @ + 1]
                 /\ Committed' = Committed \cup {query[w]}
           /\ at'[query[w]] # "committed" =>
                 /\ \A v \in Workers : result'[v].commits = result[v].commits
                 /\ Committed' = Committed
           /\ UNCHANGED mainVars
<1> DEFINE t == query[w]
<1>1. /\ result \in [Workers -> Counts] /\ DatabaseInv /\ Proofs!TypeOK
  BY DEF SystemInv, DatabaseInv, DatabaseTypes
<1>2. t \in Queries /\ Proofs!Step(t)
  BY <1>1, QueryInHand, SameSteps DEF StepQuery
<1>3. at[t] # "committed" /\ \A u \in Queries \ {t} : at'[u] = at[u]
  <2> HIDE DEF t
  <2> QED
    BY <1>1, <1>2, StepEpochs DEF Proofs!Finished
<1>4. at'[t] = "committed" => Committed' = Committed \cup {t}
  BY <1>2, <1>3 DEF Committed
<1>5. at'[t] # "committed" => Committed' = Committed
  BY <1>2, <1>3 DEF Committed
<1>6. result[w] \in Counts
  BY <1>1
<1>7. CASE at'[t] \in Transaction!Finished
  <2>1. /\ \/ result' = [result EXCEPT ![w].commits = @ + 1]
           \/ result' = [result EXCEPT ![w].aborts = @ + 1]
        /\ UNCHANGED mainVars
        /\ result'[w].commits > result[w].commits <=> at'[t] = "committed"
    BY <1>7 DEF StepQuery, RunQuery
  <2>2. result[w].commits \in Nat
    BY <1>6 DEF Counts
  <2>3. result' = [result EXCEPT ![w].commits = @ + 1] =>
            result'[w].commits = result[w].commits + 1
    BY <1>1, <1>6 DEF Counts
  <2>4. result' = [result EXCEPT ![w].aborts = @ + 1] =>
            \A v \in Workers : result'[v].commits = result[v].commits
    BY <1>1 DEF Counts
  <2>5. at'[t] = "committed" => result' = [result EXCEPT ![w].commits = @ + 1]
    BY <2>1, <2>2, <2>4
  <2>6. at'[t] # "committed" => \A v \in Workers : result'[v].commits = result[v].commits
    BY <2>1, <2>2, <2>3, <2>4
  <2> QED
    BY <1>2, <1>3, <1>4, <1>5, <2>1, <2>5, <2>6 DEF Committed
<1>8. CASE at'[t] \notin Transaction!Finished
  <2>1. UNCHANGED <<result, mainVars>> /\ at'[t] # "committed"
    BY <1>8 DEF StepQuery, vars, workerVars, Transaction!Finished
  <2> QED
    BY <1>2, <1>3, <1>5, <2>1 DEF Committed
<1> QED
  BY <1>7, <1>8

LEMMA CreditCommit ==
    ASSUME SystemInv, DeleteInv, CreditInv, NEW w \in Workers, StepQuery(w)
    PROVE  CreditInv'
<1> DEFINE t == query[w]
<1>1. PICK C \in [Workers -> SUBSET Queries] : Credited(C)
  BY DEF CreditInv
<1>2. w \notin deleted /\ deleted' = deleted /\ total' = total /\ deleted \subseteq Workers
  <2>1. pc[w] = "query"
    BY DEF StepQuery
  <2>2. deleted = {}
    BY <2>1 DEF SystemInv, DatabaseInv, LifeInv, JoinInv
  <2> QED
    BY <2>2, CommittedStep DEF mainVars
<1>3. CASE at'[t] # "committed"
  <2>1. \A v \in Workers : result'[v].commits = result[v].commits
    BY <1>3, CommittedStep
  <2>2. Committed' = Committed
    BY <1>3, CommittedStep
  <2>3. Credited(C)'
    BY <1>1, <1>2, <2>1, <2>2 DEF Credited
  <2> QED
    BY <2>3 DEF CreditInv
<1>4. CASE at'[t] = "committed"
  <2>1. /\ t \in Queries /\ t \notin Committed /\ Committed' = Committed \cup {t}
        /\ result' = [result EXCEPT ![w].commits = @ + 1]
    BY <1>4, CommittedStep
  <2> HIDE DEF t
  <2>2. PICK D \in [Workers -> SUBSET Queries] : D = [C EXCEPT ![w] = @ \cup {t}]
    BY <1>1, <2>1
  <2>3. \A v \in Workers : t \notin C[v]
    BY <1>1, <2>1 DEF Credited
  <2>4. Cardinality(D[w]) = Cardinality(C[w]) + 1
    <3>1. IsFiniteSet(C[w])
      BY <1>1, QueriesFinite, FS_Subset
    <3> QED
      BY <1>1, <2>2, <2>3, <3>1, FS_AddElement
  <2>5. /\ result'[w].commits = result[w].commits + 1
        /\ \A v \in Workers \ {w} : result'[v].commits = result[v].commits
    BY <2>1 DEF SystemInv, DatabaseInv, DatabaseTypes, Counts
  <2>6. \A v \in Workers : Cardinality(D[v]) = result'[v].commits
    BY <1>1, <2>2, <2>4, <2>5 DEF Credited
  <2>7. \A v, u \in Workers : v # u => D[v] \cap D[u] = {}
    BY <1>1, <2>2, <2>3 DEF Credited
  <2>8. UNION {D[v] : v \in Workers} = Committed'
    BY <1>1, <2>1, <2>2 DEF Credited
  <2>9. total'.commits = Cardinality(UNION {D[v] : v \in deleted'})
    <3>1. \A v \in deleted : D[v] = C[v]
      BY <1>1, <1>2, <2>2
    <3>2. UNION {D[v] : v \in deleted'} = UNION {C[v] : v \in deleted}
      BY <1>2, <3>1
    <3> QED
      BY <1>1, <1>2, <3>2 DEF Credited
  <2>10. Credited(D)'
    BY <2>6, <2>7, <2>8, <2>9 DEF Credited
  <2> QED
    BY <2>2, <2>10 DEF CreditInv
<1> QED
  BY <1>3, <1>4

LEMMA CreditCollect ==
    ASSUME SystemInv, DeleteInv, CreditInv, CollectResult, UNCHANGED txnVars
    PROVE  CreditInv'
<1>1. PICK C \in [Workers -> SUBSET Queries] : Credited(C)
  BY DEF CreditInv
<1>2. next \in Workers /\ next \notin deleted /\ deleted \subseteq Workers
  BY WorkersAre DEF CollectResult, DeleteInv, SystemInv, DatabaseInv, DatabaseTypes, TypeOK
<1>3. total'.commits = total.commits + result[next].commits
  BY DEF CollectResult
<1>4. deleted' = deleted \cup {next} /\ result' = result /\ Committed' = Committed
  BY DEF CollectResult, workerVars, txnVars, Committed
<1> DEFINE A == UNION {C[v] : v \in deleted}
<1>5. UNION {C[v] : v \in deleted'} = A \cup C[next]
  BY <1>4
<1>6. A \cap C[next] = {}
  BY <1>1, <1>2 DEF Credited
<1>7. IsFiniteSet(A) /\ IsFiniteSet(C[next])
  <2>1. A \subseteq Queries /\ C[next] \subseteq Queries
    BY <1>1, <1>2
  <2> QED
    BY <2>1, QueriesFinite, FS_Subset
<1>8. total'.commits = Cardinality(A \cup C[next])
  <2>1. Cardinality(A \cup C[next]) = Cardinality(A) + Cardinality(C[next])
    BY <1>6, <1>7, Disjoint
  <2> QED
    BY <1>1, <1>2, <1>3, <2>1 DEF Credited
<1>9. Credited(C)'
  BY <1>1, <1>4, <1>5, <1>8 DEF Credited
<1> QED
  BY <1>9 DEF CreditInv

LEMMA CreditStep ==
    ASSUME SystemInv, DeleteInv, CreditInv, [SystemNext]_allVars
    PROVE  CreditInv'
<1>1. CASE UNCHANGED <<result, deleted, total, at>>
  BY <1>1 DEF CreditInv, Credited, Committed
<1>2. ASSUME NEW w \in Workers, WorkStep(w) PROVE CreditInv'
  <2>1. CASE StepQuery(w)
    BY <2>1, CreditCommit
  <2>2. CASE Loop(w) /\ UNCHANGED txnVars
    BY <1>1, <2>2 DEF Loop, SeeStart, CheckStop, Dequeue, DequeueFails, LoadE, StoreE,
       mainVars, txnVars
  <2> QED
    BY <1>2, <2>1, <2>2 DEF WorkStep
<1>3. CASE Terminate /\ UNCHANGED txnVars
  <2>1. CASE CollectResult
    BY <1>3, <2>1, CreditCollect
  <2>2. CASE JoinLeader \/ JoinWorker \/ WorkersJoined \/ JoinLogger
    BY <1>1, <1>3, <2>2 DEF JoinLeader, JoinWorker, WorkersJoined, JoinLogger, workerVars,
       txnVars
  <2> QED
    BY <1>3, <2>1, <2>2 DEF Terminate
<1>4. CASE LeadStep
  BY <1>1, <1>4 DEF LeadStep, LeaderCheck, LeaderTooEarly, LeaderAdvance, mainVars,
     workerVars, txnVars, Transaction!AdvanceEpoch
<1>5. CASE /\ UNCHANGED txnVars
           /\ \/ Construct \/ Log \/ StoreStop \/ \E c \in Clients : Submit(c)
  BY <1>1, <1>5 DEF Construct, MakeLogger, MakeWorker, StoreStart, Log, StoreStop, Submit,
     mainVars, workerVars, txnVars
<1>6. CASE UNCHANGED allVars
  BY <1>1, <1>6 DEF allVars, vars, mainVars, workerVars, txnVars
<1> QED
  BY <1>2, <1>3, <1>4, <1>5, <1>6 DEF SystemNext, ConstructStep, TerminateStep, LogStep

ReturnInv == RestInv /\ CreditInv /\ DeleteInv

LEMMA ReturnInvHolds == SystemSpec => []ReturnInv
<1>1. SystemInit => ReturnInv /\ EpochInv
  BY CreditInit DEF SystemInit, Init, Transaction!Init, RestInv, EpochInv, ReturnInv
<1>2. SystemInv /\ ReturnInv /\ EpochInv /\ [SystemNext]_allVars => ReturnInv' /\ EpochInv'
  BY EpochStep, CreditStep, DeleteStep, ThreadStep DEF ReturnInv, SystemInv
<1> QED
  BY <1>1, <1>2, SystemInvHolds, PTL DEF SystemSpec

\* No record is locked, and nobody is about to store a TID.
LEMMA NothingHeld ==
    ASSUME SystemInv, Proofs!RecordsInv, RestInv, main = "returned"
    PROVE  /\ \A t \in Queries : at[t] \in {"query", "committed", "aborted"}
           /\ \A t \in Queries : Proofs!HeldPositions(t) = {}
           /\ \A k \in Keys : word[k] \in Proofs!Words /\ word[k].lock = 0
           /\ \A k : ~ Proofs!Publishing(k)
<1>1. \A w \in Workers : pc[w] = "done"
  BY DEF SystemInv, DatabaseInv, LifeInv, JoinInv
<1>2. \A t \in Queries : at[t] \in {"query", "committed", "aborted"}
  BY <1>1 DEF RestInv, Running, Proofs!Finished
<1>3. \A t \in Queries : Proofs!HeldPositions(t) = {}
  BY <1>2 DEF Proofs!HeldPositions
<1>4. \A k : ~ Proofs!Publishing(k)
  BY <1>2 DEF Proofs!Publishing
<1>5. \A k \in Keys : word[k] \in Proofs!Words /\ word[k].lock = 0
  <2> SUFFICES ASSUME NEW k \in Keys PROVE word[k] \in Proofs!Words /\ word[k].lock = 0
    OBVIOUS
  <2>1. word[k] \in Proofs!Words
    BY DEF SystemInv, Proofs!TypeOK
  <2>2. word[k].lock # 1
    BY <1>3 DEF Proofs!RecordsInv, Proofs!GrowthInv, Proofs!LockInv, Proofs!LockBitOwned
  <2> QED
    BY <2>1, <2>2 DEF Proofs!Words
<1> QED
  BY <1>2, <1>3, <1>4, <1>5

\* The history has a record for each transaction that has committed.
LEMMA HistoryCounted ==
    ASSUME SystemInv, Proofs!RecordsInv, RestInv, main = "returned"
    PROVE  Cardinality(history) = Cardinality(Committed)
<1>1. Proofs!Chosen = Committed
  BY NothingHeld DEF Proofs!Chosen, Committed
<1>2. /\ \A h \in history : h.id \in Committed
      /\ \A g, h \in history : g.id = h.id => g = h
      /\ \A t \in Committed : \E h \in history : h.id = t
  BY <1>1 DEF Proofs!RecordsInv, Proofs!HistoryInv
<1>3. IsFiniteSet(Committed)
  BY QueriesFinite, FS_Subset DEF Committed
<1>4. IsFiniteSet(history) /\ ExistsBijection(history, Committed)
  <2> DEFINE f == [h \in history |-> h.id]
  <2>1. f \in Injection(history, Committed)
    BY <1>2 DEF Injection, IsInjective
  <2>2. f \in Surjection(history, Committed)
    BY <1>2 DEF Surjection
  <2> QED
    BY <1>3, <2>1, <2>2, FS_Injection DEF ExistsBijection, Bijection
<1> QED
  BY <1>4, FS_Bijection

LEMMA LastWriters ==
    ASSUME SystemInv, Proofs!RecordsInv, RestInv, main = "returned",
           NEW k \in Keys, NEW h \in history, k \in h.writes
    PROVE  h.id = value[k] \/ Transaction!WordLess(h.tid, word[k])
<1>1. h.id \in Queries /\ h.tid \in Proofs!Words /\ h.tid.lock = 0
  <2>1. h.id \in Queries /\ h.tid = mostRecentlyChosenTid[h.id]
    BY DEF Proofs!RecordsInv, Proofs!HistoryInv, Proofs!Chosen
  <2>2. mostRecentlyChosenTid[h.id].lock = 0
    BY <2>1 DEF Proofs!RecordsInv, Proofs!GrowthInv, Proofs!LockInv, Proofs!ChosenUnlocked
  <2> QED
    BY <2>1, <2>2 DEF SystemInv, Proofs!TypeOK
<1>2. word[k] \in Proofs!Words /\ word[k].lock = 0
  BY NothingHeld
<1>3. Proofs!Overwritten(h, k)
  <2>1. ~ Proofs!StillHeld(h, k)
    BY <1>1, NothingHeld DEF Proofs!StillHeld
  <2> QED
    BY <2>1 DEF Proofs!RecordsInv, Proofs!InstalledInv
<1>4. word[k] = h.tid => h.id = value[k]
  <2>1. Proofs!Unlocked(word[k]) = word[k]
    BY <1>2 DEF Proofs!Unlocked, Proofs!Words
  <2> QED
    BY <1>3, <2>1, NothingHeld DEF Proofs!Overwritten
<1>5. word[k] # h.tid => Transaction!WordLess(h.tid, word[k])
  <2>1. ~ Proofs!Precedes(word[k], h.tid)
    BY <1>3 DEF Proofs!Overwritten
  <2>2. /\ h.tid.epoch \in Nat /\ h.tid.tid \in Nat
        /\ word[k].epoch \in Nat /\ word[k].tid \in Nat
    BY <1>1, <1>2, SystemAssumption DEF Proofs!Words, Proofs!Epochs
  <2>3. word[k] # h.tid => word[k].epoch # h.tid.epoch \/ word[k].tid # h.tid.tid
    BY <1>1, <1>2 DEF Proofs!Words
  <2> QED
    BY <2>1, <2>2, <2>3 DEF Proofs!Precedes, Transaction!WordLess
<1> QED
  BY <1>4, <1>5

LEMMA AllSettled ==
    ASSUME SystemInv, Proofs!RecordsInv, RestInv, main = "returned", NEW k \in Keys
    PROVE  Settled(k)
<1>1. word[k] \in Proofs!Words /\ word[k].lock = 0 /\ ~ Proofs!Publishing(k)
  BY NothingHeld
<1>2. word[k] = Proofs!VersionOfWriter(value[k])
  <2>1. Proofs!Unlocked(word[k]) = word[k]
    BY <1>1 DEF Proofs!Unlocked, Proofs!Words
  <2> QED
    BY <1>1, <2>1 DEF Proofs!RecordsInv, Proofs!SnapshotInv, Proofs!ValueInv
<1>3. \A h \in WritersOf(k) : h \in history /\ k \in h.writes
  BY DEF WritersOf
<1>4. CASE value[k] = NoTxn
  <2>1. word[k] = Transaction!ZeroWord
    BY <1>2, <1>4, SameWords DEF Proofs!VersionOfWriter
  <2>2. ASSUME NEW h \in WritersOf(k) PROVE FALSE
    <3>1. h.id \in Queries /\ h.tid \in Proofs!Words
      <4>1. h.id \in Queries /\ h.tid = mostRecentlyChosenTid[h.id]
        BY <1>3 DEF Proofs!RecordsInv, Proofs!HistoryInv, Proofs!Chosen
      <4> QED
        BY <4>1 DEF SystemInv, Proofs!TypeOK
    <3>2. Transaction!WordLess(h.tid, word[k])
      BY <1>3, <1>4, <3>1, LastWriters, SystemAssumption
    <3>3. /\ h.tid.epoch \in Nat /\ h.tid.tid \in Nat /\ h.tid.lock \in Nat
      BY <3>1, SystemAssumption, KVDatabaseAssumption DEF Proofs!Words, Proofs!Epochs
    <3> QED
      BY <2>1, <3>2, <3>3 DEF Transaction!WordLess, Transaction!ZeroWord
  <2> QED
    BY <1>1, <1>4, <2>1, <2>2 DEF Settled
<1>5. CASE value[k] # NoTxn
  <2>1. PICK h \in history : h.id = value[k] /\ k \in h.writes
    BY <1>5 DEF Proofs!RecordsInv, Proofs!InstalledInv
  <2>2. h.tid = word[k]
    BY <1>2, <1>5, <2>1 DEF Proofs!VersionOfWriter, Proofs!RecordsInv, Proofs!HistoryInv
  <2>3. ASSUME NEW g \in WritersOf(k) \ {h} PROVE Transaction!WordLess(g.tid, h.tid)
    <3>1. g.id # value[k]
      BY <1>3, <2>1, <2>3 DEF Proofs!RecordsInv, Proofs!HistoryInv
    <3> QED
      BY <1>3, <2>2, <3>1, LastWriters
  <2>4. h \in WritersOf(k)
    BY <2>1 DEF WritersOf
  <2> QED
    BY <1>1, <2>1, <2>2, <2>3, <2>4 DEF Settled
<1> QED
  BY <1>4, <1>5

\* terminate() deletes no worker whose thread still runs; when it returns, it
\* has counted every commit, and every record is unlocked and holds the value
\* and the TID of the committed transaction whose TID is the largest of those
\* that wrote it, or is as it was made if none did.
THEOREM TerminateSettles == SystemSpec => []SettledAtReturn
<1>1. SystemInv /\ Proofs!RecordsInv /\ ReturnInv => SettledAtReturn
  <2> SUFFICES ASSUME SystemInv, Proofs!RecordsInv, ReturnInv
               PROVE  SettledAtReturn
    OBVIOUS
  <2>1. deleted \subseteq Workers /\ \A w \in deleted : pc[w] = "done"
    <3>1. deleted \subseteq Workers
      BY DEF SystemInv, DatabaseInv, DatabaseTypes
    <3> QED
      BY <3>1 DEF SystemInv, DatabaseInv, LifeInv, JoinInv
  <2>2. CASE main = "returned"
    <3>1. total.commits = Cardinality(Committed)
      BY <2>2 DEF ReturnInv, CreditInv, Credited, DeleteInv
    <3>2. total.commits = Cardinality(history)
      BY <2>2, <3>1, HistoryCounted DEF ReturnInv
    <3> QED
      BY <2>1, <2>2, <3>2, AllSettled DEF SettledAtReturn, ReturnInv
  <2> QED
    BY <2>1, <2>2 DEF SettledAtReturn
<1> QED
  BY <1>1, SystemInvHolds, SystemRecords, ReturnInvHolds, PTL
=============================================================================
