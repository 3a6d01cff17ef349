-------------------------- MODULE KVDatabaseProofs --------------------------
(***************************************************************************)
(* Theorems about KVDatabase, for every number of workers, every set of    *)
(* clients and every number of queries.                                    *)
(***************************************************************************)
EXTENDS KVDatabase, FiniteSetTheorems, TLAPS

-----------------------------------------------------------------------------
(* Types                                                                   *)

Counts == [commits : Nat, aborts : Nat]

DatabaseTypes ==
    /\ TypeOK
    /\ deleted \subseteq Workers
    /\ total \in Counts
    /\ sent \in [Clients -> Nat]
    /\ queue \in [Workers -> [Clients -> Seq(Nat)]]
    /\ query \in [Workers -> (Clients \X Nat) \cup {NoQuery}]
    /\ loaded \in [Workers -> Epochs]
    /\ result \in [Workers -> Counts]

LEMMA WorkersAre ==
    /\ NumWorkers \in Nat \ {0}
    /\ Workers = 1 .. NumWorkers
BY KVDatabaseAssumption DEF Workers

LEMMA EpochsAre ==
    /\ 0 \in Epochs /\ Epochs \subseteq Nat
    /\ \A e \in Epochs : /\ NextEpoch(e) \in Epochs
                         /\ NextEpoch(e) = 0 \/ NextEpoch(e) = e + 1
BY KVDatabaseAssumption DEF Epochs, NextEpoch

WorkerLabels == {"absent", "wait", "loop", "empty", "dequeue", "loadE", "storeE",
                 "query", "done"}

LEMMA WorkersAtLabels == TypeOK => pc \in [Workers -> WorkerLabels]
BY DEF TypeOK, WorkerLabels

LEMMA DatabaseTypesInit == Init => DatabaseTypes
<1> SUFFICES ASSUME Init PROVE DatabaseTypes
  OBVIOUS
<1>1. 0 \in Epochs /\ 1 \in 1 .. (NumWorkers + 1)
  BY WorkersAre, EpochsAre
<1>2. ZeroResult \in Counts
  BY DEF ZeroResult, Counts
<1>3. workerE = <<>> /\ Len(workerE) <= NumWorkers
  BY WorkersAre DEF Init
<1> QED
  BY <1>1, <1>2, <1>3, WorkersAre DEF Init, DatabaseTypes, TypeOK

\* The constructor makes the workers in order, workerE before the thread.
MadeInv ==
    /\ main = "construct" => Len(workerE) = next - 1
    /\ \A w \in Workers : pc[w] # "absent" => w <= Len(workerE)

LEMMA MakeWorkerTypes ==
    ASSUME DatabaseTypes, MadeInv, MakeWorker
    PROVE  DatabaseTypes'
<1>1. next \in Workers /\ next' = next + 1 /\ next' \in 1 .. (NumWorkers + 1)
  BY WorkersAre DEF MakeWorker, MoreWorkers, DatabaseTypes, TypeOK
<1>0. Len(workerE) = next - 1
  BY DEF MadeInv, MakeWorker
<1>2. workerE' = Append(workerE, 0) /\ 0 \in Epochs /\ workerE \in Seq(Epochs)
  BY EpochsAre DEF MakeWorker, DatabaseTypes, TypeOK
<1>3. workerE' \in Seq(Epochs) /\ Len(workerE') = next
  <2>1. Len(workerE') = Len(workerE) + 1 /\ workerE' \in Seq(Epochs)
    BY <1>2
  <2> QED
    BY <1>0, <1>1, <2>1 DEF Workers
<1>4. Len(workerE') <= NumWorkers
  BY <1>1, <1>3, WorkersAre
<1> QED
  BY <1>1, <1>3, <1>4 DEF MakeWorker, DatabaseTypes, TypeOK, Goto, clientVars

LEMMA MoreCounts ==
    ASSUME NEW r \in Counts
    PROVE  [r EXCEPT !.commits = @ + 1] \in Counts /\ [r EXCEPT !.aborts = @ + 1] \in Counts
BY DEF Counts

LEMMA WorkTypes ==
    ASSUME DatabaseTypes, MadeInv, NEW w \in Workers, Work(w)
    PROVE  DatabaseTypes'
<1> USE DEF DatabaseTypes, TypeOK, env, mainVars, clientVars, Goto
<1>1. CASE SeeStart(w)
  BY <1>1 DEF SeeStart
<1>2. CASE CheckStop(w)
  BY <1>2 DEF CheckStop
<1>3. CASE Dequeue(w)
  <2>1. PICK c \in Clients :
            /\ queue[w][c] # <<>>
            /\ query' = [query EXCEPT ![w] = <<c, Head(queue[w][c])>>]
            /\ queue' = [queue EXCEPT ![w][c] = Tail(@)]
    BY <1>3 DEF Dequeue
  <2>2. queue[w][c] \in Seq(Nat)
    OBVIOUS
  <2>3. Head(queue[w][c]) \in Nat /\ Tail(queue[w][c]) \in Seq(Nat)
    BY <2>1, <2>2
  <2>4. queue' \in [Workers -> [Clients -> Seq(Nat)]]
    BY <2>1, <2>3
  <2>5. query' \in [Workers -> (Clients \X Nat) \cup {NoQuery}]
    BY <2>1, <2>3
  <2> QED
    BY <1>3, <2>4, <2>5 DEF Dequeue
<1>4. CASE DequeueFails(w)
  BY <1>4 DEF DequeueFails
<1>5. CASE LoadE(w)
  BY <1>5 DEF LoadE
<1>6. CASE StoreE(w)
  <2>1. loaded' \in [Workers -> Epochs]
    BY <1>6, EpochsAre DEF StoreE
  <2>2. workerE' = [workerE EXCEPT ![w] = loaded[w]] /\ loaded[w] \in Epochs
    BY <1>6 DEF StoreE
  <2>3. w \in 1 .. Len(workerE) /\ workerE \in Seq(Epochs)
    BY <1>6, WorkersAre DEF StoreE, MadeInv
  <2>4. workerE' \in Seq(Epochs) /\ Len(workerE') = Len(workerE)
    BY <2>2, <2>3
  <2> QED
    BY <1>6, <2>1, <2>4 DEF StoreE
<1>7. CASE RunQuery(w)
  <2>1. result[w] \in Counts
    OBVIOUS
  <2>2. /\ [result[w] EXCEPT !.commits = @ + 1] \in Counts
        /\ [result[w] EXCEPT !.aborts = @ + 1] \in Counts
    BY <2>1, MoreCounts
  <2>3. result' \in [Workers -> Counts]
    BY <1>7, <2>1, <2>2 DEF RunQuery, Counts
  <2>4. query' \in [Workers -> (Clients \X Nat) \cup {NoQuery}]
    BY <1>7 DEF RunQuery
  <2> QED
    BY <1>7, <2>3, <2>4 DEF RunQuery
<1> QED
  BY <1>1, <1>2, <1>3, <1>4, <1>5, <1>6, <1>7 DEF Work, Loop

LEMMA MainTypes ==
    ASSUME DatabaseTypes, MakeLogger \/ StoreStart \/ StoreStop \/ Terminate \/ Lead \/ Log
    PROVE  DatabaseTypes'
<1> USE DEF DatabaseTypes, TypeOK, env, mainVars, clientVars, workerVars
<1>1. CASE MakeLogger
  BY <1>1 DEF MakeLogger
<1>2. CASE StoreStart
  BY <1>2 DEF StoreStart
<1>3. CASE StoreStop
  BY <1>3 DEF StoreStop
<1>4. CASE JoinLeader
  BY <1>4, WorkersAre, SMTT(30) DEF JoinLeader
<1>5. CASE JoinWorker
  BY <1>5, WorkersAre, SMTT(30) DEF JoinWorker
<1>6. CASE WorkersJoined
  BY <1>6, WorkersAre, SMTT(30) DEF WorkersJoined
<1>7. CASE CollectResult
  <2>1. next \in Workers /\ next' \in 1 .. (NumWorkers + 1)
    BY <1>7, WorkersAre DEF CollectResult
  <2>2. result[next] \in Counts /\ total \in Counts
    BY <2>1
  <2>3. total' \in Counts
    BY <1>7, <2>2 DEF CollectResult, Counts
  <2> QED
    BY <1>7, <2>1, <2>3 DEF CollectResult
<1>8. CASE JoinLogger
  BY <1>8 DEF JoinLogger
<1>9. CASE Lead
  <2>1. CASE LeaderCheck
    BY <2>1 DEF LeaderCheck
  <2>2. CASE LeaderTooEarly
    BY <2>2 DEF LeaderTooEarly
  <2>3. CASE LeaderAdvance
    <3>1. E' \in Epochs
      BY <2>3, EpochsAre DEF LeaderAdvance
    <3> QED
      BY <2>3, <3>1 DEF LeaderAdvance
  <2> QED
    BY <1>9, <2>1, <2>2, <2>3 DEF Lead
<1>10. CASE Log
  BY <1>10 DEF Log
<1> HIDE DEF DatabaseTypes, TypeOK, env, mainVars, clientVars, workerVars
<1> QED
  BY <1>1, <1>2, <1>3, <1>4, <1>5, <1>6, <1>7, <1>8, <1>9, <1>10 DEF Terminate

LEMMA SubmitTypes ==
    ASSUME DatabaseTypes, NEW c \in Clients, Submit(c)
    PROVE  DatabaseTypes'
<1> USE DEF DatabaseTypes, TypeOK, env, mainVars, workerVars
<1>1. sent' \in [Clients -> Nat] /\ sent'[c] \in Nat
  BY DEF Submit
<1>2. PICK w \in Workers : queue' = [queue EXCEPT ![w][c] = Append(@, sent'[c])]
  BY DEF Submit
<1>3. queue[w][c] \in Seq(Nat)
  OBVIOUS
<1>4. queue' \in [Workers -> [Clients -> Seq(Nat)]]
  BY <1>1, <1>2, <1>3
<1> QED
  BY <1>1, <1>4 DEF Submit

-----------------------------------------------------------------------------
(* The constructor, the epochs and the joins                               *)

\* No worker has seen an epoch that is still to come, unless E has wrapped.
EpochsBehind ==
    /\ \A w \in Workers \ wrapped :
          /\ w \in DOMAIN workerE /\ pc[w] # "storeE" => workerE[w] <= E
          /\ pc[w] = "storeE" => loaded[w] <= E

\* terminate() knows which threads have ended.
JoinInv ==
    /\ main = "joinWorkers" => \A w \in Workers : w < next => pc[w] = "done"
    /\ main \in {"collect", "returned"} => \A w \in Workers : pc[w] = "done"
    /\ main \notin {"collect", "returned"} => deleted = {}

LifeInv == MadeInv /\ EpochsBehind /\ JoinInv

LEMMA LifeInit == Init => LifeInv
<1> SUFFICES ASSUME Init PROVE LifeInv
  OBVIOUS
<1>1. workerE = <<>> /\ \A w \in Workers : pc[w] = "absent"
  BY DEF Init
<1> QED
  BY <1>1 DEF Init, LifeInv, MadeInv, EpochsBehind, JoinInv

LEMMA WorkLife ==
    ASSUME DatabaseTypes, LifeInv, NEW w \in Workers, Work(w)
    PROVE  LifeInv'
<1>1. \E label : pc' = [pc EXCEPT ![w] = label] /\ label # "absent"
  BY DEF Work, Loop, SeeStart, CheckStop, Dequeue, DequeueFails, LoadE, StoreE,
         RunQuery, Goto
<1>2. pc[w] # "absent" /\ pc[w] # "done"
  BY DEF Work, Loop, SeeStart, CheckStop, Dequeue, DequeueFails, LoadE, StoreE, RunQuery
<1>3. E' = E /\ main' = main /\ next' = next /\ deleted' = deleted
  BY DEF Work, Loop, SeeStart, CheckStop, Dequeue, DequeueFails, LoadE, StoreE,
         RunQuery, env, mainVars
<1>4. pc \in [Workers -> WorkerLabels] /\ E \in Nat
  BY EpochsAre, WorkersAtLabels DEF DatabaseTypes, TypeOK
<1>5. /\ workerE' \in Seq(Epochs) /\ Len(workerE') = Len(workerE)
      /\ EpochsBehind'
  <2>0. workerE \in Seq(Epochs) /\ loaded \in [Workers -> Epochs]
    BY DEF DatabaseTypes, TypeOK
  <2>1. CASE LoadE(w)
    <3>1. /\ workerE' = workerE /\ loaded' = [loaded EXCEPT ![w] = E]
          /\ wrapped' = wrapped \ {w} /\ pc' = [pc EXCEPT ![w] = "storeE"]
      BY <2>1 DEF LoadE, env, Goto
    <3> QED
      BY <1>3, <1>4, <2>0, <3>1 DEF LifeInv, EpochsBehind
  <2>2. CASE StoreE(w)
    <3>1. w \in 1 .. Len(workerE)
      BY <1>2, WorkersAre DEF LifeInv, MadeInv
    <3>2. /\ workerE' = [workerE EXCEPT ![w] = loaded[w]]
          /\ loaded' = [loaded EXCEPT ![w] = 0] /\ wrapped' = wrapped
          /\ pc[w] = "storeE" /\ pc' = [pc EXCEPT ![w] = "query"]
      BY <2>2 DEF StoreE, Goto
    <3> QED
      BY <1>3, <1>4, <2>0, <3>1, <3>2 DEF LifeInv, EpochsBehind
  <2>3. CASE SeeStart(w) \/ CheckStop(w) \/ Dequeue(w) \/ DequeueFails(w) \/ RunQuery(w)
    <3>1. UNCHANGED <<workerE, loaded, wrapped>>
      BY <2>3 DEF SeeStart, CheckStop, Dequeue, DequeueFails, RunQuery, env
    <3>2. /\ pc[w] # "storeE" /\ pc'[w] # "storeE"
          /\ \A v \in Workers \ {w} : pc'[v] = pc[v]
      BY <1>4, <2>3 DEF SeeStart, CheckStop, Dequeue, DequeueFails, RunQuery, Goto
    <3> QED
      BY <1>3, <2>0, <3>1, <3>2 DEF LifeInv, EpochsBehind
  <2> QED
    BY <2>1, <2>2, <2>3 DEF Work, Loop
<1>6. MadeInv'
  BY <1>1, <1>2, <1>3, <1>4, <1>5 DEF LifeInv, MadeInv
<1>7. JoinInv'
  BY <1>1, <1>2, <1>3, <1>4 DEF LifeInv, JoinInv
<1> QED
  BY <1>5, <1>6, <1>7 DEF LifeInv

LEMMA MainLife ==
    ASSUME DatabaseTypes, LifeInv,
           \/ MakeLogger \/ MakeWorker \/ StoreStart \/ StoreStop \/ Terminate
           \/ Lead \/ Log \/ \E c \in Clients : Submit(c)
    PROVE  LifeInv'
<1> USE DEF env, mainVars, clientVars, workerVars
<1>1. CASE MakeWorker
  <2>1. /\ workerE \in Seq(Epochs) /\ workerE' = Append(workerE, 0)
        /\ next \in Workers /\ next' = next + 1 /\ Len(workerE) = next - 1
        /\ E' = E /\ E \in Nat /\ main' = main /\ main = "construct"
        /\ UNCHANGED <<loaded, deleted, wrapped>>
        /\ pc' = [pc EXCEPT ![next] = "wait"] /\ pc \in [Workers -> WorkerLabels]
    BY <1>1, WorkersAre, EpochsAre, WorkersAtLabels DEF MakeWorker, MoreWorkers, DatabaseTypes, TypeOK, LifeInv, MadeInv,
       Goto
  <2>2. /\ Len(workerE') = next /\ workerE'[next] = 0
        /\ \A v \in DOMAIN workerE' \ {next} : v \in DOMAIN workerE /\ workerE'[v] = workerE[v]
    BY <2>1, WorkersAre
  <2>3. MadeInv'
    BY <2>1, <2>2, WorkersAre DEF LifeInv, MadeInv
  <2>4. EpochsBehind'
    BY <2>1, <2>2, EpochsAre DEF LifeInv, EpochsBehind
  <2>5. JoinInv'
    BY <2>1 DEF LifeInv, JoinInv
  <2> QED
    BY <2>3, <2>4, <2>5 DEF LifeInv
<1>2. CASE MakeLogger \/ StoreStart \/ StoreStop \/ Log \/ \E c \in Clients : Submit(c)
  BY <1>2 DEF MakeLogger, StoreStart, StoreStop, Log, Submit, LifeInv, MadeInv, EpochsBehind,
     JoinInv
<1>3. CASE Lead
  <2>0. E \in Epochs /\ workerE \in Seq(Epochs) /\ loaded \in [Workers -> Epochs]
    BY DEF DatabaseTypes, TypeOK
  <2>1. /\ \/ E' = E /\ wrapped' = wrapped
           \/ wrapped' = Workers
           \/ E' = E + 1 /\ wrapped' = wrapped
        /\ E \in Nat /\ \A w \in Workers : loaded[w] \in Nat
        /\ \A w \in DOMAIN workerE : workerE[w] \in Nat
    <3>1. E \in Nat /\ \A w \in Workers : loaded[w] \in Nat
      BY <2>0, EpochsAre
    <3>2. ASSUME NEW w \in DOMAIN workerE PROVE workerE[w] \in Nat
      <4>1. workerE[w] \in Epochs
        BY <2>0
      <4> QED
        BY <4>1, EpochsAre
    <3> QED
      BY <1>3, <2>0, <3>1, <3>2, EpochsAre DEF Lead, LeaderCheck, LeaderTooEarly, LeaderAdvance,
         env
  <2>2. UNCHANGED <<workerE, loaded, main, next, deleted, pc>>
    BY <1>3 DEF Lead, LeaderCheck, LeaderTooEarly, LeaderAdvance
  <2> QED
    BY <2>1, <2>2 DEF LifeInv, MadeInv, EpochsBehind, JoinInv
<1>4. CASE Terminate
  <2>1. UNCHANGED <<E, workerE, loaded, wrapped, pc>> /\ main # "construct" /\ main' # "construct"
    BY <1>4 DEF Terminate, JoinLeader, JoinWorker, WorkersJoined, CollectResult, JoinLogger
  <2>2. MadeInv' /\ EpochsBehind'
    BY <2>1 DEF LifeInv, MadeInv, EpochsBehind
  <2>3. JoinInv'
    <3>0. next \in Nat
      BY WorkersAre DEF DatabaseTypes, TypeOK
    <3>1. CASE JoinLeader
      BY <3>1, WorkersAre DEF JoinLeader, LifeInv, JoinInv
    <3>2. CASE JoinWorker
      BY <3>0, <3>2, WorkersAre DEF JoinWorker, Joined, LifeInv, JoinInv
    <3>3. CASE WorkersJoined
      BY <3>0, <3>3, WorkersAre DEF WorkersJoined, LifeInv, JoinInv
    <3>4. CASE CollectResult \/ JoinLogger
      BY <3>4 DEF CollectResult, JoinLogger, LifeInv, JoinInv
    <3> QED
      BY <1>4, <3>1, <3>2, <3>3, <3>4 DEF Terminate
  <2> QED
    BY <2>2, <2>3 DEF LifeInv
<1> QED
  BY <1>1, <1>2, <1>3, <1>4

LEMMA DatabaseStep ==
    ASSUME DatabaseTypes, LifeInv, [Next]_vars
    PROVE  DatabaseTypes' /\ LifeInv'
<1>1. CASE UNCHANGED vars
  BY <1>1 DEF vars, env, mainVars, clientVars, workerVars, DatabaseTypes, TypeOK, LifeInv,
     MadeInv, EpochsBehind, JoinInv
<1>2. CASE Next
  <2>1. ASSUME NEW w \in Workers, Work(w) PROVE DatabaseTypes' /\ LifeInv'
    BY <2>1, WorkTypes, WorkLife DEF LifeInv
  <2>2. ASSUME NEW c \in Clients, Submit(c) PROVE DatabaseTypes' /\ LifeInv'
    BY <2>2, SubmitTypes, MainLife
  <2>3. CASE MakeWorker
    BY <2>3, MakeWorkerTypes, MainLife DEF LifeInv
  <2>4. CASE MakeLogger \/ StoreStart \/ StoreStop \/ Terminate \/ Lead \/ Log
    BY <2>4, MainTypes, MainLife
  <2> QED
    BY <1>2, <2>1, <2>2, <2>3, <2>4 DEF Next, Construct
<1> QED
  BY <1>1, <1>2

-----------------------------------------------------------------------------
(* The queries                                                             *)

Holding == {"loadE", "storeE", "query"}

\* A worker holds a query while it is between taking and finishing it; nobody
\* else holds it, and it has not ended before.
HandInv ==
    \A w \in Workers :
        /\ pc[w] \in Holding <=> query[w] # NoQuery
        /\ query[w] \notin ended
        /\ query[w] # NoQuery => \A v \in Workers : query[v] = query[w] => v = w

\* A query that waits does so at one place of one queue, and nowhere else.
QueueInv ==
    \A w \in Workers, c \in Clients : \A i \in DOMAIN queue[w][c] :
        LET n == queue[w][c][i] IN
        /\ <<c, n>> \notin ended
        /\ \A v \in Workers : query[v] # <<c, n>>
        /\ \A v \in Workers : \A j \in DOMAIN queue[v][c] :
              queue[v][c][j] = n => v = w /\ j = i

SentInv == \A c \in Clients : sent[c] <= Quota[c]

PlacesInv == HandInv /\ QueueInv /\ SentInv /\ NoQueryLost

InQueue(q, w, c, i) == i \in DOMAIN queue[w][c] /\ q = <<c, queue[w][c][i]>>

\* NoQueryLost, query by query.
WasSent(q) == \E c \in Clients : \E n \in 1 .. sent[c] : q = <<c, n>>
InHands(q) == q # NoQuery /\ \E w \in Workers : q = query[w]
Waits(q) == \E w \in Workers, c \in Clients : \E i : InQueue(q, w, c, i)
EachPlaced == \A q : WasSent(q) <=> q \in ended \/ InHands(q) \/ Waits(q)

LEMMA Places == NoQueryLost <=> EachPlaced
<1>1. \A q : q \in Submitted <=> \E c \in Clients : \E n \in 1 .. sent[c] : q = <<c, n>>
  <2> SUFFICES ASSUME NEW q
               PROVE  q \in Submitted <=> \E c \in Clients : \E n \in 1 .. sent[c] : q = <<c, n>>
    OBVIOUS
  <2>1. q \in Submitted <=> \E c \in Clients : q \in {c} \X (1 .. sent[c])
    BY DEF Submitted
  <2>2. ASSUME NEW c \in Clients
        PROVE  q \in {c} \X (1 .. sent[c]) <=> \E n \in 1 .. sent[c] : q = <<c, n>>
    OBVIOUS
  <2> QED
    BY <2>1, <2>2
<1>2. \A q : q \in InHand <=> q # NoQuery /\ \E w \in Workers : q = query[w]
  BY DEF InHand
<1>3. \A q : q \in UNION {Waiting(w) : w \in Workers}
             <=> \E w \in Workers, c \in Clients : \E i : InQueue(q, w, c, i)
  <2>1. \A q : q \in UNION {Waiting(w) : w \in Workers} <=> \E w \in Workers : q \in Waiting(w)
    OBVIOUS
  <2>2. ASSUME NEW q, NEW w \in Workers
        PROVE  q \in Waiting(w) <=> \E c \in Clients : \E i : InQueue(q, w, c, i)
    BY DEF Waiting, InQueue
  <2> QED
    BY <2>1, <2>2
<1> QED
  BY <1>1, <1>2, <1>3 DEF NoQueryLost, EachPlaced, WasSent, InHands, Waits

LEMMA PlacesInit == Init => PlacesInv
<1> SUFFICES ASSUME Init PROVE PlacesInv
  OBVIOUS
<1>1. \A w \in Workers : query[w] = NoQuery /\ pc[w] \notin Holding
  BY DEF Init, Holding
<1>2. \A w \in Workers, c \in Clients : queue[w][c] = <<>> /\ DOMAIN queue[w][c] = {}
  BY DEF Init
<1>3. \A c \in Clients : sent[c] = 0 /\ 1 .. sent[c] = {} /\ Quota[c] \in Nat
  BY KVDatabaseAssumption DEF Init
<1>4. ended = {}
  BY DEF Init
<1>5. NoQueryLost
  BY <1>1, <1>2, <1>3, <1>4, Places DEF InQueue, EachPlaced, WasSent, InHands, Waits
<1> QED
  BY <1>1, <1>2, <1>3, <1>4, <1>5 DEF PlacesInv, HandInv, QueueInv, SentInv

\* Steps that move no query.
LEMMA PlacesFrame ==
    ASSUME PlacesInv, UNCHANGED <<sent, queue, query, ended>>,
           \A w \in Workers : pc'[w] \in Holding <=> pc[w] \in Holding
    PROVE  PlacesInv'
<1>1. NoQueryLost'
  BY DEF PlacesInv, NoQueryLost, Submitted, InHand, Waiting
<1> QED
  BY <1>1, SMTT(30) DEF PlacesInv, HandInv, QueueInv, SentInv

LEMMA QueuedOnly ==
    ASSUME QueueInv, NEW c \in Clients, NEW w \in Workers, NEW i \in DOMAIN queue[w][c]
    PROVE  <<c, queue[w][c][i]>> \notin ended /\ \A v \in Workers : query[v] # <<c, queue[w][c][i]>>
BY DEF QueueInv

LEMMA QueuedOnce ==
    ASSUME QueueInv, NEW c \in Clients,
           NEW w \in Workers, NEW i \in DOMAIN queue[w][c],
           NEW v \in Workers, NEW j \in DOMAIN queue[v][c], queue[v][c][j] = queue[w][c][i]
    PROVE  v = w /\ j = i
BY DEF QueueInv

LEMMA SubmitPlaces ==
    ASSUME DatabaseTypes, PlacesInv, NEW c \in Clients, Submit(c)
    PROVE  PlacesInv'
<1> DEFINE n == sent[c] + 1
           q0 == <<c, n>>
<1>1. PICK w \in Workers : queue' = [queue EXCEPT ![w][c] = Append(@, n)]
  BY DEF Submit, DatabaseTypes
<1> DEFINE l == Len(queue[w][c])
<1>2. /\ sent' = [sent EXCEPT ![c] = n] /\ sent[c] \in Nat /\ n \in Nat /\ sent[c] < Quota[c]
      /\ UNCHANGED <<query, ended, pc>> /\ sent \in [Clients -> Nat]
  BY DEF Submit, DatabaseTypes, workerVars
<1>3. queue \in [Workers -> [Clients -> Seq(Nat)]] /\ queue[w][c] \in Seq(Nat) /\ l \in Nat
  BY DEF DatabaseTypes
<1>4. \A v \in Workers, d \in Clients : v # w \/ d # c => queue'[v][d] = queue[v][d]
  BY <1>1, <1>3
<1>5. queue'[w][c] = Append(queue[w][c], n)
  BY <1>1, <1>3
<1>6. /\ DOMAIN queue'[w][c] = 1 .. (l + 1) /\ DOMAIN queue[w][c] = 1 .. l
      /\ queue'[w][c][l + 1] = n
      /\ \A i \in 1 .. l : queue'[w][c][i] = queue[w][c][i]
  BY <1>3, <1>5, <1>2
<1> DEFINE WillBeIn(q, v, d, i) == i \in DOMAIN queue'[v][d] /\ q = <<d, queue'[v][d][i]>>
<1>7. ASSUME NEW v \in Workers, NEW d \in Clients, NEW q, NEW i
      PROVE  WillBeIn(q, v, d, i) <=>
                 InQueue(q, v, d, i) \/ (v = w /\ d = c /\ i = l + 1 /\ q = q0)
  <2>1. CASE v # w \/ d # c
    BY <1>4, <2>1 DEF InQueue
  <2>2. CASE v = w /\ d = c
    <3>1. WillBeIn(q, v, d, i) <=> i \in 1 .. (l + 1) /\ q = <<c, queue'[w][c][i]>>
      BY <1>6, <2>2
    <3>2. InQueue(q, v, d, i) <=> i \in 1 .. l /\ q = <<c, queue[w][c][i]>>
      BY <1>6, <2>2 DEF InQueue
    <3>3. CASE i = l + 1
      BY <1>3, <1>6, <2>2, <3>1, <3>2, <3>3
    <3>4. CASE i \in 1 .. l
      BY <1>3, <1>6, <2>2, <3>1, <3>2, <3>4
    <3>5. CASE i \notin 1 .. (l + 1)
      BY <1>3, <2>2, <3>1, <3>2, <3>5
    <3> QED
      BY <1>3, <3>3, <3>4, <3>5
  <2> QED
    BY <2>1, <2>2
\* The query is new.
<1>8. /\ q0 \notin ended /\ \A v \in Workers : query[v] # q0
      /\ \A v \in Workers : \A i : ~ InQueue(q0, v, c, i)
  <2>1. ~ \E d \in Clients : \E m \in 1 .. sent[d] : q0 = <<d, m>>
    BY <1>2
  <2>2. q0 # NoQuery
    BY DEF NoQuery
  <2> HIDE DEF q0
  <2> QED
    BY <2>1, <2>2, Places DEF PlacesInv, EachPlaced, WasSent, InHands, Waits
<1>9. HandInv'
  BY <1>2 DEF PlacesInv, HandInv
<1>10. QueueInv'
  <2> SUFFICES ASSUME NEW v \in Workers, NEW d \in Clients, NEW i \in DOMAIN queue'[v][d]
               PROVE  /\ <<d, queue'[v][d][i]>> \notin ended
                      /\ \A u \in Workers : query[u] # <<d, queue'[v][d][i]>>
                      /\ \A u \in Workers : \A j \in DOMAIN queue'[u][d] :
                            queue'[u][d][j] = queue'[v][d][i] => u = v /\ j = i
    BY <1>2 DEF QueueInv
  <2> DEFINE q == <<d, queue'[v][d][i]>>
  <2>1. WillBeIn(q, v, d, i)
    OBVIOUS
  <2>2. InQueue(q, v, d, i) \/ (v = w /\ d = c /\ i = l + 1 /\ q = q0)
    BY <1>7, <2>1
  <2>3. ASSUME NEW u \in Workers, NEW j \in DOMAIN queue'[u][d], queue'[u][d][j] = queue'[v][d][i]
        PROVE  InQueue(q, u, d, j) \/ (u = w /\ d = c /\ j = l + 1 /\ q = q0)
    <3>1. WillBeIn(q, u, d, j)
      BY <2>3
    <3> QED
      BY <1>7, <3>1
  <2>4. CASE InQueue(q, v, d, i)
    <3>1. q # q0
      <4>1. q = q0 => d = c
        OBVIOUS
      <4> QED
        BY <1>8, <2>4, <4>1
    <3>2. i \in DOMAIN queue[v][d] /\ queue[v][d][i] = queue'[v][d][i]
      BY <2>4 DEF InQueue
    <3>3. ASSUME NEW u \in Workers, NEW j \in DOMAIN queue'[u][d],
                 queue'[u][d][j] = queue'[v][d][i]
          PROVE  u = v /\ j = i
      <4>1. InQueue(q, u, d, j)
        BY <2>3, <3>1, <3>3
      <4>2. j \in DOMAIN queue[u][d] /\ queue[u][d][j] = queue'[v][d][i]
        BY <4>1 DEF InQueue
      <4>3. QueueInv
        BY DEF PlacesInv
      <4> QED
        BY <3>2, <4>2, <4>3, QueuedOnce
    <3> QED
      BY <3>2, <3>3 DEF PlacesInv, QueueInv
  <2>5. CASE v = w /\ d = c /\ i = l + 1 /\ q = q0
    <3>1. ASSUME NEW u \in Workers, NEW j \in DOMAIN queue'[u][d],
                 queue'[u][d][j] = queue'[v][d][i]
          PROVE  u = v /\ j = i
      <4>1. ~ InQueue(q, u, d, j)
        BY <1>8, <2>5
      <4>2. InQueue(q, u, d, j) \/ (u = w /\ d = c /\ j = l + 1 /\ q = q0)
        BY <2>3, <3>1
      <4> HIDE DEF q, q0
      <4> QED
        BY <2>5, <4>1, <4>2
    <3> QED
      BY <1>8, <2>5, <3>1
  <2> QED
    BY <2>2, <2>4, <2>5
<1>11. SentInv'
  <2>1. \A d \in Clients : Quota[d] \in Nat
    BY KVDatabaseAssumption
  <2> QED
    BY <1>2, <2>1 DEF PlacesInv, SentInv
<1>12. EachPlaced'
  <2> SUFFICES ASSUME NEW q
               PROVE  WasSent(q)' <=> q \in ended' \/ InHands(q)' \/ Waits(q)'
    BY DEF EachPlaced
  <2>1. WasSent(q)' <=> WasSent(q) \/ q = q0
    <3>1. \A d \in Clients : d # c => sent'[d] = sent[d]
      BY <1>2
    <3>2. sent'[c] = n /\ 1 .. n = (1 .. sent[c]) \cup {n}
      BY <1>2
    <3> HIDE DEF n
    <3> QED
      BY <3>1, <3>2 DEF WasSent
  <2>2. Waits(q)' <=> Waits(q) \/ q = q0
    <3>1. Waits(q)' <=> \E v \in Workers, d \in Clients : \E i : WillBeIn(q, v, d, i)
      BY DEF Waits, InQueue
    <3> HIDE DEF WillBeIn
    <3> QED
      BY <1>7, <3>1, ZenonT(60) DEF Waits
  <2>3. InHands(q)' <=> InHands(q)
    BY <1>2 DEF InHands
  <2>4. WasSent(q) <=> q \in ended \/ InHands(q) \/ Waits(q)
    BY Places DEF PlacesInv, EachPlaced
  <2> QED
    BY <1>2, <2>1, <2>2, <2>3, <2>4
<1>13. NoQueryLost'
  <2>1. NoQueryLost' <=> EachPlaced'
    BY Places, PTL
  <2> QED
    BY <1>12, <2>1
<1> QED
  BY <1>9, <1>10, <1>11, <1>13 DEF PlacesInv

LEMMA DequeuePlaces ==
    ASSUME DatabaseTypes, PlacesInv, NEW w \in Workers, Dequeue(w)
    PROVE  PlacesInv'
<1>1. PICK c \in Clients :
          /\ queue[w][c] # <<>>
          /\ query' = [query EXCEPT ![w] = <<c, Head(queue[w][c])>>]
          /\ queue' = [queue EXCEPT ![w][c] = Tail(@)]
  BY DEF Dequeue
<1> DEFINE l == Len(queue[w][c])
           q0 == <<c, queue[w][c][1]>>
<1>2. /\ UNCHANGED <<sent, ended>> /\ pc' = [pc EXCEPT ![w] = "loadE"]
      /\ pc[w] = "dequeue" /\ pc \in [Workers -> WorkerLabels]
  BY WorkersAtLabels DEF Dequeue, DatabaseTypes, Goto
<1>3. /\ queue \in [Workers -> [Clients -> Seq(Nat)]] /\ queue[w][c] \in Seq(Nat)
      /\ l \in Nat \ {0} /\ DOMAIN queue[w][c] = 1 .. l /\ 1 \in DOMAIN queue[w][c]
  <2>1. queue \in [Workers -> [Clients -> Seq(Nat)]] /\ queue[w][c] \in Seq(Nat)
    BY DEF DatabaseTypes
  <2>2. l \in Nat /\ l # 0
    BY <1>1, <2>1
  <2> QED
    BY <2>1, <2>2
<1>4. /\ \A v \in Workers, d \in Clients : v # w \/ d # c => queue'[v][d] = queue[v][d]
      /\ queue'[w][c] = Tail(queue[w][c])
  BY <1>1, <1>3
<1>5. DOMAIN queue'[w][c] = 1 .. (l - 1) /\ \A i \in 1 .. (l - 1) : queue'[w][c][i] = queue[w][c][i + 1]
  BY <1>3, <1>4
<1>6. /\ query \in [Workers -> (Clients \X Nat) \cup {NoQuery}]
      /\ query' = [query EXCEPT ![w] = q0]
  BY <1>1, <1>3 DEF DatabaseTypes
\* Where what waits after the step waited before.
<1> DEFINE Was(v, d, i) == IF v = w /\ d = c THEN i + 1 ELSE i
<1>7. ASSUME NEW v \in Workers, NEW d \in Clients, NEW i \in DOMAIN queue'[v][d]
      PROVE  /\ i \in Nat
             /\ Was(v, d, i) \in DOMAIN queue[v][d]
             /\ queue'[v][d][i] = queue[v][d][Was(v, d, i)]
             /\ v = w /\ d = c => Was(v, d, i) # 1
  <2>1. CASE v = w /\ d = c
    <3>1. i \in 1 .. (l - 1)
      BY <1>5, <1>7, <2>1
    <3>2. i \in Nat /\ i + 1 \in 1 .. l /\ i + 1 # 1
      BY <1>3, <3>1
    <3>3. queue'[w][c][i] = queue[w][c][i + 1] /\ i + 1 \in DOMAIN queue[w][c]
      BY <1>3, <1>5, <3>1, <3>2
    <3> QED
      BY <2>1, <3>2, <3>3
  <2>2. CASE v # w \/ d # c
    <3>1. queue'[v][d] = queue[v][d] /\ queue[v][d] \in Seq(Nat)
      BY <1>3, <1>4, <2>2
    <3>2. i \in 1 .. Len(queue[v][d])
      BY <1>7, <3>1
    <3> QED
      BY <2>2, <3>1, <3>2
  <2> QED
    BY <2>1, <2>2
<1>8. /\ q0 \notin ended /\ q0 # NoQuery /\ \A v \in Workers : query[v] # q0
      /\ InQueue(q0, w, c, 1)
  <2>1. q0 # NoQuery
    BY DEF NoQuery
  <2> QED
    BY <1>3, <2>1 DEF PlacesInv, QueueInv, InQueue
<1>9. HandInv'
  <2>1. \A v \in Workers : query'[v] = IF v = w THEN q0 ELSE query[v]
    BY <1>6
  <2>2. \A v \in Workers : pc'[v] = IF v = w THEN "loadE" ELSE pc[v]
    BY <1>2
  <2> HIDE DEF q0
  <2> QED
    BY <1>2, <1>8, <2>1, <2>2 DEF PlacesInv, HandInv, Holding
<1>10. QueueInv'
  <2> SUFFICES ASSUME NEW v \in Workers, NEW d \in Clients, NEW i \in DOMAIN queue'[v][d]
               PROVE  /\ <<d, queue'[v][d][i]>> \notin ended
                      /\ \A u \in Workers : query'[u] # <<d, queue'[v][d][i]>>
                      /\ \A u \in Workers : \A j \in DOMAIN queue'[u][d] :
                            queue'[u][d][j] = queue'[v][d][i] => u = v /\ j = i
    BY <1>2 DEF QueueInv
  <2>1. QueueInv
    BY DEF PlacesInv
  <2>2. /\ Was(v, d, i) \in DOMAIN queue[v][d] /\ i \in Nat
        /\ queue'[v][d][i] = queue[v][d][Was(v, d, i)]
        /\ v = w /\ d = c => Was(v, d, i) # 1
    BY <1>7
  <2>3. <<d, queue'[v][d][i]>> # q0
    <3>1. CASE d # c
      BY <3>1
    <3>2. CASE d = c
      <4>1. ASSUME queue[v][c][Was(v, d, i)] = queue[w][c][1] PROVE FALSE
        <5> HIDE DEF Was
        <5>1. v = w /\ Was(v, d, i) = 1
          BY <1>3, <2>1, <2>2, <3>2, <4>1, QueuedOnce
        <5> QED
          BY <2>2, <3>2, <5>1
      <4> QED
        BY <2>2, <3>2, <4>1
    <3> QED
      BY <3>1, <3>2
  <2>4. ASSUME NEW u \in Workers PROVE query'[u] # <<d, queue'[v][d][i]>>
    <3>1. query[u] # <<d, queue'[v][d][i]>>
      <4> HIDE DEF Was
      <4>1. query[u] # <<d, queue[v][d][Was(v, d, i)]>>
        BY <2>1, <2>2, QueuedOnly
      <4> QED
        BY <2>2, <4>1
    <3> HIDE DEF q0
    <3> QED
      BY <1>6, <2>3, <3>1
  <2>5. <<d, queue'[v][d][i]>> \notin ended
    <3> HIDE DEF Was
    <3>1. <<d, queue[v][d][Was(v, d, i)]>> \notin ended
      BY <2>1, <2>2, QueuedOnly
    <3> QED
      BY <2>2, <3>1
  <2>6. ASSUME NEW u \in Workers, NEW j \in DOMAIN queue'[u][d],
               queue'[u][d][j] = queue'[v][d][i]
        PROVE  u = v /\ j = i
    <3>1. /\ Was(u, d, j) \in DOMAIN queue[u][d] /\ j \in Nat
          /\ queue'[u][d][j] = queue[u][d][Was(u, d, j)]
      BY <1>7
    <3>2. u = v /\ Was(u, d, j) = Was(v, d, i)
      <4> HIDE DEF Was
      <4>1. queue[u][d][Was(u, d, j)] = queue[v][d][Was(v, d, i)]
        BY <2>2, <2>6, <3>1
      <4> QED
        BY <2>1, <2>2, <3>1, <4>1, QueuedOnce
    <3> QED
      BY <2>2, <3>1, <3>2
  <2> QED
    BY <2>4, <2>5, <2>6
<1>11. SentInv'
  BY <1>2 DEF PlacesInv, SentInv
<1>12. EachPlaced'
  <2> SUFFICES ASSUME NEW q
               PROVE  WasSent(q)' <=> q \in ended' \/ InHands(q)' \/ Waits(q)'
    BY DEF EachPlaced
  <2>1. WasSent(q)' <=> WasSent(q)
    BY <1>2 DEF WasSent
  <2>2. InHands(q)' <=> InHands(q) \/ q = q0
    <3>1. query[w] = NoQuery
      BY <1>2 DEF PlacesInv, HandInv, Holding
    <3> HIDE DEF q0
    <3> QED
      BY <1>6, <1>8, <3>1 DEF InHands
  <2>3. Waits(q)' => Waits(q)
    <3> SUFFICES ASSUME NEW v \in Workers, NEW d \in Clients, NEW i \in DOMAIN queue'[v][d],
                        q = <<d, queue'[v][d][i]>>
                 PROVE  Waits(q)
      BY DEF Waits, InQueue
    <3>1. InQueue(q, v, d, Was(v, d, i))
      BY <1>7 DEF InQueue
    <3> QED
      BY <3>1 DEF Waits
  <2>4. Waits(q) => Waits(q)' \/ q = q0
    <3> SUFFICES ASSUME NEW v \in Workers, NEW d \in Clients, NEW i \in DOMAIN queue[v][d],
                        q = <<d, queue[v][d][i]>>, q # q0
                 PROVE  Waits(q)'
      BY DEF Waits, InQueue
    <3>1. CASE v = w /\ d = c
      <4>1. i \in 1 .. l /\ i # 1
        BY <1>3, <3>1
      <4>2. i - 1 \in 1 .. (l - 1) /\ (i - 1) + 1 = i
        BY <1>3, <4>1, SMTT(30)
      <4>3. i - 1 \in DOMAIN queue'[w][c] /\ q = <<c, queue'[w][c][i - 1]>>
        BY <1>5, <3>1, <4>2
      <4> QED
        BY <4>3 DEF Waits, InQueue
    <3>2. CASE v # w \/ d # c
      <4>1. i \in DOMAIN queue'[v][d] /\ q = <<d, queue'[v][d][i]>>
        BY <1>4, <3>2
      <4> QED
        BY <4>1 DEF Waits, InQueue
    <3> QED
      BY <3>1, <3>2
  <2>5. q = q0 => Waits(q)
    BY <1>8 DEF Waits
  <2>6. WasSent(q) <=> q \in ended \/ InHands(q) \/ Waits(q)
    BY Places DEF PlacesInv, EachPlaced
  <2> HIDE DEF q0
  <2> QED
    BY <1>2, <2>1, <2>2, <2>3, <2>4, <2>5, <2>6
<1>13. NoQueryLost'
  <2>1. NoQueryLost' <=> EachPlaced'
    BY Places, PTL
  <2> QED
    BY <1>12, <2>1
<1> QED
  BY <1>9, <1>10, <1>11, <1>13 DEF PlacesInv

\* Lost from a worker's hands, a query has ended.
LEMMA RunPlaces ==
    ASSUME DatabaseTypes, PlacesInv, NEW w \in Workers, RunQuery(w)
    PROVE  PlacesInv'
<1>1. /\ UNCHANGED <<sent, queue>> /\ ended' = ended \cup {query[w]}
      /\ query' = [query EXCEPT ![w] = NoQuery]
      /\ query \in [Workers -> (Clients \X Nat) \cup {NoQuery}]
      /\ pc' = [pc EXCEPT ![w] = "loop"] /\ pc[w] = "query"
      /\ pc \in [Workers -> WorkerLabels]
  BY WorkersAtLabels DEF RunQuery, DatabaseTypes, Goto, clientVars
<1>2. query[w] # NoQuery /\ \A v \in Workers \ {w} : query[v] # query[w]
  BY <1>1 DEF PlacesInv, HandInv, Holding
<1>3. \A v \in Workers : /\ query'[v] = IF v = w THEN NoQuery ELSE query[v]
                         /\ pc'[v] = IF v = w THEN "loop" ELSE pc[v]
  BY <1>1
<1>4. HandInv'
  <2>1. NoQuery \notin ended'
    <3>1. ~ WasSent(NoQuery)
      BY DEF WasSent, NoQuery
    <3>2. NoQuery \notin ended
      BY <3>1, Places DEF PlacesInv, EachPlaced
    <3> QED
      BY <1>1, <1>2, <3>2
  <2> QED
    BY <1>1, <1>2, <1>3, <2>1 DEF PlacesInv, HandInv, Holding
<1>5. QueueInv'
  <2>1. ASSUME NEW v \in Workers, NEW d \in Clients, NEW i \in DOMAIN queue[v][d]
        PROVE  /\ <<d, queue[v][d][i]>> \notin ended'
               /\ \A u \in Workers : query'[u] # <<d, queue[v][d][i]>>
               /\ \A u \in Workers : \A j \in DOMAIN queue[u][d] :
                     queue[u][d][j] = queue[v][d][i] => u = v /\ j = i
    <3>1. QueueInv
      BY DEF PlacesInv
    <3>2. /\ <<d, queue[v][d][i]>> \notin ended
          /\ \A u \in Workers : query[u] # <<d, queue[v][d][i]>>
      BY <3>1, QueuedOnly
    <3>3. NoQuery # <<d, queue[v][d][i]>>
      BY DEF NoQuery
    <3>4. <<d, queue[v][d][i]>> \notin ended'
      BY <1>1, <3>2
    <3>5. \A u \in Workers : query'[u] # <<d, queue[v][d][i]>>
      BY <1>3, <3>2, <3>3
    <3> QED
      BY <3>1, <3>4, <3>5, QueuedOnce
  <2>2. queue' = queue
    BY <1>1
  <2> QED
    BY <2>1, <2>2 DEF QueueInv
<1>6. SentInv'
  BY <1>1 DEF PlacesInv, SentInv
<1>7. EachPlaced'
  <2> SUFFICES ASSUME NEW q
               PROVE  WasSent(q)' <=> q \in ended' \/ InHands(q)' \/ Waits(q)'
    BY DEF EachPlaced
  <2>1. /\ WasSent(q)' <=> WasSent(q)
        /\ Waits(q)' <=> Waits(q)
    BY <1>1 DEF WasSent, Waits, InQueue
  <2>2. InHands(q) <=> InHands(q)' \/ q = query[w]
    BY <1>2, <1>3 DEF InHands
  <2>3. WasSent(q) <=> q \in ended \/ InHands(q) \/ Waits(q)
    BY Places DEF PlacesInv, EachPlaced
  <2> QED
    BY <1>1, <2>1, <2>2, <2>3
<1>8. NoQueryLost'
  <2>1. NoQueryLost' <=> EachPlaced'
    BY Places, PTL
  <2> QED
    BY <1>7, <2>1
<1> QED
  BY <1>4, <1>5, <1>6, <1>8 DEF PlacesInv

-----------------------------------------------------------------------------
(* The theorems                                                            *)

DatabaseInv == DatabaseTypes /\ LifeInv /\ PlacesInv

LEMMA PlacesStep ==
    ASSUME DatabaseTypes, LifeInv, PlacesInv, [Next]_vars
    PROVE  PlacesInv'
<1>1. CASE UNCHANGED vars
  BY <1>1, PlacesFrame DEF vars, clientVars, workerVars
<1>2. ASSUME NEW w \in Workers, Work(w) PROVE PlacesInv'
  <2>1. CASE Dequeue(w)
    BY <2>1, DequeuePlaces
  <2>2. CASE RunQuery(w)
    BY <2>2, RunPlaces
  <2>3. CASE SeeStart(w) \/ CheckStop(w) \/ DequeueFails(w) \/ LoadE(w) \/ StoreE(w)
    <3>1. UNCHANGED <<sent, queue, query, ended>>
      BY <2>3 DEF SeeStart, CheckStop, DequeueFails, LoadE, StoreE, clientVars
    <3>2. \E label : /\ pc' = [pc EXCEPT ![w] = label]
                     /\ label \in Holding <=> pc[w] \in Holding
      BY <2>3 DEF SeeStart, CheckStop, DequeueFails, LoadE, StoreE, Goto, Holding
    <3>3. \A v \in Workers : pc'[v] \in Holding <=> pc[v] \in Holding
      BY <3>2, WorkersAtLabels DEF DatabaseTypes
    <3> QED
      BY <3>1, <3>3, PlacesFrame
  <2> QED
    BY <1>2, <2>1, <2>2, <2>3 DEF Work, Loop
<1>3. CASE MakeWorker
  <2>1. UNCHANGED <<sent, queue, query, ended>> /\ pc' = [pc EXCEPT ![next] = "wait"]
    BY <1>3 DEF MakeWorker, clientVars, Goto
  <2>2. next \in Workers => pc[next] = "absent"
    BY <1>3, WorkersAre DEF MakeWorker, LifeInv, MadeInv, DatabaseTypes, TypeOK
  <2>3. \A v \in Workers : pc'[v] \in Holding <=> pc[v] \in Holding
    BY <2>1, <2>2, WorkersAtLabels DEF DatabaseTypes, Holding
  <2> QED
    BY <2>1, <2>3, PlacesFrame
<1>4. CASE MakeLogger \/ StoreStart \/ StoreStop \/ Terminate \/ Lead \/ Log
  <2>1. UNCHANGED <<sent, queue, query, ended, pc>>
    BY <1>4 DEF MakeLogger, StoreStart, StoreStop, Log, clientVars, workerVars,
       Terminate, JoinLeader, JoinWorker, WorkersJoined, CollectResult, JoinLogger,
       Lead, LeaderCheck, LeaderTooEarly, LeaderAdvance
  <2> QED
    BY <2>1, PlacesFrame
<1>5. ASSUME NEW c \in Clients, Submit(c) PROVE PlacesInv'
  BY <1>5, SubmitPlaces
<1> QED
  BY <1>1, <1>2, <1>3, <1>4, <1>5 DEF Next, Construct

LEMMA DatabaseInductive == DatabaseInv /\ [Next]_vars => DatabaseInv'
BY DatabaseStep, PlacesStep DEF DatabaseInv

LEMMA DatabaseInvHolds == Spec => []DatabaseInv
<1>1. Init => DatabaseInv
  BY DatabaseTypesInit, LifeInit, PlacesInit DEF DatabaseInv
<1> QED
  BY <1>1, DatabaseInductive, PTL DEF Spec

\* The variables keep their types, and workerE has no more elements than there
\* are workers.
THEOREM DatabaseTyping == Spec => []TypeOK
<1>1. DatabaseInv => TypeOK
  BY DEF DatabaseInv, DatabaseTypes
<1> QED
  BY <1>1, DatabaseInvHolds, PTL

\* executeTransaction(), Worker::run(): every query that was submitted waits in
\* a queue, is in a worker's hands or has ended, and nothing else does.
THEOREM QueriesAreKept == Spec => []NoQueryLost
<1>1. DatabaseInv => NoQueryLost
  BY DEF DatabaseInv, PlacesInv
<1> QED
  BY <1>1, DatabaseInvHolds, PTL

\* Nor is a query in two of these places, or twice in one: none is run again.
THEOREM QueriesRunOnce == Spec => [](HandInv /\ QueueInv)
<1>1. DatabaseInv => HandInv /\ QueueInv
  BY DEF DatabaseInv, PlacesInv
<1> QED
  BY <1>1, DatabaseInvHolds, PTL

-----------------------------------------------------------------------------
(* The outcomes                                                            *)

\* The loop of terminate() deletes the workers in order.
DeleteInv ==
    /\ main = "collect" => \A w \in Workers : w \in deleted <=> w < next
    /\ main = "returned" => deleted = Workers

LEMMA Disjoint ==
    ASSUME NEW A, NEW B, IsFiniteSet(A), IsFiniteSet(B), A \cap B = {}
    PROVE  Cardinality(A \cup B) = Cardinality(A) + Cardinality(B)
<1>1. Cardinality(A \cap B) = 0
  BY FS_EmptySet
<1>2. Cardinality(A \cup B) = Cardinality(A) + Cardinality(B) - Cardinality(A \cap B)
  BY FS_Union
<1>3. Cardinality(A) \in Nat /\ Cardinality(B) \in Nat
  BY FS_CardinalityType
<1> QED
  BY <1>1, <1>2, <1>3

LEMMA DeleteStep ==
    ASSUME DatabaseInv, DeleteInv, [Next]_vars
    PROVE  DeleteInv'
<1>0. next \in Nat /\ deleted \subseteq Workers
  BY WorkersAre DEF DatabaseInv, DatabaseTypes, TypeOK
<1>1. CASE Terminate
  <2>1. CASE CollectResult
    BY <1>0, <2>1, WorkersAre DEF CollectResult, DeleteInv
  <2>2. CASE JoinLogger
    <3>1. \A w \in Workers : w \in deleted
      BY <1>0, <2>2, WorkersAre DEF JoinLogger, DeleteInv
    <3> QED
      BY <1>0, <2>2, <3>1 DEF JoinLogger, DeleteInv
  <2>3. CASE WorkersJoined
    BY <2>3, WorkersAre DEF WorkersJoined, DeleteInv, DatabaseInv, LifeInv, JoinInv
  <2>4. CASE JoinLeader \/ JoinWorker
    BY <2>4 DEF JoinLeader, JoinWorker, DeleteInv
  <2> QED
    BY <1>1, <2>1, <2>2, <2>3, <2>4 DEF Terminate
<1>2. CASE Construct \/ StoreStop
  BY <1>2 DEF Construct, MakeLogger, MakeWorker, StoreStart, StoreStop, mainVars, DeleteInv
<1>3. CASE UNCHANGED mainVars
  BY <1>3 DEF mainVars, DeleteInv
<1>4. CASE Lead \/ Log \/ \E c \in Clients : Submit(c)
  BY <1>3, <1>4 DEF Lead, LeaderCheck, LeaderTooEarly, LeaderAdvance, Log, Submit
<1>5. CASE \E w \in Workers : Work(w)
  BY <1>3, <1>5 DEF Work, Loop, SeeStart, CheckStop, Dequeue, DequeueFails, LoadE, StoreE,
     RunQuery
<1> QED
  BY <1>1, <1>2, <1>3, <1>4, <1>5 DEF Next, vars

Uncollected == UNION {Counted(w) : w \in Workers \ deleted}

\* What is counted so far is as many outcomes as there are ended queries.
CountInv ==
    /\ DeleteInv
    /\ IsFiniteSet(ended) /\ IsFiniteSet(Uncollected)
    /\ Outcomes = Cardinality(ended)

LEMMA UncollectedPairs ==
    \A p : p \in Uncollected <=> \E w \in Workers \ deleted : p \in Counted(w)
BY DEF Uncollected

LEMMA CountInit == Init => CountInv
<1> SUFFICES ASSUME Init PROVE CountInv
  OBVIOUS
<1>1. \A w \in Workers : Counted(w) = {}
  BY DEF Init, ZeroResult, Counted
<1>2. Uncollected = {} /\ ended = {} /\ total = ZeroResult
  BY <1>1, UncollectedPairs DEF Init
<1>3. DeleteInv
  BY DEF Init, DeleteInv
<1> QED
  BY <1>2, <1>3, FS_EmptySet DEF CountInv, Outcomes, Uncollected, ZeroResult

LEMMA CountFrame ==
    ASSUME CountInv, DeleteInv', UNCHANGED <<result, deleted, total, ended>>
    PROVE  CountInv'
<1>1. Uncollected' = Uncollected
  BY DEF Uncollected, Counted
<1>2. Outcomes' = Outcomes
  BY <1>1 DEF Outcomes, Uncollected
<1> QED
  BY <1>1, <1>2 DEF CountInv

\* A query that ends is one that had not ended, and its worker counts it.
LEMMA RunCounted ==
    ASSUME DatabaseInv, CountInv, DeleteInv', NEW w \in Workers, RunQuery(w)
    PROVE  CountInv'
<1> DEFINE n == result[w].commits + result[w].aborts
           p == <<w, n + 1>>
<1>1. /\ result \in [Workers -> Counts] /\ result[w] \in Counts
      /\ n \in Nat /\ total \in Counts
  BY DEF DatabaseInv, DatabaseTypes, Counts
<1>2. /\ ended' = ended \cup {query[w]} /\ query[w] \notin ended
      /\ deleted' = deleted /\ total' = total
  BY DEF RunQuery, mainVars, DatabaseInv, PlacesInv, HandInv
<1>3. w \notin deleted
  BY DEF RunQuery, DatabaseInv, LifeInv, JoinInv
<1>4. /\ \A v \in Workers \ {w} : result'[v] = result[v]
      /\ result'[w].commits + result'[w].aborts = n + 1
  BY <1>1 DEF RunQuery, Counts
<1>5. Counted(w)' = Counted(w) \cup {p} /\ p \notin Counted(w)
  <2>1. 1 .. (n + 1) = (1 .. n) \cup {n + 1} /\ n + 1 \notin 1 .. n
    BY <1>1
  <2> HIDE DEF n
  <2>2. Counted(w) = {w} \X (1 .. n) /\ Counted(w)' = {w} \X (1 .. (n + 1))
    BY <1>4 DEF Counted, n
  <2> QED
    BY <2>1, <2>2
<1>6. Uncollected' = Uncollected \cup {p} /\ p \notin Uncollected
  <2>1. \A v \in Workers \ {w} : Counted(v)' = Counted(v)
    BY <1>4 DEF Counted
  <2>2. \A v \in Workers \ {w} : p \notin Counted(v)
    BY DEF Counted
  <2>3. \A q : q \in Uncollected' <=> \E v \in Workers \ deleted : q \in Counted(v)'
    BY <1>2 DEF Uncollected
  <2> HIDE DEF p
  <2> QED
    BY <1>3, <1>5, <2>1, <2>2, <2>3, UncollectedPairs
<1>7. /\ IsFiniteSet(Uncollected') /\ Cardinality(Uncollected') = Cardinality(Uncollected) + 1
      /\ Cardinality(Uncollected) \in Nat
  BY <1>6, FS_AddElement, FS_CardinalityType DEF CountInv
<1>8. IsFiniteSet(ended') /\ Cardinality(ended') = Cardinality(ended) + 1
  BY <1>2, FS_AddElement DEF CountInv
<1>9. Outcomes' = Outcomes + 1
  BY <1>1, <1>2, <1>7 DEF Outcomes, Uncollected, Counts
<1> QED
  BY <1>7, <1>8, <1>9 DEF CountInv

\* collect() moves a worker's outcomes to the total.
LEMMA CollectCounted ==
    ASSUME DatabaseInv, CountInv, DeleteInv', CollectResult
    PROVE  CountInv'
<1> DEFINE n == result[next].commits + result[next].aborts
<1>1. next \in Workers /\ next \notin deleted
  BY WorkersAre DEF CollectResult, CountInv, DeleteInv, DatabaseInv, DatabaseTypes, TypeOK
<1>2. result[next] \in Counts /\ total \in Counts /\ n \in Nat
  BY <1>1 DEF DatabaseInv, DatabaseTypes, Counts
<1>3. deleted' = deleted \cup {next} /\ result' = result /\ ended' = ended
  BY DEF CollectResult, workerVars
<1>4. total'.commits + total'.aborts = total.commits + total.aborts + n
  BY <1>2 DEF CollectResult, Counts
<1>5. Uncollected = Uncollected' \cup Counted(next) /\ Uncollected' \cap Counted(next) = {}
  <2>1. \A q : q \in Uncollected' <=> \E v \in Workers \ deleted' : q \in Counted(v)
    BY <1>3 DEF Uncollected, Counted
  <2>2. \A v \in Workers \ {next} : Counted(v) \cap Counted(next) = {}
    BY DEF Counted
  <2> QED
    BY <1>1, <1>3, <2>1, <2>2, UncollectedPairs
<1>6. IsFiniteSet(Counted(next)) /\ Cardinality(Counted(next)) = n
  <2>1. IsFiniteSet(1 .. n) /\ Cardinality(1 .. n) = n
    <3> HIDE DEF n
    <3> QED
      BY <1>2, FS_Interval
  <2>2. IsFiniteSet({next}) /\ Cardinality({next}) = 1
    BY FS_Singleton
  <2>3. Counted(next) = {next} \X (1 .. n)
    BY DEF Counted
  <2> HIDE DEF n
  <2>4. /\ IsFiniteSet({next} \X (1 .. n))
        /\ Cardinality({next} \X (1 .. n)) = Cardinality({next}) * Cardinality(1 .. n)
    BY <2>1, <2>2, FS_Product
  <2> QED
    BY <1>2, <2>1, <2>2, <2>3, <2>4
<1>7. IsFiniteSet(Uncollected') /\ Cardinality(Uncollected') \in Nat
  BY <1>5, FS_Subset, FS_CardinalityType DEF CountInv
<1>8. Cardinality(Uncollected) = Cardinality(Uncollected') + n
  BY <1>5, <1>6, <1>7, Disjoint
<1>9. Outcomes' = Outcomes
  <2>1. /\ Outcomes = total.commits + total.aborts + Cardinality(Uncollected)
        /\ Outcomes' = total'.commits + total'.aborts + Cardinality(Uncollected')
    BY DEF Outcomes, Uncollected
  <2>2. total.commits \in Nat /\ total.aborts \in Nat
    BY <1>2 DEF Counts
  <2> HIDE DEF n
  <2> QED
    BY <1>2, <1>4, <1>7, <1>8, <2>1, <2>2
<1> QED
  BY <1>3, <1>7, <1>9 DEF CountInv

LEMMA CountStep ==
    ASSUME DatabaseInv, CountInv, [Next]_vars
    PROVE  CountInv'
<1>0. DeleteInv'
  BY DeleteStep DEF CountInv
<1>1. CASE UNCHANGED <<result, deleted, total, ended>>
  BY <1>0, <1>1, CountFrame
<1>2. ASSUME NEW w \in Workers, Work(w) PROVE CountInv'
  <2>1. CASE RunQuery(w)
    BY <1>0, <2>1, RunCounted
  <2>2. CASE Loop(w)
    BY <1>1, <2>2 DEF Loop, SeeStart, CheckStop, Dequeue, DequeueFails, LoadE, StoreE, mainVars
  <2> QED
    BY <1>2, <2>1, <2>2 DEF Work
<1>3. CASE Terminate
  <2>1. CASE CollectResult
    BY <1>0, <2>1, CollectCounted
  <2>2. CASE JoinLeader \/ JoinWorker \/ WorkersJoined \/ JoinLogger
    BY <1>1, <2>2 DEF JoinLeader, JoinWorker, WorkersJoined, JoinLogger, workerVars
  <2> QED
    BY <1>3, <2>1, <2>2 DEF Terminate
<1>4. CASE Construct \/ StoreStop \/ Lead \/ Log \/ \E c \in Clients : Submit(c)
  BY <1>1, <1>4 DEF Construct, MakeLogger, MakeWorker, StoreStart, StoreStop, Lead,
     LeaderCheck, LeaderTooEarly, LeaderAdvance, Log, Submit, mainVars, workerVars
<1>5. CASE UNCHANGED vars
  BY <1>1, <1>5 DEF vars, mainVars, workerVars
<1> QED
  BY <1>2, <1>3, <1>4, <1>5 DEF Next

\* Worker::run(), Database::terminate(): each query that ended is one commit or
\* one abort in the result of its worker or in the total, also halfway through
\* the loop that collects the results, and none is lost or run twice on its way.
THEOREM QueriesAreCounted == Spec => []EveryQueryCounted
<1>1. Init => CountInv
  BY CountInit
<1>2. DatabaseInv /\ CountInv /\ [Next]_vars => CountInv'
  BY CountStep
<1>3. DatabaseInv /\ CountInv => EveryQueryCounted
  BY DEF DatabaseInv, PlacesInv, CountInv, EveryQueryCounted
<1> QED
  BY <1>1, <1>2, <1>3, DatabaseInvHolds, PTL DEF Spec
=============================================================================
