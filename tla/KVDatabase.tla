----------------------------- MODULE KVDatabase -----------------------------
(***************************************************************************)
(* The threads of kvsilo/ and the life of a Database (database.cpp): the   *)
(* constructor starts the leader, a logger and the workers, clients hand   *)
(* queries to the workers' queues (worker.cpp), the leader advances the    *)
(* epoch, terminate() stops and joins everything and collects the results. *)
(*                                                                         *)
(* A query runs in one step that ends in a commit or an abort: what it     *)
(* does to the records is module KVSilo, and KVSystem puts the two         *)
(* together, one step of a query after the other.                          *)
(***************************************************************************)
EXTENDS Integers, Sequences, FiniteSets

CONSTANTS
    NumWorkers,  \* std::thread::hardware_concurrency()
    Clients,     \* the threads that call executeTransaction
    Quota,       \* bound: queries of each client
    EpochMod     \* number of values of an Epoch, 2^32

\* hardware_concurrency() may return 0: executeTransaction would then divide by
\* the number of workers, zero, and no query could be submitted.
ASSUME KVDatabaseAssumption ==
    /\ NumWorkers \in Nat \ {0}
    /\ IsFiniteSet(Clients)
    /\ Quota \in [Clients -> Nat]
    /\ EpochMod \in Nat \ {0}

Workers == 1 .. NumWorkers

Epochs == 0 .. (EpochMod - 1)

VARIABLES
    \* SiloEnv
    E, workerE, start, stop,
    \* the thread that makes and terminates the Database
    main,
    next,        \* its position in the loop over the workers
    deleted,     \* the workers it deleted
    total,       \* totalResult
    \* clients
    sent,        \* queries submitted
    queue,       \* Worker::waitingQueries, a FIFO for each producer
    \* workers
    pc,
    query,       \* the dequeued query
    loaded,      \* the epoch loaded, about to be stored in workerE
    result,      \* Worker::result
    \* the other threads
    leader, logger,
    \* auxiliary
    ended,       \* the queries that committed or aborted
    wrapped      \* the workers since whose load of E it has wrapped to 0

env == <<E, workerE, start, stop>>
mainVars == <<main, next, deleted, total>>
clientVars == <<sent, queue>>
workerVars == <<pc, query, loaded, result, ended>>
vars == <<env, mainVars, clientVars, workerVars, leader, logger, wrapped>>

NoQuery == <<>>
ZeroResult == [commits |-> 0, aborts |-> 0]

\* The constructor's initializer list starts the leader before anything else.
\* E has no initializer: it starts with whatever the memory holds.
Init ==
    /\ E \in Epochs
    /\ workerE = <<>>
    /\ start = FALSE
    /\ stop = FALSE
    /\ main = "construct"
    /\ next = 1
    /\ deleted = {}
    /\ total = ZeroResult
    /\ sent = [c \in Clients |-> 0]
    /\ queue = [w \in Workers |-> [c \in Clients |-> <<>>]]
    /\ pc = [w \in Workers |-> "absent"]
    /\ query = [w \in Workers |-> NoQuery]
    /\ loaded = [w \in Workers |-> 0]
    /\ result = [w \in Workers |-> ZeroResult]
    /\ leader = "check"
    /\ logger = "absent"
    /\ ended = {}
    /\ wrapped = {}

Goto(w, label) == pc' = [pc EXCEPT ![w] = label]

-----------------------------------------------------------------------------
(* Database::Database()                                                    *)

MakeLogger ==
    /\ main = "construct"
    /\ logger = "absent"
    /\ logger' = "wait"
    /\ UNCHANGED <<env, mainVars, clientVars, workerVars, leader, wrapped>>

\* "i < threads_num"
MoreWorkers_offByOne == next <= NumWorkers + 1  \* mutant
MoreWorkers == next <= NumWorkers

\* The worker, its workerE and its thread.
MakeWorker ==
    /\ main = "construct"
    /\ logger # "absent"
    /\ MoreWorkers
    /\ workerE' = Append(workerE, 0)
    /\ Goto(next, "wait")
    /\ next' = next + 1
    /\ UNCHANGED <<E, start, stop, main, deleted, total, clientVars, query, loaded,
                   result, ended, leader, logger, wrapped>>

StoreStart ==
    /\ main = "construct"
    /\ ~ MoreWorkers
    /\ start' = TRUE
    /\ main' = "running"
    /\ UNCHANGED <<E, workerE, stop, next, deleted, total, clientVars, workerVars,
                   leader, logger, wrapped>>

-----------------------------------------------------------------------------
(* Clients                                                                 *)

\* executeTransaction: a worker drawn at random gets the query.
Submit(c) ==
    /\ main = "running"
    /\ sent[c] < Quota[c]
    /\ sent' = [sent EXCEPT ![c] = @ + 1]
    /\ \E w \in Workers : queue' = [queue EXCEPT ![w][c] = Append(@, sent'[c])]
    /\ UNCHANGED <<env, mainVars, workerVars, leader, logger, wrapped>>

-----------------------------------------------------------------------------
(* Worker::run()                                                           *)

SeeStart(w) ==
    /\ pc[w] = "wait"
    /\ start
    /\ Goto(w, "loop")
    /\ UNCHANGED <<env, mainVars, clientVars, query, loaded, result, ended, leader, logger, wrapped>>

\* "while(!env->stop)", and the same test after a try_dequeue that failed.
MustStop_outer(w) == stop /\ pc[w] = "loop"  \* mutant: no test when the queue is empty
MustStop_empty(w) == stop \/ pc[w] = "empty"  \* mutant: an empty queue ends the worker
MustStop(w) == stop

CheckStop(w) ==
    /\ pc[w] \in {"loop", "empty"}
    /\ Goto(w, IF MustStop(w) THEN "done" ELSE "dequeue")
    /\ UNCHANGED <<env, mainVars, clientVars, query, loaded, result, ended, leader, logger, wrapped>>

\* try_dequeue takes the oldest query of any producer.
Dequeue(w) ==
    /\ pc[w] = "dequeue"
    /\ \E c \in Clients :
          /\ queue[w][c] # <<>>
          /\ query' = [query EXCEPT ![w] = <<c, Head(queue[w][c])>>]
          /\ queue' = [queue EXCEPT ![w][c] = Tail(@)]
    /\ Goto(w, "loadE")
    /\ UNCHANGED <<env, mainVars, sent, loaded, result, ended, leader, logger, wrapped>>

DequeueFails(w) ==
    /\ pc[w] = "dequeue"
    /\ \A c \in Clients : queue[w][c] = <<>>
    /\ Goto(w, "empty")
    /\ UNCHANGED <<env, mainVars, clientVars, query, loaded, result, ended, leader, logger, wrapped>>

LoadE(w) ==
    /\ pc[w] = "loadE"
    /\ loaded' = [loaded EXCEPT ![w] = E]
    /\ wrapped' = wrapped \ {w}
    /\ Goto(w, "storeE")
    /\ UNCHANGED <<env, mainVars, clientVars, query, result, ended, leader, logger>>

StoreE(w) ==
    /\ pc[w] = "storeE"
    /\ workerE' = [workerE EXCEPT ![w] = loaded[w]]
    /\ loaded' = [loaded EXCEPT ![w] = 0]  \* a temporary, gone
    /\ Goto(w, "query")
    /\ UNCHANGED <<E, start, stop, mainVars, clientVars, query, result, ended, leader,
                   logger, wrapped>>

\* The query runs and commits: addCommit, or addAbort without another try.
RunQuery_aborted(w) ==  \* mutant: "result.addAbort()" left out
    /\ pc[w] = "query"
    /\ \/ result' = [result EXCEPT ![w].commits = @ + 1]
       \/ UNCHANGED result
    /\ ended' = ended \cup {query[w]}
    /\ query' = [query EXCEPT ![w] = NoQuery]
    /\ Goto(w, "loop")
    /\ UNCHANGED <<env, mainVars, clientVars, loaded, leader, logger, wrapped>>
RunQuery(w) ==
    /\ pc[w] = "query"
    /\ \/ result' = [result EXCEPT ![w].commits = @ + 1]
       \/ result' = [result EXCEPT ![w].aborts = @ + 1]
    /\ ended' = ended \cup {query[w]}
    /\ query' = [query EXCEPT ![w] = NoQuery]
    /\ Goto(w, "loop")
    /\ UNCHANGED <<env, mainVars, clientVars, loaded, leader, logger, wrapped>>

\* run() around the query it runs.
Loop(w) ==
    \/ SeeStart(w) \/ CheckStop(w) \/ Dequeue(w) \/ DequeueFails(w)
    \/ LoadE(w) \/ StoreE(w)

Work(w) == Loop(w) \/ RunQuery(w)

-----------------------------------------------------------------------------
(* Database::leaderWork() and Logger::run()                                *)

LeaderCheck ==
    /\ leader = "check"
    /\ leader' = IF stop THEN "done" ELSE "sleep"
    /\ UNCHANGED <<env, mainVars, clientVars, workerVars, logger, wrapped>>

\* Less than 40 ms since the last increment: "continue".
LeaderTooEarly ==
    /\ leader = "sleep"
    /\ leader' = "check"
    /\ UNCHANGED <<env, mainVars, clientVars, workerVars, logger, wrapped>>

\* "E.fetch_add(1)" on a 32-bit atomic.
NextEpoch(e) == (e + 1) % EpochMod

\* The loop over workerE has no effect: its "continue" goes on with the loop
\* itself.  E is incremented whatever the workers have stored.
LeaderAdvance ==
    /\ leader = "sleep"
    /\ E' = NextEpoch(E)
    /\ wrapped' = IF E' = 0 THEN Workers ELSE wrapped
    /\ leader' = "check"
    /\ UNCHANGED <<workerE, start, stop, mainVars, clientVars, workerVars, logger>>

Lead == LeaderCheck \/ LeaderTooEarly \/ LeaderAdvance

Log ==
    /\ \/ logger = "wait" /\ start /\ logger' = "run"
       \/ logger = "run" /\ stop /\ logger' = "done"
    /\ UNCHANGED <<env, mainVars, clientVars, workerVars, leader, wrapped>>

-----------------------------------------------------------------------------
(* Database::terminate(), which main() calls after joining the clients.    *)

StoreStop ==
    /\ main = "running"
    /\ sent = Quota
    /\ stop' = TRUE
    /\ main' = "joinLeader"
    /\ UNCHANGED <<E, workerE, start, next, deleted, total, clientVars, workerVars,
                   leader, logger, wrapped>>

JoinLeader ==
    /\ main = "joinLeader"
    /\ leader = "done"
    /\ main' = "joinWorkers"
    /\ next' = 1
    /\ UNCHANGED <<env, deleted, total, clientVars, workerVars, leader, logger, wrapped>>

Joined_early(w) == TRUE  \* mutant: the thread is not joined
Joined(w) == pc[w] = "done"

JoinWorker ==
    /\ main = "joinWorkers"
    /\ next <= NumWorkers
    /\ Joined(next)
    /\ next' = next + 1
    /\ UNCHANGED <<env, main, deleted, total, clientVars, workerVars, leader, logger, wrapped>>

WorkersJoined ==
    /\ main = "joinWorkers"
    /\ next > NumWorkers
    /\ main' = "collect"
    /\ next' = 1
    /\ UNCHANGED <<env, deleted, total, clientVars, workerVars, leader, logger, wrapped>>

\* collect() and delete; a query left in the worker's queue goes with it.
CollectResult ==
    /\ main = "collect"
    /\ next <= NumWorkers
    /\ total' = [commits |-> total.commits + result[next].commits,
                 aborts |-> total.aborts + result[next].aborts]
    /\ deleted' = deleted \cup {next}
    /\ next' = next + 1
    /\ UNCHANGED <<env, main, clientVars, workerVars, leader, logger, wrapped>>

JoinLogger ==
    /\ main = "collect"
    /\ next > NumWorkers
    /\ logger = "done"
    /\ main' = "returned"
    /\ UNCHANGED <<env, next, deleted, total, clientVars, workerVars, leader, logger, wrapped>>

Construct == MakeLogger \/ MakeWorker \/ StoreStart
Terminate == JoinLeader \/ JoinWorker \/ WorkersJoined \/ CollectResult \/ JoinLogger

-----------------------------------------------------------------------------
Next ==
    \/ Construct \/ StoreStop \/ Terminate
    \/ Lead \/ Log
    \/ \E c \in Clients : Submit(c)
    \/ \E w \in Workers : Work(w)

Spec == Init /\ [][Next]_vars

\* The threads run; nobody has to submit a query or to call terminate().
FairSpec ==
    /\ Spec
    /\ WF_vars(Construct) /\ WF_vars(Terminate)
    /\ WF_vars(Lead) /\ WF_vars(Log)
    /\ \A w \in Workers : WF_vars(Work(w))

-----------------------------------------------------------------------------
(* Correctness                                                             *)

\* Variables keep their types; workerE has an element for each worker made.
TypeOK ==
    /\ E \in Epochs
    /\ workerE \in Seq(Epochs) /\ Len(workerE) <= NumWorkers
    /\ main \in {"construct", "running", "joinLeader", "joinWorkers", "collect", "returned"}
    /\ next \in 1 .. (NumWorkers + 1)
    /\ pc \in [Workers -> {"absent", "wait", "loop", "empty", "dequeue", "loadE",
                           "storeE", "query", "done"}]
    /\ leader \in {"check", "sleep", "done"}
    /\ logger \in {"absent", "wait", "run", "done"}

Submitted == UNION {{c} \X (1 .. sent[c]) : c \in Clients}
Waiting(w) == UNION {{<<c, queue[w][c][n]>> : n \in DOMAIN queue[w][c]} : c \in Clients}
InHand == {query[w] : w \in Workers} \ {NoQuery}

\* The outcomes in Worker::result, numbered, and all that are counted so far.
Counted(w) == {w} \X (1 .. (result[w].commits + result[w].aborts))
Outcomes ==
    total.commits + total.aborts
    + Cardinality(UNION {Counted(w) : w \in Workers \ deleted})

NoQueryLost == Submitted = ended \cup InHand \cup UNION {Waiting(w) : w \in Workers}

\* No query is lost or run twice on its way through the queues, the workers,
\* their results and the collected total; what terminate() does not count is
\* exactly what it left in the queues.
EveryQueryCounted == NoQueryLost /\ Outcomes = Cardinality(ended)

\* Once stop is stored, every thread is joined and terminate() returns, also
\* when a worker is spinning on an empty queue or holds a query.
TerminateReturns == stop ~> main = "returned"

\* A query of any client is run, unless the database is stopped first.
QueriesRun ==
    \A c \in Clients : \A n \in 1 .. Quota[c] :
        sent[c] >= n ~> (<<c, n>> \in ended \/ stop)

\* "Silo requires that E and e_w never diverge too far: E - e_w <= 1", at
\* least for the workers in the middle of a query. The difference is one of
\* unsigned 32-bit integers, the same across a wrap of E.
EpochLag == \A w \in Workers : pc[w] = "query" => (E - workerE[w]) % EpochMod <= 1
=============================================================================
