------------------------------ MODULE KVSystem ------------------------------
(***************************************************************************)
(* kvsilo/ as a whole: the threads of KVDatabase run the transactions of   *)
(* KVSilo.  A worker that has dequeued a query makes a Transaction, runs   *)
(* the query and commit() step by step, interleaved with the other         *)
(* workers, the leader and terminate(), and adds the outcome to its        *)
(* result.  Transactions are named by the query they run.                  *)
(***************************************************************************)
EXTENDS KVDatabase

CONSTANTS TidMod, NoTxn, Keys, Programs  \* of KVSilo, with EpochMod

Queries == UNION {{c} \X (1 .. Quota[c]) : c \in Clients}

\* What KVSilo assumes of its constants.
ASSUME SystemAssumption ==
    /\ TidMod \in Nat \ {0}
    /\ Cardinality(Queries) < TidMod
    /\ NoTxn \notin Queries
    /\ Keys \subseteq Nat
    /\ Programs \subseteq Seq([op : {"read", "write"}, key : Keys])

VARIABLES
    word, value, prog, op,
    at,  \* where a transaction is in its query or in commit()
    idx, before, data, rset, wset, epoch, maxWriteTid, maxReadTid,
    mostRecentlyChosenTid, history

Transaction == INSTANCE KVSilo WITH Txns <- Queries, pc <- at

\* What the threads share with nobody but the transactions; E is in vars.
txnVars == <<word, value, prog, op, at, idx, before, data, rset, wset, epoch,
             maxWriteTid, maxReadTid, mostRecentlyChosenTid, history>>

allVars == <<vars, txnVars>>

SystemInit == Init /\ Transaction!Init

-----------------------------------------------------------------------------
\* "Transaction trn; query(trn); trn.commit(result)", one step of it.  The
\* last one adds the commit or the abort to the worker's result.
StepQuery(w) ==
    LET t == query[w] IN
    /\ pc[w] = "query"
    /\ Transaction!Step(t)
    /\ IF at'[t] \in Transaction!Finished
       THEN /\ RunQuery(w)
            /\ result'[w].commits > result[w].commits <=> at'[t] = "committed"
       ELSE UNCHANGED vars

ConstructStep == Construct /\ UNCHANGED txnVars
TerminateStep == Terminate /\ UNCHANGED txnVars
LogStep == Log /\ UNCHANGED txnVars

\* The increment of E is the step of KVSilo of that name.
LeadStep ==
    \/ (LeaderCheck \/ LeaderTooEarly) /\ UNCHANGED txnVars
    \/ LeaderAdvance /\ Transaction!AdvanceEpoch

WorkStep(w) ==
    \/ Loop(w) /\ UNCHANGED txnVars
    \/ StepQuery(w)

SystemNext ==
    \/ ConstructStep \/ TerminateStep \/ LeadStep \/ LogStep
    \/ StoreStop /\ UNCHANGED txnVars
    \/ \E c \in Clients : Submit(c) /\ UNCHANGED txnVars
    \/ \E w \in Workers : WorkStep(w)

SystemSpec == SystemInit /\ [][SystemNext]_allVars

\* The threads run.  That a query ends is not assumed.
Fairness ==
    /\ WF_allVars(ConstructStep) /\ WF_allVars(TerminateStep)
    /\ WF_allVars(LeadStep) /\ WF_allVars(LogStep)
    /\ \A w \in Workers : WF_allVars(WorkStep(w))

-----------------------------------------------------------------------------
(* Correctness                                                             *)

\* A transaction's TID is never of an epoch before the one its worker stored
\* in workerE when it took the query, unless E has wrapped to 0 in between:
\* what is in workerE bounds from below every TID still to come, which is what
\* e_w is for, whatever E starts with and however far it runs ahead.
EpochsAdvertised ==
    \A w \in Workers \ wrapped : LET t == query[w] IN
        pc[w] = "query" /\ at[t] \in {"install", "publish"} =>
            mostRecentlyChosenTid[t].epoch >= workerE[w]

WritersOf(k) == {h \in history : k \in h.writes}

\* A record at rest: unlocked, and with the value and the TID of its last
\* writer, the committed transaction whose TID is above that of every other
\* writer, or as it was made if nobody has written it.
Settled(k) ==
    /\ word[k].lock = 0
    /\ \/ /\ WritersOf(k) = {}
          /\ value[k] = NoTxn /\ word[k] = Transaction!ZeroWord
       \/ \E h \in WritersOf(k) :
             /\ value[k] = h.id /\ word[k] = h.tid
             /\ \A g \in WritersOf(k) \ {h} : Transaction!WordLess(g.tid, h.tid)

\* terminate() deletes a worker, its queue and its result only when the
\* worker's thread has left run(); when it returns, it has counted each
\* transaction that passed validation, and every record is settled.
SettledAtReturn ==
    /\ \A w \in deleted : pc[w] = "done"
    /\ main = "returned" =>
          /\ total.commits = Cardinality(history)
          /\ \A k \in Keys : Settled(k)
=============================================================================
