------------------------------- MODULE KVSilo -------------------------------
(***************************************************************************)
(* The optimistic transactions of kvsilo/: Transaction::read, ::write and  *)
(* ::commit (transaction.cpp) over the records of record.h, with the epoch *)
(* E advanced by the leader (database.cpp).                                *)
(*                                                                         *)
(* Worker::run makes a new Transaction object for every query it takes     *)
(* from its queue, so the state is indexed by transaction.  Transactions   *)
(* of different workers interleave at every load, store or                 *)
(* compare-and-swap of a record's atomics; what only touches the           *)
(* Transaction object is one step.                                         *)
(***************************************************************************)
EXTENDS Serializability, Sequences, Functions

CONSTANTS
    Txns,     \* the queries handed to the workers
    Keys,     \* the records, named by the order of their addresses
    Programs  \* what a query may do: sequences of reads and writes

Operations == [op : {"read", "write"}, key : Keys]

ASSUME KVSiloAssumption ==
    /\ IsFiniteSet(Txns)
    /\ NoTxn \notin Txns
    /\ Keys \subseteq Nat
    /\ Programs \subseteq Seq(Operations)

\* Each transaction raises a tid by at most one: the 29 bits are enough as
\* long as fewer than 2^29 transactions run.
ASSUME NoTidWrap == Cardinality(Txns) < TidMod

VARIABLES
    \* shared: the records and the epoch
    word,      \* Record::tidWord
    value,     \* Record::value, as the transaction that stored it
    E,         \* SiloEnv::E
    \* the query and where its worker is in it
    prog,      \* the lambda
    op,        \* index in prog[t] of the next operation
    pc,
    idx,       \* position of the loop over WSet or RSet
    before,    \* read(): local before
    data,      \* read(): local data
    \* members of Transaction
    rset,      \* RSet (with the value returned to the query)
    wset,      \* WSet
    epoch,     \* commit(): local e
    maxWriteTid,
    maxReadTid,
    mostRecentlyChosenTid,
    \* auxiliary, read by properties only
    history    \* the transactions that passed validation

shared == <<word, value, E>>
queries == <<prog, op>>
locals == <<before, data>>
sets == <<rset, wset>>
tids == <<epoch, maxWriteTid, maxReadTid, mostRecentlyChosenTid>>
vars == <<shared, queries, pc, idx, locals, sets, tids, history>>

Values == Txns \cup {NoTxn}

Labels == {"query", "readValue", "readCheck", "lock", "validate",
           "install", "publish", "unlock", "committed", "aborted"}

Finished == {"committed", "aborted"}

Init ==
    /\ word = [k \in Keys |-> ZeroWord]
    /\ value = [k \in Keys |-> NoTxn]
    \* SiloEnv::E has no initializer: it starts with whatever the memory holds.
    /\ E \in Epochs
    /\ prog \in [Txns -> Programs]
    /\ op = [t \in Txns |-> 1]
    /\ pc = [t \in Txns |-> "query"]
    /\ idx = [t \in Txns |-> 1]
    /\ before = [t \in Txns |-> ZeroWord]
    /\ data = [t \in Txns |-> NoTxn]
    /\ rset = [t \in Txns |-> <<>>]
    /\ wset = [t \in Txns |-> <<>>]
    /\ epoch = [t \in Txns |-> 0]
    /\ maxWriteTid = [t \in Txns |-> ZeroWord]
    /\ maxReadTid = [t \in Txns |-> ZeroWord]
    /\ mostRecentlyChosenTid = [t \in Txns |-> ZeroWord]
    /\ history = {}

Goto(t, label) == pc' = [pc EXCEPT ![t] = label]

-----------------------------------------------------------------------------
(* The query: reads and writes.                                            *)

At(t, kind) ==
    /\ pc[t] = "query"
    /\ op[t] <= Len(prog[t])
    /\ prog[t][op[t]].op = kind

KeyOf(t) == prog[t][op[t]].key

\* "do before = tidWord.load() while(before.lock)": the spin is the guard.
LoadBefore(t) ==
    /\ At(t, "read")
    /\ word[KeyOf(t)].lock = 0
    /\ before' = [before EXCEPT ![t] = word[KeyOf(t)]]
    /\ Goto(t, "readValue")
    /\ UNCHANGED <<shared, queries, idx, data, sets, tids, history>>

LoadValue(t) ==
    /\ pc[t] = "readValue"
    /\ data' = [data EXCEPT ![t] = value[KeyOf(t)]]
    /\ Goto(t, "readCheck")
    /\ UNCHANGED <<shared, queries, idx, before, sets, tids, history>>

\* "before == after": the whole bodies are compared.
SameWord_tidOnly(a, b) == a.tid = b.tid /\ a.lock = b.lock  \* mutant
SameWord(a, b) == a = b

LoadAfter(t) ==
    /\ pc[t] = "readCheck"
    /\ IF SameWord(before[t], word[KeyOf(t)])
       THEN /\ rset' = [rset EXCEPT ![t] =
                  Append(@, [key |-> KeyOf(t), word |-> word[KeyOf(t)],
                             from |-> data[t]])]
            /\ op' = [op EXCEPT ![t] = @ + 1]
       ELSE UNCHANGED <<rset, op>>
    /\ before' = [before EXCEPT ![t] = ZeroWord]  \* out of scope, or reloaded
    /\ data' = [data EXCEPT ![t] = NoTxn]
    /\ Goto(t, "query")
    /\ UNCHANGED <<shared, prog, idx, wset, tids, history>>

\* write() appends without looking for an earlier write of the same record.
Write(t) ==
    /\ At(t, "write")
    /\ wset' = [wset EXCEPT ![t] = Append(@, KeyOf(t))]
    /\ op' = [op EXCEPT ![t] = @ + 1]
    /\ UNCHANGED <<shared, prog, pc, idx, locals, rset, tids, history>>

-----------------------------------------------------------------------------
(* commit(): lock the write set in address order.                          *)

Ascending_never(s) == TRUE  \* mutant: WSet is locked in program order
Ascending(s) == \A i, j \in DOMAIN s : i < j => s[i] <= s[j]

\* The results std::sort may leave for q.
SortsOf(q) ==
    {s \in [DOMAIN q -> Keys] :
        /\ Ascending(s)
        /\ \E p \in Bijection(DOMAIN q, DOMAIN q) :
              \A i \in DOMAIN q : s[i] = q[p[i]]}

Commit(t) ==
    /\ pc[t] = "query"
    /\ op[t] > Len(prog[t])
    /\ \E s \in SortsOf(wset[t]) : wset' = [wset EXCEPT ![t] = s]
    /\ idx' = [idx EXCEPT ![t] = 1]
    /\ Goto(t, "lock")
    /\ UNCHANGED <<shared, queries, locals, rset, tids, history>>

\* The load that sees the lock clear and the compare_exchange that succeeds
\* on the word it saw; both spin otherwise.
CanLock_unchecked(k) == TRUE  \* mutant: the exchange does not compare
CanLock(k) == word[k].lock = 0

LockRecord(t) ==
    /\ pc[t] = "lock"
    /\ idx[t] <= Len(wset[t])
    /\ LET k == wset[t][idx[t]] IN
       /\ CanLock(k)
       /\ word' = [word EXCEPT ![k] = Locked(@)]
       /\ maxWriteTid' = [maxWriteTid EXCEPT ![t] = WordMax(@, word[k])]
    /\ idx' = [idx EXCEPT ![t] = @ + 1]
    /\ UNCHANGED <<value, E, queries, pc, locals, sets, epoch, maxReadTid,
                   mostRecentlyChosenTid, history>>

LoadEpoch(t) ==
    /\ pc[t] = "lock"
    /\ idx[t] > Len(wset[t])
    /\ epoch' = [epoch EXCEPT ![t] = E]
    /\ idx' = [idx EXCEPT ![t] = 1]
    /\ Goto(t, "validate")
    /\ UNCHANGED <<shared, queries, locals, sets, maxWriteTid, maxReadTid,
                   mostRecentlyChosenTid, history>>

-----------------------------------------------------------------------------
(* commit(): validate the read set, one load per element.                  *)

\* searchWSet
InWSet(t, k) == k \in Range(wset[t])

\* The negation of the condition that aborts: tids are compared, epochs are not.
Valid_anyTid(t, r) ==  \* mutant: only the lock is looked at
    word[r.key].lock = 1 => InWSet(t, r.key)
Valid(t, r) ==
    /\ r.word.tid = word[r.key].tid
    /\ word[r.key].lock = 1 => InWSet(t, r.key)

ValidateRead(t) ==
    /\ pc[t] = "validate"
    /\ idx[t] <= Len(rset[t])
    /\ LET r == rset[t][idx[t]] IN
       /\ Valid(t, r)
       /\ maxReadTid' = [maxReadTid EXCEPT ![t] = WordMax(@, word[r.key])]
    /\ idx' = [idx EXCEPT ![t] = @ + 1]
    /\ UNCHANGED <<shared, queries, pc, locals, sets, epoch, maxWriteTid,
                   mostRecentlyChosenTid, history>>

FailValidation(t) ==
    /\ pc[t] = "validate"
    /\ idx[t] <= Len(rset[t])
    /\ ~ Valid(t, rset[t][idx[t]])
    /\ idx' = [idx EXCEPT ![t] = 1]
    /\ Goto(t, "unlock")
    /\ UNCHANGED <<shared, queries, locals, sets, tids, history>>

\* unlockWSet: loads the word, clears the lock bit, stores it back.
Unlock(t) ==
    /\ pc[t] = "unlock"
    /\ idx[t] <= Len(wset[t])
    /\ word' = [word EXCEPT ![wset[t][idx[t]]] = Unlocked(@)]
    /\ idx' = [idx EXCEPT ![t] = @ + 1]
    /\ UNCHANGED <<value, E, queries, pc, locals, sets, tids, history>>

\* result.addAbort(): the query is not tried again.
Abort(t) ==
    /\ pc[t] = "unlock"
    /\ idx[t] > Len(wset[t])
    /\ Goto(t, "aborted")
    /\ UNCHANGED <<shared, queries, idx, locals, sets, tids, history>>

-----------------------------------------------------------------------------
(* commit(): phase 3, choose a TID and install the writes.                 *)

ChosenTid_ignoresWrites(t) ==  \* mutant: maxWriteTid left out of tidA
    Unlocked(WordMax(NextTid(maxReadTid[t]),
             WordMax(NextTid(mostRecentlyChosenTid[t]),
                     [ZeroWord EXCEPT !.epoch = epoch[t]])))
ChosenTid_ignoresEpoch(t) ==  \* mutant: tidC left out
    LET tidA == NextTid(WordMax(maxWriteTid[t], maxReadTid[t]))
        tidB == NextTid(mostRecentlyChosenTid[t])
    IN  Unlocked(WordMax(tidA, tidB))
ChosenTid(t) ==
    LET tidA == NextTid(WordMax(maxWriteTid[t], maxReadTid[t]))
        tidB == NextTid(mostRecentlyChosenTid[t])
        tidC == [ZeroWord EXCEPT !.epoch = epoch[t]]
    IN  Unlocked(WordMax(tidA, WordMax(tidB, tidC)))

\* What the transaction contributes to the history once it cannot abort.
CommitRecord(t) ==
    [id |-> t, tid |-> ChosenTid(t),
     reads |-> {[key |-> r.key, from |-> r.from] : r \in Range(rset[t])},
     writes |-> Range(wset[t])]

ChooseTid(t) ==
    /\ pc[t] = "validate"
    /\ idx[t] > Len(rset[t])
    /\ mostRecentlyChosenTid' = [mostRecentlyChosenTid EXCEPT ![t] = ChosenTid(t)]
    /\ history' = history \cup {CommitRecord(t)}
    /\ idx' = [idx EXCEPT ![t] = 1]
    /\ Goto(t, "install")
    /\ UNCHANGED <<shared, queries, locals, sets, epoch, maxWriteTid, maxReadTid>>

StoreValue(t) ==
    /\ pc[t] = "install"
    /\ idx[t] <= Len(wset[t])
    /\ value' = [value EXCEPT ![wset[t][idx[t]]] = t]
    /\ Goto(t, "publish")
    /\ UNCHANGED <<word, E, queries, idx, locals, sets, tids, history>>

\* One store publishes the new TID and releases the lock.
StoreTid(t) ==
    /\ pc[t] = "publish"
    /\ word' = [word EXCEPT ![wset[t][idx[t]]] = mostRecentlyChosenTid[t]]
    /\ idx' = [idx EXCEPT ![t] = @ + 1]
    /\ Goto(t, "install")
    /\ UNCHANGED <<value, E, queries, locals, sets, tids, history>>

\* WSet.clear(), RSet.clear(), result.addCommit().
Finish(t) ==
    /\ pc[t] = "install"
    /\ idx[t] > Len(wset[t])
    /\ wset' = [wset EXCEPT ![t] = <<>>]
    /\ rset' = [rset EXCEPT ![t] = <<>>]
    /\ Goto(t, "committed")
    /\ UNCHANGED <<shared, queries, idx, locals, tids, history>>

-----------------------------------------------------------------------------
\* leaderWork: "E.fetch_add(1)" on a 32-bit atomic, whatever the workers do.
NextEpoch_wide(e) == e + 1  \* mutant: the counter does not wrap
NextEpoch(e) == (e + 1) % EpochMod

AdvanceEpoch ==
    /\ E' = NextEpoch(E)
    /\ UNCHANGED <<word, value, queries, pc, idx, locals, sets, tids, history>>

Step(t) ==
    \/ LoadBefore(t) \/ LoadValue(t) \/ LoadAfter(t) \/ Write(t)
    \/ Commit(t) \/ LockRecord(t) \/ LoadEpoch(t)
    \/ ValidateRead(t) \/ FailValidation(t) \/ Unlock(t) \/ Abort(t)
    \/ ChooseTid(t) \/ StoreValue(t) \/ StoreTid(t) \/ Finish(t)

Next == AdvanceEpoch \/ \E t \in Txns : Step(t)

Spec == Init /\ [][Next]_vars

\* Every worker is a running thread.
FairSpec == Spec /\ \A t \in Txns : WF_vars(Step(t))

-----------------------------------------------------------------------------
(* Correctness                                                             *)

\* Every variable stays in the range of its C++ type; TID words in particular
\* keep their two counters within their bit fields and rest unlocked in RSet.
ReadElements == [key : Keys, word : Words, from : Values]
Commits ==
    [id : Txns, tid : Words, reads : SUBSET [key : Keys, from : Values],
     writes : SUBSET Keys]

TypeOK ==
    /\ word \in [Keys -> Words]
    /\ value \in [Keys -> Values]
    /\ E \in Epochs
    /\ prog \in [Txns -> Programs]
    /\ op \in [Txns -> Nat \ {0}]
    /\ pc \in [Txns -> Labels]
    /\ idx \in [Txns -> Nat \ {0}]
    /\ before \in [Txns -> Words]
    /\ data \in [Txns -> Values]
    /\ rset \in [Txns -> Seq(ReadElements)]
    /\ wset \in [Txns -> Seq(Keys)]
    /\ epoch \in [Txns -> Epochs]
    /\ maxWriteTid \in [Txns -> Words]
    /\ maxReadTid \in [Txns -> Words]
    /\ mostRecentlyChosenTid \in [Txns -> Words]
    /\ history \subseteq Commits

\* The positions of WSet whose records t has locked and not released.
HeldPositions(t) ==
    {i \in 1 .. Len(wset[t]) :
        \/ pc[t] = "lock" /\ i < idx[t]
        \/ pc[t] = "validate"
        \/ pc[t] \in {"install", "publish", "unlock"} /\ i >= idx[t]}

\* No record is locked twice, by two transactions or by one that wrote it
\* twice: lockWSet is a mutual exclusion over the records.
LocksExclusive ==
    \A t, u \in Txns :
        \A i \in HeldPositions(t), j \in HeldPositions(u) :
            wset[t][i] = wset[u][j] => t = u /\ i = j

\* The lock bit of a record is set exactly while some transaction is between
\* its lockWSet and its store of a new TID (or its unlockWSet): no commit or
\* abort path leaks a lock or drops another transaction's.
LockBitOwned ==
    \A k \in Keys :
        word[k].lock = 1 <=>
            \E t \in Txns : \E i \in HeldPositions(t) : wset[t][i] = k

\* The two together: at every step of every commit and abort, a record's lock bit
\* is set exactly when there is an owner, and then there is one owner only.
LocksOwned == LocksExclusive /\ LockBitOwned

\* t spins for the lock of a record that u holds.
WaitsFor(t, u) ==
    \E i \in HeldPositions(u) :
        \/ At(t, "read") /\ wset[u][i] = KeyOf(t)
        \/ pc[t] = "lock" /\ idx[t] <= Len(wset[t]) /\ wset[u][i] = wset[t][idx[t]]

\* lockWSet() locks in address order, and a reader that waits in read() holds
\* nothing: spins never form a cycle. Among any transactions there is one that
\* waits for no other of them, whatever they lock and however they wrote it.
NoWaitCycle ==
    \A S \in (SUBSET Txns) \ {{}} : \E t \in S : \A u \in S \ {t} : ~ WaitsFor(t, u)

\* What read() returned is the value installed with the TID word read() put
\* in RSet, although the value and the word are loaded separately while other
\* transactions install: no torn read.
VersionOfWriter(v) == IF v = NoTxn THEN ZeroWord ELSE mostRecentlyChosenTid[v]
SnapshotReads ==
    \A t \in Txns : \A i \in DOMAIN rset[t] :
        rset[t][i].word = VersionOfWriter(rset[t][i].from)

\* A record's TID changes only while its lock bit is set, by the step that
\* clears the bit, and only to a larger one, although no transaction holds
\* any lock while it computes what it read.
TidGrows ==
    \A k \in Keys :
        \/ Unlocked(word'[k]) = Unlocked(word[k])
        \/ /\ word[k].lock = 1
           /\ word'[k].lock = 0
           /\ WordLess(Unlocked(word[k]), word'[k])
TidsGrow == [][TidGrows]_vars

\* A committed transaction read a version that another one replaced by a
\* version with the same tid and a different epoch.
EpochCollision ==
    \E h, g \in history : \E r \in h.reads :
        /\ r.key \in g.writes
        /\ VersionOf(history, r.from).tid = g.tid.tid
        /\ VersionOf(history, r.from).epoch # g.tid.epoch

\* The committed transactions are conflict serializable as long as no two
\* epochs give a record the same tid: within an epoch the protocol is right,
\* whatever the interleaving.
SerializableButForCollisions ==
    ~ EpochCollision => ConflictSerializable(history)

\* What the program is for: every execution is conflict serializable.
Serializable == ConflictSerializable(history)

\* Every query ends, committed or aborted: the lock spins of transactions that
\* write the same records in different orders never form a cycle, and a reader
\* that retries is not held up for ever.
EveryQueryEnds == \A t \in Txns : <>(pc[t] \in Finished)
=============================================================================
