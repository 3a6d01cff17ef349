-------------------------------- MODULE Silo --------------------------------
(***************************************************************************)
(* The Silo prototype of silo/: worker threads (main.cpp) that each run    *)
(* one transaction after the other in their TXNExecutor                    *)
(* (txn_executor.cpp) over a fixed table, and advance the global epoch     *)
(* (epoch.h), until main stores quit.                                      *)
(*                                                                         *)
(* Against kvsilo/ it compares epochs when it validates, keeps its most    *)
(* recently chosen TID from one transaction to the next, ignores repeated  *)
(* accesses to a key, and tries an aborted transaction again.              *)
(***************************************************************************)
EXTENDS Serializability, Sequences, Functions

CONSTANTS
    Workers,      \* thread ids
    Leader,       \* thread 0, which advances the epoch
    Keys,         \* keys of Table
    Programs,     \* step sequences makeSteps may draw
    Quota,        \* bound: transactions per worker
    MaxEpoch,     \* bound: last global epoch
    InitialTids   \* what Table's uninitialized tid fields may hold

ASSUME SiloAssumption ==
    /\ IsFiniteSet(Workers)
    /\ Leader \in Workers
    /\ Keys \subseteq Nat
    /\ Quota \in [Workers -> Nat]
    /\ MaxEpoch \in Nat
    /\ MaxEpoch + 1 < EpochMod  \* the 32-bit epoch field does not wrap
    /\ InitialTids \subseteq 0 .. (TidMod - 1)
    /\ NoTxn \notin Workers \X Nat

\* The ids of the transactions that may be started.
AllIds == UNION {{w} \X (1 .. Quota[w]) : w \in Workers}

\* Each transaction raises a tid by at most one: the 29 bits are enough as
\* long as what init() left in them is that far from their end.
ASSUME SiloNoTidWrap ==
    \A n \in InitialTids \cup {0} : n + Cardinality(AllIds) < TidMod

Steps == [op : {"read", "write"}, key : Keys]
ASSUME SiloProgramsAssumption == Programs \subseteq Seq(Steps)

VARIABLES
    \* shared
    word,         \* Tuple::tidWord
    value,        \* Tuple::value, as the id of the transaction that wrote it
    globalEpoch,
    localEpoch,   \* ThreadLocalEpochs
    quit,
    \* per worker
    pc,
    number,       \* transactions started: the current one is <<w, number[w]>>
    steps,
    op,           \* index in steps of the next operation
    idx,          \* position of the loop over writeSet or readSet
    seen,         \* read(): expected and returnValue; commit: the epoch loaded
    readSet,
    writeSet,
    maxWriteTid,
    maxReadTid,
    mostRecentlyChosenTid,
    \* auxiliary
    history       \* the transactions that passed validation

shared == <<word, value, globalEpoch, localEpoch>>
locals == <<number, steps, op>>
sets == <<readSet, writeSet>>
tids == <<maxWriteTid, maxReadTid, mostRecentlyChosenTid>>
vars == <<shared, quit, pc, locals, idx, seen, sets, tids, history>>

Nothing == [word |-> ZeroWord, from |-> NoTxn, epoch |-> 0]

Init ==
    \* init() leaves the tid bits, and all of ThreadLocalEpochs, as allocated.
    /\ word \in [Keys -> [epoch : {1}, tid : InitialTids, lock : {0}]]
    /\ value = [k \in Keys |-> NoTxn]
    /\ globalEpoch = 0
    /\ localEpoch \in [Workers -> 0 .. 1]
    /\ quit = FALSE
    /\ pc = [w \in Workers |-> "next"]
    /\ number = [w \in Workers |-> 0]
    /\ steps = [w \in Workers |-> <<>>]
    /\ op = [w \in Workers |-> 1]
    /\ idx = [w \in Workers |-> 1]
    /\ seen = [w \in Workers |-> Nothing]
    /\ readSet = [w \in Workers |-> <<>>]
    /\ writeSet = [w \in Workers |-> <<>>]
    /\ maxWriteTid = [w \in Workers |-> ZeroWord]
    /\ maxReadTid = [w \in Workers |-> ZeroWord]
    /\ mostRecentlyChosenTid = [w \in Workers |-> ZeroWord]
    /\ history = {}

Goto(w, label) == pc' = [pc EXCEPT ![w] = label]
Id(w) == <<w, number[w]>>

-----------------------------------------------------------------------------
(* worker(): the loop around a transaction.                                *)

\* makeSteps draws a new transaction.
NewSteps(w) ==
    /\ pc[w] = "next"
    /\ ~ quit
    /\ number[w] < Quota[w]
    /\ number' = [number EXCEPT ![w] = @ + 1]
    /\ \E p \in Programs : steps' = [steps EXCEPT ![w] = p]
    /\ Goto(w, "retry")
    /\ UNCHANGED <<shared, quit, op, idx, seen, sets, tids, history>>

\* checkEpochLoaded: every thread but thread 0 has stored the current epoch.
\* Only the leader changes it, so its loop and the increment are one step.
EpochLoaded_any == TRUE  \* mutant: the epoch advances on the timer alone
EpochLoaded == \A w \in Workers \ {Leader} : localEpoch[w] = globalEpoch

\* stepEpochTime, when the timer has elapsed (it may at any time).
AdvanceEpoch(w) ==
    /\ w = Leader
    /\ EpochLoaded
    /\ globalEpoch < MaxEpoch
    /\ globalEpoch' = globalEpoch + 1

\* RETRY: the leader may advance the epoch; begin() resets the two maxima.
Begin(w) ==
    /\ pc[w] = "retry"
    /\ ~ quit
    /\ AdvanceEpoch(w) \/ UNCHANGED globalEpoch
    /\ maxWriteTid' = [maxWriteTid EXCEPT ![w] = ZeroWord]
    /\ maxReadTid' = [maxReadTid EXCEPT ![w] = ZeroWord]
    /\ op' = [op EXCEPT ![w] = 1]
    /\ Goto(w, "steps")
    /\ UNCHANGED <<word, value, localEpoch, quit, number, steps, idx, seen, sets,
                   mostRecentlyChosenTid, history>>

\* "if(loadAcquire(quit)) break" and the condition of the outer loop.  The
\* leader may still step the epoch on its way to the first.
Stop(w) ==
    /\ pc[w] \in {"next", "retry"}
    /\ quit
    /\ (pc[w] = "retry" /\ AdvanceEpoch(w)) \/ UNCHANGED globalEpoch
    /\ Goto(w, "stopped")
    /\ UNCHANGED <<word, value, localEpoch, quit, locals, idx, seen, sets, tids,
                   history>>

Quit ==
    /\ ~ quit
    /\ quit' = TRUE
    /\ UNCHANGED <<shared, pc, locals, idx, seen, sets, tids, history>>

-----------------------------------------------------------------------------
(* read() and write()                                                      *)

At(w, kind) ==
    /\ pc[w] = "steps"
    /\ op[w] <= Len(steps[w])
    /\ steps[w][op[w]].op = kind

KeyOf(w) == steps[w][op[w]].key

InReadSet(w, k) == \E r \in Range(readSet[w]) : r.key = k
InWriteSet(w, k) == k \in Range(writeSet[w])

\* A key already in one of the sets is not read again.
ReadAgain(w) ==
    /\ At(w, "read")
    /\ InReadSet(w, KeyOf(w)) \/ InWriteSet(w, KeyOf(w))
    /\ op' = [op EXCEPT ![w] = @ + 1]
    /\ UNCHANGED <<shared, quit, pc, number, steps, idx, seen, sets, tids, history>>

\* (a) reads the TID word, spinning until the lock is clear.
CanRead_locked(k) == TRUE  \* mutant: the spin is left out
CanRead(k) == word[k].lock = 0

LoadTid(w) ==
    /\ At(w, "read")
    /\ ~ InReadSet(w, KeyOf(w)) /\ ~ InWriteSet(w, KeyOf(w))
    /\ CanRead(KeyOf(w))
    /\ seen' = [seen EXCEPT ![w].word = word[KeyOf(w)]]
    /\ Goto(w, "value")
    /\ UNCHANGED <<shared, quit, locals, idx, sets, tids, history>>

\* (c) reads the data.
CopyValue(w) ==
    /\ pc[w] = "value"
    /\ seen' = [seen EXCEPT ![w].from = value[KeyOf(w)]]
    /\ Goto(w, "check")
    /\ UNCHANGED <<shared, quit, locals, idx, sets, tids, history>>

\* (e) checks the TID word again, and goes on with the word it saw if the
\* record is not locked.
CheckTid(w) ==
    /\ pc[w] = "check"
    /\ LET k == KeyOf(w) IN
       IF seen[w].word = word[k]
       THEN /\ readSet' = [readSet EXCEPT ![w] =
                  Append(@, [key |-> k, word |-> word[k], from |-> seen[w].from])]
            /\ op' = [op EXCEPT ![w] = @ + 1]
            /\ seen' = [seen EXCEPT ![w] = Nothing]
            /\ Goto(w, "steps")
       ELSE /\ IF word[k].lock = 0
               THEN /\ seen' = [seen EXCEPT ![w] = [Nothing EXCEPT !.word = word[k]]]
                    /\ Goto(w, "value")
               ELSE /\ seen' = [seen EXCEPT ![w] = Nothing]
                    /\ Goto(w, "steps")
            /\ UNCHANGED <<readSet, op>>
    /\ UNCHANGED <<shared, quit, number, steps, idx, writeSet, tids, history>>

\* A key is put in the write set once.
Write(w) ==
    /\ At(w, "write")
    /\ writeSet' = IF InWriteSet(w, KeyOf(w)) THEN writeSet
                   ELSE [writeSet EXCEPT ![w] = Append(@, KeyOf(w))]
    /\ op' = [op EXCEPT ![w] = @ + 1]
    /\ UNCHANGED <<shared, quit, pc, number, steps, idx, seen, readSet, tids, history>>

-----------------------------------------------------------------------------
(* validationPhase()                                                       *)

\* Phase 1: std::sort by key; the write set has no duplicates, so there is one
\* result.
SortsOf_never(s) == {s}  \* mutant: the write set is locked in program order
SortsOf(s) ==
    {q \in [DOMAIN s -> Range(s)] :
        /\ Range(q) = Range(s)
        /\ \A i, j \in DOMAIN q : i < j => q[i] <= q[j]}

Sort(w) ==
    /\ pc[w] = "steps"
    /\ op[w] > Len(steps[w])
    /\ \E q \in SortsOf(writeSet[w]) : writeSet' = [writeSet EXCEPT ![w] = q]
    /\ idx' = [idx EXCEPT ![w] = 1]
    /\ Goto(w, "lock")
    /\ UNCHANGED <<shared, quit, locals, seen, readSet, tids, history>>

LockRecord(w) ==
    /\ pc[w] = "lock"
    /\ idx[w] <= Len(writeSet[w])
    /\ LET k == writeSet[w][idx[w]] IN
       /\ word[k].lock = 0
       /\ word' = [word EXCEPT ![k] = Locked(@)]
       /\ maxWriteTid' = [maxWriteTid EXCEPT ![w] = WordMax(@, word[k])]
    /\ idx' = [idx EXCEPT ![w] = @ + 1]
    /\ UNCHANGED <<value, globalEpoch, localEpoch, quit, pc, locals, seen, sets,
                   maxReadTid, mostRecentlyChosenTid, history>>

\* Loading the global epoch and storing it thread-locally are two accesses.
LoadEpoch(w) ==
    /\ pc[w] = "lock"
    /\ idx[w] > Len(writeSet[w])
    /\ seen' = [seen EXCEPT ![w].epoch = globalEpoch]
    /\ Goto(w, "epoch")
    /\ UNCHANGED <<shared, quit, locals, idx, sets, tids, history>>

StoreEpoch(w) ==
    /\ pc[w] = "epoch"
    /\ localEpoch' = [localEpoch EXCEPT ![w] = seen[w].epoch]
    /\ seen' = [seen EXCEPT ![w] = Nothing]
    /\ idx' = [idx EXCEPT ![w] = 1]
    /\ Goto(w, "validate")
    /\ UNCHANGED <<word, value, globalEpoch, quit, locals, sets, tids, history>>

\* Phase 2: the negation of the condition that aborts.
Valid_locked(w, r) ==  \* mutant: the lock of another transaction is ignored
    r.word.tid = word[r.key].tid /\ r.word.epoch = word[r.key].epoch
Valid(w, r) ==
    /\ r.word.tid = word[r.key].tid
    /\ word[r.key].lock = 1 => InWriteSet(w, r.key)
    /\ r.word.epoch = word[r.key].epoch

ValidateRead(w) ==
    /\ pc[w] = "validate"
    /\ idx[w] <= Len(readSet[w])
    /\ LET r == readSet[w][idx[w]] IN
       /\ Valid(w, r)
       /\ maxReadTid' = [maxReadTid EXCEPT ![w] = WordMax(@, word[r.key])]
    /\ idx' = [idx EXCEPT ![w] = @ + 1]
    /\ UNCHANGED <<shared, quit, pc, locals, seen, sets, maxWriteTid,
                   mostRecentlyChosenTid, history>>

FailValidation(w) ==
    /\ pc[w] = "validate"
    /\ idx[w] <= Len(readSet[w])
    /\ ~ Valid(w, readSet[w][idx[w]])
    /\ idx' = [idx EXCEPT ![w] = 1]
    /\ Goto(w, "unlock")
    /\ UNCHANGED <<shared, quit, locals, seen, sets, tids, history>>

UnlockRecord_skips(w) ==  \* mutant: the loop starts at the second element
    /\ pc[w] = "unlock"
    /\ idx[w] <= Len(writeSet[w])
    /\ word' = [word EXCEPT ![writeSet[w][idx[w]]] =
                  IF idx[w] = 1 THEN @ ELSE Unlocked(@)]
    /\ idx' = [idx EXCEPT ![w] = @ + 1]
    /\ UNCHANGED <<value, globalEpoch, localEpoch, quit, pc, locals, seen, sets,
                   tids, history>>
UnlockRecord(w) ==
    /\ pc[w] = "unlock"
    /\ idx[w] <= Len(writeSet[w])
    /\ word' = [word EXCEPT ![writeSet[w][idx[w]]] = Unlocked(@)]
    /\ idx' = [idx EXCEPT ![w] = @ + 1]
    /\ UNCHANGED <<value, globalEpoch, localEpoch, quit, pc, locals, seen, sets,
                   tids, history>>

\* abort(), then RETRY with the same steps.
Abort(w) ==
    /\ pc[w] = "unlock"
    /\ idx[w] > Len(writeSet[w])
    /\ readSet' = [readSet EXCEPT ![w] = <<>>]
    /\ writeSet' = [writeSet EXCEPT ![w] = <<>>]
    /\ Goto(w, "retry")
    /\ UNCHANGED <<shared, quit, locals, idx, seen, tids, history>>

-----------------------------------------------------------------------------
(* writePhase()                                                            *)

TidC_late(w) == [ZeroWord EXCEPT !.epoch = globalEpoch]  \* mutant: loaded after validation
TidC(w) == [ZeroWord EXCEPT !.epoch = localEpoch[w]]

ChosenTid_forgets(w) ==  \* mutant: tidB left out
    Unlocked(WordMax(NextTid(WordMax(maxWriteTid[w], maxReadTid[w])), TidC(w)))
ChosenTid_ignoresWrites(w) ==  \* mutant: maxWriteTid left out of tidA
    Unlocked(WordMax(NextTid(maxReadTid[w]),
             WordMax(NextTid(mostRecentlyChosenTid[w]), TidC(w))))
ChosenTid(w) ==
    LET tidA == NextTid(WordMax(maxWriteTid[w], maxReadTid[w]))
        tidB == NextTid(mostRecentlyChosenTid[w])
    IN  Unlocked(WordMax(tidA, WordMax(tidB, TidC(w))))

ChooseTid(w) ==
    /\ pc[w] = "validate"
    /\ idx[w] > Len(readSet[w])
    /\ mostRecentlyChosenTid' = [mostRecentlyChosenTid EXCEPT ![w] = ChosenTid(w)]
    /\ history' = history \cup
          {[id |-> Id(w), tid |-> ChosenTid(w),
            reads |-> {[key |-> r.key, from |-> r.from] : r \in Range(readSet[w])},
            writes |-> Range(writeSet[w])]}
    /\ idx' = [idx EXCEPT ![w] = 1]
    /\ Goto(w, "install")
    /\ UNCHANGED <<shared, quit, locals, seen, sets, maxWriteTid, maxReadTid>>

\* (a) updates the record.
StoreValue(w) ==
    /\ pc[w] = "install"
    /\ idx[w] <= Len(writeSet[w])
    /\ value' = [value EXCEPT ![writeSet[w][idx[w]]] = Id(w)]
    /\ Goto(w, "publish")
    /\ UNCHANGED <<word, globalEpoch, localEpoch, quit, locals, idx, seen, sets,
                   tids, history>>

\* (c) stores the TID and releases the lock.
StoreTid(w) ==
    /\ pc[w] = "publish"
    /\ word' = [word EXCEPT ![writeSet[w][idx[w]]] = mostRecentlyChosenTid[w]]
    /\ idx' = [idx EXCEPT ![w] = @ + 1]
    /\ Goto(w, "install")
    /\ UNCHANGED <<value, globalEpoch, localEpoch, quit, locals, seen, sets, tids,
                   history>>

Finish(w) ==
    /\ pc[w] = "install"
    /\ idx[w] > Len(writeSet[w])
    /\ readSet' = [readSet EXCEPT ![w] = <<>>]
    /\ writeSet' = [writeSet EXCEPT ![w] = <<>>]
    /\ Goto(w, "next")
    /\ UNCHANGED <<shared, quit, locals, idx, seen, tids, history>>

-----------------------------------------------------------------------------
Work(w) ==
    \/ NewSteps(w) \/ Begin(w) \/ Stop(w)
    \/ ReadAgain(w) \/ LoadTid(w) \/ CopyValue(w) \/ CheckTid(w) \/ Write(w)
    \/ Sort(w) \/ LockRecord(w) \/ LoadEpoch(w) \/ StoreEpoch(w)
    \/ ValidateRead(w) \/ FailValidation(w) \/ UnlockRecord(w) \/ Abort(w)
    \/ ChooseTid(w) \/ StoreValue(w) \/ StoreTid(w) \/ Finish(w)

Next == Quit \/ \E w \in Workers : Work(w)

Spec == Init /\ [][Next]_vars

\* The workers are running threads, and main wakes up and stores quit.
FairSpec == Spec /\ WF_vars(Quit) /\ \A w \in Workers : WF_vars(Work(w))

-----------------------------------------------------------------------------
(* Correctness                                                             *)

Labels == {"next", "retry", "steps", "value", "check", "lock", "epoch",
           "validate", "install", "publish", "unlock", "stopped"}

Ids == (Workers \X Nat) \cup {NoTxn}
ReadElements == [key : Keys, word : Words, from : Ids]

\* Variables keep their types: no word outgrows its bit fields, no word that
\* read() returns is locked, and read() and the two phases stay within the
\* steps and the write set.
TypeOK ==
    /\ word \in [Keys -> Words]
    /\ value \in [Keys -> Ids]
    /\ globalEpoch \in 0 .. MaxEpoch
    /\ localEpoch \in [Workers -> Epochs]
    /\ pc \in [Workers -> Labels]
    /\ number \in [Workers -> Nat]
    /\ steps \in [Workers -> Seq(Steps)]
    /\ op \in [Workers -> Nat \ {0}] /\ idx \in [Workers -> Nat \ {0}]
    /\ seen \in [Workers -> [word : Words, from : Ids, epoch : 0 .. MaxEpoch]]
    /\ readSet \in [Workers -> Seq(ReadElements)]
    /\ writeSet \in [Workers -> Seq(Keys)]
    /\ maxWriteTid \in [Workers -> Words]
    /\ maxReadTid \in [Workers -> Words]
    /\ mostRecentlyChosenTid \in [Workers -> Words]
    /\ \A w \in Workers :
          /\ number[w] <= Quota[w]
          /\ pc[w] \in {"value", "check"} => op[w] \in DOMAIN steps[w]
          /\ pc[w] = "publish" => idx[w] \in DOMAIN writeSet[w]
          /\ seen[w].word.lock = 0
          /\ \A i \in DOMAIN readSet[w] : readSet[w][i].word.lock = 0

\* The transactions that commit are conflict serializable, whatever the
\* interleaving of their loads and stores and of the epoch's increments.
Serializable == ConflictSerializable(history)

\* The serial order never contradicts the epochs: a transaction of an earlier
\* epoch depends on none of a later one (what makes an epoch a consistent unit).
EpochsOrderConflicts ==
    \A edge \in ConflictEdges(history) : edge[1].tid.epoch <= edge[2].tid.epoch

\* "Silo requires that E and e_w never diverge too far: E - e_w <= 1."
EpochLag == \A w \in Workers : globalEpoch - localEpoch[w] <= 1

\* "(b) larger than the worker's most recently chosen TID", aborts and retries
\* in between included.
WorkerTidsGrow ==
    \A g, h \in history :
        g.id[1] = h.id[1] /\ g.id[2] < h.id[2] => WordLess(g.tid, h.tid)

\* No two versions of a record have one TID, although initial tids are
\* arbitrary; an aborted transaction leaves no lock and no value behind.
Quiescent == \A w \in Workers : pc[w] \in {"next", "retry", "stopped"}
RestingTable ==
    Quiescent =>
        \A k \in Keys :
            /\ word[k].lock = 0
            /\ IF value[k] = NoTxn THEN \A h \in history : k \notin h.writes
               ELSE \E h \in history :
                        /\ h.id = value[k] /\ k \in h.writes /\ h.tid = word[k]
                        /\ \A g \in history : k \in g.writes /\ g # h =>
                              WordLess(g.tid, h.tid)

\* Once main has stored quit, every worker ends: none is left spinning on a
\* lock, and retries do not go on for ever.
EveryWorkerStops == \A w \in Workers : <>(pc[w] = "stopped")

\* The protocol implements the abstract store; the version of a record is the
\* TID in its word, whoever holds the lock.
Store == INSTANCE SerializableStore
             WITH installed <- [k \in Keys |-> Unlocked(word[k])]
ImplementsStore == Store!Spec
=============================================================================
