# A TLA+ model of transaction-system

The repository holds prototypes of transaction systems and of the indexes they
use: `kvsilo/`, an in-memory key-value database with Silo's optimistic
transactions; `silo/`, the earlier prototype it derives from; the B+ trees of
`bptree/`, `kvsilo/primary_tree.cpp` and the abandoned `masstree/`; and the
unfinished `cicada/`. This directory models the parts that run, checks them with TLC on
small instances, and proves the central facts about the protocols of kvsilo, silo
and cicada, and about the B+ tree and its port, with TLAPS for every instance.

## The system

| Component | State | Operations | What makes it correct |
| --- | --- | --- | --- |
| kvsilo transactions (`kvsilo/transaction.cpp`, `record.h`) | a TID word (epoch, tid, lock) and a value per record; read set, write set and maxima per `Transaction` | `read`, `write`, `commit` with `lockWSet`, validation, installation, `unlockWSet` | no torn read, locks exclusive and never leaked, TIDs grow, committed transactions serializable, every query ends |
| kvsilo database (`database.cpp`, `worker.cpp`, `logger.cpp`) | `SiloEnv` (E, workerE, start, stop), a queue and a result per worker, the threads | construct, `executeTransaction`, `Worker::run`, `leaderWork`, `Logger::run`, `terminate` | no query lost or counted twice, no use after delete, `terminate` returns, epochs close together |
| silo (`silo/`) | table of TID words and values, global and thread-local epochs, quit; an executor per worker | `makeSteps`, epoch step, `read`, `write`, `validationPhase`, `writePhase`, `abort` and retry | serializability, agreement of epochs and conflicts, clean table at rest, workers stop |
| bptree (`bptree/main.c`) | nodes and records on the heap, root, order | `find`, `find_range`, `insert`, `delete`, `destroy_tree`, `print_tree` | a map; ordered, balanced, linked, nothing leaked, ranges complete, printed level by level |
| primary tree (`kvsilo/primary_tree.cpp`) | as bptree, order 4, preloaded with keys 1 to 8 | `insert`, `write`, `find`, `findRange` | as bptree |
| cicada (`cicada/`) | a version per tuple, clocks and timestamps, watermarks, start, quit and ready flags, a read and a write set per thread | `init` and its table threads, the barrier of `main`, `begin`, `read`, `write`, `leaderWork` | timestamps unique between threads and never descending, snapshots below every writer, read-modify-writes marked, the table built whole, every thread ends |
| masstree (`masstree/`) | border and interior nodes with versions, layers, suffixes | `insert`, `write`, `get`, both splits | what was inserted is found; parents, children and the list of leaves agree; no node stays locked |
| `common/`, `ss2pl/`, `test/`, `note/` | - | random numbers, clocks, a greeting, language experiments | `makeSteps`, the clock and the table partition are modelled in Silo and Cicada; the rest has no state of interest |

How they interact. A client thread of `kvsilo/main.cpp` hands a lambda to
`executeTransaction`, which puts it in the queue of a worker drawn at random and
returns at once. The worker stores the epoch it sees, makes a `Transaction`,
runs the lambda (which reads and writes records found through the primary tree)
and commits or aborts. Workers meet only in the records' atomics and in E,
which the leader thread increments. `terminate` stores `stop`, joins leader,
workers and logger, and adds up the results. In `silo/` the workers draw their
own transactions, retry aborted ones, and worker 0 is the leader. In `cicada/`
thread 0 is the leader, too; the threads meet in the arrays of published
timestamps and in the watermark `MinWts`, and `main` holds them at a barrier
until all have published their first timestamp.

The hard parts, listed line by line in `PROJECT.json` under `hazards`: the
interleaving of the loads and stores of one record by reader and writer; lock
order; validation against state that moves on; the epoch, loaded once and
compared later; abort paths holding locks; stop and quit racing with work in
progress; and, in the trees, long sequences of legal commands.

## The modules

| Module | Models | State and actions |
| --- | --- | --- |
| `TidWords` | `kvsilo/record.h` (and the same fields of `silo/tuple.h`) | the words, their order, `tid++` modulo `TidMod`; no state |
| `Serializability` | - | conflict serializability of a history of commits |
| `SerializableStore` | - | abstract specification: commits one at a time, each leaves a serializable history; a record's version is replaced only by a later one of a committed transaction |
| `KVSilo` | `kvsilo/transaction.cpp` | one action per load, store or compare-and-swap of a record's atomics; `pc`, `idx`, `before`, `data` are the C++ locals, `rset` and `wset` the members RSet and WSet |
| `KVDatabase` | `kvsilo/database.cpp`, `worker.cpp`, `logger.cpp` | one action per access to `SiloEnv` or a queue, and per join and delete of the main thread; a query is one step (`RunQuery`) |
| `KVSystem` | `kvsilo/` whole | `KVDatabase` composed with an instance of `KVSilo`: a worker that holds a query takes one step of its transaction at a time (`StepQuery`), the last of which is `RunQuery`; the leader's increment is the step of both |
| `Silo` | `silo/txn_executor.cpp`, `main.cpp`, `epoch.h` | as KVSilo, with the worker's loop, retries and epochs |
| `KeyMap` | - | abstract specification: a map, with a command of its own for each of insert, write, delete and destroy; `command` is the last one with its arguments |
| `BPTree` | `bptree/main.c` | one action per command, with every split, merge, redistribution, `malloc` and `free` it leads to; `print_tree` with its queue of nodes as an operator |
| `PrimaryTree` | `kvsilo/primary_tree.cpp` | the constructor's eight insertions, `insert` and `write`, over the functions of `BPTree` they are ports of |
| `Masstree` | `masstree/masstree.h`, `bptree.h`, `key.h` | the tree, and for each key the last value given to it; one action per `insert`, with the splits and new layers it leads to |
| `Cicada` | `cicada/`, `common/tsc.h`, `common/helper.h` | `main`'s steps, and one action per access of a thread to shared state; `localClock`, `wts`, `rts` and the two sets are members of `TXExecutor` |
| `SerializabilityProofs`, `KVSiloProofs`, `KVDatabaseProofs`, `KVSystemProofs`, `SiloProofs`, `TreeShapeProofs`, `BPTreeProofs`, `CicadaProofs` | - | the theorems |
| `MCKVSilo`, `MCKVDatabase`, `MCKVSystem`, `MCSilo`, `MCBPTree`, `MCMasstree`, `MCCicada` | - | values of the constants, symmetry, views |

`KVSilo` and `Silo` both extend `Serializability`, which extends `TidWords`.
`Silo` instantiates `SerializableStore` with the unlocked words as the installed
versions, and `BPTree` instantiates `KeyMap` with what `find` returns and with its own
`command`, so that each command has to be the one of the map it is named for.
`KVDatabase` runs a query in one step; `KVSystem` extends it and replaces that
step by the steps of an instance of `KVSilo` whose transactions are the queries.
`MCBPTree` extends `PrimaryTree`, which extends `BPTree`, and runs both programs.

Decisions a reader should know:

- Values. A record's value is the transaction that wrote it, so a history tells
  which version each read returned. What a query computes is not modelled.
- The spin loops (`do ... while(before.lock)`, `lockWSet`) are guards: the
  iterations that find the lock set change nothing. `compare_exchange_weak`
  succeeds exactly when the word is still the unlocked one that was loaded, so
  the load and the exchange are one step; spurious failures repeat the loop.
- Memory order. Accesses are sequentially consistent. The target is x86, where
  the order of two loads or of two stores by one thread is kept and locking is
  a locked instruction; `silo/txn_executor.cpp` relies on the same
  ("Order of load doesn't exchange"). What a weaker machine may add is not modelled.
- Uninitialized state is nondeterministic: KVSilo, KVDatabase and KVSystem start in
  any epoch (`SiloEnv::E` has no initializer), Silo in any `localEpoch` of 0 and 1
  and any tid of `InitialTids`. Records and `workerE` start at epoch 0, as they are made.
- E is a 32-bit counter that wraps, here modulo `EpochMod`. The auxiliary variable
  `wrapped` of `KVDatabase` has the workers since whose load of E it has wrapped to 0;
  `EpochsAdvertised` says nothing of these, whose transactions do get TIDs of
  an epoch before the one in `workerE`.
- Cicada's clock is the time stamp counter of whatever core a thread runs on.
  `Rdtscp` returns a value at most `Skew` behind the furthest counter, so a
  thread may read less than before (`tmp < localClock`, `time_stamp.h:36`):
  `Elapsed` then leaves its clock alone, and as `clockBoost` is 0 it draws its last
  timestamp again. `TimestampsOrdered` says exactly when.
- No version of Cicada is ever installed, so a walk down a version list is one
  comparison. Each step of a transaction's loop is one action, `RunStep`: it touches
  nothing another thread changes. `write`'s early abort for a later read timestamp
  is left out: the version's `rts` stays what `init` gave it, so the test is never true.
  `LeaderWork` is one action although its update is several stores: the flags
  that let it begin are set by nobody.
- On a machine that does not tell its cores `BuildThreads` is 0 and `init` builds no
  tuple. The first step of a transaction then follows pointers nobody set:
  `Crash` ends the process, or `RunStep` goes on with what it finds.
- Where `bptree/main.c` assigns the root `insert` returns, `PrimaryTree::insert`
  returns it and leaves the member to its caller; the model's `insert` is the
  call with that assignment, as in the constructor, its only caller.
- A B+ tree record is named by its key, as a key has at most one record; node
  addresses are reused by `FreeAddress`, so a dangling pointer would be reached. The
  heap is a set: a second `free` of one address would not be seen.
- Lines that begin a definition marked `mutant` are faulty variants of the
  definition that follows: every property of every run is violated when its
  variant takes that definition's place.

## What the runs check

| Run | Instance | Result |
| --- | --- | --- |
| `kvsilo_mixed` | 3 transactions, 2 records, 4 programs, 2 epochs that wrap | type, `LocksOwned`, `NoWaitCycle`, `SnapshotReads`, `TidsGrow`, `SerializableButForCollisions` hold |
| `kvsilo_transfers` | 3 transfers of `kvsilo/main.cpp` while E is 0, the epoch records are made with, fair | `Serializable` and `EveryQueryEnds` hold |
| `kvsilo_lost_update` | 2 transfers, 3 epochs, E starting in any | violates `Serializable`, also when E stays at 1 |
| `kvsilo_rewrite` | 2 queries that write one record twice, fair | violates `EveryQueryEnds` |
| `silo_workers` | leader with 2 transactions, follower with 1, 2 keys, 6 programs, epochs 0 to 2, fair | type, `EpochLag`, `EpochsOrderConflicts`, `WorkerTidsGrow`, `RestingTable`, `Serializable`, `ImplementsStore`, `EveryWorkerStops` hold |
| `kvsystem_life` | 2 workers, 2 clients with a read-modify-write of one record each, 2 epochs that wrap, E starting in either and incremented once, fair | type, `EveryQueryCounted`, `EpochsAdvertised`, `SettledAtReturn`, `TerminateReturns`, `QueriesRun` hold |
| `kvdatabase_epochs` | 1 worker, 1 client, 3 epochs | violates `EpochLag` |
| `bptree_commands` | main.c at orders 3 (7 keys) and 4 (10 keys), the primary tree with 8 keys and 4 more, any commands | type, `WellFormed`, `Linked`, `NothingLeaked`, `RangesFromKeys`, `LevelsPrinted`, `ImplementsMap` hold |
| `bptree_ranges` | order 4, both programs | violates `RangesInclusive` |
| `masstree_inserts` | order 3, 10 keys of one to three slices, one with two values | type, `ChildrenKnowTheirParents`, `LeavesLinked`, `LookupsEnd`, `NothingDropped` hold |
| `masstree_split` | order 16, keys 1 to 24 in ascending order | violates `SplitTest` |
| `cicada_threads` | a leader with 2 transactions and a thread with 1, 6 tuples, 4 cores or an unknown number, counters a tick apart, 2 programs, fair | type, `TableBuilt`, `TimestampsOrdered`, `SnapshotsBelow`, `RmwMarked`, `EveryThreadEnds` hold |

Five runs end in a violation, each a disagreement of the code with what the
repository says of it:

1. `commit` compares tids and not epochs (`kvsilo/transaction.cpp:63`). The first
   version of an epoch often has tid 0, as the one before it: a transaction that
   read the older one passes validation and an update is lost. E need not move for
   this: the initial records are of epoch 0, and any other E will do. `silo/`
   compares both. While E is 0, or whenever no tid repeats in two epochs, the
   protocol is right (`SerializableInFirstEpoch`, `SerializableButForCollisions`).
2. A query that writes a record twice waits for its own lock for ever
   (`kvsilo/transaction.cpp:47`), where `database.cpp:39` speaks of waiting until
   the query is completed.
3. The `continue` at `kvsilo/database.cpp:65` belongs to the inner loop, so E
   advances whatever the workers have loaded, against the rule quoted at
   `silo/main.cpp:96`.
4. `find_range` returns nothing when the range starts behind the last key of
   the leaf it is looked up in (`bptree/main.c:389`, `kvsilo/primary_tree.cpp:130`).
5. Masstree's `split` separates the halves by the slice of the key being
   inserted (`masstree/bptree.h:362`): keys of the new node that are less are
   no longer found, among them key 17 of `MasstreeTest.split`
   (`test/masstree/a.cpp:197`).

Because of the last one `Masstree` cannot implement `KeyMap`, and
`masstree_inserts` checks what does not depend on separators: the shape of the
tree, its list of leaves, its flags, and that every value is still in it. A key
that is not found is inserted a second time, and a separator may then repeat,
so the leaves are linked completely but not always from left to right.

What Cicada's run shows holds because of what the prototype does not do yet, and
a developer who finishes it should know where:

- `begin` takes `rts = MinWts`, although the comment of the constructor says
  `minus 1`. It stays below every writer only because nobody sets a `GCFlag`, so
  the leader never recomputes `MinWts` from the published timestamps;
  the mutant of `SnapshotsBelow` lets it.
- The two sets of a thread are cleared by nobody (`earlyAbort`, which would, is not
  called). A later transaction skips the keys an earlier one wrote, whose version
  keeps the older timestamp, and a tuple that an earlier one has read is marked as
  a read-modify-write when a later one writes it unread. What does hold is
  `RmwMarked`: a tuple is never given two versions, and no version of a tuple that
  its own transaction has read is left unmarked. The converse fails, as said.
- A timestamp is drawn twice by a thread whose counter did not advance: what
  is to be unique for a transaction is so only between threads.
- `zipf() & (tupleNum - 1)` reaches every key only when the number of tuples is
  a power of two; with 1000 it reaches the keys whose bits are set in 999.

Bounds and why they are enough. Two records and two or three transactions are
what an anomaly of a two-step cycle (lost update, write skew, crossed lock
orders) needs; three make a cycle of three edges and a bystander possible.
`TidMod` exceeds the transactions of a run (`NoTidWrap`), as 2^29 does any
realistic run; epochs do wrap in `kvsilo_mixed`. `MaxEpoch = 2` lets a worker be
two epochs late, the first distance `EpochLag` forbids; `kvdatabase_epochs` has
four epochs, so that two late is not two early. `Quota` bounds the
transactions of a worker, client or thread; two for one of them suffice for what is
carried over from one transaction to the next. `kvsystem_life` has the one
program that races with itself, because the records' anomalies are
`kvsilo_mixed`'s question and its own are queues, epochs, results and `terminate`;
`MaxIncrements = 1` puts one increment of E, with or without a wrap, between any two
loads of a worker. Silo's two workers
include every two-step cycle, retries and three epochs. `MaxClock`, the
width of a timestamp's clock part, is so large that no thread
reaches it. Six tuples are not divided by four cores (`BuildThreads` is 3), and
`SmallTable` is just below six. `Skew = 1` lets a counter be behind, the same and
ahead; `BuildTime`, the ticks `init` and the start of a thread take, is the least
that exceeds it. Ten keys at order 4 and seven at
order 3 reach trees of three levels whose inner nodes are split, merged and
redistributed on both sides; ten keys split Masstree's interior nodes of order 3
at two levels. `FewOrders` fixes the order in which its one-slice keys first
arrive; keys with suffixes and layers come at any time. `OneKeyStandsOut` gives one key two values, enough
to see a record under the wrong key. `bptree_commands` numbers the nodes of a
tree in the order of a walk (`TreeView`), `FewKeys` bounds the keys of main.c's
trees by their order, `kvsilo_mixed` permutes interchangeable transactions; runs with a liveness property use none
of these.
Deadlock is checked for the trees; everywhere else the program really stops,
when all queries are done or the quotas are used up.

Fairness is weak, per thread: `std::thread`s that are running take their next
step eventually. A thread whose spin loop waits for a lock that is set and
cleared again and again may wait for ever under weak fairness; in these runs
finitely many transactions run, so no lock is taken infinitely often. Nobody is
obliged to submit a query or to call `terminate`; in Silo main does store quit,
when its sleep ends. `LeaderAdvance` and `LeaderTooEarly` are one fair
disjunction: the leader moves, the clock decides how. In `KVSystem` a worker's
steps of a query are part of its thread's fairness (`WorkStep`), so that a query
ends is shown and not assumed. In Cicada `main` wakes from its sleep and the
threads it started run; nothing there waits for a lock.

## What is proved

For every value of the constants: sets of transactions, workers and keys,
programs, widths of the counters, bounds.

| Module | Theorem | States |
| --- | --- | --- |
| `KVSiloProofs` | `Typing` | `Spec => []TypeOK` |
| | `LocksHaveOneOwner` | `Spec => []LocksOwned` |
| | `WaitsEnd` | `Spec => []NoWaitCycle` |
| | `SomeoneProceeds` | `WritesOnce` implies that always, while a query has not ended, one that has not ended is not `Spinning` |
| | `TidsOnlyGrow` | `Spec => TidsGrow` |
| | `ReadsAreSnapshots` | `Spec => []SnapshotReads` |
| | `SerializableWithinEpochs` | `Spec => []SerializableButForCollisions` |
| | `SerializableInFirstEpoch` | `Spec /\ [](E = 0) => []Serializable` |
| `KVDatabaseProofs` | `DatabaseTyping` | `Spec => []TypeOK` |
| | `QueriesAreKept` | `Spec => []NoQueryLost`, half of `EveryQueryCounted` |
| | `QueriesRunOnce` | `Spec => [](HandInv /\ QueueInv)` |
| | `QueriesAreCounted` | `Spec => []EveryQueryCounted` |
| `KVSystemProofs` | `SystemIsDatabase` | `SystemSpec => Spec` of KVDatabase |
| | `SystemIsKVSilo` | `SystemSpec => Transaction!Spec` |
| | `SystemCounts` | `SystemSpec => []EveryQueryCounted` |
| | `SystemIsolation` | the invariants of KVSilo proved above, of `SystemSpec` |
| | `EpochsAreAdvertised` | `SystemSpec => []EpochsAdvertised` |
| | `TerminateSettles` | `SystemSpec => []SettledAtReturn` |
| `SiloProofs` | `SiloTyping` | `Spec => []TypeOK` |
| | `EpochsStayClose` | `Spec => []EpochLag` |
| | `TidsOfWorkersGrow` | `Spec => []WorkerTidsGrow` |
| | `NoStandstill` | `Spec => []HolderProceeds`: if a worker spins on a lock, one that holds locks does not |
| | `TableAtRest` | `Spec => []RestingTable` |
| | `SiloSerializable` | `Spec => []Serializable` |
| | `EpochsOrdered` | `Spec => []EpochsOrderConflicts` |
| | `SiloImplementsStore` | `Spec => ImplementsStore`, a refinement |
| `BPTreeProofs` | `TreeKept` | `Spec \/ PortSpec => []Kept`, the inductive invariant of the tree |
| | `TreeTyped` | `Spec \/ PortSpec => []TypeOK` |
| | `TreeWellFormed` | `Spec \/ PortSpec => []WellFormed` |
| | `TreeLinked` | `Spec \/ PortSpec => []Linked` |
| | `TreeLeaksNothing` | `Spec \/ PortSpec => []NothingLeaked` |
| | `TreeIsMap` | `Spec \/ PortSpec => ImplementsMap`, a refinement |
| | `TreeRanges` | `Spec \/ PortSpec => []RangesFromKeys` |
| `CicadaProofs` | `CicadaTyping` | `Spec => []TypeOK` |
| | `DrawnInOrder` | `Spec => []TimestampsOrdered` |
| | `SnapshotsStayBelow` | `Spec => []SnapshotsBelow` |
| | `EveryTupleBuilt` | `Spec => []TableBuilt` |
| | `WritesAreMarked` | `Spec => RmwMarked`, an action property |

With these every invariant, action property and refinement that a run checks of
kvsilo, silo, cicada and, but for `LevelsPrinted`, of the B+ trees is proved; what
is left to TLC is said below.

`SerializabilityProofs` has the lemmas the two protocols share: what the
operations on words return (`WordOperations`), that their order is one
(`WordOrder`), that `tid++` makes a greater word when it does not wrap
(`NextTidGrows`), the order of words whose lock bits may differ
(`PrecedesOrder`), that one of finitely many things has the greatest number
(`Greatest`), and that a finite history whose conflicts all ascend in some
numbering of its transactions is conflict serializable (`Numbered`).

### kvsilo

Assumptions: `WidthAssumption` (both counters have at least one value),
`KVSiloAssumption` (finitely many transactions, records ordered like addresses,
programs made of reads and writes) and, from `TidsOnlyGrow` on, `NoTidWrap`: fewer
transactions than values of the 29-bit tid.

The argument. None of the invariants is inductive alone.

1. `TypeInv` adds to `TypeOK` that the cursors `op` and `idx` stay within the
   query and the sets while a label needs them (`CursorOK`).
2. `LockInv` carries `LocksExclusive` and `LockBitOwned` together: that nobody
   else holds a record follows from its lock bit being clear when it is locked,
   and that the bit may be cleared follows from nobody else holding it.
   `ChosenUnlocked`, that a chosen TID has no lock bit, is what publishing needs.
   `LockFrame` is for the steps that change no lock, `LockRelease` for those that
   give one back.
   Waiting: `LockOrder`, that a write set is sorted while it is locked,
   makes whoever is waited for want a later record than who waits for it
   (`WaitsUpwards`), so in a circle none would want the last one (`Greatest`):
   `NoWaitCycle`. That leaves the wait for oneself, which run `kvsilo_rewrite`
   shows. `WritesInv` says that WSet holds the writes of the query, each once
   (`Traced`), also when sorted; if these are of different records (`WritesOnce`)
   nobody waits for itself, a lock that is waited for has an owner, and
   `SomeoneProceeds` follows.
3. `TidBound`: no tid in the system exceeds the number of transactions that have
   chosen one, so with `NoTidWrap` the increments of `ChooseTid` do not wrap.
4. `GrowInv`: while a transaction holds a record, the record's word is at most
   the transaction's `maxWriteTid`, which its chosen TID exceeds. A store of a
   TID therefore raises the word: `TidsGrow`.
5. `SnapshotInv`: the value and word of a record belong to the same writer
   unless some transaction is between its two stores (`ValueInv`), and what a
   reader has loaded belongs together or the word has moved on for good, which it
   shows by being greater (`ReadInv`, from `TidsGrow`): the comparison in `read`
   then accepts only what belongs together.
6. `RecordsInv` ties the records to the history. `HistoryInv`: the history has one
   record for each transaction that chose a TID, with that TID. `InstalledInv`: a
   record's value is of a committed transaction that wrote it, and what such a
   transaction wrote is still to be installed under its lock, is there, or has
   been replaced by something greater (`Overwritten`). `SeenInv`: what a
   transaction's read set names is not above the record's word.
7. `Serial(pos, n)`, for which `SerialInv` claims that some `pos` exists:
   transactions take their position `pos` from a counter `n` when they load the
   epoch, all their locks held. Every conflict edge of the history ascends
   (`EdgesOrdered`); and for a transaction that is still validating, the edges it
   will have with those that committed ascend too, as far as it has come: who
   wrote what it read or overwrote is before it (`Sources`, `Predecessors`),
   who overwrites what it has validated is behind it (`Successors`). The
   hypothesis is used in one place, `ValidRead`: the comparison of tids in
   validation tells whether the record was replaced since only if no two epochs
   gave it that tid. While E is 0 no word leaves epoch 0, in which the records are
   made (`FirstEpochInv`), and there is no collision to exclude
   (`NoCollisionInFirstEpoch`). With any other constant E there is one: the first
   write takes a record from epoch 0 to E. `Numbered` turns ascending positions into a serial order as
   `ConflictSerializable` wants it.

### the database

Assumption: `KVDatabaseAssumption` (workers, finitely many clients, quotas).
`DatabaseInv` has three parts: types; `LifeInv`, that workers are made and
joined in order and no epoch in their hands is ahead of E; and `PlacesInv`: a
worker holds a query exactly between its dequeue and its end (`HandInv`), a
query waits at one place of one queue (`QueueInv`), and the places together are
what was submitted. `NoQueryLost` needs the others: a query that was twice in
the queues would be dequeued once and then be at two places.

`CountInv` adds the results. `EveryQueryCounted` adds up the collected total and
the outcomes of the workers not yet collected, as a set of numbered outcomes
(`Counted`). A query that ends was not in `ended` (`HandInv`) and its worker is
not deleted yet (`JoinInv`), so both sides grow by one (`RunCounted`);
`CollectResult` moves the outcomes of one worker, which `DeleteInv` says is not
deleted, from one summand to the other (`CollectCounted`).

### the whole of kvsilo

Assumptions: those of the database, and `SystemAssumption`, which is what KVSilo
assumes with the queries for its transactions.

1. A step of a worker's query is a step of `Transaction` and, when it ends the
   query, `RunQuery` too (`ThreadStep`, `TransactionStep`). That the query is one
   of `Queries` comes from `DatabaseInv`. What is proved about `KVDatabase` and
   `KVSilo` therefore holds in the composition; `SameSteps` and its neighbours
   say that the instance under the theorems is the instance in the model.
2. `RestInv`: a transaction in nobody's hands has not begun or has ended.
   `EpochInv`: what `commit` has loaded, and then what it chose, is at least what
   the worker stored in `workerE`, since E only grows until it wraps, and `wrapped`
   names those for whom it has. Nothing is assumed of where E starts.
3. `CreditInv`: the committed transactions can be divided among the workers so
   that each has as many as its result says, and those of the deleted workers are
   what the total says. When `terminate` returns, `DeleteInv` says all are
   deleted, `RestInv` and the joins that nothing is in its commit phase; so the
   division, the committed transactions and the history have the same size, and
   by `LockBitOwned` and `InstalledInv` every record is unlocked and final: its value is
   that of the committed writer with the greatest TID, and its word is that TID
   (`Settled`).

### silo

Assumptions: `WidthAssumption`; `SiloAssumption` (finitely many workers, thread 0
one of them, the epoch field does not wrap before `MaxEpoch`, initial tids fit);
`SiloProgramsAssumption` (programs are steps on keys); and `SiloNoTidWrap`: the
tids `init()` leaves in the table, which no line of it assigns, are farther from
the end of the 29-bit field than there are transactions. Without it `tid++` can
lose its carry and all that follows from growing TIDs is wrong. A worker that
keeps running exhausts the field, too, as tids do not start again in a new epoch
here; 2^29 is beyond the seconds `main` sleeps.

1. `EpochInv` adds two facts to `EpochLag`. `FollowerInv`: a follower about to
   store an epoch has either the current one in its hands, or the one before it
   while what it has stored is not the current one either, so that the leader's
   test fails and there is no second increment. `LeaderInv`: the leader, which
   tests everybody but itself, increments only before a transaction and stores
   an epoch within each; from there to its next increment it is not behind.
2. `LockInv` is that of kvsilo, with the workers for the transactions. So is the
   argument about waiting, with its own `LockOrder`: `write` puts no key in the
   write set twice and sorting keeps it so (`SortOnce`), hence a worker that holds
   locks and spins wants a later record than any it holds (`SpinsUpwards`), and
   `NoStandstill` needs no hypothesis. `TidBound`:
   a tid in the system plus the number of transactions that have not chosen theirs
   stays below `TidMod`; it starts as `SiloNoTidWrap`, and each choice takes one
   transaction and adds at most one to a tid.
3. `HistoryInv`: a worker's committed TIDs are not above its most recently chosen
   one, its transactions in the history are earlier than the one it has not
   yet committed, and the record of the one it is installing has its TID and its
   write set (`CommitInv`). `GrowInv`: a record that is held is at
   most `maxWriteTid`, which a chosen TID exceeds. Together they are `TidInv`, from
   which `RecordsGrow` concludes that a record's TID only ever grows, and that
   nothing but `StoreTid` changes it.
4. `VersionsInv`, `ValueInv`, `ReadInv`: what a committed transaction wrote is
   still held by it, is in the table, or has been replaced by something greater; a
   record's value belongs to its TID unless someone is between the two stores;
   and what a worker has read belongs together, for each of the three steps
   at which `read` may be interrupted (`Reading`). When no worker is in `commit` or
   `abort` these say `RestingTable`.
5. `Serial(pos, n)` is as in kvsilo: positions are given at the load of the epoch.
   `ValidRead` needs no hypothesis here, since validation compares epochs and
   tids. An aborted transaction keeps its position, unused; a retry
   gets a new one.
6. `EpochsLoaded(pos, loaded)` is carried along: transactions loaded the epoch in
   the order of their positions, and the epoch of a TID is the one loaded,
   at least 1. Only that of a transaction that wrote nothing, and read nothing that
   another wrote, may be less (`Touches`). `WordEpochInv`, that no record is ahead of the
   epoch its next reader or writer will load, bounds it from above, `ReadMax`
   from below: the TID's epoch is at least that of all that was read.
   `EpochsOrderConflicts` follows, and would not follow from `EpochLag` alone.
7. `StoreStep`: `ChooseTid` is `Store!Commit`, whose guard, that the
   history stays serializable, is the invariant after the step; `StoreTid` is
   `Store!Install`, whose guard, that the version is later than the one in the
   record, is `RecordsGrow`; every other step leaves unlocked words and history.

### bptree and the primary tree

Assumptions: `BPTreeAssumption` (orders from 3 to 20, as `main` accepts them; keys
are positive numbers, as many as one likes) and, of the port,
`PrimaryTreeAssumption` (order 4 is one of the orders, and the constructor offers
each of its keys itself as value). Both programs start from the empty tree
(`StartKeeps`) and their steps are those of one map (`MapStep`, `StepKeeps`), so each
theorem is about `Spec \/ PortSpec`.

1. The invariant. What TLC checks of the tree (`WellFormed`, `Linked`,
   `NothingLeaked`) speaks of whole subtrees, through recursive functions, and says
   nothing of a node alone; it is not what a split can be reasoned about with.
   `Shape(N, r, dep, H, low, high)` (module `TreeShapeProofs`) is local. Each node
   has a depth and an interval of keys it covers, `high = 0` for no
   bound; a node's keys ascend within its interval; the i-th child covers the
   part of its parent's interval between two separators, is one level deeper and
   points back; leaves are at depth `H` and each is linked to the leaf whose
   interval begins where its own ends; every node but the root is a child of the
   node it calls its parent. `Kept` says that there are such measures, that all nodes
   but the root are half full, that none is empty or overflows, and that the leaves
   hold the keys of the records (`Sound`), or that there is no tree (`Emptied`).
   TLC cannot evaluate `Kept`, which asks for some measures; `bptree_commands`
   checks what follows from it.
2. Splitting. `Divided(U, F, n, new, p, i, key)` says that F is U with the node n
   divided into n and new, whose separator went into the parent p.
   `DivideShape` shows that F has a shape if U has one, with the intervals that
   `Given(low, new, key)` and its neighbors spell out, and `DivideKeys` that the
   leaves still hold the same keys. Here U need not fit the arrays: it is the tree
   with the entry already in the full node, which the program has only in temporary
   arrays.
   `Raised` puts an empty root above the root, so that a new root is a
   division, too (`RaiseShape`).
3. Insertion. Between two calls of `insert_into_parent` the tree is no B+ tree: the
   node is split and its parent does not know. `Splitting` says so by the tree U the
   node was split out of. Each call ends (`EnterParent`, `NewRoot`) or hands on a
   node one level up (`SplitInner`); there are at least as many nodes as levels
   (`HeightBelowSize`), so the last call has ended: `InsertSound`.
4. Deletion is division read backwards. `MergeShape` is `DivideShape` with U and F
   exchanged, and a redistribution is a merge followed by another
   division (`Shifted`, `EvenedSound`). `Lacking` is the tree in which one node may have
   fewer keys than it should; `CoalescedLacking` moves it one level up, and
   `RootAdjusted` ends at the root: `DeleteSound`. That a neighbor which is merged
   fits, and one that gives up an entry keeps enough, is the arithmetic of
   `cut` (`HalvesFit`, `MergedFits`).
5. Lookup. TLA+ defines a recursive function by the equation it is to satisfy, and
   that some function does is to be proved: `RankRecursion`, with the depth of a node
   for what goes down or up, and the number of lower bounds to the right (`ToTheRight`)
   for the chain of leaves. `FindLeafCovers`: the search ends in the leaf that
   covers the key, and only one does (`CoverOnce`). `ChainLists`: whatever the leaves
   say of their own keys, the chain puts together in ascending order; with all
   keys that is `Linked`, with those up to a bound it is the rest of a range.
6. `TreeIsMap`: `find` returns what the records hold (`ContentsAreRecords`), and
   each command changes them as the command of the map with that name and those
   arguments does: an insertion lost, or a deletion of another key, would be no step
   of `KeyMap`.

### cicada

Assumptions: `CicadaAssumption` and `ProgramsAssumption` (a program has a step). The
first says that threads fit a byte, that there is a table, that `Cores` are numbers, 0
among them or not, and that `Skew < BuildTime`: the counters of two cores are less
apart than the time from the first timestamp of `main` to those of the threads, which
is that of building the table and starting them. Without it a thread could draw a
timestamp below the versions `init` made, and a walk down a version list would
leave its end.

1. `CicadaInv`: `TypeOK`, which holds the barrier; `NoGarbage`, no flag is ever
   set, so `MinWts` stays two above `initialWts` (`MainInv`); and for each thread
   (`IssuedInv`) that what it drew is `256 * clock + thread`, at least 256 above the
   initial versions (`StampInv`), that its `localClock` is the latest clock it has
   read and its last timestamp is made of it (`LatestInv`), and that it drew a later
   one exactly when it read a later clock than all before (`OrderInv`).
2. Two timestamps of two threads differ in the low byte (`StampsDiffer`).
   Snapshots are `MinWts` or one less, initial versions are below, drawn timestamps
   above.
3. `TableBuilt`: unless `cores` is 0, the largest divisor of the number of tuples
   among the cores exists (`LeastElement` on the distances from above,
   `BuildThreadsDivide`), the parts it cuts are disjoint (`PartsDisjoint`) and reach
   the end (`PartsCover`).
4. `SetsInv`: a thread has a step left whenever it is at its steps (`StepsInv`),
   and what a transaction that also writes has read (`ReadSoFar`) is in one of the
   two sets (`SetInv`), put there by itself or by one before it. If it is in the write
   set it is not written again; if it is in the read set alone the write is marked.

## What is only model-checked

- Liveness (`EveryQueryEnds`, `EveryWorkerStops`, `TerminateReturns`,
  `QueriesRun`, `EveryThreadEnds`): fairness and ENABLED are beyond the prover.
  For the locks, the safety half is proved: `SomeoneProceeds` and `NoStandstill`
  exclude a standstill, not that one thread is passed over for ever.
- `LevelsPrinted`: that the queue of `print_tree` holds a level at a time is a
  statement about each prefix of a breadth-first walk.
- `Masstree` follows the recursion of the code, through layers that are trees
  themselves, with RECURSIVE operators, behind which the prover does not work.
- That kvsilo is serializable only within an epoch is a violation a run shows
  (`kvsilo_lost_update`); the theorem says what holds across epochs.

## What is not modelled, and why

- `bptree/bptree.cpp`: not built by any `CMakeLists.txt`, and undefined behaviour
  from its first split on (`clone` copies `size + 1` bytes of an array of
  pointers, `add_size` frees the arrays it should enlarge).
- Cicada's `validation`, `writePhase`, `abort`, `earlyAbort`, `writeSetClean` and
  `maintain`: stubs, or called by nobody. No transaction of the prototype installs
  a version.
- Masstree's concurrency: `lock` is a plain store (its compare-and-swap is
  commented out), nothing calls `insert` from two threads, and its notes call it
  abandoned; the counters of `Version` and the retries they cause are left out.
- Masstree keys that share their first slice: `insert` never descends into a
  layer for a new key, so such keys hide each other whatever else is right; and
  suffixes that stay behind when their slot moves. Both are listed as hazards
  without a property.
- The hand-built trees of `masstree/sample.h`, the assertions of `verify.h`, the
  language experiments of `test/`, the greeting of `ss2pl/`.
- Output other than the shape of `print_tree`, statistics for reports, random
  numbers; crashes (nothing is persisted: the logger writes no log).
- The data race on `workerE` between the constructor and the leader.

## Plan

1. done: `TidWords`, `Serializability`, `KVSilo` with its theorems up to
   serializability; `Silo`, `SerializableStore` and their theorems up to the
   refinement; `KVDatabase` and `KVSystem` with their theorems; `KeyMap`, `BPTree`
   and `PrimaryTree` with their theorems; `Masstree`; `Cicada` with its theorems.
2. A Masstree run over keys that share slices, for the two hazards above, once
   `insert` enters layers.

To run: `tlc -config KVSilo_mixed.cfg MCKVSilo` (likewise for the other runs of
`PROJECT.json`) and `tlapm KVSystemProofs.tla` (likewise for the other modules
of theorems).
