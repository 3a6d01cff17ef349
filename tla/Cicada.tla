------------------------------- MODULE Cicada -------------------------------
(***************************************************************************)
(* The Cicada prototype (cicada/): main() builds the table and starts the  *)
(* threads; each draws a timestamp, publishes it and runs transactions     *)
(* that fill a read set and a write set, until main() tells it to quit.    *)
(* Thread 0 is also the leader that moves min_wts and min_rts.             *)
(*                                                                         *)
(* Validation, the write phase, abort() and garbage collection are stubs   *)
(* nobody calls: each tuple keeps the version init() gave it, and          *)
(* clockBoost, which only earlyAbort() sets, stays 0.                      *)
(***************************************************************************)
EXTENDS Integers, Sequences, FiniteSets, FiniteSetsExt

CONSTANTS
    THREAD_NUM,
    TUPLE_NUM,
    SmallTable,  \* fewer tuples than this are initialized by one thread
    Cores,       \* what hardware_concurrency() may return, 0 if it does not know
    Skew,        \* how far the time stamp counters of two cores may be apart
    BuildTime,   \* the ticks between initialWts and the threads' first timestamps
    MaxClock,    \* bound: what fits into the upper 56 bits of a timestamp
    Programs,    \* bound: the steps a transaction may have
    Quota        \* bound: transactions of each thread

Threads == 0 .. (THREAD_NUM - 1)

ASSUME CicadaAssumption ==
    /\ THREAD_NUM \in 1 .. 256  \* uint8_t threadId
    /\ TUPLE_NUM \in Nat \ {0}
    /\ SmallTable \in Nat
    /\ Cores \subseteq Nat
    /\ Skew \in Nat /\ BuildTime \in Nat /\ Skew < BuildTime
    /\ MaxClock \in Nat \ {0}
    /\ Quota \in [Threads -> Nat]

Tuples == 0 .. (TUPLE_NUM - 1)

Steps == [op : {"read", "write"}, key : Tuples]
ASSUME ProgramsAssumption == Programs \subseteq Seq(Steps) \ {<<>>}

VARIABLES
    cores,
    tsc,         \* the time stamp counter, of the core that is furthest
    \* main()
    main,
    builders,    \* the threads of init() that initialized a tuple
    initialWts,
    start, quit,
    \* shared arrays and watermarks
    readyFlags, ThreadWtsArray, ThreadRtsArray, GCFlag, GCExecuteFlag,
    MinWts, MinRts,
    \* TXExecutor, one for each thread
    pc, localClock, wts, rts, readSet, writeSet,
    steps,
    taken,       \* position of the loop over the steps
    \* auxiliary
    issued       \* the timestamps each thread drew, and the clocks it read for them

mainVars == <<main, builders, initialWts, cores>>
flags == <<start, quit, readyFlags>>
shared == <<ThreadWtsArray, ThreadRtsArray, GCFlag, GCExecuteFlag, MinWts, MinRts>>
clockVars == <<tsc, localClock, wts, issued>>
sets == <<steps, taken, readSet, writeSet>>
vars == <<mainVars, flags, shared, clockVars, sets, pc, rts>>

PerThread(x) == [t \in Threads |-> x]

Init ==
    /\ cores \in Cores
    /\ tsc = 1
    /\ main = "init"
    /\ builders = [k \in Tuples |-> {}]
    /\ initialWts = 0
    /\ start = FALSE
    /\ quit = FALSE
    /\ readyFlags = PerThread(FALSE)
    /\ ThreadWtsArray = PerThread(0)
    /\ ThreadRtsArray = PerThread(0)
    /\ GCFlag = PerThread(0)
    /\ GCExecuteFlag = PerThread(0)
    /\ MinWts = 0
    /\ MinRts = 0
    /\ pc = PerThread("absent")
    /\ localClock = PerThread(0)
    /\ wts = PerThread(0)
    /\ rts = PerThread(0)
    /\ steps = PerThread(<<>>)
    /\ taken = PerThread(0)
    /\ readSet = PerThread({})
    /\ writeSet = PerThread({})
    /\ issued = PerThread(<<>>)

-----------------------------------------------------------------------------
(* main()                                                                  *)

\* The largest number of threads that divides the table evenly, and no thread
\* at all on a machine that does not tell its cores.
BuildThreads_cores == cores  \* mutant: "tupleNum % i == 0" left out
BuildThreads ==
    IF TUPLE_NUM < SmallTable THEN 1
    ELSE Max({0} \cup {i \in 1 .. cores : TUPLE_NUM % i = 0})

\* "start" to "end", inclusive, of partTableInit.
Part(i) == (i * (TUPLE_NUM \div BuildThreads)) .. ((i + 1) * (TUPLE_NUM \div BuildThreads) - 1)

Body_clock(clock, t) == 256 * clock  \* mutant: "| threadId_" left out
Body(clock, t) == 256 * clock + t

\* init() and the first store to MinWts.
BuildTable ==
    /\ main = "init"
    /\ builders' = [k \in Tuples |-> {i \in 0 .. (BuildThreads - 1) : k \in Part(i)}]
    /\ initialWts' = Body(tsc, 0)
    /\ MinWts' = initialWts' + 2
    /\ tsc' = tsc + BuildTime
    /\ main' = "create"
    /\ UNCHANGED <<cores, flags, ThreadWtsArray, ThreadRtsArray, GCFlag, GCExecuteFlag,
                   MinRts, localClock, wts, issued, sets, pc, rts>>

CreateThreads ==
    /\ main = "create"
    /\ pc' = PerThread("construct")
    /\ main' = "waitForReady"
    /\ UNCHANGED <<cores, builders, initialWts, flags, shared, clockVars, sets, rts>>

AllReady_first == readyFlags[0]  \* mutant: "return true" inside the loop
AllReady == \A t \in Threads : readyFlags[t]

StoreStart ==
    /\ main = "waitForReady"
    /\ AllReady
    /\ start' = TRUE
    /\ main' = "sleep"
    /\ UNCHANGED <<cores, builders, initialWts, quit, readyFlags, shared, clockVars, sets,
                   pc, rts>>

StoreQuit ==
    /\ main = "sleep"
    /\ quit' = TRUE
    /\ main' = "join"
    /\ UNCHANGED <<cores, builders, initialWts, start, readyFlags, shared, clockVars, sets,
                   pc, rts>>

Join ==
    /\ main = "join"
    /\ \A t \in Threads : pc[t] = "done"
    /\ main' = "done"
    /\ UNCHANGED <<cores, builders, initialWts, flags, shared, clockVars, sets, pc, rts>>

Main == BuildTable \/ CreateThreads \/ StoreStart \/ StoreQuit \/ Join

-----------------------------------------------------------------------------
(* TimeStamp and the constructor of TXExecutor                             *)

Goto(t, label) == pc' = [pc EXCEPT ![t] = label]

\* rdtscp() on any core: the counters advance, but a thread that moved to
\* another core may read less than it, or another thread, read before.
Rdtscp(c) ==
    /\ c \in (tsc - Skew) .. (tsc + 1)
    /\ c <= MaxClock
    /\ tsc' = Max({tsc, c})

Draw(t, c, clock) ==
    /\ localClock' = [localClock EXCEPT ![t] = clock]
    /\ wts' = [wts EXCEPT ![t] = Body(clock, t)]
    /\ issued' = [issued EXCEPT ![t] = Append(@, [clock |-> c, wts |-> wts'[t]])]

\* generateTimeStampFirst; "rts = MinWts - 1" is not published.
DrawFirst(t) ==
    /\ pc[t] = "construct"
    /\ MinWts # 0
    /\ \E c \in (tsc - Skew) .. (tsc + 1) : Rdtscp(c) /\ Draw(t, c, c)
    /\ rts' = [rts EXCEPT ![t] = MinWts - 1]
    /\ Goto(t, "publishFirst")
    /\ UNCHANGED <<mainVars, flags, shared, sets>>

PublishWts(t) ==
    /\ pc[t] \in {"publishFirst", "publish"}
    /\ ThreadWtsArray' = [ThreadWtsArray EXCEPT ![t] = wts[t]]
    /\ Goto(t, IF pc[t] = "publishFirst" THEN "ready" ELSE "snapshot")
    /\ UNCHANGED <<mainVars, flags, ThreadRtsArray, GCFlag, GCExecuteFlag, MinWts, MinRts,
                   clockVars, sets, rts>>

-----------------------------------------------------------------------------
(* worker()                                                                *)

Ready_never(t) == FALSE  \* mutant: "storeRelease(ready, 1)" left out
Ready(t) == TRUE

StoreReady(t) ==
    /\ pc[t] = "ready"
    /\ readyFlags' = [readyFlags EXCEPT ![t] = Ready(t)]
    /\ Goto(t, "waitStart")
    /\ UNCHANGED <<mainVars, start, quit, shared, clockVars, sets, rts>>

SeeStart(t) ==
    /\ pc[t] = "waitStart"
    /\ start
    /\ Goto(t, "loop")
    /\ UNCHANGED <<mainVars, flags, shared, clockVars, sets, rts>>

\* "while(!quit)", and makeSteps.
MakeSteps(t) ==
    /\ pc[t] = "loop"
    /\ ~ quit
    /\ Len(issued[t]) <= Quota[t]
    /\ \E p \in Programs : steps' = [steps EXCEPT ![t] = p]
    /\ Goto(t, "retry")
    /\ UNCHANGED <<mainVars, flags, shared, clockVars, taken, readSet, writeSet,
                   rts>>

Quit(t) ==
    /\ pc[t] \in {"loop", "retried"}
    /\ quit
    /\ Goto(t, "done")
    /\ UNCHANGED <<mainVars, flags, shared, clockVars, sets, rts>>

GCUpdate_always == TRUE  \* mutant: the flags are not looked at
GCUpdate == \A t \in Threads : GCFlag[t] # 0

\* leaderWork(), by thread 0.  Nobody sets a flag, so it updates nothing yet.
LeaderWork(t) ==
    /\ pc[t] = "retry"
    /\ IF t = 0 /\ GCUpdate
       THEN /\ MinWts' = Min({ThreadWtsArray[u] : u \in Threads})
            /\ MinRts' = Min({ThreadRtsArray[u] : u \in Threads \ {0}})
            /\ GCFlag' = PerThread(0)
            /\ GCExecuteFlag' = PerThread(1)
            /\ UNCHANGED <<ThreadWtsArray, ThreadRtsArray>>
       ELSE UNCHANGED shared
    /\ Goto(t, "retried")
    /\ UNCHANGED <<mainVars, flags, clockVars, sets, rts>>

\* generateTimeStamp: a clock behind the last one ("tmp < localClock") is left
\* alone, and the last timestamp drawn again.
Elapsed_reset(t, c) == c  \* mutant: "elapsedTime = 0" left out
Elapsed(t, c) == Max({localClock[t], c})

\* begin()
Begin(t) ==
    /\ pc[t] = "retried"
    /\ ~ quit
    /\ \E c \in (tsc - Skew) .. (tsc + 1) : Rdtscp(c) /\ Draw(t, c, Elapsed(t, c))
    /\ Goto(t, "publish")
    /\ UNCHANGED <<mainVars, flags, shared, sets, rts>>

TakeSnapshot(t) ==
    /\ pc[t] = "snapshot"
    /\ rts' = [rts EXCEPT ![t] = MinWts]
    /\ Goto(t, "publishRts")
    /\ UNCHANGED <<mainVars, flags, shared, clockVars, sets>>

PublishRts(t) ==
    /\ pc[t] = "publishRts"
    /\ ThreadRtsArray' = [ThreadRtsArray EXCEPT ![t] = rts[t]]
    /\ Goto(t, "steps")
    /\ UNCHANGED <<mainVars, flags, ThreadWtsArray, GCFlag, GCExecuteFlag, MinWts, MinRts,
                   clockVars, sets, rts>>

-----------------------------------------------------------------------------
(* read() and write(), on the two sets of a thread                         *)

Keys(set) == {e.key : e \in set}

\* A key is not read again that this transaction, or since no set is ever
\* cleared an earlier one of the thread, has written or read.
Known(t, key) == key \in Keys(writeSet[t]) \cup readSet[t]

\* thread_ts: read-only transactions read at rts, and are not tracked.
readOnly_first(p) == p[1].op = "read"  \* mutant: the first step decides
readOnly(p) == \A i \in DOMAIN p : p[i].op = "read"
thread_ts(t) == IF readOnly(steps[t]) THEN rts[t] ELSE wts[t]

Read(t, key) ==
    /\ readSet' = IF Known(t, key) \/ readOnly(steps[t]) THEN readSet
                  ELSE [readSet EXCEPT ![t] = @ \cup {key}]
    /\ UNCHANGED writeSet

\* The latest version is the only one.  A read-modify-write of a tuple with a
\* later version aborts, which has no effect but that nothing is written.
Write(t, key) ==
    LET rmw == key \in readSet[t]
        element == [key |-> key, wts |-> wts[t], rmw |-> rmw]
    IN  /\ writeSet' = IF key \in Keys(writeSet[t]) \/ (rmw /\ initialWts > wts[t])
                       THEN writeSet
                       ELSE [writeSet EXCEPT ![t] = @ \cup {element}]
        /\ UNCHANGED readSet

\* The loop over the steps.
RunStep(t) ==
    LET step == steps[t][taken[t] + 1] IN
    /\ pc[t] = "steps"
    /\ \/ step.op = "read" /\ Read(t, step.key)
       \/ step.op = "write" /\ Write(t, step.key)
    /\ IF taken[t] + 1 = Len(steps[t])
       THEN Goto(t, "loop") /\ taken' = [taken EXCEPT ![t] = 0]
       ELSE UNCHANGED pc /\ taken' = [taken EXCEPT ![t] = @ + 1]
    /\ UNCHANGED <<mainVars, flags, shared, clockVars, steps, rts>>

\* A tuple nobody initialized: what its pointers point to is undefined.  The
\* process ends here, or RunStep goes on with what it finds.
Crash(t) ==
    /\ pc[t] = "steps"
    /\ builders[steps[t][taken[t] + 1].key] = {}
    /\ main' = "crashed"
    /\ pc' = PerThread("done")
    /\ UNCHANGED <<cores, builders, initialWts, flags, shared, clockVars, sets, rts>>

Thread(t) ==
    \/ DrawFirst(t) \/ PublishWts(t) \/ StoreReady(t) \/ SeeStart(t)
    \/ MakeSteps(t) \/ Quit(t) \/ LeaderWork(t)
    \/ Begin(t) \/ TakeSnapshot(t) \/ PublishRts(t) \/ RunStep(t) \/ Crash(t)

Next == Main \/ \E t \in Threads : Thread(t)

Spec == Init /\ [][Next]_vars

\* The threads run, and main() wakes up from its sleep.
FairSpec == Spec /\ WF_vars(Main) /\ \A t \in Threads : WF_vars(Thread(t))

-----------------------------------------------------------------------------
(* Correctness                                                             *)

\* The places of a thread before main() lets it go and after.
Before == {"absent", "construct", "publishFirst", "ready"}
After == {"loop", "retry", "retried", "publish", "snapshot", "publishRts", "steps", "done"}

Running == {t \in Threads : pc[t] \notin {"absent", "construct", "publishFirst"}}

Drawn == [clock : Nat, wts : Nat]

\* Variables keep their types, and nobody is on the wrong side of the barrier.
TypeOK ==
    /\ cores \in Cores
    /\ tsc \in Nat
    /\ main \in {"init", "create", "waitForReady", "sleep", "join", "done", "crashed"}
    /\ start \in BOOLEAN /\ quit \in BOOLEAN
    /\ readyFlags \in [Threads -> BOOLEAN]
    /\ initialWts \in Nat /\ MinWts \in Nat /\ MinRts \in Nat
    /\ ThreadWtsArray \in [Threads -> Nat] /\ ThreadRtsArray \in [Threads -> Nat]
    /\ localClock \in [Threads -> Nat]
    /\ wts \in [Threads -> Nat] /\ rts \in [Threads -> Nat]
    /\ GCFlag \in [Threads -> {0, 1}] /\ GCExecuteFlag \in [Threads -> {0, 1}]
    /\ pc \in [Threads -> Before \cup {"waitStart"} \cup After]
    /\ \A t \in Threads : pc[t] \in (IF start THEN After ELSE Before) \cup {"waitStart"}
    /\ issued \in [Threads -> Seq(Drawn)]

\* The threads of init() split the table among them: once it returns each
\* tuple was initialized by one of them, whatever the number of cores, except
\* that a table that is not small is left as it was allocated if
\* hardware_concurrency() is 0.
TableBuilt ==
    main # "init" =>
        \A k \in Tuples :
            Cardinality(builders[k]) = IF cores = 0 /\ TUPLE_NUM >= SmallTable THEN 0 ELSE 1

\* Two threads never draw the same timestamp, even from the same clock, and all
\* of them are above initialWts.  A thread's timestamps never descend, and one
\* is drawn twice exactly when the clock is not later than every one the thread
\* has read.
TimestampsOrdered ==
    \A t \in Threads : \A i \in DOMAIN issued[t] :
        LET this == issued[t][i] IN
        /\ this.wts > initialWts
        /\ \A j \in 1 .. (i - 1) : issued[t][j].wts <= this.wts
        /\ i > 1 =>
              (issued[t][i - 1].wts < this.wts <=>
                  \A j \in 1 .. (i - 1) : issued[t][j].clock < this.clock)
        /\ \A u \in Threads \ {t} : \A j \in DOMAIN issued[u] : issued[u][j].wts # this.wts

\* A read-only transaction reads at a timestamp that has a version of every
\* tuple (the walk down the version list stops before its end) and that is
\* below the timestamp of every transaction that may still write, published
\* or not.
SnapshotsBelow ==
    /\ \A t \in Threads : pc[t] = "steps" => initialWts < thread_ts(t)
    /\ \A t, u \in Running : rts[t] < ThreadWtsArray[u] /\ rts[t] < wts[u]

\* What the running transaction of a thread has read.
ReadSoFar(t) == {steps[t][i].key : i \in {j \in 1 .. taken[t] : steps[t][j].op = "read"}}

Added(t) == writeSet'[t] \ writeSet[t]

\* A thread never makes a second version of a tuple, and whatever its earlier
\* transactions left in the two sets, the version of a tuple that the running
\* transaction has read is marked as a read-modify-write.
RmwMarked ==
    [][\A t \in Threads : \A e \in Added(t) :
          /\ e.key \notin Keys(writeSet[t])
          /\ e.key \in ReadSoFar(t) => e.rmw]_vars

\* main() gets past the barrier, and every thread it started ends and is
\* joined, unless the table was not built.
EveryThreadEnds == <>(main = "done" \/ (main = "crashed" /\ BuildThreads = 0))
=============================================================================
