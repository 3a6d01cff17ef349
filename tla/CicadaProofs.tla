---------------------------- MODULE CicadaProofs ----------------------------
(***************************************************************************)
(* Theorems about Cicada, for every number of threads, tuples and cores    *)
(* and every set of programs.                                              *)
(***************************************************************************)
EXTENDS Cicada, FiniteSetTheorems, WellFoundedInduction, TLAPS

-----------------------------------------------------------------------------
(* The inductive invariant                                                 *)

\* Nobody sets a garbage collection flag, so the leader moves no watermark.
NoGarbage == GCFlag = PerThread(0)

\* What main() has done.
MainInv ==
    /\ main \in {"init", "create"} => \A t \in Threads : pc[t] = "absent"
    /\ main = "init" => initialWts = 0 /\ MinWts = 0
    /\ main # "init" => MinWts = initialWts + 2 /\ initialWts + 256 <= 256 * (tsc - Skew)
    /\ start => main \in {"sleep", "join", "done", "crashed"}
    /\ \A t \in Threads : readyFlags[t] => pc[t] \notin Before

Constructed(t) == pc[t] \notin {"absent", "construct"}

\* A stamp that thread t drew after the table was built with stamp w.
Stamp(w, t, ts) ==
    /\ w + 256 <= ts
    /\ \E clock \in Nat : ts = Body(clock, t)

\* What thread t drew: its last timestamp is made of the latest clock it read.
StampInv(t) ==
    \A i \in DOMAIN issued[t] :
        /\ Stamp(initialWts, t, issued[t][i].wts)
        /\ issued[t][i].wts <= Body(localClock[t], t)
        /\ issued[t][i].clock <= localClock[t]

OrderInv(t) ==
    \A i \in DOMAIN issued[t] :
        /\ \A j \in 1 .. (i - 1) : issued[t][j].wts <= issued[t][i].wts
        /\ i > 1 => (issued[t][i - 1].wts < issued[t][i].wts <=>
                        \A j \in 1 .. (i - 1) : issued[t][j].clock < issued[t][i].clock)

LatestInv(t) ==
    IF issued[t] = <<>> THEN localClock[t] = 0
    ELSE /\ issued[t][Len(issued[t])].wts = Body(localClock[t], t)
         /\ \E i \in DOMAIN issued[t] : issued[t][i].clock = localClock[t]

IssuedInv(t) == StampInv(t) /\ OrderInv(t) /\ LatestInv(t)

NothingIssued(t) == issued[t] = <<>>

ThreadInv(t) ==
    /\ IssuedInv(t)
    /\ ~ Constructed(t) => NothingIssued(t)
    /\ Constructed(t) =>
          /\ main # "init"
          /\ wts[t] >= initialWts + 256
          /\ initialWts < rts[t] /\ rts[t] <= MinWts
    /\ t \in Running => ThreadWtsArray[t] >= initialWts + 256

CicadaInv ==
    /\ TypeOK
    /\ NoGarbage
    /\ MainInv
    /\ \A t \in Threads : ThreadInv(t)

-----------------------------------------------------------------------------
(* Preservation                                                            *)

LEMMA ThreadsOK == Threads \subseteq Nat /\ 0 \in Threads /\ \A t \in Threads : t < 256
BY CicadaAssumption DEF Threads

LEMMA InitInv == Init => CicadaInv
<1> SUFFICES ASSUME Init PROVE CicadaInv
  OBVIOUS
<1>1. TypeOK
  BY ThreadsOK DEF Init, TypeOK, PerThread, Before
<1>2. NoGarbage /\ MainInv
  BY DEF Init, NoGarbage, MainInv, PerThread
<1>3. ASSUME NEW t \in Threads
      PROVE  ThreadInv(t)
  BY <1>3 DEF Init, ThreadInv, IssuedInv, StampInv, OrderInv, LatestInv, PerThread, Constructed,
              Running, NothingIssued
<1> QED
  BY <1>1, <1>2, <1>3 DEF CicadaInv

\* What is behind a clock is behind a later one, and stamps of one clock
\* differ in their thread.
LEMMA LaterClock ==
    \A w, c, d, k \in Nat :
        w + 256 <= 256 * (c - k) /\ c <= d => w + 256 <= 256 * (d - k)
OBVIOUS

LEMMA StampsDiffer ==
    \A c, d \in Nat : \A t, u \in 0 .. 255 : Body(c, t) = Body(d, u) => t = u
BY SMTT(30) DEF Body

\* The leader finds no flag set.
LEMMA NoUpdate ==
    ASSUME NoGarbage
    PROVE  ~ GCUpdate
BY ThreadsOK DEF NoGarbage, GCUpdate, PerThread

LEMMA MaxOfTwo ==
    ASSUME NEW a \in Nat, NEW b \in Nat
    PROVE  Max({a, b}) = IF a <= b THEN b ELSE a
BY DEF Max

\* No thread draws before the table is built.
LEMMA DrawnLater ==
    ASSUME CicadaInv, NEW t \in Threads, pc[t] # "absent"
    PROVE  main # "init"
BY DEF CicadaInv, MainInv

Reading(c, clock, t) == [clock |-> c, wts |-> Body(clock, t)]

\* What a drawing thread gets: a clock at most Skew behind the counter, and a
\* timestamp made of the latest clock it has read.
LEMMA DrawnClock ==
    ASSUME CicadaInv, main # "init", NEW t \in Threads, NEW c, NEW clock,
           Rdtscp(c), Draw(t, c, clock), clock = IF localClock[t] <= c THEN c ELSE localClock[t]
    PROVE  /\ c \in Nat /\ tsc - Skew <= c /\ tsc' \in Nat /\ tsc <= tsc'
           /\ clock \in Nat /\ c <= clock /\ localClock[t] <= clock
           /\ Body(clock, t) \in Nat
           /\ localClock' = [localClock EXCEPT ![t] = clock]
           /\ wts' = [wts EXCEPT ![t] = Body(clock, t)]
           /\ issued' = [issued EXCEPT ![t] = Append(issued[t], Reading(c, clock, t))]
<1>0. /\ tsc \in Nat /\ localClock[t] \in Nat /\ initialWts \in Nat /\ Skew \in Nat
      /\ initialWts + 256 <= 256 * (tsc - Skew)
  BY CicadaAssumption DEF CicadaInv, TypeOK, MainInv
<1>1. c \in Nat /\ tsc - Skew <= c
  <2>1. tsc - Skew >= 0
    BY <1>0
  <2>2. c \in (tsc - Skew) .. (tsc + 1)
    BY DEF Rdtscp
  <2> QED
    BY <1>0, <2>1, <2>2
<1>2. tsc' \in Nat /\ tsc <= tsc'
  BY <1>0, <1>1, MaxOfTwo DEF Rdtscp
<1>3. clock \in Nat /\ c <= clock /\ localClock[t] <= clock
  BY <1>0, <1>1
<1>4. Body(clock, t) \in Nat
  BY <1>3, ThreadsOK DEF Body
<1>5. wts'[t] = Body(clock, t)
  BY DEF Draw, CicadaInv, TypeOK
<1> QED
  BY <1>1, <1>2, <1>3, <1>4, <1>5 DEF Draw, Reading

LEMMA DrawType ==
    ASSUME CicadaInv, main # "init", NEW t \in Threads, NEW c, NEW clock,
           Rdtscp(c), Draw(t, c, clock), clock = IF localClock[t] <= c THEN c ELSE localClock[t]
    PROVE  /\ tsc' \in Nat
           /\ localClock' \in [Threads -> Nat]
           /\ wts' \in [Threads -> Nat]
           /\ issued' \in [Threads -> Seq(Drawn)]
<1>1. /\ c \in Nat /\ clock \in Nat /\ Body(clock, t) \in Nat /\ tsc' \in Nat
      /\ localClock' = [localClock EXCEPT ![t] = clock]
      /\ wts' = [wts EXCEPT ![t] = Body(clock, t)]
      /\ issued' = [issued EXCEPT ![t] = Append(issued[t], Reading(c, clock, t))]
  BY DrawnClock
<1>2. localClock \in [Threads -> Nat] /\ wts \in [Threads -> Nat]
      /\ issued \in [Threads -> Seq(Drawn)]
  BY DEF CicadaInv, TypeOK
<1>3. Reading(c, clock, t) \in Drawn
  BY <1>1 DEF Reading, Drawn
<1>4. Append(issued[t], Reading(c, clock, t)) \in Seq(Drawn)
  BY <1>2, <1>3
<1>5. issued' \in [Threads -> Seq(Drawn)]
  <2>1. PICK s \in Seq(Drawn) : issued' = [issued EXCEPT ![t] = s]
    BY <1>1, <1>4
  <2> QED
    BY <1>2, <2>1
<1>6. localClock' \in [Threads -> Nat] /\ wts' \in [Threads -> Nat]
  BY <1>1, <1>2
<1> QED
  BY <1>1, <1>5, <1>6

\* The constructor draws the clock as it is: the thread has read none yet.
LEMMA FirstClock ==
    ASSUME CicadaInv, NEW t \in Threads, DrawFirst(t)
    PROVE  \E c, clock : /\ Rdtscp(c) /\ Draw(t, c, clock)
                         /\ clock = IF localClock[t] <= c THEN c ELSE localClock[t]
<1>1. main # "init" /\ pc[t] = "construct"
  BY DrawnLater DEF DrawFirst
<1>2. PICK c \in (tsc - Skew) .. (tsc + 1) : Rdtscp(c) /\ Draw(t, c, c)
  BY DEF DrawFirst
<1>3. localClock[t] = 0
  BY <1>1 DEF CicadaInv, ThreadInv, IssuedInv, LatestInv, NothingIssued, Constructed
<1>4. c >= 0
  <2>1. /\ tsc \in Nat /\ initialWts \in Nat /\ Skew \in Nat
        /\ initialWts + 256 <= 256 * (tsc - Skew)
    BY <1>1, CicadaAssumption DEF CicadaInv, TypeOK, MainInv
  <2> QED
    BY <1>2, <2>1
<1>5. c = IF localClock[t] <= c THEN c ELSE localClock[t]
  BY <1>3, <1>4
<1> QED
  BY <1>2, <1>5

LEMMA NextClock ==
    ASSUME CicadaInv, NEW t \in Threads, Begin(t)
    PROVE  \E c, clock : /\ Rdtscp(c) /\ Draw(t, c, clock)
                         /\ clock = IF localClock[t] <= c THEN c ELSE localClock[t]
<1>1. main # "init"
  BY DrawnLater DEF Begin
<1>2. PICK c \in (tsc - Skew) .. (tsc + 1) : Rdtscp(c) /\ Draw(t, c, Elapsed(t, c))
  BY DEF Begin
<1>3. c \in Nat /\ localClock[t] \in Nat
  <2>1. /\ tsc \in Nat /\ initialWts \in Nat /\ Skew \in Nat
        /\ initialWts + 256 <= 256 * (tsc - Skew)
    BY <1>1, CicadaAssumption DEF CicadaInv, TypeOK, MainInv
  <2>2. localClock[t] \in Nat
    BY DEF CicadaInv, TypeOK
  <2> QED
    BY <1>2, <2>1, <2>2
<1>4. Elapsed(t, c) = IF localClock[t] <= c THEN c ELSE localClock[t]
  BY <1>3, MaxOfTwo DEF Elapsed
<1> QED
  BY <1>2, <1>4

LEMMA TypeStep ==
    ASSUME CicadaInv, Next
    PROVE  TypeOK'
<1> USE DEF TypeOK, PerThread, Goto, Before, After, mainVars, flags, shared, clockVars, sets
<1> TypeOK /\ MainInv /\ NoGarbage
  BY DEF CicadaInv
<1>1. CASE Main
  <2>1. CASE BuildTable
    <3>1. Body(tsc, 0) \in Nat /\ Body(tsc, 0) + 2 \in Nat
      BY DEF Body
    <3> QED
      BY <2>1, <3>1, CicadaAssumption DEF BuildTable
  <2>2. CASE CreateThreads
    BY <2>2 DEF CreateThreads, MainInv
  <2>3. CASE StoreStart
    BY <2>3 DEF StoreStart, AllReady, MainInv
  <2>4. CASE StoreQuit
    BY <2>4 DEF StoreQuit
  <2>5. CASE Join
    BY <2>5 DEF Join
  <2> QED
    BY <1>1, <2>1, <2>2, <2>3, <2>4, <2>5 DEF Main
<1>2. ASSUME NEW t \in Threads, Thread(t)
      PROVE  TypeOK'
  <2>1. CASE DrawFirst(t)
    <3>1. MinWts - 1 \in Nat
      BY <2>1 DEF DrawFirst
    <3>2. main # "init"
      BY <2>1, DrawnLater DEF DrawFirst
    <3>3. /\ tsc' \in Nat
          /\ localClock' \in [Threads -> Nat]
          /\ wts' \in [Threads -> Nat]
          /\ issued' \in [Threads -> Seq(Drawn)]
      BY <2>1, <3>2, FirstClock, DrawType
    <3> QED
      BY <2>1, <3>1, <3>3 DEF DrawFirst
  <2>2. CASE PublishWts(t)
    BY <2>2 DEF PublishWts
  <2>3. CASE StoreReady(t)
    BY <2>3 DEF StoreReady, Ready
  <2>4. CASE SeeStart(t)
    BY <2>4 DEF SeeStart
  <2>5. CASE MakeSteps(t)
    BY <2>5 DEF MakeSteps
  <2>6. CASE Quit(t)
    BY <2>6 DEF Quit
  <2>7. CASE LeaderWork(t)
    BY <2>7, NoUpdate DEF LeaderWork
  <2>8. CASE Begin(t)
    <3>1. main # "init"
      BY <2>8, DrawnLater DEF Begin
    <3>2. /\ tsc' \in Nat
          /\ localClock' \in [Threads -> Nat]
          /\ wts' \in [Threads -> Nat]
          /\ issued' \in [Threads -> Seq(Drawn)]
      BY <2>8, <3>1, NextClock, DrawType
    <3> QED
      BY <2>8, <3>2 DEF Begin
  <2>9. CASE TakeSnapshot(t)
    BY <2>9 DEF TakeSnapshot
  <2>10. CASE PublishRts(t)
    BY <2>10 DEF PublishRts
  <2>11. CASE RunStep(t)
    BY <2>11 DEF RunStep
  <2>12. CASE Crash(t)
    <3>1. start
      BY <2>12 DEF Crash
    <3> QED
      BY <2>12, <3>1 DEF Crash
  <2> QED
    BY <1>2, <2>1, <2>2, <2>3, <2>4, <2>5, <2>6, <2>7, <2>8, <2>9, <2>10, <2>11, <2>12
       DEF Thread
<1> QED
  BY <1>1, <1>2 DEF Next

\* A step of a transaction's loop changes its sets and its label only.
LEMMA RunStepFrame ==
    ASSUME NEW t \in Threads, RunStep(t)
    PROVE  /\ pc[t] = "steps" /\ (Goto(t, "loop") \/ UNCHANGED pc)
           /\ UNCHANGED <<mainVars, flags, shared, clockVars, steps, rts>>
BY DEF RunStep

LEMMA MainStep ==
    ASSUME CicadaInv, Next
    PROVE  NoGarbage' /\ MainInv'
<1> USE DEF NoGarbage, MainInv, PerThread, Goto, Before, After,
            mainVars, flags, shared, clockVars, sets
<1> TypeOK /\ MainInv /\ NoGarbage
  BY DEF CicadaInv
<1>1. CASE Main
  <2>1. CASE BuildTable
    <3>1. /\ tsc \in Nat /\ Body(tsc, 0) = 256 * tsc /\ tsc' = tsc + BuildTime
          /\ BuildTime \in Nat /\ Skew \in Nat /\ Skew < BuildTime
      BY <2>1, CicadaAssumption DEF BuildTable, Body, TypeOK
    <3>2. initialWts' + 256 <= 256 * (tsc' - Skew) /\ MinWts' = initialWts' + 2
      BY <2>1, <3>1 DEF BuildTable
    <3> QED
      BY <2>1, <3>2 DEF BuildTable
  <2>2. CASE CreateThreads
    BY <2>2 DEF CreateThreads, TypeOK
  <2>3. CASE StoreStart
    BY <2>3 DEF StoreStart
  <2>4. CASE StoreQuit
    BY <2>4 DEF StoreQuit
  <2>5. CASE Join
    BY <2>5 DEF Join
  <2> QED
    BY <1>1, <2>1, <2>2, <2>3, <2>4, <2>5 DEF Main
<1>2. ASSUME NEW t \in Threads, Thread(t)
      PROVE  NoGarbage' /\ MainInv'
  <2>1. ASSUME tsc' \in Nat, tsc <= tsc', initialWts' = initialWts
        PROVE  initialWts + 256 <= 256 * (tsc - Skew) => initialWts' + 256 <= 256 * (tsc' - Skew)
    <3>1. tsc \in Nat /\ initialWts \in Nat /\ Skew \in Nat
      BY CicadaAssumption DEF TypeOK
    <3>2. initialWts + 256 <= 256 * (tsc - Skew) => initialWts + 256 <= 256 * (tsc' - Skew)
      BY <2>1, <3>1, LaterClock
    <3> QED
      BY <2>1, <3>2
  <2>2. CASE DrawFirst(t)
    <3>1. main # "init"
      BY <2>2, DrawnLater DEF DrawFirst
    <3>2. tsc' \in Nat /\ tsc <= tsc'
      BY <2>2, <3>1, FirstClock, DrawnClock
    <3> QED
      BY <2>1, <2>2, <3>2 DEF DrawFirst, TypeOK
  <2>3. CASE PublishWts(t)
    BY <2>3 DEF PublishWts, TypeOK
  <2>4. CASE StoreReady(t)
    BY <2>4 DEF StoreReady, Ready, TypeOK
  <2>5. CASE SeeStart(t)
    BY <2>5 DEF SeeStart, TypeOK
  <2>6. CASE MakeSteps(t)
    BY <2>6 DEF MakeSteps, TypeOK
  <2>7. CASE Quit(t)
    BY <2>7 DEF Quit, TypeOK
  <2>8. CASE LeaderWork(t)
    BY <2>8, NoUpdate DEF LeaderWork, TypeOK
  <2>9. CASE Begin(t)
    <3>1. main # "init"
      BY <2>9, DrawnLater DEF Begin
    <3>2. tsc' \in Nat /\ tsc <= tsc'
      BY <2>9, <3>1, NextClock, DrawnClock
    <3> QED
      BY <2>1, <2>9, <3>2 DEF Begin, TypeOK
  <2>10. CASE TakeSnapshot(t)
    BY <2>10 DEF TakeSnapshot, TypeOK
  <2>11. CASE PublishRts(t)
    BY <2>11 DEF PublishRts, TypeOK
  <2>12. CASE RunStep(t)
    <3>1. /\ pc[t] = "steps" /\ (pc' = pc \/ pc' = [pc EXCEPT ![t] = "loop"])
          /\ UNCHANGED <<GCFlag, main, initialWts, MinWts, tsc, start, readyFlags>>
      BY <2>12, RunStepFrame
    <3> QED
      BY <3>1 DEF TypeOK
  <2>13. CASE Crash(t)
    <3>1. main # "init"
      BY <2>13, DrawnLater DEF Crash
    <3> QED
      BY <2>13, <3>1 DEF Crash, TypeOK
  <2> QED
    BY <1>2, <2>2, <2>3, <2>4, <2>5, <2>6, <2>7, <2>8, <2>9, <2>10, <2>11, <2>12, <2>13
       DEF Thread
<1> QED
  BY <1>1, <1>2 DEF Next

\* A step that draws no timestamp and keeps initialWts keeps what was issued.
LEMMA IssuedFrame ==
    ASSUME NEW u \in Threads, IssuedInv(u), UNCHANGED <<issued, initialWts, localClock>>
    PROVE  IssuedInv(u)'
BY DEF IssuedInv, StampInv, OrderInv, LatestInv, Stamp, Body

\* A drawn timestamp is one of the thread's stamps, not below any it drew before.
LEMMA DrawIssued ==
    ASSUME CicadaInv, main # "init", initialWts' = initialWts,
           NEW t \in Threads, NEW c, NEW clock, NEW u \in Threads,
           Rdtscp(c), Draw(t, c, clock), clock = IF localClock[t] <= c THEN c ELSE localClock[t]
    PROVE  /\ IssuedInv(u)'
           /\ wts'[t] >= initialWts + 256
           /\ u # t => wts'[u] = wts[u] /\ issued'[u] = issued[u]
<1> /\ TypeOK /\ MainInv /\ ThreadInv(u) /\ ThreadInv(t)
  BY DEF CicadaInv
<1>1. /\ tsc \in Nat /\ c \in Nat /\ initialWts \in Nat /\ Skew \in Nat
      /\ localClock[t] \in Nat /\ localClock[u] \in Nat
      /\ tsc - Skew <= c /\ c <= clock /\ localClock[t] <= clock /\ clock \in Nat
      /\ t \in Nat /\ Body(clock, t) \in Nat
  BY DrawnClock, ThreadsOK, CicadaAssumption DEF TypeOK
<1>2. initialWts + 256 <= Body(clock, t)
  <2>1. initialWts + 256 <= 256 * (tsc - Skew)
    BY DEF MainInv
  <2>2. initialWts + 256 <= 256 * clock
    BY <1>1, <2>1
  <2> QED
    BY <1>1, <2>2 DEF Body
<1>3. /\ Body(localClock[t], t) \in Nat
      /\ Body(localClock[t], t) <= Body(clock, t)
      /\ localClock[t] < c => Body(localClock[t], t) < Body(clock, t)
  BY <1>1 DEF Body
<1>4. wts'[t] = Body(clock, t) /\ (u # t => wts'[u] = wts[u])
  BY DrawnClock DEF TypeOK
<1>5. localClock'[u] = IF u = t THEN clock ELSE localClock[u]
  BY DrawnClock, SMTT(30) DEF TypeOK
<1>6. u # t => issued'[u] = issued[u]
  BY DrawnClock DEF TypeOK
<1>7. IssuedInv(u)'
  <2>1. CASE u # t
    <3>1. issued'[u] = issued[u] /\ localClock'[u] = localClock[u]
      BY <2>1, <1>5, <1>6
    <3> QED
      BY <3>1 DEF IssuedInv, StampInv, OrderInv, LatestInv, ThreadInv, Stamp, Body
  <2>2. CASE u = t
    <3> DEFINE old == issued[t]
               new == issued'[t]
               drawn == Reading(c, clock, t)
    <3>1. new = Append(old, drawn) /\ old \in Seq(Drawn)
      BY DrawnClock, SMTT(30) DEF TypeOK
    <3>2. drawn.clock = c /\ drawn.wts = Body(clock, t) /\ drawn \in Drawn
      BY <1>1 DEF Reading, Drawn
    <3>3. /\ StampInv(t) /\ OrderInv(t) /\ LatestInv(t)
      BY DEF ThreadInv, IssuedInv
    <3>4. localClock'[t] = clock
      BY <1>5, <2>2
    <3> HIDE DEF drawn
    <3>5. /\ DOMAIN new = 1 .. (Len(old) + 1) /\ DOMAIN old = 1 .. Len(old)
          /\ Len(old) \in Nat /\ Len(new) = Len(old) + 1 /\ new # <<>>
          /\ \A i \in 1 .. Len(old) : /\ new[i] = old[i]
                                      /\ old[i].wts \in Nat /\ old[i].clock \in Nat
          /\ new[Len(old) + 1] = drawn
          /\ old = <<>> <=> Len(old) = 0
      <4> HIDE DEF old, new
      <4>1. \A i \in 1 .. Len(old) : old[i] \in Drawn
        BY <3>1
      <4>2. \A i \in 1 .. Len(old) : old[i].wts \in Nat /\ old[i].clock \in Nat
        BY <4>1 DEF Drawn
      <4> QED
        BY <3>1, <3>2, <4>2
    <3>6. ASSUME NEW i \in 1 .. Len(old)
          PROVE  /\ Stamp(initialWts, t, old[i].wts)
                 /\ old[i].wts <= Body(localClock[t], t)
                 /\ old[i].clock <= localClock[t]
      BY <3>3, <3>5, <3>6 DEF StampInv
    <3>7. StampInv(u)'
      <4>1. ASSUME NEW i \in 1 .. (Len(old) + 1)
            PROVE  /\ Stamp(initialWts, t, new[i].wts)
                   /\ new[i].wts <= Body(clock, t)
                   /\ new[i].clock <= clock
        <5>1. CASE i = Len(old) + 1
          BY <5>1, <3>2, <3>5, <1>1, <1>2 DEF Stamp
        <5>2. CASE i # Len(old) + 1
          <6>1. i \in 1 .. Len(old) /\ new[i] = old[i]
                /\ old[i].wts \in Nat /\ old[i].clock \in Nat
            BY <5>2, <3>5
          <6>2. Stamp(initialWts, t, new[i].wts)
            BY <6>1, <3>6
          <6> QED
            BY <6>1, <6>2, <3>6, <1>1, <1>3
        <5> QED
          BY <5>1, <5>2
      <4>2. \A i \in DOMAIN issued'[u] :
               /\ Stamp(initialWts', u, issued'[u][i].wts)
               /\ issued'[u][i].wts <= Body(localClock'[u], u)
               /\ issued'[u][i].clock <= localClock'[u]
        BY <2>2, <3>4, <3>5, <4>1 DEF new
      <4> QED
        BY <4>2 DEF StampInv
    <3>8. ASSUME Len(old) # 0
          PROVE  /\ new[Len(old)].wts < new[Len(old) + 1].wts <=>
                        \A j \in 1 .. Len(old) : new[j].clock < new[Len(old) + 1].clock
                 /\ c <= localClock[t] => clock = localClock[t]
      <4>1. /\ old[Len(old)].wts = Body(localClock[t], t)
            /\ \E i \in 1 .. Len(old) : old[i].clock = localClock[t]
        BY <3>3, <3>5, <3>8 DEF LatestInv
      <4>2. new[Len(old)].wts = Body(localClock[t], t)
        BY <3>5, <3>8, <4>1
      <4>3. CASE localClock[t] < c
        <5>1. ASSUME NEW j \in 1 .. Len(old)
              PROVE  new[j].clock < c
          <6>1. /\ new[j] = old[j] /\ old[j].clock \in Nat
                /\ old[j].clock <= localClock[t]
            BY <3>5, <3>6
          <6> HIDE DEF old, new
          <6> QED
            BY <6>1, <4>3, <1>1
        <5> QED
          BY <5>1, <4>2, <4>3, <3>2, <3>5, <1>1, <1>3
      <4>4. CASE ~ (localClock[t] < c)
        <5>1. clock = localClock[t]
          BY <4>4, <1>1
        <5>2. ~ \A j \in 1 .. Len(old) : new[j].clock < c
          BY <4>1, <4>4, <3>5, <1>1
        <5> QED
          BY <5>1, <5>2, <4>2, <3>2, <3>5, <1>3
      <4> QED
        BY <4>3, <4>4
    <3>9. OrderInv(u)'
      <4>1. ASSUME NEW i \in 1 .. (Len(old) + 1)
            PROVE  /\ \A j \in 1 .. (i - 1) : new[j].wts <= new[i].wts
                   /\ i > 1 => (new[i - 1].wts < new[i].wts <=>
                                   \A j \in 1 .. (i - 1) : new[j].clock < new[i].clock)
        <5>1. CASE i = Len(old) + 1
          <6>1. ASSUME NEW j \in 1 .. (i - 1)
                PROVE  new[j].wts <= new[i].wts
            <7>1. j \in 1 .. Len(old) /\ new[j] = old[j] /\ old[j].wts \in Nat
              BY <5>1, <3>5
            <7>2. old[j].wts <= Body(localClock[t], t)
              BY <7>1, <3>6
            <7>3. new[i].wts = Body(clock, t)
              BY <5>1, <3>2, <3>5
            <7> QED
              BY <7>1, <7>2, <7>3, <1>1, <1>3
          <6>2. i > 1 => Len(old) # 0 /\ i - 1 = Len(old)
            BY <5>1, <3>5
          <6> QED
            BY <5>1, <6>1, <6>2, <3>8
        <5>2. CASE i # Len(old) + 1
          <6>1. i \in 1 .. Len(old) /\ i \in DOMAIN old
            BY <5>2, <3>5
          <6>2. \A j \in 1 .. (i - 1) : j \in 1 .. Len(old)
            BY <6>1, <3>5
          <6>3. i > 1 => i - 1 \in 1 .. Len(old)
            BY <6>1, <3>5
          <6>4. /\ \A j \in 1 .. (i - 1) : old[j].wts <= old[i].wts
                /\ i > 1 => (old[i - 1].wts < old[i].wts <=>
                                \A j \in 1 .. (i - 1) : old[j].clock < old[i].clock)
            BY <6>1, <3>3 DEF OrderInv
          <6>5. new[i] = old[i] /\ \A j \in 1 .. (i - 1) : new[j] = old[j]
            BY <6>1, <6>2, <3>5
          <6>6. i > 1 => new[i - 1] = old[i - 1]
            BY <6>3, <3>5
          <6> HIDE DEF new, old
          <6> QED
            BY <6>4, <6>5, <6>6
        <5> QED
          BY <5>1, <5>2
      <4>2. \A i \in DOMAIN issued'[u] :
               /\ \A j \in 1 .. (i - 1) : issued'[u][j].wts <= issued'[u][i].wts
               /\ i > 1 => (issued'[u][i - 1].wts < issued'[u][i].wts <=>
                               \A j \in 1 .. (i - 1) : issued'[u][j].clock < issued'[u][i].clock)
        BY <2>2, <3>5, <4>1 DEF new
      <4> QED
        BY <4>2 DEF OrderInv
    <3>10. LatestInv(u)'
      <4>1. new[Len(new)].wts = Body(clock, t)
        BY <3>2, <3>5
      <4>2. \E i \in DOMAIN new : new[i].clock = clock
        <5>1. CASE clock = c
          BY <5>1, <3>2, <3>5
        <5>2. CASE clock # c
          <6>1. clock = localClock[t] /\ localClock[t] # 0
            BY <5>2, <1>1
          <6>2. old # <<>>
            BY <6>1, <3>3 DEF LatestInv
          <6>3. PICK i \in DOMAIN old : old[i].clock = localClock[t]
            BY <6>2, <3>3 DEF LatestInv
          <6> QED
            BY <6>1, <6>3, <3>5
        <5> QED
          BY <5>1, <5>2
      <4> QED
        BY <2>2, <3>4, <3>5, <4>1, <4>2 DEF LatestInv, new, Body
    <3> QED
      BY <3>7, <3>9, <3>10 DEF IssuedInv
  <2> QED
    BY <2>1, <2>2
<1> QED
  BY <1>2, <1>4, <1>6, <1>7

LEMMA ThreadStep ==
    ASSUME CicadaInv, Next, NEW u \in Threads
    PROVE  ThreadInv(u)'
<1> USE DEF Goto, mainVars, flags, shared, clockVars, sets
<1> /\ TypeOK /\ MainInv /\ NoGarbage /\ ThreadInv(u)
  BY DEF CicadaInv
<1>1. CASE Main
  <2>1. CASE BuildTable
    <3>1. pc[u] = "absent" /\ pc'[u] = "absent"
      BY <2>1 DEF BuildTable, MainInv
    <3>2. /\ issued'[u] = issued[u] /\ localClock'[u] = localClock[u]
      BY <2>1 DEF BuildTable, TypeOK
    <3>3. issued[u] = <<>> /\ localClock[u] = 0
      BY <2>1, <3>1 DEF BuildTable, ThreadInv, NothingIssued, IssuedInv, LatestInv, Constructed
    <3>4. IssuedInv(u)'
      BY <3>2, <3>3 DEF IssuedInv, StampInv, OrderInv, LatestInv
    <3> QED
      BY <3>1, <3>2, <3>3, <3>4 DEF ThreadInv, Constructed, Running, NothingIssued
  <2>2. CASE CreateThreads
    <3>1. IssuedInv(u)'
      BY <2>2, IssuedFrame DEF CreateThreads, ThreadInv
    <3> QED
      BY <2>2, <3>1 DEF CreateThreads, ThreadInv, Constructed, Running, NothingIssued,
                        PerThread, MainInv
  <2>3. CASE StoreStart
    BY <2>3, IssuedFrame DEF StoreStart, ThreadInv, Constructed, Running, NothingIssued
  <2>4. CASE StoreQuit
    BY <2>4, IssuedFrame DEF StoreQuit, ThreadInv, Constructed, Running, NothingIssued
  <2>5. CASE Join
    BY <2>5, IssuedFrame DEF Join, ThreadInv, Constructed, Running, NothingIssued
  <2> QED
    BY <1>1, <2>1, <2>2, <2>3, <2>4, <2>5 DEF Main
<1>2. ASSUME NEW t \in Threads, Thread(t)
      PROVE  ThreadInv(u)'
  <2>1. main # "init" \/ pc[t] = "absent"
    BY DEF MainInv
  <2> USE DEF ThreadInv, Constructed, Running, NothingIssued
  <2>2. CASE DrawFirst(t)
    <3>1. main # "init" /\ pc' = [pc EXCEPT ![t] = "publishFirst"]
          /\ rts' = [rts EXCEPT ![t] = MinWts - 1]
          /\ UNCHANGED <<main, initialWts, MinWts, ThreadWtsArray>>
      BY <2>1, <2>2 DEF DrawFirst
    <3>3. /\ IssuedInv(u)' /\ wts'[t] >= initialWts + 256
          /\ u # t => wts'[u] = wts[u] /\ issued'[u] = issued[u]
      BY <2>2, <3>1, FirstClock, DrawIssued
    <3>4. initialWts < MinWts - 1 /\ MinWts - 1 <= MinWts
      BY <3>1 DEF MainInv, TypeOK
    <3>5. CASE u = t
      <4>1. pc'[u] = "publishFirst" /\ rts'[u] = MinWts - 1
        BY <3>1, <3>5 DEF TypeOK
      <4> QED
        BY <3>1, <3>3, <3>4, <3>5, <4>1
    <3>6. CASE u # t
      <4>1. pc'[u] = pc[u] /\ rts'[u] = rts[u] /\ wts'[u] = wts[u] /\ issued'[u] = issued[u]
        BY <3>1, <3>3, <3>6 DEF TypeOK
      <4> QED
        BY <3>1, <3>3, <4>1
    <3> QED
      BY <3>5, <3>6
  <2>3. CASE PublishWts(t)
    <3>1. IssuedInv(u)'
      BY <2>3, IssuedFrame DEF PublishWts
    <3> QED
      BY <2>3, <3>1, SMTT(30) DEF PublishWts, TypeOK, CicadaInv
  <2>4. CASE StoreReady(t)
    BY <2>4, IssuedFrame DEF StoreReady, TypeOK
  <2>5. CASE SeeStart(t)
    BY <2>5, IssuedFrame DEF SeeStart, TypeOK
  <2>6. CASE MakeSteps(t)
    BY <2>6, IssuedFrame DEF MakeSteps, TypeOK
  <2>7. CASE Quit(t)
    BY <2>7, IssuedFrame DEF Quit, TypeOK
  <2>8. CASE LeaderWork(t)
    BY <2>8, IssuedFrame, NoUpdate DEF LeaderWork, TypeOK
  <2>9. CASE Begin(t)
    <3>1. main # "init" /\ pc[t] = "retried" /\ pc' = [pc EXCEPT ![t] = "publish"]
          /\ UNCHANGED <<main, initialWts, MinWts, ThreadWtsArray, rts>>
      BY <2>1, <2>9 DEF Begin
    <3>3. /\ IssuedInv(u)' /\ wts'[t] >= initialWts + 256
          /\ u # t => wts'[u] = wts[u] /\ issued'[u] = issued[u]
      BY <2>9, <3>1, NextClock, DrawIssued
    <3>4. CASE u = t
      <4>1. pc'[u] = "publish"
        BY <3>1, <3>4 DEF TypeOK
      <4> QED
        BY <3>1, <3>3, <3>4, <4>1
    <3>5. CASE u # t
      <4>1. pc'[u] = pc[u] /\ wts'[u] = wts[u] /\ issued'[u] = issued[u]
        BY <3>1, <3>3, <3>5 DEF TypeOK
      <4> QED
        BY <3>1, <3>3, <4>1
    <3> QED
      BY <3>4, <3>5
  <2>10. CASE TakeSnapshot(t)
    <3>1. initialWts < MinWts /\ MinWts <= MinWts
      BY <2>10, <2>1 DEF TakeSnapshot, MainInv, TypeOK
    <3> QED
      BY <2>10, <3>1, IssuedFrame DEF TakeSnapshot, TypeOK
  <2>11. CASE PublishRts(t)
    BY <2>11, IssuedFrame DEF PublishRts, TypeOK
  <2>12. CASE RunStep(t)
    <3>1. /\ pc[t] = "steps" /\ (pc' = pc \/ pc' = [pc EXCEPT ![t] = "loop"])
          /\ UNCHANGED <<shared, main, initialWts, rts, tsc, localClock, wts, issued>>
      BY <2>12, RunStepFrame
    <3>2. IssuedInv(u)'
      BY <3>1, IssuedFrame
    <3>3. pc'[u] = pc[u] \/ (pc[u] = "steps" /\ pc'[u] = "loop")
      BY <3>1 DEF TypeOK
    <3> QED
      BY <3>1, <3>2, <3>3
  <2>13. CASE Crash(t)
    <3>1. /\ pc[t] = "steps" /\ pc'[u] = "done" /\ start
          /\ UNCHANGED <<shared, initialWts, rts, localClock, wts, issued>>
          /\ main' # "init"
      BY <2>13 DEF Crash, PerThread, TypeOK, Before
    <3>2. IssuedInv(u)'
      BY <3>1, IssuedFrame
    <3>3. pc[u] \in After \cup {"waitStart"}
      BY <3>1 DEF TypeOK
    <3> QED
      BY <3>1, <3>2, <3>3 DEF After
  <2> QED
    BY <1>2, <2>2, <2>3, <2>4, <2>5, <2>6, <2>7, <2>8, <2>9, <2>10, <2>11, <2>12, <2>13
       DEF Thread
<1> QED
  BY <1>1, <1>2 DEF Next

-----------------------------------------------------------------------------
(* The theorems                                                            *)

\* What the theorems below are read off: barrier, clocks, snapshots and initial
\* versions, of every step main() and the workers take.
THEOREM CicadaInductive == Spec => []CicadaInv
<1>1. Init => CicadaInv
  BY InitInv
<1>2. CicadaInv /\ [Next]_vars => CicadaInv'
  <2> SUFFICES ASSUME CicadaInv, [Next]_vars PROVE CicadaInv'
    OBVIOUS
  <2>1. CASE Next
    BY <2>1, TypeStep, MainStep, ThreadStep DEF CicadaInv
  <2>2. CASE UNCHANGED vars
    <3> USE <2>2 DEF vars, mainVars, flags, shared, clockVars, sets
    <3>1. TypeOK'
      BY DEF CicadaInv, TypeOK
    <3>2. NoGarbage' /\ MainInv'
      BY DEF CicadaInv, NoGarbage, MainInv
    <3>3. ASSUME NEW t \in Threads
          PROVE  ThreadInv(t)'
      BY <3>3, IssuedFrame DEF CicadaInv, ThreadInv, Constructed, Running, NothingIssued
    <3> QED
      BY <3>1, <3>2, <3>3 DEF CicadaInv
  <2> QED
    BY <2>1, <2>2
<1> QED
  BY <1>1, <1>2, PTL DEF Spec

\* Variables keep their types, and no thread is on the wrong side of the
\* barrier of worker() and main().
THEOREM CicadaTyping == Spec => []TypeOK
<1>1. CicadaInv => TypeOK
  BY DEF CicadaInv
<1> QED
  BY <1>1, CicadaInductive, PTL

\* TimeStamp: two threads never draw the same timestamp, all are above the stamp
\* of the versions init() made, and a thread's never descend: one is drawn twice
\* exactly when the counter it read is not later than all it read before.
THEOREM DrawnInOrder == Spec => []TimestampsOrdered
<1>1. ASSUME CicadaInv, NEW t \in Threads, NEW i \in DOMAIN issued[t]
      PROVE  /\ issued[t][i].wts > initialWts
             /\ \A u \in Threads \ {t} :
                   \A j \in DOMAIN issued[u] : issued[u][j].wts # issued[t][i].wts
  <2>1. \A u \in Threads : StampInv(u)
    BY <1>1 DEF CicadaInv, ThreadInv, IssuedInv
  <2>2. initialWts + 256 <= issued[t][i].wts
    BY <1>1, <2>1 DEF StampInv, Stamp
  <2>3. initialWts \in Nat /\ issued[t][i].wts \in Nat
    <3>1. issued[t] \in Seq(Drawn)
      BY <1>1 DEF CicadaInv, TypeOK
    <3>2. issued[t][i] \in Drawn
      BY <1>1, <3>1
    <3> QED
      BY <1>1, <3>2 DEF CicadaInv, TypeOK, Drawn
  <2>4. issued[t][i].wts > initialWts
    BY <2>2, <2>3
  <2>5. ASSUME NEW u \in Threads \ {t}, NEW j \in DOMAIN issued[u],
               issued[u][j].wts = issued[t][i].wts
        PROVE  FALSE
    <3>1. PICK c \in Nat : issued[t][i].wts = Body(c, t)
      BY <1>1, <2>1 DEF StampInv, Stamp
    <3>2. PICK d \in Nat : issued[u][j].wts = Body(d, u)
      BY <2>1, <2>5 DEF StampInv, Stamp
    <3>3. t \in 0 .. 255 /\ u \in 0 .. 255
      BY <1>1, <2>5, ThreadsOK
    <3>4. t = u
      BY <2>5, <3>1, <3>2, <3>3, StampsDiffer, ZenonT(60)
    <3> QED
      BY <2>5, <3>4
  <2> QED
    BY <2>4, <2>5
<1>2. CicadaInv => \A t \in Threads : OrderInv(t)
  BY DEF CicadaInv, ThreadInv, IssuedInv
<1>3. CicadaInv => TimestampsOrdered
  BY <1>1, <1>2 DEF TimestampsOrdered, OrderInv
<1> QED
  BY <1>3, CicadaInductive, PTL

\* begin(): a read-only transaction reads above the versions init() made and
\* below the timestamp of every transaction that may still write.
THEOREM SnapshotsStayBelow == Spec => []SnapshotsBelow
<1>1. ASSUME CicadaInv, NEW t \in Threads, pc[t] = "steps"
      PROVE  initialWts < thread_ts(t)
  <2>1. initialWts < rts[t] /\ initialWts + 256 <= wts[t]
    BY <1>1 DEF CicadaInv, ThreadInv, Constructed
  <2>2. initialWts \in Nat /\ wts[t] \in Nat
    BY <1>1 DEF CicadaInv, TypeOK
  <2>3. initialWts < wts[t]
    BY <2>1, <2>2
  <2>4. thread_ts(t) = rts[t] \/ thread_ts(t) = wts[t]
    BY DEF thread_ts
  <2> QED
    BY <2>1, <2>3, <2>4
<1>2. ASSUME CicadaInv, NEW t \in Running, NEW u \in Running
      PROVE  rts[t] < ThreadWtsArray[u] /\ rts[t] < wts[u]
  <2>1. t \in Threads /\ u \in Threads /\ Constructed(t) /\ Constructed(u)
    BY <1>2 DEF Running, Constructed
  <2>2. /\ rts[t] <= MinWts /\ main # "init"
        /\ wts[u] >= initialWts + 256 /\ ThreadWtsArray[u] >= initialWts + 256
    BY <1>2, <2>1 DEF CicadaInv, ThreadInv
  <2>3. MinWts = initialWts + 2
    BY <1>2, <2>2 DEF CicadaInv, MainInv
  <2>4. /\ initialWts \in Nat /\ rts[t] \in Nat
        /\ wts[u] \in Nat /\ ThreadWtsArray[u] \in Nat
    BY <1>2, <2>1 DEF CicadaInv, TypeOK
  <2> QED
    BY <2>2, <2>3, <2>4
<1>3. CicadaInv => SnapshotsBelow
  BY <1>1, <1>2 DEF SnapshotsBelow
<1> QED
  BY <1>3, CicadaInductive, PTL

-----------------------------------------------------------------------------
(* init() builds every tuple once                                          *)

LEMMA LeastElement ==
    ASSUME NEW S, S \subseteq Nat, S # {}
    PROVE  \E x \in S : \A y \in S : x <= y
<1>1. IsWellFoundedOn(OpToRel(<, Nat), Nat)
  BY NatLessThanWellFounded
<1>2. PICK x \in S : \A y \in S : ~ (<<y, x>> \in OpToRel(<, Nat))
  BY <1>1, WFMin
<1>3. \A y \in S : <<y, x>> \in Nat \X Nat
  OBVIOUS
<1>4. \A y \in S : ~ (y < x)
  BY <1>2, <1>3 DEF OpToRel
<1> QED
  BY <1>4

\* decideParallelTableBuildNumber finds a divisor, at the latest 1, unless it
\* has no number of cores to begin with.
LEMMA BuildThreadsDivide ==
    /\ cores \in Nat \ {0} => BuildThreads \in Nat \ {0} /\ TUPLE_NUM % BuildThreads = 0
    /\ cores = 0 => BuildThreads = IF TUPLE_NUM >= SmallTable THEN 0 ELSE 1
<1> DEFINE Divisors == {i \in 1 .. cores : TUPLE_NUM % i = 0}
           Rest == {cores - i : i \in Divisors}
<1>1. TUPLE_NUM \in Nat \ {0} /\ TUPLE_NUM % 1 = 0 /\ SmallTable \in Nat
  BY CicadaAssumption
<1>2. CASE TUPLE_NUM < SmallTable
  BY <1>1, <1>2 DEF BuildThreads
<1>3. CASE ~ (TUPLE_NUM < SmallTable)
  <2>1. BuildThreads = Max({0} \cup Divisors)
    BY <1>3 DEF BuildThreads
  <2>2. CASE cores = 0
    <3>1. {0} \cup Divisors = {0}
      BY <2>2
    <3>2. Max({0}) = 0
      BY DEF Max
    <3> QED
      BY <1>1, <1>3, <2>1, <2>2, <3>1, <3>2
  <2>3. CASE cores \in Nat \ {0}
    <3>1. Rest \subseteq Nat /\ Rest # {}
      <4>1. 1 \in Divisors
        BY <1>1, <2>3
      <4> QED
        BY <2>3, <4>1
    <3>2. PICK r \in Rest : \A q \in Rest : r <= q
      <4> HIDE DEF Rest
      <4> QED
        BY <3>1, LeastElement
    <3>3. PICK i \in Divisors : r = cores - i
      BY <3>2
    <3>4. \A j \in {0} \cup Divisors : i >= j
      <4>1. ASSUME NEW j \in Divisors
            PROVE  i >= j
        <5>1. cores - i <= cores - j
          BY <3>2, <3>3
        <5> QED
          BY <2>3, <5>1
      <4> QED
        BY <4>1
    <3>5. BuildThreads = i
      <4>1. ASSUME NEW j \in {0} \cup Divisors, \A k \in {0} \cup Divisors : j >= k
            PROVE  j = i
        BY <3>4, <4>1, <2>3
      <4> HIDE DEF Divisors
      <4> QED
        BY <2>1, <3>4, <4>1 DEF Max
    <3> QED
      BY <2>3, <3>3, <3>5
  <2> QED
    BY <2>2, <2>3
<1> QED
  BY <1>2, <1>3

\* The parts of as many threads as divide the table meet in no tuple and miss
\* none.
LEMMA PartsDisjoint ==
    ASSUME NEW m \in Nat \ {0}, NEW i \in Nat, NEW j \in Nat, NEW k \in Nat,
           k \in (i * m) .. ((i + 1) * m - 1), k \in (j * m) .. ((j + 1) * m - 1)
    PROVE  i = j
<1>1. ASSUME NEW a \in Nat, NEW b \in Nat, a < b
      PROVE  (a + 1) * m <= b * m
  BY <1>1, SMTT(30)
<1>2. i * m \in Nat /\ j * m \in Nat /\ (i + 1) * m \in Nat /\ (j + 1) * m \in Nat
  OBVIOUS
<1>3. ~ (i < j)
  BY <1>1, <1>2
<1>4. ~ (j < i)
  BY <1>1, <1>2
<1> QED
  BY <1>3, <1>4

LEMMA PartsCover ==
    ASSUME NEW n \in Nat \ {0}, NEW b \in Nat \ {0}, n % b = 0,
           NEW k \in 0 .. (n - 1)
    PROVE  /\ n \div b \in Nat \ {0}
           /\ \E i \in 0 .. (b - 1) : k \in (i * (n \div b)) .. ((i + 1) * (n \div b) - 1)
<1>1. PICK m \in Nat : m = n \div b /\ b * m = n
  BY SMTT(30)
<1>2. m # 0
  BY <1>1
<1>3. PICK i \in Nat : i = k \div m /\ i * m <= k /\ k < (i + 1) * m
  BY <1>2, SMTT(30)
<1>4. i < b
  <2>1. i * m < b * m
    BY <1>1, <1>3
  <2> QED
    BY <1>2, <2>1, SMTT(30)
<1>5. (i + 1) * m \in Nat /\ i * m \in Nat
  OBVIOUS
<1>6. k \in (i * m) .. ((i + 1) * m - 1)
  BY <1>3, <1>5
<1>7. i \in 0 .. (b - 1)
  BY <1>4
<1> QED
  BY <1>1, <1>2, <1>6, <1>7

\* Who initialized what, once init() has returned.
BuildersInv ==
    main # "init" =>
        builders = [k \in Tuples |-> {i \in 0 .. (BuildThreads - 1) : k \in Part(i)}]

\* init(): however many threads the machine lets it start, each tuple is
\* initialized by exactly one of them; where it lets it start none, no tuple is.
THEOREM EveryTupleBuilt == Spec => []TableBuilt
<1>1. Init => BuildersInv
  BY DEF Init, BuildersInv
<1>2. CicadaInv /\ BuildersInv /\ [Next]_vars => BuildersInv'
  <2> SUFFICES ASSUME CicadaInv, BuildersInv, [Next]_vars PROVE BuildersInv'
    OBVIOUS
  <2>1. CASE BuildTable
    BY <2>1 DEF BuildTable, BuildersInv, BuildThreads, Part
  <2>2. ASSUME main' = main \/ main # "init", UNCHANGED <<builders, cores>>
        PROVE  BuildersInv'
    <3>1. BuildThreads' = BuildThreads
      <4> DEFINE On(n) == IF TUPLE_NUM < SmallTable THEN 1
                          ELSE Max({0} \cup {i \in 1 .. n : TUPLE_NUM % i = 0})
      <4>1. BuildThreads = On(cores)
        BY DEF BuildThreads
      <4>2. BuildThreads' = On(cores')
        BY DEF BuildThreads
      <4>3. cores' = cores
        BY <2>2
      <4> HIDE DEF On
      <4> QED
        BY <4>1, <4>2, <4>3
    <3>2. \A i : Part(i)' = Part(i)
      BY <3>1 DEF Part
    <3> QED
      BY <2>2, <3>1, <3>2 DEF BuildersInv
  <2>3. CASE CreateThreads \/ StoreStart \/ StoreQuit \/ Join
    BY <2>2, <2>3 DEF CreateThreads, StoreStart, StoreQuit, Join
  <2>4. ASSUME CicadaInv, NEW t \in Threads, Thread(t)
        PROVE  /\ main' = main \/ main # "init"
               /\ UNCHANGED <<builders, cores>>
    <3> USE DEF mainVars
    <3>1. CASE DrawFirst(t) \/ Begin(t)
      BY <3>1 DEF DrawFirst, Begin
    <3>2. CASE PublishWts(t) \/ StoreReady(t) \/ SeeStart(t) \/ MakeSteps(t) \/ Quit(t)
      BY <3>2 DEF PublishWts, StoreReady, SeeStart, MakeSteps, Quit
    <3>3. CASE LeaderWork(t) \/ TakeSnapshot(t) \/ PublishRts(t)
      BY <3>3 DEF LeaderWork, TakeSnapshot, PublishRts
    <3>4. CASE RunStep(t)
      BY <3>4, RunStepFrame
    <3>5. CASE Crash(t)
      BY <2>4, <3>5, DrawnLater DEF Crash
    <3> QED
      BY <2>4, <3>1, <3>2, <3>3, <3>4, <3>5 DEF Thread
  <2>5. CASE UNCHANGED vars
    BY <2>2, <2>5 DEF vars, mainVars
  <2> QED
    BY <2>1, <2>2, <2>3, <2>4, <2>5 DEF Next, Main, mainVars
<1>3. CicadaInv /\ BuildersInv => TableBuilt
  <2> SUFFICES ASSUME CicadaInv, BuildersInv, main # "init", NEW k \in Tuples
               PROVE  Cardinality(builders[k]) =
                          IF cores = 0 /\ TUPLE_NUM >= SmallTable THEN 0 ELSE 1
    BY DEF TableBuilt
  <2>1. builders[k] = {i \in 0 .. (BuildThreads - 1) : k \in Part(i)}
    BY DEF BuildersInv
  <2>2. cores \in Nat /\ TUPLE_NUM \in Nat \ {0}
    BY CicadaAssumption DEF CicadaInv, TypeOK
  <2>3. CASE cores = 0 /\ TUPLE_NUM >= SmallTable
    <3>1. BuildThreads = 0
      BY <2>3, BuildThreadsDivide
    <3>2. builders[k] = {}
      BY <2>1, <3>1
    <3> QED
      BY <2>3, <3>2, FS_EmptySet
  <2>4. CASE ~ (cores = 0 /\ TUPLE_NUM >= SmallTable)
    <3> DEFINE b == BuildThreads
               m == TUPLE_NUM \div b
    <3>1. b \in Nat \ {0} /\ TUPLE_NUM % b = 0 /\ k \in 0 .. (TUPLE_NUM - 1)
      BY <2>2, <2>4, CicadaAssumption, BuildThreadsDivide DEF Tuples
    <3>2. \A i : Part(i) = (i * m) .. ((i + 1) * m - 1)
      BY DEF Part
    <3> HIDE DEF b, m
    <3>3. m \in Nat \ {0} /\ \E i \in 0 .. (b - 1) : k \in Part(i)
      BY <2>2, <3>1, <3>2, PartsCover DEF m
    <3>4. PICK i \in 0 .. (b - 1) : k \in Part(i)
      BY <3>3
    <3>5. ASSUME NEW j \in 0 .. (b - 1), k \in Part(j)
          PROVE  j = i
      <4>1. i \in Nat /\ j \in Nat /\ k \in Nat
        BY <3>1
      <4>2. k \in (i * m) .. ((i + 1) * m - 1) /\ k \in (j * m) .. ((j + 1) * m - 1)
        BY <3>2, <3>4, <3>5
      <4> QED
        BY <3>3, <4>1, <4>2, PartsDisjoint
    <3>6. builders[k] = {i}
      BY <2>1, <3>4, <3>5 DEF b
    <3> QED
      BY <2>4, <3>6, FS_Singleton
  <2> QED
    BY <2>3, <2>4
<1> QED
  BY <1>1, <1>2, <1>3, CicadaInductive, PTL DEF Spec

-----------------------------------------------------------------------------
(* The read set and the write set                                          *)

\* Where a thread has steps to run.
InTransaction == {"retry", "retried", "publish", "snapshot", "publishRts", "steps"}

Elements == [key : Tuples, wts : Nat, rmw : BOOLEAN]

StepsInv(t) ==
    /\ pc[t] \in InTransaction \/ taken[t] # 0 =>
          steps[t] \in Programs /\ taken[t] < Len(steps[t])
    /\ pc[t] \notin {"steps", "done"} => taken[t] = 0

\* What a transaction that also writes has read is in one of the two sets.
SetInv(t) == ~ readOnly(steps[t]) => \A key \in ReadSoFar(t) : Known(t, key)

SetsInv ==
    /\ steps \in [Threads -> Programs \cup {<<>>}]
    /\ taken \in [Threads -> Nat]
    /\ readSet \in [Threads -> SUBSET Tuples]
    /\ writeSet \in [Threads -> SUBSET Elements]
    /\ \A t \in Threads : StepsInv(t) /\ SetInv(t)

LEMMA SetsInit == Init => SetsInv
<1> SUFFICES ASSUME Init PROVE SetsInv
  OBVIOUS
<1>1. \A t \in Threads : pc[t] = "absent" /\ taken[t] = 0
  BY DEF Init, PerThread
<1>2. \A t \in Threads : StepsInv(t) /\ SetInv(t)
  BY <1>1 DEF StepsInv, SetInv, ReadSoFar, InTransaction
<1> QED
  BY <1>2 DEF Init, SetsInv, PerThread

\* A thread at its steps takes one of its program's.
LEMMA StepTaken ==
    ASSUME SetsInv, NEW t \in Threads, pc[t] = "steps"
    PROVE  /\ steps[t] \in Seq(Steps) /\ Len(steps[t]) \in Nat /\ taken[t] \in Nat
           /\ taken[t] + 1 \in 1 .. Len(steps[t])
           /\ steps[t][taken[t] + 1] \in Steps
<1>1. steps[t] \in Programs /\ taken[t] < Len(steps[t]) /\ taken[t] \in Nat
  BY DEF SetsInv, StepsInv, InTransaction
<1>2. steps[t] \in Seq(Steps) /\ Len(steps[t]) \in Nat
  BY <1>1, ProgramsAssumption
<1>3. taken[t] + 1 \in 1 .. Len(steps[t])
  BY <1>1, <1>2
<1> QED
  BY <1>1, <1>2, <1>3

\* The two sets only grow, and those of the other threads stay what they are.
LEMMA ReadSets ==
    ASSUME TypeOK, SetsInv, NEW t \in Threads, NEW key \in Tuples, Read(t, key)
    PROVE  /\ readSet' \in [Threads -> SUBSET Tuples]
           /\ writeSet' \in [Threads -> SUBSET Elements]
           /\ \A u \in Threads : \A k \in Tuples : Known(u, k) => Known(u, k)'
           /\ ~ readOnly(steps[t]) => Known(t, key)'
<1>1. /\ readSet \in [Threads -> SUBSET Tuples] /\ writeSet' = writeSet
      /\ writeSet \in [Threads -> SUBSET Elements]
  BY DEF Read, SetsInv
<1>2. CASE readSet' = readSet /\ (Known(t, key) \/ readOnly(steps[t]))
  BY <1>1, <1>2 DEF Known, Keys
<1>3. CASE readSet' = [readSet EXCEPT ![t] = @ \cup {key}]
  <2>1. \A u \in Threads : readSet'[u] = IF u = t THEN readSet[t] \cup {key} ELSE readSet[u]
    BY <1>1, <1>3
  <2> QED
    BY <1>1, <1>3, <2>1 DEF Known, Keys
<1> QED
  BY <1>2, <1>3 DEF Read

\* What write() adds: nothing, or a first version of the tuple, with the mark.
LEMMA WriteSets ==
    ASSUME TypeOK, SetsInv, NEW t \in Threads, NEW key \in Tuples, Write(t, key)
    PROVE  /\ readSet' \in [Threads -> SUBSET Tuples]
           /\ writeSet' \in [Threads -> SUBSET Elements]
           /\ \A u \in Threads : \A k \in Tuples : Known(u, k) => Known(u, k)'
           /\ \A u \in Threads : \A e \in Added(u) :
                 /\ u = t /\ e.key = key /\ key \notin Keys(writeSet[t])
                 /\ e.rmw = (key \in readSet[t])
<1> DEFINE element == [key |-> key, wts |-> wts[t], rmw |-> key \in readSet[t]]
<1>1. /\ readSet \in [Threads -> SUBSET Tuples] /\ readSet' = readSet
      /\ writeSet \in [Threads -> SUBSET Elements]
  BY DEF Write, SetsInv
<1>2. CASE writeSet' = writeSet
  BY <1>1, <1>2 DEF Known, Keys, Added
<1>3. CASE /\ key \notin Keys(writeSet[t])
           /\ writeSet' = [writeSet EXCEPT ![t] = @ \cup {element}]
  <2>1. /\ element \in Elements /\ element.key = key
        /\ element.rmw = (key \in readSet[t])
    <3>1. wts[t] \in Nat /\ (key \in readSet[t]) \in BOOLEAN
      BY DEF TypeOK
    <3>2. element \in Elements
      BY <3>1 DEF Elements
    <3>3. element.rmw = (key \in readSet[t])
      BY Zenon
    <3> QED
      BY <3>2, <3>3
  <2> HIDE DEF element
  <2>2. \A u \in Threads :
            writeSet'[u] = IF u = t THEN writeSet[t] \cup {element} ELSE writeSet[u]
    BY <1>1, <1>3
  <2>3. writeSet' \in [Threads -> SUBSET Elements]
    BY <1>1, <1>3, <2>1
  <2>4. \A u \in Threads : Added(u) \subseteq {element} /\ (Added(u) # {} => u = t)
    BY <2>2 DEF Added
  <2>5. \A u \in Threads : \A k \in Tuples : Known(u, k) => Known(u, k)'
    BY <1>1, <2>2 DEF Known, Keys
  <2>6. ASSUME NEW u \in Threads, NEW e \in Added(u)
        PROVE  /\ u = t /\ e.key = key /\ key \notin Keys(writeSet[t])
               /\ e.rmw = (key \in readSet[t])
    <3>1. u = t /\ e = element
      BY <2>4, <2>6
    <3> QED
      BY <3>1, <2>1, <1>3, Zenon
  <2> QED
    BY <1>1, <2>3, <2>5, <2>6
<1> QED
  BY <1>2, <1>3 DEF Write

\* The step a thread takes is a read, or a write of a program that writes.
LEMMA StepOf ==
    ASSUME TypeOK, SetsInv, NEW t \in Threads, RunStep(t)
    PROVE  LET step == steps[t][taken[t] + 1] IN
           /\ step.key \in Tuples
           /\ \/ step.op = "read" /\ Read(t, step.key)
              \/ step.op = "write" /\ Write(t, step.key) /\ ~ readOnly(steps[t])
<1> DEFINE step == steps[t][taken[t] + 1]
<1>1. /\ step \in Steps /\ taken[t] + 1 \in DOMAIN steps[t]
  BY StepTaken DEF RunStep
<1>2. step.op = "write" => ~ readOnly(steps[t])
  BY <1>1 DEF readOnly
<1>3. \/ step.op = "read" /\ Read(t, step.key)
      \/ step.op = "write" /\ Write(t, step.key)
  BY DEF RunStep
<1>4. step.key \in Tuples
  BY <1>1 DEF Steps
<1> QED
  BY <1>2, <1>3, <1>4

\* What has been read after a step is what was read before, or the step's.
LEMMA ReadAfter ==
    ASSUME TypeOK, SetsInv, NEW t \in Threads, RunStep(t), NEW u \in Threads
    PROVE  LET step == steps[t][taken[t] + 1] IN
           /\ ReadSoFar(u) \subseteq Tuples
           /\ \A key \in ReadSoFar(u)' :
                 \/ key \in ReadSoFar(u)
                 \/ u = t /\ step.op = "read" /\ key = step.key
<1> DEFINE step == steps[t][taken[t] + 1]
<1>1. /\ taken \in [Threads -> Nat] /\ steps' = steps
      /\ \/ taken' = [taken EXCEPT ![t] = 0]
         \/ taken' = [taken EXCEPT ![t] = @ + 1]
  BY DEF RunStep, SetsInv
<1>2. ASSUME NEW key \in ReadSoFar(u)'
      PROVE  \/ key \in ReadSoFar(u)
             \/ u = t /\ step.op = "read" /\ key = step.key
  <2>1. PICK i \in 1 .. taken'[u] : steps[u][i].op = "read" /\ key = steps[u][i].key
    BY <1>1, <1>2 DEF ReadSoFar
  <2>2. \/ i \in 1 .. taken[u]
        \/ u = t /\ i = taken[t] + 1
    BY <1>1, <2>1
  <2> QED
    BY <2>1, <2>2 DEF ReadSoFar
<1>3. ReadSoFar(u) \subseteq Tuples
  <2>2. CASE taken[u] = 0
    BY <2>2 DEF ReadSoFar
  <2>3. CASE taken[u] # 0
    <3>2. taken[u] \in Nat /\ taken[u] < Len(steps[u]) /\ steps[u] \in Programs
      BY <2>3 DEF SetsInv, StepsInv
    <3>3. steps[u] \in Seq(Steps)
      BY <3>2, ProgramsAssumption
    <3>4. \A i \in 1 .. taken[u] : steps[u][i] \in Steps
      BY <3>2, <3>3
    <3> QED
      BY <3>4 DEF ReadSoFar, Steps
  <2> QED
    BY <2>2, <2>3
<1> QED
  BY <1>2, <1>3

LEMMA RunStepSets ==
    ASSUME TypeOK, SetsInv, NEW t \in Threads, RunStep(t)
    PROVE  SetsInv'
<1> DEFINE step == steps[t][taken[t] + 1]
<1>1. /\ taken[t] \in Nat /\ Len(steps[t]) \in Nat /\ taken[t] + 1 <= Len(steps[t])
  BY StepTaken DEF RunStep
<1>2. /\ step.key \in Tuples
      /\ \/ step.op = "read" /\ Read(t, step.key)
         \/ step.op = "write" /\ Write(t, step.key) /\ ~ readOnly(steps[t])
  BY StepOf
<1>3. /\ readSet' \in [Threads -> SUBSET Tuples]
      /\ writeSet' \in [Threads -> SUBSET Elements]
      /\ \A u \in Threads : \A k \in Tuples : Known(u, k) => Known(u, k)'
      /\ \A k \in Tuples :
            k = step.key /\ step.op = "read" /\ ~ readOnly(steps[t]) => Known(t, k)'
  <2> HIDE DEF step
  <2>0. PICK k \in Tuples : k = step.key
    BY <1>2
  <2>1. CASE step.op = "read" /\ Read(t, k)
    BY <2>0, <2>1, ReadSets
  <2>2. CASE step.op = "write" /\ Write(t, k)
    BY <2>0, <2>2, WriteSets
  <2> QED
    BY <1>2, <2>0, <2>1, <2>2
<1>4. /\ steps' = steps /\ steps \in [Threads -> Programs \cup {<<>>}]
      /\ taken \in [Threads -> Nat] /\ pc \in [Threads -> Before \cup {"waitStart"} \cup After]
      /\ \A u \in Threads : StepsInv(u) /\ SetInv(u)
  BY DEF RunStep, SetsInv, TypeOK
<1>5. ASSUME NEW u \in Threads PROVE SetInv(u)'
  <2>1. SUFFICES ASSUME ~ readOnly(steps[u]), NEW key \in ReadSoFar(u)'
                 PROVE  Known(u, key)'
    BY <1>4 DEF SetInv, readOnly
  <2>2. /\ ReadSoFar(u) \subseteq Tuples
        /\ \/ key \in ReadSoFar(u)
           \/ u = t /\ step.op = "read" /\ key = step.key
    BY ReadAfter
  <2>3. CASE key \in ReadSoFar(u)
    BY <1>3, <1>4, <2>1, <2>2, <2>3 DEF SetInv
  <2>4. CASE u = t /\ step.op = "read" /\ key = step.key
    BY <1>2, <1>3, <2>1, <2>4
  <2> QED
    BY <2>2, <2>3, <2>4
<1>6. taken' \in [Threads -> Nat] /\ \A u \in Threads : StepsInv(u)'
  <2>1. CASE /\ taken[t] + 1 = Len(steps[t]) /\ pc' = [pc EXCEPT ![t] = "loop"]
             /\ taken' = [taken EXCEPT ![t] = 0]
    <3>1. ASSUME NEW u \in Threads PROVE StepsInv(u)'
      <4>1. CASE u = t
        BY <1>4, <2>1, <4>1 DEF StepsInv, InTransaction
      <4>2. CASE u # t
        <5>1. pc'[u] = pc[u] /\ taken'[u] = taken[u]
          BY <1>4, <2>1, <4>2
        <5> QED
          BY <1>4, <5>1 DEF StepsInv
      <4> QED
        BY <4>1, <4>2
    <3> QED
      BY <1>4, <2>1, <3>1
  <2>2. CASE /\ taken[t] + 1 # Len(steps[t]) /\ pc' = pc
             /\ taken' = [taken EXCEPT ![t] = @ + 1]
    <3>1. taken'[t] = taken[t] + 1 /\ taken[t] + 1 < Len(steps[t])
      BY <1>1, <1>4, <2>2
    <3>2. pc[t] = "steps"
      BY DEF RunStep
    <3>3. \A u \in Threads \ {t} : taken'[u] = taken[u]
      BY <1>4, <2>2
    <3> QED
      BY <1>4, <2>2, <3>1, <3>2, <3>3 DEF StepsInv
  <2> QED
    BY <2>1, <2>2 DEF RunStep, Goto
<1> QED
  BY <1>3, <1>4, <1>5, <1>6 DEF SetsInv

\* A program has a step, the first one to be taken.
LEMMA MakeStepsSets ==
    ASSUME TypeOK, SetsInv, NEW t \in Threads, MakeSteps(t)
    PROVE  SetsInv'
<1>1. PICK p \in Programs : steps' = [steps EXCEPT ![t] = p]
  BY DEF MakeSteps
<1>2. /\ UNCHANGED <<taken, readSet, writeSet>> /\ pc' = [pc EXCEPT ![t] = "retry"]
      /\ pc \in [Threads -> Before \cup {"waitStart"} \cup After]
      /\ steps \in [Threads -> Programs \cup {<<>>}] /\ taken \in [Threads -> Nat]
  BY DEF MakeSteps, Goto, TypeOK, SetsInv
<1>3. p \in Seq(Steps) /\ p # <<>>
  BY ProgramsAssumption
<1>4. 0 < Len(p) /\ taken[t] = 0
  <2>1. pc[t] = "loop"
    BY DEF MakeSteps
  <2> QED
    BY <1>3, <2>1 DEF SetsInv, StepsInv
<1>5. ASSUME NEW u \in Threads PROVE SetInv(u)'
  <2>1. CASE u = t
    BY <1>2, <1>4, <2>1 DEF SetInv, ReadSoFar
  <2>2. CASE u # t
    <3>1. steps'[u] = steps[u]
      BY <1>1, <1>2, <2>2
    <3>2. ReadSoFar(u)' = ReadSoFar(u) /\ \A k : Known(u, k)' <=> Known(u, k)
      BY <1>2, <3>1 DEF ReadSoFar, Known, Keys
    <3> QED
      BY <3>1, <3>2 DEF SetsInv, SetInv, readOnly
  <2> QED
    BY <2>1, <2>2
<1>6. steps' \in [Threads -> Programs \cup {<<>>}] /\ \A u \in Threads : StepsInv(u)'
  BY <1>1, <1>2, <1>4 DEF SetsInv, StepsInv
<1> QED
  BY <1>2, <1>5, <1>6 DEF SetsInv

LEMMA SetsFrame ==
    ASSUME TypeOK, SetsInv, UNCHANGED <<steps, taken, readSet, writeSet>>,
           \A t \in Threads :
               /\ pc'[t] \in InTransaction => pc[t] \in InTransaction
               /\ pc[t] \in {"steps", "done"} => pc'[t] \in {"steps", "done"}
    PROVE  SetsInv'
<1>1. \A t \in Threads : ReadSoFar(t)' = ReadSoFar(t) /\ \A k : Known(t, k)' <=> Known(t, k)
  BY DEF ReadSoFar, Known, Keys
<1> QED
  BY <1>1 DEF SetsInv, StepsInv, SetInv, readOnly

LEMMA SetsStep ==
    ASSUME CicadaInv, SetsInv, [Next]_vars
    PROVE  SetsInv'
<1>0. TypeOK /\ pc \in [Threads -> Before \cup {"waitStart"} \cup After]
  BY DEF CicadaInv, TypeOK
<1>1. ASSUME NEW t \in Threads, Thread(t) PROVE SetsInv'
  <2>1. CASE RunStep(t)
    BY <1>0, <2>1, RunStepSets
  <2>2. CASE MakeSteps(t)
    BY <1>0, <2>2, MakeStepsSets
  <2>3. CASE \/ DrawFirst(t) \/ PublishWts(t) \/ StoreReady(t) \/ SeeStart(t) \/ Quit(t)
             \/ LeaderWork(t) \/ Begin(t) \/ TakeSnapshot(t) \/ PublishRts(t)
    <3>1. UNCHANGED <<steps, taken, readSet, writeSet>>
      BY <2>3 DEF DrawFirst, PublishWts, StoreReady, SeeStart, Quit, LeaderWork, Begin,
         TakeSnapshot, PublishRts, sets
    <3>2. \E label : /\ pc' = [pc EXCEPT ![t] = label]
                     /\ label \in InTransaction => pc[t] \in InTransaction
                     /\ pc[t] \notin {"steps", "done"}
      BY <2>3 DEF DrawFirst, PublishWts, StoreReady, SeeStart, Quit, LeaderWork, Begin,
         TakeSnapshot, PublishRts, Goto, InTransaction
    <3> QED
      BY <1>0, <3>1, <3>2, SetsFrame
  <2>4. CASE Crash(t)
    <3>1. /\ UNCHANGED <<steps, taken, readSet, writeSet>>
          /\ \A u \in Threads : pc'[u] = "done"
      BY <2>4 DEF Crash, PerThread, sets
    <3> QED
      BY <1>0, <3>1, SetsFrame DEF InTransaction
  <2> QED
    BY <1>1, <2>1, <2>2, <2>3, <2>4 DEF Thread
<1>2. CASE Main
  <2>1. UNCHANGED <<steps, taken, readSet, writeSet>>
    BY <1>2 DEF Main, BuildTable, CreateThreads, StoreStart, StoreQuit, Join, sets
  <2>2. CASE CreateThreads
    <3>1. \A t \in Threads : pc[t] = "absent" /\ pc'[t] = "construct"
      BY <2>2 DEF CreateThreads, PerThread, CicadaInv, MainInv
    <3> QED
      BY <1>0, <2>1, <3>1, SetsFrame DEF InTransaction
  <2>3. CASE UNCHANGED pc
    BY <1>0, <2>1, <2>3, SetsFrame
  <2> QED
    BY <1>2, <2>2, <2>3 DEF Main, BuildTable, StoreStart, StoreQuit, Join
<1>3. CASE UNCHANGED vars
  BY <1>0, <1>3, SetsFrame DEF vars, sets
<1> QED
  BY <1>1, <1>2, <1>3 DEF Next

\* read(), write(): no transaction of a thread, nor two of them, make two
\* versions of a tuple, and the version a transaction makes of a tuple it has
\* read is marked as a read-modify-write, whatever the sets, which are never
\* cleared, hold from earlier transactions.
THEOREM WritesAreMarked == Spec => RmwMarked
<1> DEFINE Marked == \A t \in Threads : \A e \in Added(t) :
                        /\ e.key \notin Keys(writeSet[t])
                        /\ e.key \in ReadSoFar(t) => e.rmw
<1>1. ASSUME TypeOK, SetsInv, NEW t \in Threads, RunStep(t)
      PROVE  Marked
  <2> DEFINE step == steps[t][taken[t] + 1]
  <2>1. /\ step.key \in Tuples
        /\ \/ step.op = "read" /\ Read(t, step.key)
           \/ step.op = "write" /\ Write(t, step.key) /\ ~ readOnly(steps[t])
    BY <1>1, StepOf
  <2> HIDE DEF step
  <2>2. CASE Read(t, step.key)
    BY <2>2 DEF Read, Added
  <2>3. CASE Write(t, step.key) /\ ~ readOnly(steps[t])
    <3>1. \A u \in Threads : \A e \in Added(u) :
             /\ u = t /\ e.key = step.key /\ step.key \notin Keys(writeSet[t])
             /\ e.rmw = (step.key \in readSet[t])
      BY <1>1, <2>1, <2>3, WriteSets
    <3>2. step.key \in ReadSoFar(t) /\ step.key \notin Keys(writeSet[t]) => step.key \in readSet[t]
      BY <1>1, <2>3 DEF SetsInv, SetInv, Known
    <3> QED
      BY <3>1, <3>2
  <2> QED
    BY <2>1, <2>2, <2>3
<1>2. ASSUME UNCHANGED writeSet
      PROVE  Marked
  BY <1>2 DEF Added
<1>3. CicadaInv /\ SetsInv /\ [Next]_vars => [Marked]_vars
  <2> SUFFICES ASSUME CicadaInv, SetsInv, Next PROVE Marked
    OBVIOUS
  <2>0. TypeOK
    BY DEF CicadaInv
  <2>1. CASE Main
    BY <1>2, <2>1 DEF Main, BuildTable, CreateThreads, StoreStart, StoreQuit, Join, sets
  <2>2. ASSUME NEW t \in Threads, Thread(t)
        PROVE  Marked
    <3>1. CASE RunStep(t)
      BY <1>1, <2>0, <3>1
    <3>2. CASE ~ RunStep(t)
      <4>1. UNCHANGED writeSet
        BY <2>2, <3>2 DEF Thread, DrawFirst, PublishWts, StoreReady, SeeStart, MakeSteps, Quit,
           LeaderWork, Begin, TakeSnapshot, PublishRts, Crash, sets
      <4> QED
        BY <1>2, <4>1
    <3> QED
      BY <3>1, <3>2
  <2> QED
    BY <2>1, <2>2 DEF Next
<1>4. CicadaInv /\ SetsInv /\ [Next]_vars => SetsInv'
  BY SetsStep
<1> QED
  BY <1>3, <1>4, SetsInit, CicadaInductive, PTL DEF Spec, RmwMarked
=============================================================================
