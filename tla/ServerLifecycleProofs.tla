----------------------- MODULE ServerLifecycleProofs ------------------------
(* Proofs about ServerLifecycle, for any number of connections and runs.     *)
EXTENDS ServerLifecycle, TLAPS

\* Nothing was ever started.
Unstarted ==
    /\ ~listening /\ ~expired
    /\ \A h \in Handlers : conn[h] = "none"
    /\ \A g \in Gor : run[g] = "off"

\* Where Run is says what there is of the pool and of the shutdown goroutine.
Stages ==
    /\ main \in {"migrate", "connect"} => pool = "none"
    /\ main \in {"seed", "login", "ask", "build", "listen", "serve", "drain"} => pool = "open"
    /\ main = "close" => pool = "closing"
    /\ main = "returned" => pool \in {"none", "closed"}
    /\ main \in {"migrate", "connect", "seed", "login", "ask", "build"} => stop = "none"
    /\ main \in {"listen", "serve", "drain"} => stop # "none"
    /\ main \in {"close", "returned"} => stop \in {"none", "done"}

\* What the shutdown goroutine has seen to by the step it is at.
Shutdown ==
    /\ stop = "none" => Unstarted
    /\ expired => stop \in {"http", "imports", "done"}
    /\ stop \in {"http", "imports", "done"} => ~listening
    /\ stop \in {"imports", "done"} /\ ~expired => \A h \in Handlers : conn[h] = "none"
    /\ stop = "done" /\ ~expired => \A g \in Gor : run[g] = "off"

\* A closed pool has all of its connections back.
GivenBack ==
    main = "returned" =>
        /\ \A h \in Handlers : conn[h] # "query"
        /\ \A g \in Gor : run[g] # "query"

\* Who waits for a call into instago is Run, at the startup login, or a run.
Awaited == call = "awaited" => main = "ask" \/ \E g \in Gor : run[g] = "call"

LifeInv == TypeOK /\ Stages /\ Shutdown /\ GivenBack /\ Awaited

\* The process starts in the invariant.
LEMMA LifeInit == Init => LifeInv
BY LoopAssumption DEF Init, LifeInv, TypeOK, Stages, Shutdown, Unstarted, GivenBack, Awaited, Gor

\* The steps of Run keep the invariant.
LEMMA RunKeeps ==
  ASSUME LifeInv, RunStep \/ ListenFails
  PROVE  LifeInv'
<1> USE LoopAssumption DEF LifeInv
<1>1. CASE Migrate \/ Connect \/ Seed \/ Login \/ LoginEnds
  BY <1>1 DEF Migrate, Connect, Seed, Login, LoginEnds, TypeOK, Stages, Shutdown, Unstarted, GivenBack, Awaited
<1>2. CASE Build
  <2>1. TypeOK'
    BY <1>2 DEF Build, TypeOK, Gor
  <2>2. Stages' /\ Shutdown' /\ GivenBack' /\ Awaited'
    BY <1>2 DEF Build, TypeOK, Stages, Shutdown, Unstarted, GivenBack, Awaited
  <2> QED
    BY <2>1, <2>2
<1>3. CASE Listen
  BY <1>3 DEF Listen, TypeOK, Stages, Shutdown, Unstarted, GivenBack, Awaited
<1>4. CASE ServerClosed \/ Drained
  BY <1>4 DEF ServerClosed, Drained, TypeOK, Stages, Shutdown, Unstarted, GivenBack, Awaited
<1>5. CASE ListenFails
  BY <1>5 DEF ListenFails, TypeOK, Stages, Shutdown, Unstarted, GivenBack, Awaited
<1>6. CASE PoolCloses
  BY <1>6 DEF PoolCloses, TypeOK, Stages, Shutdown, Unstarted, GivenBack, Awaited
<1> QED
  BY <1>1, <1>2, <1>3, <1>6, <1>4, <1>5 DEF RunStep

\* The steps of the shutdown goroutine, and the signal, keep the invariant.
LEMMA StopKeeps ==
  ASSUME LifeInv, StopStep \/ Signal
  PROVE  LifeInv'
<1> USE DEF LifeInv
<1>1. CASE ShutdownBegins
  BY <1>1 DEF ShutdownBegins, TypeOK, Stages, Shutdown, Unstarted, GivenBack, Awaited
<1>2. CASE Expire
  <2>1. TypeOK' /\ Stages' /\ GivenBack' /\ Awaited'
    BY <1>2 DEF Expire, TypeOK, Stages, GivenBack, Awaited
  <2>2. Shutdown'
    BY <1>2 DEF Expire, Shutdown
  <2> QED
    BY <2>1, <2>2
<1>3. CASE Signal
  <2>1. TypeOK' /\ Stages' /\ GivenBack' /\ Awaited'
    BY <1>3 DEF Signal, TypeOK, Stages, GivenBack, Awaited
  <2>2. Shutdown'
    BY <1>3 DEF Signal, Shutdown, Unstarted
  <2> QED
    BY <2>1, <2>2
<1>4. CASE ImportsDrained
  BY <1>4 DEF ImportsDrained, TypeOK, Stages, Shutdown, Unstarted, GivenBack, Awaited
<1>5. CASE HttpDrained
  <2>1. TypeOK'
    BY <1>5 DEF HttpDrained, TypeOK
  <2>2. Stages' /\ GivenBack' /\ Awaited'
    BY <1>5 DEF HttpDrained, Stages, GivenBack, Awaited
  <2>3. ~expired' => \A h \in Handlers : conn'[h] = "none"
    BY <1>5 DEF HttpDrained, HttpQuiet
  <2>4. Shutdown'
    BY <1>5, <2>3 DEF HttpDrained, Shutdown
  <2> QED
    BY <2>1, <2>2, <2>4
<1> QED
  BY <1>1, <1>5, <1>2, <1>4, <1>3 DEF StopStep

\* A step of a connection keeps the invariant: a new one needs the listener,
\* and the others a connection that is there.
LEMMA ConnKeeps ==
  ASSUME LifeInv, NEW h \in Handlers,
         Accept(h) \/ Request(h) \/ Reply(h) \/ Hangup(h) \/ HandlerQuery(h) \/ HandlerQueryEnds(h)
  PROVE  LifeInv'
<1> USE DEF LifeInv
<1>1. /\ UNCHANGED <<main, cancelled, pool, listening, stop, expired, run, call>>
      /\ \E to \in {"none", "new", "idle", "busy", "query"} :
            conn' = [conn EXCEPT ![h] = to] /\ (to = "query" => pool = "open")
  BY DEF Accept, Request, Reply, Hangup, HandlerQuery, HandlerQueryEnds, SetConn
<1>2. listening \/ conn[h] # "none"
  BY DEF Accept, Request, Reply, Hangup, HandlerQuery, HandlerQueryEnds, SetConn
<1>3. TypeOK'
  BY <1>1 DEF TypeOK
<1>4. Stages' /\ GivenBack' /\ Awaited'
  BY <1>1 DEF Stages, GivenBack, Awaited, TypeOK
<1>5. stop # "none" /\ ~(stop \in {"imports", "done"} /\ ~expired)
  BY <1>2 DEF Shutdown, Unstarted
<1>6. Shutdown'
  BY <1>1, <1>5 DEF Shutdown
<1> QED
  BY <1>3, <1>4, <1>6

\* A step of a run, or its start by a handler, keeps the invariant: it takes a
\* connection of an open pool only, and awaits a call only while it is in one.
LEMMA GorKeeps ==
  ASSUME LifeInv,
         \/ \E h \in Handlers : Trigger(h)
         \/ Tick \/ LoopEnds
         \/ \E g \in Gor : RunQuery(g) \/ RunQueryEnds(g) \/ RunAsks(g) \/ RunAskEnds(g) \/ RunReturns(g)
  PROVE  LifeInv'
<1> USE LoopAssumption DEF LifeInv
<1> DEFINE Step(g, to) ==
      /\ run' = [run EXCEPT ![g] = to]
      /\ call' \in {"none", "awaited", "abandoned"}
      /\ call' = "awaited" => to = "call" \/ (call = "awaited" /\ run[g] # "call")
      /\ to = "tick" => g = Loop
      /\ to = "query" => pool = "open"
      /\ run[g] # "off" \/ \E h \in Handlers : conn[h] = "busy"
<1>1. /\ UNCHANGED <<main, cancelled, pool, listening, stop, expired, conn>>
      /\ \E g \in Gor : \E to \in {"off", "tick", "on", "query", "call"} : Step(g, to)
  <2>1. CASE \E h \in Handlers : Trigger(h)
    BY <2>1 DEF Trigger, Gor, TypeOK
  <2>2. CASE Tick \/ LoopEnds
    BY <2>2 DEF Tick, LoopEnds, SetRun, Gor, TypeOK
  <2>3. CASE \E g \in Gor : RunQuery(g) \/ RunQueryEnds(g) \/ RunReturns(g)
    BY <2>3 DEF RunQuery, RunQueryEnds, RunReturns, SetRun, TypeOK
  <2>4. CASE \E g \in Gor : RunAsks(g) \/ RunAskEnds(g)
    BY <2>4 DEF RunAsks, RunAskEnds, SetRun
  <2> QED
    BY <2>1, <2>2, <2>3, <2>4
<1>2. PICK g \in Gor, to \in {"off", "tick", "on", "query", "call"} : Step(g, to)
  BY <1>1
<1>3. TypeOK'
  BY <1>1, <1>2 DEF TypeOK, Gor
<1>4. Stages' /\ GivenBack'
  BY <1>1, <1>2 DEF Stages, GivenBack, TypeOK
<1>5. stop # "none" /\ ~(stop = "done" /\ ~expired)
  BY <1>2 DEF Shutdown, Unstarted
<1>6. Shutdown'
  BY <1>1, <1>5 DEF Shutdown
<1>7. Awaited'
  BY <1>1, <1>2 DEF Awaited, TypeOK
<1> QED
  BY <1>3, <1>4, <1>6, <1>7

\* An abandoned call that comes back keeps the invariant: nobody awaits it.
LEMMA CallKeeps == LifeInv /\ CallReturns => LifeInv'
BY DEF LifeInv, CallReturns, TypeOK, Stages, Shutdown, Unstarted, GivenBack, Awaited

\* The invariant holds throughout.
THEOREM LifeCorrect == Spec => []LifeInv
<1>1. LifeInv /\ [Next]_vars => LifeInv'
  <2> SUFFICES ASSUME LifeInv, [Next]_vars PROVE LifeInv'
    OBVIOUS
  <2>1. CASE UNCHANGED vars
    BY <2>1 DEF vars, LifeInv, TypeOK, Stages, Shutdown, Unstarted, GivenBack, Awaited
  <2>2. CASE Next
    BY <2>2, RunKeeps, StopKeeps, ConnKeeps, GorKeeps, CallKeeps DEF Next
  <2> QED
    BY <2>1, <2>2
<1> QED
  BY LifeInit, <1>1, PTL DEF Spec

\* Type correctness of the life cycle.
THEOREM LifeTypeCorrect == Spec => []TypeOK
BY LifeCorrect, PTL DEF LifeInv

\* server.Run's comment on the drain: the pool is not closed under a request
\* or an import, unless the shutdown budget ran out.
THEOREM PoolCorrect == Spec => []PoolOutlivesUse
<1>1. LifeInv => PoolOutlivesUse
  BY DEF LifeInv, TypeOK, Stages, Shutdown, Unstarted, PoolOutlivesUse
<1> QED
  BY LifeCorrect, <1>1, PTL

\* When Run has returned, whichever way, listener and pool are closed and every
\* connection of the pool is back.  Unless the budget was used up, no handler and
\* no run is left, so that a call into instago that still is has nobody waiting.
THEOREM ReturnCorrect == Spec => []ReturnMeansStopped
<1>1. LifeInv => ReturnMeansStopped
  BY DEF LifeInv, TypeOK, Stages, Shutdown, Unstarted, GivenBack, Awaited, ReturnMeansStopped
<1> QED
  BY LifeCorrect, <1>1, PTL

\* worker.Wait's comment: no run is triggered while the imports are waited for,
\* because by then every connection is gone and none is accepted.
THEOREM WaitCorrect == Spec => WaitIsFinal
<1> DEFINE Final == \A g \in Triggered :
          stop \in {"imports", "done"} /\ ~expired /\ run[g] = "off" => run'[g] = "off"
<1>1. LifeInv /\ [Next]_vars => [Final]_vars
  <2> SUFFICES ASSUME LifeInv, Next, NEW g \in Triggered,
                      stop \in {"imports", "done"}, ~expired, run[g] = "off"
               PROVE  run'[g] = "off"
    BY DEF vars
  <2> USE LoopAssumption DEF LifeInv, TypeOK
  <2>1. \A h \in Handlers : conn[h] = "none"
    BY DEF Shutdown
  <2>2. CASE Build
    BY <2>2 DEF Build, Stages
  <2>3. CASE Migrate \/ Connect \/ Seed \/ Login \/ LoginEnds \/ Listen \/ ServerClosed \/ Drained \/ PoolCloses \/ ListenFails
             \/ StopStep \/ Signal \/ CallReturns
    BY <2>3 DEF Migrate, Connect, Seed, Login, LoginEnds, CallReturns, Listen, ServerClosed, Drained, PoolCloses, ListenFails, StopStep,
                ShutdownBegins, HttpDrained, ImportsDrained, Expire, Signal
  <2>4. ASSUME NEW h \in Handlers,
               Accept(h) \/ Request(h) \/ Reply(h) \/ Hangup(h) \/ HandlerQuery(h) \/ HandlerQueryEnds(h) \/ Trigger(h)
        PROVE  run'[g] = "off"
    BY <2>1, <2>4 DEF Accept, Request, Reply, Hangup, HandlerQuery, HandlerQueryEnds, Trigger
  <2>5. CASE Tick \/ LoopEnds
             \/ \E q \in Gor : RunQuery(q) \/ RunQueryEnds(q) \/ RunAsks(q) \/ RunAskEnds(q) \/ RunReturns(q)
    BY <2>5 DEF Tick, LoopEnds, RunQuery, RunQueryEnds, RunAsks, RunAskEnds, RunReturns, SetRun, Gor
  <2> QED
    BY <2>2, <2>3, <2>4, <2>5 DEF Next, RunStep
<1> QED
  BY LifeCorrect, <1>1, PTL DEF Spec, WaitIsFinal

-----------------------------------------------------------------------------
(* That a process told to stop does (StopsWhenTold) is left to TLC; that     *)
(* there is always somebody to take it a step further, and how many steps    *)
(* there can be, is proved here.                                             *)

MainLeft ==
    CASE main = "migrate" -> 10 [] main = "connect" -> 9 [] main = "seed" -> 8
      [] main = "login" -> 7 [] main = "ask" -> 6 [] main = "build" -> 5
      [] main = "listen" -> 4 [] main = "serve" -> 3 [] main = "drain" -> 2 [] main = "close" -> 1
      [] main = "returned" -> 0

StopLeft ==
    CASE stop \in {"none", "wait"} -> 3 [] stop = "http" -> 2 [] stop = "imports" -> 1 [] stop = "done" -> 0

BudgetLeft == IF expired THEN 0 ELSE 1

\* The steps Run, the shutdown goroutine and its budget may still take.
StepsLeft == MainLeft + StopLeft + BudgetLeft

\* What a process told to stop has to go on with: a step of Run, one of the shutdown
\* goroutine or the end of its budget, or, in pool.Close, the statements it waits for.
NotWedged ==
    cancelled /\ main # "returned" =>
        \/ main \in {"migrate", "connect", "seed", "login", "ask", "build", "listen", "close"}
        \/ main = "serve" /\ stop # "wait"
        \/ main = "drain" /\ stop = "done"
        \/ stop \in {"wait", "http", "imports"}

\* Three parts of a sum, one lowered and the others kept or one of them lowered.
LEMMA SumFalls ==
  ASSUME NEW a \in Nat, NEW b \in Nat, NEW c \in Nat, NEW x \in Nat, NEW y \in Nat, NEW z \in Nat,
         \/ (x < a /\ y = b /\ z = c)
         \/ (x = a /\ y < b /\ z = c)
         \/ (x = a /\ y = b /\ z < c)
  PROVE  x + y + z < a + b + c
OBVIOUS

\* Each step of Run and of the shutdown goroutine is one of at most fourteen, and no
\* step of a client, a handler or an import, signals included, adds one.
THEOREM StopBounded ==
    Spec => /\ []/\ StepsLeft \in 0..14 /\ (StepsLeft = 0 => main = "returned")
                 /\ NotWedged
            /\ [][IF RunStep \/ ListenFails \/ StopStep THEN StepsLeft' < StepsLeft
                  ELSE StepsLeft' = StepsLeft]_vars
<1>1. ASSUME LifeInv
      PROVE  StepsLeft \in 0..14 /\ (StepsLeft = 0 => main = "returned") /\ NotWedged
  <2>1. MainLeft \in 0..10 /\ (MainLeft = 0 => main = "returned")
    <3>1. main \in {"migrate", "connect", "seed", "login", "ask", "build", "listen", "serve", "drain",
                      "close", "returned"}
      BY <1>1 DEF LifeInv, TypeOK
    <3>2. main # "returned" => MainLeft \in 1..10
      BY <3>1 DEF MainLeft
    <3>3. main = "returned" => MainLeft = 0
      BY DEF MainLeft
    <3> QED
      BY <3>2, <3>3
  <2>2. StopLeft \in 0..3
    BY <1>1 DEF LifeInv, TypeOK, StopLeft
  <2>3. NotWedged
    BY <1>1 DEF LifeInv, TypeOK, Stages, NotWedged
  <2>4. BudgetLeft \in 0..1
    BY DEF BudgetLeft
  <2> QED
    BY <2>1, <2>2, <2>3, <2>4 DEF StepsLeft
<1>2. ASSUME LifeInv, LifeInv', [Next]_vars
      PROVE  [IF RunStep \/ ListenFails \/ StopStep THEN StepsLeft' < StepsLeft
              ELSE StepsLeft' = StepsLeft]_vars
  <2>0. /\ MainLeft \in Nat /\ StopLeft \in Nat /\ MainLeft' \in Nat /\ StopLeft' \in Nat
        /\ BudgetLeft \in Nat /\ BudgetLeft' \in Nat
    <3>1. MainLeft \in Nat /\ StopLeft \in Nat
      BY <1>2 DEF LifeInv, TypeOK, MainLeft, StopLeft
    <3>2. MainLeft' \in Nat
      BY <1>2 DEF LifeInv, TypeOK, MainLeft
    <3>3. StopLeft' \in Nat
      BY <1>2 DEF LifeInv, TypeOK, StopLeft
    <3>4. BudgetLeft \in Nat /\ BudgetLeft' \in Nat
      BY DEF BudgetLeft
    <3> QED
      BY <3>1, <3>2, <3>3, <3>4
  <2>9. /\ StepsLeft = MainLeft + StopLeft + BudgetLeft
        /\ StepsLeft' = MainLeft' + StopLeft' + BudgetLeft'
    BY DEF StepsLeft
  <2>1. CASE RunStep \/ ListenFails
    <3>0. expired' = expired /\ (stop' = stop \/ (stop = "none" /\ stop' = "wait"))
      BY <1>2, <2>1 DEF RunStep, Migrate, Connect, Seed, Login, LoginEnds, Build, Listen, ServerClosed, Drained, PoolCloses,
                        ListenFails, LifeInv, Stages
    <3>1. BudgetLeft' = BudgetLeft /\ StopLeft' = StopLeft
      BY <3>0 DEF StopLeft, BudgetLeft
    <3>2. MainLeft' < MainLeft
      BY <2>1 DEF RunStep, Migrate, Connect, Seed, Login, LoginEnds, Build, Listen, ServerClosed, Drained, PoolCloses,
                  ListenFails, MainLeft
    <3> QED
      <4>1. StepsLeft' < StepsLeft
        BY <2>0, <2>9, <3>1, <3>2, SumFalls, Zenon
      <4> QED
        BY <2>1, <4>1
  <2>2. CASE StopStep
    <3>1. main' = main /\ MainLeft' = MainLeft
      BY <2>2 DEF StopStep, ShutdownBegins, HttpDrained, ImportsDrained, Expire, MainLeft
    <3>2. \/ (StopLeft' < StopLeft /\ BudgetLeft' = BudgetLeft)
          \/ (StopLeft' = StopLeft /\ BudgetLeft' < BudgetLeft)
      BY <2>2 DEF StopStep, ShutdownBegins, HttpDrained, ImportsDrained, Expire, StopLeft, BudgetLeft
    <3> QED
      <4>1. StepsLeft' < StepsLeft
        BY <2>0, <2>9, <3>1, <3>2, SumFalls, Zenon
      <4> QED
        BY <2>2, <4>1
  <2>3. ASSUME ~(RunStep \/ ListenFails \/ StopStep) PROVE StepsLeft' = StepsLeft
    <3>1. UNCHANGED <<main, stop, expired>>
      BY <1>2, <2>3 DEF Next, Signal, Accept, Request, Reply, Hangup, HandlerQuery, HandlerQueryEnds, Trigger,
                        Tick, LoopEnds, CallReturns, RunQuery, RunQueryEnds, RunAsks, RunAskEnds, RunReturns, SetRun, vars
    <3> QED
      BY <3>1 DEF StepsLeft, MainLeft, StopLeft, BudgetLeft
  <2> QED
    BY <2>1, <2>2, <2>3
<1> QED
  BY <1>1, <1>2, LifeCorrect, PTL DEF Spec
=============================================================================
