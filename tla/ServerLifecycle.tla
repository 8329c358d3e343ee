--------------------------- MODULE ServerLifecycle ---------------------------
(***************************************************************************)
(* server.Run (internal/server/server.go): one serve process from its      *)
(* start to its return.  Five kinds of goroutine run beside each other:    *)
(* Run itself, the shutdown goroutine it starts, HTTP handlers, the        *)
(* worker's goroutines (internal/pipeline/worker.go), and the call into    *)
(* instago that Client.run (internal/instagram/client.go) starts for the   *)
(* startup login or an import, and abandons when its deadline passes or    *)
(* the context is done.  All but the last use one connection pool, which   *)
(* Run closes last.                                                        *)
(***************************************************************************)
EXTENDS Naturals

CONSTANTS
    Handlers,  \* HTTP connections a client may have open
    Triggered, \* goroutines of triggered runs
    Loop       \* the goroutine of the schedule

ASSUME LoopAssumption == Loop \notin Triggered

Gor == Triggered \cup {Loop}

VARIABLES
    main,      \* where Run is
    cancelled, \* is the context done?
    pool,      \* the connection pool
    listening, \* is the listener open?
    stop,      \* where the shutdown goroutine is
    expired,   \* is its budget of ten seconds used up?
    conn,      \* conn[h]: the HTTP connection and the handler on it
    run,       \* run[g]: the worker's goroutines
    call       \* the one call Client.run's slot admits: is somebody waiting for it?

vars == <<main, cancelled, pool, listening, stop, expired, conn, run, call>>

TypeOK ==
    /\ main \in {"migrate", "connect", "seed", "login", "ask", "build", "listen", "serve", "drain",
                "close", "returned"}
    /\ cancelled \in BOOLEAN
    /\ pool \in {"none", "open", "closing", "closed"}
    /\ listening \in BOOLEAN
    /\ stop \in {"none", "wait", "http", "imports", "done"}
    /\ expired \in BOOLEAN
    /\ conn \in [Handlers -> {"none", "new", "idle", "busy", "query"}]
    /\ run \in [Gor -> {"off", "tick", "on", "query", "call"}]
    /\ \A g \in Triggered : run[g] # "tick"
    /\ call \in {"none", "awaited", "abandoned"}

Init ==
    /\ main = "migrate"
    /\ cancelled = FALSE
    /\ pool = "none"
    /\ listening = FALSE
    /\ stop = "none"
    /\ expired = FALSE
    /\ conn = [h \in Handlers |-> "none"]
    /\ run = [g \in Gor |-> "off"]
    /\ call = "none"

-----------------------------------------------------------------------------
(* Run.                                                                    *)

\* db.Open, first step: the migrations, over a connection of their own that is
\* closed either way.
Migrate ==
    /\ main = "migrate"
    /\ main' \in {"connect", "returned"}
    /\ UNCHANGED <<cancelled, pool, listening, stop, expired, conn, run, call>>

\* Second step: the pool, which a failed ping closes again.
Connect ==
    /\ main = "connect"
    /\ \/ main' = "seed" /\ pool' = "open"
       \/ main' = "returned" /\ pool' \in {"none", "closed"}
    /\ UNCHANGED <<cancelled, listening, stop, expired, conn, run, call>>

\* Last step: the lookup tables.  A failure closes the pool before Run has
\* deferred that itself.
Seed ==
    /\ main = "seed"
    /\ \/ main' = "login" /\ UNCHANGED pool
       \/ main' = "close" /\ pool' = "closing"
    /\ UNCHANGED <<cancelled, listening, stop, expired, conn, run, call>>

\* newFetcher: no account, a session restored from its file, or a context already
\* done - or a login, which is the first call into instago.
Login ==
    /\ main = "login"
    /\ \/ main' = "build" /\ UNCHANGED call
       \/ main' = "ask" /\ call' = "awaited"
    /\ UNCHANGED <<cancelled, pool, listening, stop, expired, conn, run>>

\* Client.run has its answer or stops waiting for it.  A failed login is recorded
\* and ends nothing.
LoginEnds ==
    /\ main = "ask"
    /\ main' = "build"
    /\ call' \in {"none", "abandoned"}
    /\ UNCHANGED <<cancelled, pool, listening, stop, expired, conn, run>>

\* Mutant: the schedule is started before the server is known to be built.
Build_ScheduleFirst ==
    /\ main = "build"
    /\ run' = [run EXCEPT ![Loop] = "tick"]
    /\ \/ main' = "close" /\ pool' = "closing" /\ UNCHANGED stop
       \/ main' = "listen" /\ stop' = "wait" /\ UNCHANGED pool
    /\ UNCHANGED <<cancelled, listening, expired, conn, call>>

\* The server is built - or cannot be, which ends Run - and only then are the
\* schedule, if an account is configured, and the shutdown goroutine started.
Build ==
    /\ main = "build"
    /\ \/ main' = "close" /\ pool' = "closing" /\ UNCHANGED <<stop, run>>
       \/ /\ main' = "listen" /\ stop' = "wait" /\ UNCHANGED pool
          /\ run' \in {run, [run EXCEPT ![Loop] = "tick"]}
    /\ UNCHANGED <<cancelled, listening, expired, conn, call>>

\* Mutant: a listen error is returned at once.
ListenFails_Returns ==
    /\ main \in {"listen", "serve"}
    /\ stop = "wait"
    /\ main' = "close"
    /\ pool' = "closing"
    /\ cancelled' = TRUE
    /\ listening' = FALSE
    /\ UNCHANGED <<stop, expired, conn, run, call>>

\* ListenAndServe fails to bind, or its listener breaks: cancel and wait.
ListenFails ==
    /\ main \in {"listen", "serve"}
    /\ stop = "wait"
    /\ main' = "drain"
    /\ cancelled' = TRUE
    /\ listening' = FALSE
    /\ UNCHANGED <<pool, stop, expired, conn, run, call>>

\* ListenAndServe binds, unless Shutdown was called before it.
Listen ==
    /\ main = "listen"
    /\ IF stop = "wait" THEN main' = "serve" /\ listening' = TRUE
                        ELSE main' = "drain" /\ UNCHANGED listening
    /\ UNCHANGED <<cancelled, pool, stop, expired, conn, run, call>>

\* ListenAndServe returns ErrServerClosed as soon as Shutdown is called.
ServerClosed ==
    /\ main = "serve"
    /\ stop # "wait"
    /\ main' = "drain"
    /\ UNCHANGED <<cancelled, pool, listening, stop, expired, conn, run, call>>

\* <-shutdownDone, then the deferred pool.Close begins: no new connections.
Drained ==
    /\ main = "drain"
    /\ stop = "done"
    /\ main' = "close"
    /\ pool' = "closing"
    /\ UNCHANGED <<cancelled, listening, stop, expired, conn, run, call>>

\* pool.Close returns when every connection has been given back.
PoolCloses ==
    /\ main = "close"
    /\ \A h \in Handlers : conn[h] # "query"
    /\ \A g \in Gor : run[g] # "query"
    /\ pool' = "closed"
    /\ main' = "returned"
    /\ UNCHANGED <<cancelled, listening, stop, expired, conn, run, call>>

-----------------------------------------------------------------------------
(* The shutdown goroutine.                                                 *)

\* SIGINT, SIGTERM, or the caller's own cancellation.
Signal ==
    /\ ~cancelled
    /\ cancelled' = TRUE
    /\ UNCHANGED <<main, pool, listening, stop, expired, conn, run, call>>

\* srv.Shutdown closes the listener first.
ShutdownBegins ==
    /\ stop = "wait"
    /\ cancelled
    /\ stop' = "http"
    /\ listening' = FALSE
    /\ UNCHANGED <<main, cancelled, pool, expired, conn, run, call>>

\* The ten seconds of shutdownCtx pass.
Expire ==
    /\ stop \in {"http", "imports"}
    /\ ~expired
    /\ expired' = TRUE
    /\ UNCHANGED <<main, cancelled, pool, listening, stop, conn, run, call>>

\* Mutant: the connections in use are not waited for.
HttpQuiet_Assumed == TRUE

\* No connection is in use: Shutdown closes the idle ones and waits for the rest
\* (one that never sent a request counts as idle after a while: see Hangup).
HttpQuiet == \A h \in Handlers : conn[h] \in {"none", "idle"}

HttpDrained ==
    /\ stop = "http"
    /\ HttpQuiet \/ expired
    /\ conn' = [h \in Handlers |-> IF conn[h] = "idle" THEN "none" ELSE conn[h]]
    /\ stop' = "imports"
    /\ UNCHANGED <<main, cancelled, pool, listening, expired, run, call>>

\* Mutant: the imports are waited for without the budget.
ImportsDrained_Unbounded ==
    /\ stop = "imports"
    /\ \A g \in Gor : run[g] = "off"
    /\ stop' = "done"
    /\ UNCHANGED <<main, cancelled, pool, listening, expired, conn, run, call>>

\* worker.Wait: until the worker's goroutines have returned, or the budget ends.
ImportsDrained ==
    /\ stop = "imports"
    /\ expired \/ \A g \in Gor : run[g] = "off"
    /\ stop' = "done"
    /\ UNCHANGED <<main, cancelled, pool, listening, expired, conn, run, call>>

-----------------------------------------------------------------------------
(* HTTP connections.                                                       *)

SetConn(h, from, to) ==
    /\ conn[h] \in from
    /\ conn' = [conn EXCEPT ![h] = to]

Accept(h) ==
    /\ listening
    /\ SetConn(h, {"none"}, "new")
    /\ UNCHANGED <<main, cancelled, pool, listening, stop, expired, run, call>>

\* A request arrives, also on a connection accepted before the shutdown.
Request(h) ==
    /\ SetConn(h, {"new", "idle"}, "busy")
    /\ UNCHANGED <<main, cancelled, pool, listening, stop, expired, run, call>>

\* The handler takes a connection of the pool, and gives it back.
HandlerQuery(h) ==
    /\ pool = "open"
    /\ SetConn(h, {"busy"}, "query")
    /\ UNCHANGED <<main, cancelled, pool, listening, stop, expired, run, call>>

HandlerQueryEnds(h) ==
    /\ SetConn(h, {"query"}, "busy")
    /\ UNCHANGED <<main, cancelled, pool, listening, stop, expired, run, call>>

\* The handler of POST /api/import/run triggers a run.
Trigger(h) ==
    /\ conn[h] = "busy"
    /\ \E g \in Triggered : run[g] = "off" /\ run' = [run EXCEPT ![g] = "on"]
    /\ UNCHANGED <<main, cancelled, pool, listening, stop, expired, conn, call>>

\* The handler returns; the connection is kept until a shutdown has begun.
Reply(h) ==
    /\ SetConn(h, {"busy"}, IF stop = "wait" THEN "idle" ELSE "none")
    /\ UNCHANGED <<main, cancelled, pool, listening, stop, expired, run, call>>

\* The client goes, or a server timeout ends the connection.
Hangup(h) ==
    /\ SetConn(h, {"new", "idle"}, "none")
    /\ UNCHANGED <<main, cancelled, pool, listening, stop, expired, run, call>>

-----------------------------------------------------------------------------
(* The worker's goroutines.                                                *)

\* One of them goes on, and leaves the call into instago in one of the given states.
SetRun(g, from, to, calls) ==
    /\ run[g] = from
    /\ run' = [run EXCEPT ![g] = to]
    /\ call' \in calls
    /\ UNCHANGED <<main, cancelled, pool, listening, stop, expired, conn>>

\* Start's loop: the ticker fires, also when the context is done as well.
Tick == SetRun(Loop, "tick", "on", {call})

LoopEnds == cancelled /\ SetRun(Loop, "tick", "off", {call})

RunQuery(g) == pool = "open" /\ SetRun(g, "on", "query", {call})

RunQueryEnds(g) == SetRun(g, "query", "on", {call})

\* Client.run admits a call when no other holds its slot; a run that finds it taken
\* fails and goes on.
RunAsks(g) == call = "none" /\ SetRun(g, "on", "call", {"awaited"})

\* Client.run has its answer, or its deadline or the context stops the wait for it.
RunAskEnds(g) == SetRun(g, "call", "on", {"none", "abandoned"})

RunReturns(g) == SetRun(g, "on", IF g = Loop THEN "tick" ELSE "off", {call})

\* An abandoned call comes back, if it ever does, and gives its slot back.
CallReturns ==
    /\ call = "abandoned"
    /\ call' = "none"
    /\ UNCHANGED <<main, cancelled, pool, listening, stop, expired, conn, run>>

-----------------------------------------------------------------------------
RunStep ==
    Migrate \/ Connect \/ Seed \/ Login \/ LoginEnds \/ Build \/ Listen \/ ServerClosed \/ Drained \/ PoolCloses
StopStep == ShutdownBegins \/ HttpDrained \/ ImportsDrained \/ Expire
QueriesEnd == (\E h \in Handlers : HandlerQueryEnds(h)) \/ (\E g \in Gor : RunQueryEnds(g))

Next ==
    \/ RunStep \/ ListenFails \/ StopStep \/ Signal
    \/ \E h \in Handlers :
          \/ Accept(h) \/ Request(h) \/ Reply(h) \/ Hangup(h)
          \/ HandlerQuery(h) \/ HandlerQueryEnds(h) \/ Trigger(h)
    \/ Tick \/ LoopEnds \/ CallReturns
    \/ \E g \in Gor :
          RunQuery(g) \/ RunQueryEnds(g) \/ RunAsks(g) \/ RunAskEnds(g) \/ RunReturns(g)

Spec == Init /\ [][Next]_vars

\* Run and the shutdown goroutine are scheduled, Client.run does not wait for the
\* startup login beyond its deadline, and a statement Postgres is given ends.
\* Handlers, imports and abandoned calls need not: a client may be slow, and
\* Instagram may never answer.
FairSpec ==
    /\ Spec
    /\ WF_vars(RunStep)
    /\ WF_vars(ShutdownBegins) /\ WF_vars(HttpDrained) /\ WF_vars(ImportsDrained) /\ WF_vars(Expire)
    /\ \A h \in Handlers : WF_vars(HandlerQueryEnds(h))
    /\ \A g \in Gor : WF_vars(RunQueryEnds(g))

-----------------------------------------------------------------------------
(* What is to hold.                                                        *)

\* server.Run's comment on the drain: the pool is not closed under a request
\* being served, or an import, unless the shutdown budget ran out.
PoolOutlivesUse ==
    pool \in {"closing", "closed"} /\ ~expired =>
        /\ \A h \in Handlers : conn[h] \notin {"new", "busy", "query"}
        /\ \A g \in Gor : run[g] = "off"

\* Run's comment, as far as it is true: when it has returned, on every path -
\* startup failure, listen error, shutdown - the listener and the pool are closed
\* and nobody holds a connection of the pool.  Unless the budget was used up, no
\* handler is left either, which could trigger a run, and none of the worker's
\* goroutines; a call into instago may be, but only one nobody waits for.
ReturnMeansStopped ==
    main = "returned" =>
        /\ pool \in {"none", "closed"} /\ ~listening /\ stop \in {"none", "done"}
        /\ \A h \in Handlers : conn[h] # "query"
        /\ \A g \in Gor : run[g] # "query"
        /\ expired \/ /\ \A h \in Handlers : conn[h] = "none"
                      /\ \A g \in Gor : run[g] = "off"
                      /\ call # "awaited"

\* worker.Wait's comment: no run is triggered while the imports are waited for.
WaitIsFinal ==
    [][\A g \in Triggered :
          stop \in {"imports", "done"} /\ ~expired /\ run[g] = "off" => run'[g] = "off"]_vars

\* A process told to stop does, whatever clients and Instagram do.
StopsWhenTold == cancelled ~> main = "returned"

-----------------------------------------------------------------------------
\* What does not hold.  Run's comment goes further: nothing of it is still running
\* when it has returned, with one exception, the import an exhausted budget
\* abandons.  A call Client.run stopped waiting for, when the signal came or its own
\* deadline passed, is still inside instago with the budget unspent - even after a
\* startup that failed - and an exhausted budget leaves handlers as well.
NothingLeftRunning ==
    main = "returned" =>
        /\ \A h \in Handlers : conn[h] = "none"
        /\ expired \/ (call = "none" /\ \A g \in Gor : run[g] = "off")
=============================================================================
