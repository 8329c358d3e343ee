---------------------------- MODULE ImportWorker ----------------------------
(***************************************************************************)
(* Who may use the Instagram account, and when.                            *)
(*                                                                         *)
(* Every `serve` process has one Worker (internal/pipeline/worker.go) whose *)
(* goroutines - the schedule loop and one per accepted trigger - all call  *)
(* RunOnce; every `recipe-reader import` process calls ImportOnce          *)
(* (internal/server/import.go) instead.  The processes share one Postgres  *)
(* advisory lock (internal/db/lock.go).  Pipeline.Run itself is one long   *)
(* step here: it ends in one of the outcomes the worker tells apart.       *)
(***************************************************************************)
EXTENDS Naturals

CONSTANTS
    Servers,           \* the serve processes
    Commands,          \* the import commands, each its own process
    Gor,               \* goroutines a Worker may have in flight
    Loop,              \* the one of them that is the schedule loop
    Handlers,          \* concurrent HTTP requests of one server
    None,              \* nobody
    Orphan,            \* a lock session without a client (see ReleaseLock)
    CooldownTicks,     \* rateLimitCooldown, in clock units
    MaxTime            \* bound: the clock stops here

ASSUME ActorAssumption ==
    /\ Loop \in Gor
    /\ (Servers \X Gor) \cap Commands = {}
    /\ {None, Orphan} \cap ((Servers \X Gor) \cup Commands) = {}
    /\ None # Orphan

ASSUME TimeAssumption ==
    /\ CooldownTicks \in Nat \ {0}
    /\ MaxTime \in Nat

Runs   == Servers \X Gor     \* a call of RunOnce: server r[1], goroutine r[2]
Actors == Runs \cup Commands \* what can hold a lock session

VARIABLES
    now,            \* the wall clock
    up,             \* up[s]: is the process down, logging in at startup, or serving
    running,        \* Worker.running
    lastErr,        \* Worker.lastErr; lastRun and lastResult are set with it
    cooldownUntil,  \* Worker.cooldownUntil; 0 is Go's zero time
    pc,             \* pc[r]: where goroutine r is in RunOnce / Pipeline.Run
    res,            \* res[r]: what r's pipeline returned, until it is recorded
    cmd,            \* cmd[c]: where command c is in ImportOnce
    lock,           \* the session that holds the advisory lock
    lost,           \* history: the actors whose lock session broke under them
    req,            \* req[s][h]: where HTTP request h is in its handler
    reply,          \* reply[s][h]: the CooldownUntil handleImportStatus has read
    done            \* history: done[s] is the error of the last run s finished

worker  == <<running, lastErr, cooldownUntil>>
http    == <<req, reply>>
locks   == <<lock, lost>>
vars    == <<now, up, worker, pc, res, cmd, locks, http, done>>

Outcomes == {"ok", "failed", "limited"}   \* errors the worker tells apart
Errors   == Outcomes \cup {"login"}       \* "ok" is the nil error
PCs      == {"idle", "begin", "acquire", "work", "release", "record", "refused"}
InRun    == PCs \ {"idle", "begin"}       \* between `running = true` and its reset
Using    == {"login", "work"}             \* talking to Instagram under the lock

TypeOK ==
    /\ now \in 0..MaxTime
    /\ up \in [Servers -> {"down", "login", "serving"}]
    /\ running \in [Servers -> BOOLEAN]
    /\ lastErr \in [Servers -> Errors]
    /\ cooldownUntil \in [Servers -> Nat]
    /\ pc \in [Runs -> PCs]
    /\ res \in [Runs -> Outcomes \cup {"none"}]
    /\ cmd \in [Commands -> {"off", "acquire", "login", "work", "release"}]
    /\ lock \in Actors \cup {None, Orphan}
    /\ lost \subseteq Actors
    /\ req \in [Servers -> [Handlers -> {"idle", "trigger", "cooldown"}]]
    /\ reply \in [Servers -> [Handlers -> Nat]]
    /\ done \in [Servers -> Errors]

Init ==
    /\ now = 0
    /\ up = [s \in Servers |-> "down"]
    /\ running = [s \in Servers |-> FALSE]
    /\ lastErr = [s \in Servers |-> "ok"]
    /\ cooldownUntil = [s \in Servers |-> 0]
    /\ pc = [r \in Runs |-> "idle"]
    /\ res = [r \in Runs |-> "none"]
    /\ cmd = [c \in Commands |-> "off"]
    /\ lock = None
    /\ lost = {}
    /\ req = [s \in Servers |-> [h \in Handlers |-> "idle"]]
    /\ reply = [s \in Servers |-> [h \in Handlers |-> 0]]
    /\ done = [s \in Servers |-> "ok"]

-----------------------------------------------------------------------------
(* The advisory lock: pg_try_advisory_lock on a session of its own.        *)

\* The query found the lock free: session a has it.
TakeLock(a) == lock = None /\ lock' = a /\ UNCHANGED lost

\* Connecting or querying failed.  When the query did reach Postgres the
\* session may have been given the lock before the client closed it.
LockUnreachable ==
    /\ lock' \in {lock} \cup (IF lock = None THEN {Orphan} ELSE {})
    /\ UNCHANGED lost

\* Mutant: the session is never closed.
ReleaseLock_Forgotten(a) == UNCHANGED locks

\* close ends a's session, which frees the lock; when the goodbye does not
\* arrive within releaseTimeout the session, and with it the lock, is left
\* behind until Postgres notices.
ReleaseLock(a) ==
    /\ IF lock = a THEN lock' \in {None, Orphan} ELSE UNCHANGED lock
    /\ lost' = lost \ {a}

\* Postgres ends a session whose client is gone.
OrphanEnds ==
    /\ lock = Orphan
    /\ lock' = None
    /\ UNCHANGED <<lost, now, up, worker, pc, res, cmd, http, done>>

\* The connection that holds the lock breaks while its run goes on; nothing
\* in Pipeline.Run looks at it again before the release.
SessionLost ==
    /\ lock \in Actors
    /\ lock' = None
    /\ lost' = lost \cup {lock}
    /\ UNCHANGED <<now, up, worker, pc, res, cmd, http, done>>

-----------------------------------------------------------------------------
(* The Worker's goroutines.                                                *)

GoTo(r, step, outcome) ==
    /\ pc' = [pc EXCEPT ![r] = step]
    /\ res' = [res EXCEPT ![r] = outcome]

Cooling(s) == cooldownUntil[s] > now

\* The schedule loop's ticker fires.
TickerFires(s) ==
    /\ up[s] = "serving"
    /\ pc[<<s, Loop>>] = "idle"
    /\ GoTo(<<s, Loop>>, "begin", "none")
    /\ UNCHANGED <<now, up, worker, cmd, locks, http, done>>

\* Mutants: RunOnce does not look at the flag, or not at the cooldown.
Busy_Unchecked(s) == FALSE
StandDown_Unchecked(s) == FALSE

\* The two reasons for RunOnce to skip a call.
Busy(s) == running[s]
StandDown(s) == Cooling(s)

\* RunOnce up to the first unlock: refuse while a run is in flight or a rate
\* limit is being waited out, otherwise raise the flag.
Begin(r) ==
    LET s == r[1] IN
    /\ pc[r] = "begin"
    /\ \/ /\ Busy(s)
          /\ GoTo(r, "idle", "none")
          /\ UNCHANGED running
       \/ /\ ~Busy(s)
          /\ StandDown(s)
          /\ GoTo(r, "idle", "none")
          /\ UNCHANGED running
       \/ /\ ~Busy(s)
          /\ ~StandDown(s)
          /\ GoTo(r, "acquire", "none")
          /\ running' = [running EXCEPT ![s] = TRUE]
    /\ UNCHANGED <<now, up, lastErr, cooldownUntil, cmd, locks, http, done>>

\* Mutant: an error of the lock is not looked at.
Acquire_IgnoresError(r) ==
    /\ pc[r] = "acquire"
    /\ \/ TakeLock(r) /\ GoTo(r, "work", "none")
       \/ lock # None /\ UNCHANGED locks /\ GoTo(r, "refused", "none")
       \/ LockUnreachable /\ GoTo(r, "work", "none")
    /\ UNCHANGED <<now, up, worker, cmd, http, done>>

\* Pipeline.Run, p.Lock.TryAcquire: held, refused, or not to be consulted at
\* all (an error, which is a run's outcome like any other).
Acquire(r) ==
    /\ pc[r] = "acquire"
    /\ \/ /\ TakeLock(r)
          /\ GoTo(r, "work", "none")
          /\ UNCHANGED done
       \/ /\ lock # None
          /\ GoTo(r, "refused", "none")
          /\ UNCHANGED <<locks, done>>
       \/ /\ LockUnreachable
          /\ GoTo(r, "record", "failed")
          /\ done' = [done EXCEPT ![r[1]] = "failed"]
    /\ UNCHANGED <<now, up, worker, cmd, http>>

\* The rest of Pipeline.Run: fetch, extract and store, ending in one outcome.
Work(r) ==
    /\ pc[r] = "work"
    /\ \E o \in Outcomes :
          /\ GoTo(r, "release", o)
          /\ done' = [done EXCEPT ![r[1]] = o]
    /\ UNCHANGED <<now, up, worker, cmd, locks, http>>

\* Pipeline.Run's deferred release.
Release(r) ==
    /\ pc[r] = "release"
    /\ ReleaseLock(r)
    /\ GoTo(r, "record", res[r])
    /\ UNCHANGED <<now, up, worker, cmd, http, done>>

\* Mutant: the flag stays up.
Refused_KeepsFlag(r) ==
    /\ pc[r] = "refused"
    /\ GoTo(r, "idle", "none")
    /\ UNCHANGED <<now, up, worker, cmd, locks, http, done>>

\* Mutant: a refusal overwrites the status of the last run.
Refused_Records(r) ==
    /\ pc[r] = "refused"
    /\ running' = [running EXCEPT ![r[1]] = FALSE]
    /\ lastErr' = [lastErr EXCEPT ![r[1]] = "failed"]
    /\ GoTo(r, "idle", "none")
    /\ UNCHANGED <<now, up, cooldownUntil, cmd, locks, http, done>>

\* RunOnce after ErrImportInProgress: clear the flag, record nothing.
Refused(r) ==
    /\ pc[r] = "refused"
    /\ running' = [running EXCEPT ![r[1]] = FALSE]
    /\ GoTo(r, "idle", "none")
    /\ UNCHANGED <<now, up, lastErr, cooldownUntil, cmd, locks, http, done>>

\* RunOnce after any other end of the pipeline.
Record(r) ==
    LET s == r[1] IN
    /\ pc[r] = "record"
    /\ running' = [running EXCEPT ![s] = FALSE]
    /\ lastErr' = [lastErr EXCEPT ![s] = res[r]]
    /\ cooldownUntil' = [cooldownUntil EXCEPT ![s] =
                            IF res[r] = "limited" THEN now + CooldownTicks ELSE @]
    /\ GoTo(r, "idle", "none")
    /\ UNCHANGED <<now, up, cmd, locks, http, done>>

-----------------------------------------------------------------------------
(* HTTP handlers (internal/api/handlers_import.go).                        *)

\* handleImportRun, first half: read the cooldown, answer 429 or go on.
RunCheck(s, h) ==
    /\ up[s] = "serving"
    /\ req[s][h] = "idle"
    /\ req' = [req EXCEPT ![s][h] = IF Cooling(s) THEN "idle" ELSE "trigger"]
    /\ UNCHANGED <<now, up, worker, pc, res, cmd, locks, reply, done>>

\* handleImportRun, second half: Trigger starts a goroutine, 202 is answered.
RunTrigger(s, h) ==
    /\ req[s][h] = "trigger"
    /\ req' = [req EXCEPT ![s][h] = "idle"]
    /\ \E g \in Gor \ {Loop} :
          /\ pc[<<s, g>>] = "idle"
          /\ GoTo(<<s, g>>, "begin", "none")
    /\ UNCHANGED <<now, up, worker, cmd, locks, reply, done>>

\* handleImportStatus, first half: Worker.Status under the mutex.
StatusRead(s, h) ==
    /\ up[s] = "serving"
    /\ req[s][h] = "idle"
    /\ req' = [req EXCEPT ![s][h] = "cooldown"]
    /\ reply' = [reply EXCEPT ![s][h] = cooldownUntil[s]]
    /\ UNCHANGED <<now, up, worker, pc, res, cmd, locks, done>>

\* handleImportStatus, second half: a second lock for Cooldown, then the answer,
\* which says both Cooling(s) and reply[s][h].
StatusAnswer(s, h) ==
    /\ req[s][h] = "cooldown"
    /\ req' = [req EXCEPT ![s][h] = "idle"]
    /\ reply' = [reply EXCEPT ![s][h] = 0]
    /\ UNCHANGED <<now, up, worker, pc, res, cmd, locks, done>>

-----------------------------------------------------------------------------
(* Processes.                                                              *)

\* server.Run up to newFetcher's login, which takes no lock.
ServerStart(s) ==
    /\ up[s] = "down"
    /\ up' = [up EXCEPT ![s] = "login"]
    /\ UNCHANGED <<now, worker, pc, res, cmd, locks, http, done>>

\* The startup login is over; a failure is recorded and the server carries on.
ServerReady(s) ==
    /\ up[s] = "login"
    /\ up' = [up EXCEPT ![s] = "serving"]
    /\ \E e \in {"ok", "login"} :
          /\ lastErr' = [lastErr EXCEPT ![s] = e]
          /\ done' = [done EXCEPT ![s] = e]
    /\ UNCHANGED <<now, running, cooldownUntil, pc, res, cmd, locks, http>>

\* The process ends, by exit or kill.  Its memory is gone; its lock session
\* ends now or when Postgres notices.
ServerDies(s) ==
    /\ up[s] # "down"
    /\ up' = [up EXCEPT ![s] = "down"]
    /\ running' = [running EXCEPT ![s] = FALSE]
    /\ lastErr' = [lastErr EXCEPT ![s] = "ok"]
    /\ cooldownUntil' = [cooldownUntil EXCEPT ![s] = 0]
    /\ pc' = [r \in Runs |-> IF r[1] = s THEN "idle" ELSE pc[r]]
    /\ res' = [r \in Runs |-> IF r[1] = s THEN "none" ELSE res[r]]
    /\ IF \E r \in Runs : r[1] = s /\ lock = r THEN lock' \in {None, Orphan} ELSE UNCHANGED lock
    /\ lost' = {a \in lost : a \in Runs => a[1] # s}
    /\ req' = [req EXCEPT ![s] = [h \in Handlers |-> "idle"]]
    /\ reply' = [reply EXCEPT ![s] = [h \in Handlers |-> 0]]
    /\ done' = [done EXCEPT ![s] = "ok"]
    /\ UNCHANGED <<now, cmd>>

CommandStart(c) ==
    /\ cmd[c] = "off"
    /\ cmd' = [cmd EXCEPT ![c] = "acquire"]
    /\ UNCHANGED <<now, up, worker, pc, res, locks, http, done>>

\* ImportOnce takes the lock before newFetcher logs in; without it the command
\* ends, saying why.
CommandAcquire(c) ==
    /\ cmd[c] = "acquire"
    /\ \/ TakeLock(c) /\ cmd' = [cmd EXCEPT ![c] = "login"]
       \/ lock # None /\ UNCHANGED locks /\ cmd' = [cmd EXCEPT ![c] = "off"]
       \/ LockUnreachable /\ cmd' = [cmd EXCEPT ![c] = "off"]
    /\ UNCHANGED <<now, up, worker, pc, res, http, done>>

\* newFetcher: a failed login is the command's result.
CommandLogin(c) ==
    /\ cmd[c] = "login"
    /\ \E next \in {"work", "release"} : cmd' = [cmd EXCEPT ![c] = next]
    /\ UNCHANGED <<now, up, worker, pc, res, locks, http, done>>

CommandWork(c) ==
    /\ cmd[c] = "work"
    /\ cmd' = [cmd EXCEPT ![c] = "release"]
    /\ UNCHANGED <<now, up, worker, pc, res, locks, http, done>>

CommandRelease(c) ==
    /\ cmd[c] = "release"
    /\ ReleaseLock(c)
    /\ cmd' = [cmd EXCEPT ![c] = "off"]
    /\ UNCHANGED <<now, up, worker, pc, res, http, done>>

CommandDies(c) ==
    /\ cmd[c] # "off"
    /\ ReleaseLock(c)
    /\ cmd' = [cmd EXCEPT ![c] = "off"]
    /\ UNCHANGED <<now, up, worker, pc, res, http, done>>

ClockTicks ==
    /\ now < MaxTime
    /\ now' = now + 1
    /\ UNCHANGED <<up, worker, pc, res, cmd, locks, http, done>>

-----------------------------------------------------------------------------
RunStep(r) == Begin(r) \/ Acquire(r) \/ Work(r) \/ Release(r) \/ Refused(r) \/ Record(r)

CommandStep(c) == CommandAcquire(c) \/ CommandLogin(c) \/ CommandWork(c) \/ CommandRelease(c)

RequestStep(s, h) == RunCheck(s, h) \/ RunTrigger(s, h) \/ StatusRead(s, h) \/ StatusAnswer(s, h)

Next ==
    \/ OrphanEnds
    \/ SessionLost
    \/ ClockTicks
    \/ \E r \in Runs : RunStep(r)
    \/ \E c \in Commands : CommandStep(c) \/ CommandStart(c) \/ CommandDies(c)
    \/ \E s \in Servers :
          \/ TickerFires(s)
          \/ ServerStart(s) \/ ServerReady(s) \/ ServerDies(s)
          \/ \E h \in Handlers : RequestStep(s, h)

Spec == Init /\ [][Next]_vars

\* Goroutines and commands are scheduled, and every call they wait on ends: an
\* Instagram or LLM call has a deadline of its own, and Postgres is assumed to
\* answer.  Postgres ends the sessions of clients that are gone.  Nothing makes the ticker fire, a
\* request arrive, a process start or die.
Fairness ==
    /\ \A r \in Runs : WF_vars(RunStep(r))
    /\ \A c \in Commands : WF_vars(CommandStep(c))
    /\ WF_vars(OrphanEnds)

FairSpec == Spec /\ Fairness
-----------------------------------------------------------------------------
(* What is to hold.                                                        *)

InAccount(a) ==
    \/ a \in Runs /\ pc[a] = "work"
    \/ a \in Commands /\ cmd[a] \in Using

\* Worker: "it serializes runs".  Of all the goroutines of one worker at most
\* one is between `running = true` and its reset, and the flag says exactly
\* whether one is - also when a refused run clears the flag.
SingleFlight ==
    /\ \A r \in Runs : pc[r] \in InRun => running[r[1]]
    /\ \A s \in Servers : running[s] => \E r \in Runs : r[1] = s /\ pc[r] \in InRun
    /\ \A r, q \in Runs : pc[r] \in InRun /\ pc[q] \in InRun /\ r[1] = q[1] => r = q

\* In the account under a lock session that has not broken meanwhile.
Guarded(a) == InAccount(a) /\ a \notin lost

\* ImportLock: of all the runs of all the servers and all the import commands
\* at most one talks to Instagram, not counting one whose lock session broke:
\* a break lets one more in, and no refusal, error, kill or late goodbye does.
OneImportAtATime ==
    \A a, b \in Actors : Guarded(a) /\ Guarded(b) => a = b

\* RunOnce's cooldown: no run of a worker is talking to Instagram, or about to,
\* while that worker is waiting out a rate limit; in particular none was let in
\* before the limit was recorded and is still going.
NoContactWhileCooling ==
    \A r \in Runs : pc[r] \in {"acquire", "work"} => ~Cooling(r[1])

\* RunOnce and RecordFailure: with no run in flight, Status reports the run
\* that finished last - never an older one, and never a refused or skipped
\* call, which made no run.
StatusIsLastRun ==
    \A s \in Servers : ~running[s] => lastErr[s] = done[s]

\* ImportWorker implements AccountGuard; a user whose lock session breaks is no
\* longer a user the lock knows.
Guard == INSTANCE AccountGuard WITH users <- {a \in Actors : Guarded(a)}
GuardSpec == Guard!Spec

\* RunOnce: a run in flight ends and clears the flag, whatever its outcome.
RunEnds == \A s \in Servers : running[s] ~> ~running[s]

\* db.ImportLock: the lock comes free again, also after a kill or a goodbye
\* that never reached Postgres.
LockComesFree == lock # None ~> lock = None

-----------------------------------------------------------------------------
(* What the repository says and the code does not keep.                    *)

\* ImportLock's comment: two processes never use one account at once, also when
\* the session of a lock breaks.
NoSecondImport ==
    \A a, b \in Actors : InAccount(a) /\ InAccount(b) => a = b

\* handleImportRun's comment: a run it answered 202 for is not one the worker
\* skips because of a cooldown.
AcceptedIsNotSkipped ==
    [][\A r \in Runs : Begin(r) /\ ~Busy(r[1]) /\ StandDown(r[1]) => r[2] = Loop]_vars

\* Status's comment: CooldownUntil is zero unless the last run was limited.
CooldownIsOfLastRun ==
    \A s \in Servers : cooldownUntil[s] # 0 => lastErr[s] = "limited"

\* README on /api/import/status: cooldown_until comes with cooldown_seconds, so
\* an answer that says "cooling down" names a time, not Go's zero time.
CooldownReplyNamesATime ==
    [][\A s \in Servers, h \in Handlers :
          StatusAnswer(s, h) /\ Cooling(s) => reply[s][h] # 0]_vars

\* ImportOnce's comment: the lock stops two processes logging into one account.
OneLoginAtATime ==
    \A s \in Servers, c \in Commands : ~(up[s] = "login" /\ cmd[c] = "login")
=============================================================================
