----------------------------- MODULE ImportPage ------------------------------
(***************************************************************************)
(* The import page (web/src/pages/import.ts) over the status endpoint: one *)
(* page as it is opened, left and clicked, its poll timer, and its requests *)
(* in flight, which the server answers and the browser receives in any      *)
(* order.  Of the server there is what a status reply is made of: the      *)
(* worker's flag, its last error (internal/pipeline/failure.go) and its    *)
(* cooldown.  The worker's own critical sections are in ImportWorker.      *)
(***************************************************************************)
EXTENDS Naturals

CONSTANTS
    Requests,   \* requests of the page that may be in flight at once
    MaxPending  \* bound: triggered goroutines that have not reached RunOnce

ASSUME PendingAssumption == MaxPending \in Nat \ {0}

VARIABLES
    running,   \* Worker.running
    err,       \* Worker.lastErr: the sentinels in its chain; {} is nil
    cooling,   \* is the cooldown on?
    pending,   \* goroutines Trigger has started and RunOnce not yet seen
    stopping,  \* has the process been told to stop?
    req,       \* req[r]: what request r is for, and its answer if it has one
    connected, \* statusEl.isConnected: is the page in view?
    timer,     \* is the page's variable `timer` set?
    live,      \* intervals the browser is running for the page
    disabled   \* is the trigger button disabled?

server     == <<running, err, cooling, pending, stopping>>
pageVars   == <<connected, timer, live, disabled>>
importVars == <<server, req, pageVars>>

\* The errors a run or a startup login leaves.  A fetch failure wraps what the
\* client reports; a call that missed its deadline has "deadline" in its chain,
\* and so has a login that did.
StartupErrors == {{}, {"login"}, {"login", "deadline"}}
RunErrors ==
    {{}, {"other"}, {"cancelled"}}
        \cup {{"fetch"} \cup cause : cause \in
                {{}, {"limited"}, {"drift"}, {"reauth"}, {"reauth", "deadline"}, {"deadline"}, {"cancelled"}}}

Kinds   == {"trigger", "poll", "tick"}
Answers == {"none", "accepted", "running", "idle", "error"}
Free    == [kind |-> "none", answer |-> "none"]
Sent(kind) == [kind |-> kind, answer |-> "none"]

ImportTypeOK ==
    /\ running \in BOOLEAN /\ cooling \in BOOLEAN /\ stopping \in BOOLEAN
    /\ err \in StartupErrors \cup RunErrors
    /\ pending \in 0..MaxPending
    /\ req \in [Requests -> [kind : Kinds, answer : Answers] \cup {Free}]
    /\ connected \in BOOLEAN /\ timer \in BOOLEAN /\ disabled \in BOOLEAN
    /\ live \in Nat

\* The page opens, and asks for the status at once.
ImportInit ==
    /\ running = FALSE /\ cooling = FALSE /\ stopping = FALSE
    /\ err \in StartupErrors
    /\ pending = 0
    /\ \E r \in Requests : req = [q \in Requests |-> IF q = r THEN Sent("poll") ELSE Free]
    /\ connected = TRUE /\ timer = FALSE /\ live = 0 /\ disabled = FALSE

-----------------------------------------------------------------------------
(* The server.                                                             *)

\* Mutant: the wrapper is looked at before its cause.
Classify_WrapperFirst(e) ==
    CASE e = {} -> ""
      [] "fetch" \in e -> "fetch_failed"
      [] "fetch" \notin e /\ "limited" \in e -> "rate_limited"
      [] OTHER -> "import_failed"

\* The code the status reports for an error: the first case that matches.
Classify(e) ==
    LET Cases == << <<{}, "">>, <<{"limited"}, "rate_limited">>, <<{"reauth", "login"}, "instagram_auth">>,
                    <<{"drift"}, "instagram_schema_drift">>,
                    <<{"cancelled", "deadline"}, "cancelled">>, <<{"fetch"}, "fetch_failed">> >>
        Hit == {k \in DOMAIN Cases : Cases[k][1] \cap e # {}}
    IN  IF e = {} THEN ""
        ELSE IF Hit = {} THEN "import_failed"
        ELSE Cases[CHOOSE k \in Hit : \A j \in Hit : k <= j][2]

\* RunOnce skips a call while a run is in flight or a rate limit is waited out.
Skips == running \/ cooling

\* RunOnce, from the schedule or from a triggered goroutine.
RunBegins ==
    /\ pending' \in {pending} \cup (IF pending > 0 THEN {pending - 1} ELSE {})
    /\ Skips => pending' # pending
    /\ running' = (running \/ ~Skips)
    /\ UNCHANGED <<err, cooling, stopping, req, pageVars>>

\* The run's outcome is recorded; a run is cancelled only when the process is.
RunEnds ==
    /\ running
    /\ running' = FALSE
    /\ \/ UNCHANGED <<err, cooling>>  \* another process has the import lock
       \/ /\ err' \in RunErrors
          /\ "cancelled" \in err' => stopping
          /\ cooling' = (cooling \/ "limited" \in err')
    /\ UNCHANGED <<pending, stopping, req, pageVars>>

CooldownEnds ==
    /\ cooling
    /\ cooling' = FALSE
    /\ UNCHANGED <<running, err, pending, stopping, req, pageVars>>

Stop ==
    /\ ~stopping
    /\ stopping' = TRUE
    /\ UNCHANGED <<running, err, cooling, pending, req, pageVars>>

Reply(r, answer) == req' = [req EXCEPT ![r].answer = answer]

IsAsked(r, kinds) == req[r].kind \in kinds /\ req[r].answer = "none"

\* handleImportRun: refused while cooling; the answer may not arrive.
ServeTrigger(r) ==
    /\ IsAsked(r, {"trigger"})
    /\ \/ Reply(r, "error") /\ UNCHANGED pending
       \/ /\ ~cooling
          /\ pending < MaxPending
          /\ pending' = pending + 1
          /\ \E answer \in {"accepted", "error"} : Reply(r, answer)
    /\ UNCHANGED <<running, err, cooling, stopping, pageVars>>

\* handleImportStatus; any request may fail on the way.
ServeStatus(r) ==
    /\ IsAsked(r, {"poll", "tick"})
    /\ \E answer \in {IF running THEN "running" ELSE "idle", "error"} : Reply(r, answer)
    /\ UNCHANGED <<server, pageVars>>

-----------------------------------------------------------------------------
(* The page.                                                               *)

SendRequest(r, kind) == req[r] = Free /\ req' = [req EXCEPT ![r] = Sent(kind)]

\* startImport.
Click ==
    /\ connected /\ ~disabled
    /\ \E r \in Requests : SendRequest(r, "trigger")
    /\ disabled' = TRUE
    /\ UNCHANGED <<server, connected, timer, live>>

\* The router puts another page in this one's place.
Leave ==
    /\ connected
    /\ connected' = FALSE
    /\ UNCHANGED <<server, req, timer, live, disabled>>

StopPolling ==
    /\ timer' = FALSE
    /\ live' = IF timer THEN live - 1 ELSE live

\* Mutant: a page that was left goes on polling.
IntervalFires_Unseen ==
    /\ live > 0
    /\ \E r \in Requests : SendRequest(r, "tick")
    /\ UNCHANGED <<server, pageVars>>

\* tick, up to its await.
IntervalFires ==
    /\ live > 0
    /\ \/ connected /\ (\E r \in Requests : SendRequest(r, "tick")) /\ UNCHANGED <<timer, live>>
       \/ ~connected /\ StopPolling /\ UNCHANGED req
    /\ UNCHANGED <<server, connected, disabled>>

Done(r) == req' = [req EXCEPT ![r] = Free]

\* renderStatus and renderError: what they do to the button.
Render(answer) == disabled' = (disabled /\ answer = "running")

\* Mutant: the answer to a trigger that failed is not caught.
ReceiveTrigger_Uncaught(r) ==
    /\ req[r].kind = "trigger"
    /\ \/ req[r].answer = "accepted" /\ req' = [req EXCEPT ![r] = Sent("poll")]
       \/ req[r].answer = "error" /\ Done(r)
    /\ UNCHANGED <<server, pageVars>>

\* startImport after its await: an accepted trigger goes on with poll.
ReceiveTrigger(r) ==
    /\ req[r].kind = "trigger"
    /\ \/ /\ req[r].answer = "accepted"
          /\ req' = [req EXCEPT ![r] = Sent("poll")]
          /\ UNCHANGED disabled
       \/ req[r].answer = "error" /\ Done(r) /\ Render("error")
    /\ UNCHANGED <<server, connected, timer, live>>

\* poll: an interval, unless there is one.
StartPolling ==
    /\ timer' = TRUE
    /\ live' = IF timer THEN live ELSE live + 1

ReceivePoll(r) ==
    /\ req[r].kind = "poll" /\ req[r].answer # "none"
    /\ Done(r)
    /\ Render(req[r].answer)
    /\ \/ req[r].answer = "running" /\ StartPolling
       \/ req[r].answer = "error" /\ StopPolling
       \/ req[r].answer = "idle" /\ UNCHANGED <<timer, live>>
    /\ UNCHANGED <<server, connected>>

\* Mutant: the interval is stopped without the button being given back.
ReceiveTick_KeepsButton(r) ==
    /\ req[r].kind = "tick" /\ req[r].answer # "none"
    /\ Done(r)
    /\ IF req[r].answer = "running" THEN UNCHANGED <<timer, live>> ELSE StopPolling
    /\ UNCHANGED <<server, connected, disabled>>

\* tick after its await.
ReceiveTick(r) ==
    /\ req[r].kind = "tick" /\ req[r].answer # "none"
    /\ Done(r)
    /\ Render(req[r].answer)
    /\ IF req[r].answer = "running" THEN UNCHANGED <<timer, live>> ELSE StopPolling
    /\ UNCHANGED <<server, connected>>

-----------------------------------------------------------------------------
ServeRequest(r) == ServeTrigger(r) \/ ServeStatus(r)
ReceiveReply(r) == ReceiveTrigger(r) \/ ReceivePoll(r) \/ ReceiveTick(r)

ImportNext ==
    \/ RunBegins \/ RunEnds \/ CooldownEnds \/ Stop
    \/ Click \/ Leave \/ IntervalFires
    \/ \E r \in Requests : ServeRequest(r) \/ ReceiveReply(r)

ImportSpec == ImportInit /\ [][ImportNext]_importVars

\* Requests end, in an answer or an error, and the browser runs its timers and
\* handlers.  Nothing is assumed of the runs.
ImportFairSpec ==
    /\ ImportSpec
    /\ WF_importVars(IntervalFires)
    /\ \A r \in Requests : WF_importVars(ServeRequest(r)) /\ WF_importVars(ReceiveReply(r))

-----------------------------------------------------------------------------
(* What is to hold.                                                        *)

\* "A button stuck disabled": while the button is disabled on a page in view,
\* something is under way that can give it back, in whatever order replies
\* arrive.
NeverStuck ==
    connected /\ disabled =>
        live > 0 \/ \E r \in Requests : req[r].kind \in {"trigger", "poll"}

\* No interval runs that the page has lost hold of, however its polls overlap.
OneInterval == live = IF timer THEN 1 ELSE 0

\* failure_test.go: the cooldown the page shows is explained by the code beside
\* it - while the worker stands down, the status says rate_limited.
CooldownIsExplained == cooling => Classify(err) = "rate_limited"

\* "The status poller leaked": a page that is not in view stops polling.
PollerStops == [](~connected => <>[](live = 0))

\* When no run is in flight any more, the button comes back.
ButtonComesBack == <>[](~running) => [](disabled => <>(~disabled \/ ~connected))

\* FailureCancelled's comment: the status says "cancelled" only of a run that
\* was stopped.
CancelledMeansStopped == Classify(err) = "cancelled" => stopping
=============================================================================
