-------------------------- MODULE InstagramClient ---------------------------
(***************************************************************************)
(* instagram.Client (internal/instagram/client.go) in one process: the     *)
(* startup login, and the private-API requests that the one import in      *)
(* flight makes one after the other.  instago cannot be interrupted, so    *)
(* run stops waiting for a call that takes too long and the call goes on   *)
(* by itself, holding the slot; it may end at any later time, or never.    *)
(* Time is kept as ages and a countdown, so that no clock has to be        *)
(* bounded.                                                                *)
(***************************************************************************)
EXTENDS Naturals

CONSTANTS
    RequestTimeout,  \* defaultRequestTimeout, in clock units
    Floor            \* minReloginInterval, in clock units

\* Two minutes and fifteen.
ASSUME ClockAssumption ==
    /\ RequestTimeout \in Nat \ {0} /\ Floor \in Nat
    /\ 2 * RequestTimeout < Floor

VARIABLES
    pc,          \* "new", "idle", "wait" for the slot, or in a "call"
    stage,       \* which call that is
    left,        \* time until its deadline
    slot,        \* Client.slot: is it taken?
    abandoned,   \* abandoned[op]: calls nobody waits for any more
    hasSession,  \* Client.hasSession
    raw,         \* does the instago client hold a session?
    sinceLogin,  \* age of Client.lastLogin; Floor stands for Floor and more
    sinceSent,   \* history: age of the last login that reached instago
    logins,      \* history: logins sent in this do
    requests,    \* history: requests sent in this do
    outcome      \* how the last do ended

calls == <<slot, abandoned>>
vars  == <<pc, stage, left, calls, hasSession, raw, sinceLogin, sinceSent, logins, requests, outcome>>

\* The calls of LoginOrRestore and of do, in order.
Logins   == {"startup", "first", "again"}
Requests == {"request", "retry"}
Op       == IF stage \in Logins THEN "login" ELSE "request"
Waiting  == pc \in {"wait", "call"}

TypeOK ==
    /\ pc \in {"new", "idle", "wait", "call"}
    /\ stage \in Logins \cup Requests
    /\ left \in 0..RequestTimeout
    /\ slot \in BOOLEAN
    /\ abandoned \in [{"login", "request"} -> Nat]
    /\ hasSession \in BOOLEAN
    /\ raw \in BOOLEAN
    /\ sinceLogin \in 0..Floor
    /\ sinceSent \in 0..Floor
    /\ logins \in Nat
    /\ requests \in Nat
    /\ outcome \in {"none", "ok", "limited", "reauth", "failed"}

Init ==
    /\ pc = "new"
    /\ stage = "startup"
    /\ left = 0
    /\ slot = FALSE
    /\ abandoned = [op \in {"login", "request"} |-> 0]
    /\ hasSession = FALSE
    /\ raw = FALSE
    /\ sinceLogin = Floor
    /\ sinceSent = Floor
    /\ logins = 0
    /\ requests = 0
    /\ outcome = "none"

-----------------------------------------------------------------------------
\* run is entered for the call s.
Start(s) == pc' = "wait" /\ stage' = s /\ left' = RequestTimeout /\ UNCHANGED outcome

\* do, or LoginOrRestore, returns.
End(o) == pc' = "idle" /\ outcome' = o /\ UNCHANGED <<stage, left>>

\* Mutant: the attempt leaves no stamp.
Login_Unstamped(s) == Start(s) /\ UNCHANGED sinceLogin

\* login: stamp the attempt, then make it.
Login(s) == Start(s) /\ sinceLogin' = 0

\* Mutant: an attempt as soon as half the floor has passed.
Reauthenticate_Early(s) ==
    IF 2 * sinceLogin < Floor THEN End("reauth") /\ UNCHANGED sinceLogin ELSE Login(s)

\* reauthenticate: below the floor there is no attempt.
Reauthenticate(s) ==
    IF sinceLogin < Floor THEN End("reauth") /\ UNCHANGED sinceLogin ELSE Login(s)

\* LoginOrRestore: the session file, or a login.
LoginOrRestore ==
    /\ pc = "new"
    /\ \/ /\ hasSession' = TRUE /\ raw' = TRUE
          /\ End("none")
          /\ UNCHANGED sinceLogin
       \/ /\ Login("startup")
          /\ UNCHANGED <<hasSession, raw>>
    /\ UNCHANGED <<calls, sinceSent, logins, requests>>

\* do: without a session, log in before the request.
Do ==
    /\ pc = "idle"
    /\ logins' = 0 /\ requests' = 0
    /\ \/ hasSession /\ Start("request") /\ UNCHANGED sinceLogin
       \/ ~hasSession /\ Reauthenticate("first")
    /\ UNCHANGED <<calls, hasSession, raw, sinceSent>>

\* run gets the slot and makes the call.
TakeSlot ==
    /\ pc = "wait"
    /\ ~slot
    /\ pc' = "call"
    /\ slot' = TRUE
    /\ IF Op = "login"
       THEN sinceSent' = 0 /\ logins' = logins + 1 /\ UNCHANGED requests
       ELSE requests' = requests + 1 /\ UNCHANGED <<sinceSent, logins>>
    /\ UNCHANGED <<stage, left, abandoned, hasSession, raw, sinceLogin, outcome>>

\* Mutant: whoever gives up hands the slot back.
Abandon_FreesSlot == abandoned' = [abandoned EXCEPT ![Op] = @ + 1] /\ slot' = FALSE

\* The call goes on without its caller, and keeps the slot.
Abandon == abandoned' = [abandoned EXCEPT ![Op] = @ + 1] /\ UNCHANGED slot

\* run's context is done: it returns without the slot, or without the answer.
\* For login that is a failure like any other.
GiveUp ==
    /\ \/ pc = "wait" /\ UNCHANGED calls
       \/ pc = "call" /\ Abandon
    /\ IF Op = "login"
       THEN hasSession' = FALSE /\ End("reauth")
       ELSE End("failed") /\ UNCHANGED hasSession
    /\ UNCHANGED <<raw, sinceLogin, sinceSent, logins, requests>>

\* Mutant: only the wait for the slot is bounded.
Timeout_OnlyForSlot == pc = "wait" /\ left = 0 /\ GiveUp

\* The deadline.
Timeout == Waiting /\ left = 0 /\ GiveUp

\* The run was cancelled: its context is done before the deadline.
Cancelled == Waiting /\ GiveUp

\* instago's Login and DumpSettings return: did they succeed, and is there a
\* session now?  There is one too when only saving it failed.
LoginReturns ==
    /\ pc = "call" /\ Op = "login"
    /\ slot' = FALSE
    /\ \E ok, held \in BOOLEAN :
          /\ ok => held
          /\ hasSession' = ok
          /\ raw' = (raw \/ held)
          /\ \/ ~ok /\ End("reauth")
             \/ ok /\ stage = "startup" /\ End("none")
             \/ ok /\ stage = "first" /\ Start("request")
             \/ ok /\ stage = "again" /\ Start("retry")
    /\ UNCHANGED <<abandoned, sinceLogin, sinceSent, logins, requests>>

\* The session is refused after a login too: an operator has to look.
Refused == End("reauth")

\* request returns, and do sorts its error.
RequestReturns ==
    /\ pc = "call" /\ Op = "request"
    /\ slot' = FALSE
    /\ \/ \E o \in {"ok", "limited", "failed"} : End(o) /\ UNCHANGED sinceLogin
       \/ End("reauth") /\ UNCHANGED sinceLogin            \* challenge, second factor, password
       \/ stage = "request" /\ Reauthenticate("again")     \* session expired
       \/ stage = "retry" /\ Refused /\ UNCHANGED sinceLogin
    /\ UNCHANGED <<abandoned, hasSession, raw, sinceSent, logins, requests>>

\* An abandoned call ends and hands the slot back; its result goes nowhere.
LateReturn ==
    /\ \E op \in {"login", "request"} :
          /\ abandoned[op] > 0
          /\ abandoned' = [abandoned EXCEPT ![op] = @ - 1]
          /\ raw' \in {raw} \cup (IF op = "login" THEN {TRUE} ELSE {})
    /\ slot' = FALSE
    /\ UNCHANGED <<pc, stage, left, hasSession, sinceLogin, sinceSent, logins, requests, outcome>>

Older(age) == IF age < Floor THEN age + 1 ELSE Floor

\* Time passes; a deadline that has come is acted on first.
Tick ==
    /\ Waiting => left > 0
    /\ left' = IF Waiting THEN left - 1 ELSE left
    /\ sinceLogin' = Older(sinceLogin)
    /\ sinceSent' = Older(sinceSent)
    /\ UNCHANGED <<pc, stage, calls, hasSession, raw, logins, requests, outcome>>

Caller == TakeSlot \/ Timeout \/ LoginReturns \/ RequestReturns

Next == LoginOrRestore \/ Do \/ Caller \/ Cancelled \/ LateReturn \/ Tick

Spec == Init /\ [][Next]_vars

\* Time passes and timers fire.  Nothing makes instago answer.
FairSpec == Spec /\ WF_vars(Tick) /\ WF_vars(Timeout)

-----------------------------------------------------------------------------
(* What is to hold. *)

\* Client.slot: the slot is taken exactly while one call is inside instago, also
\* after its caller gave up, so that an abandoned call never races another one.
OneCallAtATime ==
    (IF pc = "call" THEN 1 ELSE 0) + abandoned["login"] + abandoned["request"]
        = (IF slot THEN 1 ELSE 0)

\* minReloginInterval: two logins that reach instago are a floor apart, less the
\* time the earlier one may have waited for the slot.
LoginsRationed ==
    [][pc = "wait" /\ pc' = "call" /\ Op = "login" => sinceSent >= Floor - RequestTimeout]_vars

\* do: "the retry is deliberately not a loop".  One request of the import costs
\* at most one login and two calls, also when it had to log in first and the
\* new session is refused at once.
BoundedEffort == logins <= 1 /\ requests <= 2

\* run: a call that never returns does not hold its caller.
DoEnds == Waiting ~> pc = "idle"

-----------------------------------------------------------------------------
(* What the repository says and the code does not keep; the findings. *)

\* sessionHeld's comment: it reports whether the client has a session "restored
\* from disk or established by a login".
SessionFlagTrue == pc = "idle" /\ raw => hasSession

\* README: "Login attempts are rationed to one every 15 minutes".
FullFloor ==
    [][pc = "wait" /\ pc' = "call" /\ Op = "login" => sinceSent >= Floor]_vars
=============================================================================
