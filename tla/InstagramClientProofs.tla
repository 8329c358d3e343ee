----------------------- MODULE InstagramClientProofs ------------------------
(* Proofs about InstagramClient, for any deadline and any floor above two of *)
(* them.                                                                     *)
EXTENDS InstagramClient, TLAPS

\* A call in hand was started at most RequestTimeout ago; the ages of the stamp
\* and of the last login sent follow from that.
Ages ==
    /\ Waiting /\ Op = "login" => sinceLogin + left = RequestTimeout
    /\ sinceLogin <= sinceSent + RequestTimeout
    /\ pc = "new" => sinceSent = Floor
    /\ pc = "wait" /\ Op = "login" => sinceSent >= Floor - RequestTimeout

\* What one do has spent so far, by the call it is at.
Spent ==
    /\ pc = "wait" => /\ stage = "first" => logins = 0 /\ requests = 0
                      /\ stage = "again" => logins = 0 /\ requests <= 1
                      /\ stage = "request" => requests = 0
                      /\ stage = "retry" => requests <= 1
                      /\ stage = "startup" => logins = 0 /\ requests = 0
    /\ pc = "call" => /\ stage = "first" => requests = 0
                      /\ stage = "again" => requests <= 1
                      /\ stage = "request" => requests = 1
                      /\ stage \in Logins => logins = 1
    /\ pc = "new" => logins = 0 /\ requests = 0
    /\ Waiting /\ stage = "request" /\ logins > 0 => sinceLogin + left <= 2 * RequestTimeout
    /\ BoundedEffort

ClientInv == TypeOK /\ OneCallAtATime /\ Ages /\ Spent

\* The client starts in the invariant.
LEMMA ClientInit == Init => ClientInv
<1> SUFFICES ASSUME Init PROVE ClientInv
  OBVIOUS
<1> USE ClockAssumption DEF Init, ClientInv
<1>1. TypeOK
  <2>1. abandoned \in [{"login", "request"} -> Nat]
    OBVIOUS
  <2>2. sinceLogin \in 0..Floor /\ sinceSent \in 0..Floor /\ left \in 0..RequestTimeout
    OBVIOUS
  <2> QED
    BY <2>1, <2>2 DEF TypeOK, Logins
<1>2. OneCallAtATime
  BY DEF OneCallAtATime
<1>3. Ages /\ Spent
  BY DEF Ages, Spent, BoundedEffort, Waiting
<1> QED
  BY <1>1, <1>2, <1>3

\* Every step keeps the types.
LEMMA ClientType ==
  ASSUME TypeOK, OneCallAtATime, [Next]_vars
  PROVE  TypeOK'
<1> USE ClockAssumption DEF TypeOK, Start, End, Login, Reauthenticate, Op, Waiting, Logins, Requests, calls
<1>1. CASE LoginOrRestore
  <2>1. hasSession' \in BOOLEAN /\ raw' \in BOOLEAN
    BY <1>1, Zenon DEF LoginOrRestore
  <2>2. slot' \in BOOLEAN /\ abandoned' \in [{"login", "request"} -> Nat]
    BY <1>1 DEF LoginOrRestore
  <2>3. /\ pc' \in {"idle", "wait"} /\ stage' \in Logins \cup Requests /\ outcome' \in {outcome, "none"}
        /\ left' \in 0..RequestTimeout /\ sinceLogin' \in 0..Floor /\ sinceSent' \in 0..Floor
        /\ logins' \in Nat /\ requests' \in Nat
    BY <1>1 DEF LoginOrRestore
  <2> QED
    BY <2>1, <2>2, <2>3
<1>2. CASE Do
  BY <1>2 DEF Do
<1>3. CASE TakeSlot
  <2>1. hasSession' \in BOOLEAN /\ raw' \in BOOLEAN /\ slot' \in BOOLEAN
    BY <1>3, Zenon DEF TakeSlot
  <2>2. abandoned' \in [{"login", "request"} -> Nat]
    BY <1>3 DEF TakeSlot
  <2>3. /\ pc' \in {"call"} /\ stage' \in Logins \cup Requests /\ outcome' = outcome
        /\ left' \in 0..RequestTimeout /\ sinceLogin' \in 0..Floor /\ sinceSent' \in 0..Floor
        /\ logins' \in Nat /\ requests' \in Nat
    BY <1>3 DEF TakeSlot
  <2> QED
    BY <2>1, <2>2, <2>3
<1>4. CASE Timeout \/ Cancelled
  <2>1. GiveUp
    BY <1>4 DEF Timeout, Cancelled
  <2>2. hasSession' \in BOOLEAN /\ raw' \in BOOLEAN /\ slot' \in BOOLEAN
    BY <2>1, Zenon DEF GiveUp, Abandon
  <2>3. abandoned' \in [{"login", "request"} -> Nat]
    BY <2>1 DEF GiveUp, Abandon
  <2>4. /\ pc' = "idle" /\ stage' = stage /\ outcome' \in {"reauth", "failed"}
        /\ left' = left /\ sinceLogin' = sinceLogin /\ sinceSent' = sinceSent
        /\ logins' = logins /\ requests' = requests
    BY <2>1 DEF GiveUp
  <2> QED
    BY <2>2, <2>3, <2>4
<1>5. CASE LoginReturns
  <2>1. hasSession' \in BOOLEAN /\ raw' \in BOOLEAN /\ slot' \in BOOLEAN
    BY <1>5, Zenon DEF LoginReturns
  <2>2. abandoned' \in [{"login", "request"} -> Nat]
    BY <1>5 DEF LoginReturns
  <2>3. /\ pc' \in {"idle", "wait"} /\ stage' \in Logins \cup Requests
        /\ outcome' \in {outcome, "none", "reauth"} /\ left' \in 0..RequestTimeout
    BY <1>5 DEF LoginReturns
  <2>4. UNCHANGED <<sinceLogin, sinceSent, logins, requests>>
    BY <1>5 DEF LoginReturns
  <2> QED
    BY <2>1, <2>2, <2>3, <2>4
<1>6. CASE RequestReturns
  <2>1. hasSession' \in BOOLEAN /\ raw' \in BOOLEAN /\ slot' \in BOOLEAN
    BY <1>6, Zenon DEF RequestReturns
  <2>2. abandoned' \in [{"login", "request"} -> Nat]
    BY <1>6 DEF RequestReturns
  <2>3. /\ pc' \in {"idle", "wait"} /\ stage' \in Logins \cup Requests
        /\ outcome' \in {outcome, "ok", "limited", "failed", "reauth"} /\ left' \in 0..RequestTimeout
        /\ sinceLogin' \in 0..Floor
    BY <1>6 DEF RequestReturns, Refused
  <2>4. UNCHANGED <<sinceSent, logins, requests>>
    BY <1>6 DEF RequestReturns
  <2> QED
    BY <2>1, <2>2, <2>3, <2>4
<1>7. CASE LateReturn
  <2>1. slot' \in BOOLEAN /\ hasSession' \in BOOLEAN
    BY <1>7, Zenon DEF LateReturn
  <2>2. raw' \in BOOLEAN
    BY <1>7 DEF LateReturn
  <2>3. abandoned' \in [{"login", "request"} -> Nat]
    BY <1>7 DEF LateReturn
  <2>4. UNCHANGED <<pc, stage, left, sinceLogin, sinceSent, logins, requests, outcome>>
    BY <1>7 DEF LateReturn
  <2> QED
    BY <2>1, <2>2, <2>3, <2>4
<1>8. CASE Tick
  BY <1>8 DEF Tick, Older
<1>9. CASE UNCHANGED vars
  BY <1>9 DEF vars
<1> QED
  BY <1>1, <1>2, <1>3, <1>4, <1>5, <1>6, <1>7, <1>8, <1>9 DEF Next, Caller

\* Every step keeps the slot with the call.
LEMMA SlotStep ==
  ASSUME TypeOK, OneCallAtATime, [Next]_vars
  PROVE  OneCallAtATime'
<1> USE ClockAssumption DEF TypeOK, OneCallAtATime, Start, End, Login, Reauthenticate, Op, Waiting,
                            Logins, Requests, calls
<1>1. CASE LoginOrRestore
  <2>1. CASE Start("startup") /\ sinceLogin' = 0
    BY <1>1, <2>1 DEF LoginOrRestore
  <2>2. CASE End("none")
    BY <1>1, <2>2 DEF LoginOrRestore
  <2> QED
    BY <1>1, <2>1, <2>2 DEF LoginOrRestore
<1>2. CASE Do
  BY <1>2 DEF Do
<1>3. CASE TakeSlot
  BY <1>3 DEF TakeSlot
<1>4. CASE Timeout \/ Cancelled
  <2>1. GiveUp /\ pc' = "idle"
    BY <1>4 DEF Timeout, Cancelled, GiveUp
  <2>2. CASE pc = "wait" /\ UNCHANGED calls
    BY <2>1, <2>2
  <2>3. CASE pc = "call" /\ Abandon
    <3>1. CASE Op = "login"
      BY <2>1, <2>3, <3>1 DEF Abandon
    <3>2. CASE Op = "request"
      BY <2>1, <2>3, <3>2 DEF Abandon
    <3> QED
      BY <3>1, <3>2
  <2> QED
    BY <2>1, <2>2, <2>3 DEF GiveUp
<1>5. CASE LoginReturns
  BY <1>5 DEF LoginReturns
<1>6. CASE RequestReturns
  BY <1>6 DEF RequestReturns, Refused
<1>7. CASE LateReturn
  BY <1>7 DEF LateReturn
<1>8. CASE Tick
  BY <1>8 DEF Tick, Older
<1>9. CASE UNCHANGED vars
  BY <1>9 DEF vars
<1> QED
  BY <1>1, <1>2, <1>3, <1>4, <1>5, <1>6, <1>7, <1>8, <1>9 DEF Next, Caller

\* Every step keeps the ages.
LEMMA AgeStep ==
  ASSUME ClientInv, [Next]_vars
  PROVE  Ages'
<1> USE ClockAssumption DEF ClientInv, TypeOK, Ages, Start, End, Login, Reauthenticate, Op, Waiting,
                            Logins, Requests, calls
<1>1. CASE LoginOrRestore
  <2>1. CASE Start("startup") /\ sinceLogin' = 0
    BY <1>1, <2>1 DEF LoginOrRestore
  <2>2. CASE End("none")
    BY <1>1, <2>2 DEF LoginOrRestore
  <2> QED
    BY <1>1, <2>1, <2>2 DEF LoginOrRestore
<1>2. CASE Do
  BY <1>2 DEF Do
<1>3. CASE TakeSlot
  BY <1>3 DEF TakeSlot
<1>4. CASE Timeout \/ Cancelled
  BY <1>4 DEF Timeout, Cancelled, GiveUp, Abandon
<1>5. CASE LoginReturns
  BY <1>5 DEF LoginReturns
<1>6. CASE RequestReturns
  BY <1>6 DEF RequestReturns, Refused
<1>7. CASE LateReturn
  BY <1>7 DEF LateReturn
<1>8. CASE Tick
  BY <1>8 DEF Tick, Older
<1>9. CASE UNCHANGED vars
  BY <1>9 DEF vars
<1> QED
  BY <1>1, <1>2, <1>3, <1>4, <1>5, <1>6, <1>7, <1>8, <1>9 DEF Next, Caller

\* Every step stays within the effort of one do.
LEMMA SpentStep ==
  ASSUME ClientInv, [Next]_vars
  PROVE  Spent'
<1> USE ClockAssumption DEF ClientInv, TypeOK, Ages, Spent, BoundedEffort, Start, End, Login, Reauthenticate,
                            Op, Waiting, Logins, Requests, calls
<1>1. CASE LoginOrRestore
  <2>1. CASE Start("startup") /\ sinceLogin' = 0
    BY <1>1, <2>1 DEF LoginOrRestore
  <2>2. CASE End("none")
    BY <1>1, <2>2 DEF LoginOrRestore
  <2> QED
    BY <1>1, <2>1, <2>2 DEF LoginOrRestore
<1>2. CASE Do
  BY <1>2 DEF Do
<1>3. CASE TakeSlot
  BY <1>3 DEF TakeSlot
<1>4. CASE Timeout \/ Cancelled
  BY <1>4 DEF Timeout, Cancelled, GiveUp, Abandon
<1>5. CASE LoginReturns
  BY <1>5 DEF LoginReturns
<1>6. CASE RequestReturns
  BY <1>6 DEF RequestReturns, Refused
<1>7. CASE LateReturn
  BY <1>7 DEF LateReturn
<1>8. CASE Tick
  BY <1>8 DEF Tick, Older
<1>9. CASE UNCHANGED vars
  BY <1>9 DEF vars
<1> QED
  BY <1>1, <1>2, <1>3, <1>4, <1>5, <1>6, <1>7, <1>8, <1>9 DEF Next, Caller

\* Every step keeps the invariant.
LEMMA ClientStep == ClientInv /\ [Next]_vars => ClientInv'
  BY ClientType, SlotStep, AgeStep, SpentStep DEF ClientInv

\* The types, the slot, the ages and the effort hold in every reachable state.
LEMMA ClientInvariant == Spec => []ClientInv
<1>1. Init => ClientInv
  BY ClientInit
<1>2. ClientInv /\ [Next]_vars => ClientInv'
  BY ClientStep
<1> QED
  BY <1>1, <1>2, PTL DEF Spec

\* Every variable keeps its type.
THEOREM ClientTypeCorrect == Spec => []TypeOK
<1>1. ClientInv => TypeOK
  BY DEF ClientInv
<1> QED
  BY <1>1, ClientInvariant, PTL

\* Client.run: at most one call is inside instago, abandoned ones included.
THEOREM SlotCorrect == Spec => []OneCallAtATime
<1>1. ClientInv => OneCallAtATime
  BY DEF ClientInv
<1> QED
  BY <1>1, ClientInvariant, PTL

\* Client.do: one request costs at most one login and two calls.
THEOREM EffortCorrect == Spec => []BoundedEffort
<1>1. ClientInv => BoundedEffort
  BY DEF ClientInv, Spent
<1> QED
  BY <1>1, ClientInvariant, PTL

\* Client.reauthenticate: logins that reach instago keep their distance.
THEOREM RationingCorrect == Spec => LoginsRationed
<1>1. ClientInv /\ [Next]_vars
        => [pc = "wait" /\ pc' = "call" /\ Op = "login" => sinceSent >= Floor - RequestTimeout]_vars
  BY DEF ClientInv, Ages
<1> QED
  BY <1>1, ClientInvariant, PTL DEF Spec, LoginsRationed

-----------------------------------------------------------------------------
(* That a do ends (DoEnds) is left to TLC; how long it can take is proved    *)
(* here.                                                                     *)

\* The calls that may still follow the one a do is at: after a login of its own
\* the floor keeps it from a second one.
CallsAhead ==
    CASE stage = "first" -> 1
      [] stage = "request" /\ logins = 0 -> 2
      [] stage = "again" -> 1
      [] OTHER -> 0

\* The time a do, or the startup login, can still take.
TimeLeft == IF Waiting THEN left + CallsAhead * RequestTimeout ELSE 0

\* A do that is refused the session right after its own login does not log in again.
LEMMA NoSecondLogin ==
    ASSUME ClientInv, Waiting, stage = "request", logins > 0
    PROVE  sinceLogin < Floor
  BY ClockAssumption DEF ClientInv, Spent, TypeOK

\* What is left only falls while the caller waits, by one with every tick.
LEMMA TimeFalls ==
    ASSUME ClientInv, ClientInv', Waiting, Next
    PROVE  TimeLeft' <= TimeLeft /\ (Tick => TimeLeft' = TimeLeft - 1)
<1> USE ClockAssumption
<1> DEFINE t == RequestTimeout
<1>0. /\ stage \in Logins \cup Requests /\ left \in 0..t /\ logins \in 0..1 /\ t \in Nat \ {0}
      /\ pc # "new" /\ pc # "idle" /\ CallsAhead \in 0..2
  BY DEF ClientInv, TypeOK, Spent, BoundedEffort, Waiting, CallsAhead
<1>1. TimeLeft = left + CallsAhead * t /\ TimeLeft \in Nat
  BY <1>0 DEF TimeLeft
<1>2. CASE pc' = "idle"
  <2>1. TimeLeft' = 0 /\ ~Tick
    BY <1>2, <1>0 DEF TimeLeft, Waiting, Tick
  <2> QED
    BY <1>1, <2>1
<1>3. CASE Tick
  <2>1. UNCHANGED <<pc, stage, logins>> /\ left' = left - 1 /\ Waiting'
    BY <1>3 DEF Tick, Waiting
  <2>2. TimeLeft' = left - 1 + CallsAhead * t
    BY <2>1 DEF TimeLeft, CallsAhead
  <2> QED
    BY <1>0, <1>1, <2>2
<1>4. CASE TakeSlot
  <2>1. /\ UNCHANGED <<stage, left>> /\ Waiting' /\ ~Tick
        /\ logins' = logins \/ stage \in Logins
    BY <1>4, <1>0 DEF TakeSlot, Op, Waiting, Tick
  <2>2. CallsAhead' = CallsAhead
    BY <2>1, <1>0 DEF CallsAhead, Logins
  <2>3. TimeLeft' = left + CallsAhead * t
    BY <2>1, <2>2 DEF TimeLeft
  <2> QED
    BY <1>1, <2>1, <2>3
<1>5. CASE LoginReturns /\ pc' # "idle"
  <2>1. ~Tick /\ logins' = logins
    BY <1>5, <1>0 DEF LoginReturns, Start, End, Tick
  <2>2. CASE stage = "first" /\ Start("request")
    <3>1. logins = 1 /\ CallsAhead = 1
      BY <1>5, <2>2 DEF ClientInv, Spent, LoginReturns, Logins, CallsAhead
    <3>2. stage' = "request" /\ left' = t /\ Waiting'
      BY <2>2 DEF Start, Waiting
    <3>3. CallsAhead' = 0
      BY <2>1, <3>1, <3>2 DEF CallsAhead
    <3>4. TimeLeft' = t
      BY <1>0, <3>2, <3>3 DEF TimeLeft
    <3> QED
      BY <1>0, <1>1, <2>1, <3>1, <3>4
  <2>3. CASE stage = "again" /\ Start("retry")
    <3>1. stage' = "retry" /\ left' = t /\ Waiting'
      BY <2>3 DEF Start, Waiting
    <3>2. CallsAhead' = 0 /\ CallsAhead = 1
      BY <2>3, <3>1 DEF CallsAhead
    <3>3. TimeLeft' = t
      BY <1>0, <3>1, <3>2 DEF TimeLeft
    <3> QED
      BY <1>0, <1>1, <2>1, <3>2, <3>3
  <2> QED
    BY <1>5, <2>2, <2>3 DEF LoginReturns, End
<1>6. CASE RequestReturns /\ pc' # "idle"
  <2>1. /\ ~Tick /\ logins' = logins /\ stage = "request" /\ sinceLogin >= Floor
        /\ stage' = "again" /\ left' = t /\ Waiting'
    BY <1>0, <1>6 DEF RequestReturns, Refused, Reauthenticate, Login, Start, End, Tick, Waiting,
                      ClientInv, TypeOK
  <2>2. logins = 0
    BY <1>0, <2>1, NoSecondLogin DEF ClientInv, TypeOK
  <2>3. CallsAhead = 2 /\ CallsAhead' = 1
    BY <2>1, <2>2 DEF CallsAhead
  <2>4. TimeLeft' = t + t
    BY <1>0, <2>1, <2>3 DEF TimeLeft
  <2> QED
    BY <1>0, <1>1, <2>1, <2>3, <2>4
<1>7. CASE LateReturn
  <2>1. UNCHANGED <<pc, stage, left, logins>> /\ ~Tick
    BY <1>7, <1>0 DEF LateReturn, Tick
  <2>2. TimeLeft' = TimeLeft
    BY <2>1 DEF TimeLeft, CallsAhead, Waiting
  <2> QED
    BY <1>1, <2>1, <2>2
<1>8. Timeout \/ Cancelled => pc' = "idle"
  BY DEF Timeout, Cancelled, GiveUp, End
<1> QED
  BY <1>0, <1>2, <1>3, <1>4, <1>5, <1>6, <1>7, <1>8 DEF Next, Caller, LoginOrRestore, Do

\* Client.run's deadline and do's retry without a loop, together: the caller of a
\* do is back after at most three request timeouts, whatever instago does and
\* however many abandoned calls hold the slot.  What is left of them starts at no
\* more than that, a tick takes one unit of it, no other step adds any,
\* and once it has come to nothing time does not pass before the do has ended.
THEOREM TimeBounded ==
    Spec => /\ []/\ TimeLeft \in 0..(3 * RequestTimeout)
                 /\ Waiting /\ TimeLeft = 0 => left = 0
            /\ [][Waiting => /\ TimeLeft' <= TimeLeft
                             /\ Tick => TimeLeft' = TimeLeft - 1 /\ TimeLeft > 0]_vars
<1>1. ASSUME ClientInv
      PROVE  TimeLeft \in 0..(3 * RequestTimeout) /\ (Waiting /\ TimeLeft = 0 => left = 0)
  <2>1. /\ left \in 0..RequestTimeout /\ RequestTimeout \in Nat /\ CallsAhead \in 0..2
    BY <1>1, ClockAssumption DEF ClientInv, TypeOK, CallsAhead
  <2>2. CallsAhead * RequestTimeout \in 0..(2 * RequestTimeout)
    <3>1. CallsAhead \in {0, 1, 2}
      BY <2>1
    <3> QED
      BY <2>1, <3>1
  <2> QED
    BY <2>1, <2>2 DEF TimeLeft
<1>2. ASSUME ClientInv, ClientInv', [Next]_vars
      PROVE  [Waiting => /\ TimeLeft' <= TimeLeft
                         /\ Tick => TimeLeft' = TimeLeft - 1 /\ TimeLeft > 0]_vars
  <2>1. SUFFICES ASSUME Next, Waiting
                 PROVE  /\ TimeLeft' <= TimeLeft
                        /\ Tick => TimeLeft' = TimeLeft - 1 /\ TimeLeft > 0
    BY <1>2
  <2>2. TimeLeft \in Nat /\ (TimeLeft = 0 => left = 0)
    BY <1>1, <1>2, <2>1
  <2>3. Tick => left > 0
    BY <2>1 DEF Tick
  <2> QED
    BY <1>2, <2>1, <2>2, <2>3, TimeFalls
<1>3. Spec => []ClientInv
  BY ClientInvariant
<1> QED
  BY <1>1, <1>2, <1>3, PTL DEF Spec
=============================================================================
