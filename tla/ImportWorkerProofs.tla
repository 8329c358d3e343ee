------------------------- MODULE ImportWorkerProofs -------------------------
(* Proofs about ImportWorker, for any servers, commands and goroutines. *)
EXTENDS ImportWorker, TLAPS

\* A run is a server and one of its goroutines.
LEMMA RunParts ==
    ASSUME NEW r \in Runs
    PROVE  r[1] \in Servers /\ r[2] \in Gor /\ r = <<r[1], r[2]>>
  BY DEF Runs

\* A goroutine of a server is one of its runs.
LEMMA RunOf ==
    ASSUME NEW s \in Servers, NEW g \in Gor
    PROVE  <<s, g>> \in Runs /\ <<s, g>>[1] = s /\ <<s, g>>[2] = g
  BY DEF Runs

-----------------------------------------------------------------------------
(* The inductive invariant.  TypeOK alone is not one: Record copies res[r]   *)
(* into lastErr, so what a run carries between the pipeline's return and    *)
(* the record has to be known.                                              *)

\* A pipeline that has returned carries the error of the run that finished last.
Carried ==
    \A r \in Runs : pc[r] \in {"release", "record"} =>
        res[r] \in Outcomes /\ res[r] = done[r[1]]

\* Until then, and after a refusal, the record is that of the last run.
RecordFresh ==
    \A r \in Runs : pc[r] \in {"acquire", "work", "refused"} => lastErr[r[1]] = done[r[1]]

\* No part of a run overlaps a cooldown of its own worker.
Calm == \A r \in Runs : pc[r] \in InRun => ~Cooling(r[1])

\* Only a serving process has runs and requests: RecordFailure, which is called
\* before Start, cannot come between a run and its record.
Quiet ==
    \A s \in Servers : up[s] # "serving" =>
        /\ \A r \in Runs : r[1] = s => pc[r] = "idle"
        /\ \A h \in Handlers : req[s][h] = "idle"

WorkerInv ==
    TypeOK /\ Quiet /\ SingleFlight /\ Carried /\ RecordFresh /\ StatusIsLastRun /\ Calm

\* Every step keeps the types.
LEMMA TypeStep ==
    ASSUME TypeOK, Carried, [Next]_vars PROVE TypeOK'
<1> USE DEF TypeOK, Outcomes, Errors, PCs, Actors, locks
<1> USE ActorAssumption, TimeAssumption
<1>1. CASE OrphanEnds
  BY <1>1 DEF OrphanEnds, worker, http
<1>2. CASE SessionLost
  BY <1>2 DEF SessionLost, worker, http
<1>3. CASE ClockTicks
  BY <1>3 DEF ClockTicks, worker, http
<1>4. ASSUME NEW r \in Runs, RunStep(r) PROVE TypeOK'
  <2> r[1] \in Servers
    BY RunParts
  <2>1. CASE Begin(r)
    <3>1. running' \in [Servers -> BOOLEAN]
      BY <2>1 DEF Begin, Busy, StandDown
    <3>2. pc' \in [Runs -> PCs] /\ res' \in [Runs -> Outcomes \cup {"none"}]
      <4>1. \E step \in PCs : GoTo(r, step, "none")
        BY <2>1 DEF Begin
      <4> QED
        BY <4>1 DEF GoTo
    <3> QED
      BY <2>1, <3>1, <3>2 DEF Begin, Busy, StandDown, http
  <2>2. CASE Acquire(r)
    <3>1. /\ lock' \in Actors \cup {None, Orphan} /\ lost' = lost
          /\ done' \in [Servers -> Errors]
      BY <2>2 DEF Acquire, TakeLock, LockUnreachable
    <3>2. pc' \in [Runs -> PCs] /\ res' \in [Runs -> Outcomes \cup {"none"}]
      <4>1. \E step \in PCs, o \in Outcomes \cup {"none"} : GoTo(r, step, o)
        BY <2>2 DEF Acquire
      <4> QED
        BY <4>1 DEF GoTo
    <3> QED
      BY <2>2, <3>1, <3>2 DEF Acquire, worker, http
  <2>3. CASE Work(r)
    BY <2>3 DEF Work, GoTo, worker, http
  <2>4. CASE Release(r)
    BY <2>4 DEF Release, GoTo, ReleaseLock, worker, http
  <2>5. CASE Refused(r)
    BY <2>5 DEF Refused, GoTo, http
  <2>6. CASE Record(r)
    BY <2>6 DEF Record, GoTo, http, Carried
  <2> QED
    BY <1>4, <2>1, <2>2, <2>3, <2>4, <2>5, <2>6 DEF RunStep
<1>5. ASSUME NEW c \in Commands, CommandStep(c) \/ CommandStart(c) \/ CommandDies(c)
      PROVE  TypeOK'
  BY <1>5 DEF CommandStep, CommandAcquire, CommandLogin, CommandWork, CommandRelease,
              CommandStart, CommandDies, TakeLock, LockUnreachable, ReleaseLock, worker, http
<1>6. ASSUME NEW s \in Servers, TickerFires(s) PROVE TypeOK'
  <2> <<s, Loop>> \in Runs
    BY RunOf
  <2> QED
    BY <1>6 DEF TickerFires, GoTo, worker, http
<1>7. ASSUME NEW s \in Servers, ServerStart(s) \/ ServerReady(s) PROVE TypeOK'
  <2>1. CASE ServerStart(s)
    BY <2>1 DEF ServerStart, worker, http
  <2>2. CASE ServerReady(s)
    BY <2>2 DEF ServerReady, http
  <2> QED
    BY <1>7, <2>1, <2>2
<1>8. ASSUME NEW s \in Servers, ServerDies(s) PROVE TypeOK'
  BY <1>8 DEF ServerDies
<1>9. ASSUME NEW s \in Servers, NEW h \in Handlers, RequestStep(s, h) PROVE TypeOK'
  <2>1. CASE RunCheck(s, h)
    BY <2>1 DEF RunCheck, worker
  <2>2. CASE RunTrigger(s, h)
    BY <2>2, RunOf DEF RunTrigger, GoTo, worker
  <2>3. CASE StatusRead(s, h)
    BY <2>3 DEF StatusRead, worker
  <2>4. CASE StatusAnswer(s, h)
    BY <2>4 DEF StatusAnswer, Cooling, worker
  <2> QED
    BY <1>9, <2>1, <2>2, <2>3, <2>4 DEF RequestStep
<1>10. CASE UNCHANGED vars
  BY <1>10 DEF vars, worker, http
<1> QED
  BY <1>1, <1>2, <1>3, <1>4, <1>5, <1>6, <1>7, <1>8, <1>9, <1>10 DEF Next

\* The three facts that speak of one server's goroutines survive a step that
\* leaves what they are about alone.
LEMMA WorkerFrame ==
    ASSUME WorkerInv, UNCHANGED <<running, lastErr, pc, res, done>>,
           UNCHANGED <<now, cooldownUntil>>
    PROVE  (SingleFlight /\ Carried /\ RecordFresh /\ StatusIsLastRun /\ Calm)'
  BY DEF WorkerInv, SingleFlight, Carried, RecordFresh, StatusIsLastRun, Calm, Cooling

\* A goroutine that starts a call of RunOnce is not in a run yet.
LEMMA SpawnFrame ==
    ASSUME WorkerInv, NEW r \in Runs, pc[r] = "idle", GoTo(r, "begin", "none"),
           UNCHANGED <<running, lastErr, done, now, cooldownUntil>>
    PROVE  (SingleFlight /\ Carried /\ RecordFresh /\ StatusIsLastRun /\ Calm)'
<1> USE DEF WorkerInv, TypeOK, GoTo, InRun, PCs
<1>1. \A q \in Runs : (pc'[q] \in InRun <=> pc[q] \in InRun)
                      /\ (pc'[q] \in InRun => pc'[q] = pc[q] /\ res'[q] = res[q])
  OBVIOUS
<1>2. SingleFlight'
  BY <1>1 DEF SingleFlight
<1>3. Carried' /\ RecordFresh' /\ StatusIsLastRun' /\ Calm'
  BY <1>1 DEF Carried, RecordFresh, StatusIsLastRun, Calm, Cooling
<1> QED
  BY <1>2, <1>3

\* In a run, no other goroutine of the same server is.
LEMMA Alone ==
    ASSUME WorkerInv, NEW r \in Runs, NEW q \in Runs,
           pc[r] \in InRun, pc[q] \in InRun, q[1] = r[1]
    PROVE  q = r
  BY DEF WorkerInv, SingleFlight

\* One step of a run in flight.
LEMMA RunStepInv ==
    ASSUME WorkerInv, NEW r \in Runs, RunStep(r)
    PROVE  (SingleFlight /\ Carried /\ RecordFresh /\ StatusIsLastRun /\ Calm)'
<1> USE DEF WorkerInv, TypeOK, InRun, PCs
<1> DEFINE s == r[1]
<1>s. s \in Servers /\ r[2] \in Gor /\ r = <<s, r[2]>>
  BY RunParts
<1>1. CASE Begin(r)
  <2>1. CASE running[s] \/ Cooling(s)
    <3>1. UNCHANGED running /\ pc' = [pc EXCEPT ![r] = "idle"]
      BY <1>1, <2>1 DEF Begin, Busy, StandDown, GoTo
    <3>2. \A q \in Runs : (pc'[q] \in InRun <=> pc[q] \in InRun)
                          /\ (pc'[q] \in InRun => pc'[q] = pc[q] /\ res'[q] = res[q])
      BY <1>1, <3>1 DEF Begin, Busy, StandDown, GoTo
    <3>3. SingleFlight'
      BY <3>1, <3>2 DEF SingleFlight
    <3>4. UNCHANGED <<lastErr, cooldownUntil, done, now>>
      BY <1>1 DEF Begin
    <3>5. Carried' /\ RecordFresh'
      <4>1. \A q \in Runs : pc'[q] \in {"acquire", "work", "release", "record", "refused"} => pc'[q] \in InRun
        OBVIOUS
      <4> QED
        BY <3>2, <3>4, <4>1 DEF Carried, RecordFresh
    <3>6. StatusIsLastRun'
      BY <3>1, <3>4 DEF StatusIsLastRun
    <3>7. Calm'
      BY <3>2, <3>4 DEF Calm, Cooling
    <3> QED
      BY <3>3, <3>5, <3>6, <3>7
  <2>2. CASE ~running[s] /\ ~Cooling(s)
    <3>1. pc' = [pc EXCEPT ![r] = "acquire"] /\ running' = [running EXCEPT ![s] = TRUE]
      BY <1>1, <2>2 DEF Begin, Busy, StandDown, GoTo
    <3>2. \A q \in Runs : q # r => pc'[q] = pc[q] /\ res'[q] = res[q]
      BY <1>1 DEF Begin, Busy, StandDown, GoTo
    <3>3. \A q \in Runs : q[1] = s => pc[q] \notin InRun
      BY <2>2 DEF SingleFlight
    <3>4. SingleFlight'
      BY <1>s, <3>1, <3>2, <3>3, RunParts DEF SingleFlight
    <3>5. Carried' /\ Calm'
      BY <1>1, <1>s, <2>2, <3>1, <3>2 DEF Begin, Busy, StandDown, Carried, Calm, Cooling
    <3>6. RecordFresh' /\ StatusIsLastRun'
      BY <1>1, <1>s, <2>2, <3>1, <3>2 DEF Begin, Busy, StandDown, RecordFresh, StatusIsLastRun
    <3> QED
      BY <3>4, <3>5, <3>6
  <2> QED
    BY <2>1, <2>2
<1>2. CASE Acquire(r) \/ Work(r) \/ Release(r)
  <2>1. /\ pc[r] \in InRun /\ pc'[r] \in InRun
        /\ \A q \in Runs : q # r => pc'[q] = pc[q] /\ res'[q] = res[q]
        /\ UNCHANGED <<running, lastErr, cooldownUntil, now>>
        /\ \A t \in Servers : t # s => done'[t] = done[t]
    BY <1>2, <1>s DEF Acquire, Work, Release, GoTo, worker
  <2>2. SingleFlight'
    <3>1. \A q \in Runs : pc'[q] \in InRun <=> pc[q] \in InRun
      BY <2>1
    <3> QED
      BY <2>1, <3>1 DEF SingleFlight
  <2>3. Calm'
    BY <2>1 DEF Calm, Cooling
  <2>4. StatusIsLastRun'
    BY <1>s, <2>1 DEF StatusIsLastRun, SingleFlight
  <2>5. \A q \in Runs : q # r /\ pc[q] \in InRun => q[1] # s
    BY <2>1, Alone
  <2>6. \A q \in Runs : q # r => q[1] \in Servers
    BY RunParts
  <2>7. /\ pc'[r] \in {"release", "record"} => res'[r] \in Outcomes /\ res'[r] = done'[s]
        /\ pc'[r] \in {"acquire", "work", "refused"} => lastErr'[s] = done'[s]
    BY <1>2, <1>s DEF Acquire, Work, Release, GoTo, worker, Carried, RecordFresh, Outcomes
  <2>8. Carried' /\ RecordFresh'
    <3>1. ASSUME NEW q \in Runs, q # r, pc'[q] \in InRun
          PROVE  done'[q[1]] = done[q[1]] /\ lastErr'[q[1]] = lastErr[q[1]]
                 /\ pc'[q] = pc[q] /\ res'[q] = res[q]
      BY <2>1, <2>5, <2>6, <3>1
    <3>2. Carried'
      BY <2>7, <3>1 DEF Carried
    <3>3. RecordFresh'
      <4> SUFFICES ASSUME NEW q \in Runs, pc'[q] \in {"acquire", "work", "refused"}
                   PROVE  lastErr'[q[1]] = done'[q[1]]
        BY DEF RecordFresh
      <4>1. CASE q = r
        BY <2>7, <4>1
      <4>2. CASE q # r
        <5>1. pc'[q] \in InRun
          OBVIOUS
        <5> QED
          BY <3>1, <4>2, <5>1 DEF RecordFresh
      <4> QED
        BY <4>1, <4>2
    <3> QED
      BY <3>2, <3>3
  <2> QED
    BY <2>2, <2>3, <2>4, <2>8
<1>3. CASE Refused(r) \/ Record(r)
  <2>1. /\ pc[r] \in InRun /\ pc'[r] = "idle"
        /\ \A q \in Runs : q # r => pc'[q] = pc[q] /\ res'[q] = res[q]
        /\ running' = [running EXCEPT ![s] = FALSE]
        /\ UNCHANGED <<done, now>>
        /\ \A t \in Servers : t # s => lastErr'[t] = lastErr[t] /\ cooldownUntil'[t] = cooldownUntil[t]
        /\ lastErr'[s] = done[s]
    BY <1>3, <1>s DEF Refused, Record, GoTo, RecordFresh, Carried
  <2>2. \A q \in Runs : q # r /\ pc[q] \in InRun => q[1] # s
    BY <2>1, Alone
  <2>3. \A q \in Runs : q[1] \in Servers
    BY RunParts
  <2>4. \A q \in Runs : pc'[q] \in InRun => q # r /\ pc[q] \in InRun /\ q[1] # s
    BY <2>1, <2>2
  <2>5. \A q \in Runs : pc[q] \in InRun /\ q[1] # s => pc'[q] \in InRun
    BY <2>1
  <2>6. SingleFlight'
    <3>1. \A t \in Servers : running'[t] <=> running[t] /\ t # s
      BY <1>s, <2>1
    <3>2. \A q \in Runs : pc'[q] \in InRun => running'[q[1]]
      BY <2>3, <2>4, <3>1 DEF SingleFlight
    <3>3. \A t \in Servers : running'[t] => \E q \in Runs : q[1] = t /\ pc'[q] \in InRun
      <4> SUFFICES ASSUME NEW t \in Servers, running'[t]
                   PROVE  \E q \in Runs : q[1] = t /\ pc'[q] \in InRun
        OBVIOUS
      <4>1. t # s /\ \E q \in Runs : q[1] = t /\ pc[q] \in InRun
        BY <3>1 DEF SingleFlight
      <4> QED
        BY <2>5, <4>1
    <3>4. \A p, q \in Runs : pc'[p] \in InRun /\ pc'[q] \in InRun /\ p[1] = q[1] => p = q
      BY <2>4 DEF SingleFlight
    <3> QED
      BY <3>2, <3>3, <3>4 DEF SingleFlight
  <2>7. Carried' /\ RecordFresh' /\ Calm'
    <3>1. ASSUME NEW q \in Runs, pc'[q] \in InRun
          PROVE  /\ pc'[q] = pc[q] /\ res'[q] = res[q]
                 /\ lastErr'[q[1]] = lastErr[q[1]] /\ cooldownUntil'[q[1]] = cooldownUntil[q[1]]
      BY <2>1, <2>3, <2>4, <3>1
    <3>2. Carried' /\ RecordFresh'
      BY <2>1, <3>1 DEF Carried, RecordFresh
    <3>3. Calm'
      BY <2>1, <3>1 DEF Calm, Cooling
    <3> QED
      BY <3>2, <3>3
  <2>8. StatusIsLastRun'
    BY <1>s, <2>1 DEF StatusIsLastRun
  <2> QED
    BY <2>6, <2>7, <2>8
<1> QED
  BY <1>1, <1>2, <1>3 DEF RunStep

\* The death of a process resets its worker.
LEMMA DeathInv ==
    ASSUME WorkerInv, NEW s \in Servers, ServerDies(s)
    PROVE  (SingleFlight /\ Carried /\ RecordFresh /\ StatusIsLastRun /\ Calm)'
<1> USE DEF WorkerInv, TypeOK, InRun, PCs
<1>1. /\ \A q \in Runs : pc'[q] \in InRun =>
                            q[1] # s /\ pc'[q] = pc[q] /\ res'[q] = res[q]
      /\ \A q \in Runs : q[1] # s => pc'[q] = pc[q]
      /\ \A t \in Servers : t # s =>
            /\ running'[t] = running[t] /\ lastErr'[t] = lastErr[t]
            /\ cooldownUntil'[t] = cooldownUntil[t] /\ done'[t] = done[t]
      /\ ~running'[s] /\ lastErr'[s] = done'[s] /\ now' = now
  BY DEF ServerDies
<1>2. \A q \in Runs : q[1] \in Servers
  BY RunParts
<1>3. SingleFlight'
  <2>1. \A q \in Runs : pc'[q] \in InRun => running'[q[1]]
    BY <1>1, <1>2 DEF SingleFlight
  <2>2. ASSUME NEW t \in Servers, running'[t]
        PROVE  \E q \in Runs : q[1] = t /\ pc'[q] \in InRun
    <3>1. t # s /\ \E q \in Runs : q[1] = t /\ pc[q] \in InRun
      BY <1>1, <2>2 DEF SingleFlight
    <3> QED
      BY <1>1, <3>1
  <2>3. \A p, q \in Runs : pc'[p] \in InRun /\ pc'[q] \in InRun /\ p[1] = q[1] => p = q
    BY <1>1 DEF SingleFlight
  <2> QED
    BY <2>1, <2>2, <2>3 DEF SingleFlight
<1>4. Carried' /\ RecordFresh' /\ Calm'
  <2>1. \A q \in Runs : pc'[q] \in InRun =>
            /\ pc'[q] = pc[q] /\ res'[q] = res[q] /\ lastErr'[q[1]] = lastErr[q[1]]
            /\ cooldownUntil'[q[1]] = cooldownUntil[q[1]] /\ done'[q[1]] = done[q[1]]
    BY <1>1, <1>2
  <2>2. Carried' /\ RecordFresh'
    <3>1. \A q \in Runs : pc'[q] \in {"release", "record", "acquire", "work", "refused"} => pc'[q] \in InRun
      OBVIOUS
    <3>2. Carried'
      BY <2>1, <3>1 DEF Carried
    <3>3. RecordFresh'
      BY <2>1, <3>1 DEF RecordFresh
    <3> QED
      BY <3>2, <3>3
  <2>3. Calm'
    BY <1>1, <2>1 DEF Calm, Cooling
  <2> QED
    BY <2>2, <2>3
<1>5. StatusIsLastRun'
  BY <1>1 DEF StatusIsLastRun
<1> QED
  BY <1>3, <1>4, <1>5

\* A process that is not serving stays quiet.
LEMMA QuietStep ==
    ASSUME TypeOK, Quiet, [Next]_vars PROVE Quiet'
<1> USE DEF TypeOK, Quiet, PCs
<1>1. ASSUME NEW r \in Runs, RunStep(r) PROVE Quiet'
  <2>1. pc[r] # "idle" /\ UNCHANGED <<up, req>> /\ \A q \in Runs : q # r => pc'[q] = pc[q]
    BY <1>1 DEF RunStep, Begin, Busy, StandDown, Acquire, Work, Release, Refused, Record, GoTo, http
  <2> QED
    BY <2>1
<1>2. ASSUME NEW s \in Servers, TickerFires(s) PROVE Quiet'
  <2>1. <<s, Loop>> \in Runs /\ <<s, Loop>>[1] = s
    BY RunOf, ActorAssumption
  <2>2. up[s] = "serving" /\ UNCHANGED <<up, req>> /\ \A q \in Runs : q # <<s, Loop>> => pc'[q] = pc[q]
    BY <1>2, <2>1 DEF TickerFires, GoTo, http
  <2> QED
    BY <2>1, <2>2
<1>3. ASSUME NEW s \in Servers, NEW h \in Handlers, RequestStep(s, h) PROVE Quiet'
  <2>1. CASE RunTrigger(s, h)
    <3>1. PICK g \in Gor : pc[<<s, g>>] = "idle" /\ GoTo(<<s, g>>, "begin", "none")
      BY <2>1 DEF RunTrigger
    <3>2. <<s, g>> \in Runs /\ <<s, g>>[1] = s
      BY RunOf
    <3>3. /\ up[s] = "serving" /\ up' = up
          /\ \A q \in Runs : q[1] # s => pc'[q] = pc[q]
          /\ \A t \in Servers : t # s => req'[t] = req[t]
      BY <2>1, <3>1, <3>2 DEF RunTrigger, GoTo
    <3> QED
      BY <3>3
  <2>2. CASE RunCheck(s, h) \/ StatusRead(s, h) \/ StatusAnswer(s, h)
    <3>1. UNCHANGED <<up, pc>> /\ \A t \in Servers : t # s => req'[t] = req[t]
      BY <2>2 DEF RunCheck, StatusRead, StatusAnswer
    <3>2. up[s] = "serving"
      BY <2>2 DEF RunCheck, StatusRead, StatusAnswer
    <3>3. ASSUME NEW t \in Servers, up'[t] # "serving" PROVE t # s /\ up[t] # "serving"
      BY <3>1, <3>2, <3>3
    <3> QED
      BY <3>1, <3>3
  <2> QED
    BY <1>3, <2>1, <2>2 DEF RequestStep
<1>4. ASSUME NEW s \in Servers, ServerStart(s) \/ ServerReady(s) PROVE Quiet'
  <2>1. UNCHANGED <<pc, req>> /\ \A t \in Servers : up'[t] # "serving" => up[t] # "serving"
    BY <1>4 DEF ServerStart, ServerReady, http
  <2> QED
    BY <2>1
<1>5. ASSUME NEW s \in Servers, ServerDies(s) PROVE Quiet'
  BY <1>5 DEF ServerDies
<1>6. CASE UNCHANGED <<up, pc, req>>
  BY <1>6
<1> QED
  BY <1>1, <1>2, <1>3, <1>4, <1>5, <1>6 DEF Next, vars, http, worker, OrphanEnds, SessionLost,
     ClockTicks, CommandStep, CommandStart, CommandDies, CommandAcquire, CommandLogin, CommandWork,
     CommandRelease

\* Every step keeps the invariant.
LEMMA WorkerStep ==
    ASSUME WorkerInv, [Next]_vars PROVE WorkerInv'
<1> DEFINE Rest == SingleFlight /\ Carried /\ RecordFresh /\ StatusIsLastRun /\ Calm
<1>t. TypeOK' /\ Quiet'
  BY TypeStep, QuietStep DEF WorkerInv
<1> SUFFICES Rest'
  BY <1>t DEF WorkerInv
<1>1. CASE UNCHANGED <<running, lastErr, pc, res, done, now, cooldownUntil>>
  BY <1>1, WorkerFrame
<1>2. CASE ClockTicks
  <2>1. \A s \in Servers : Cooling(s)' => Cooling(s)
    BY <1>2 DEF ClockTicks, Cooling, worker, WorkerInv, TypeOK
  <2>2. Calm'
    BY <1>2, <2>1, RunParts DEF ClockTicks, Calm, WorkerInv
  <2> QED
    BY <1>2, <2>2 DEF ClockTicks, worker, WorkerInv, SingleFlight, Carried, RecordFresh, StatusIsLastRun
<1>3. ASSUME NEW r \in Runs, RunStep(r) PROVE Rest'
  BY <1>3, RunStepInv
<1>4. ASSUME NEW s \in Servers, TickerFires(s) PROVE Rest'
  BY <1>4, RunOf, SpawnFrame, ActorAssumption DEF TickerFires, worker
<1>5. ASSUME NEW s \in Servers, NEW h \in Handlers, RunTrigger(s, h) PROVE Rest'
  <2> PICK g \in Gor : pc[<<s, g>>] = "idle" /\ GoTo(<<s, g>>, "begin", "none")
    BY <1>5 DEF RunTrigger
  <2> QED
    BY <1>5, RunOf, SpawnFrame DEF RunTrigger, worker
<1>6. ASSUME NEW s \in Servers, ServerReady(s) PROVE Rest'
  <2>1. /\ UNCHANGED <<running, cooldownUntil, pc, res, now>>
        /\ lastErr'[s] = done'[s]
        /\ \A t \in Servers : t # s => lastErr'[t] = lastErr[t] /\ done'[t] = done[t]
    BY <1>6 DEF ServerReady, WorkerInv, TypeOK
  <2>2. \A r \in Runs : r[1] = s => pc[r] = "idle"
    BY <1>6 DEF ServerReady, WorkerInv, Quiet
  <2>3. Carried' /\ RecordFresh'
    BY <2>1, <2>2, RunParts DEF WorkerInv, Carried, RecordFresh
  <2>4. SingleFlight' /\ Calm'
    BY <2>1 DEF WorkerInv, SingleFlight, Calm, Cooling
  <2>5. StatusIsLastRun'
    BY <2>1 DEF WorkerInv, StatusIsLastRun
  <2> QED
    BY <2>3, <2>4, <2>5
<1>7. ASSUME NEW s \in Servers, ServerDies(s) PROVE Rest'
  BY <1>7, DeathInv
<1>8. ASSUME NEW s \in Servers, NEW h \in Handlers,
             RunCheck(s, h) \/ StatusRead(s, h) \/ StatusAnswer(s, h) \/ ServerStart(s)
      PROVE  Rest'
  BY <1>8, <1>1 DEF RunCheck, StatusRead, StatusAnswer, ServerStart, worker
<1>9. ASSUME NEW s \in Servers, ServerStart(s) PROVE Rest'
  BY <1>9, <1>1 DEF ServerStart, worker
<1>10. ASSUME NEW c \in Commands, CommandStep(c) \/ CommandStart(c) \/ CommandDies(c) PROVE Rest'
  BY <1>10, <1>1 DEF CommandStep, CommandAcquire, CommandLogin, CommandWork, CommandRelease,
                     CommandStart, CommandDies, worker
<1>11. CASE OrphanEnds \/ SessionLost \/ UNCHANGED vars
  BY <1>11, <1>1 DEF OrphanEnds, SessionLost, vars, worker
<1> QED
  BY <1>2, <1>3, <1>4, <1>5, <1>6, <1>7, <1>8, <1>9, <1>10, <1>11 DEF Next, RequestStep

\* The system starts in the invariant.
LEMMA WorkerInit == Init => WorkerInv
  BY ActorAssumption, TimeAssumption, RunParts
     DEF Init, WorkerInv, TypeOK, Quiet, SingleFlight, Carried, RecordFresh, StatusIsLastRun, Calm,
         PCs, InRun, Errors, Outcomes, Actors, Cooling

\* The inductive invariant holds of every reachable state.
THEOREM WorkerCorrect == Spec => []WorkerInv
  BY WorkerInit, WorkerStep, PTL DEF Spec

\* Every variable keeps its type.
THEOREM TypeCorrect == Spec => []TypeOK
<1>1. WorkerInv => TypeOK
  BY DEF WorkerInv
<1> QED
  BY <1>1, WorkerCorrect, PTL

\* A worker has at most one run in flight, and its flag says whether it has one.
THEOREM SingleFlightCorrect == Spec => []SingleFlight
<1>1. WorkerInv => SingleFlight
  BY DEF WorkerInv
<1> QED
  BY <1>1, WorkerCorrect, PTL

\* No worker talks to Instagram while it is waiting out a rate limit.
THEOREM CooldownCorrect == Spec => []NoContactWhileCooling
<1>1. WorkerInv => NoContactWhileCooling
  BY DEF WorkerInv, NoContactWhileCooling, Calm, InRun, PCs
<1> QED
  BY <1>1, WorkerCorrect, PTL

\* With no run in flight the status is that of the run that finished last.
THEOREM StatusCorrect == Spec => []StatusIsLastRun
<1>1. WorkerInv => StatusIsLastRun
  BY DEF WorkerInv
<1> QED
  BY <1>1, WorkerCorrect, PTL

-----------------------------------------------------------------------------
(* Exclusion across processes.                                             *)

Holds(a) ==
    \/ a \in Runs /\ pc[a] \in {"work", "release"}
    \/ a \in Commands /\ cmd[a] \in {"login", "work", "release"}

\* Whoever is between taking the lock and giving it back has it, unless its
\* session broke.
LockInv == \A a \in Actors : Holds(a) => lock = a \/ a \in lost

\* Runs, commands, nobody and an orphaned session are different things.
LEMMA ActorKinds ==
    /\ \A a \in Actors : a # None /\ a # Orphan
    /\ \A r \in Runs, c \in Commands : r # c
    /\ \A r \in Runs : r \in Actors /\ r \notin Commands
    /\ \A c \in Commands : c \in Actors /\ c \notin Runs
  BY ActorAssumption DEF Actors, Runs

\* Who holds the lock keeps it to itself until its session breaks.
LEMMA LockStep ==
    ASSUME TypeOK, LockInv, [Next]_vars PROVE LockInv'
<1> USE DEF TypeOK, LockInv, Holds, PCs, locks
<1> DEFINE Own(a) == lock = a \/ a \in lost
<1>0. ASSUME NEW b \in Actors, \A a \in Actors : a # b => (Holds(a)' => Holds(a)),
             \A a \in Actors : a # b => (Own(a) => Own(a)'), Holds(b)' => Own(b)'
      PROVE  LockInv'
  BY <1>0
<1>1. ASSUME NEW r \in Runs, RunStep(r) PROVE LockInv'
  <2>0. r \in Actors /\ \A a \in Actors : a # r => (Holds(a)' => Holds(a))
    BY <1>1, ActorKinds DEF RunStep, Begin, Busy, StandDown, Acquire, Work, Release, Refused, Record, GoTo
  <2>1. CASE Acquire(r)
    <3>1. \A a \in Actors : a # r => (Own(a) => Own(a)')
      BY <2>1, ActorKinds DEF Acquire, TakeLock, LockUnreachable
    <3>2. Holds(r)' => Own(r)'
      BY <2>0, <2>1, ActorKinds DEF Acquire, TakeLock, GoTo
    <3> QED
      BY <1>0, <2>0, <3>1, <3>2
  <2>2. CASE Release(r)
    <3>1. \A a \in Actors : a # r => (Own(a) => Own(a)')
      BY <2>2, ActorKinds DEF Release, ReleaseLock
    <3>2. ~Holds(r)'
      BY <2>0, <2>2, ActorKinds DEF Release, GoTo
    <3> QED
      BY <1>0, <2>0, <3>1, <3>2
  <2>3. CASE Begin(r) \/ Work(r) \/ Refused(r) \/ Record(r)
    <3>1. UNCHANGED locks
      BY <2>3 DEF Begin, Work, Refused, Record
    <3>2. Holds(r)' => Holds(r)
      BY <2>0, <2>3, ActorKinds DEF Begin, Busy, StandDown, Work, Refused, Record, GoTo
    <3> QED
      BY <1>0, <2>0, <3>1, <3>2
  <2> QED
    BY <1>1, <2>1, <2>2, <2>3 DEF RunStep
<1>2. ASSUME NEW c \in Commands, CommandStep(c) \/ CommandStart(c) \/ CommandDies(c) PROVE LockInv'
  <2>0. c \in Actors /\ \A a \in Actors : a # c => (Holds(a)' => Holds(a))
    BY <1>2, ActorKinds DEF CommandStep, CommandAcquire, CommandLogin, CommandWork, CommandRelease,
                CommandStart, CommandDies
  <2>1. CASE CommandAcquire(c)
    <3>1. \A a \in Actors : a # c => (Own(a) => Own(a)')
      BY <2>1, ActorKinds DEF CommandAcquire, TakeLock, LockUnreachable
    <3>2. Holds(c)' => Own(c)'
      BY <2>0, <2>1, ActorKinds DEF CommandAcquire, TakeLock
    <3> QED
      BY <1>0, <2>0, <3>1, <3>2
  <2>2. CASE CommandRelease(c) \/ CommandDies(c)
    <3>1. \A a \in Actors : a # c => (Own(a) => Own(a)')
      BY <2>2, ActorKinds DEF CommandRelease, CommandDies, ReleaseLock
    <3>2. ~Holds(c)'
      BY <2>0, <2>2, ActorKinds DEF CommandRelease, CommandDies
    <3> QED
      BY <1>0, <2>0, <3>1, <3>2
  <2>3. CASE CommandLogin(c) \/ CommandWork(c) \/ CommandStart(c)
    <3>1. UNCHANGED locks
      BY <2>3 DEF CommandLogin, CommandWork, CommandStart
    <3>2. Holds(c)' => Holds(c)
      BY <2>0, <2>3, ActorKinds DEF CommandLogin, CommandWork, CommandStart
    <3> QED
      BY <1>0, <2>0, <3>1, <3>2
  <2> QED
    BY <1>2, <2>1, <2>2, <2>3 DEF CommandStep
<1>3. ASSUME NEW s \in Servers, TickerFires(s) PROVE LockInv'
  BY <1>3, RunOf, ActorAssumption DEF TickerFires, GoTo
<1>4. ASSUME NEW s \in Servers, NEW h \in Handlers, RequestStep(s, h) PROVE LockInv'
  <2>1. CASE RunTrigger(s, h)
    BY <2>1, RunOf DEF RunTrigger, GoTo
  <2>2. CASE RunCheck(s, h) \/ StatusRead(s, h) \/ StatusAnswer(s, h)
    BY <2>2 DEF RunCheck, StatusRead, StatusAnswer
  <2> QED
    BY <1>4, <2>1, <2>2 DEF RequestStep
<1>5. ASSUME NEW s \in Servers, ServerDies(s) PROVE LockInv'
  <2> SUFFICES ASSUME NEW a \in Actors, Holds(a)' PROVE Own(a)'
    BY DEF LockInv
  <2>1. Holds(a) /\ (a \in Runs => a[1] # s)
    BY <1>5, ActorKinds DEF ServerDies, Actors
  <2>2. CASE lock = a
    <3>1. ~\E r \in Runs : r[1] = s /\ lock = r
      BY <2>1, <2>2, ActorKinds
    <3> QED
      BY <1>5, <2>2, <3>1 DEF ServerDies
  <2>3. CASE a \in lost
    BY <1>5, <2>1, <2>3 DEF ServerDies
  <2> QED
    BY <2>1, <2>2, <2>3
<1>6. ASSUME NEW s \in Servers, ServerStart(s) \/ ServerReady(s) PROVE LockInv'
  BY <1>6 DEF ServerStart, ServerReady
<1>7. CASE SessionLost
  BY <1>7 DEF SessionLost
<1>8. CASE OrphanEnds \/ ClockTicks \/ UNCHANGED vars
  BY <1>8, ActorKinds DEF OrphanEnds, ClockTicks, vars
<1> QED
  BY <1>1, <1>2, <1>3, <1>4, <1>5, <1>6, <1>7, <1>8 DEF Next

\* Whoever works holds the lock, or had it and lost the session.
LEMMA LockCorrect == Spec => []LockInv
<1>1. Init => LockInv
  BY DEF Init, LockInv, Holds
<1> QED
  BY <1>1, LockStep, TypeCorrect, PTL DEF Spec

\* At most one run or command talks to Instagram under a lock session that lasts.
THEOREM ExclusionCorrect == Spec => []OneImportAtATime
<1>1. LockInv => OneImportAtATime
  BY DEF LockInv, Holds, OneImportAtATime, Guarded, InAccount, Using, Actors
<1> QED
  BY <1>1, LockCorrect, PTL

-----------------------------------------------------------------------------
(* That the lock comes free (LockComesFree) is left to TLC; that no run and  *)
(* no command leaves it behind, whatever its end, is proved here.            *)

\* Whose lock it is, or was until the session broke, is between taking it and
\* giving it back, and a session that broke is not the one that holds it now.
NoLockLeftBehind ==
    /\ \A a \in Actors : lock = a \/ a \in lost => Holds(a)
    /\ lock \notin lost

\* A step that takes the lock for b, gives b's back, or leaves the lock alone.
LEMMA LeftStep ==
    ASSUME TypeOK, NoLockLeftBehind, NEW b \in Actors,
           \A a \in Actors : a # b /\ Holds(a) => Holds(a)',
           lock' \in {lock, None, Orphan, b}, lost' \in {lost, lost \ {b}},
           lock' = b \/ b \in lost' => Holds(b)',
           lock' = b => b \notin lost'
    PROVE  NoLockLeftBehind'
<1>1. None \notin Actors /\ Orphan \notin Actors /\ lost \subseteq Actors
  BY ActorKinds DEF TypeOK
<1>2. ASSUME NEW a \in Actors, lock' = a \/ a \in lost' PROVE Holds(a)'
  <2>1. CASE a = b
    BY <1>2, <2>1
  <2>2. CASE a # b
    <3>1. lock = a \/ a \in lost
      BY <1>1, <1>2, <2>2
    <3> QED
      BY <2>2, <3>1 DEF NoLockLeftBehind
  <2> QED
    BY <2>1, <2>2
<1>3. lock' \notin lost'
  BY <1>1 DEF NoLockLeftBehind
<1> QED
  BY <1>2, <1>3 DEF NoLockLeftBehind

LEMMA LeftSteps ==
    ASSUME TypeOK, NoLockLeftBehind, [Next]_vars PROVE NoLockLeftBehind'
<1> USE DEF TypeOK, Holds, PCs, locks
<1>1. ASSUME NEW r \in Runs, RunStep(r) PROVE NoLockLeftBehind'
  <2>0. r \in Actors /\ \A a \in Actors : a # r /\ Holds(a) => Holds(a)'
    BY <1>1, ActorKinds DEF RunStep, Begin, Busy, StandDown, Acquire, Work, Release, Refused, Record, GoTo
  <2>1. CASE Acquire(r)
    <3>1. ~Holds(r) /\ lock # r /\ r \notin lost
      BY <2>0, <2>1, ActorKinds DEF Acquire, NoLockLeftBehind
    <3>2. lost' = lost /\ lock' \in {lock, None, Orphan, r}
      BY <2>1 DEF Acquire, TakeLock, LockUnreachable
    <3>3. lock' = r => Holds(r)'
      BY <2>0, <2>1, <3>1, ActorKinds DEF Acquire, TakeLock, LockUnreachable, GoTo
    <3> QED
      BY <2>0, <3>1, <3>2, <3>3, LeftStep
  <2>2. CASE Release(r)
    <3>1. lost' = lost \ {r} /\ lock' \in {lock, None, Orphan} /\ lock' # r
      BY <2>0, <2>2, ActorKinds DEF Release, ReleaseLock
    <3> QED
      BY <2>0, <3>1, LeftStep
  <2>3. CASE Begin(r) \/ Work(r) \/ Refused(r) \/ Record(r)
    <3>1. UNCHANGED locks
      BY <2>3 DEF Begin, Work, Refused, Record
    <3>2. Holds(r) => Holds(r)'
      BY <2>0, <2>3, ActorKinds DEF Begin, Busy, StandDown, Work, Refused, Record, GoTo
    <3> QED
      BY <2>0, <3>1, <3>2 DEF NoLockLeftBehind
  <2> QED
    BY <1>1, <2>1, <2>2, <2>3 DEF RunStep
<1>2. ASSUME NEW c \in Commands, CommandStep(c) \/ CommandStart(c) \/ CommandDies(c) PROVE NoLockLeftBehind'
  <2>0. c \in Actors /\ \A a \in Actors : a # c /\ Holds(a) => Holds(a)'
    BY <1>2, ActorKinds DEF CommandStep, CommandAcquire, CommandLogin, CommandWork, CommandRelease,
                CommandStart, CommandDies
  <2>1. CASE CommandAcquire(c)
    <3>1. ~Holds(c) /\ lock # c /\ c \notin lost
      BY <2>0, <2>1, ActorKinds DEF CommandAcquire, NoLockLeftBehind
    <3>2. lost' = lost /\ lock' \in {lock, None, Orphan, c}
      BY <2>1 DEF CommandAcquire, TakeLock, LockUnreachable
    <3>3. lock' = c => Holds(c)'
      BY <2>0, <2>1, <3>1, ActorKinds DEF CommandAcquire, TakeLock, LockUnreachable
    <3> QED
      BY <2>0, <3>1, <3>2, <3>3, LeftStep
  <2>2. CASE CommandRelease(c) \/ CommandDies(c)
    <3>1. lost' = lost \ {c} /\ lock' \in {lock, None, Orphan} /\ lock' # c
      BY <2>0, <2>2, ActorKinds DEF CommandRelease, CommandDies, ReleaseLock
    <3> QED
      BY <2>0, <3>1, LeftStep
  <2>3. CASE CommandLogin(c) \/ CommandWork(c) \/ CommandStart(c)
    <3>1. UNCHANGED locks
      BY <2>3 DEF CommandLogin, CommandWork, CommandStart
    <3>2. Holds(c) => Holds(c)'
      BY <2>0, <2>3, ActorKinds DEF CommandLogin, CommandWork, CommandStart
    <3> QED
      BY <2>0, <3>1, <3>2 DEF NoLockLeftBehind
  <2> QED
    BY <1>2, <2>1, <2>2, <2>3 DEF CommandStep
<1>3. ASSUME UNCHANGED locks, \A a \in Actors : Holds(a) => Holds(a)' PROVE NoLockLeftBehind'
  BY <1>3 DEF NoLockLeftBehind
<1>4. ASSUME NEW s \in Servers, TickerFires(s) PROVE NoLockLeftBehind'
  BY <1>3, <1>4, RunOf DEF TickerFires, GoTo
<1>5. ASSUME NEW s \in Servers, NEW h \in Handlers, RequestStep(s, h) PROVE NoLockLeftBehind'
  <2>1. CASE RunTrigger(s, h)
    <3>1. PICK g \in Gor : pc[<<s, g>>] = "idle" /\ GoTo(<<s, g>>, "begin", "none")
      BY <2>1 DEF RunTrigger
    <3>2. <<s, g>> \in Runs
      BY RunOf
    <3>3. \A r \in Runs : pc[r] \in {"work", "release"} => pc'[r] = pc[r]
      BY <3>1, <3>2 DEF GoTo
    <3>4. UNCHANGED <<lock, lost, cmd>>
      BY <2>1 DEF RunTrigger
    <3> QED
      BY <1>3, <3>3, <3>4
  <2>2. CASE RunCheck(s, h) \/ StatusRead(s, h) \/ StatusAnswer(s, h)
    BY <1>3, <2>2 DEF RunCheck, StatusRead, StatusAnswer
  <2> QED
    BY <1>5, <2>1, <2>2 DEF RequestStep
<1>6. ASSUME NEW s \in Servers, ServerDies(s) PROVE NoLockLeftBehind'
  <2>1. lock' \in {lock, None, Orphan} /\ lost' = {a \in lost : a \in Runs => a[1] # s}
    BY <1>6 DEF ServerDies
  <2>2. ASSUME NEW r \in Runs, r[1] = s PROVE lock' # r /\ r \notin lost'
    BY <1>6, <2>2, ActorKinds DEF ServerDies
  <2>3. ASSUME NEW a \in Actors, Holds(a), a \in Runs => a[1] # s PROVE Holds(a)'
    BY <1>6, <2>3 DEF ServerDies
  <2>4. ASSUME NEW a \in Actors, lock' = a \/ a \in lost' PROVE Holds(a)'
    <3>1. lock = a \/ a \in lost
      BY <2>1, <2>4, ActorKinds
    <3>2. a \in Runs => a[1] # s
      BY <2>2, <2>4
    <3> QED
      BY <2>3, <3>1, <3>2 DEF NoLockLeftBehind
  <2>5. lock' \notin lost'
    BY <2>1, ActorKinds DEF NoLockLeftBehind
  <2> QED
    BY <2>4, <2>5 DEF NoLockLeftBehind
<1>7. ASSUME NEW s \in Servers, ServerStart(s) \/ ServerReady(s) PROVE NoLockLeftBehind'
  BY <1>3, <1>7 DEF ServerStart, ServerReady
<1>8. CASE SessionLost
  <2>1. lock \in Actors /\ lock' = None /\ lost' = lost \cup {lock} /\ UNCHANGED <<pc, cmd>>
    BY <1>8 DEF SessionLost
  <2>2. \A a \in Actors : Holds(a)' = Holds(a)
    BY <2>1
  <2>3. None \notin lost'
    BY <2>1, ActorKinds
  <2> QED
    BY <2>1, <2>2, <2>3, ActorKinds DEF NoLockLeftBehind
<1>9. CASE OrphanEnds
  <2>1. lock' = None /\ UNCHANGED <<pc, cmd, lost>>
    BY <1>9 DEF OrphanEnds
  <2>2. \A a \in Actors : Holds(a)' = Holds(a)
    BY <2>1
  <2> QED
    BY <2>1, <2>2, ActorKinds DEF NoLockLeftBehind
<1>10. CASE ClockTicks \/ UNCHANGED vars
  BY <1>3, <1>10 DEF ClockTicks, vars
<1> QED
  BY <1>1, <1>2, <1>4, <1>5, <1>6, <1>7, <1>8, <1>9, <1>10 DEF Next

\* Pipeline.Run and ImportOnce give the lock back on every path: success, error,
\* refusal, rate limit, failed login, kill and broken session.  A lock that is
\* taken is that of a run or a command still at work, or of a session Postgres
\* has yet to end.
THEOREM LockReturned == Spec => []NoLockLeftBehind
<1>1. Init => NoLockLeftBehind
  BY ActorKinds DEF Init, NoLockLeftBehind
<1> QED
  BY <1>1, LeftSteps, TypeCorrect, PTL DEF Spec

-----------------------------------------------------------------------------
(* ImportWorker implements AccountGuard.                                   *)

Users == {a \in Actors : Guarded(a)}

\* The users of the account are nobody, or the holder of the lock.
LEMMA UsersOfLock ==
    ASSUME LockInv
    PROVE  /\ \A a \in Users : lock = a
           /\ lock \in Users => Users = {lock}
           /\ lock \notin Users => Users = {}
  BY DEF LockInv, Holds, Users, Guarded, InAccount, Using

\* Every step maps to a step of the account guard, or to none.
LEMMA GuardStep ==
    ASSUME TypeOK, LockInv, LockInv', [Next]_vars
    PROVE  [\E a \in Actors : \/ Users = {} /\ Users' = {a}
                              \/ Users = {a} /\ Users' = {}]_Users
<1> USE DEF TypeOK, PCs
<1> DEFINE Goal == Users' = Users \/ \E a \in Actors : \/ Users = {} /\ Users' = {a}
                                                       \/ Users = {a} /\ Users' = {}
<1> SUFFICES Goal
  OBVIOUS
<1>1. ASSUME NEW a \in Actors, \A b \in Actors : b # a => (Guarded(b)' <=> Guarded(b)) PROVE Goal
  <2>1. CASE Guarded(a) /\ ~Guarded(a)'
    <3>1. Users = {a}
      BY <2>1, UsersOfLock DEF Users
    <3>2. Users' = {}
      BY <1>1, <2>1, <3>1 DEF Users
    <3> QED
      BY <3>1, <3>2
  <2>2. CASE ~Guarded(a) /\ Guarded(a)'
    <3>1. \A b \in Actors : Guarded(b)' => b = a
      BY <2>2 DEF LockInv, Holds, Guarded, InAccount, Using
    <3>2. Users' = {a}
      BY <2>2, <3>1 DEF Users
    <3>3. Users = {}
      BY <1>1, <2>2, <3>1 DEF Users
    <3> QED
      BY <3>2, <3>3
  <2>3. CASE Guarded(a)' <=> Guarded(a)
    BY <1>1, <2>3 DEF Users
  <2> QED
    BY <2>1, <2>2, <2>3
<1>2. CASE UNCHANGED <<pc, cmd, lost>>
  BY <1>2 DEF Users, Guarded, InAccount
<1>3. ASSUME NEW r \in Runs, RunStep(r) PROVE Goal
  <2>1. r \in Actors /\ \A b \in Actors : b # r => (InAccount(b)' <=> InAccount(b))
    BY <1>3 DEF Actors, InAccount, RunStep, Begin, Busy, StandDown, Acquire, Work, Release, Refused, Record, GoTo
  <2>2. lost' = lost \/ lost' = lost \ {r}
    BY <1>3 DEF RunStep, Begin, Acquire, Work, Release, Refused, Record, locks,
                TakeLock, LockUnreachable, ReleaseLock
  <2> QED
    BY <1>1, <2>1, <2>2 DEF Guarded
<1>4. ASSUME NEW c \in Commands, CommandStep(c) \/ CommandStart(c) \/ CommandDies(c) PROVE Goal
  <2>1. c \in Actors /\ \A b \in Actors : b # c => (InAccount(b)' <=> InAccount(b))
    BY <1>4 DEF Actors, InAccount, CommandStep, CommandAcquire, CommandLogin, CommandWork,
                CommandRelease, CommandStart, CommandDies
  <2>2. lost' = lost \/ lost' = lost \ {c}
    BY <1>4 DEF CommandStep, CommandAcquire, CommandLogin, CommandWork, CommandRelease,
                CommandStart, CommandDies, locks, TakeLock, LockUnreachable, ReleaseLock
  <2> QED
    BY <1>1, <2>1, <2>2 DEF Guarded
<1>5. ASSUME NEW s \in Servers, TickerFires(s) PROVE Goal
  BY <1>5, RunOf, ActorAssumption DEF TickerFires, GoTo, Users, Guarded, InAccount, locks
<1>6. ASSUME NEW s \in Servers, NEW h \in Handlers, RequestStep(s, h) PROVE Goal
  <2>1. CASE RunTrigger(s, h)
    <3>1. PICK g \in Gor : pc[<<s, g>>] = "idle" /\ GoTo(<<s, g>>, "begin", "none")
      BY <2>1 DEF RunTrigger
    <3>g. <<s, g>> \in Runs
      BY RunOf
    <3>2. \A q \in Runs : pc'[q] = "work" <=> pc[q] = "work"
      BY <3>1, <3>g DEF GoTo
    <3> QED
      BY <2>1, <3>2 DEF RunTrigger, Users, Guarded, InAccount, locks
  <2>2. CASE RunCheck(s, h) \/ StatusRead(s, h) \/ StatusAnswer(s, h)
    BY <1>2, <2>2 DEF RunCheck, StatusRead, StatusAnswer, locks
  <2> QED
    BY <1>6, <2>1, <2>2 DEF RequestStep
<1>7. ASSUME NEW s \in Servers, ServerDies(s) PROVE Goal
  <2>1. ASSUME NEW b \in Actors, Guarded(b)' PROVE Guarded(b)
    <3>1. InAccount(b) /\ (b \in Runs => b[1] # s)
      BY <1>7, <2>1, ActorKinds DEF ServerDies, Guarded, InAccount, Actors
    <3> QED
      BY <1>7, <2>1, <3>1 DEF ServerDies, Guarded
  <2>2. Users' = Users \/ (Users' = {} /\ Users = {lock} /\ lock \in Actors)
    BY <2>1, UsersOfLock DEF Users
  <2> QED
    BY <2>2
<1>8. ASSUME NEW s \in Servers, ServerStart(s) \/ ServerReady(s) PROVE Goal
  BY <1>2, <1>8 DEF ServerStart, ServerReady, locks
<1>9. CASE SessionLost
  BY <1>1, <1>9 DEF SessionLost, Guarded, InAccount
<1>10. CASE OrphanEnds \/ ClockTicks \/ UNCHANGED vars
  BY <1>2, <1>10 DEF OrphanEnds, ClockTicks, vars, locks
<1> QED
  BY <1>3, <1>4, <1>5, <1>6, <1>7, <1>8, <1>9, <1>10 DEF Next

\* The system is an account guard of those whose lock session lasts.
THEOREM GuardRefinement == Spec => GuardSpec
<1>1. Init => Guard!Init
  BY DEF Init, Guard!Init, Guarded, InAccount, Using
<1>2. TypeOK /\ LockInv /\ LockInv' /\ [Next]_vars => [Guard!Next]_Users
  BY GuardStep DEF Guard!Next, Guard!Enter, Guard!Leave, Users
<1> QED
  BY <1>1, <1>2, TypeCorrect, LockCorrect, PTL DEF Spec, GuardSpec, Guard!Spec, Users
=============================================================================
