-------------------------- MODULE TimeSync_proofs --------------------------
(***************************************************************************)
(* Proofs about TimeSync, for any set of tasks and any number of looks.    *)
(***************************************************************************)
EXTENDS TimeSync, TLAPS

\* A call that is not over has looks left.
CountInv == \A t \in Tasks : pc[t] \in {"mode", "init", "loop"} => retry[t] < RetryCount

\* A call that leaves the loop early has seen the clock set.
ClockInv == \A t \in Tasks : pc[t] = "stop" /\ retry[t] # RetryCount => clock

\* A client that runs will be stopped by somebody.
RunInv == sntp => \E t \in Tasks : pc[t] \in {"loop", "stop"}

\* The history tells whether a task is alone, and then the client it started runs.
AloneInv ==
    \A t \in Tasks : pc[t] # "idle" /\ ~shared[t] =>
        /\ \A u \in Tasks \ {t} : pc[u] = "idle"
        /\ pc[t] \in {"loop", "stop"} => sntp

IInv == TypeOK /\ CountInv /\ ClockInv /\ RunInv /\ AloneInv

-----------------------------------------------------------------------------
\* Where a task goes, the others stay.
LEMMA Moves ==
    ASSUME TypeOK, NEW t \in Tasks, NEW l \in {"idle", "mode", "init", "loop", "stop"},
           pc' = [pc EXCEPT ![t] = l]
    PROVE  /\ pc' \in [Tasks -> {"idle", "mode", "init", "loop", "stop"}]
           /\ pc'[t] = l
           /\ \A u \in Tasks \ {t} : pc'[u] = pc[u]
  BY DEF TypeOK

LEMMA InitInv == Init => IInv
  <1> SUFFICES ASSUME Init PROVE IInv
    OBVIOUS
  <1>1. 0 \in 0 .. RetryCount
    BY RetryAssumption
  <1> QED
    BY <1>1 DEF Init, IInv, TypeOK, CountInv, ClockInv, RunInv, AloneInv

LEMMA AsleepInv ==
    ASSUME Asleep, clock' \in BOOLEAN
    PROVE  IInv'
  <1>1. 0 \in 0 .. RetryCount
    BY RetryAssumption
  <1> QED
    BY <1>1 DEF Asleep, IInv, TypeOK, CountInv, ClockInv, RunInv, AloneInv

LEMMA CallInv == ASSUME IInv, NEW t \in Tasks, Call(t) PROVE IInv'
  <1>1. /\ pc' \in [Tasks -> {"idle", "mode", "init", "loop", "stop"}]
        /\ pc'[t] = "mode" /\ \A u \in Tasks \ {t} : pc'[u] = pc[u]
    BY Moves DEF IInv, Call
  <1>2. /\ retry' \in [Tasks -> 0 .. RetryCount]
        /\ retry'[t] = 0 /\ \A u \in Tasks \ {t} : retry'[u] = retry[u]
    BY RetryAssumption DEF IInv, TypeOK, Call
  <1>3. /\ shared' \in [Tasks -> BOOLEAN]
        /\ shared'[t] = (Others(t) # {})
        /\ \A u \in Tasks \ {t} : shared'[u] = (shared[u] \/ pc[u] # "idle")
    BY DEF IInv, TypeOK, Call
  <1>4. pc[t] = "idle" /\ clock' = clock /\ sntp' = sntp
    BY DEF Call
  <1>5. TypeOK'
    BY <1>1, <1>2, <1>3, <1>4 DEF IInv, TypeOK
  <1>6. CountInv'
    BY <1>1, <1>2, RetryAssumption DEF IInv, CountInv
  <1>7. ClockInv'
    BY <1>1, <1>2, <1>4 DEF IInv, ClockInv
  <1>8. RunInv'
    BY <1>1, <1>4 DEF IInv, RunInv
  <1>9. AloneInv'
    <2> SUFFICES ASSUME NEW u \in Tasks, pc'[u] # "idle", ~shared'[u]
                 PROVE  /\ \A v \in Tasks \ {u} : pc'[v] = "idle"
                        /\ pc'[u] \in {"loop", "stop"} => sntp'
      BY DEF AloneInv
    <2>1. u = t
      BY <1>1, <1>3
    <2>2. Others(t) = {}
      BY <2>1, <1>3
    <2> QED
      BY <2>1, <2>2, <1>1 DEF Others
  <1> QED
    BY <1>5, <1>6, <1>7, <1>8, <1>9 DEF IInv

LEMMA SetModeInv == ASSUME IInv, NEW t \in Tasks, SetMode(t) PROVE IInv'
  <1>1. /\ pc' \in [Tasks -> {"idle", "mode", "init", "loop", "stop"}]
        /\ pc'[t] = "init" /\ \A u \in Tasks \ {t} : pc'[u] = pc[u]
    BY Moves DEF IInv, SetMode
  <1>2. pc[t] = "mode" /\ ~sntp /\ UNCHANGED <<clock, sntp, retry, shared>>
    BY DEF SetMode
  <1> QED
    BY <1>1, <1>2 DEF IInv, TypeOK, CountInv, ClockInv, RunInv, AloneInv

LEMMA StartInv == ASSUME IInv, NEW t \in Tasks, Start(t) PROVE IInv'
  <1>1. /\ pc' \in [Tasks -> {"idle", "mode", "init", "loop", "stop"}]
        /\ pc'[t] = "loop" /\ \A u \in Tasks \ {t} : pc'[u] = pc[u]
    BY Moves DEF IInv, Start
  <1>2. pc[t] = "init" /\ sntp' = TRUE /\ UNCHANGED <<clock, retry, shared>>
    BY DEF Start
  <1> QED
    BY <1>1, <1>2 DEF IInv, TypeOK, CountInv, ClockInv, RunInv, AloneInv

LEMMA SynchroniseInv == ASSUME IInv, Synchronise PROVE IInv'
  BY DEF Synchronise, IInv, TypeOK, CountInv, ClockInv, RunInv, AloneInv

LEMMA LookInv == ASSUME IInv, NEW t \in Tasks, Look(t) PROVE IInv'
  <1> DEFINE next == IF clock \/ retry'[t] = RetryCount THEN "stop" ELSE "loop"
  <1>1. /\ pc' \in [Tasks -> {"idle", "mode", "init", "loop", "stop"}]
        /\ pc'[t] = next /\ \A u \in Tasks \ {t} : pc'[u] = pc[u]
    BY Moves DEF IInv, Look
  <1>2. pc[t] = "loop" /\ UNCHANGED <<clock, sntp, shared>>
    BY DEF Look
  <1>3. retry[t] \in Nat /\ retry[t] < RetryCount
    BY <1>2 DEF IInv, TypeOK, CountInv
  <1>4. /\ retry' \in [Tasks -> 0 .. RetryCount]
        /\ retry'[t] = (IF clock THEN retry[t] ELSE retry[t] + 1)
        /\ \A u \in Tasks \ {t} : retry'[u] = retry[u]
    BY <1>3, RetryAssumption DEF IInv, TypeOK, Look
  <1>5. TypeOK'
    BY <1>1, <1>2, <1>4 DEF IInv, TypeOK
  <1>6. CountInv'
    BY <1>1, <1>2, <1>3, <1>4, RetryAssumption DEF IInv, CountInv
  <1>7. ClockInv'
    BY <1>1, <1>2, <1>4 DEF IInv, ClockInv
  <1>8. RunInv'
    BY <1>1, <1>2 DEF IInv, RunInv
  <1>9. AloneInv'
    BY <1>1, <1>2 DEF IInv, AloneInv
  <1> QED
    BY <1>5, <1>6, <1>7, <1>8, <1>9 DEF IInv

\* Whoever stops the client leaves nobody alone with a client that does not run: a task
\* that waits beside it has shared the call.
LEMMA StopInv == ASSUME IInv, NEW t \in Tasks, Stop(t) PROVE IInv'
  <1>1. /\ pc' \in [Tasks -> {"idle", "mode", "init", "loop", "stop"}]
        /\ pc'[t] = "idle" /\ \A u \in Tasks \ {t} : pc'[u] = pc[u]
    BY Moves DEF IInv, Stop
  <1>2. pc[t] = "stop" /\ sntp' = FALSE /\ UNCHANGED <<clock, retry, shared>>
    BY DEF Stop
  <1> QED
    BY <1>1, <1>2 DEF IInv, TypeOK, CountInv, ClockInv, RunInv, AloneInv

LEMMA NextInv == IInv /\ [Next]_vars => IInv'
  <1> SUFFICES ASSUME IInv, [Next]_vars PROVE IInv'
    OBVIOUS
  <1>1. ASSUME NEW t \in Tasks, Call(t) PROVE IInv'
    BY <1>1, CallInv
  <1>2. ASSUME NEW t \in Tasks, Step(t) PROVE IInv'
    <2>1. CASE SetMode(t)
      BY <2>1, SetModeInv
    <2>2. CASE Abort(t)
      BY <2>2, AsleepInv DEF Abort, IInv, TypeOK
    <2>3. CASE Start(t)
      BY <2>3, StartInv
    <2>4. CASE Look(t)
      BY <2>4, LookInv
    <2>5. CASE Stop(t)
      BY <2>5, StopInv
    <2> QED
      BY <1>2, <2>1, <2>2, <2>3, <2>4, <2>5 DEF Step
  <1>3. CASE Synchronise
    BY <1>3, SynchroniseInv
  <1>4. CASE Restart
    BY <1>4, AsleepInv DEF Restart, IInv, TypeOK
  <1>5. CASE UNCHANGED vars
    BY <1>5 DEF vars, IInv, TypeOK, CountInv, ClockInv, RunInv, AloneInv
  <1> QED
    BY <1>1, <1>2, <1>3, <1>4, <1>5 DEF Next

LEMMA Invariance == Spec => []IInv
  BY InitInv, NextInv, PTL DEF Spec

-----------------------------------------------------------------------------
\* The state of obtain_time's callers is of its type; retry never exceeds retry_count.
THEOREM TypeCorrect == Spec => []TypeOK
  <1>1. IInv => TypeOK
    BY DEF IInv
  <1> QED
    BY <1>1, Invariance, PTL

\* A task that had obtain_time to itself never waits for a client that does not run.
THEOREM WaitCorrect == Spec => []NobodyWaitsInVain
  <1>1. IInv => NobodyWaitsInVain
    BY DEF IInv, AloneInv, NobodyWaitsInVain
  <1> QED
    BY <1>1, Invariance, PTL

\* The assertion in sntp_setoperatingmode (line 282) fails only while another task is
\* between its sntp_init and its sntp_stop.
THEOREM AbortCorrect == Spec => AbortNeedsOverlap
  <1>1. IInv /\ [Next]_vars =>
          [\A t \in Tasks : Abort(t) => \E u \in Others(t) : pc[u] \in {"loop", "stop"}]_vars
    <2> SUFFICES ASSUME IInv, NEW t \in Tasks, Abort(t)
                 PROVE  \E u \in Others(t) : pc[u] \in {"loop", "stop"}
      OBVIOUS
    <2>1. sntp /\ pc[t] = "mode"
      BY DEF Abort
    <2>2. PICK u \in Tasks : pc[u] \in {"loop", "stop"}
      BY <2>1 DEF IInv, RunInv
    <2>3. u \in Others(t)
      BY <2>1, <2>2 DEF Others
    <2> QED
      BY <2>2, <2>3
  <1> QED
    BY <1>1, Invariance, PTL DEF Spec, AbortNeedsOverlap

\* A call that does not fail returns a time from a clock that is set.
THEOREM TimeCorrect == Spec => TimeIsReal
  <1>1. IInv /\ [Next]_vars => [\A t \in Tasks : Succeeds(t) => clock]_vars
    BY DEF IInv, ClockInv, Succeeds, Stop
  <1> QED
    BY <1>1, Invariance, PTL DEF Spec, TimeIsReal

-----------------------------------------------------------------------------
(* How long a call can take *)

\* The steps a call has left at most: the mode, the start, the looks, and the stop.
StepsLeft(t) ==
    CASE pc[t] = "mode" -> RetryCount + 3
      [] pc[t] = "init" -> RetryCount + 2
      [] pc[t] = "loop" -> RetryCount - retry[t] + 1
      [] pc[t] = "stop" -> 1
      [] OTHER -> 0

\* Every step of a call brings it nearer to its end, with and without a time server, and
\* no other task holds it up: what another one does leaves it alone or restarts the device.
CallBounded ==
    [][\A t \in Tasks :
         /\ Step(t) => StepsLeft(t)' < StepsLeft(t)
         /\ pc[t] # "idle" /\ ~Step(t) => StepsLeft(t)' \in {StepsLeft(t), 0}]_vars

\* A step of a call, whatever it finds, leaves it fewer steps.
LEMMA StepCounts ==
    ASSUME IInv, IInv', NEW t \in Tasks, Step(t)
    PROVE  StepsLeft(t)' < StepsLeft(t)
  <1>0. RetryCount \in Nat /\ RetryCount >= 1
    BY RetryAssumption
  <1>1. retry[t] \in 0 .. RetryCount /\ (pc[t] \in {"mode", "init", "loop"} => retry[t] < RetryCount)
    BY DEF IInv, TypeOK, CountInv
  <1>2. CASE SetMode(t)
    <2>1. pc[t] = "mode" /\ pc'[t] = "init"
      BY <1>2, Moves DEF SetMode, IInv
    <2> QED
      BY <1>0, <2>1 DEF StepsLeft
  <1>3. CASE Abort(t)
    <2>1. pc[t] = "mode" /\ pc'[t] = "idle"
      BY <1>3 DEF Abort, Asleep
    <2> QED
      BY <1>0, <2>1 DEF StepsLeft
  <1>4. CASE Start(t)
    <2>1. pc[t] = "init" /\ pc'[t] = "loop" /\ retry'[t] = retry[t]
      BY <1>4, Moves DEF Start, IInv
    <2> QED
      BY <1>0, <1>1, <2>1 DEF StepsLeft
  <1>5. CASE Look(t)
    <2>1. pc[t] = "loop" /\ retry'[t] = (IF clock THEN retry[t] ELSE retry[t] + 1)
      BY <1>5 DEF Look, IInv, TypeOK
    <2>2. pc'[t] = IF clock \/ retry'[t] = RetryCount THEN "stop" ELSE "loop"
      BY <1>5 DEF Look, IInv, TypeOK
    <2> QED
      BY <1>0, <1>1, <2>1, <2>2 DEF StepsLeft
  <1>6. CASE Stop(t)
    <2>1. pc[t] = "stop" /\ pc'[t] = "idle"
      BY <1>6, Moves DEF Stop, IInv
    <2> QED
      BY <2>1 DEF StepsLeft
  <1> QED
    BY <1>2, <1>3, <1>4, <1>5, <1>6 DEF Step

\* obtain_time takes at most RetryCount + 3 steps, also without a time server, and when
\* other tasks stop its client: the wait of a device that asks for the time is bounded.
THEOREM CallCounts ==
    Spec => [](\A t \in Tasks : StepsLeft(t) \in 0 .. RetryCount + 3) /\ CallBounded
  <1>1. ASSUME IInv, NEW t \in Tasks PROVE StepsLeft(t) \in 0 .. RetryCount + 3
    <2>1. RetryCount \in Nat /\ retry[t] \in 0 .. RetryCount
      BY <1>1, RetryAssumption DEF IInv, TypeOK
    <2> QED
      BY <2>1 DEF StepsLeft
  <1>2. ASSUME IInv, [Next]_vars, NEW t \in Tasks, pc[t] # "idle", ~Step(t)
        PROVE  StepsLeft(t)' \in {StepsLeft(t), 0}
    <2>1. ASSUME pc'[t] = pc[t], retry'[t] = retry[t] PROVE StepsLeft(t)' = StepsLeft(t)
      BY <2>1 DEF StepsLeft
    <2>2. ASSUME Asleep PROVE StepsLeft(t)' = 0
      BY <2>2 DEF Asleep, StepsLeft
    <2>3. ASSUME NEW u \in Tasks \ {t}, Call(u) \/ Step(u)
          PROVE  StepsLeft(t)' \in {StepsLeft(t), 0}
      <3>1. CASE Abort(u)
        BY <2>2, <3>1 DEF Abort
      <3>2. CASE Call(u) \/ SetMode(u) \/ Start(u) \/ Look(u) \/ Stop(u)
        <4>1. pc'[t] = pc[t] /\ retry'[t] = retry[t]
          BY <1>2, <2>3, <3>2 DEF Call, SetMode, Start, Look, Stop, IInv, TypeOK
        <4> QED
          BY <2>1, <4>1
      <3> QED
        BY <2>3, <3>1, <3>2 DEF Step
    <2>4. CASE Synchronise \/ UNCHANGED vars
      BY <2>1, <2>4 DEF Synchronise, vars
    <2>5. ~Call(t)
      BY <1>2 DEF Call
    <2> QED
      BY <1>2, <2>2, <2>3, <2>4, <2>5 DEF Next, Restart
  <1>3. IInv /\ IInv' /\ [Next]_vars =>
          [\A t \in Tasks :
             /\ Step(t) => StepsLeft(t)' < StepsLeft(t)
             /\ pc[t] # "idle" /\ ~Step(t) => StepsLeft(t)' \in {StepsLeft(t), 0}]_vars
    BY <1>2, StepCounts
  <1> QED
    <2>1. IInv => \A t \in Tasks : StepsLeft(t) \in 0 .. RetryCount + 3
      BY <1>1
    <2> QED
      BY <1>3, <2>1, Invariance, PTL DEF Spec, CallBounded
=============================================================================
