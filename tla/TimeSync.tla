------------------------------ MODULE TimeSync ------------------------------
(***************************************************************************)
(* obtain_time: before a task puts a time into a message it starts the     *)
(* SNTP client, waits until the clock is set, and stops the client.  There *)
(* is one client, three tasks use it (app_main and after it main_task, the *)
(* MQTT task with every control request, the UART task with most of its    *)
(* commands), and nothing keeps them apart.  The client asserts that its   *)
(* mode is not set while it runs; assertions are enabled (sdkconfig), and  *)
(* one that fails restarts the device.                                     *)
(***************************************************************************)
EXTENDS Naturals

CONSTANTS
    Tasks,       \* the tasks that ask for the time
    RetryCount   \* retry_count

ASSUME RetryAssumption == RetryCount \in Nat \ {0}

VARIABLES
    clock,    \* the system time is set (later than 2015)
    sntp,     \* the SNTP client runs
    pc,       \* each task's progress through obtain_time: before
              \* sntp_setoperatingmode, before sntp_init, in the loop, before sntp_stop
    retry,    \* its local variable
    shared    \* history: another task was in obtain_time during the present call

vars == <<clock, sntp, pc, retry, shared>>

Others(t) == {u \in Tasks \ {t} : pc[u] # "idle"}

TypeOK ==
    /\ clock \in BOOLEAN
    /\ sntp \in BOOLEAN
    /\ pc \in [Tasks -> {"idle", "mode", "init", "loop", "stop"}]
    /\ retry \in [Tasks -> 0 .. RetryCount]
    /\ shared \in [Tasks -> BOOLEAN]

Init ==
    /\ clock = FALSE
    /\ sntp = FALSE
    /\ pc = [t \in Tasks |-> "idle"]
    /\ retry = [t \in Tasks |-> 0]
    /\ shared = [t \in Tasks |-> FALSE]

-----------------------------------------------------------------------------
Call(t) ==
    /\ pc[t] = "idle"
    /\ pc' = [pc EXCEPT ![t] = "mode"]
    /\ retry' = [retry EXCEPT ![t] = 0]
    /\ shared' = [u \in Tasks |->
                    IF u = t THEN Others(t) # {} ELSE shared[u] \/ pc[u] # "idle"]
    /\ UNCHANGED <<clock, sntp>>

\* sntp_setoperatingmode
SetMode(t) ==
    /\ pc[t] = "mode"
    /\ ~sntp
    /\ pc' = [pc EXCEPT ![t] = "init"]
    /\ UNCHANGED <<clock, sntp, retry, shared>>

Asleep ==
    /\ sntp' = FALSE
    /\ pc' = [t \in Tasks |-> "idle"]
    /\ retry' = [t \in Tasks |-> 0]
    /\ shared' = [t \in Tasks |-> FALSE]

\* The assertion fails.  The clock of the RTC goes on over a panic.
Abort(t) ==
    /\ pc[t] = "mode"
    /\ sntp
    /\ Asleep
    /\ UNCHANGED clock

Start_forgotten(t) ==
    /\ pc[t] = "init"
    /\ pc' = [pc EXCEPT ![t] = "loop"]
    /\ UNCHANGED <<clock, sntp, retry, shared>>

\* sntp_init, which does nothing if the client runs
Start(t) ==
    /\ pc[t] = "init"
    /\ sntp' = TRUE
    /\ pc' = [pc EXCEPT ![t] = "loop"]
    /\ UNCHANGED <<clock, retry, shared>>

\* The client hears from a time server, for whichever task it was started.
Synchronise ==
    /\ sntp
    /\ ~clock
    /\ clock' = TRUE
    /\ UNCHANGED <<sntp, pc, retry, shared>>

Look_notCounted(t) ==
    /\ pc[t] = "loop"
    /\ clock
    /\ pc' = [pc EXCEPT ![t] = "stop"]
    /\ UNCHANGED <<clock, sntp, retry, shared>>

\* The condition of the loop: only a look at a clock that is not set is counted.
Look(t) ==
    /\ pc[t] = "loop"
    /\ retry' = [retry EXCEPT ![t] = IF clock THEN @ ELSE @ + 1]
    /\ pc' = [pc EXCEPT ![t] = IF clock \/ retry'[t] = RetryCount THEN "stop" ELSE "loop"]
    /\ UNCHANGED <<clock, sntp, shared>>

Stop_onSuccess(t) ==
    /\ pc[t] = "stop"
    /\ sntp' = (sntp /\ retry[t] = RetryCount)
    /\ pc' = [pc EXCEPT ![t] = "idle"]
    /\ UNCHANGED <<clock, retry, shared>>

\* sntp_stop, and the return with or without a time
Stop(t) ==
    /\ pc[t] = "stop"
    /\ sntp' = FALSE
    /\ pc' = [pc EXCEPT ![t] = "idle"]
    /\ UNCHANGED <<clock, retry, shared>>

\* The test after the loop: with RetryCount looks the call has failed.
Succeeds(t) == Stop(t) /\ retry[t] # RetryCount

\* A restart for some other reason, with or without a loss of power
Restart ==
    /\ Asleep
    /\ clock' \in {clock, FALSE}

-----------------------------------------------------------------------------
Step(t) == SetMode(t) \/ Abort(t) \/ Start(t) \/ Look(t) \/ Stop(t)

Next ==
    \/ \E t \in Tasks : Call(t) \/ Step(t)
    \/ Synchronise
    \/ Restart

Spec == Init /\ [][Next]_vars

\* Every task that is ready is scheduled.  Nothing is assumed of the time server.
FairSpec == Spec /\ \A t \in Tasks : WF_vars(Step(t))

-----------------------------------------------------------------------------
(* Properties *)

\* Asking for the time restarts the device only while another task waits for it or is
\* about to stop the client (obtain_time, line 282): no call leaves the client behind for
\* the next one, whether it got a time or not, nor do two calls that shared the client.
AbortNeedsOverlap ==
    [][\A t \in Tasks : Abort(t) => \E u \in Others(t) : pc[u] \in {"loop", "stop"}]_vars

\* A task that had obtain_time to itself waits for the clock only while the client runs
\* that sets it.  (One that had not can find it stopped by the other, line 306.)
NobodyWaitsInVain == \A t \in Tasks : pc[t] = "loop" /\ ~shared[t] => sntp

\* A call that does not return -1 returns a time from a clock that is set, also when the
\* clock was set after the last look but one, and whoever set it (lines 297 to 308).
TimeIsReal == [][\A t \in Tasks : Succeeds(t) => clock]_vars

\* Every call ends: without a time server, and with a client another task has stopped.
CallEnds == \A t \in Tasks : pc[t] # "idle" ~> pc[t] = "idle"
=============================================================================
