--------------------------- MODULE NotifyContract ---------------------------
(***************************************************************************)
(* What a caller of the SDK's notifications may rely on, without messages, *)
(* rounds or sequence numbers: its parameters leave in the order it gave   *)
(* them, none is left out or sent twice, and the call tells it whether     *)
(* they all left.                                                          *)
(***************************************************************************)
EXTENDS Integers

CONSTANTS Senders, MaxParams

VARIABLES
    busy,     \* per task: a call is in progress
    count,    \* per task: the number of parameters it passed
    times,    \* per task: how often each of them was sent
    failed    \* per task: the call did not return 1

vars == <<busy, count, times, failed>>

\* The first k parameters were sent once each, and no other.
Sent(k) == [p \in 1 .. MaxParams |-> IF p <= k THEN 1 ELSE 0]

Init ==
    /\ busy = [s \in Senders |-> FALSE]
    /\ count = [s \in Senders |-> 0]
    /\ times = [s \in Senders |-> Sent(0)]
    /\ failed = [s \in Senders |-> FALSE]

Call(s, n) ==
    /\ ~busy[s]
    /\ busy' = [busy EXCEPT ![s] = TRUE]
    /\ count' = [count EXCEPT ![s] = n]
    /\ times' = [times EXCEPT ![s] = Sent(0)]
    /\ failed' = [failed EXCEPT ![s] = FALSE]

\* A message takes the next parameters, as many as the caller's array still has at most.
Send(s) ==
    /\ busy[s]
    /\ \E i \in 0 .. count[s], k \in 0 .. count[s] :
         /\ i <= k
         /\ times[s] = Sent(i)
         /\ times' = [times EXCEPT ![s] = Sent(k)]
    /\ UNCHANGED <<busy, count, failed>>

Return(s) ==
    /\ busy[s]
    /\ times[s] = Sent(count[s])
    /\ busy' = [busy EXCEPT ![s] = FALSE]
    /\ UNCHANGED <<count, times, failed>>

Fail(s) ==
    /\ busy[s]
    /\ busy' = [busy EXCEPT ![s] = FALSE]
    /\ failed' = [failed EXCEPT ![s] = TRUE]
    /\ UNCHANGED <<count, times>>

Next ==
    \E s \in Senders :
        \/ \E n \in 0 .. MaxParams : Call(s, n)
        \/ Send(s) \/ Return(s) \/ Fail(s)

Spec == Init /\ [][Next]_vars
=============================================================================
