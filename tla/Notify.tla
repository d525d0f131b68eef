------------------------------- MODULE Notify -------------------------------
(***************************************************************************)
(* Messages with a sequence number.  Four tasks (main, UART, MQTT, OTA)    *)
(* send requests and notifications through the same SDK functions, which   *)
(* share one counter, sequence, and nothing that protects it.              *)
(*                                                                         *)
(* damda_Notify_DeviceStatus splits its parameters into messages of at     *)
(* most five; damda_Notify_DeviceStatuArr puts them all into one; a        *)
(* request (register, update, delete, ...) is one message without          *)
(* parameters.  All three build a message the same way.                    *)
(***************************************************************************)
EXTENDS Integers

CONSTANTS
    Senders,      \* the tasks that send
    Counts,       \* numbers of parameters callers pass (at most 50)
    MaxSequence   \* MAX_SEQUENCE (10000000)

OneUnit == 5      \* parameters in a full message
MaxParams == 50   \* the length of paramsJson

ASSUME SendersAssumption == Counts \subseteq 0 .. MaxParams /\ MaxSequence \in Nat \ {0, 1}

VARIABLES
    sequence,   \* the shared counter
    call,       \* per task: the call in progress, with its local variables
    times,      \* history, per task: how often the call sent each parameter
    last,       \* history: the number the last message built was given
    raced       \* history: two tasks are between the counter and its copy

vars == <<sequence, call, times, last, raced>>

Numbers == 0 .. MaxSequence - 1

\* A call: iter_count, remainder and j are the local variables of the loop.
Calls == [pc : {"idle", "loop", "store", "print", "publish"},
          count : 0 .. MaxParams, iter_count : -1 .. 10, remainder : 0 .. MaxParams,
          j : 0 .. MaxParams,
          load : Numbers, result : {1, -3}]

InWindow(s) == call[s].pc \in {"store", "print"}

\* The parameters of the message being built: max_iter of them from j on.
MaxIter(s) == IF call[s].iter_count > 0 THEN OneUnit ELSE call[s].remainder
Batch(s) == call[s].j + 1 .. call[s].j + MaxIter(s)

TypeOK ==
    /\ sequence \in Numbers
    /\ call \in [Senders -> Calls]
    /\ times \in [Senders -> [1 .. MaxParams -> Nat]]
    /\ last \in Numbers
    /\ raced \in BOOLEAN

Init ==
    /\ sequence = 0
    /\ call = [s \in Senders |-> [pc |-> "idle", count |-> 0, iter_count |-> -1, remainder |-> 0,
                                  j |-> 0, load |-> 0, result |-> 1]]
    /\ times = [s \in Senders |-> [p \in 1 .. MaxParams |-> 0]]
    /\ last = 0
    /\ raced = FALSE

-----------------------------------------------------------------------------
Begin(s, n, iter_count, remainder) ==
    /\ call[s].pc = "idle"
    /\ call' = [call EXCEPT ![s] = [pc |-> "loop", count |-> n, iter_count |-> iter_count,
                                    remainder |-> remainder, j |-> 0, load |-> 0, result |-> 1]]
    /\ times' = [times EXCEPT ![s] = [p \in 1 .. MaxParams |-> 0]]
    /\ UNCHANGED <<sequence, last, raced>>

DeviceStatus_roundUp(s, n) == Begin(s, n, (n + OneUnit - 1) \div OneUnit, n % OneUnit)

\* damda_Notify_DeviceStatus
DeviceStatus(s, n) == Begin(s, n, n \div OneUnit, n % OneUnit)

\* damda_Notify_DeviceStatuArr
DeviceStatuArr(s, n) == Begin(s, n, 0, n)

\* damda_Req_RegisterDevice and the other requests
Request(s) == Begin(s, 0, 0, 0)

LoadSequence(s) ==
    /\ call[s].pc = "loop"
    /\ call[s].iter_count >= 0
    /\ call' = [call EXCEPT ![s].pc = "store", ![s].load = sequence]
    /\ raced' = (\E u \in Senders \ {s} : InWindow(u))
    /\ UNCHANGED <<sequence, times, last>>

StoreSequence_notIncremented(s) ==
    /\ call[s].pc = "store"
    /\ sequence' = call[s].load % MaxSequence
    /\ call' = [call EXCEPT ![s].pc = "print"]
    /\ UNCHANGED <<times, last, raced>>

StoreSequence(s) ==
    /\ call[s].pc = "store"
    /\ sequence' = (call[s].load + 1) % MaxSequence
    /\ call' = [call EXCEPT ![s].pc = "print"]
    /\ UNCHANGED <<times, last, raced>>

\* sprintf reads the counter again; its text goes into the message.
PrintSequence(s) ==
    /\ call[s].pc = "print"
    /\ last' = sequence
    /\ call' = [call EXCEPT ![s].pc = "publish"]
    /\ UNCHANGED <<sequence, times, raced>>

Publish_notCounted(s) ==
    /\ call[s].pc = "publish"
    /\ times' = [times EXCEPT ![s] = [p \in 1 .. MaxParams |-> IF p \in Batch(s) THEN @[p] + 1 ELSE @[p]]]
    /\ call' = [call EXCEPT ![s].pc = "loop", ![s].j = @ + MaxIter(s)]
    /\ UNCHANGED <<sequence, last, raced>>

Publish(s) ==
    /\ call[s].pc = "publish"
    /\ times' = [times EXCEPT ![s] = [p \in 1 .. MaxParams |-> IF p \in Batch(s) THEN @[p] + 1 ELSE @[p]]]
    /\ call' = [call EXCEPT ![s].pc = "loop", ![s].iter_count = @ - 1, ![s].j = @ + MaxIter(s)]
    /\ UNCHANGED <<sequence, last, raced>>

\* cJSON_PrintUnformatted has no memory: the call ends with -3.
PrintFails(s) ==
    /\ call[s].pc = "publish"
    /\ call' = [call EXCEPT ![s].pc = "idle", ![s].result = -3]
    /\ UNCHANGED <<sequence, times, last, raced>>

Return(s) ==
    /\ call[s].pc = "loop"
    /\ call[s].iter_count < 0
    /\ call' = [call EXCEPT ![s].pc = "idle"]
    /\ UNCHANGED <<sequence, times, last, raced>>

Step(s) == LoadSequence(s) \/ StoreSequence(s) \/ PrintSequence(s)
           \/ Publish(s) \/ PrintFails(s) \/ Return(s)

Next == \E s \in Senders :
    \/ \E n \in Counts : DeviceStatus(s, n) \/ DeviceStatuArr(s, n)
    \/ Request(s)
    \/ Step(s)

Spec == Init /\ [][Next]_vars

\* FreeRTOS schedules every task that is ready; publishing does not block.
FairSpec == Spec /\ \A s \in Senders : WF_vars(Step(s))

-----------------------------------------------------------------------------
(* Properties *)

\* A call that returned 1 sent every parameter exactly once; one that ran out of
\* memory sent each parameter of the messages before, and none twice.
EveryParameterOnce ==
    \A s \in Senders : call[s].pc = "idle" =>
        \A p \in 1 .. MaxParams :
            times[s][p] = IF p <= IF call[s].result = 1 THEN call[s].count ELSE call[s].j
                          THEN 1 ELSE 0

\* No message is built from beyond the array the caller passed, whatever the
\* remainder and however the last round ends.
WithinArray ==
    \A s \in Senders : call[s].pc = "publish" => Batch(s) \subseteq 1 .. call[s].count

\* Two messages built one after the other carry different sequence numbers,
\* also when the counter wraps, unless two tasks were between the counter and
\* its copy at the same time.
SequenceAdvances ==
    [][\A s \in Senders : PrintSequence(s) /\ ~raced => last' # last]_vars

\* A notification ends after finitely many messages.
CallReturns == \A s \in Senders : call[s].pc # "idle" ~> call[s].pc = "idle"

\* Four tasks, one counter and the rounds of five implement the contract of a call: its
\* parameters leave in order and once each, and its result says whether all of them did.
Contract == INSTANCE NotifyContract WITH
                busy <- [s \in Senders |-> call[s].pc # "idle"],
                count <- [s \in Senders |-> call[s].count],
                failed <- [s \in Senders |-> call[s].result # 1]

ImplementsContract == Contract!Spec
=============================================================================
