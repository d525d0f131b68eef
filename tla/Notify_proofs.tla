---------------------------- MODULE Notify_proofs ----------------------------
(***************************************************************************)
(* Proofs about Notify, for every set of sending tasks, every number of    *)
(* parameters up to 50 and every length of the sequence counter.           *)
(***************************************************************************)
EXTENDS Notify, TLAPS

\* The loop of one call: what was sent, what is left, and when it ends.
LoopOf(s) ==
    /\ call[s].pc # "idle" => call[s].result = 1
    /\ call[s].pc \in {"store", "print", "publish"} => call[s].iter_count >= 0
    /\ call[s].pc # "idle" /\ call[s].iter_count >= 0 =>
         call[s].j + OneUnit * call[s].iter_count + call[s].remainder = call[s].count
    /\ call[s].pc # "idle" /\ call[s].iter_count < 0 => call[s].j = call[s].count
    /\ call[s].pc = "idle" /\ call[s].result = 1 => call[s].j = call[s].count
    /\ call[s].j <= call[s].count
    /\ \A p \in 1 .. MaxParams : times[s][p] = IF p <= call[s].j THEN 1 ELSE 0

LoopInv == TypeOK /\ \A s \in Senders : LoopOf(s)

\* The counter, seen by the tasks between reading it and printing it.
CounterInv ==
    /\ (\A s \in Senders : ~InWindow(s)) => last = sequence
    /\ ~raced =>
         /\ \A s, u \in Senders : InWindow(s) /\ InWindow(u) => s = u
         /\ \A s \in Senders :
              /\ call[s].pc = "store" => call[s].load = sequence /\ last = sequence
              /\ call[s].pc = "print" => sequence = (last + 1) % MaxSequence

-----------------------------------------------------------------------------
\* The counter stays in range and, having at least two values, moves.
LEMMA Modulo ==
    ASSUME NEW x \in Numbers
    PROVE  (x + 1) % MaxSequence \in Numbers /\ (x + 1) % MaxSequence # x
  <1>1. MaxSequence \in Nat /\ MaxSequence >= 2 /\ x \in 0 .. MaxSequence - 1
    BY SendersAssumption DEF Numbers
  <1>2. CASE x + 1 < MaxSequence
    <2>1. (x + 1) % MaxSequence = x + 1
      BY <1>1, <1>2
    <2> QED
      BY <1>1, <1>2, <2>1 DEF Numbers
  <1>3. CASE x + 1 = MaxSequence
    <2>1. (x + 1) % MaxSequence = 0
      BY <1>1, <1>3
    <2> QED
      BY <1>1, <1>3, <2>1 DEF Numbers
  <1> QED
    BY <1>1, <1>2, <1>3

\* Quotient and remainder of the division into messages of five.
LEMMA DivisionNat ==
    ASSUME NEW n \in Nat
    PROVE  5 * (n \div 5) + (n % 5) = n /\ n % 5 \in 0 .. 4 /\ n \div 5 \in Nat
  BY SMT

\* A call starts with as many full messages as fit and the rest in the last.
LEMMA Division ==
    ASSUME NEW n \in 0 .. MaxParams
    PROVE  /\ n \div OneUnit \in 0 .. 10 /\ n % OneUnit \in 0 .. MaxParams
           /\ OneUnit * (n \div OneUnit) + (n % OneUnit) = n
  <1>1. n \in Nat /\ n <= 50
    BY DEF MaxParams
  <1>2. 5 * (n \div 5) + (n % 5) = n /\ n % 5 \in 0 .. 4 /\ n \div 5 \in Nat
    BY <1>1, DivisionNat
  <1>3. ASSUME NEW q \in Nat, NEW r \in 0 .. 4, 5 * q + r = n
        PROVE  q \in 0 .. 10 /\ r \in 0 .. 50
    BY <1>1, <1>3
  <1>4. n \div 5 \in 0 .. 10 /\ n % 5 \in 0 .. 50
    BY <1>2, <1>3
  <1>5. n \div OneUnit \in 0 .. 10 /\ n % OneUnit \in 0 .. MaxParams
    BY <1>4 DEF OneUnit, MaxParams
  <1>6. OneUnit * (n \div OneUnit) + (n % OneUnit) = n
    BY <1>2 DEF OneUnit
  <1> QED
    BY Zenon, <1>5, <1>6

\* Before any call, the loop invariant holds.
LEMMA InitLoop == Init => LoopInv
  <1> SUFFICES ASSUME Init PROVE LoopInv
    OBVIOUS
  <1>1. 0 \in Numbers
    BY SendersAssumption DEF Numbers
  <1>2. TypeOK
    <2>1. times \in [Senders -> [1 .. MaxParams -> Nat]]
      BY DEF Init
    <2>2. call \in [Senders -> Calls]
      BY <1>1 DEF Init, Calls, MaxParams
    <2> QED
      BY <1>1, <2>1, <2>2 DEF Init, TypeOK
  <1>3. ASSUME NEW s \in Senders PROVE LoopOf(s)
    BY DEF Init, LoopOf, MaxParams
  <1> QED
    BY <1>2, <1>3 DEF LoopInv

\* A call that splits its parameters exactly starts inside the loop invariant.
LEMMA BeginLoop ==
    ASSUME LoopInv, NEW s \in Senders, NEW n \in 0 .. MaxParams, NEW k \in 0 .. 10,
           NEW r \in 0 .. MaxParams, OneUnit * k + r = n, Begin(s, n, k, r)
    PROVE  LoopInv'
  <1> DEFINE c == [pc |-> "loop", count |-> n, iter_count |-> k, remainder |-> r, j |-> 0,
                   load |-> 0, result |-> 1]
  <1>1. c \in Calls
    BY SendersAssumption DEF Calls, Numbers, MaxParams
  <1>2. call' \in [Senders -> Calls] /\ call'[s] = c
        /\ \A u \in Senders \ {s} : call'[u] = call[u] /\ times'[u] = times[u]
    BY <1>1 DEF Begin, LoopInv, TypeOK
  <1>3. times'[s] = [p \in 1 .. MaxParams |-> 0]
    BY DEF Begin, LoopInv, TypeOK
  <1> QED
    BY <1>2, <1>3 DEF Begin, LoopInv, TypeOK, LoopOf, OneUnit

\* Every step of every sender keeps the loop invariant.
LEMMA NextLoop == LoopInv /\ [Next]_vars => LoopInv'
  <1> SUFFICES ASSUME LoopInv, [Next]_vars PROVE LoopInv'
    OBVIOUS
  <1>0. call \in [Senders -> Calls] /\ times \in [Senders -> [1 .. MaxParams -> Nat]]
        /\ sequence \in Numbers /\ \A s \in Senders : LoopOf(s)
    BY DEF LoopInv, TypeOK
  <1>1. ASSUME NEW s \in Senders, NEW n \in Counts,
               DeviceStatus(s, n) \/ DeviceStatuArr(s, n)
        PROVE  LoopInv'
    <2>1. n \in 0 .. MaxParams
      BY SendersAssumption
    <2>2. CASE DeviceStatus(s, n)
      <3>1. \E k \in 0 .. 10, r \in 0 .. MaxParams : OneUnit * k + r = n /\ Begin(s, n, k, r)
        <4>1. Begin(s, n, n \div OneUnit, n % OneUnit)
          BY <2>2 DEF DeviceStatus
        <4>2. /\ n \div OneUnit \in 0 .. 10 /\ n % OneUnit \in 0 .. MaxParams
              /\ OneUnit * (n \div OneUnit) + (n % OneUnit) = n
          BY <2>1, Division
        <4> QED
          BY ZenonT(30), <4>1, <4>2
      <3> QED
        BY <2>1, <3>1, BeginLoop
    <2>3. CASE DeviceStatuArr(s, n)
      BY <2>1, <2>3, BeginLoop DEF DeviceStatuArr, OneUnit, MaxParams
    <2> QED
      BY <1>1, <2>2, <2>3
  <1>2. ASSUME NEW s \in Senders, Request(s) PROVE LoopInv'
    BY <1>2, BeginLoop DEF Request, OneUnit, MaxParams
  \* A step of the loop concerns the variables of one call.
  <1>3. ASSUME NEW s \in Senders,
               \A u \in Senders \ {s} : call'[u] = call[u] /\ times'[u] = times[u],
               TypeOK', LoopOf(s)'
        PROVE  LoopInv'
    BY <1>0, <1>3 DEF LoopInv, LoopOf
  <1>4. ASSUME NEW s \in Senders, LoadSequence(s) PROVE LoopInv'
    <2>1. TypeOK'
      <3>1. call' \in [Senders -> Calls]
        BY <1>0, <1>4 DEF LoadSequence, Calls
      <3>2. raced' \in BOOLEAN
        BY <1>4 DEF LoadSequence
      <3> QED
        BY <1>4, <3>1, <3>2 DEF LoadSequence, LoopInv, TypeOK
    <2>2. LoopOf(s)'
      BY <1>0, <1>4 DEF LoadSequence, LoopOf, Calls
    <2> QED
      BY <1>0, <1>3, <1>4, <2>1, <2>2 DEF LoadSequence
  <1>5. ASSUME NEW s \in Senders, StoreSequence(s) PROVE LoopInv'
    <2>1. sequence' \in Numbers
      BY <1>0, <1>5, Modulo DEF StoreSequence, Calls
    <2>2. TypeOK'
      BY <1>5, <2>1 DEF StoreSequence, LoopInv, TypeOK, Calls
    <2>3. LoopOf(s)'
      BY <1>0, <1>5 DEF StoreSequence, LoopOf, Calls
    <2> QED
      BY <1>0, <1>3, <1>5, <2>2, <2>3 DEF StoreSequence
  <1>6. ASSUME NEW s \in Senders, PrintSequence(s) PROVE LoopInv'
    <2>1. TypeOK'
      BY <1>6 DEF PrintSequence, LoopInv, TypeOK, Calls
    <2>2. LoopOf(s)'
      BY <1>0, <1>6 DEF PrintSequence, LoopOf, Calls
    <2> QED
      BY <1>0, <1>3, <1>6, <2>1, <2>2 DEF PrintSequence
  <1>7. ASSUME NEW s \in Senders, Publish(s) PROVE LoopInv'
    <2> DEFINE i == call[s].iter_count  j == call[s].j  m == MaxIter(s)
    <2>1. /\ i \in 0 .. 10 /\ j \in 0 .. MaxParams /\ call[s].remainder \in 0 .. MaxParams
          /\ call[s].count \in 0 .. MaxParams /\ call[s].result = 1
          /\ j + 5 * i + call[s].remainder = call[s].count
      BY <1>0, <1>7 DEF Publish, LoopOf, Calls, OneUnit
    <2>2. m \in 0 .. MaxParams /\ m = IF i > 0 THEN 5 ELSE call[s].remainder
      BY <2>1 DEF MaxIter, OneUnit, MaxParams
    <2>3. call'[s] = [call[s] EXCEPT !.pc = "loop", !.iter_count = i - 1, !.j = j + m]
          /\ \A u \in Senders \ {s} : call'[u] = call[u] /\ times'[u] = times[u]
      BY <1>0, <1>7 DEF Publish
    <2>4. j + m <= call[s].count /\ (i > 0 => (j + m) + 5 * (i - 1) + call[s].remainder = call[s].count)
          /\ (i = 0 => j + m = call[s].count)
      BY <2>1, <2>2
    <2>5. times'[s] = [p \in 1 .. MaxParams |-> IF p \in Batch(s) THEN times[s][p] + 1 ELSE times[s][p]]
      BY <1>0, <1>7 DEF Publish
    <2>6. \A p \in 1 .. MaxParams : p \in Batch(s) <=> j < p /\ p <= j + m
      BY <2>1, <2>2 DEF Batch, MaxParams
    <2>7. \A p \in 1 .. MaxParams : times'[s][p] = IF p <= j + m THEN 1 ELSE 0
      <3>1. \A p \in 1 .. MaxParams : times[s][p] = IF p <= j THEN 1 ELSE 0
        BY <1>0 DEF LoopOf
      <3>2. \A p \in 1 .. MaxParams : times'[s][p] =
              IF j < p /\ p <= j + m THEN times[s][p] + 1 ELSE times[s][p]
        BY <2>5, <2>6
      <3>3. j \in Nat /\ m \in Nat /\ \A p \in 1 .. MaxParams : p \in Nat
        BY <2>1, <2>2 DEF MaxParams
      <3> HIDE DEF j, m
      <3> QED
        BY <3>1, <3>2, <3>3
    <2>8. call'[s] \in Calls
      <3>1. i - 1 \in -1 .. 10 /\ j + m \in 0 .. MaxParams
        BY <2>1, <2>2, <2>4 DEF MaxParams
      <3> HIDE DEF i, j, m
      <3> QED
        BY <1>0, <2>3, <3>1 DEF Calls
    <2>9. TypeOK'
      <3>1. call' \in [Senders -> Calls]
        BY <1>0, <1>7, <2>3, <2>8 DEF Publish
      <3>2. times' \in [Senders -> [1 .. MaxParams -> Nat]]
        <4>1. times'[s] \in [1 .. MaxParams -> Nat]
          BY <2>5, <2>7
        <4> QED
          BY <1>0, <1>7, <4>1 DEF Publish
      <3> QED
        BY <1>7, <3>1, <3>2 DEF Publish, LoopInv, TypeOK
    <2>10. /\ call'[s].pc = "loop" /\ call'[s].iter_count = i - 1 /\ call'[s].j = j + m
           /\ call'[s].count = call[s].count /\ call'[s].remainder = call[s].remainder
           /\ call'[s].result = 1
      BY <1>0, <2>1, <2>3 DEF Calls
    <2> HIDE DEF i, j, m
    <2>11. LoopOf(s)'
      BY <2>1, <2>4, <2>7, <2>10 DEF LoopOf, OneUnit
    <2> QED
      BY <1>3, <2>3, <2>9, <2>11
  <1>8. ASSUME NEW s \in Senders, PrintFails(s) PROVE LoopInv'
    <2>1. TypeOK'
      BY <1>8 DEF PrintFails, LoopInv, TypeOK, Calls
    <2>2. LoopOf(s)'
      BY <1>0, <1>8 DEF PrintFails, LoopOf, Calls
    <2> QED
      BY <1>0, <1>3, <1>8, <2>1, <2>2 DEF PrintFails
  <1>9. ASSUME NEW s \in Senders, Return(s) PROVE LoopInv'
    <2>1. TypeOK'
      BY <1>9 DEF Return, LoopInv, TypeOK, Calls
    <2>2. LoopOf(s)'
      BY <1>0, <1>9 DEF Return, LoopOf, Calls
    <2> QED
      BY <1>0, <1>3, <1>9, <2>1, <2>2 DEF Return
  <1>10. CASE UNCHANGED vars
    BY <1>0, <1>10 DEF vars, LoopInv, TypeOK, LoopOf
  <1> QED
    BY <1>1, <1>2, <1>4, <1>5, <1>6, <1>7, <1>8, <1>9, <1>10 DEF Next, Step

\* The loop of damda_Notify_DeviceStatus has sent the first j parameters once
\* each and has exactly the others left.
THEOREM LoopCorrect == Spec => []LoopInv
  BY InitLoop, NextLoop, PTL DEF Spec

\* The counter stays below MAX_SEQUENCE, and the loop's variables in their ranges.
THEOREM TypeCorrect == Spec => []TypeOK
  <1>1. LoopInv => TypeOK
    BY DEF LoopInv
  <1> QED
    BY <1>1, LoopCorrect, PTL

\* A call that returns 1 has sent each of its parameters once, and a call that
\* failed none twice.
THEOREM SentOnce == Spec => []EveryParameterOnce
  <1>1. LoopInv => EveryParameterOnce
    BY DEF LoopInv, LoopOf, EveryParameterOnce
  <1> QED
    BY <1>1, LoopCorrect, PTL

\* No message reads beyond the caller's array.
THEOREM StaysWithinArray == Spec => []WithinArray
  <1>1. ASSUME LoopInv, NEW s \in Senders, call[s].pc = "publish"
        PROVE  Batch(s) \subseteq 1 .. call[s].count
    <2>1. /\ call[s].iter_count \in 0 .. 10 /\ call[s].j \in Nat /\ call[s].remainder \in Nat
          /\ call[s].j + 5 * call[s].iter_count + call[s].remainder = call[s].count
      BY <1>1 DEF LoopInv, LoopOf, TypeOK, Calls, OneUnit
    <2>2. MaxIter(s) = IF call[s].iter_count > 0 THEN 5 ELSE call[s].remainder
      BY DEF MaxIter, OneUnit
    <2> QED
      BY <2>1, <2>2 DEF Batch
  <1> QED
    <2>1. LoopInv => WithinArray
      BY <1>1 DEF WithinArray
    <2> QED
      BY <2>1, LoopCorrect, PTL

-----------------------------------------------------------------------------
\* Every step of every sender keeps the invariant on the sequence counter.
LEMMA NextCounter == LoopInv /\ CounterInv /\ [Next]_vars => CounterInv'
  <1> SUFFICES ASSUME LoopInv, CounterInv, [Next]_vars PROVE CounterInv'
    OBVIOUS
  <1>0. call \in [Senders -> Calls] /\ sequence \in Numbers
    BY DEF LoopInv, TypeOK
  <1>1. ASSUME NEW s \in Senders, UNCHANGED <<sequence, last, raced>>,
               \A u \in Senders \ {s} : call'[u] = call[u],
               ~InWindow(s), ~InWindow(s)'
        PROVE  CounterInv'
    BY <1>1 DEF CounterInv, InWindow
  <1>2. ASSUME NEW s \in Senders, NEW n, NEW k, NEW r, Begin(s, n, k, r) PROVE CounterInv'
    BY <1>0, <1>1, <1>2 DEF Begin, InWindow
  <1>3. ASSUME NEW s \in Senders, Publish(s) \/ PrintFails(s) \/ Return(s) PROVE CounterInv'
    <2>1. ~InWindow(s) /\ UNCHANGED <<sequence, last, raced>>
      BY <1>3 DEF Publish, PrintFails, Return, InWindow
    <2>2. ~InWindow(s)' /\ \A u \in Senders \ {s} : call'[u] = call[u]
      BY <1>0, <1>3 DEF Publish, PrintFails, Return, InWindow, Calls
    <2> QED
      BY <1>1, <2>1, <2>2
  <1>4. ASSUME NEW s \in Senders, LoadSequence(s) PROVE CounterInv'
    <2>1. call'[s].pc = "store" /\ call'[s].load = sequence /\ ~InWindow(s)
          /\ \A u \in Senders \ {s} : call'[u] = call[u]
      BY <1>0, <1>4 DEF LoadSequence, Calls, InWindow
    <2>2. UNCHANGED <<sequence, last>> /\ (raced' <=> \E u \in Senders \ {s} : InWindow(u))
      BY <1>4 DEF LoadSequence
    <2> QED
      BY <2>1, <2>2 DEF CounterInv, InWindow
  <1>5. ASSUME NEW s \in Senders, StoreSequence(s) PROVE CounterInv'
    <2>1. call'[s].pc = "print" /\ call[s].pc = "store"
          /\ \A u \in Senders \ {s} : call'[u] = call[u]
      BY <1>0, <1>5 DEF StoreSequence, Calls
    <2>2. UNCHANGED <<last, raced>> /\ sequence' = (call[s].load + 1) % MaxSequence
      BY <1>5 DEF StoreSequence
    <2> QED
      BY <2>1, <2>2 DEF CounterInv, InWindow
  <1>6. ASSUME NEW s \in Senders, PrintSequence(s) PROVE CounterInv'
    <2>1. call'[s].pc = "publish" /\ call[s].pc = "print"
          /\ \A u \in Senders \ {s} : call'[u] = call[u]
      BY <1>0, <1>6 DEF PrintSequence, Calls
    <2>2. UNCHANGED <<sequence, raced>> /\ last' = sequence
      BY <1>6 DEF PrintSequence
    <2> QED
      BY <2>1, <2>2 DEF CounterInv, InWindow
  <1>7. CASE UNCHANGED vars
    BY <1>7 DEF vars, CounterInv, InWindow
  <1> QED
    BY <1>2, <1>3, <1>4, <1>5, <1>6, <1>7
       DEF Next, Step, DeviceStatus, DeviceStatuArr, Request

\* The counter is ahead of the last number sent by one or by nothing, for as
\* long as no two tasks are between it and their copies.
THEOREM CounterCorrect == Spec => []CounterInv
  <1>1. Init => CounterInv
    BY DEF Init, CounterInv, InWindow
  <1> QED
    BY <1>1, LoopCorrect, NextCounter, PTL DEF Spec

\* Consecutive messages carry different numbers unless two tasks raced.
THEOREM NumbersDiffer == Spec => SequenceAdvances
  <1>1. ASSUME LoopInv, CounterInv, NEW s \in Senders, PrintSequence(s), ~raced
        PROVE  last' # last
    <2>1. last' = sequence /\ sequence = (last + 1) % MaxSequence
      BY <1>1 DEF PrintSequence, CounterInv
    <2>2. last \in Numbers
      BY <1>1 DEF LoopInv, TypeOK
    <2> QED
      BY <2>1, <2>2, Modulo
  <1>2. LoopInv /\ CounterInv /\ [Next]_vars =>
          [\A s \in Senders : PrintSequence(s) /\ ~raced => last' # last]_vars
    BY <1>1
  <1> QED
    BY <1>2, LoopCorrect, CounterCorrect, PTL DEF Spec, SequenceAdvances

-----------------------------------------------------------------------------
(* The contract *)

\* A step that changes the call of one sender changes what the contract sees of that sender.
LEMMA OneCall ==
    ASSUME NEW s \in Senders, \A u \in Senders \ {s} : call'[u] = call[u]
    PROVE  /\ [u \in Senders |-> call[u].pc # "idle"]' =
                [[u \in Senders |-> call[u].pc # "idle"] EXCEPT ![s] = call'[s].pc # "idle"]
           /\ [u \in Senders |-> call[u].count]' =
                [[u \in Senders |-> call[u].count] EXCEPT ![s] = call'[s].count]
           /\ [u \in Senders |-> call[u].result # 1]' =
                [[u \in Senders |-> call[u].result # 1] EXCEPT ![s] = call'[s].result # 1]
  <1>1. [u \in Senders |-> call[u].pc # "idle"]' =
          [[u \in Senders |-> call[u].pc # "idle"] EXCEPT ![s] = call'[s].pc # "idle"]
    BY Zenon
  <1>2. [u \in Senders |-> call[u].count]' =
          [[u \in Senders |-> call[u].count] EXCEPT ![s] = call'[s].count]
    BY Zenon
  <1>3. [u \in Senders |-> call[u].result # 1]' =
          [[u \in Senders |-> call[u].result # 1] EXCEPT ![s] = call'[s].result # 1]
    BY Zenon
  <1> QED
    BY Zenon, <1>1, <1>2, <1>3

\* A step inside a call that keeps its size and result changes nothing the contract sees.
LEMMA SameCall ==
    ASSUME NEW s \in Senders, \A u \in Senders \ {s} : call'[u] = call[u],
           call'[s].pc # "idle" <=> call[s].pc # "idle",
           call'[s].count = call[s].count, call'[s].result = call[s].result
    PROVE  UNCHANGED <<[u \in Senders |-> call[u].pc # "idle"], [u \in Senders |-> call[u].count],
                       [u \in Senders |-> call[u].result # 1]>>
  <1>1. [u \in Senders |-> call[u].pc # "idle"]' = [u \in Senders |-> call[u].pc # "idle"]
    BY Zenon
  <1>2. [u \in Senders |-> call[u].count]' = [u \in Senders |-> call[u].count]
    BY Zenon
  <1>3. [u \in Senders |-> call[u].result # 1]' = [u \in Senders |-> call[u].result # 1]
    BY Zenon
  <1> QED
    BY Zenon, <1>1, <1>2, <1>3

\* What a call has sent is always a prefix of the caller's array.
LEMMA SentPrefix ==
    ASSUME LoopInv, NEW s \in Senders
    PROVE  times[s] = Contract!Sent(call[s].j)
  BY DEF LoopInv, LoopOf, TypeOK, Contract!Sent

\* A message carries the parameters that come next.
LEMMA PublishSends ==
    ASSUME LoopInv, LoopInv', NEW s \in Senders, Publish(s)
    PROVE  Contract!Send(s)
  <1>1. call[s] \in Calls /\ call'[s] \in Calls /\ LoopOf(s) /\ LoopOf(s)' /\ call \in [Senders -> Calls]
        /\ times \in [Senders -> [1 .. MaxParams -> Nat]]
    BY DEF LoopInv, TypeOK
  <1>2. /\ call'[s].pc = "loop" /\ call[s].pc = "publish" /\ call'[s].count = call[s].count
        /\ call'[s].result = call[s].result /\ call'[s].j = call[s].j + MaxIter(s)
        /\ \A u \in Senders \ {s} : call'[u] = call[u] /\ times'[u] = times[u]
    BY <1>1 DEF Publish, Calls
  <1>3. MaxIter(s) \in Nat
    BY <1>1 DEF MaxIter, OneUnit, Calls, MaxParams
  <1>4. call[s].j \in 0 .. call[s].count /\ call'[s].j \in 0 .. call[s].count
        /\ call[s].j <= call'[s].j
    BY <1>1, <1>2, <1>3 DEF LoopOf, Calls, MaxParams
  <1>5. times[s] = Contract!Sent(call[s].j) /\ times'[s] = Contract!Sent(call'[s].j)
    BY SentPrefix DEF LoopInv, LoopOf, TypeOK, Contract!Sent
  <1>6. times' = [times EXCEPT ![s] = Contract!Sent(call'[s].j)]
    BY <1>1, <1>5 DEF Publish
  <1>7. UNCHANGED <<[u \in Senders |-> call[u].pc # "idle"], [u \in Senders |-> call[u].count],
                    [u \in Senders |-> call[u].result # 1]>>
    BY <1>2, SameCall
  <1>8. [u \in Senders |-> call[u].count][s] = call[s].count
        /\ [u \in Senders |-> call[u].pc # "idle"][s]
    BY <1>2
  <1> QED
    BY <1>4, <1>5, <1>6, <1>7, <1>8 DEF Contract!Send

\* All three kinds of call begin as a call of the contract.
LEMMA BeginCalls ==
    ASSUME LoopInv, NEW s \in Senders, NEW n \in 0 .. MaxParams, NEW k, NEW r, Begin(s, n, k, r)
    PROVE  Contract!Call(s, n)
  <1>1. /\ call'[s].pc = "loop" /\ call[s].pc = "idle" /\ call'[s].count = n
        /\ call'[s].result = 1
        /\ \A u \in Senders \ {s} : call'[u] = call[u]
    BY DEF Begin, LoopInv, TypeOK
  <1>2. times' = [times EXCEPT ![s] = Contract!Sent(0)]
    <2>1. [p \in 1 .. MaxParams |-> 0] = Contract!Sent(0)
      BY DEF Contract!Sent
    <2> QED
      BY <2>1 DEF Begin
  <1>3. ~[u \in Senders |-> call[u].pc # "idle"][s]
    BY <1>1
  <1>4. (call'[s].pc # "idle") = TRUE /\ (call'[s].result # 1) = FALSE
    BY <1>1
  <1> QED
    BY Zenon, <1>1, <1>2, <1>3, <1>4, OneCall DEF Contract!Call

\* A call that returns 1 has sent everything; the other end is a failure.
LEMMA EndOfCall ==
    ASSUME LoopInv, NEW s \in Senders, Return(s) \/ PrintFails(s)
    PROVE  Contract!Return(s) \/ Contract!Fail(s)
  <1>0. [u \in Senders |-> call[u].count][s] = call[s].count /\ call[s] \in Calls
        /\ times[s] = Contract!Sent(call[s].j)
    BY SentPrefix DEF LoopInv, TypeOK
  <1>1. CASE Return(s)
    <2>1. /\ call'[s].pc = "idle" /\ call[s].pc # "idle" /\ call'[s].count = call[s].count
          /\ call'[s].result = call[s].result /\ times' = times
          /\ \A u \in Senders \ {s} : call'[u] = call[u]
      BY <1>1 DEF Return, LoopInv, TypeOK, Calls
    <2>2. call[s].j = call[s].count
      BY <1>1 DEF Return, LoopInv, LoopOf
    <2>3. [u \in Senders |-> call[u].pc # "idle"][s] /\ (call'[s].pc # "idle") = FALSE
      BY <2>1
    <2>4. [u \in Senders |-> call[u].count]' = [u \in Senders |-> call[u].count]
          /\ [u \in Senders |-> call[u].result # 1]' = [u \in Senders |-> call[u].result # 1]
      BY Zenon, <2>1
    <2>5. times[s] = Contract!Sent([u \in Senders |-> call[u].count][s])
      BY <1>0, <2>2
    <2>6. [u \in Senders |-> call[u].pc # "idle"]' =
            [[u \in Senders |-> call[u].pc # "idle"] EXCEPT ![s] = FALSE]
      BY Zenon, <2>1, <2>3, OneCall
    <2> QED
      BY Zenon, <2>1, <2>3, <2>4, <2>5, <2>6 DEF Contract!Return
  <1>2. CASE PrintFails(s)
    <2>1. /\ call'[s].pc = "idle" /\ call[s].pc # "idle" /\ call'[s].count = call[s].count
          /\ call'[s].result = -3 /\ times' = times
          /\ \A u \in Senders \ {s} : call'[u] = call[u]
      BY <1>2 DEF PrintFails, LoopInv, TypeOK, Calls
    <2>a. call'[s].result # 1
      BY <2>1
    <2>b. [u \in Senders |-> call[u].pc # "idle"][s]
      BY <2>1
    <2>2. /\ [u \in Senders |-> call[u].pc # "idle"][s]
          /\ (call'[s].pc # "idle") = FALSE /\ (call'[s].result # 1) = TRUE
      BY Zenon, <2>1, <2>a, <2>b
    <2>3. [u \in Senders |-> call[u].count]' = [u \in Senders |-> call[u].count]
      BY Zenon, <2>1
    <2>4. /\ [u \in Senders |-> call[u].pc # "idle"]' =
               [[u \in Senders |-> call[u].pc # "idle"] EXCEPT ![s] = FALSE]
          /\ [u \in Senders |-> call[u].result # 1]' =
               [[u \in Senders |-> call[u].result # 1] EXCEPT ![s] = TRUE]
      BY Zenon, <2>1, <2>2, OneCall
    <2> QED
      BY Zenon, <2>1, <2>2, <2>3, <2>4 DEF Contract!Fail
  <1> QED
    BY <1>1, <1>2

\* Every step of every sender is a step of the contract or a stutter.
LEMMA StepImplements ==
    ASSUME LoopInv, LoopInv', [Next]_vars
    PROVE  [Contract!Next]_(Contract!vars)
  <1>1. ASSUME NEW s \in Senders, NEW n \in Counts, DeviceStatus(s, n) \/ DeviceStatuArr(s, n)
        PROVE  Contract!Next
    <2>1. n \in 0 .. MaxParams
      BY SendersAssumption
    <2> QED
      BY <1>1, <2>1, BeginCalls DEF DeviceStatus, DeviceStatuArr, Contract!Next
  <1>2. ASSUME NEW s \in Senders, Request(s) PROVE Contract!Next
    <2>1. 0 \in 0 .. MaxParams
      BY DEF MaxParams
    <2> QED
      BY <1>2, <2>1, BeginCalls DEF Request, Contract!Next
  <1>3. ASSUME NEW s \in Senders, LoadSequence(s) \/ StoreSequence(s) \/ PrintSequence(s)
        PROVE  UNCHANGED Contract!vars
    <2>0. call \in [Senders -> Calls]
      BY DEF LoopInv, TypeOK
    <2>1. /\ call'[s].pc # "idle" /\ call[s].pc # "idle" /\ call'[s].count = call[s].count
          /\ call'[s].result = call[s].result /\ times' = times
          /\ \A u \in Senders \ {s} : call'[u] = call[u]
      <3>1. CASE LoadSequence(s)
        BY <2>0, <3>1 DEF LoadSequence, Calls
      <3>2. CASE StoreSequence(s)
        BY <2>0, <3>2 DEF StoreSequence, Calls
      <3>3. CASE PrintSequence(s)
        BY <2>0, <3>3 DEF PrintSequence, Calls
      <3> QED
        BY <1>3, <3>1, <3>2, <3>3
    <2> QED
      BY <2>1, SameCall DEF Contract!vars
  <1>4. ASSUME NEW s \in Senders, Publish(s) PROVE Contract!Next
    BY <1>4, PublishSends DEF Contract!Next
  <1>5. ASSUME NEW s \in Senders, Return(s) \/ PrintFails(s) PROVE Contract!Next
    BY <1>5, EndOfCall DEF Contract!Next
  <1>6. CASE UNCHANGED vars
    BY <1>6 DEF vars, Contract!vars
  <1> QED
    BY <1>1, <1>2, <1>3, <1>4, <1>5, <1>6 DEF Next, Step

\* Before the first call, nothing was sent.
LEMMA InitImplements == Init => Contract!Init
  <1> SUFFICES ASSUME Init PROVE Contract!Init
    OBVIOUS
  <1>1. times = [s \in Senders |-> Contract!Sent(0)]
    <2>1. [p \in 1 .. MaxParams |-> 0] = Contract!Sent(0)
      BY DEF Contract!Sent
    <2> QED
      BY <2>1 DEF Init
  <1>2. \A s \in Senders : call[s].pc = "idle" /\ call[s].count = 0 /\ call[s].result = 1
    BY DEF Init
  <1>3. [s \in Senders |-> call[s].pc # "idle"] = [s \in Senders |-> FALSE]
    BY Zenon, <1>2
  <1>4. [s \in Senders |-> call[s].count] = [s \in Senders |-> 0]
    BY <1>2
  <1>5. [s \in Senders |-> call[s].result # 1] = [s \in Senders |-> FALSE]
    BY Zenon, <1>2
  <1> QED
    BY Zenon, <1>1, <1>3, <1>4, <1>5 DEF Contract!Init

\* The rounds of five, the remainder and the shared counter implement the contract: a
\* caller's parameters leave in order, once each, and the result tells whether they did.
THEOREM Implements == Spec => ImplementsContract
  BY InitImplements, StepImplements, LoopCorrect, PTL
     DEF Spec, ImplementsContract, Contract!Spec

-----------------------------------------------------------------------------
(* How long a call can take *)

\* The steps a call has left at most: four for a message, one for the return.
StepsLeft(c) ==
    CASE c.pc = "loop" -> 4 * (c.iter_count + 1) + 1
      [] c.pc = "store" -> 4 * (c.iter_count + 1)
      [] c.pc = "print" -> 4 * (c.iter_count + 1) - 1
      [] c.pc = "publish" -> 4 * (c.iter_count + 1) - 2
      [] OTHER -> 0

\* Every step of a call brings it nearer to its end, and no other task holds it up.
CallBounded ==
    [][\A s \in Senders :
         /\ Step(s) => StepsLeft(call'[s]) < StepsLeft(call[s])
         /\ call[s].pc # "idle" /\ ~Step(s) => call'[s] = call[s]]_vars

\* A call takes at most 45 steps, those of the eleven messages that the longest array
\* needs, whatever the other tasks do with the counter meanwhile.
THEOREM CallCounts == Spec => [](\A s \in Senders : StepsLeft(call[s]) \in 0 .. 45) /\ CallBounded
  <1>1. ASSUME LoopInv, NEW s \in Senders PROVE StepsLeft(call[s]) \in 0 .. 45
    <2>1. /\ call[s].iter_count \in -1 .. 10
          /\ call[s].pc \in {"store", "print", "publish"} => call[s].iter_count >= 0
      BY <1>1 DEF LoopInv, LoopOf, TypeOK, Calls
    <2> QED
      BY <2>1 DEF StepsLeft
  <1>2. ASSUME LoopInv, NEW s \in Senders, Step(s)
        PROVE  StepsLeft(call'[s]) < StepsLeft(call[s])
    <2>1. call[s].iter_count \in -1 .. 10 /\ call \in [Senders -> Calls]
          /\ (call[s].pc = "publish" => call[s].iter_count >= 0)
      BY <1>2 DEF LoopInv, LoopOf, TypeOK, Calls
    <2>2. CASE LoadSequence(s) \/ StoreSequence(s) \/ PrintSequence(s)
      <3>1. /\ call'[s].iter_count = call[s].iter_count
            /\ <<call[s].pc, call'[s].pc>> \in
                  {<<"loop", "store">>, <<"store", "print">>, <<"print", "publish">>}
        <4>1. CASE LoadSequence(s)
          BY <2>1, <4>1 DEF LoadSequence, Calls
        <4>2. CASE StoreSequence(s)
          BY <2>1, <4>2 DEF StoreSequence, Calls
        <4>3. CASE PrintSequence(s)
          BY <2>1, <4>3 DEF PrintSequence, Calls
        <4> QED
          BY <2>2, <4>1, <4>2, <4>3
      <3> QED
        BY <2>1, <3>1 DEF StepsLeft
    <2>3. CASE Publish(s)
      <3>1. call'[s].pc = "loop" /\ call'[s].iter_count = call[s].iter_count - 1
            /\ call[s].pc = "publish"
        BY <2>1, <2>3 DEF Publish, Calls
      <3> QED
        BY <2>1, <3>1 DEF StepsLeft
    <2>4. CASE PrintFails(s) \/ Return(s)
      <3>1. call'[s].pc = "idle" /\ call[s].pc \in {"publish", "loop"}
        BY <2>1, <2>4 DEF PrintFails, Return, Calls
      <3> QED
        BY <2>1, <3>1 DEF StepsLeft
    <2> QED
      BY <1>2, <2>2, <2>3, <2>4 DEF Step
  <1>3. ASSUME LoopInv, [Next]_vars, NEW s \in Senders, call[s].pc # "idle", ~Step(s)
        PROVE  call'[s] = call[s]
    <2>1. call \in [Senders -> Calls]
      BY <1>3 DEF LoopInv, TypeOK
    <2>2. ASSUME NEW u \in Senders, Step(u) PROVE call'[s] = call[s]
      BY <1>3, <2>1, <2>2 DEF Step, LoadSequence, StoreSequence, PrintSequence, Publish,
                              PrintFails, Return
    <2>3. ASSUME NEW u \in Senders, NEW n, NEW k, NEW r, Begin(u, n, k, r)
          PROVE  call'[s] = call[s]
      BY <1>3, <2>1, <2>3 DEF Begin
    <2> QED
      BY <1>3, <2>2, <2>3 DEF Next, vars, DeviceStatus, DeviceStatuArr, Request
  <1>4. LoopInv /\ [Next]_vars =>
          [\A s \in Senders :
             /\ Step(s) => StepsLeft(call'[s]) < StepsLeft(call[s])
             /\ call[s].pc # "idle" /\ ~Step(s) => call'[s] = call[s]]_vars
    BY <1>2, <1>3
  <1> QED
    <2>1. LoopInv => \A s \in Senders : StepsLeft(call[s]) \in 0 .. 45
      BY <1>1
    <2> QED
      BY <1>4, <2>1, LoopCorrect, PTL DEF Spec, CallBounded
===============================================================================
