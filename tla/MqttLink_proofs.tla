--------------------------- MODULE MqttLink_proofs ---------------------------
(***************************************************************************)
(* Proofs about MqttLink, for every number of clients, every set of tasks  *)
(* that publish and every tolerated number of refusals.                    *)
(***************************************************************************)
EXTENDS MqttLink, TLAPS

-----------------------------------------------------------------------------
(* Types *)

LEMMA StateType ==
    ASSUME TypeOK, NEW h, NEW from, NEW to \in States, Becomes(h, from, to)
    PROVE  state' \in [Handles -> States]
  BY DEF TypeOK, Becomes

LEMMA PcType ==
    ASSUME TypeOK, NEW p \in Callers, NEW l \in PCs, Goto(p, l)
    PROVE  /\ pc' \in [Callers -> PCs] /\ pc'[p] = l
           /\ \A q \in Callers \ {p} : pc'[q] = pc[q]
  BY DEF TypeOK, Goto

LEMMA ThenIsPc ==
    ASSUME TypeOK, NEW p \in Callers
    PROVE  then[p] \in PCs /\ then[p] \in {"idle", "create"}
  BY DEF TypeOK, PCs, ConnectPCs

LEMMA NotSendingType ==
    NotSending \in [pc : SendPCs, h : Handles \cup {NULL}, caught : BOOLEAN]
  BY DEF NotSending, SendPCs

LEMMA InitType == Init => TypeOK
  <1>1. 0 \in 0 .. MaxRefusals /\ 0 \in 0 .. MaxAttempts /\ 0 \in 0 .. MaxRefusals + 1
    BY LinkAssumption
  <1>2. [boot |-> "check", uart |-> "idle"] \in [Callers -> PCs]
    BY DEF Callers, PCs
  <1>3. [boot |-> "create", uart |-> "idle"] \in [Callers -> {"idle", "create"}]
    BY DEF Callers
  <1>4. [h \in Handles |-> "unused"] \in [Handles -> States]
    BY DEF States
  <1>5. Init => send \in [Senders -> [pc : SendPCs, h : Handles \cup {NULL}, caught : BOOLEAN]]
    BY NotSendingType DEF Init
  <1>6. Init => client \in Handles \cup {NULL} /\ state \in [Handles -> States]
    BY <1>4 DEF Init
  <1>7. Init => /\ pc \in [Callers -> PCs] /\ then \in [Callers -> {"idle", "create"}]
               /\ err_count \in 0 .. MaxRefusals /\ attempts \in 0 .. MaxAttempts
               /\ refusals \in 0 .. MaxRefusals + 1
    BY <1>1, <1>2, <1>3 DEF Init
  <1>8. Init => /\ connected \in BOOLEAN /\ error_status \in BOOLEAN /\ stale \in BOOLEAN
               /\ reused \in BOOLEAN /\ lapses \subseteq {"overlap", "abandoned"}
    BY DEF Init
  <1> QED
    BY <1>5, <1>6, <1>7, <1>8 DEF TypeOK

\* The steps of damdaMQTTDisConnect and damdaMQTTConnect.
Begins == UartDisconnect \/ UartConnect \/ BootCheck

LEMMA BeginCases ==
    ASSUME Begins
    PROVE  \E p \in Callers, next \in {"idle", "create"} :
              Begin(p, next) /\ pc[p] \in {"idle", "check"}
  BY DEF Begins, UartDisconnect, UartConnect, BootCheck, Callers

LEMMA BeginType ==
    ASSUME TypeOK, NEW p \in Callers, NEW next \in {"idle", "create"}, Begin(p, next)
    PROVE  TypeOK'
  <1>1. pc' \in [Callers -> PCs]
    BY PcType DEF Begin, PCs, DisconnectPCs, ConnectPCs
  <1>2. then' \in [Callers -> {"idle", "create"}]
    BY DEF Begin, TypeOK
  <1>3. lapses' \subseteq {"overlap", "abandoned"}
    BY DEF Begin, Note, TypeOK
  <1> QED
    BY <1>1, <1>2, <1>3 DEF Begin, TypeOK, flags

LEMMA ConnectionType ==
    ASSUME TypeOK, NEW p \in Callers, Connection(p)
    PROVE  TypeOK'
  <1> USE DEF States
  <1>1. CASE Stop(p)
    <2>1. pc' \in [Callers -> PCs]
      BY <1>1, PcType, ThenIsPc DEF Stop, PCs, DisconnectPCs
    <2>2. state' \in [Handles -> States] /\ stale' \in BOOLEAN /\ reused' \in BOOLEAN
      BY <1>1, StateType DEF Stop, Misuse, TypeOK
    <2> QED
      BY <1>1, <2>1, <2>2 DEF Stop, TypeOK, flags
  <1>2. CASE Destroy(p)
    <2>1. pc' \in [Callers -> PCs]
      BY <1>2, PcType DEF Destroy, PCs, DisconnectPCs
    <2>2. state' \in [Handles -> States] /\ reused' \in BOOLEAN
      BY <1>2, StateType DEF Destroy, Misuse, TypeOK
    <2>3. send' \in [Senders -> [pc : SendPCs, h : Handles \cup {NULL}, caught : BOOLEAN]]
      BY <1>2 DEF Destroy, TypeOK
    <2> QED
      BY <1>2, <2>1, <2>2, <2>3 DEF Destroy, TypeOK, flags
  <1>3. CASE SetNull(p)
    <2>1. pc' \in [Callers -> PCs]
      BY <1>3, PcType, ThenIsPc DEF SetNull
    <2> QED
      BY <1>3, <2>1 DEF SetNull, TypeOK, flags, history
  <1>4. CASE Create(p)
    <2>1. pc' \in [Callers -> PCs]
      BY <1>4, PcType DEF Create, PCs, ConnectPCs
    <2>2. state' \in [Handles -> States] /\ client' \in Handles \cup {NULL}
      BY <1>4 DEF Create, TypeOK
    <2> QED
      BY <1>4, <2>1, <2>2 DEF Create, TypeOK, flags, history
  <1>5. CASE Start(p)
    <2>1. pc' \in [Callers -> PCs]
      BY <1>5, PcType DEF Start, PCs
    <2>2. state' \in [Handles -> States] /\ reused' \in BOOLEAN
      BY <1>5, StateType DEF Start, Misuse, TypeOK
    <2> QED
      BY <1>5, <2>1, <2>2 DEF Start, TypeOK, flags
  <1> QED
    BY <1>1, <1>2, <1>3, <1>4, <1>5 DEF Connection

Events == \E h \in Handles : Connected(h) \/ Disconnected(h) \/ Refused(h) \/ TlsError(h)

LEMMA EventsType ==
    ASSUME TypeOK, Events
    PROVE  TypeOK'
  <1> PICK h \in Handles : Connected(h) \/ Disconnected(h) \/ Refused(h) \/ TlsError(h)
    BY DEF Events
  <1>1. CASE Connected(h) \/ Disconnected(h)
    BY <1>1 DEF Connected, Disconnected, TypeOK, States
  <1>2. CASE Refused(h)
    <2>1. err_count' \in 0 .. MaxRefusals /\ error_status' \in BOOLEAN
      <3>1. CASE err_count + 1 > MaxRefusals
        BY <1>2, <3>1, LinkAssumption DEF Refused, TypeOK
      <3>2. CASE ~(err_count + 1 > MaxRefusals)
        BY <1>2, <3>2, LinkAssumption DEF Refused, TypeOK
      <3> QED
        BY <3>1, <3>2
    <2>2. refusals' \in 0 .. MaxRefusals + 1
      BY <1>2, LinkAssumption DEF Refused, TypeOK
    <2> QED
      BY <1>2, <2>1, <2>2 DEF Refused, TypeOK
  <1>3. CASE TlsError(h)
    BY <1>3 DEF TlsError, TypeOK, history
  <1> QED
    BY <1>1, <1>2, <1>3

\* The steps of app_main and of the tasks that publish.
Sends ==
    \/ WaitConnected
    \/ \E s \in Senders : CheckConnected(s) \/ LoadClient(s) \/ Publish(s)

LEMMA SendsType ==
    ASSUME TypeOK, Sends
    PROVE  TypeOK'
  <1> USE DEF Callers
  <1>1. CASE WaitConnected
    <2>1. pc' \in [Callers -> PCs]
      BY <1>1, PcType DEF WaitConnected, PCs, TypeOK
    <2>2. attempts' \in 0 .. MaxAttempts
      BY <1>1, LinkAssumption DEF WaitConnected, TypeOK
    <2> QED
      BY <1>1, <2>1, <2>2 DEF WaitConnected, TypeOK, flags, history
  <1>2. ASSUME NEW s \in Senders, CheckConnected(s) \/ LoadClient(s) \/ Publish(s)
        PROVE  TypeOK'
    <2>1. pc' \in [Callers -> PCs]
      BY <1>2, PcType DEF CheckConnected, LoadClient, Publish, PCs, TypeOK
    <2>2. send' \in [Senders -> [pc : SendPCs, h : Handles \cup {NULL}, caught : BOOLEAN]]
      <3>1. CASE CheckConnected(s)
        BY <3>1 DEF CheckConnected, SendPCs, TypeOK
      <3>2. CASE LoadClient(s)
        <4>1. /\ send' = [send EXCEPT ![s] = [pc |-> "publish", h |-> client,
                                              caught |-> \E p \in Callers : pc[p] = "null"]]
              /\ client \in Handles \cup {NULL}
          BY <3>2 DEF LoadClient, TypeOK
        <4> DEFINE b == \E p \in Callers : pc[p] = "null"
        <4>2. b \in BOOLEAN
          OBVIOUS
        <4> HIDE DEF b
        <4>3. send' = [send EXCEPT ![s] = [pc |-> "publish", h |-> client, caught |-> b]]
          BY <4>1 DEF b
        <4> QED
          BY <4>1, <4>2, <4>3 DEF TypeOK, SendPCs
      <3>3. CASE Publish(s)
        BY <3>3, NotSendingType DEF Publish, TypeOK
      <3> QED
        BY <1>2, <3>1, <3>2, <3>3
    <2>3. reused' \in BOOLEAN
      BY <1>2 DEF CheckConnected, LoadClient, Publish, Misuse, history, TypeOK
    <2> QED
      BY <1>2, <2>1, <2>2, <2>3 DEF CheckConnected, LoadClient, Publish, TypeOK, flags, history
  <1> QED
    BY <1>1, <1>2 DEF Sends

LEMMA WipeIsInit ==
    ASSUME Wipe
    PROVE  Init'
  BY DEF Wipe, Init

LEMMA NextCases ==
    ASSUME [Next]_vars
    PROVE  \/ Events \/ Begins \/ (\E p \in Callers : Connection(p)) \/ Sends \/ Wipe
           \/ UNCHANGED vars
  <1>1. "boot" \in Callers /\ "uart" \in Callers /\ "boot" \in Senders
    BY LinkAssumption DEF Callers
  <1> QED
    BY <1>1 DEF Next, BootStep, Events, Begins, Sends

LEMMA PrimedInitType == Init' => TypeOK'
  BY InitType, PTL

LEMMA NextType ==
    ASSUME TypeOK, [Next]_vars
    PROVE  TypeOK'
  <1>1. CASE Begins
    BY <1>1, BeginCases, BeginType
  <1>2. CASE Wipe
    BY <1>2, WipeIsInit, PrimedInitType
  <1>3. CASE UNCHANGED vars
    BY <1>3 DEF vars, flags, history, TypeOK
  <1> QED
    BY <1>1, <1>2, <1>3, NextCases, EventsType, ConnectionType, SendsType

\* Every variable keeps its type, in particular the counters of refusals and attempts
\* their bounds.
THEOREM TypeCorrect == Spec => []TypeOK
  BY InitType, NextType, PTL DEF Spec
-----------------------------------------------------------------------------
(* No reset without refusals *)

RefusalInv ==
    /\ err_count <= refusals
    /\ error_status => refusals > MaxRefusals

\* No device is reset that the broker did not refuse more often than tolerated.
THEOREM WipeCorrect == Spec => WipeNeedsRefusals
  <1>1. Init => RefusalInv
    BY LinkAssumption DEF Init, RefusalInv
  <1>2. ASSUME TypeOK, RefusalInv, [Next]_vars
        PROVE  RefusalInv'
    <2>1. CASE Events
      <3> PICK h \in Handles : Connected(h) \/ Disconnected(h) \/ Refused(h) \/ TlsError(h)
        BY <2>1 DEF Events
      <3>1. CASE Connected(h) \/ Disconnected(h)
        BY <1>2, <3>1 DEF Connected, Disconnected, RefusalInv
      <3>2. CASE Refused(h)
        <4>1. CASE err_count + 1 > MaxRefusals
          BY <1>2, <3>2, <4>1, LinkAssumption DEF Refused, RefusalInv, TypeOK
        <4>2. CASE ~(err_count + 1 > MaxRefusals)
          BY <1>2, <3>2, <4>2, LinkAssumption DEF Refused, RefusalInv, TypeOK
        <4> QED
          BY <4>1, <4>2
      <3>3. CASE TlsError(h)
        BY <1>2, <3>3 DEF TlsError, RefusalInv, history
      <3> QED
        BY <3>1, <3>2, <3>3
    <2>2. CASE Begins
      BY <1>2, <2>2, BeginCases DEF Begin, RefusalInv, flags
    <2>3. ASSUME NEW p \in Callers, Connection(p)
          PROVE  RefusalInv'
      BY <1>2, <2>3 DEF Connection, Stop, Destroy, SetNull, Create, Start, RefusalInv, flags, history
    <2>4. CASE Sends
      BY <1>2, <2>4 DEF Sends, WaitConnected, CheckConnected, LoadClient, Publish, RefusalInv, flags, history
    <2>5. CASE Wipe
      BY <2>5, LinkAssumption DEF Wipe, RefusalInv
    <2>6. CASE UNCHANGED vars
      BY <1>2, <2>6 DEF vars, flags, history, RefusalInv
    <2> QED
      BY <1>2, <2>1, <2>2, <2>3, <2>4, <2>5, <2>6, NextCases
  <1>3. RefusalInv /\ [Next]_vars => [Wipe => refusals > MaxRefusals]_vars
    BY DEF RefusalInv, Wipe
  <1> QED
    BY <1>1, <1>2, <1>3, TypeCorrect, PTL DEF Spec, WipeNeedsRefusals

-----------------------------------------------------------------------------
(* app_main publishes at two places *)

BootInv ==
    /\ send["boot"].pc = "ready" => pc["boot"] = "notify"
    /\ send["boot"].pc = "publish" => pc["boot"] \in {"register", "notify"}

LEMMA BootIsSender == "boot" \in Senders /\ "boot" \in Callers /\ Callers = {"boot", "uart"}
  BY LinkAssumption DEF Callers

\* What Sends does to the progress of app_main.
LEMMA SendsPc ==
    ASSUME TypeOK, BootInv, Sends
    PROVE  /\ UNCHANGED <<client, state, connected, stale, lapses>>
           /\ pc'["uart"] = pc["uart"]
           /\ \/ pc'["boot"] = pc["boot"]
              \/ pc["boot"] \in {"wait", "register", "notify"} /\ pc'["boot"] \in {"register", "notify", "idle"}
           /\ BootInv'
  <1>0. pc \in [Callers -> PCs] /\ send \in [Senders -> [pc : SendPCs, h : Handles \cup {NULL}, caught : BOOLEAN]]
    BY DEF TypeOK
  <1>1. CASE WaitConnected
    BY <1>0, <1>1, BootIsSender DEF WaitConnected, Goto, BootInv, flags, history
  <1>2. ASSUME NEW s \in Senders, CheckConnected(s)
        PROVE  /\ pc' = pc \/ (pc["boot"] = "notify" /\ pc' = [pc EXCEPT !["boot"] = "idle"])
               /\ UNCHANGED <<client, state, connected, stale, lapses>>
               /\ BootInv'
    <2>1. UNCHANGED <<client, state, connected, stale, lapses>>
      BY <1>2 DEF CheckConnected, flags, history
    <2>2. CASE s = "boot"
      <3>1. pc["boot"] = "notify" /\ send["boot"].pc = "idle"
        BY <1>2, <2>2 DEF CheckConnected
      <3> QED
        BY <1>0, <1>2, <2>1, <2>2, <3>1, BootIsSender DEF CheckConnected, Goto, BootInv
    <2>3. CASE s # "boot"
      BY <1>0, <1>2, <2>1, <2>3, BootIsSender DEF CheckConnected, BootInv
    <2> QED
      BY <2>2, <2>3
  <1>3. ASSUME NEW s \in Senders, LoadClient(s)
        PROVE  UNCHANGED <<client, state, connected, stale, lapses, pc>> /\ BootInv'
    <2>1. UNCHANGED <<client, state, connected, stale, lapses, pc>>
      BY <1>3 DEF LoadClient, flags, history
    <2>2. s = "boot" => pc["boot"] \in {"register", "notify"}
      BY <1>3 DEF LoadClient, MaySend, BootInv
    <2>3. send'["boot"] = send["boot"] \/ s = "boot"
      BY <1>0, <1>3 DEF LoadClient
    <2>4. send'[s].pc = "publish"
      BY <1>0, <1>3 DEF LoadClient
    <2> QED
      BY <2>1, <2>2, <2>3, <2>4 DEF BootInv
  <1>4. ASSUME NEW s \in Senders, Publish(s)
        PROVE  /\ \/ pc' = pc
                  \/ /\ pc["boot"] \in {"register", "notify"}
                     /\ pc' = [pc EXCEPT !["boot"] = IF pc["boot"] = "register" THEN "notify" ELSE "idle"]
               /\ UNCHANGED <<client, state, connected, stale, lapses>>
               /\ BootInv'
    <2>1. UNCHANGED <<client, state, connected, stale, lapses>> /\ send[s].pc = "publish"
          /\ send' = [send EXCEPT ![s] = NotSending]
      BY <1>4 DEF Publish, flags
    <2>2. CASE s = "boot"
      <3>1. pc["boot"] \in {"register", "notify"}
        BY <2>1, <2>2 DEF BootInv
      <3>2. send'["boot"].pc = "idle"
        BY <1>0, <2>1, <2>2, BootIsSender DEF NotSending
      <3> QED
        BY <1>4, <2>1, <2>2, <3>1, <3>2 DEF Publish, Goto, BootInv
    <2>3. CASE s # "boot"
      <3>1. send'["boot"] = send["boot"]
        BY <1>0, <2>1, <2>3
      <3> QED
        BY <1>4, <2>1, <2>3, <3>1 DEF Publish, BootInv
    <2> QED
      BY <2>2, <2>3
  <1> QED
    BY <1>0, <1>1, <1>2, <1>3, <1>4, BootIsSender DEF Sends

LEMMA NextBoot ==
    ASSUME TypeOK, BootInv, [Next]_vars
    PROVE  BootInv'
  <1>0. pc \in [Callers -> PCs] /\ send \in [Senders -> [pc : SendPCs, h : Handles \cup {NULL}, caught : BOOLEAN]]
    BY DEF TypeOK
  <1>1. CASE Events \/ UNCHANGED vars
    BY <1>1 DEF Events, Connected, Disconnected, Refused, TlsError, BootInv, vars
  <1>2. CASE Begins
    <2> PICK p \in Callers, next \in {"idle", "create"} : Begin(p, next) /\ pc[p] \in {"idle", "check"}
      BY <1>2, BeginCases
    <2>1. send' = send /\ (pc'["boot"] = pc["boot"] \/ pc["boot"] \in {"idle", "check"})
      BY <1>0, BootIsSender DEF Begin, Goto
    <2> QED
      BY <2>1 DEF BootInv
  <1>3. ASSUME NEW p \in Callers, Connection(p)
        PROVE  BootInv'
    <2>1. /\ pc[p] \in DisconnectPCs \cup ConnectPCs
          /\ send' = send \/ send' = [s \in Senders |-> [send[s] EXCEPT !.caught = @ \/ send[s].pc = "publish"]]
          /\ \E l \in PCs : Goto(p, l)
      <3>1. then[p] \in PCs
        BY ThenIsPc
      <3> QED
        BY <1>3, <3>1 DEF Connection, Stop, Destroy, SetNull, Create, Start, DisconnectPCs, ConnectPCs, PCs
    <2>2. send'["boot"].pc = send["boot"].pc
      BY <1>0, <2>1, BootIsSender
    <2>3. pc'["boot"] = pc["boot"] \/ pc["boot"] \in DisconnectPCs \cup ConnectPCs
      BY <1>0, <2>1, BootIsSender DEF Goto
    <2> QED
      BY <2>2, <2>3 DEF BootInv, DisconnectPCs, ConnectPCs
  <1>4. CASE Sends
    BY <1>4, SendsPc
  <1>5. CASE Wipe
    BY <1>5, BootIsSender DEF Wipe, BootInv, NotSending
  <1> QED
    BY <1>1, <1>2, <1>3, <1>4, <1>5, NextCases

LEMMA BootCorrect == Spec => [](TypeOK /\ BootInv)
  <1>1. Init => BootInv
    BY BootIsSender DEF Init, BootInv, NotSending
  <1> QED
    BY <1>1, NextBoot, TypeCorrect, PTL DEF Spec

-----------------------------------------------------------------------------
(* Destroyed clients *)

\* The handle names a destroyed client only from the destruction to the assignment that
\* clears it, and a publication that began at another time holds a client that exists.
HandleInv ==
    /\ Destroyed(client) => \E p \in Callers : pc[p] = "null"
    /\ \A s \in Senders :
         send[s].pc = "publish" /\ ~send[s].caught => ~Destroyed(send[s].h)

\* A step that destroys no client.
LEMMA HandleFrame ==
    ASSUME HandleInv, send' = send,
           \A h \in Handles : state'[h] = "destroyed" => state[h] = "destroyed",
           TypeOK, TypeOK',
           Destroyed(client)' => Destroyed(client),
           \A p \in Callers : pc[p] = "null" => pc'[p] = "null"
    PROVE  HandleInv'
  <1>1. \A s \in Senders : send[s].h \in Handles \cup {NULL}
    BY DEF TypeOK
  <1> QED
    BY <1>1 DEF HandleInv, Destroyed

LEMMA ConnectionHandle ==
    ASSUME TypeOK, TypeOK', HandleInv, NEW p \in Callers, Connection(p)
    PROVE  HandleInv'
  <1>0. client \in Handles \cup {NULL} /\ client' \in Handles \cup {NULL}
        /\ pc \in [Callers -> PCs]
    BY DEF TypeOK
  <1>1. CASE Stop(p)
    <2>1. \A h \in Handles : state'[h] = "destroyed" => state[h] = "destroyed"
      BY <1>1 DEF Stop, Becomes
    <2>2. send' = send /\ client' = client /\ \A q \in Callers : pc[q] = "null" => pc'[q] = "null"
      BY <1>0, <1>1 DEF Stop, Goto
    <2> QED
      BY <1>0, <2>1, <2>2, HandleFrame DEF Destroyed
  <1>2. CASE Destroy(p)
    <2>1. pc'[p] = "null" /\ client' = client
      BY <1>0, <1>2 DEF Destroy, Goto
    <2>2. \A h \in Handles : state'[h] = "destroyed" => state[h] = "destroyed" \/ h = client
      BY <1>2 DEF Destroy, Becomes
    <2>3. ASSUME NEW s \in Senders, send'[s].pc = "publish", ~send'[s].caught
          PROVE  FALSE
      <3>1. send'[s] = [send[s] EXCEPT !.caught = @ \/ send[s].pc = "publish"]
        BY <1>2 DEF Destroy
      <3>2. send[s] \in [pc : SendPCs, h : Handles \cup {NULL}, caught : BOOLEAN]
        BY DEF TypeOK
      <3> QED
        BY <2>3, <3>1, <3>2
    <2> QED
      BY <2>1, <2>3 DEF HandleInv
  <1>3. CASE SetNull(p)
    <2>1. client' = NULL /\ state' = state /\ send' = send
      BY <1>3 DEF SetNull, history
    <2> QED
      BY <2>1 DEF HandleInv, Destroyed
  <1>4. CASE Create(p)
    <2>1. \/ client' = NULL /\ state' = state
          \/ \E h \in Handles : client' = h /\ state' = [state EXCEPT ![h] = "created"]
      BY <1>4 DEF Create
    <2>2. state \in [Handles -> States]
      BY DEF TypeOK
    <2>3. ~Destroyed(client)'
      BY <2>1, <2>2 DEF Destroyed
    <2>4. \A h \in Handles : state'[h] = "destroyed" => state[h] = "destroyed"
      BY <2>1, <2>2
    <2>5. \A q \in Callers : pc[q] = "null" => pc'[q] = "null"
      BY <1>0, <1>4 DEF Create, Goto
    <2>6. send' = send
      BY <1>4 DEF Create
    <2> QED
      BY <2>3, <2>4, <2>5, <2>6, HandleFrame
  <1>5. CASE Start(p)
    <2>1. \A h \in Handles : state'[h] = "destroyed" => state[h] = "destroyed"
      BY <1>5 DEF Start, Becomes
    <2>2. send' = send /\ client' = client /\ \A q \in Callers : pc[q] = "null" => pc'[q] = "null"
      BY <1>0, <1>5 DEF Start, Goto
    <2> QED
      BY <1>0, <2>1, <2>2, HandleFrame DEF Destroyed
  <1> QED
    BY <1>1, <1>2, <1>3, <1>4, <1>5 DEF Connection

LEMMA SendsHandle ==
    ASSUME TypeOK, TypeOK', BootInv, HandleInv, Sends
    PROVE  HandleInv'
  <1>0. pc \in [Callers -> PCs] /\ send \in [Senders -> [pc : SendPCs, h : Handles \cup {NULL}, caught : BOOLEAN]]
    BY DEF TypeOK
  <1>1. client' = client /\ state' = state
    BY SendsPc
  <1>2. \A q \in Callers : pc[q] = "null" => pc'[q] = "null"
    BY SendsPc, BootIsSender
  <1>3. CASE WaitConnected
    BY <1>1, <1>2, <1>3, HandleFrame DEF WaitConnected, Destroyed
  <1>4. ASSUME NEW s \in Senders, CheckConnected(s)
        PROVE  \A t \in Senders : send'[t] = send[t] \/ send'[t].pc = "ready"
    BY <1>0, <1>4 DEF CheckConnected
  <1>5. ASSUME NEW s \in Senders, LoadClient(s)
        PROVE  \A t \in Senders : send'[t] = send[t]
                  \/ (send'[t].h = client /\ (send'[t].caught <=> \E p \in Callers : pc[p] = "null"))
    BY <1>0, <1>5 DEF LoadClient
  <1>6. ASSUME NEW s \in Senders, Publish(s)
        PROVE  \A t \in Senders : send'[t] = send[t] \/ send'[t].pc = "idle"
    BY <1>0, <1>6 DEF Publish, NotSending
  <1>7. CASE \E s \in Senders : CheckConnected(s) \/ LoadClient(s) \/ Publish(s)
    <2>1. \A t \in Senders : send'[t] = send[t] \/ send'[t].pc \in {"idle", "ready"}
              \/ (send'[t].h = client /\ (send'[t].caught <=> \E p \in Callers : pc[p] = "null"))
      BY <1>4, <1>5, <1>6, <1>7
    <2> QED
      BY <1>1, <1>2, <2>1 DEF HandleInv, Destroyed
  <1> QED
    BY <1>3, <1>7 DEF Sends

LEMMA NextHandle ==
    ASSUME TypeOK, TypeOK', BootInv, HandleInv, [Next]_vars
    PROVE  HandleInv'
  <1>0. pc \in [Callers -> PCs] /\ state \in [Handles -> States] /\ client \in Handles \cup {NULL}
    BY DEF TypeOK
  <1>1. CASE Events
    <2> PICK h \in Handles : Connected(h) \/ Disconnected(h) \/ Refused(h) \/ TlsError(h)
      BY <1>1 DEF Events
    <2>1. UNCHANGED <<client, pc, send>>
      BY DEF Connected, Disconnected, Refused, TlsError
    <2>2. state' = state \/ state' = [state EXCEPT ![h] = "up"] \/ state' = [state EXCEPT ![h] = "down"]
      BY DEF Connected, Disconnected, Refused, TlsError
    <2>3. \A g \in Handles : state'[g] = "destroyed" => state[g] = "destroyed"
      BY <1>0, <2>2
    <2> QED
      BY <1>0, <2>1, <2>3, HandleFrame DEF Destroyed
  <1>2. CASE Begins
    <2> PICK p \in Callers, next \in {"idle", "create"} : Begin(p, next) /\ pc[p] \in {"idle", "check"}
      BY <1>2, BeginCases
    <2>1. UNCHANGED <<client, state, send>> /\ \A q \in Callers : pc[q] = "null" => pc'[q] = "null"
      BY <1>0 DEF Begin, Goto
    <2> QED
      BY <2>1, HandleFrame DEF Destroyed
  <1>3. CASE Wipe
    BY <1>3 DEF Wipe, HandleInv, Destroyed, NotSending
  <1>4. CASE UNCHANGED vars
    BY <1>4, HandleFrame DEF vars, Destroyed
  <1> QED
    BY <1>1, <1>2, <1>3, <1>4, NextCases, ConnectionHandle, SendsHandle

\* Clearing the handle is enough: a task that begins to publish after it, or published
\* before the destruction began, holds a client that exists, also when both writers
\* replace the client at once.
THEOREM HandleCorrect == Spec => DestroyedNotReused
  <1>1. Init => HandleInv
    BY DEF Init, HandleInv, Destroyed, NotSending
  <1>2. TypeOK /\ TypeOK' /\ BootInv /\ HandleInv /\ [Next]_vars => HandleInv'
    BY NextHandle
  <1>3. HandleInv /\ [Next]_vars =>
          [\A s \in Senders : Publish(s) /\ ~send[s].caught => ~Destroyed(send[s].h)]_vars
    BY DEF HandleInv, Publish
  <1> QED
    BY <1>1, <1>2, <1>3, BootCorrect, PTL DEF Spec, DestroyedNotReused

-----------------------------------------------------------------------------
(* One client, and a truthful status *)

\* As long as the two writers take turns and no client was abandoned: the handle names
\* the only client, and there is none where one is about to be created.
ClientInv ==
    lapses = {} =>
        /\ \A p, q \in Callers : InConnection(p) /\ InConnection(q) => p = q
        /\ \A h \in Handles : state[h] \in Alive => h = client
        /\ \A p \in Callers : pc[p] \in {"null", "create"} =>
              \A h \in Handles : state[h] \notin Alive
        /\ \A p \in Callers : pc[p] = "destroy" => \A h \in Handles : state[h] \notin Started
        /\ ~stale => (connected <=> \E h \in Handles : state[h] = "up")

LEMMA EventsClient ==
    ASSUME TypeOK, ClientInv, Events
    PROVE  ClientInv'
  <1> PICK h \in Handles : Connected(h) \/ Disconnected(h) \/ Refused(h) \/ TlsError(h)
    BY DEF Events
  <1>0. state \in [Handles -> States] /\ UNCHANGED <<client, pc, lapses>>
    BY DEF TypeOK, Connected, Disconnected, Refused, TlsError, history
  <1>1. CASE Refused(h) \/ TlsError(h)
    BY <1>0, <1>1 DEF Refused, TlsError, ClientInv, InConnection, history
  <1>2. CASE Connected(h) \/ Disconnected(h)
    <2> SUFFICES ASSUME lapses = {}
                 PROVE  ClientInv'
      BY <1>0 DEF ClientInv
    <2>1. state[h] \in Started /\ h = client
      BY <1>2 DEF Connected, Disconnected, ClientInv, Started, Alive
    <2>2. \A p \in Callers : pc[p] \notin {"null", "create", "destroy"}
      BY <2>1 DEF ClientInv, Started, Alive
    <2>3. \A g \in Handles : g # h => state'[g] = state[g] /\ state[g] \notin Alive
      BY <1>0, <1>2, <2>1 DEF Connected, Disconnected, ClientInv
    <2>4. connected' <=> state'[h] = "up"
      BY <1>0, <1>2 DEF Connected, Disconnected
    <2>5. connected' <=> \E g \in Handles : state'[g] = "up"
      BY <2>3, <2>4 DEF Alive, Started
    <2>6. \A g \in Handles : state'[g] \in Alive => g = client'
      BY <1>0, <2>1, <2>3
    <2> QED
      BY <1>0, <2>2, <2>5, <2>6 DEF ClientInv, InConnection
  <1> QED
    BY <1>1, <1>2

LEMMA BeginsClient ==
    ASSUME TypeOK, ClientInv, Begins
    PROVE  ClientInv'
  <1> PICK p \in Callers, next \in {"idle", "create"} : Begin(p, next) /\ pc[p] \in {"idle", "check"}
    BY BeginCases
  <1> SUFFICES ASSUME lapses' = {}
               PROVE  ClientInv'
    BY DEF ClientInv
  <1>0. pc \in [Callers -> PCs] /\ UNCHANGED <<client, state, connected, stale>>
    BY DEF TypeOK, Begin, flags
  <1>1. /\ lapses = {}
        /\ \A q \in Callers \ {p} : ~InConnection(q)
        /\ next = "create" /\ ~connected => \A h \in Handles : state[h] \notin Alive
    BY DEF Begin, Note
  <1>2. /\ pc'[p] = IF connected THEN "stop" ELSE next
        /\ \A q \in Callers \ {p} : pc'[q] = pc[q]
    BY <1>0 DEF Begin, Goto
  <1>3. \A q \in Callers \ {p} : ~InConnection(q)'
    BY <1>1, <1>2 DEF InConnection
  <1>4. \A q \in Callers \ {p} : pc'[q] \notin {"null", "create", "destroy"}
    BY <1>3 DEF InConnection, DisconnectPCs, ConnectPCs
  <1>5. \A q \in Callers : pc'[q] \in {"null", "create"} => \A h \in Handles : state[h] \notin Alive
    BY <1>1, <1>2, <1>4
  <1>6. \A q \in Callers : pc'[q] # "destroy"
    BY <1>2, <1>4
  <1> QED
    BY <1>0, <1>1, <1>3, <1>5, <1>6 DEF ClientInv

LEMMA ConnectionClient ==
    ASSUME TypeOK, ClientInv, NEW p \in Callers, Connection(p)
    PROVE  ClientInv'
  <1> SUFFICES ASSUME lapses' = {}
               PROVE  ClientInv'
    BY DEF ClientInv
  <1>0. /\ pc \in [Callers -> PCs] /\ state \in [Handles -> States]
        /\ client \in Handles \cup {NULL} /\ lapses = {} /\ connected' = connected
    BY DEF TypeOK, Connection, Stop, Destroy, SetNull, Create, Start, flags, history
  <1>1. InConnection(p)
    BY DEF Connection, Stop, Destroy, SetNull, Create, Start, InConnection, DisconnectPCs, ConnectPCs
  <1>2. \A q \in Callers \ {p} : ~InConnection(q) /\ pc'[q] = pc[q]
    <2>1. \E l \in {"destroy", "null", "start", "wait", "idle", "ended", then[p]} : Goto(p, l)
      BY DEF Connection, Stop, Destroy, SetNull, Create, Start
    <2> QED
      BY <1>0, <1>1, <2>1 DEF ClientInv, Goto
  <1>3. \A q \in Callers \ {p} : ~InConnection(q)' /\ pc'[q] \notin {"null", "create", "destroy"}
    BY <1>2 DEF InConnection, DisconnectPCs, ConnectPCs
  <1>4. then[p] \in {"idle", "create"}
    BY ThenIsPc
  <1>5. CASE Stop(p)
    <2>1. CASE client = NULL
      <3>1. pc'[p] = then[p] /\ UNCHANGED <<client, state, stale>>
        BY <1>0, <1>5, <2>1 DEF Stop, Goto
      <3>2. \A h \in Handles : state[h] \notin Alive
        BY <1>0, <2>1, LinkAssumption DEF ClientInv
      <3> QED
        BY <1>0, <1>3, <1>4, <3>1, <3>2 DEF ClientInv
    <2>2. CASE client # NULL
      <3>1. pc'[p] = "destroy" /\ client' = client /\ stale'
            /\ \A h \in Handles : state'[h] = IF h = client /\ state[h] \in Started THEN "stopped" ELSE state[h]
        BY <1>0, <1>5, <2>2 DEF Stop, Goto, Becomes
      <3>2. \A h \in Handles : state'[h] \in Alive => h = client
        BY <1>0, <3>1 DEF ClientInv
      <3>3. \A h \in Handles : state'[h] \notin Started
        BY <1>0, <3>1, <3>2 DEF Started, Alive
      <3> QED
        BY <1>0, <1>3, <3>1, <3>2, <3>3 DEF ClientInv
    <2> QED
      BY <2>1, <2>2
  <1>6. CASE Destroy(p)
    <2>1. pc[p] = "destroy" /\ pc'[p] = "null" /\ client' = client /\ stale' = stale
          /\ \A h \in Handles : state'[h] = IF h = client /\ state[h] \in Alive THEN "destroyed" ELSE state[h]
      BY <1>0, <1>6 DEF Destroy, Goto, Becomes
    <2>2. \A h \in Handles : state'[h] \notin Alive
      BY <1>0, <2>1 DEF ClientInv, Alive, Started
    <2>3. \A h \in Handles : state[h] # "up" /\ state'[h] # "up"
      BY <1>0, <2>1, <2>2 DEF ClientInv, Alive, Started
    <2>4. ~stale => ~connected
      BY <1>0, <2>3 DEF ClientInv
    <2> QED
      BY <1>0, <1>3, <2>1, <2>2, <2>3, <2>4 DEF ClientInv, Alive
  <1>7. CASE SetNull(p)
    <2>1. pc[p] = "null" /\ pc'[p] = then[p] /\ state' = state /\ stale' = stale
      BY <1>0, <1>7 DEF SetNull, Goto, history
    <2>2. \A h \in Handles : state[h] \notin Alive
      BY <1>0, <2>1 DEF ClientInv
    <2> QED
      BY <1>0, <1>3, <1>4, <2>1, <2>2 DEF ClientInv
  <1>8. CASE Create(p)
    <2>1. pc[p] = "create" /\ pc'[p] \in {"start", "ended", "idle"} /\ stale' = stale
          /\ \/ \E h \in Handles : client' = h /\ state' = [state EXCEPT ![h] = "created"]
             \/ state' = state
      BY <1>0, <1>8 DEF Create, Goto, history
    <2>2. \A h \in Handles : state[h] \notin Alive
      BY <1>0, <2>1 DEF ClientInv
    <2>3. \A h \in Handles : state'[h] \in Alive => h = client'
      BY <1>0, <2>1, <2>2
    <2>4. \A h \in Handles : state'[h] = "up" <=> state[h] = "up"
      BY <1>0, <2>1, <2>2 DEF Alive, Started
    <2> QED
      BY <1>0, <1>3, <2>1, <2>3, <2>4 DEF ClientInv
  <1>9. CASE Start(p)
    <2>1. pc'[p] \in {"wait", "idle"} /\ client' = client /\ stale' = stale
          /\ \A h \in Handles : state'[h] = IF h = client /\ state[h] \in {"created"} THEN "down" ELSE state[h]
      BY <1>0, <1>9 DEF Start, Goto, Becomes
    <2>2. \A h \in Handles : state'[h] \in Alive => h = client
      BY <1>0, <2>1 DEF ClientInv
    <2>3. \A h \in Handles : state'[h] = "up" <=> state[h] = "up"
      BY <2>1
    <2> QED
      BY <1>0, <1>3, <2>1, <2>2, <2>3 DEF ClientInv
  <1> QED
    BY <1>5, <1>6, <1>7, <1>8, <1>9 DEF Connection

LEMMA NextClient ==
    ASSUME TypeOK, BootInv, ClientInv, [Next]_vars
    PROVE  ClientInv'
  <1>1. CASE Sends
    <2>1. UNCHANGED <<client, state, connected, stale, lapses>>
      BY <1>1, SendsPc
    <2>2. \A p \in Callers : pc'[p] = pc[p] \/ pc'[p] \in {"register", "notify", "idle"}
      BY <1>1, SendsPc, BootIsSender
    <2>3. \A p \in Callers : InConnection(p)' => InConnection(p)
      BY <2>2 DEF InConnection, DisconnectPCs, ConnectPCs
    <2> QED
      BY <2>1, <2>2, <2>3 DEF ClientInv
  <1>2. CASE Wipe
    <2>1. /\ ~connected' /\ \A h \in Handles : state'[h] = "unused"
          /\ pc'["boot"] = "check" /\ pc'["uart"] = "idle"
      BY <1>2 DEF Wipe
    <2>2. \A p \in Callers : ~InConnection(p)' /\ pc'[p] \notin {"null", "create", "destroy"}
      BY <2>1, BootIsSender DEF InConnection, DisconnectPCs, ConnectPCs
    <2> QED
      BY <2>1, <2>2 DEF ClientInv, Alive, Started
  <1>3. CASE UNCHANGED vars
    BY <1>3 DEF vars, flags, history, ClientInv, InConnection
  <1> QED
    BY <1>1, <1>2, <1>3, NextCases, EventsClient, BeginsClient, ConnectionClient

LEMMA ClientsCorrect == Spec => []ClientInv
  <1>1. Init => ClientInv
    BY BootIsSender
       DEF Init, ClientInv, InConnection, DisconnectPCs, ConnectPCs, Alive, Started
  <1>2. TypeOK /\ BootInv /\ ClientInv /\ [Next]_vars => ClientInv'
    BY NextClient
  <1> QED
    BY <1>1, <1>2, BootCorrect, PTL DEF Spec

\* There is never more than one client, while app_main and the UART task replace it in
\* turn and command c is used with a session.
THEOREM OneClientCorrect == Spec => []OneClient
  <1>1. ClientInv => OneClient
    BY DEF ClientInv, OneClient
  <1> QED
    BY <1>1, ClientsCorrect, PTL

\* The flag that every sender trusts follows the session of that client, up to the event
\* that the library does not send for a stop.
THEOREM StatusCorrect == Spec => []StatusTruthful
  <1>1. ClientInv => StatusTruthful
    BY DEF ClientInv, StatusTruthful
  <1> QED
    BY <1>1, ClientsCorrect, PTL

-----------------------------------------------------------------------------
(* How long the boot can take *)

\* A step of app_main, whatever it finds, leaves it fewer steps.
LEMMA BootStepCounts ==
    ASSUME TypeOK, BootInv, BootStep
    PROVE  BootSteps' < BootSteps
  <1>0. /\ MaxAttempts \in Nat /\ attempts \in 0 .. MaxAttempts
        /\ pc \in [Callers -> PCs] /\ "boot" \in Callers /\ "boot" \in Senders
        /\ send \in [Senders -> [pc : SendPCs, h : Handles \cup {NULL}, caught : BOOLEAN]]
    BY LinkAssumption, BootIsSender DEF TypeOK
  <1>1. CASE BootCheck
    <2>1. pc["boot"] = "check" /\ pc'["boot"] \in {"stop", "create"}
      BY <1>0, <1>1 DEF BootCheck, Begin, Goto
    <2> QED
      BY <1>0, <2>1 DEF BootSteps
  <1>2. CASE Connection("boot")
    <2>1. then["boot"] \in {"idle", "create"}
      BY <1>0, ThenIsPc
    <2>2. \/ pc["boot"] = "stop" /\ pc'["boot"] \in {"destroy", "idle", "create"}
          \/ pc["boot"] = "destroy" /\ pc'["boot"] = "null"
          \/ pc["boot"] = "null" /\ pc'["boot"] \in {"idle", "create"}
          \/ pc["boot"] = "create" /\ pc'["boot"] \in {"start", "ended"}
          \/ pc["boot"] = "start" /\ pc'["boot"] = "wait"
      <3>1. CASE Stop("boot")
        BY <1>0, <2>1, <3>1 DEF Stop, Goto
      <3>2. CASE Destroy("boot")
        BY <1>0, <3>2 DEF Destroy, Goto
      <3>3. CASE SetNull("boot")
        BY <1>0, <2>1, <3>3 DEF SetNull, Goto
      <3>4. CASE Create("boot")
        BY <1>0, <3>4 DEF Create, Goto
      <3>5. CASE Start("boot")
        BY <1>0, <3>5 DEF Start, Goto
      <3> QED
        BY <1>2, <3>1, <3>2, <3>3, <3>4, <3>5 DEF Connection
    <2>3. attempts' = attempts
      BY <1>2 DEF Connection, Stop, Destroy, SetNull, Create, Start
    <2> QED
      BY <1>0, <2>2, <2>3 DEF BootSteps
  <1>3. CASE WaitConnected
    <2>1. CASE connected \/ attempts = MaxAttempts
      <3>1. pc["boot"] = "wait" /\ pc'["boot"] = "register" /\ send' = send
        BY <1>0, <1>3, <2>1 DEF WaitConnected, Goto
      <3> QED
        BY <1>0, <3>1 DEF BootSteps
    <2>2. CASE ~(connected \/ attempts = MaxAttempts)
      <3>1. pc["boot"] = "wait" /\ pc'["boot"] = "wait" /\ attempts' = attempts + 1
        BY <1>0, <1>3, <2>2 DEF WaitConnected
      <3> QED
        BY <1>0, <3>1 DEF BootSteps
    <2> QED
      BY <2>1, <2>2
  <1>4. CASE CheckConnected("boot")
    <2>1. /\ pc["boot"] = "notify" /\ send["boot"].pc = "idle"
          /\ \/ pc'["boot"] = "notify" /\ send'["boot"].pc = "ready"
             \/ pc'["boot"] = "idle"
      BY <1>0, <1>4 DEF CheckConnected, Goto
    <2> QED
      BY <2>1 DEF BootSteps
  <1>5. CASE LoadClient("boot")
    <2>1. /\ send["boot"].pc # "publish" /\ send'["boot"].pc = "publish" /\ pc' = pc
          /\ pc["boot"] \in {"register", "notify"}
      BY <1>0, <1>5 DEF LoadClient, MaySend, BootInv
    <2> QED
      BY <2>1 DEF BootSteps
  <1>6. CASE Publish("boot")
    <2>1. /\ send["boot"].pc = "publish" /\ send'["boot"].pc = "idle"
          /\ \/ pc["boot"] = "register" /\ pc'["boot"] = "notify"
             \/ pc["boot"] = "notify" /\ pc'["boot"] = "idle"
      BY <1>0, <1>6 DEF Publish, Goto, BootInv, NotSending
    <2> QED
      BY <2>1 DEF BootSteps
  <1> QED
    BY <1>1, <1>2, <1>3, <1>4, <1>5, <1>6 DEF BootStep

\* Nothing else moves app_main before it has come to its end.
LEMMA OthersLeaveBoot ==
    ASSUME TypeOK, BootInv, [Next]_vars, ~BootStep, pc["boot"] \notin {"idle", "ended"}
    PROVE  BootSteps' = BootSteps
  <1>0. /\ pc \in [Callers -> PCs] /\ "boot" \in Callers /\ "boot" \in Senders
        /\ send \in [Senders -> [pc : SendPCs, h : Handles \cup {NULL}, caught : BOOLEAN]]
    BY BootIsSender DEF TypeOK
  <1>1. ASSUME attempts' = attempts, pc'["boot"] = pc["boot"],
               send'["boot"].pc = send["boot"].pc
        PROVE  BootSteps' = BootSteps
    BY <1>1 DEF BootSteps
  <1>2. CASE \/ \E h \in Handles : Connected(h) \/ Disconnected(h) \/ Refused(h) \/ TlsError(h)
             \/ UNCHANGED vars
    BY <1>1, <1>2 DEF Connected, Disconnected, Refused, TlsError, vars
  <1>3. CASE UartDisconnect \/ UartConnect
    BY <1>0, <1>1, <1>3 DEF UartDisconnect, UartConnect, Begin, Goto
  <1>4. CASE Connection("uart")
    <2>1. attempts' = attempts /\ pc'["boot"] = pc["boot"]
      BY <1>0, <1>4 DEF Connection, Stop, Destroy, SetNull, Create, Start, Goto
    <2>2. send'["boot"].pc = send["boot"].pc
      BY <1>0, <1>4 DEF Connection, Stop, Destroy, SetNull, Create, Start
    <2> QED
      BY <1>1, <2>1, <2>2
  <1>5. ASSUME NEW s \in Senders \ {"boot"}, CheckConnected(s) \/ LoadClient(s) \/ Publish(s)
        PROVE  BootSteps' = BootSteps
    BY <1>0, <1>1, <1>5 DEF CheckConnected, LoadClient, Publish
  <1>6. ~Wipe
    BY DEF Wipe, Booted
  <1> QED
    BY <1>2, <1>3, <1>4, <1>5, <1>6 DEF Next

\* app_main comes to its end within MaxAttempts + 12 steps of its own, whether or not the
\* broker ever answers.
THEOREM BootCounts == Spec => [](BootSteps \in 0 .. MaxAttempts + 12) /\ BootBounded
  <1>1. TypeOK => BootSteps \in 0 .. MaxAttempts + 12
    BY LinkAssumption DEF TypeOK, BootSteps
  <1>2. TypeOK /\ BootInv /\ [Next]_vars =>
          [/\ BootStep => BootSteps' < BootSteps
           /\ pc["boot"] \notin {"idle", "ended"} /\ ~BootStep => BootSteps' = BootSteps]_vars
    BY BootStepCounts, OthersLeaveBoot
  <1> QED
    BY <1>1, <1>2, BootCorrect, PTL DEF Spec, BootBounded
=============================================================================
