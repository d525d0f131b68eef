------------------------------ MODULE MqttLink ------------------------------
(***************************************************************************)
(* The connection to the broker: the global handle client with its two     *)
(* writers, app_main (boot) and the UART task (commands a, b and c), the   *)
(* tasks that publish through it, the flags that the MQTT events set       *)
(* (damdaConnectedStatus, damdaConnectedErrorStatus, mqtt_err_count), and  *)
(* main_task, which resets a device that the broker keeps refusing.        *)
(*                                                                         *)
(* A handle stands for one client that esp_mqtt_client_init created.  An   *)
(* argument of a library call is read from the global before the call      *)
(* takes effect; nothing protects client.                                  *)
(***************************************************************************)
EXTENDS Integers, FiniteSets

CONSTANTS
    Handles,       \* the clients that can be created until a restart
    NULL,          \* no client
    Senders,       \* the tasks that publish
    MaxAttempts,   \* how often app_main looks for the connection (100)
    MaxRefusals    \* refused connections that are tolerated (5)

ASSUME LinkAssumption ==
    /\ NULL \notin Handles
    /\ "boot" \in Senders /\ Senders \subseteq {"boot", "main", "ota", "uart"}
    /\ MaxAttempts \in Nat
    /\ MaxRefusals \in Nat

VARIABLES
    client,        \* the global handle
    state,         \* of each client, inside the library
    connected,     \* damdaConnectedStatus
    error_status,  \* damdaConnectedErrorStatus
    err_count,     \* mqtt_err_count
    pc,            \* progress of app_main and of the UART task
    then,          \* what they do after damdaMQTTDisConnect
    attempts,      \* the local i of app_main
    send,          \* progress of each task through a publication
    refusals,      \* history: refused connections since the start
    stale,         \* history: a client was stopped, and no event came since
    lapses,        \* history: kinds of unusual events so far
    reused         \* history: a library call was given a destroyed client

flags == <<connected, error_status, err_count>>
history == <<refusals, stale, lapses, reused>>
vars == <<client, state, flags, pc, then, attempts, send, history>>

-----------------------------------------------------------------------------
Callers == {"boot", "uart"}
DisconnectPCs == {"stop", "destroy", "null"}
ConnectPCs == {"create", "start"}
PCs == {"check", "wait", "register", "notify", "ended", "idle"} \cup DisconnectPCs \cup ConnectPCs

\* Created, started and trying, with a session, stopped, freed.
States == {"unused", "created", "down", "up", "stopped", "destroyed"}
Started == {"down", "up"}
Alive == Started \cup {"created", "stopped"}

SendPCs == {"idle", "ready", "publish"}
NotSending == [pc |-> "idle", h |-> NULL, caught |-> FALSE]

TypeOK ==
    /\ client \in Handles \cup {NULL}
    /\ state \in [Handles -> States]
    /\ connected \in BOOLEAN
    /\ error_status \in BOOLEAN
    /\ err_count \in 0 .. MaxRefusals
    /\ pc \in [Callers -> PCs]
    /\ then \in [Callers -> {"idle", "create"}]
    /\ attempts \in 0 .. MaxAttempts
    /\ send \in [Senders -> [pc : SendPCs, h : Handles \cup {NULL}, caught : BOOLEAN]]
    /\ refusals \in 0 .. MaxRefusals + 1
    /\ stale \in BOOLEAN
    /\ lapses \subseteq {"overlap", "abandoned"}
    /\ reused \in BOOLEAN

Init ==
    /\ client = NULL
    /\ state = [h \in Handles |-> "unused"]
    /\ connected = FALSE
    /\ error_status = FALSE
    /\ err_count = 0
    /\ pc = [boot |-> "check", uart |-> "idle"]
    /\ then = [boot |-> "create", uart |-> "idle"]
    /\ attempts = 0
    /\ send = [s \in Senders |-> NotSending]
    /\ refusals = 0
    /\ stale = FALSE
    /\ lapses = {}
    /\ reused = FALSE

Goto(p, l) == pc' = [pc EXCEPT ![p] = l]
Booted == pc["boot"] = "idle"
Destroyed(h) == h # NULL /\ state[h] = "destroyed"
\* The client that a call works on; a call with NULL, or with freed memory, has no
\* defined effect on any client.
Becomes(h, from, to) ==
    state' = [g \in Handles |-> IF g = h /\ state[g] \in from THEN to ELSE state[g]]
Misuse(h) == reused' = (reused \/ Destroyed(h))

-----------------------------------------------------------------------------
(* mqtt_event_handler *)

\* MQTT_EVENT_CONNECTED
Connected(h) ==
    /\ state[h] = "down"
    /\ state' = [state EXCEPT ![h] = "up"]
    /\ connected' = TRUE
    /\ stale' = FALSE
    /\ UNCHANGED <<client, error_status, err_count, pc, then, attempts, send,
                   refusals, lapses, reused>>

Disconnected_statusKept(h) ==
    /\ state[h] \in Started
    /\ state' = [state EXCEPT ![h] = "down"]
    /\ stale' = FALSE
    /\ UNCHANGED <<client, flags, pc, then, attempts, send, refusals, lapses, reused>>

\* MQTT_EVENT_DISCONNECTED: the session ended, or an attempt to connect failed.
Disconnected(h) ==
    /\ state[h] \in Started
    /\ state' = [state EXCEPT ![h] = "down"]
    /\ connected' = FALSE
    /\ stale' = FALSE
    /\ UNCHANGED <<client, error_status, err_count, pc, then, attempts, send,
                   refusals, lapses, reused>>

Refused_early(h) ==
    /\ state[h] = "down"
    /\ IF err_count + 1 >= MaxRefusals
       THEN err_count' = 0 /\ error_status' = TRUE
       ELSE err_count' = err_count + 1 /\ error_status' = error_status
    /\ refusals' = IF refusals > MaxRefusals THEN refusals ELSE refusals + 1
    /\ UNCHANGED <<client, state, connected, pc, then, attempts, send, stale, lapses, reused>>

\* MQTT_EVENT_ERROR, the broker refused the connection.
Refused(h) ==
    /\ state[h] = "down"
    /\ IF err_count + 1 > MaxRefusals
       THEN err_count' = 0 /\ error_status' = TRUE
       ELSE err_count' = err_count + 1 /\ error_status' = error_status
    /\ refusals' = IF refusals > MaxRefusals THEN refusals ELSE refusals + 1
    /\ UNCHANGED <<client, state, connected, pc, then, attempts, send, stale, lapses, reused>>

\* MQTT_EVENT_ERROR, the transport failed.
TlsError(h) ==
    /\ state[h] \in Started
    /\ error_status' = FALSE
    /\ UNCHANGED <<client, state, connected, err_count, pc, then, attempts, send, history>>

-----------------------------------------------------------------------------
(* damdaMQTTDisConnect, called by p *)

InConnection(p) == pc[p] \in DisconnectPCs \cup ConnectPCs

\* Unusual: the two writers of client use it at the same time; a new client is
\* wanted and the old one is not stopped, because it has lost its session.
Note(p, next) ==
    lapses' = lapses
        \cup {k \in {"overlap"} : \E q \in Callers \ {p} : InConnection(q)}
        \cup {k \in {"abandoned"} : next = "create" /\ ~connected
                                    /\ \E h \in Handles : state[h] \in Alive}

Begin_neverStops(p, next) ==
    /\ then' = [then EXCEPT ![p] = next]
    /\ Goto(p, next)
    /\ Note(p, next)
    /\ UNCHANGED <<client, state, flags, attempts, send, refusals, stale, reused>>

\* Only a client that counts as connected is stopped first.
Begin(p, next) ==
    /\ then' = [then EXCEPT ![p] = next]
    /\ Goto(p, IF connected THEN "stop" ELSE next)
    /\ Note(p, next)
    /\ UNCHANGED <<client, state, flags, attempts, send, refusals, stale, reused>>

\* UART commands a and b, and command c
UartDisconnect == pc["uart"] = "idle" /\ Begin("uart", "idle")
UartConnect == pc["uart"] = "idle" /\ Begin("uart", "create")
BootCheck == pc["boot"] = "check" /\ Begin("boot", "create")

\* esp_mqtt_client_stop ends the client's task; it dispatches no event.
Stop(p) ==
    /\ pc[p] = "stop"
    /\ IF client = NULL
       THEN Goto(p, then[p]) /\ UNCHANGED <<state, stale, reused>>
       ELSE /\ Becomes(client, Started, "stopped")
            /\ Misuse(client)
            /\ stale' = TRUE
            /\ Goto(p, "destroy")
    /\ UNCHANGED <<client, flags, then, attempts, send, refusals, lapses>>

\* esp_mqtt_client_destroy.  A task that publishes meanwhile is caught in it.
Destroy(p) ==
    /\ pc[p] = "destroy"
    /\ Becomes(client, Alive, "destroyed")
    /\ Misuse(client)
    /\ send' = [s \in Senders |-> [send[s] EXCEPT !.caught = @ \/ send[s].pc = "publish"]]
    /\ Goto(p, "null")
    /\ UNCHANGED <<client, flags, then, attempts, refusals, stale, lapses>>

SetNull_forgotten(p) ==
    /\ pc[p] = "null"
    /\ Goto(p, then[p])
    /\ UNCHANGED <<client, state, flags, then, attempts, send, history>>

SetNull(p) ==
    /\ pc[p] = "null"
    /\ client' = NULL
    /\ Goto(p, then[p])
    /\ UNCHANGED <<state, flags, then, attempts, send, history>>

(* damdaMQTTConnect, called by p *)

\* esp_mqtt_client_init; without memory app_main returns and starts no main_task.
Create(p) ==
    /\ pc[p] = "create"
    /\ \/ \E h \in Handles :
            /\ state[h] = "unused"
            /\ client' = h
            /\ state' = [state EXCEPT ![h] = "created"]
            /\ Goto(p, "start")
       \/ client' = NULL /\ state' = state /\ Goto(p, IF p = "boot" THEN "ended" ELSE "idle")
    /\ UNCHANGED <<flags, then, attempts, send, history>>

\* esp_mqtt_client_start, of whatever client is by then
Start(p) ==
    /\ pc[p] = "start"
    /\ Becomes(client, {"created"}, "down")
    /\ Misuse(client)
    /\ Goto(p, IF p = "boot" THEN "wait" ELSE "idle")
    /\ UNCHANGED <<client, flags, then, attempts, send, refusals, stale, lapses>>

Connection(p) == Stop(p) \/ Destroy(p) \/ SetNull(p) \/ Create(p) \/ Start(p)

-----------------------------------------------------------------------------
(* app_main after damdaMQTTConnect, and the tasks that publish *)

WaitConnected_unbounded ==
    /\ pc["boot"] = "wait"
    /\ connected /\ Goto("boot", "register")
    /\ UNCHANGED <<client, state, flags, then, attempts, send, history>>

WaitConnected_reconnects ==
    /\ pc["boot"] = "wait"
    /\ IF connected
       THEN Goto("boot", "register") /\ attempts' = attempts
       ELSE /\ Goto("boot", IF attempts = MaxAttempts THEN "create" ELSE "wait")
            /\ attempts' = IF attempts = MaxAttempts THEN 0 ELSE attempts + 1
    /\ UNCHANGED <<client, state, flags, then, send, history>>

\* A look at the connection every second.
WaitConnected ==
    /\ pc["boot"] = "wait"
    /\ IF connected \/ attempts = MaxAttempts
       THEN Goto("boot", "register") /\ attempts' = attempts
       ELSE attempts' = attempts + 1 /\ pc' = pc
    /\ UNCHANGED <<client, state, flags, then, send, history>>

\* Notify_Func returns without a word when there is no connection; else it takes its
\* time (obtain_time) before it publishes.
CheckConnected(s) ==
    /\ send[s].pc = "idle"
    /\ CASE s = "boot" -> pc["boot"] = "notify"
         [] s = "main" -> Booted
         [] OTHER -> FALSE
    /\ \/ connected /\ send' = [send EXCEPT ![s].pc = "ready"] /\ pc' = pc
       \/ ~connected /\ s = "boot" /\ send' = send /\ Goto("boot", "idle")
    /\ UNCHANGED <<client, state, flags, then, attempts, history>>

\* damda_Req_RegisterDevice, the UART commands and the responses do not check.
\* main_task exists once app_main has come to its end.
MaySend(s) ==
    CASE s = "boot" -> pc["boot"] = "register" \/ send[s].pc = "ready"
      [] s = "main" -> send[s].pc = "ready"
      [] s = "uart" -> pc["uart"] = "idle"
      [] OTHER -> pc["boot"] \notin {"check", "create", "start"}

\* The argument client of esp_mqtt_client_publish is read ...
LoadClient(s) ==
    /\ send[s].pc # "publish"
    /\ MaySend(s)
    /\ send' = [send EXCEPT ![s] = [pc |-> "publish", h |-> client,
                                   caught |-> \E p \in Callers : pc[p] = "null"]]
    /\ UNCHANGED <<client, state, flags, pc, then, attempts, history>>

\* ... and used.
Publish(s) ==
    /\ send[s].pc = "publish"
    /\ send' = [send EXCEPT ![s] = NotSending]
    /\ Misuse(send[s].h)
    /\ IF s = "boot"
       THEN Goto("boot", IF pc["boot"] = "register" THEN "notify" ELSE "idle")
       ELSE pc' = pc
    /\ UNCHANGED <<client, state, flags, then, attempts, refusals, stale, lapses>>

\* main_task resets the device, between two notifications; what the device starts with
\* is the initial state.
Wipe ==
    /\ Booted
    /\ "main" \in Senders => send["main"].pc = "idle"
    /\ error_status
    /\ client' = NULL
    /\ state' = [h \in Handles |-> "unused"]
    /\ connected' = FALSE
    /\ error_status' = FALSE
    /\ err_count' = 0
    /\ pc' = [boot |-> "check", uart |-> "idle"]
    /\ then' = [boot |-> "create", uart |-> "idle"]
    /\ attempts' = 0
    /\ send' = [s \in Senders |-> NotSending]
    /\ refusals' = 0
    /\ stale' = FALSE
    /\ lapses' = {}
    /\ reused' = FALSE

-----------------------------------------------------------------------------
BootStep == \/ BootCheck \/ Connection("boot") \/ WaitConnected \/ CheckConnected("boot")
            \/ LoadClient("boot") \/ Publish("boot")

Next ==
    \/ \E h \in Handles : Connected(h) \/ Disconnected(h) \/ Refused(h) \/ TlsError(h)
    \/ BootStep
    \/ UartDisconnect \/ UartConnect \/ Connection("uart")
    \/ \E s \in Senders \ {"boot"} : CheckConnected(s) \/ LoadClient(s) \/ Publish(s)
    \/ Wipe

Spec == Init /\ [][Next]_vars

\* app_main and main_task are scheduled; obtain_time and the calls of the client
\* library end.
FairSpec == Spec /\ WF_vars(BootStep) /\ WF_vars(Wipe)

-----------------------------------------------------------------------------
(* Properties *)

\* A task never publishes through a client that was freed, unless the client was
\* freed, and client not yet cleared, while that publication was going on: clearing
\* the handle keeps the destroyed client from every later publication, even when both
\* writers replace the client at once.
DestroyedNotReused ==
    [][\A s \in Senders :
         Publish(s) /\ ~send[s].caught => ~Destroyed(send[s].h)]_vars

\* At most one client exists: two clients with one client_id would take the session
\* from each other for ever.  Command c breaks this when it finds the device
\* disconnected ("abandoned"), and so do the two writers at once.
OneClient ==
    lapses = {} =>
        \A g, h \in Handles : state[g] \in Alive /\ state[h] \in Alive => g = h

\* damdaConnectedStatus tells whether the client has a session, except from the
\* moment the device itself stops a client to the next event.
StatusTruthful ==
    lapses = {} /\ ~stale =>
        (connected <=> \E h \in Handles : state[h] = "up")

\* No device is wiped that was not refused more than MaxRefusals times since it
\* started, whichever clients were refused and whatever happened between.
WipeNeedsRefusals == [][Wipe => refusals > MaxRefusals]_vars

\* The steps app_main has left at most.  The seconds it waits for the connection are
\* counted; the registration and the first notification each read the handle and use it.
BootSteps ==
    CASE pc["boot"] = "check" -> MaxAttempts + 12
      [] pc["boot"] = "stop" -> MaxAttempts + 11
      [] pc["boot"] = "destroy" -> MaxAttempts + 10
      [] pc["boot"] = "null" -> MaxAttempts + 9
      [] pc["boot"] = "create" -> MaxAttempts + 8
      [] pc["boot"] = "start" -> MaxAttempts + 7
      [] pc["boot"] = "wait" -> MaxAttempts - attempts + 6
      [] pc["boot"] = "register" -> IF send["boot"].pc = "publish" THEN 4 ELSE 5
      [] pc["boot"] = "notify" -> CASE send["boot"].pc = "publish" -> 1
                                    [] send["boot"].pc = "ready" -> 2
                                    [] OTHER -> 3
      [] OTHER -> 0

\* Every step of app_main brings the boot nearer to its end, and no other task or event
\* holds it up or sends it back: not a broker that never answers, nor a UART command that
\* replaces the client under it.
BootBounded ==
    [][/\ BootStep => BootSteps' < BootSteps
       /\ pc["boot"] \notin {"idle", "ended"} /\ ~BootStep => BootSteps' = BootSteps]_vars

\* app_main comes to its end, whether or not the broker ever answers.
BootEnds == pc["boot"] \notin {"idle", "ended"} ~> pc["boot"] \in {"idle", "ended"}

\* A device that was refused too often is wiped, or a later transport error has
\* taken the verdict back, or app_main could not create a client.
RefusedDeviceWiped == error_status ~> (~error_status \/ pc["boot"] = "ended")

\* "set the client variable to NULL to prevent reuse afterwards": no call is given
\* a client after it was destroyed.
NullPreventsReuse == ~reused
=============================================================================
