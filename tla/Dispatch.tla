------------------------------ MODULE Dispatch ------------------------------
(***************************************************************************)
(* The device and its server: what the device sends (app_main registers    *)
(* it, main_task notifies every 200 s, the UART task sends on command),    *)
(* what the MQTT task does with each message it receives (messageArrived   *)
(* and the callback customMQTTMsgReceive), and what the server knows.      *)
(*                                                                         *)
(* The device publishes with QoS 1: what cannot be sent waits in the       *)
(* outbox of the client, 30 seconds long, and is sent after later messages *)
(* if these find the session up.  It subscribes with QoS 0: a message of   *)
(* the server is delivered in its session or never.  The client handle     *)
(* itself is the subject of MqttLink.                                      *)
(***************************************************************************)
EXTENDS Messages

CONSTANTS
    Requests,     \* what the server sends of its own accord, each once
    Replies,      \* how it answers a device it knows
    NotFound,     \* how it answers a device it does not know
    MaxInbox,     \* messages on their way to the device
    MaxOutbox,    \* messages that the client has memory for
    Recorded      \* the kinds of ill-timed events that are recorded

ASSUME MessagesAssumption ==
    /\ Requests \subseteq Message
    /\ Replies \subseteq Message
    /\ NotFound \in Message
    /\ \A m \in Requests : m.o # "res" /\ m.rc = Absent
    /\ \A m \in Replies \cup {NotFound} : m.o = "res"
    /\ \A m \in Replies : m.rc # 404 \/ m.ec # 40443

\* early: a task sends before app_main has registered the device; overtaken: a message
\* is sent at once and passes a waiting one; expired: a registration is thrown away;
\* lost: a deletion does not reach the server at once; deleted: the server forgets the
\* device and did not ask it to; again: the device registers although the server has a
\* reason to see it wiped; window: a request comes before the callback is installed;
\* cut: a restart within a handler; memory: there is none for an update task.
Lapses == {"early", "overtaken", "expired", "lost", "deleted", "again", "window", "cut", "memory"}

ASSUME SizesAssumption == MaxInbox \in Nat \ {0} /\ MaxOutbox \in Nat
ASSUME RecordedAssumption == Recorded \subseteq Lapses

VARIABLES
    \* --- the device ---
    boot,           \* progress of app_main, after it main_task
    session,        \* the client has a session with the broker
    callbackFunc,   \* the callback is installed
    busy_flag,
    ucnotify_flag,
    handler,        \* progress of the MQTT task through a message
    outbox,         \* published and not sent yet
    wiped,          \* the device was reset to its factory state
    \* --- the network and the server ---
    inbox,          \* sent to the device and not received yet
    registered,     \* the server knows the device
    unsent,         \* requests that the server has not sent yet
    \* --- histories ---
    answers,        \* per request: the return codes of its answers, in order
    done,           \* requests that had their effect
    silent,         \* control requests since the start that were not answered
    reasons,        \* why the device may be wiped in this session
    lapses          \* the kinds of ill-timed events since it was provisioned

device == <<boot, session, callbackFunc, busy_flag, ucnotify_flag, outbox, wiped>>
server == <<inbox, registered, reasons>>
effects == <<answers, done, silent>>
vars == <<device, handler, server, unsent, effects, lapses>>

-----------------------------------------------------------------------------
Sendings == {"register", "delete", "notify"}
BootPCs == {"connect", "time", "wait", "register", "notify", "main"}
HandlerPCs == {"idle", "answer", "request", "acknowledge", "callback", "verdict"}
Inputs == Requests \cup Replies \cup {NotFound}
Idle == [pc |-> "idle", msg |-> NotFound]

TypeOK ==
    /\ boot \in BootPCs
    /\ session \in BOOLEAN
    /\ callbackFunc \in BOOLEAN
    /\ busy_flag \in BOOLEAN
    /\ ucnotify_flag \in BOOLEAN
    /\ handler \in [pc : HandlerPCs, msg : Inputs]
    /\ outbox \in Seq(Sendings) /\ Len(outbox) <= MaxOutbox
    /\ wiped \in BOOLEAN
    /\ inbox \in Seq(Inputs) /\ Len(inbox) <= MaxInbox
    /\ registered \in BOOLEAN
    /\ unsent \subseteq Requests
    /\ answers \in [Requests -> Seq({200, 600})]
    /\ done \subseteq Requests
    /\ silent \in Nat
    /\ reasons \subseteq {"asked", "stranger"}
    /\ lapses \subseteq Recorded

Init ==
    /\ boot = "connect"
    /\ session = FALSE
    /\ callbackFunc = FALSE
    /\ busy_flag = FALSE
    /\ ucnotify_flag = FALSE
    /\ handler = Idle
    /\ outbox = <<>>
    /\ wiped = FALSE
    /\ inbox = <<>>
    /\ registered = FALSE
    /\ unsent = Requests
    /\ answers = [m \in Requests |-> <<>>]
    /\ done = {}
    /\ silent = 0
    /\ reasons = {}
    /\ lapses = {}

\* Of the messages queued while offline, one is the registration.
Waiting(x) == \E i \in 1 .. Len(outbox) : outbox[i] = x
Blame(kinds) == lapses' = lapses \cup (kinds \cap Recorded)
At(l) == handler.pc = l
GotoHandler(l) == handler' = [handler EXCEPT !.pc = l]
Deletion == {m \in Requests : IsDelete(m) /\ 200 \in {answers[m][i] : i \in 1 .. Len(answers[m])}}

-----------------------------------------------------------------------------
(* The server, and the network between it and the device *)

\* A message that reaches the server.  Its reply gets lost, or comes after what is
\* already on its way.
Reaches(x) ==
    /\ registered' = CASE x = "register" -> TRUE
                       [] x = "delete" -> FALSE
                       [] x = "notify" -> registered
    /\ LET known == registered \/ x = "register"
       IN  /\ \/ inbox' = inbox
              \/ /\ Len(inbox) < MaxInbox
                 /\ \E m \in (IF known THEN Replies ELSE {NotFound}) : inbox' = Append(inbox, m)
           /\ reasons' = reasons \cup {r \in {"stranger"} : ~known}

\* What is ill-timed about publishing x.
Publishing(x, sent) ==
    {k \in {"early"} : x # "register" /\ boot \in {"connect", "time", "wait", "register"}}
    \cup {k \in {"overtaken"} : sent /\ (Waiting("register") \/ Waiting("delete"))}
    \cup {k \in {"again"} : sent /\ x = "register" /\ reasons # {}}
    \cup {k \in {"deleted"} : x = "delete" /\ ~At("request")}
    \cup {k \in {"lost"} : ~sent /\ x = "delete"}
    \cup {k \in {"expired"} : ~sent /\ x = "register" /\ Len(outbox) = MaxOutbox}

\* esp_mqtt_client_publish: a message that is not sent at once waits, if there is memory.
Publish(x) ==
    \/ /\ session
       /\ Reaches(x)
       /\ outbox' = outbox
       /\ Blame(Publishing(x, TRUE))
    \/ /\ outbox' = IF Len(outbox) < MaxOutbox THEN Append(outbox, x) ELSE outbox
       /\ Blame(Publishing(x, FALSE))
       /\ UNCHANGED server

\* The MQTT task sends the oldest waiting message.
Drain ==
    /\ session /\ At("idle")
    /\ outbox # <<>>
    /\ Reaches(Head(outbox))
    /\ outbox' = Tail(outbox)
    /\ Blame({k \in {"again"} : Head(outbox) = "register" /\ reasons # {}})
    /\ UNCHANGED <<boot, session, callbackFunc, busy_flag, ucnotify_flag, wiped, handler, unsent,
                   effects>>

\* It waited for more than 30 seconds.
Expire ==
    /\ ~session
    /\ outbox # <<>>
    /\ outbox' = Tail(outbox)
    /\ Blame({k \in {"expired"} : Head(outbox) = "register"})
    /\ UNCHANGED <<boot, session, callbackFunc, busy_flag, ucnotify_flag, wiped, handler, server,
                   unsent, effects>>

\* MQTT_EVENT_CONNECTED, with the subscription
Connect ==
    /\ boot # "connect" /\ ~session
    /\ session' = TRUE
    /\ UNCHANGED <<boot, callbackFunc, busy_flag, ucnotify_flag, wiped, outbox, handler, server,
                   unsent, effects, lapses>>

\* The MQTT task sees the end of the session between two messages.
Disconnect ==
    /\ session /\ At("idle")
    /\ session' = FALSE
    /\ inbox' = <<>>
    /\ reasons' = {}
    /\ UNCHANGED <<boot, callbackFunc, busy_flag, ucnotify_flag, wiped, outbox, handler, registered,
                   unsent, effects, lapses>>

\* The server sends a request of its own.
Ask(m) ==
    /\ session /\ registered
    /\ m \in unsent
    /\ Len(inbox) < MaxInbox
    /\ inbox' = Append(inbox, m)
    /\ unsent' = unsent \ {m}
    /\ reasons' = reasons \cup {r \in {"asked"} : IsDelete(m)}
    /\ UNCHANGED <<device, handler, registered, effects, lapses>>

\* The owner deletes the device on the server, which does not tell the device.
OwnerDeletes ==
    /\ registered
    /\ registered' = FALSE
    /\ Blame({"deleted"})
    /\ UNCHANGED <<device, handler, inbox, reasons, unsent, effects>>

-----------------------------------------------------------------------------
(* app_main, main_task and the UART task *)

\* damdaMQTTConnect
CreateClient ==
    /\ boot = "connect" /\ ~wiped
    /\ boot' = "time"
    /\ UNCHANGED <<session, callbackFunc, busy_flag, ucnotify_flag, wiped, outbox, handler, server,
                   unsent, effects, lapses>>

\* test_init, after obtain_time
InstallCallback ==
    /\ boot = "time"
    /\ boot' = "wait"
    /\ callbackFunc' = TRUE
    /\ UNCHANGED <<session, busy_flag, ucnotify_flag, wiped, outbox, handler, server, unsent,
                   effects, lapses>>

\* There is a session, or a hundred seconds are over.
EndWait ==
    /\ boot = "wait"
    /\ boot' = "register"
    /\ UNCHANGED <<session, callbackFunc, busy_flag, ucnotify_flag, wiped, outbox, handler, server,
                   unsent, effects, lapses>>

Register_skipped ==
    /\ boot = "register"
    /\ boot' = "notify"
    /\ ucnotify_flag' = TRUE
    /\ UNCHANGED <<session, callbackFunc, busy_flag, wiped, outbox, handler, server, unsent, effects,
                   lapses>>

Register ==
    /\ boot = "register"
    /\ Publish("register")
    /\ boot' = "notify"
    /\ ucnotify_flag' = TRUE
    /\ UNCHANGED <<session, callbackFunc, busy_flag, wiped, handler, unsent, effects>>

\* Notify_Func at the end of app_main
FirstNotify ==
    /\ boot = "notify"
    /\ boot' = "main"
    /\ IF session /\ ucnotify_flag THEN Publish("notify") ELSE UNCHANGED <<outbox, server, lapses>>
    /\ UNCHANGED <<session, callbackFunc, busy_flag, ucnotify_flag, wiped, handler, unsent, effects>>

Round_never ==
    /\ FALSE
    /\ UNCHANGED vars

\* Notify_Func in main_task, every 200 seconds
Round ==
    /\ boot = "main"
    /\ session /\ ucnotify_flag
    /\ Publish("notify")
    /\ UNCHANGED <<boot, session, callbackFunc, busy_flag, ucnotify_flag, wiped, handler, unsent,
                   effects>>

\* UART commands d, q, and e, f, k, l, m, n, x, y.  Before the client exists they
\* have no effect.
UartSend(x) ==
    /\ boot # "connect"
    /\ Publish(x)
    /\ UNCHANGED <<boot, session, callbackFunc, busy_flag, ucnotify_flag, wiped, handler, unsent,
                   effects>>

\* UART commands g and h
UartNotify(on) ==
    /\ boot # "connect"
    /\ ucnotify_flag' = on
    /\ UNCHANGED <<boot, session, callbackFunc, busy_flag, wiped, outbox, handler, server, unsent,
                   effects, lapses>>

-----------------------------------------------------------------------------
(* messageArrived *)

Receive_anyWrite ==
    /\ session /\ At("idle")
    /\ inbox # <<>>
    /\ inbox' = Tail(inbox)
    /\ LET m == Head(inbox)
       IN  handler' = [msg |-> m,
                       pc |-> CASE MessageType(m) = "DELETE_SYNC" -> "answer"
                                [] MessageType(m) = "DELETE_ASYNC" -> "request"
                                [] m.opr = "write" -> "acknowledge"
                                [] OTHER -> "callback"]
    /\ UNCHANGED <<device, registered, reasons, unsent, effects, lapses>>

Receive ==
    /\ session /\ At("idle")
    /\ inbox # <<>>
    /\ inbox' = Tail(inbox)
    /\ LET m == Head(inbox)
       IN  handler' = [msg |-> m,
                       pc |-> CASE MessageType(m) = "DELETE_SYNC" -> "answer"
                                [] MessageType(m) = "DELETE_ASYNC" -> "request"
                                [] IsFirmware(m) /\ m.opr = "write" -> "acknowledge"
                                [] OTHER -> "callback"]
    /\ UNCHANGED <<device, registered, reasons, unsent, effects, lapses>>

\* There is no memory for the entries of the message, which is forgotten.
Unread ==
    /\ session /\ At("idle")
    /\ inbox # <<>> /\ Head(inbox).e # <<>>
    /\ inbox' = Tail(inbox)
    /\ UNCHANGED <<device, handler, registered, reasons, unsent, effects, lapses>>

\* Answers need no room in the outbox here: the server does nothing with them.
Answer(m, code) == answers' = [answers EXCEPT ![m] = Append(@, code)]

\* damda_Rsp_RemoteDelDevice
AnswerDelete ==
    /\ At("answer")
    /\ Answer(handler.msg, 200)
    /\ GotoHandler("request")
    /\ UNCHANGED <<device, server, unsent, done, silent, lapses>>

RequestDelete_forgotten ==
    /\ At("request")
    /\ GotoHandler("callback")
    /\ UNCHANGED <<device, server, unsent, effects, lapses>>

\* damda_Req_DeleteDevice
RequestDelete ==
    /\ At("request")
    /\ Publish("delete")
    /\ GotoHandler("callback")
    /\ UNCHANGED <<boot, session, callbackFunc, busy_flag, ucnotify_flag, wiped, unsent, effects>>

\* damda_Rsp_RemoteControl_noEntity
Acknowledge ==
    /\ At("acknowledge")
    /\ Answer(handler.msg, 200)
    /\ GotoHandler("callback")
    /\ UNCHANGED <<device, server, unsent, done, silent, lapses>>

\* Without a callback, or memory for the URL and the version, the message is dropped,
\* answered or not.
Dropped ==
    /\ At("callback")
    /\ ~callbackFunc \/ IsFirmware(handler.msg)
    /\ handler' = Idle
    /\ Blame({k \in {"window"} : ~callbackFunc /\ handler.msg \in Requests}
             \cup {k \in {"memory"} : callbackFunc})
    /\ UNCHANGED <<device, server, unsent, effects>>

-----------------------------------------------------------------------------
(* customMQTTMsgReceive *)

Called == At("callback") /\ callbackFunc

\* A start of the device, from NVS; what was on its way to it is lost.
Reboot ==
    /\ boot' = "connect"
    /\ session' = FALSE
    /\ callbackFunc' = FALSE
    /\ busy_flag' = FALSE
    /\ ucnotify_flag' = FALSE
    /\ handler' = Idle
    /\ outbox' = <<>>
    /\ inbox' = <<>>
    /\ reasons' = {}
    /\ silent' = 0

Control_neverBusy ==
    /\ Called
    /\ IsControl(handler.msg)
    /\ silent' = silent + 1
    /\ GotoHandler("verdict")
    /\ UNCHANGED <<device, server, unsent, answers, done, lapses>>

\* The first request takes the device and is not answered, the others are told
\* that it is busy (damda_Rsp_Client_Busy).
Control ==
    /\ Called
    /\ IsControl(handler.msg)
    /\ IF busy_flag
       THEN Answer(handler.msg, 600) /\ silent' = silent
       ELSE silent' = silent + 1 /\ answers' = answers
    /\ busy_flag' = TRUE
    /\ GotoHandler("verdict")
    /\ UNCHANGED <<boot, session, callbackFunc, ucnotify_flag, outbox, wiped, server, unsent, done,
                   lapses>>

\* strcpy from a string value that was not read
ControlPanics ==
    /\ Called
    /\ IsControl(handler.msg) /\ ~HasStringValues(handler.msg)
    /\ Reboot
    /\ UNCHANGED <<wiped, registered, unsent, answers, done, lapses>>

\* ota_task_init; without memory there is no task.
StartUpdate ==
    /\ Called
    /\ IsFirmware(handler.msg)
    /\ \/ done' = done \cup ({handler.msg} \cap Requests) /\ lapses' = lapses
       \/ done' = done /\ Blame({"memory"})
    /\ GotoHandler("verdict")
    /\ UNCHANGED <<device, server, unsent, answers, silent>>

PassOn ==
    /\ Called
    /\ ~IsControl(handler.msg) /\ ~IsFirmware(handler.msg)
    /\ GotoHandler("verdict")
    /\ UNCHANGED <<device, server, unsent, effects, lapses>>

WipeVerdict_asyncOnly(m) == IsUnknownDevice(m) \/ MessageType(m) = "DELETE_ASYNC"
WipeVerdict(m) == IsUnknownDevice(m) \/ IsDelete(m)

\* nvs_flash_erase and esp_restart; the details are in Provisioning.
Wipe ==
    /\ At("verdict")
    /\ WipeVerdict(handler.msg)
    /\ wiped' = TRUE
    /\ Reboot
    /\ done' = done \cup ({handler.msg} \cap Requests)
    /\ UNCHANGED <<registered, unsent, answers, lapses>>

Return ==
    /\ At("verdict")
    /\ ~WipeVerdict(handler.msg)
    /\ handler' = Idle
    /\ UNCHANGED <<device, server, unsent, effects, lapses>>

Restart ==
    /\ ~wiped
    /\ Reboot
    /\ lapses' = (lapses \ {"early", "overtaken", "expired"})
                 \cup {k \in {"cut"} \cap Recorded : ~At("idle")}
    /\ UNCHANGED <<wiped, registered, unsent, answers, done>>

\* The owner gives the device new credentials (Provisioning).
Provision ==
    /\ wiped
    /\ wiped' = FALSE
    /\ answers' = [m \in Requests |-> <<>>]
    /\ done' = {}
    /\ lapses' = {}
    /\ UNCHANGED <<boot, session, callbackFunc, busy_flag, ucnotify_flag, outbox, handler, server,
                   unsent, silent>>

-----------------------------------------------------------------------------
BootStep == CreateClient \/ InstallCallback \/ EndWait \/ Register \/ FirstNotify
HandlerStep ==
    \/ AnswerDelete \/ RequestDelete \/ Acknowledge \/ Dropped
    \/ Control \/ ControlPanics \/ StartUpdate \/ PassOn
    \/ Wipe \/ Return

Next ==
    \/ BootStep \/ Round
    \/ \E x \in Sendings : UartSend(x)
    \/ \E on \in BOOLEAN : UartNotify(on)
    \/ Receive \/ Unread \/ HandlerStep
    \/ Drain \/ Expire \/ Connect \/ Disconnect
    \/ \E m \in Requests : Ask(m)
    \/ OwnerDeletes
    \/ Restart \/ Provision

Spec == Init /\ [][Next]_vars

\* The tasks are scheduled, and obtain_time, the handler's only wait, is bounded.  The
\* client reconnects for ever and the server answers: a session lasts, now and then,
\* for a notification with its reply, and for the reply to be received.
FairSpec ==
    /\ Spec
    /\ WF_vars(BootStep)
    /\ WF_vars(HandlerStep)
    /\ WF_vars(Connect)
    /\ SF_vars(Round /\ inbox' # inbox)
    /\ SF_vars(Receive)

-----------------------------------------------------------------------------
(* Properties *)

\* The server meets a device that it does not know only after it deleted it, or when a
\* UART command was sent before the registration, or the registration was passed by a
\* later message or waited in vain.
StrangerExplained ==
    "stranger" \in reasons =>
        "asked" \in reasons \/ lapses \cap {"early", "overtaken", "expired", "deleted"} # {}

\* A device that has forgotten its credentials is not known to the server any more,
\* unless its deletion did not reach the server or a registration came after it.
NoGhost ==
    wiped /\ registered => lapses \cap {"lost", "again"} # {}

\* A device that has confirmed its deletion with 200 is not registered again, until its
\* owner provisions it, unless the confirmation was given before the callback was
\* installed or the device restarted in the middle.
DeletionSticks ==
    [][~registered /\ registered' =>
         Deletion = {} \/ lapses' \cap {"window", "cut", "again"} # {}]_vars

\* What the device has answered with 200 it has done, once the handler has ended.
AcknowledgedIsDone ==
    \A m \in Requests :
        (\E i \in 1 .. Len(answers[m]) : answers[m][i] = 200) /\ (At("idle") \/ handler.msg # m) =>
            m \in done \/ lapses \cap {"window", "memory", "cut"} # {}

\* A request gets one answer at most, from whichever of the two layers.
AnsweredOnce == \A m \in Requests : Len(answers[m]) <= 1

\* The device leaves at most one control request without an answer until it restarts.
OneControlSilent == silent <= 1

\* An update starts only with a URL and a version that came in one message, if the
\* server writes each at most once, with a value.
UpdateHasUrlAndVersion ==
    \A m \in done :
        /\ IsFirmware(m) /\ m.o = "w"
        /\ \A uri \in FirmwareUris : Cardinality(Named(m, {uri})) <= 1
        /\ \A i \in 1 .. Len(m.e) : m.e[i].sv # Absent
        => \A uri \in FirmwareUris : StringValueByResourceUri(m, uri) # Unset

\* The contract of the device with its owner and the server.
Contract == INSTANCE DeviceContract WITH Reasons <- {"asked", "stranger"}

\* The device is wiped only for a reason that the server gave it in this session.
ImplementsContract == Contract!Spec

\* A device that the server does not know, and that notifies it, is wiped in the end,
\* or registered, restarted or silenced before.
UnknownDeviceForgets ==
    boot = "main" /\ ~registered ~> wiped \/ registered \/ boot # "main" \/ ~ucnotify_flag
=============================================================================
