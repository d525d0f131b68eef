--------------------------- MODULE Dispatch_proofs ---------------------------
(***************************************************************************)
(* Proofs about Dispatch, for any requests and replies of the server and   *)
(* any capacity of the two queues.                                         *)
(***************************************************************************)
EXTENDS Dispatch, FiniteSetTheorems, TLAPS

-----------------------------------------------------------------------------
(* Messages *)

\* A reply is neither a deletion nor a control request.
LEMMA ReplyKinds ==
    ASSUME NEW m, m.o = "res"
    PROVE  ~IsDelete(m) /\ ~IsControl(m)
  BY DEF IsDelete, IsControl, MessageType

LEMMA InputFacts ==
    /\ \A m \in Requests : m \notin Replies /\ m # NotFound /\ ~IsUnknownDevice(m)
    /\ \A m \in Replies : ~IsUnknownDevice(m) /\ ~IsDelete(m) /\ ~IsControl(m)
    /\ ~IsDelete(NotFound) /\ ~IsControl(NotFound)
  <1>1. \A m \in Requests : m \notin Replies /\ m # NotFound
    BY MessagesAssumption
  <1>2. \A m \in Requests : ~IsUnknownDevice(m)
    BY MessagesAssumption DEF IsUnknownDevice, ReturnCode
  <1>3. \A m \in Replies : ~IsUnknownDevice(m)
    BY MessagesAssumption DEF IsUnknownDevice, ReturnCode, ErrorCode
  <1> QED
    BY <1>1, <1>2, <1>3, ReplyKinds, MessagesAssumption

-----------------------------------------------------------------------------
(* Types *)

LEMMA IdleType == Idle \in [pc : HandlerPCs, msg : Inputs]
  BY DEF Idle, HandlerPCs, Inputs

LEMMA EmptyQueue ==
    /\ \A S : <<>> \in Seq(S)
    /\ Len(<<>>) <= MaxInbox /\ Len(<<>>) <= MaxOutbox
  BY SizesAssumption

LEMMA ReachesType ==
    ASSUME TypeOK, NEW x \in Sendings, Reaches(x)
    PROVE  /\ registered' \in BOOLEAN
           /\ inbox' \in Seq(Inputs) /\ Len(inbox') <= MaxInbox
           /\ reasons' \subseteq {"asked", "stranger"}
  <1>1. registered' \in BOOLEAN /\ reasons' \subseteq {"asked", "stranger"}
    BY DEF TypeOK, Reaches, Sendings
  <1>2. inbox' = inbox \/ \E m \in Inputs : Len(inbox) < MaxInbox /\ inbox' = Append(inbox, m)
    BY DEF Reaches, Inputs
  <1>3. inbox' \in Seq(Inputs) /\ Len(inbox') <= MaxInbox
    BY <1>2, SizesAssumption DEF TypeOK
  <1> QED
    BY <1>1, <1>3

LEMMA BlameType ==
    ASSUME TypeOK, NEW kinds, Blame(kinds)
    PROVE  lapses' \subseteq Recorded
  BY DEF TypeOK, Blame

LEMMA PublishType ==
    ASSUME TypeOK, NEW x \in Sendings, Publish(x)
    PROVE  /\ registered' \in BOOLEAN
           /\ inbox' \in Seq(Inputs) /\ Len(inbox') <= MaxInbox
           /\ reasons' \subseteq {"asked", "stranger"}
           /\ outbox' \in Seq(Sendings) /\ Len(outbox') <= MaxOutbox
           /\ lapses' \subseteq Recorded
  <1>1. lapses' \subseteq Recorded
    BY BlameType DEF Publish
  <1>2. CASE session /\ Reaches(x) /\ outbox' = outbox
    BY <1>1, <1>2, ReachesType DEF TypeOK
  <1>3. CASE /\ outbox' = IF Len(outbox) < MaxOutbox THEN Append(outbox, x) ELSE outbox
             /\ UNCHANGED server
    <2>1. outbox' \in Seq(Sendings) /\ Len(outbox') <= MaxOutbox
      BY <1>3, SizesAssumption DEF TypeOK
    <2> QED
      BY <1>1, <1>3, <2>1 DEF TypeOK, server
  <1> QED
    BY <1>2, <1>3 DEF Publish

LEMMA AnswerType ==
    ASSUME TypeOK, NEW m, NEW code \in {200, 600}, Answer(m, code)
    PROVE  answers' \in [Requests -> Seq({200, 600})]
  <1>1. \A r \in Requests : Append(answers[r], code) \in Seq({200, 600})
    BY DEF TypeOK
  <1>2. answers \in [Requests -> Seq({200, 600})]
    BY DEF TypeOK
  <1>3. answers' = [answers EXCEPT ![m] = Append(answers[m], code)]
    BY DEF Answer
  <1>4. DOMAIN answers' = Requests /\ answers' = [r \in Requests |-> answers'[r]]
    BY <1>2, <1>3
  <1>5. \A r \in Requests : answers'[r] \in Seq({200, 600})
    BY <1>1, <1>2, <1>3
  <1> QED
    BY <1>4, <1>5

LEMMA GotoType ==
    ASSUME TypeOK, NEW l \in HandlerPCs, GotoHandler(l)
    PROVE  handler' \in [pc : HandlerPCs, msg : Inputs]
  BY DEF TypeOK, GotoHandler

LEMMA RebootType ==
    ASSUME TypeOK, Reboot
    PROVE  /\ boot' \in BootPCs /\ session' \in BOOLEAN /\ callbackFunc' \in BOOLEAN
           /\ busy_flag' \in BOOLEAN /\ ucnotify_flag' \in BOOLEAN
           /\ handler' \in [pc : HandlerPCs, msg : Inputs]
           /\ outbox' \in Seq(Sendings) /\ Len(outbox') <= MaxOutbox
           /\ inbox' \in Seq(Inputs) /\ Len(inbox') <= MaxInbox
           /\ reasons' \subseteq {"asked", "stranger"}
           /\ silent' \in Nat
  BY IdleType, EmptyQueue DEF Reboot, BootPCs

LEMMA InitType == Init => TypeOK
  <1> SUFFICES ASSUME Init PROVE TypeOK
    OBVIOUS
  <1>1. answers \in [Requests -> Seq({200, 600})]
    BY EmptyQueue DEF Init
  <1> QED
    BY <1>1, IdleType, EmptyQueue DEF Init, TypeOK, BootPCs

LEMMA BootStepType ==
    ASSUME TypeOK, BootStep
    PROVE  TypeOK'
  <1>1. CASE CreateClient
    BY <1>1 DEF CreateClient, TypeOK, BootPCs, server, effects
  <1>2. CASE InstallCallback
    BY <1>2 DEF InstallCallback, TypeOK, BootPCs, server, effects
  <1>3. CASE EndWait
    BY <1>3 DEF EndWait, TypeOK, BootPCs, server, effects
  <1>4. CASE Register
    BY <1>4, PublishType DEF Register, TypeOK, BootPCs, Sendings, effects
  <1>5. CASE FirstNotify
    <2>1. CASE Publish("notify")
      BY <1>5, <2>1, PublishType DEF FirstNotify, TypeOK, BootPCs, Sendings, effects
    <2>2. CASE UNCHANGED <<outbox, server, lapses>>
      BY <1>5, <2>2 DEF FirstNotify, TypeOK, BootPCs, server, effects
    <2> QED
      BY <1>5, <2>1, <2>2 DEF FirstNotify
  <1> QED
    BY <1>1, <1>2, <1>3, <1>4, <1>5 DEF BootStep

LEMMA HandlerStepType ==
    ASSUME TypeOK, HandlerStep
    PROVE  TypeOK'
  <1> USE DEF HandlerPCs
  <1>1. CASE AnswerDelete
    BY <1>1, AnswerType, GotoType DEF AnswerDelete, TypeOK, device, server
  <1>2. CASE RequestDelete
    BY <1>2, PublishType, GotoType DEF RequestDelete, TypeOK, Sendings, effects
  <1>3. CASE Acknowledge
    BY <1>3, AnswerType, GotoType DEF Acknowledge, TypeOK, device, server
  <1>4. CASE Dropped
    BY <1>4, IdleType, BlameType DEF Dropped, TypeOK, device, server, effects
  <1>5. CASE Control
    <2>1. answers' \in [Requests -> Seq({200, 600})] /\ silent' \in Nat
      BY <1>5, AnswerType DEF Control, TypeOK
    <2> QED
      BY <1>5, <2>1, GotoType DEF Control, TypeOK, server
  <1>6. CASE ControlPanics
    BY <1>6, RebootType DEF ControlPanics, TypeOK
  <1>7. CASE StartUpdate
    BY <1>7, GotoType, BlameType DEF StartUpdate, TypeOK, device, server
  <1>8. CASE PassOn
    BY <1>8, GotoType DEF PassOn, TypeOK, device, server, effects
  <1>9. CASE Wipe
    BY <1>9, RebootType DEF Wipe, TypeOK
  <1>10. CASE Return
    BY <1>10, IdleType DEF Return, TypeOK, device, server, effects
  <1> QED
    BY <1>1, <1>2, <1>3, <1>4, <1>5, <1>6, <1>7, <1>8, <1>9, <1>10 DEF HandlerStep

LEMMA NextType == TypeOK /\ [Next]_vars => TypeOK'
  <1> SUFFICES ASSUME TypeOK, [Next]_vars
               PROVE  TypeOK'
    OBVIOUS
  <1>1. CASE BootStep
    BY <1>1, BootStepType
  <1>2. CASE Round
    BY <1>2, PublishType DEF Round, TypeOK, Sendings, effects
  <1>3. CASE \E x \in Sendings : UartSend(x)
    BY <1>3, PublishType DEF UartSend, TypeOK, effects
  <1>4. CASE \E on \in BOOLEAN : UartNotify(on)
    BY <1>4 DEF UartNotify, TypeOK, server, effects
  <1>5. CASE Receive
    <2>1. handler' \in [pc : HandlerPCs, msg : Inputs]
      BY <1>5 DEF Receive, TypeOK, HandlerPCs
    <2>2. inbox' \in Seq(Inputs) /\ Len(inbox') <= MaxInbox
      BY <1>5, SizesAssumption DEF Receive, TypeOK
    <2> QED
      BY <1>5, <2>1, <2>2 DEF Receive, TypeOK, device, effects
  <1>16. CASE Unread
    BY <1>16, SizesAssumption DEF Unread, TypeOK, device, effects
  <1>6. CASE HandlerStep
    BY <1>6, HandlerStepType
  <1>7. CASE Drain
    <2>1. Head(outbox) \in Sendings /\ outbox' \in Seq(Sendings) /\ Len(outbox') <= MaxOutbox
      BY <1>7, SizesAssumption DEF Drain, TypeOK
    <2> QED
      BY <1>7, <2>1, ReachesType, BlameType DEF Drain, TypeOK, effects
  <1>8. CASE Expire
    <2>1. outbox' \in Seq(Sendings) /\ Len(outbox') <= MaxOutbox
      BY <1>8, SizesAssumption DEF Expire, TypeOK
    <2> QED
      BY <1>8, <2>1, BlameType DEF Expire, TypeOK, server, effects
  <1>9. CASE Connect
    BY <1>9 DEF Connect, TypeOK, server, effects
  <1>10. CASE Disconnect
    BY <1>10, EmptyQueue DEF Disconnect, TypeOK, effects
  <1>11. CASE \E m \in Requests : Ask(m)
    <2> PICK m \in Requests : Ask(m)
      BY <1>11
    <2>1. inbox' \in Seq(Inputs) /\ Len(inbox') <= MaxInbox
      BY SizesAssumption DEF Ask, TypeOK, Inputs
    <2> QED
      BY <2>1 DEF Ask, TypeOK, device, effects
  <1>12. CASE OwnerDeletes
    BY <1>12, BlameType DEF OwnerDeletes, TypeOK, device, effects
  <1>13. CASE Restart
    BY <1>13, RebootType DEF Restart, TypeOK
  <1>14. CASE Provision
    <2>1. answers' \in [Requests -> Seq({200, 600})]
      BY <1>14, EmptyQueue DEF Provision
    <2> QED
      BY <1>14, <2>1 DEF Provision, TypeOK, server
  <1>15. CASE UNCHANGED vars
    BY <1>15 DEF vars, device, server, effects, TypeOK
  <1> QED
    BY <1>1, <1>2, <1>3, <1>4, <1>5, <1>6, <1>7, <1>8, <1>9, <1>10, <1>11, <1>12, <1>13,
       <1>14, <1>15, <1>16 DEF Next

\* Type correctness: the queues of the client and of the network stay within their
\* capacity, whatever the tasks publish.
THEOREM TypeCorrect == Spec => []TypeOK
  BY InitType, NextType, PTL DEF Spec

-----------------------------------------------------------------------------
(* Where a message is.  The server sends each of its requests once, so a   *)
(* request is unsent, on its way, with the handler, or past it.            *)

InInbox(m) == \E i \in 1 .. Len(inbox) : inbox[i] = m

InboxOnce ==
    \A i, j \in 1 .. Len(inbox) : inbox[i] = inbox[j] /\ inbox[i] \in Requests => i = j

\* The handler's branches, and the reasons for a wipe.
HandlerInv ==
    /\ At("idle") => handler = Idle
    /\ At("answer") \/ At("request") => IsDelete(handler.msg)
    /\ At("acknowledge") => IsFirmware(handler.msg)

ReasonInv ==
    /\ \A i \in 1 .. Len(inbox) : WipeVerdict(inbox[i]) => reasons # {}
    /\ ~At("idle") /\ WipeVerdict(handler.msg) => reasons # {}
    /\ wiped => boot = "connect" /\ ~session /\ At("idle")

\* The device has answered m with 200.
Accepted(m) == \E i \in 1 .. Len(answers[m]) : answers[m][i] = 200

\* Before its branch answers it, a request has no answer.
TrackInv ==
    /\ InboxOnce
    /\ \A m \in Requests : m \in unsent => ~InInbox(m)
    /\ \A m \in Requests : m \in unsent \/ InInbox(m) => handler.msg # m /\ Len(answers[m]) = 0
    /\ handler.msg \in Requests /\ (\/ At("answer") \/ At("acknowledge")
                                    \/ At("callback") /\ IsControl(handler.msg)) =>
           Len(answers[handler.msg]) = 0
    /\ \A m \in Requests : Len(answers[m]) <= 1
    /\ \A m \in Requests : Accepted(m) => IsDelete(m) \/ IsFirmware(m)

\* What leaves the inbox as it is, or adds a reply to it.
Replied == inbox' = inbox \/ \E m \in Replies \cup {NotFound} : inbox' = Append(inbox, m)

LEMMA KindsDiffer ==
    ASSUME NEW m
    PROVE  /\ ~(IsDelete(m) /\ IsFirmware(m))
           /\ ~(IsDelete(m) /\ IsControl(m))
           /\ ~(IsControl(m) /\ IsFirmware(m))
  BY DEF IsDelete, IsFirmware, IsControl

LEMMA RepliedFrame ==
    ASSUME TypeOK, Replied
    PROVE  /\ \A m \in Requests : InInbox(m)' <=> InInbox(m)
           /\ InboxOnce => InboxOnce'
  <1>1. CASE inbox' = inbox
    BY <1>1 DEF InInbox, InboxOnce
  <1>2. CASE \E m \in Replies \cup {NotFound} : inbox' = Append(inbox, m)
    <2> PICK r \in Replies \cup {NotFound} : inbox' = Append(inbox, r)
      BY <1>2
    <2>1. r \notin Requests /\ inbox \in Seq(Inputs) /\ r \in Inputs
      BY InputFacts DEF TypeOK, Inputs
    <2>2. /\ Len(inbox') = Len(inbox) + 1 /\ Len(inbox) \in Nat
          /\ inbox'[Len(inbox) + 1] = r
          /\ \A i \in 1 .. Len(inbox) : inbox'[i] = inbox[i]
      BY <2>1
    <2> HIDE DEF Inputs
    <2> QED
      BY <2>1, <2>2 DEF InInbox, InboxOnce
  <1> QED
    BY <1>1, <1>2 DEF Replied

LEMMA PublishReplies ==
    ASSUME NEW x, Publish(x) \/ Reaches(x)
    PROVE  Replied
  BY DEF Publish, Reaches, Replied, server

LEMMA InboxTail ==
    ASSUME TypeOK, inbox # <<>>, inbox' = Tail(inbox)
    PROVE  /\ InInbox(Head(inbox))
           /\ \A m \in Requests : InInbox(m)' => InInbox(m)
           /\ InboxOnce => InboxOnce'
           /\ \A m \in Requests : InboxOnce /\ m = Head(inbox) => ~InInbox(m)'
  <1>1. /\ Len(inbox) \in Nat \ {0} /\ Len(inbox') = Len(inbox) - 1
        /\ Head(inbox) = inbox[1]
        /\ \A i \in 1 .. Len(inbox') : inbox'[i] = inbox[i + 1]
    BY DEF TypeOK
  <1>2. \A i \in 1 .. Len(inbox') : i + 1 \in 1 .. Len(inbox) /\ i + 1 # 1
    BY <1>1
  <1>3. 1 \in 1 .. Len(inbox)
    BY <1>1
  <1>4. InInbox(Head(inbox)) /\ \A m \in Requests : InInbox(m)' => InInbox(m)
    BY <1>1, <1>2, <1>3 DEF InInbox
  <1>5. ASSUME InboxOnce
        PROVE  InboxOnce'
    BY <1>1, <1>2, <1>5 DEF InboxOnce
  <1>6. ASSUME InboxOnce, NEW m \in Requests, m = Head(inbox)
        PROVE  ~InInbox(m)'
    BY <1>1, <1>2, <1>3, <1>6 DEF InboxOnce, InInbox
  <1> QED
    BY <1>4, <1>5, <1>6

-----------------------------------------------------------------------------
(* The handler's branches *)

LEMMA NextHandlerInv ==
    ASSUME TypeOK, HandlerInv, [Next]_vars
    PROVE  HandlerInv'
  <1> USE DEF HandlerInv, At
  <1>1. ASSUME handler' = handler
        PROVE  HandlerInv'
    BY <1>1
  <1>2. ASSUME handler' = Idle
        PROVE  HandlerInv'
    BY <1>2 DEF Idle
  <1>3. CASE Receive
    BY <1>3 DEF Receive, IsDelete
  <1>4. CASE AnswerDelete
    BY <1>4 DEF AnswerDelete, GotoHandler, TypeOK
  <1>5. CASE RequestDelete \/ Acknowledge \/ Control \/ StartUpdate \/ PassOn
    BY <1>5 DEF RequestDelete, Acknowledge, Control, StartUpdate, PassOn, GotoHandler, TypeOK
  <1>6. CASE Dropped \/ ControlPanics \/ Wipe \/ Return \/ Restart
    BY <1>6, <1>2 DEF Dropped, ControlPanics, Wipe, Return, Restart, Reboot
  <1>7. CASE \/ BootStep \/ Round \/ Drain \/ Expire \/ Connect \/ Disconnect \/ OwnerDeletes \/ Provision
             \/ Unread
    BY <1>7, <1>1 DEF Unread, BootStep, CreateClient, InstallCallback, EndWait, Register, FirstNotify, Round,
       Drain, Expire, Connect, Disconnect, OwnerDeletes, Provision
  <1>8. CASE (\E x \in Sendings : UartSend(x)) \/ (\E on \in BOOLEAN : UartNotify(on))
             \/ (\E m \in Requests : Ask(m)) \/ UNCHANGED vars
    BY <1>8, <1>1 DEF UartSend, UartNotify, Ask, vars
  <1> QED
    BY <1>3, <1>4, <1>5, <1>6, <1>7, <1>8 DEF Next, HandlerStep

\* The progress of the MQTT task fits the message it handles.
THEOREM HandlerCorrect == Spec => []HandlerInv
  <1>1. Init => HandlerInv
    BY DEF Init, HandlerInv, At, Idle
  <1> QED
    BY <1>1, TypeCorrect, NextHandlerInv, PTL DEF Spec

-----------------------------------------------------------------------------
(* One control request without an answer *)

SilentInv == silent = (IF busy_flag THEN 1 ELSE 0)

LEMMA NextSilentInv ==
    ASSUME SilentInv, [Next]_vars
    PROVE  SilentInv'
  <1> USE DEF SilentInv
  <1>1. CASE HandlerStep
    BY <1>1 DEF HandlerStep, AnswerDelete, RequestDelete, Acknowledge, Dropped, Control, ControlPanics,
       StartUpdate, PassOn, Wipe, Return, Reboot, device, effects
  <1>2. CASE BootStep \/ Round
    BY <1>2 DEF BootStep, CreateClient, InstallCallback, EndWait, Register, FirstNotify, Round, effects
  <1>3. CASE \/ Receive \/ Unread \/ Drain \/ Expire \/ Connect \/ Disconnect \/ OwnerDeletes \/ Restart
             \/ Provision
    BY <1>3 DEF Receive, Unread, Drain, Expire, Connect, Disconnect, OwnerDeletes, Restart, Provision, Reboot,
       device, effects
  <1>4. CASE (\E x \in Sendings : UartSend(x)) \/ (\E on \in BOOLEAN : UartNotify(on))
             \/ (\E m \in Requests : Ask(m)) \/ UNCHANGED vars
    BY <1>4 DEF UartSend, UartNotify, Ask, vars, device, effects
  <1> QED
    BY <1>1, <1>2, <1>3, <1>4 DEF Next

\* The device leaves at most one control request unanswered until it restarts,
\* whatever the server sends.
THEOREM SilentOnce == Spec => []OneControlSilent
  <1>1. Init => SilentInv
    BY DEF Init, SilentInv
  <1>2. SilentInv => OneControlSilent
    BY DEF SilentInv, OneControlSilent
  <1> QED
    BY <1>1, <1>2, NextSilentInv, PTL DEF Spec

-----------------------------------------------------------------------------
(* One answer per request *)

\* A step that sends nothing to the device and answers nothing.
LEMMA TrackFrame ==
    ASSUME TypeOK, TrackInv,
           Replied \/ inbox' = <<>> \/ (inbox # <<>> /\ inbox' = Tail(inbox)),
           unsent' = unsent, answers' = answers, handler' = handler \/ handler' = Idle
    PROVE  TrackInv'
  <1>1. /\ \A m \in Requests : InInbox(m)' => InInbox(m)
        /\ InboxOnce'
    <2>1. CASE Replied
      BY <2>1, RepliedFrame DEF TrackInv
    <2>2. CASE inbox' = <<>>
      BY <2>2 DEF InInbox, InboxOnce
    <2>3. CASE inbox # <<>> /\ inbox' = Tail(inbox)
      BY <2>3, InboxTail DEF TrackInv
    <2> QED
      BY <2>1, <2>2, <2>3
  <1>2. CASE handler' = handler
    BY <1>1, <1>2 DEF TrackInv, At, Accepted
  <1>3. CASE handler' = Idle
    <2>1. handler'.pc = "idle" /\ handler'.msg \notin Requests
      BY <1>3, InputFacts DEF Idle
    <2> QED
      BY <1>1, <2>1 DEF TrackInv, At, Accepted
  <1> QED
    BY <1>2, <1>3

LEMMA ExceptAt ==
    ASSUME NEW S, NEW T, NEW f \in [S -> T], NEW r, NEW a, NEW m \in S
    PROVE  [f EXCEPT ![r] = a][m] = IF m = r THEN a ELSE f[m]
  OBVIOUS

\* A step of the handler to a branch that does not answer.
LEMMA TrackGoto ==
    ASSUME TypeOK, HandlerInv, TrackInv, Replied, unsent' = unsent, answers' = answers,
           NEW l \in HandlerPCs, GotoHandler(l), l \in {"request", "callback", "verdict"},
           l = "callback" => ~IsControl(handler.msg)
    PROVE  TrackInv'
  <1>1. handler'.pc = l /\ handler'.msg = handler.msg
    BY DEF GotoHandler, TypeOK
  <1>2. /\ \A m \in Requests : InInbox(m)' => InInbox(m)
        /\ InboxOnce'
    BY RepliedFrame DEF TrackInv
  <1> QED
    BY <1>1, <1>2 DEF TrackInv, At, Accepted

LEMMA AnswerEffect ==
    ASSUME TypeOK, NEW r, NEW code \in {200, 600}, Answer(r, code), NEW m \in Requests,
           r \in Requests => Len(answers[r]) = 0
    PROVE  /\ m = r => Len(answers'[m]) = 1 /\ Len(answers'[m]) <= 1 /\ answers'[m][1] = code
           /\ m # r => answers'[m] = answers[m]
  <1>1. answers \in [Requests -> Seq({200, 600})]
    BY DEF TypeOK
  <1>2. answers' = [answers EXCEPT ![r] = Append(answers[r], code)]
    BY DEF Answer
  <1>3. answers'[m] = IF m = r THEN Append(answers[r], code) ELSE answers[m]
    BY <1>1, <1>2, ExceptAt
  <1>4. answers[m] \in Seq({200, 600})
    BY <1>1
  <1> QED
    BY <1>3, <1>4

\* A step that answers the request the handler is at.
LEMMA TrackAnswer ==
    ASSUME TypeOK, HandlerInv, TrackInv, inbox' = inbox, unsent' = unsent,
           NEW l \in {"request", "callback", "verdict"}, GotoHandler(l),
           l = "callback" => ~IsControl(handler.msg),
           NEW code \in {200, 600}, Answer(handler.msg, code),
           handler.msg \in Requests => Len(answers[handler.msg]) = 0,
           code = 200 => IsDelete(handler.msg) \/ IsFirmware(handler.msg)
    PROVE  TrackInv'
  <1>1. handler'.pc = l /\ handler'.msg = handler.msg
    BY DEF GotoHandler, TypeOK
  <1>2. (\A m \in Requests : InInbox(m)' = InInbox(m)) /\ InboxOnce'
    BY DEF InInbox, InboxOnce, TrackInv
  <1>3. ASSUME NEW m \in Requests
        PROVE  /\ m = handler.msg => Len(answers'[m]) = 1 /\ Len(answers'[m]) <= 1 /\ answers'[m][1] = code
               /\ m # handler.msg => answers'[m] = answers[m]
    BY AnswerEffect
  <1>4. \A m \in Requests : Len(answers'[m]) <= 1
    <2> SUFFICES ASSUME NEW m \in Requests
                 PROVE  Len(answers'[m]) <= 1
      OBVIOUS
    <2>1. CASE m = handler.msg
      BY <1>3, <2>1
    <2>2. CASE m # handler.msg
      BY <1>3, <2>2 DEF TrackInv
    <2> QED
      BY <2>1, <2>2
  <1>5. \A m \in Requests : Accepted(m)' => IsDelete(m) \/ IsFirmware(m)
    <2> SUFFICES ASSUME NEW m \in Requests, Accepted(m)'
                 PROVE  IsDelete(m) \/ IsFirmware(m)
      OBVIOUS
    <2>1. CASE m = handler.msg
      BY <1>3, <2>1 DEF Accepted
    <2>2. CASE m # handler.msg
      BY <1>3, <2>2 DEF Accepted, TrackInv
    <2> QED
      BY <2>1, <2>2
  <1>6. handler.msg \in Requests => handler.msg \notin unsent /\ ~InInbox(handler.msg)
    BY DEF TrackInv
  <1>7. \A m \in Requests : m \in unsent' \/ InInbox(m)' => handler'.msg # m /\ Len(answers'[m]) = 0
    BY <1>1, <1>2, <1>3, <1>6 DEF TrackInv
  <1> QED
    BY <1>1, <1>2, <1>4, <1>5, <1>7 DEF TrackInv, At, Accepted

LEMMA HandlerStepTrack ==
    ASSUME TypeOK, HandlerInv, TrackInv, HandlerStep
    PROVE  TrackInv'
  <1>1. CASE AnswerDelete
    BY <1>1, TrackAnswer, KindsDiffer DEF AnswerDelete, HandlerInv, TrackInv, device, server
  <1>2. CASE RequestDelete
    BY <1>2, TrackGoto, KindsDiffer, PublishReplies
       DEF RequestDelete, HandlerInv, effects, HandlerPCs, Sendings
  <1>3. CASE Acknowledge
    BY <1>3, TrackAnswer, KindsDiffer DEF Acknowledge, HandlerInv, TrackInv, device, server
  <1>4. CASE Dropped
    BY <1>4, TrackFrame DEF Dropped, Replied, server, effects
  <1>5. CASE Control
    <2>1. CASE busy_flag
      BY <1>5, <2>1, TrackAnswer DEF Control, Called, TrackInv, server
    <2>2. CASE ~busy_flag
      BY <1>5, <2>2, TrackGoto DEF Control, Replied, server, HandlerPCs
    <2> QED
      BY <2>1, <2>2
  <1>6. CASE ControlPanics
    BY <1>6, TrackFrame DEF ControlPanics, Reboot
  <1>7. CASE StartUpdate
    BY <1>7, TrackGoto DEF StartUpdate, Replied, server, HandlerPCs
  <1>8. CASE PassOn
    BY <1>8, TrackGoto DEF PassOn, Replied, server, effects, HandlerPCs
  <1>9. CASE Wipe
    BY <1>9, TrackFrame DEF Wipe, Reboot
  <1>10. CASE Return
    BY <1>10, TrackFrame DEF Return, Replied, server, effects
  <1> QED
    BY <1>1, <1>2, <1>3, <1>4, <1>5, <1>6, <1>7, <1>8, <1>9, <1>10 DEF HandlerStep

LEMMA ReceiveTrack ==
    ASSUME TypeOK, HandlerInv, TrackInv, Receive
    PROVE  TrackInv'
  <1> DEFINE m == Head(inbox)
  <1>1. handler'.msg = m /\ inbox' = Tail(inbox) /\ inbox # <<>> /\ unsent' = unsent /\ answers' = answers
    BY DEF Receive, effects
  <1>2. m \in Requests => m \notin unsent /\ Len(answers[m]) = 0
    BY <1>1, InboxTail DEF TrackInv
  <1>3. m \in Requests => \A r \in Requests : r = m => ~InInbox(r)'
    BY <1>1, InboxTail DEF TrackInv
  <1>4. InboxOnce' /\ \A r \in Requests : InInbox(r)' => InInbox(r)
    BY <1>1, InboxTail DEF TrackInv
  <1> HIDE DEF m
  <1> QED
    BY <1>1, <1>2, <1>3, <1>4 DEF TrackInv, At, Accepted

LEMMA AskTrack ==
    ASSUME TypeOK, HandlerInv, TrackInv, NEW m \in Requests, Ask(m)
    PROVE  TrackInv'
  <1>1. /\ m \in unsent /\ inbox' = Append(inbox, m) /\ unsent' = unsent \ {m}
        /\ answers' = answers /\ handler' = handler
    BY DEF Ask, effects
  <1>2. inbox \in Seq(Inputs) /\ m \in Inputs
    BY DEF TypeOK, Inputs
  <1>3. /\ Len(inbox') = Len(inbox) + 1 /\ Len(inbox) \in Nat
        /\ inbox'[Len(inbox) + 1] = m
        /\ \A i \in 1 .. Len(inbox) : inbox'[i] = inbox[i]
    BY <1>1, <1>2
  <1>4. ~InInbox(m) /\ handler.msg # m /\ Len(answers[m]) = 0
    BY <1>1 DEF TrackInv
  <1>5. \A r \in Requests : InInbox(r)' => InInbox(r) \/ r = m
    BY <1>3 DEF InInbox
  <1>6. InboxOnce'
    BY <1>3, <1>4 DEF TrackInv, InboxOnce, InInbox
  <1> QED
    BY <1>1, <1>4, <1>5, <1>6 DEF TrackInv, At, Accepted

LEMMA NextTrackInv ==
    ASSUME TypeOK, HandlerInv, TrackInv, [Next]_vars
    PROVE  TrackInv'
  <1>1. CASE HandlerStep
    BY <1>1, HandlerStepTrack
  <1>2. CASE Receive
    BY <1>2, ReceiveTrack
  <1>3. CASE \E m \in Requests : Ask(m)
    BY <1>3, AskTrack
  <1>4. CASE BootStep \/ Round \/ \E x \in Sendings : UartSend(x)
    <2>1. Replied
      BY <1>4, PublishReplies DEF BootStep, CreateClient, InstallCallback, EndWait, Register,
         FirstNotify, Round, UartSend, Replied, server
    <2> QED
      BY <1>4, <2>1, TrackFrame DEF BootStep, CreateClient, InstallCallback, EndWait, Register,
         FirstNotify, Round, UartSend, effects
  <1>5. CASE Drain
    BY <1>5, PublishReplies, TrackFrame DEF Drain, effects
  <1>6. CASE Expire \/ Connect \/ Disconnect \/ OwnerDeletes \/ \E on \in BOOLEAN : UartNotify(on)
    BY <1>6, TrackFrame DEF Expire, Connect, Disconnect, OwnerDeletes, UartNotify, Replied, server, effects
  <1>7. CASE Restart
    BY <1>7, TrackFrame DEF Restart, Reboot
  <1>8. CASE Provision
    <2>1. /\ \A m \in Requests : answers'[m] = <<>> /\ Len(answers'[m]) = 0
          /\ inbox' = inbox /\ handler' = handler /\ unsent' = unsent
      BY <1>8 DEF Provision, server
    <2> QED
      BY <2>1 DEF TrackInv, At, InboxOnce, InInbox, Accepted
  <1>9. CASE UNCHANGED vars
    BY <1>9, TrackFrame DEF vars, server, effects, Replied
  <1>10. CASE Unread
    BY <1>10, TrackFrame DEF Unread, effects
  <1> QED
    BY <1>1, <1>2, <1>3, <1>4, <1>5, <1>6, <1>7, <1>8, <1>9, <1>10 DEF Next

\* A request is unsent, on its way, in the handler or finished, in one place only.
THEOREM TrackCorrect == Spec => []TrackInv
  <1>1. Init => TrackInv
    <2> SUFFICES ASSUME Init PROVE TrackInv
      OBVIOUS
    <2>1. handler.pc = "idle" /\ handler.msg \notin Requests /\ inbox = <<>>
      BY InputFacts DEF Init, Idle
    <2>2. \A m \in Requests : answers[m] = <<>> /\ Len(answers[m]) = 0
      BY DEF Init
    <2>3. InboxOnce /\ \A m \in Requests : ~InInbox(m)
      BY <2>1 DEF InboxOnce, InInbox
    <2> QED
      BY <2>1, <2>2, <2>3 DEF TrackInv, At, Accepted
  <1> QED
    BY <1>1, TypeCorrect, HandlerCorrect, NextTrackInv, PTL DEF Spec

\* The dispatcher and the callback, which both answer, answer a request once at most
\* between them, across restarts.
THEOREM OneAnswer == Spec => []AnsweredOnce
  <1>1. TrackInv => AnsweredOnce
    BY DEF TrackInv, AnsweredOnce
  <1> QED
    BY <1>1, TrackCorrect, PTL

-----------------------------------------------------------------------------
(* What was answered with 200 is done *)

Excuses == {"window", "memory", "cut"}
Excused == lapses \cap Excuses # {}

\* An accepted request that has not had its effect yet is with the handler, which is
\* past the answer and before the effect.
AckInv ==
    \A m \in Requests :
        Accepted(m) /\ m \notin done /\ ~Excused =>
            /\ handler.msg = m
            /\ At("request") \/ At("callback") \/ At("verdict")
            /\ At("verdict") => IsDelete(m)

LEMMA ExcusesStay ==
    ASSUME Excused, \/ \E kinds : Blame(kinds)
                    \/ lapses' = lapses
                    \/ Restart
    PROVE  Excused'
  BY DEF Excused, Excuses, Blame, Restart

LEMMA Excuse ==
    ASSUME TypeOK, Excuses \subseteq Recorded, NEW k \in Excuses, NEW kinds, k \in kinds, Blame(kinds)
    PROVE  Excused'
  BY DEF Blame, Excused

\* A step that answers nothing and leaves the handler where it is.
LEMMA AckFrame ==
    ASSUME AckInv, answers' = answers, done' = done, handler' = handler,
           (\E kinds : Blame(kinds)) \/ lapses' = lapses
    PROVE  AckInv'
  <1>1. Excused => Excused'
    BY ExcusesStay
  <1> QED
    BY <1>1 DEF AckInv, Accepted, At

LEMMA AckHandlerStep ==
    ASSUME Excuses \subseteq Recorded, TypeOK, HandlerInv, TrackInv, AckInv, HandlerStep
    PROVE  AckInv'
  <1> SUFFICES ASSUME NEW m \in Requests, Accepted(m)', m \notin done', ~Excused'
               PROVE  /\ handler'.msg = m
                      /\ At("request")' \/ At("callback")' \/ At("verdict")'
                      /\ At("verdict")' => IsDelete(m)
    BY DEF AckInv
  <1>1. CASE AnswerDelete
    <2>1. handler'.msg = handler.msg /\ handler'.pc = "request" /\ done' = done /\ lapses' = lapses
      BY <1>1 DEF AnswerDelete, GotoHandler, TypeOK
    <2>2. m # handler.msg => Accepted(m)
      BY <1>1, AnswerEffect DEF AnswerDelete, TrackInv, Accepted
    <2> QED
      BY <1>1, <2>1, <2>2 DEF AckInv, AnswerDelete, Excused, At
  <1>2. CASE RequestDelete
    <2>1. handler'.msg = handler.msg /\ handler'.pc = "callback" /\ done' = done /\ answers' = answers
      BY <1>2 DEF RequestDelete, GotoHandler, TypeOK, effects
    <2>2. ~Excused
      BY <1>2, ExcusesStay DEF RequestDelete, Publish
    <2> QED
      BY <2>1, <2>2 DEF AckInv, Accepted, At
  <1>3. CASE Acknowledge
    <2>1. handler'.msg = handler.msg /\ handler'.pc = "callback" /\ done' = done /\ lapses' = lapses
      BY <1>3 DEF Acknowledge, GotoHandler, TypeOK
    <2>2. m # handler.msg => Accepted(m)
      BY <1>3, AnswerEffect DEF Acknowledge, TrackInv, Accepted
    <2> QED
      BY <1>3, <2>1, <2>2 DEF AckInv, Acknowledge, Excused, At
  <1>4. CASE Dropped
    <2>1. answers' = answers /\ done' = done /\ Accepted(m)
      BY <1>4 DEF Dropped, effects, Accepted
    <2>2. ~Excused
      BY <1>4, ExcusesStay DEF Dropped
    <2>3. handler.msg = m
      BY <2>1, <2>2 DEF AckInv
    <2>4. Excused'
      <3>1. CASE callbackFunc
        BY <1>4, <3>1, Excuse DEF Dropped, Excuses
      <3>2. CASE ~callbackFunc
        BY <1>4, <2>3, <3>2, Excuse DEF Dropped, Excuses
      <3> QED
        BY <3>1, <3>2
    <2> QED
      BY <2>4
  <1>5. CASE Control
    <2>1. done' = done /\ lapses' = lapses
      BY <1>5 DEF Control
    <2>2. Accepted(m)
      <3>1. CASE busy_flag
        BY <1>5, <3>1, AnswerEffect DEF Control, Called, TrackInv, Accepted
      <3>2. CASE ~busy_flag
        BY <1>5, <3>2 DEF Control, Accepted
      <3> QED
        BY <3>1, <3>2
    <2>3. handler.msg = m
      BY <2>1, <2>2 DEF AckInv, Excused
    <2> QED
      BY <1>5, <2>2, <2>3, KindsDiffer DEF Control, TrackInv
  <1>6. CASE ControlPanics
    <2>1. Accepted(m) /\ handler.msg = m
      BY <1>6 DEF ControlPanics, AckInv, Accepted, Excused
    <2> QED
      BY <1>6, <2>1, KindsDiffer DEF ControlPanics, TrackInv
  <1>7. CASE StartUpdate
    <2>1. Accepted(m) /\ m \notin done
      BY <1>7 DEF StartUpdate, Accepted
    <2>2. ~Excused
      BY <1>7, ExcusesStay DEF StartUpdate
    <2>3. handler.msg = m
      BY <2>1, <2>2 DEF AckInv
    <2>4. m \in done' \/ Excused'
      BY <1>7, <2>3, Excuse DEF StartUpdate, Excuses
    <2> QED
      BY <2>4
  <1>8. CASE PassOn
    <2>1. Accepted(m) /\ m \notin done /\ ~Excused
      BY <1>8 DEF PassOn, effects, Accepted, Excused
    <2>2. handler.msg = m /\ handler'.msg = m /\ handler'.pc = "verdict"
      BY <1>8, <2>1 DEF PassOn, GotoHandler, AckInv, TypeOK
    <2> QED
      BY <1>8, <2>1, <2>2 DEF PassOn, TrackInv, At
  <1>9. CASE Wipe
    <2>1. Accepted(m) /\ m \notin done /\ ~Excused
      BY <1>9 DEF Wipe, Accepted, Excused
    <2> QED
      BY <1>9, <2>1 DEF Wipe, AckInv
  <1>10. CASE Return
    <2>1. Accepted(m) /\ m \notin done /\ ~Excused
      BY <1>10 DEF Return, effects, Accepted, Excused
    <2> QED
      BY <1>10, <2>1 DEF Return, AckInv, WipeVerdict, At
  <1> QED
    BY <1>1, <1>2, <1>3, <1>4, <1>5, <1>6, <1>7, <1>8, <1>9, <1>10 DEF HandlerStep

LEMMA NextAckInv ==
    ASSUME Excuses \subseteq Recorded, TypeOK, HandlerInv, TrackInv, AckInv, [Next]_vars
    PROVE  AckInv'
  <1>1. CASE HandlerStep
    BY <1>1, AckHandlerStep
  <1>2. CASE Receive
    <2>1. answers' = answers /\ done' = done /\ lapses' = lapses /\ At("idle")
      BY <1>2 DEF Receive, effects
    <2> QED
      BY <2>1 DEF AckInv, Accepted, Excused, At
  <1>3. CASE BootStep \/ Round \/ \E x \in Sendings : UartSend(x)
    BY <1>3, AckFrame DEF BootStep, CreateClient, InstallCallback, EndWait, Register, FirstNotify,
       Round, UartSend, Publish, effects
  <1>4. CASE Drain \/ Expire \/ Connect \/ Disconnect \/ OwnerDeletes \/ Unread
    BY <1>4, AckFrame DEF Unread, Drain, Expire, Connect, Disconnect, OwnerDeletes, effects
  <1>5. CASE (\E on \in BOOLEAN : UartNotify(on)) \/ (\E m \in Requests : Ask(m)) \/ UNCHANGED vars
    BY <1>5, AckFrame DEF UartNotify, Ask, vars, effects
  <1>6. CASE Restart
    <2>1. answers' = answers /\ done' = done
      BY <1>6 DEF Restart
    <2>2. Excused => Excused'
      BY <1>6, ExcusesStay
    <2>3. ~At("idle") => Excused'
      BY <1>6 DEF Restart, Excused, Excuses
    <2> QED
      BY <2>1, <2>2, <2>3 DEF AckInv, Accepted, At
  <1>7. CASE Provision
    <2>1. \A m \in Requests : Len(answers'[m]) = 0
      BY <1>7 DEF Provision
    <2> QED
      BY <2>1 DEF AckInv, Accepted
  <1> QED
    BY <1>1, <1>2, <1>3, <1>4, <1>5, <1>6, <1>7 DEF Next

\* What the device has answered with 200 it does: an update starts, or the device is
\* wiped, unless the answer came before the callback, a restart cut the handler, or
\* there was no memory for the update task.
THEOREM AcknowledgedDone ==
    ASSUME Excuses \subseteq Recorded
    PROVE  Spec => []AcknowledgedIsDone
  <1>1. Init => AckInv
    <2>1. Init => \A m \in Requests : Len(answers[m]) = 0
      BY DEF Init
    <2> QED
      BY <2>1 DEF AckInv, Accepted
  <1>2. AckInv => AcknowledgedIsDone
    BY DEF AckInv, AcknowledgedIsDone, Accepted, Excused, Excuses, At
  <1>3. TypeOK /\ HandlerInv /\ TrackInv /\ AckInv /\ [Next]_vars => AckInv'
    BY NextAckInv
  <1> QED
    BY <1>1, <1>2, <1>3, TypeCorrect, HandlerCorrect, TrackCorrect, PTL DEF Spec

-----------------------------------------------------------------------------
(* A device is wiped only for a reason *)

LEMMA VerdictOnReply ==
    /\ \A m \in Replies : ~WipeVerdict(m)
    /\ \A m \in Requests : WipeVerdict(m) => IsDelete(m)
  BY InputFacts DEF WipeVerdict

\* What reaches the server adds to its reasons, and an order to wipe in the inbox has one.
LEMMA ReachesReasons ==
    ASSUME TypeOK, ReasonInv, NEW x \in Sendings, Reaches(x)
    PROVE  /\ \A i \in 1 .. Len(inbox') : WipeVerdict(inbox'[i]) => reasons' # {}
           /\ reasons # {} => reasons' # {}
           /\ reasons' \in {reasons \cup more : more \in SUBSET {"asked", "stranger"}}
           /\ registered' \in BOOLEAN
  <1> DEFINE known == registered \/ x = "register"
  <1>1. /\ reasons' = reasons \cup {r \in {"stranger"} : ~known}
        /\ registered' \in BOOLEAN
    BY DEF Reaches, Sendings, TypeOK
  <1>2. ASSUME NEW i \in 1 .. Len(inbox'), WipeVerdict(inbox'[i])
        PROVE  reasons' # {}
    <2>1. CASE inbox' = inbox
      BY <1>1, <1>2, <2>1 DEF ReasonInv
    <2>2. CASE \E m \in (IF known THEN Replies ELSE {NotFound}) : inbox' = Append(inbox, m)
      <3> PICK m \in (IF known THEN Replies ELSE {NotFound}) : inbox' = Append(inbox, m)
        BY <2>2
      <3>1. inbox \in Seq(Inputs) /\ m \in Inputs
        BY DEF TypeOK, Inputs
      <3> HIDE DEF known
      <3>2. \/ i \in 1 .. Len(inbox) /\ inbox'[i] = inbox[i]
            \/ inbox'[i] = m
        BY <3>1
      <3>3. CASE i \in 1 .. Len(inbox) /\ inbox'[i] = inbox[i]
        BY <1>1, <1>2, <3>3 DEF ReasonInv
      <3>4. CASE inbox'[i] = m
        <4>1. ~known
          BY <1>2, <3>4, VerdictOnReply
        <4> QED
          BY <1>1, <4>1
      <3> QED
        BY <3>2, <3>3, <3>4
    <2> QED
      BY <2>1, <2>2 DEF Reaches
  <1>3. {r \in {"stranger"} : ~known} \in SUBSET {"asked", "stranger"}
    OBVIOUS
  <1> HIDE DEF known
  <1>4. reasons' \in {reasons \cup more : more \in SUBSET {"asked", "stranger"}}
    BY <1>1, <1>3
  <1> QED
    BY <1>1, <1>2, <1>4

LEMMA PublishReasons ==
    ASSUME TypeOK, ReasonInv, NEW x \in Sendings, Publish(x)
    PROVE  /\ \A i \in 1 .. Len(inbox') : WipeVerdict(inbox'[i]) => reasons' # {}
           /\ reasons # {} => reasons' # {}
           /\ reasons' \in {reasons \cup more : more \in SUBSET {"asked", "stranger"}}
           /\ registered' \in BOOLEAN
  <1>1. CASE Reaches(x)
    BY <1>1, ReachesReasons
  <1>2. CASE UNCHANGED server
    <2>1. reasons' = reasons \cup {} /\ inbox' = inbox /\ registered' = registered
      BY <1>2 DEF server
    <2> QED
      BY <2>1 DEF ReasonInv, TypeOK
  <1> QED
    BY <1>1, <1>2 DEF Publish

\* A step that leaves inbox, handler and reasons.
LEMMA ReasonFrame ==
    ASSUME ReasonInv, inbox' = inbox, handler' = handler \/ At("idle")', reasons' = reasons,
           wiped' => boot' = "connect" /\ ~session' /\ At("idle")'
    PROVE  ReasonInv'
  BY DEF ReasonInv, At

LEMMA RebootReasons ==
    ASSUME Reboot
    PROVE  ReasonInv'
  <1>1. At("idle")'
    BY DEF Reboot, At, Idle
  <1> QED
    BY <1>1 DEF Reboot, ReasonInv

LEMMA GotoReason ==
    ASSUME TypeOK, ReasonInv, ~At("idle"), NEW l, GotoHandler(l)
    PROVE  handler'.msg = handler.msg /\ ~wiped
  BY DEF TypeOK, GotoHandler, ReasonInv

LEMMA HandlerStepReason ==
    ASSUME TypeOK, ReasonInv, HandlerStep
    PROVE  ReasonInv'
  <1>1. CASE AnswerDelete \/ Acknowledge \/ StartUpdate \/ PassOn
    <2>1. ~At("idle") /\ UNCHANGED <<device, server>> /\ \E l : GotoHandler(l)
      BY <1>1 DEF AnswerDelete, Acknowledge, StartUpdate, PassOn, Called, At
    <2> QED
      BY <2>1, GotoReason DEF ReasonInv, device, server
  <1>2. CASE Control
    <2>1. ~At("idle") /\ wiped' = wiped /\ UNCHANGED server /\ GotoHandler("verdict")
      BY <1>2 DEF Control, Called, At
    <2> QED
      BY <2>1, GotoReason DEF ReasonInv, server
  <1>3. CASE RequestDelete
    <2>1. ~At("idle") /\ wiped' = wiped /\ GotoHandler("callback")
      BY <1>3 DEF RequestDelete, At
    <2> QED
      BY <1>3, <2>1, GotoReason, PublishReasons DEF ReasonInv, RequestDelete, Sendings
  <1>4. CASE Dropped \/ Return
    <2>1. ~At("idle") /\ At("idle")' /\ UNCHANGED <<device, server>>
      BY <1>4 DEF Dropped, Return, At, Idle
    <2> QED
      BY <2>1, ReasonFrame DEF ReasonInv, device, server
  <1>5. CASE ControlPanics \/ Wipe
    BY <1>5, RebootReasons DEF ControlPanics, Wipe
  <1> QED
    BY <1>1, <1>2, <1>3, <1>4, <1>5 DEF HandlerStep

LEMMA NextReasonInv ==
    ASSUME TypeOK, ReasonInv, [Next]_vars
    PROVE  ReasonInv'
  <1>1. CASE HandlerStep
    BY <1>1, HandlerStepReason
  <1>2. CASE Register \/ Round \/ (FirstNotify /\ Publish("notify")) \/ \E x \in Sendings : UartSend(x)
    <2>1. /\ boot # "connect" /\ wiped' = wiped /\ handler' = handler
          /\ \E x \in Sendings : Publish(x)
      BY <1>2 DEF Register, Round, FirstNotify, UartSend, Sendings
    <2> QED
      BY <2>1, PublishReasons DEF ReasonInv, At
  <1>3. CASE CreateClient \/ InstallCallback \/ EndWait \/ (FirstNotify /\ UNCHANGED <<outbox, server, lapses>>)
             \/ Connect
    <2>1. ~wiped' /\ handler' = handler /\ UNCHANGED server
      BY <1>3 DEF CreateClient, InstallCallback, EndWait, FirstNotify, Connect, ReasonInv
    <2> QED
      BY <2>1, ReasonFrame DEF server
  <1>4. CASE Drain
    <2>1. session /\ wiped' = wiped /\ handler' = handler /\ \E x \in Sendings : Reaches(x)
      BY <1>4 DEF Drain, TypeOK
    <2> QED
      BY <2>1, ReachesReasons DEF ReasonInv, At
  <1>5. CASE Expire \/ OwnerDeletes \/ (\E on \in BOOLEAN : UartNotify(on)) \/ UNCHANGED vars
    BY <1>5, ReasonFrame DEF Expire, OwnerDeletes, UartNotify, vars, device, server, ReasonInv, At
  <1>6. CASE Receive \/ Unread
    <2>1. session /\ inbox # <<>> /\ inbox' = Tail(inbox) /\ UNCHANGED device /\ reasons' = reasons
          /\ (handler'.msg = Head(inbox) \/ handler' = handler)
      BY <1>6 DEF Receive, Unread
    <2>2. /\ Len(inbox) \in Nat \ {0} /\ Len(inbox') = Len(inbox) - 1 /\ Head(inbox) = inbox[1]
          /\ \A i \in 1 .. Len(inbox') : inbox'[i] = inbox[i + 1] /\ i + 1 \in 1 .. Len(inbox)
      BY <2>1 DEF TypeOK
    <2>3. 1 \in 1 .. Len(inbox)
      BY <2>2
    <2> QED
      BY <2>1, <2>2, <2>3 DEF ReasonInv, device, At
  <1>7. CASE \E m \in Requests : Ask(m)
    <2> PICK m \in Requests : Ask(m)
      BY <1>7
    <2>1. /\ inbox' = Append(inbox, m) /\ handler' = handler /\ UNCHANGED device
          /\ reasons' = reasons \cup {r \in {"asked"} : IsDelete(m)}
      BY DEF Ask
    <2>2. inbox \in Seq(Inputs) /\ m \in Inputs
      BY DEF TypeOK, Inputs
    <2>3. \A i \in 1 .. Len(inbox') : (i \in 1 .. Len(inbox) /\ inbox'[i] = inbox[i]) \/ inbox'[i] = m
      BY <2>1, <2>2
    <2>4. reasons # {} \/ IsDelete(m) => reasons' # {}
      BY <2>1
    <2> QED
      BY <2>1, <2>3, <2>4, VerdictOnReply DEF ReasonInv, At, device
  <1>8. CASE Disconnect
    BY <1>8 DEF Disconnect, ReasonInv, At
  <1>9. CASE Restart
    BY <1>9, RebootReasons DEF Restart
  <1>10. CASE Provision
    <2>1. ~wiped' /\ UNCHANGED <<handler, server>>
      BY <1>10 DEF Provision
    <2> QED
      BY <2>1, ReasonFrame DEF server
  <1> QED
    BY <1>1, <1>2, <1>3, <1>4, <1>5, <1>6, <1>7, <1>8, <1>9, <1>10 DEF Next, BootStep, FirstNotify

\* A message that makes the device wipe itself arrives in the session in which the
\* server had the reason for it.
THEOREM ReasonCorrect == Spec => []ReasonInv
  <1>1. Init => ReasonInv
    BY DEF Init, ReasonInv, At, Idle
  <1> QED
    BY <1>1, TypeCorrect, NextReasonInv, PTL DEF Spec

-----------------------------------------------------------------------------
(* The contract of the device *)

LEMMA StepImplements ==
    ASSUME TypeOK, ReasonInv, [Next]_vars
    PROVE  [Contract!Next]_Contract!vars
  <1> USE DEF Contract!Next, Contract!vars
  <1>1. CASE UNCHANGED <<registered, wiped, reasons>>
    BY <1>1
  <1>2. ASSUME wiped' = wiped, ~wiped, \E x \in Sendings : Publish(x) \/ Reaches(x)
        PROVE  Contract!Exchange
    BY <1>2, PublishReasons, ReachesReasons DEF Contract!Exchange
  <1>3. CASE BootStep \/ Round \/ \E x \in Sendings : UartSend(x)
    <2>1. CASE Register \/ Round \/ (FirstNotify /\ Publish("notify")) \/ \E x \in Sendings : UartSend(x)
      BY <2>1, <1>2 DEF Register, Round, FirstNotify, UartSend, Sendings, ReasonInv
    <2>2. CASE CreateClient \/ InstallCallback \/ EndWait \/ (FirstNotify /\ UNCHANGED <<outbox, server, lapses>>)
      BY <2>2, <1>1 DEF CreateClient, InstallCallback, EndWait, FirstNotify, server
    <2> QED
      BY <1>3, <2>1, <2>2 DEF BootStep, FirstNotify
  <1>4. CASE RequestDelete \/ Drain
    <2>1. CASE RequestDelete
      BY <1>2, <2>1 DEF RequestDelete, ReasonInv, Sendings, At
    <2>2. CASE Drain
      <3>1. Head(outbox) \in Sendings
        BY <2>2 DEF Drain, TypeOK
      <3> QED
        BY <1>2, <2>2, <3>1 DEF Drain, ReasonInv
    <2> QED
      BY <1>4, <2>1, <2>2
  <1>5. CASE AnswerDelete \/ Acknowledge \/ Dropped \/ Control \/ StartUpdate \/ PassOn \/ Return
             \/ Receive \/ Unread \/ Expire \/ Connect \/ UNCHANGED vars
    BY <1>5, <1>1 DEF AnswerDelete, Acknowledge, Dropped, Control, StartUpdate, PassOn, Return,
       Receive, Unread, Expire, Connect, vars, device, server
  <1>6. CASE \E on \in BOOLEAN : UartNotify(on)
    BY <1>6, <1>1 DEF UartNotify, server
  <1>7. CASE Wipe
    <2>1. ~At("idle") /\ WipeVerdict(handler.msg) /\ wiped' = TRUE /\ reasons' = {} /\ registered' = registered
      BY <1>7 DEF Wipe, Reboot, At
    <2> QED
      BY <2>1 DEF ReasonInv, Contract!Wipe
  <1>8. CASE ControlPanics \/ Restart \/ Disconnect
    BY <1>8 DEF ControlPanics, Restart, Disconnect, Reboot, Contract!EndSession
  <1>9. CASE \E m \in Requests : Ask(m)
    <2> PICK m \in Requests : Ask(m)
      BY <1>9
    <2> DEFINE more == {r \in {"asked"} : IsDelete(m)}
    <2>1. /\ reasons' = reasons \cup more /\ registered' = registered /\ wiped' = wiped
          /\ registered \in BOOLEAN
      BY DEF Ask, device, TypeOK
    <2>2. more \in SUBSET {"asked", "stranger"}
      OBVIOUS
    <2> HIDE DEF more
    <2> QED
      BY <2>1, <2>2 DEF Contract!Exchange
  <1>10. CASE OwnerDeletes
    <2>1. reasons' = reasons \cup {} /\ registered' = FALSE /\ wiped' = wiped
      BY <1>10 DEF OwnerDeletes, device
    <2> QED
      BY <2>1 DEF Contract!Exchange
  <1>11. CASE Provision
    BY <1>11 DEF Provision, server, Contract!Provision
  <1> QED
    BY <1>3, <1>4, <1>5, <1>6, <1>7, <1>8, <1>9, <1>10, <1>11 DEF Next, HandlerStep

\* The device keeps the contract with its owner and the server: it is wiped only for a
\* reason that the server gave it in the present session, and a wiped device does not
\* register.
THEOREM Implements == Spec => ImplementsContract
  <1>1. Init => Contract!Init
    BY DEF Init, Contract!Init
  <1> QED
    BY <1>1, StepImplements, TypeCorrect, ReasonCorrect, PTL
       DEF Spec, ImplementsContract, Contract!Spec

-----------------------------------------------------------------------------
(* Why the server meets a device that it does not know *)

Causes == {"early", "overtaken", "expired", "deleted"}
Explained == lapses \cap Causes # {}
Early == boot \in {"connect", "time", "wait", "register"}
Deleting == ~At("idle") /\ IsDelete(handler.msg)
Met == ~At("idle") /\ IsUnknownDevice(handler.msg)

AskedInv ==
    /\ \A i \in 1 .. Len(inbox) : IsDelete(inbox[i]) => "asked" \in reasons
    /\ \A i \in 1 .. Len(inbox) : IsUnknownDevice(inbox[i]) => "stranger" \in reasons
    /\ Deleting => "asked" \in reasons
    /\ Met => "stranger" \in reasons
    /\ boot \notin {"connect", "time"} => callbackFunc
    /\ wiped => outbox = <<>> /\ reasons = {}

\* As long as nothing was ill-timed, a device that has passed its registration and is
\* not known is being deleted, or its registration is the next message to be sent.
Timely ==
    /\ Early => \A i \in 1 .. Len(outbox) : outbox[i] = "register"
    /\ ~Early /\ ~registered => Deleting \/ (1 \in 1 .. Len(outbox) /\ outbox[1] = "register")
    /\ \A i \in 1 .. Len(outbox) : outbox[i] = "delete" => Deleting
    /\ "stranger" \in reasons => "asked" \in reasons

RegisterInv == Explained \/ Timely

LEMMA AskedReaches ==
    ASSUME TypeOK, AskedInv, NEW x \in Sendings, Reaches(x) \/ Publish(x)
    PROVE  /\ \A i \in 1 .. Len(inbox') : IsDelete(inbox'[i]) => "asked" \in reasons'
           /\ \A i \in 1 .. Len(inbox') : IsUnknownDevice(inbox'[i]) => "stranger" \in reasons'
           /\ reasons \subseteq reasons'
  <1>1. reasons \subseteq reasons'
    BY DEF Reaches, Publish, server
  <1>2. CASE inbox' = inbox
    BY <1>1, <1>2 DEF AskedInv
  <1>3. CASE \E m \in Replies : inbox' = Append(inbox, m)
    <2> PICK m \in Replies : inbox' = Append(inbox, m)
      BY <1>3
    <2>1. inbox \in Seq(Inputs) /\ m \in Inputs /\ ~IsDelete(m) /\ ~IsUnknownDevice(m)
      BY InputFacts, VerdictOnReply DEF TypeOK, Inputs, WipeVerdict
    <2>2. \A i \in 1 .. Len(inbox') : (i \in 1 .. Len(inbox) /\ inbox'[i] = inbox[i]) \/ inbox'[i] = m
      BY <2>1
    <2> QED
      BY <1>1, <2>1, <2>2 DEF AskedInv
  <1>4. CASE inbox' = Append(inbox, NotFound) /\ "stranger" \in reasons'
    <2>1. inbox \in Seq(Inputs) /\ NotFound \in Inputs /\ ~IsDelete(NotFound)
      BY InputFacts DEF TypeOK, Inputs
    <2>2. \A i \in 1 .. Len(inbox') : (i \in 1 .. Len(inbox) /\ inbox'[i] = inbox[i]) \/ inbox'[i] = NotFound
      BY <1>4, <2>1
    <2> QED
      BY <1>1, <1>4, <2>1, <2>2 DEF AskedInv
  <1> QED
    BY <1>1, <1>2, <1>3, <1>4 DEF Reaches, Publish, server

LEMMA AskedReboot ==
    ASSUME Reboot, wiped' => outbox' = <<>> /\ reasons' = {}
    PROVE  AskedInv'
  BY DEF Reboot, AskedInv, Deleting, Met, At, Idle

\* A step that only moves the handler on, or leaves it.
LEMMA AskedFrame ==
    ASSUME TypeOK, AskedInv, inbox' = inbox, reasons' = reasons, Deleting' => Deleting, Met' => Met,
           boot' \notin {"connect", "time"} => callbackFunc', wiped' => wiped /\ outbox' = outbox
    PROVE  AskedInv'
  BY DEF AskedInv

LEMMA GotoDeleting ==
    ASSUME TypeOK, ~At("idle"), NEW l, GotoHandler(l)
    PROVE  (Deleting' => Deleting) /\ (Met' => Met)
  BY DEF TypeOK, GotoHandler, Deleting, Met, At

LEMMA NextAskedInv ==
    ASSUME TypeOK, ReasonInv, AskedInv, [Next]_vars
    PROVE  AskedInv'
  <1>1. CASE AnswerDelete \/ Acknowledge \/ StartUpdate \/ PassOn \/ Control
    <2>1. ~At("idle") /\ (\E l : GotoHandler(l)) /\ UNCHANGED server
          /\ UNCHANGED <<boot, callbackFunc, wiped, outbox>>
      BY <1>1 DEF AnswerDelete, Acknowledge, StartUpdate, PassOn, Control, Called, At, device
    <2>2. (Deleting' => Deleting) /\ (Met' => Met)
      BY <2>1, GotoDeleting
    <2> QED
      BY <2>1, <2>2, AskedFrame DEF server, AskedInv
  <1>2. CASE RequestDelete
    <2>1. ~At("idle") /\ GotoHandler("callback") /\ Publish("delete")
          /\ UNCHANGED <<boot, callbackFunc, wiped>> /\ ~wiped
      BY <1>2 DEF RequestDelete, At, ReasonInv
    <2>2. (Deleting' => Deleting) /\ (Met' => Met)
      BY <2>1, GotoDeleting
    <2> QED
      BY <2>1, <2>2, AskedReaches DEF AskedInv, Sendings
  <1>3. CASE Dropped \/ Return
    <2>1. ~Deleting' /\ ~Met' /\ UNCHANGED <<device, server>>
      BY <1>3 DEF Dropped, Return, Deleting, Met, At, Idle
    <2> QED
      BY <2>1, AskedFrame DEF server, device, AskedInv
  <1>4. CASE ControlPanics \/ Wipe \/ Restart
    BY <1>4, AskedReboot DEF ControlPanics, Wipe, Restart, Reboot
  <1>5. CASE Register \/ Round \/ (FirstNotify /\ Publish("notify")) \/ \E x \in Sendings : UartSend(x)
    <2>1. /\ ~wiped /\ wiped' = wiped /\ handler' = handler /\ callbackFunc' = callbackFunc
          /\ boot' \notin {"connect", "time"} => boot \notin {"connect", "time"}
          /\ \E x \in Sendings : Publish(x)
      BY <1>5 DEF Register, Round, FirstNotify, UartSend, Sendings, ReasonInv
    <2> QED
      BY <2>1, AskedReaches DEF AskedInv, Deleting, Met, At
  <1>6. CASE CreateClient \/ InstallCallback \/ EndWait \/ (FirstNotify /\ UNCHANGED <<outbox, server, lapses>>)
             \/ Connect
    <2>1. ~wiped' /\ handler' = handler /\ UNCHANGED server
      BY <1>6 DEF CreateClient, InstallCallback, EndWait, FirstNotify, Connect, ReasonInv
    <2>2. boot' \notin {"connect", "time"} => callbackFunc'
      BY <1>6 DEF CreateClient, InstallCallback, EndWait, FirstNotify, Connect, AskedInv
    <2>3. (Deleting' => Deleting) /\ (Met' => Met)
      BY <2>1 DEF Deleting, Met, At
    <2> QED
      BY <2>1, <2>2, <2>3, AskedFrame DEF server
  <1>7. CASE Drain
    <2>1. ~wiped /\ wiped' = wiped /\ handler' = handler /\ UNCHANGED <<boot, callbackFunc>>
          /\ \E x \in Sendings : Reaches(x)
      BY <1>7 DEF Drain, TypeOK, ReasonInv
    <2> QED
      BY <2>1, AskedReaches DEF AskedInv, Deleting, Met, At
  <1>8. CASE Expire \/ OwnerDeletes \/ (\E on \in BOOLEAN : UartNotify(on)) \/ Provision \/ UNCHANGED vars
    <2>1. /\ handler' = handler /\ inbox' = inbox /\ reasons' = reasons
          /\ UNCHANGED <<boot, callbackFunc>>
          /\ wiped' => wiped
      BY <1>8 DEF Expire, OwnerDeletes, UartNotify, Provision, vars, device, server
    <2>2. wiped' => outbox' = outbox
      BY <1>8 DEF Expire, OwnerDeletes, UartNotify, Provision, vars, device, server, AskedInv
    <2>3. (Deleting' => Deleting) /\ (Met' => Met)
      BY <2>1 DEF Deleting, Met, At
    <2>4. boot' \notin {"connect", "time"} => callbackFunc'
      BY <2>1 DEF AskedInv
    <2> QED
      BY <2>1, <2>2, <2>3, <2>4, AskedFrame
  <1>9. CASE Receive \/ Unread
    <2>1. inbox # <<>> /\ inbox' = Tail(inbox) /\ UNCHANGED device /\ reasons' = reasons
          /\ (handler'.msg = Head(inbox) \/ handler' = handler)
      BY <1>9 DEF Receive, Unread
    <2>2. /\ Len(inbox) \in Nat \ {0} /\ Len(inbox') = Len(inbox) - 1 /\ Head(inbox) = inbox[1]
          /\ \A i \in 1 .. Len(inbox') : inbox'[i] = inbox[i + 1] /\ i + 1 \in 1 .. Len(inbox)
      BY <2>1 DEF TypeOK
    <2>3. 1 \in 1 .. Len(inbox)
      BY <2>2
    <2> QED
      BY <2>1, <2>2, <2>3 DEF AskedInv, device, At, Deleting, Met
  <1>10. CASE \E m \in Requests : Ask(m)
    <2> PICK m \in Requests : Ask(m)
      BY <1>10
    <2>1. /\ inbox' = Append(inbox, m) /\ handler' = handler /\ UNCHANGED device
          /\ reasons' = reasons \cup {r \in {"asked"} : IsDelete(m)} /\ session
      BY DEF Ask
    <2>2. inbox \in Seq(Inputs) /\ m \in Inputs
      BY DEF TypeOK, Inputs
    <2>3. \A i \in 1 .. Len(inbox') : (i \in 1 .. Len(inbox) /\ inbox'[i] = inbox[i]) \/ inbox'[i] = m
      BY <2>1, <2>2
    <2>4. "asked" \in reasons \/ IsDelete(m) => "asked" \in reasons'
      BY <2>1
    <2>6. ~IsUnknownDevice(m) /\ reasons \subseteq reasons'
      BY <2>1, InputFacts DEF IsUnknownDevice
    <2>5. ~wiped
      BY <2>1 DEF ReasonInv
    <2> QED
      BY <2>1, <2>3, <2>4, <2>5, <2>6 DEF AskedInv, At, Deleting, Met, device
  <1>11. CASE Disconnect
    BY <1>11 DEF Disconnect, AskedInv, Deleting, Met, At
  <1> QED
    BY <1>1, <1>2, <1>3, <1>4, <1>5, <1>6, <1>7, <1>8, <1>9, <1>10, <1>11
       DEF Next, BootStep, HandlerStep, FirstNotify

\* A deletion on its way to the device is one that the server has asked for.
THEOREM AskedCorrect == Spec => []AskedInv
  <1>1. Init => AskedInv
    BY DEF Init, AskedInv, Deleting, Met, At, Idle
  <1> QED
    BY <1>1, TypeCorrect, ReasonCorrect, NextAskedInv, PTL DEF Spec
-----------------------------------------------------------------------------
\* What the record tells of an event, if all causes are recorded.
LEMMA NoCause ==
    ASSUME Causes \subseteq Recorded, NEW kinds, Blame(kinds), ~Explained'
    PROVE  ~Explained /\ kinds \cap Causes = {}
  BY DEF Blame, Explained

LEMMA PublishCauses ==
    ASSUME NEW x \in Sendings, NEW sent \in BOOLEAN, Publishing(x, sent) \cap Causes = {}
    PROVE  /\ x # "register" => ~Early
           /\ sent => ~Waiting("register")
           /\ x = "delete" => At("request")
           /\ ~sent /\ x = "register" => Len(outbox) # MaxOutbox
  <1>1. CASE x # "register" /\ Early
    <2>1. "early" \in Publishing(x, sent) \cap Causes
      BY <1>1 DEF Publishing, Causes, Early
    <2> QED
      BY <2>1
  <1>2. CASE sent /\ Waiting("register")
    <2>1. "overtaken" \in Publishing(x, sent) \cap Causes
      BY <1>2 DEF Publishing, Causes
    <2> QED
      BY <2>1
  <1>3. CASE x = "delete" /\ ~At("request")
    <2>1. "deleted" \in Publishing(x, sent) \cap Causes
      BY <1>3 DEF Publishing, Causes
    <2> QED
      BY <2>1
  <1>4. CASE ~sent /\ x = "register" /\ Len(outbox) = MaxOutbox
    <2>1. "expired" \in Publishing(x, sent) \cap Causes
      BY <1>4 DEF Publishing, Causes
    <2> QED
      BY <2>1
  <1> QED
    BY <1>1, <1>2, <1>3, <1>4

LEMMA RegisterFrame ==
    ASSUME TypeOK, RegisterInv, lapses \subseteq lapses', outbox' = outbox, registered' = registered,
           reasons' = {} \/ ("stranger" \in reasons' => "stranger" \in reasons),
           reasons' = {} \/ reasons \subseteq reasons', Early' <=> Early, Deleting => Deleting'
    PROVE  RegisterInv'
  BY DEF RegisterInv, Explained, Timely

LEMMA RegisterReboot ==
    ASSUME Reboot
    PROVE  RegisterInv'
  BY DEF Reboot, RegisterInv, Timely, Early

LEMMA RegisterSent ==
    ASSUME TypeOK, HandlerInv, AskedInv, RegisterInv, Causes \subseteq Recorded,
           NEW x \in Sendings, Reaches(x), outbox' = outbox, Blame(Publishing(x, TRUE)),
           Deleting => Deleting', Early' => Early, x # "register" => (Early' <=> Early)
    PROVE  RegisterInv'
  <1> SUFFICES ASSUME ~Explained'
               PROVE  Timely'
    BY DEF RegisterInv
  <1>1. ~Explained /\ Timely
    BY NoCause DEF RegisterInv
  <1>2. /\ x # "register" => ~Early
        /\ ~Waiting("register")
        /\ x = "delete" => At("request")
    BY NoCause, PublishCauses
  <1>3. At("request") => Deleting
    BY DEF HandlerInv, Deleting, At
  <1>4. x # "register" /\ ~registered => "asked" \in reasons
    BY <1>1, <1>2 DEF Timely, AskedInv, Waiting
  <1>5. /\ registered' = (x = "register" \/ (x = "notify" /\ registered))
        /\ reasons \subseteq reasons'
        /\ "stranger" \in reasons' => "stranger" \in reasons \/ (x # "register" /\ ~registered)
    BY DEF Reaches, Sendings, TypeOK
  <1>6. Early' => \A i \in 1 .. Len(outbox') : outbox'[i] = "register"
    BY <1>1 DEF Timely
  <1>7. ~Early' /\ ~registered' => Deleting' \/ (1 \in 1 .. Len(outbox') /\ outbox'[1] = "register")
    BY <1>1, <1>2, <1>3, <1>5 DEF Timely, Sendings
  <1>8. \A i \in 1 .. Len(outbox') : outbox'[i] = "delete" => Deleting'
    BY <1>1 DEF Timely
  <1>9. "stranger" \in reasons' => "asked" \in reasons'
    BY <1>1, <1>4, <1>5 DEF Timely
  <1> QED
    BY <1>6, <1>7, <1>8, <1>9 DEF Timely

LEMMA RegisterQueued ==
    ASSUME TypeOK, HandlerInv, RegisterInv, Causes \subseteq Recorded, NEW x \in Sendings,
           outbox' = (IF Len(outbox) < MaxOutbox THEN Append(outbox, x) ELSE outbox),
           Blame(Publishing(x, FALSE)), UNCHANGED server,
           Deleting => Deleting', Early' => Early, x # "register" => (Early' <=> Early)
    PROVE  RegisterInv'
  <1> SUFFICES ASSUME ~Explained'
               PROVE  Timely'
    BY DEF RegisterInv
  <1>1. ~Explained /\ Timely
    BY NoCause DEF RegisterInv
  <1>2. /\ x # "register" => ~Early
        /\ x = "delete" => At("request")
        /\ x = "register" => Len(outbox) # MaxOutbox
    BY NoCause, PublishCauses
  <1>3. At("request") => Deleting
    BY DEF HandlerInv, Deleting, At
  <1>4. outbox \in Seq(Sendings) /\ Len(outbox) \in Nat /\ Len(outbox) <= MaxOutbox
    BY DEF TypeOK
  <1>5. outbox' = Append(outbox, x) \/ (outbox' = outbox /\ x # "register")
    BY <1>2, <1>4, SizesAssumption
  <1>6. \A i \in 1 .. Len(outbox') : (i \in 1 .. Len(outbox) /\ outbox'[i] = outbox[i]) \/ outbox'[i] = x
    BY <1>4, <1>5
  <1>7. 1 \in 1 .. Len(outbox) => 1 \in 1 .. Len(outbox') /\ outbox'[1] = outbox[1]
    BY <1>4, <1>5
  <1>8. x = "register" => 1 \in 1 .. Len(outbox')
    BY <1>4, <1>5
  <1>9. Early' => \A i \in 1 .. Len(outbox') : outbox'[i] = "register"
    BY <1>1, <1>2, <1>6 DEF Timely
  <1>10. ~Early' /\ ~registered' => Deleting' \/ (1 \in 1 .. Len(outbox') /\ outbox'[1] = "register")
    <2>1. CASE Early /\ ~Early'
      <3>1. x = "register"
        BY <2>1
      <3> QED
        BY <1>1, <1>6, <1>8, <2>1, <3>1 DEF Timely
    <2>2. CASE ~Early
      BY <1>1, <1>7, <2>2 DEF Timely, server
    <2> QED
      BY <2>1, <2>2
  <1>11. \A i \in 1 .. Len(outbox') : outbox'[i] = "delete" => Deleting'
    BY <1>1, <1>2, <1>3, <1>6 DEF Timely
  <1>12. "stranger" \in reasons' => "asked" \in reasons'
    BY <1>1 DEF Timely, server
  <1> QED
    BY <1>9, <1>10, <1>11, <1>12 DEF Timely

LEMMA RegisterPublish ==
    ASSUME TypeOK, HandlerInv, AskedInv, RegisterInv, Causes \subseteq Recorded,
           NEW x \in Sendings, Publish(x),
           Deleting => Deleting', Early' => Early, x # "register" => (Early' <=> Early)
    PROVE  RegisterInv'
  BY RegisterSent, RegisterQueued DEF Publish

\* The oldest message leaves the outbox, sent or thrown away.
LEMMA RegisterOldest ==
    ASSUME TypeOK, RegisterInv, outbox # <<>>, outbox' = Tail(outbox), lapses \subseteq lapses',
           Head(outbox) = "register" => registered' \/ Explained',
           Head(outbox) # "register" => registered' = registered,
           reasons \subseteq reasons',
           ~Explained => ("stranger" \in reasons' => "stranger" \in reasons),
           Early' <=> Early, Deleting => Deleting'
    PROVE  RegisterInv'
  <1> SUFFICES ASSUME ~Explained'
               PROVE  Timely'
    BY DEF RegisterInv
  <1>1. ~Explained /\ Timely
    BY DEF RegisterInv, Explained
  <1>2. /\ Len(outbox) \in Nat \ {0} /\ Len(outbox') = Len(outbox) - 1 /\ Head(outbox) = outbox[1]
        /\ \A i \in 1 .. Len(outbox') : outbox'[i] = outbox[i + 1] /\ i + 1 \in 1 .. Len(outbox)
    BY DEF TypeOK
  <1>3. ~Early' /\ ~registered' => Deleting'
    BY <1>1, <1>2 DEF Timely
  <1>4. "stranger" \in reasons' => "asked" \in reasons'
    BY <1>1 DEF Timely
  <1>5. \A i \in 1 .. Len(outbox') : outbox'[i] = "delete" => Deleting'
    BY <1>1, <1>2 DEF Timely
  <1>6. Early' => \A i \in 1 .. Len(outbox') : outbox'[i] = "register"
    BY <1>1, <1>2 DEF Timely
  <1> QED
    BY <1>3, <1>4, <1>5, <1>6 DEF Timely

LEMMA DrainRegister ==
    ASSUME TypeOK, RegisterInv, Drain
    PROVE  RegisterInv'
  <1>1. /\ Head(outbox) \in Sendings /\ Reaches(Head(outbox)) /\ outbox # <<>> /\ outbox' = Tail(outbox)
        /\ ~Deleting /\ handler' = handler /\ boot' = boot
    BY DEF Drain, TypeOK, Deleting
  <1>2. lapses \subseteq lapses'
    BY DEF Drain, Blame
  <1>3. 1 \in 1 .. Len(outbox) /\ Head(outbox) = outbox[1]
    BY <1>1 DEF TypeOK
  <1>4. ~Explained => Head(outbox) = "register" \/ (Head(outbox) = "notify" /\ registered)
    BY <1>1, <1>3 DEF RegisterInv, Timely, Sendings
  <1>5. /\ Head(outbox) = "register" => registered'
        /\ Head(outbox) = "notify" => registered' = registered
        /\ reasons \subseteq reasons'
        /\ Head(outbox) = "register" \/ registered => ("stranger" \in reasons' => "stranger" \in reasons)
    BY <1>1 DEF Reaches
  <1>6. CASE Explained
    BY <1>2, <1>6 DEF RegisterInv, Explained
  <1>7. CASE ~Explained
    <2>1. Head(outbox) # "register" => registered' = registered
      BY <1>4, <1>5, <1>7
    <2>2. ("stranger" \in reasons') => ("stranger" \in reasons)
      BY <1>4, <1>5, <1>7
    <2>3. (Early' <=> Early) /\ ~Deleting
      BY <1>1 DEF Early
    <2> QED
      BY <1>1, <1>2, <1>5, <2>1, <2>2, <2>3, RegisterOldest
  <1> QED
    BY <1>6, <1>7

LEMMA ExpireRegister ==
    ASSUME TypeOK, RegisterInv, Causes \subseteq Recorded, Expire
    PROVE  RegisterInv'
  <1>1. /\ outbox # <<>> /\ outbox' = Tail(outbox) /\ handler' = handler /\ boot' = boot
        /\ registered' = registered /\ reasons' = reasons /\ lapses \subseteq lapses'
    BY DEF Expire, server, Blame
  <1>2. Head(outbox) = "register" => "expired" \in lapses'
    BY DEF Expire, Blame, Causes
  <1>3. Head(outbox) = "register" => Explained'
    BY <1>2 DEF Explained, Causes
  <1>4. (Early' <=> Early) /\ (Deleting => Deleting')
    BY <1>1 DEF Early, Deleting, At
  <1> QED
    BY <1>1, <1>3, <1>4, RegisterOldest

LEMMA DroppedRegister ==
    ASSUME TypeOK, AskedInv, RegisterInv, Dropped
    PROVE  RegisterInv'
  <1>1. UNCHANGED <<device, server>> /\ lapses \subseteq lapses'
    BY DEF Dropped, Blame
  <1>2. CASE Deleting
    <2>1. ~callbackFunc
      BY <1>2, KindsDiffer DEF Dropped, Deleting
    <2>2. Early
      BY <2>1 DEF AskedInv, Early
    <2> QED
      BY <1>1, <2>2 DEF RegisterInv, Explained, Timely, device, server, Early
  <1>3. CASE ~Deleting
    BY <1>1, <1>3, RegisterFrame DEF device, server, Early
  <1> QED
    BY <1>2, <1>3
LEMMA NextRegisterInv ==
    ASSUME TypeOK, HandlerInv, ReasonInv, AskedInv, RegisterInv, Causes \subseteq Recorded, [Next]_vars
    PROVE  RegisterInv'
  <1>1. CASE AnswerDelete \/ Acknowledge \/ StartUpdate \/ PassOn \/ Control
    <2>1. /\ ~At("idle") /\ (\E l \in HandlerPCs \ {"idle"} : GotoHandler(l)) /\ UNCHANGED server
          /\ UNCHANGED <<boot, outbox>> /\ lapses \subseteq lapses'
      BY <1>1 DEF AnswerDelete, Acknowledge, StartUpdate, PassOn, Control, Called, At, device, Blame, HandlerPCs
    <2>2. Deleting => Deleting'
      BY <2>1 DEF TypeOK, GotoHandler, Deleting, At
    <2> QED
      BY <2>1, <2>2, RegisterFrame DEF server, Early
  <1>2. CASE RequestDelete
    <2>1. GotoHandler("callback") /\ Publish("delete") /\ boot' = boot
      BY <1>2 DEF RequestDelete
    <2>2. Deleting => Deleting'
      BY <2>1 DEF TypeOK, GotoHandler, Deleting, At
    <2> QED
      BY <2>1, <2>2, RegisterPublish DEF Early, Sendings
  <1>3. CASE Dropped
    BY <1>3, DroppedRegister
  <1>4. CASE ControlPanics \/ Wipe \/ Restart
    BY <1>4, RegisterReboot DEF ControlPanics, Wipe, Restart
  <1>5. CASE Return
    <2>1. UNCHANGED <<device, server, lapses>> /\ ~Deleting
      BY <1>5 DEF Return, WipeVerdict, Deleting
    <2> QED
      BY <2>1, RegisterFrame DEF server, device, Early
  <1>6. CASE Register
    <2>1. Publish("register") /\ handler' = handler /\ ~Early'
      BY <1>6 DEF Register, Early
    <2> QED
      BY <2>1, RegisterPublish DEF Sendings, Deleting, At
  <1>7. CASE Round \/ (FirstNotify /\ Publish("notify")) \/ \E x \in Sendings : UartSend(x)
    <2>1. /\ \E x \in Sendings : Publish(x)
          /\ handler' = handler /\ (Early' <=> Early)
      BY <1>7 DEF Round, FirstNotify, UartSend, Sendings, Early
    <2> QED
      BY <2>1, RegisterPublish DEF Deleting, At
  <1>8. CASE CreateClient \/ InstallCallback \/ EndWait \/ (FirstNotify /\ UNCHANGED <<outbox, server, lapses>>)
             \/ Connect \/ (\E on \in BOOLEAN : UartNotify(on)) \/ UNCHANGED vars
    <2>1. handler' = handler /\ UNCHANGED <<server, outbox, lapses>> /\ (Early' <=> Early)
      BY <1>8 DEF CreateClient, InstallCallback, EndWait, FirstNotify, Connect, UartNotify, vars,
                  device, server, Early
    <2>2. Deleting => Deleting'
      BY <2>1 DEF Deleting, At
    <2> QED
      BY <2>1, <2>2, RegisterFrame DEF server
  <1>9. CASE Drain
    BY <1>9, DrainRegister
  <1>10. CASE Expire
    BY <1>10, ExpireRegister
  <1>11. CASE OwnerDeletes
    <2>1. "deleted" \in lapses'
      BY <1>11 DEF OwnerDeletes, Blame, Causes
    <2> QED
      BY <2>1 DEF RegisterInv, Explained, Causes
  <1>12. CASE Provision
    <2>1. UNCHANGED <<device, server>> \/ (boot' = boot /\ outbox' = outbox /\ reasons' = reasons)
      BY <1>12 DEF Provision, server
    <2>2. boot' = "connect" /\ outbox' = <<>> /\ reasons' = {}
      BY <1>12, <2>1 DEF Provision, ReasonInv, AskedInv, device, server
    <2> QED
      BY <2>2 DEF RegisterInv, Timely, Early
  <1>13. CASE Receive \/ Unread
    <2>1. /\ UNCHANGED <<device, registered, reasons, lapses>> /\ ~Deleting
      BY <1>13 DEF Receive, Unread, Deleting
    <2> QED
      BY <2>1, RegisterFrame DEF device, Early
  <1>14. CASE \E m \in Requests : Ask(m)
    <2>1. /\ UNCHANGED <<device, handler, registered, lapses>> /\ reasons \subseteq reasons'
          /\ "stranger" \in reasons' => "stranger" \in reasons
      BY <1>14 DEF Ask
    <2>2. Deleting => Deleting'
      BY <2>1 DEF Deleting, At
    <2> QED
      BY <2>1, <2>2, RegisterFrame DEF device, Early
  <1>15. CASE Disconnect
    <2>1. /\ UNCHANGED <<boot, handler, registered, lapses, outbox>> /\ reasons' = {}
      BY <1>15 DEF Disconnect
    <2>2. Deleting => Deleting'
      BY <2>1 DEF Deleting, At
    <2> QED
      BY <2>1, <2>2, RegisterFrame DEF Early
  <1> QED
    BY <1>1, <1>2, <1>3, <1>4, <1>5, <1>6, <1>7, <1>8, <1>9, <1>10, <1>11, <1>12, <1>13, <1>14, <1>15
       DEF Next, BootStep, HandlerStep, FirstNotify

\* The server meets a device that it does not know only for the reasons that
\* StrangerExplained names, if the record holds them all: the registration and the
\* notifications of one start keep their order in the outbox otherwise.
THEOREM StrangerCorrect ==
    ASSUME Causes \subseteq Recorded
    PROVE  Spec => []StrangerExplained
  <1>1. Init => RegisterInv
    BY DEF Init, RegisterInv, Timely, Early
  <1>2. TypeOK /\ HandlerInv /\ ReasonInv /\ AskedInv /\ RegisterInv /\ [Next]_vars => RegisterInv'
    BY NextRegisterInv
  <1>3. RegisterInv => StrangerExplained
    BY DEF RegisterInv, Explained, Timely, Causes, StrangerExplained
  <1> QED
    BY <1>1, <1>2, <1>3, TypeCorrect, HandlerCorrect, ReasonCorrect, AskedCorrect, PTL DEF Spec
-----------------------------------------------------------------------------
(* A device that has forgotten the server is forgotten by it *)

GhostCauses == {"lost", "again"}
Ghosted == lapses \cap GhostCauses # {}

\* The handler of a deletion has sent the deregistration.
Deregistered == At("callback") \/ At("verdict")

\* As long as no deletion was lost and no registration came too late, the server does
\* not know a device that is wiped, or will be when its handler ends.
Consistent ==
    /\ wiped => ~registered
    /\ "stranger" \in reasons => ~registered
    /\ Deregistered /\ IsDelete(handler.msg) => ~registered

GhostInv == Ghosted \/ Consistent

LEMMA NoGhostCause ==
    ASSUME GhostCauses \subseteq Recorded, NEW kinds, Blame(kinds), ~Ghosted'
    PROVE  ~Ghosted /\ kinds \cap GhostCauses = {}
  BY DEF Blame, Ghosted

LEMMA GhostFrame ==
    ASSUME GhostInv, lapses \subseteq lapses', registered' => registered, wiped' => wiped,
           "stranger" \in reasons' => "stranger" \in reasons,
           Deregistered' /\ IsDelete(handler'.msg) => Deregistered /\ IsDelete(handler.msg)
    PROVE  GhostInv'
  BY DEF GhostInv, Ghosted, Consistent

\* A message that reaches the server.
LEMMA GhostReaches ==
    ASSUME TypeOK, ReasonInv, GhostInv, ~Ghosted, NEW x \in Sendings, Reaches(x),
           x = "register" => reasons = {}, handler' = handler, wiped' = wiped, ~wiped
    PROVE  Consistent'
  <1>1. Consistent
    BY DEF GhostInv
  <1>2. /\ registered' = (x = "register" \/ (x = "notify" /\ registered))
        /\ x = "register" => reasons' = reasons
        /\ "stranger" \in reasons' => "stranger" \in reasons \/ ~registered
    BY DEF Reaches, Sendings, TypeOK
  <1>3. CASE x = "register"
    <2>1. Deregistered => ~IsDelete(handler.msg)
      BY <1>3 DEF ReasonInv, Deregistered, WipeVerdict, At
    <2> QED
      BY <1>2, <1>3, <2>1 DEF Consistent, Deregistered, At
  <1>4. CASE x # "register"
    BY <1>1, <1>2, <1>4 DEF Consistent, Deregistered, At
  <1> QED
    BY <1>3, <1>4

LEMMA GhostPublish ==
    ASSUME TypeOK, ReasonInv, GhostInv, GhostCauses \subseteq Recorded, NEW x \in Sendings, Publish(x),
           handler' = handler, wiped' = wiped, ~wiped
    PROVE  GhostInv'
  <1> SUFFICES ASSUME ~Ghosted'
               PROVE  Consistent'
    BY DEF GhostInv
  <1>1. CASE Reaches(x) /\ Blame(Publishing(x, TRUE))
    <2>1. ~Ghosted /\ Publishing(x, TRUE) \cap GhostCauses = {}
      BY <1>1, NoGhostCause
    <2>2. ASSUME x = "register", reasons # {}
          PROVE  FALSE
      <3>1. "again" \in Publishing(x, TRUE) \cap GhostCauses
        BY <2>2 DEF Publishing, GhostCauses
      <3> QED
        BY <2>1, <3>1
    <2> QED
      BY <1>1, <2>1, <2>2, GhostReaches
  <1>2. CASE UNCHANGED server /\ Blame(Publishing(x, FALSE))
    <2>1. lapses \subseteq lapses'
      BY <1>2 DEF Blame
    <2>2. GhostInv'
      BY <1>2, <2>1, GhostFrame DEF server, Deregistered, At
    <2> QED
      BY <2>2 DEF GhostInv
  <1> QED
    BY <1>1, <1>2 DEF Publish

LEMMA DrainGhost ==
    ASSUME TypeOK, ReasonInv, GhostInv, GhostCauses \subseteq Recorded, Drain
    PROVE  GhostInv'
  <1> SUFFICES ASSUME ~Ghosted'
               PROVE  Consistent'
    BY DEF GhostInv
  <1> DEFINE kinds == {k \in {"again"} : Head(outbox) = "register" /\ reasons # {}}
  <1>1. Blame(kinds) /\ Reaches(Head(outbox)) /\ Head(outbox) \in Sendings
    BY DEF Drain, TypeOK
  <1>2. handler' = handler /\ wiped' = wiped /\ ~wiped
    BY DEF Drain, ReasonInv
  <1>3. ~Ghosted /\ kinds \cap GhostCauses = {}
    <2> HIDE DEF kinds
    <2> QED
      BY <1>1, NoGhostCause
  <1>4. Head(outbox) = "register" => reasons = {}
    BY <1>3 DEF GhostCauses
  <1> QED
    BY <1>1, <1>2, <1>3, <1>4, GhostReaches

\* damda_Req_DeleteDevice in the handler
LEMMA RequestDeleteGhost ==
    ASSUME TypeOK, HandlerInv, ReasonInv, GhostInv, GhostCauses \subseteq Recorded, RequestDelete
    PROVE  GhostInv'
  <1> SUFFICES ASSUME ~Ghosted'
               PROVE  Consistent'
    BY DEF GhostInv
  <1>1. Publish("delete") /\ wiped' = wiped /\ ~wiped
    BY DEF RequestDelete, ReasonInv, At
  <1>2. CASE Reaches("delete") /\ Blame(Publishing("delete", TRUE))
    <2>1. ~registered'
      BY <1>2 DEF Reaches
    <2> QED
      BY <2>1 DEF Consistent
  <1>3. CASE Blame(Publishing("delete", FALSE))
    <2>1. "lost" \in Publishing("delete", FALSE) \cap GhostCauses
      BY DEF Publishing, GhostCauses
    <2> QED
      BY <1>3, <2>1, NoGhostCause
  <1> QED
    BY <1>1, <1>2, <1>3 DEF Publish

LEMMA WipeGhost ==
    ASSUME TypeOK, AskedInv, GhostInv, Wipe
    PROVE  GhostInv'
  <1>1. ~Ghosted => ~registered
    BY DEF Wipe, WipeVerdict, GhostInv, Consistent, AskedInv, Met, Deregistered, At
  <1>2. lapses' = lapses /\ registered' = registered
    BY DEF Wipe
  <1> QED
    BY <1>1, <1>2 DEF GhostInv, Ghosted, Consistent

LEMMA NextGhostInv ==
    ASSUME TypeOK, HandlerInv, ReasonInv, AskedInv, GhostInv, GhostCauses \subseteq Recorded, [Next]_vars
    PROVE  GhostInv'
  <1>1. CASE AnswerDelete
    <2>1. /\ UNCHANGED <<device, server>> /\ lapses' = lapses /\ ~Deregistered'
      BY <1>1 DEF AnswerDelete, GotoHandler, TypeOK, Deregistered, At
    <2> QED
      BY <2>1, GhostFrame DEF device, server
  <1>2. CASE RequestDelete
    BY <1>2, RequestDeleteGhost
  <1>3. CASE Acknowledge
    <2>1. /\ UNCHANGED <<device, server>> /\ lapses' = lapses
          /\ handler'.msg = handler.msg /\ IsFirmware(handler.msg)
      BY <1>3 DEF Acknowledge, GotoHandler, TypeOK, HandlerInv
    <2> QED
      BY <2>1, KindsDiffer, GhostFrame DEF device, server
  <1>4. CASE StartUpdate \/ PassOn \/ Control
    <2>1. /\ UNCHANGED server /\ wiped' = wiped /\ lapses \subseteq lapses' /\ Deregistered
          /\ handler'.msg = handler.msg
      BY <1>4 DEF StartUpdate, PassOn, Control, Called, GotoHandler, TypeOK, Deregistered, At, device, Blame
    <2> QED
      BY <2>1, GhostFrame DEF server
  <1>5. CASE Dropped \/ Return
    <2>1. UNCHANGED <<device, server>> /\ lapses \subseteq lapses' /\ ~Deregistered'
      BY <1>5 DEF Dropped, Return, Idle, Deregistered, At, Blame
    <2> QED
      BY <2>1, GhostFrame DEF device, server
  <1>6. CASE ControlPanics \/ Restart
    <2>1. /\ registered' = registered /\ wiped' = wiped /\ reasons' = {} /\ ~Deregistered'
          /\ Ghosted => Ghosted'
      BY <1>6 DEF ControlPanics, Restart, Reboot, Deregistered, At, Idle, Ghosted, GhostCauses
    <2> QED
      BY <2>1 DEF GhostInv, Consistent
  <1>7. CASE Wipe
    <2>1. reasons' = {} /\ ~Deregistered'
      BY <1>7 DEF Wipe, Reboot, Deregistered, At, Idle
    <2> QED
      BY <1>7, WipeGhost
  <1>8. CASE Register \/ Round \/ (FirstNotify /\ Publish("notify")) \/ \E x \in Sendings : UartSend(x)
    <2>1. /\ ~wiped /\ wiped' = wiped /\ handler' = handler
          /\ \E x \in Sendings : Publish(x)
      BY <1>8 DEF Register, Round, FirstNotify, UartSend, Sendings, ReasonInv
    <2> QED
      BY <2>1, GhostPublish
  <1>9. CASE CreateClient \/ InstallCallback \/ EndWait \/ (FirstNotify /\ UNCHANGED <<outbox, server, lapses>>)
             \/ Connect \/ (\E on \in BOOLEAN : UartNotify(on)) \/ UNCHANGED vars
    <2>1. UNCHANGED <<handler, server, wiped, lapses>>
      BY <1>9 DEF CreateClient, InstallCallback, EndWait, FirstNotify, Connect, UartNotify, vars, device, server
    <2> QED
      BY <2>1, GhostFrame DEF server, Deregistered, At
  <1>10. CASE Drain
    BY <1>10, DrainGhost
  <1>11. CASE Expire \/ OwnerDeletes
    <2>1. /\ UNCHANGED <<handler, reasons, wiped>> /\ lapses \subseteq lapses'
          /\ registered' => registered
      BY <1>11 DEF Expire, OwnerDeletes, device, server, Blame
    <2> QED
      BY <2>1, GhostFrame DEF Deregistered, At
  <1>12. CASE Provision
    <2>1. ~wiped' /\ reasons' = {} /\ ~Deregistered'
      BY <1>12 DEF Provision, server, AskedInv, ReasonInv, Deregistered, At
    <2> QED
      BY <2>1 DEF GhostInv, Consistent
  <1>13. CASE Receive
    <2>1. UNCHANGED <<device, registered, reasons, lapses>>
      BY <1>13 DEF Receive
    <2>2. Deregistered' => ~IsDelete(handler'.msg)
      <3>1. At("callback")' \/ At("verdict")' => At("callback")' /\ ~IsDelete(handler'.msg)
        BY <1>13, KindsDiffer DEF Receive, At, IsDelete
      <3> QED
        BY <3>1 DEF Deregistered, At
    <2> QED
      BY <2>1, <2>2, GhostFrame DEF device
  <1>14. CASE Unread \/ \E m \in Requests : Ask(m)
    <2>1. /\ UNCHANGED <<device, handler, registered, lapses>>
          /\ "stranger" \in reasons' => "stranger" \in reasons
      BY <1>14 DEF Ask, Unread
    <2> QED
      BY <2>1, GhostFrame DEF device, Deregistered, At
  <1>15. CASE Disconnect
    <2>1. UNCHANGED <<handler, registered, lapses, wiped>> /\ reasons' = {}
      BY <1>15 DEF Disconnect
    <2> QED
      BY <2>1, GhostFrame DEF Deregistered, At
  <1> QED
    BY <1>1, <1>2, <1>3, <1>4, <1>5, <1>6, <1>7, <1>8, <1>9, <1>10, <1>11, <1>12, <1>13, <1>14, <1>15
       DEF Next, BootStep, HandlerStep, FirstNotify

\* The server does not keep a device that has forgotten its credentials, whether it was
\* deleted on request or wiped as a stranger, unless the deletion did not reach it or a
\* registration came after it: NoGhost for every size of the queues.
THEOREM GhostCorrect ==
    ASSUME GhostCauses \subseteq Recorded
    PROVE  Spec => []NoGhost
  <1>1. Init => GhostInv
    BY DEF Init, GhostInv, Consistent
  <1>2. TypeOK /\ HandlerInv /\ ReasonInv /\ AskedInv /\ GhostInv /\ [Next]_vars => GhostInv'
    BY NextGhostInv
  <1>3. GhostInv => NoGhost
    BY DEF GhostInv, Ghosted, GhostCauses, Consistent, NoGhost
  <1> QED
    BY <1>1, <1>2, <1>3, TypeCorrect, HandlerCorrect, ReasonCorrect, AskedCorrect, PTL DEF Spec
-----------------------------------------------------------------------------
(* A deletion sticks *)

DeleteCauses == {"window", "cut"}

\* A deletion that was confirmed is with the handler, or the device is wiped.
DeletedInv ==
    \A m \in Requests :
        IsDelete(m) /\ Accepted(m) =>
            wiped \/ (~At("idle") /\ handler.msg = m) \/ lapses \cap DeleteCauses # {}

LEMMA DeletedFrame ==
    ASSUME DeletedInv, answers' = answers, wiped => wiped',
           lapses \cap DeleteCauses \subseteq lapses' \cap DeleteCauses,
           \A m \in Requests : IsDelete(m) /\ ~At("idle") /\ handler.msg = m =>
               (~At("idle")' /\ handler'.msg = m) \/ lapses' \cap DeleteCauses # {}
    PROVE  DeletedInv'
  BY DEF DeletedInv, Accepted

\* A step after which another message than a deletion has been answered.
LEMMA DeletedAnswer ==
    ASSUME TypeOK, TrackInv, DeletedInv, ~At("idle"), NEW code \in {200, 600}, Answer(handler.msg, code),
           handler.msg \in Requests => Len(answers[handler.msg]) = 0,
           wiped' = wiped, lapses' = lapses, ~At("idle")', handler'.msg = handler.msg
    PROVE  DeletedInv'
  <1> SUFFICES ASSUME NEW m \in Requests, IsDelete(m), Accepted(m)'
               PROVE  wiped' \/ (~At("idle")' /\ handler'.msg = m) \/ lapses' \cap DeleteCauses # {}
    BY DEF DeletedInv
  <1>1. CASE m = handler.msg
    BY <1>1
  <1>2. CASE m # handler.msg
    <2>1. answers'[m] = answers[m]
      BY <1>2, AnswerEffect
    <2>2. Accepted(m)
      BY <2>1 DEF Accepted
    <2> QED
      BY <1>2, <2>2 DEF DeletedInv
  <1> QED
    BY <1>1, <1>2

LEMMA NextDeletedInv ==
    ASSUME TypeOK, HandlerInv, TrackInv, ReasonInv, DeletedInv, DeleteCauses \subseteq Recorded, [Next]_vars
    PROVE  DeletedInv'
  <1>1. CASE AnswerDelete \/ Acknowledge
    <2>1. /\ ~At("idle") /\ Answer(handler.msg, 200) /\ wiped' = wiped /\ lapses' = lapses
          /\ ~At("idle")' /\ handler'.msg = handler.msg
          /\ At("answer") \/ At("acknowledge")
      BY <1>1 DEF AnswerDelete, Acknowledge, GotoHandler, TypeOK, At, device
    <2> QED
      BY <2>1, DeletedAnswer DEF TrackInv
  <1>2. CASE Control
    <2>1. /\ ~At("idle") /\ wiped' = wiped /\ lapses' = lapses
          /\ ~At("idle")' /\ handler'.msg = handler.msg
          /\ At("callback") /\ IsControl(handler.msg)
          /\ Answer(handler.msg, 600) \/ answers' = answers
      BY <1>2 DEF Control, Called, GotoHandler, TypeOK, At
    <2>2. CASE Answer(handler.msg, 600)
      BY <2>1, <2>2, DeletedAnswer DEF TrackInv
    <2>3. CASE answers' = answers
      BY <2>1, <2>3, DeletedFrame
    <2> QED
      BY <2>1, <2>2, <2>3
  <1>3. CASE RequestDelete \/ StartUpdate \/ PassOn
    <2>1. /\ wiped' = wiped /\ lapses \subseteq lapses' /\ answers' = answers
          /\ ~At("idle")' /\ handler'.msg = handler.msg
      BY <1>3 DEF RequestDelete, StartUpdate, PassOn, GotoHandler, TypeOK, At, device, effects, Publish, Blame
    <2> QED
      BY <2>1, DeletedFrame
  <1>4. CASE Dropped
    <2>1. /\ wiped' = wiped /\ lapses \subseteq lapses' /\ answers' = answers
      BY <1>4 DEF Dropped, device, effects, Blame
    <2>2. ASSUME IsDelete(handler.msg), handler.msg \in Requests
          PROVE  "window" \in lapses'
      <3>1. ~callbackFunc
        BY <1>4, <2>2, KindsDiffer DEF Dropped
      <3> QED
        BY <1>4, <2>2, <3>1 DEF Dropped, Blame, DeleteCauses
    <2> QED
      BY <2>1, <2>2, DeletedFrame DEF DeleteCauses
  <1>5. CASE Return
    <2>1. /\ wiped' = wiped /\ lapses' = lapses /\ answers' = answers /\ ~IsDelete(handler.msg)
      BY <1>5 DEF Return, device, effects, WipeVerdict
    <2> QED
      BY <2>1, DeletedFrame
  <1>6. CASE ControlPanics
    <2>1. /\ wiped' = wiped /\ lapses' = lapses /\ answers' = answers /\ ~IsDelete(handler.msg)
      BY <1>6, KindsDiffer DEF ControlPanics
    <2> QED
      BY <2>1, DeletedFrame
  <1>7. CASE Wipe
    BY <1>7 DEF Wipe, DeletedInv
  <1>8. CASE Restart
    <2>1. /\ wiped' = wiped /\ answers' = answers
          /\ lapses \cap DeleteCauses \subseteq lapses' \cap DeleteCauses
          /\ ~At("idle") => "cut" \in lapses'
      BY <1>8 DEF Restart, DeleteCauses
    <2> QED
      BY <2>1, DeletedFrame DEF DeleteCauses
  <1>9. CASE Provision
    BY <1>9 DEF Provision, DeletedInv, Accepted
  <1>10. CASE Receive
    <2>1. /\ UNCHANGED <<device, effects, lapses>> /\ At("idle")
      BY <1>10 DEF Receive
    <2> QED
      BY <2>1, DeletedFrame DEF device, effects
  <1>11. CASE \/ BootStep \/ Round \/ (\E x \in Sendings : UartSend(x))
              \/ \E on \in BOOLEAN : UartNotify(on)
    <2>1. UNCHANGED <<handler, answers, wiped>>
      BY <1>11 DEF BootStep, CreateClient, InstallCallback, EndWait, Register, FirstNotify, Round,
                   UartSend, UartNotify, effects
    <2>2. lapses \subseteq lapses'
      BY <1>11 DEF BootStep, CreateClient, InstallCallback, EndWait, Register, FirstNotify, Round,
                   UartSend, UartNotify, Publish, Blame
    <2> QED
      BY <2>1, <2>2, DeletedFrame DEF At
  <1>12. CASE \/ Unread \/ Drain \/ Expire \/ Connect \/ Disconnect \/ OwnerDeletes
              \/ (\E m \in Requests : Ask(m)) \/ UNCHANGED vars
    <2>1. UNCHANGED <<handler, answers, wiped>> /\ lapses \subseteq lapses'
      BY <1>12 DEF Unread, Drain, Expire, Connect, Disconnect, OwnerDeletes, Ask, vars, device, effects, Blame
    <2> QED
      BY <2>1, DeletedFrame DEF At
  <1> QED
    BY <1>1, <1>2, <1>3, <1>4, <1>5, <1>6, <1>7, <1>8, <1>9, <1>10, <1>11, <1>12 DEF Next, HandlerStep

\* Only a registration makes the server know the device, and it is recorded when the
\* server has a reason to see the device wiped.
LEMMA OnlyRegistration ==
    ASSUME TypeOK, ReasonInv, {"again"} \subseteq Recorded, Next, ~registered, registered'
    PROVE  /\ ~wiped /\ lapses \subseteq lapses'
           /\ reasons # {} => "again" \in lapses'
  <1>1. /\ ~wiped
        /\ \/ \E x \in Sendings : Publish(x)
           \/ Drain
    BY DEF Next, BootStep, HandlerStep, CreateClient, InstallCallback, EndWait, Register, FirstNotify, Round,
           UartSend, UartNotify, Receive, Unread, AnswerDelete, RequestDelete, Acknowledge, Dropped, Control,
           ControlPanics, StartUpdate, PassOn, Wipe, Return, Drain, Expire, Connect, Disconnect, Ask,
           OwnerDeletes, Restart, Provision, server, Sendings, ReasonInv, At
  <1>2. CASE \E x \in Sendings : Publish(x)
    <2> PICK x \in Sendings : Publish(x)
      BY <1>2
    <2>1. Reaches(x) /\ Blame(Publishing(x, TRUE))
      BY DEF Publish, server
    <2>2. x = "register"
      BY <2>1 DEF Reaches, Sendings
    <2>3. reasons # {} => "again" \in Publishing(x, TRUE)
      BY <2>2 DEF Publishing
    <2> QED
      BY <1>1, <2>1, <2>3 DEF Blame
  <1>3. CASE Drain
    <2>1. Reaches(Head(outbox)) /\ Head(outbox) \in Sendings
      BY <1>3 DEF Drain, TypeOK
    <2>2. Head(outbox) = "register"
      BY <2>1 DEF Reaches, Sendings
    <2> QED
      BY <1>1, <1>3, <2>2 DEF Drain, Blame
  <1> QED
    BY <1>1, <1>2, <1>3

\* A device that has confirmed its deletion is not registered again before its owner
\* provisions it, unless the confirmation was given too early or cut off by a restart,
\* or the registration passed the deletion: DeletionSticks.
THEOREM DeletionCorrect ==
    ASSUME DeleteCauses \cup {"again"} \subseteq Recorded
    PROVE  Spec => DeletionSticks
  <1>1. Init => DeletedInv
    <2>1. Init => \A m \in Requests : Len(answers[m]) = 0
      BY DEF Init
    <2> QED
      BY <2>1 DEF DeletedInv, Accepted
  <1>2. TypeOK /\ HandlerInv /\ TrackInv /\ ReasonInv /\ DeletedInv /\ [Next]_vars => DeletedInv'
    BY NextDeletedInv
  <1>3. TypeOK /\ ReasonInv /\ DeletedInv /\ [Next]_vars =>
            [~registered /\ registered' => Deletion = {} \/ lapses' \cap {"window", "cut", "again"} # {}]_vars
    <2> SUFFICES ASSUME TypeOK, ReasonInv, DeletedInv, Next, ~registered, registered',
                        NEW m \in Deletion
                 PROVE  lapses' \cap {"window", "cut", "again"} # {}
      BY DEF vars, server
    <2>1. m \in Requests /\ IsDelete(m) /\ Accepted(m)
      BY DEF Deletion, Accepted
    <2>2. ~wiped /\ lapses \subseteq lapses' /\ (reasons # {} => "again" \in lapses')
      BY OnlyRegistration
    <2>3. ~At("idle") /\ handler.msg = m => reasons # {}
      BY <2>1 DEF ReasonInv, WipeVerdict
    <2> QED
      BY <2>1, <2>2, <2>3 DEF DeletedInv, DeleteCauses
  <1> QED
    BY <1>1, <1>2, <1>3, TypeCorrect, HandlerCorrect, TrackCorrect, ReasonCorrect, PTL DEF Spec, DeletionSticks
-----------------------------------------------------------------------------
(* An update has a URL and a version *)

\* Two entries of the two names, and not two of one name, are one of each.
LEMMA BothNamed ==
    ASSUME NEW m \in Message, IsFirmware(m),
           \A uri \in FirmwareUris : Cardinality(Named(m, {uri})) <= 1,
           NEW uri \in FirmwareUris
    PROVE  Named(m, {uri}) # {}
  <1> SUFFICES ASSUME Named(m, {uri}) = {}
               PROVE  FALSE
    OBVIOUS
  <1>1. Cardinality(Named(m, FirmwareUris)) = 2
    <2>1. m.o \in {"res", "r", "w", "e", "d"}
      BY DEF Message
    <2>2. ~IsFirmwareUpdateMessage(m) => MessageType(m) # "FIRMWARE_DOWNLOAD"
      <3> HIDE DEF IsFirmwareUpdateMessage
      <3> QED
        BY <2>1 DEF MessageType
    <2> QED
      BY <2>2 DEF IsFirmware, IsFirmwareUpdateMessage
  <1>2. PICK other \in FirmwareUris : \A u \in FirmwareUris : u = uri \/ u = other
    BY DEF FirmwareUris
  <1>3. Named(m, FirmwareUris) = Named(m, {other})
    BY <1>2 DEF Named
  <1>4. Cardinality(Named(m, {other})) <= 1
    OBVIOUS
  <1> QED
    BY <1>1, <1>3, <1>4

LEMMA ElementOf ==
    ASSUME NEW S, NEW q \in Seq(S), NEW i \in 1 .. Len(q)
    PROVE  q[i] \in S
  OBVIOUS

LEMMA ValueOfOnlyEntry ==
    ASSUME NEW m \in Message, NEW uri \in FirmwareUris, Named(m, {uri}) # {},
           Cardinality(Named(m, {uri})) <= 1, \A i \in 1 .. Len(m.e) : m.e[i].sv # Absent
    PROVE  StringValueByResourceUri(m, uri) # Unset
  <1> DEFINE named == Named(m, {uri})
  <1>1. m.e \in Seq([n : FirmwareUris \cup {"other"}, sv : {Absent, "text"}]) /\ Len(m.e) \in Nat
    BY DEF Message
  <1>2. named \in SUBSET (1 .. Len(m.e))
    BY DEF Named
  <1> HIDE DEF named
  <1>3. IsFiniteSet(named)
    <2>1. IsFiniteSet(1 .. Len(m.e))
      BY <1>1, FS_Interval
    <2> QED
      BY <1>2, <2>1, FS_Subset
  <1>4. Cardinality(named) = 1
    BY <1>3, FS_EmptySet, FS_CardinalityType DEF named
  <1>5. PICK i : named = {i}
    BY <1>3, <1>4, FS_Singleton
  <1>6. i \in 1 .. Len(m.e) /\ i <= i
    BY <1>1, <1>2, <1>5
  <1>7. m.e[i].sv = "text"
    <2>1. m.e[i] \in [n : FirmwareUris \cup {"other"}, sv : {Absent, "text"}]
      BY <1>1, <1>6, ElementOf
    <2>2. m.e[i].sv \in {Absent, "text"}
      BY <2>1
    <2> QED
      BY <1>6, <2>2
  <1>8. (CHOOSE j \in named : \A k \in named : j <= k) = i
    BY <1>5, <1>6
  <1>9. StringValueByResourceUri(m, uri) = m.e[i].sv
    BY <1>5, <1>7, <1>8, ValuesAssumption DEF StringValueByResourceUri, named
  <1> QED
    BY <1>7, <1>9, ValuesAssumption

\* An update that has started has a URL and a version of one message, if the server
\* names each at most once, with a value: UpdateHasUrlAndVersion for messages of any
\* number of entries.
THEOREM UpdateComplete == Spec => []UpdateHasUrlAndVersion
  <1>1. TypeOK => UpdateHasUrlAndVersion
    <2> SUFFICES ASSUME TypeOK, NEW m \in done, IsFirmware(m),
                        \A uri \in FirmwareUris : Cardinality(Named(m, {uri})) <= 1,
                        \A i \in 1 .. Len(m.e) : m.e[i].sv # Absent,
                        NEW uri \in FirmwareUris
                 PROVE  StringValueByResourceUri(m, uri) # Unset
      BY DEF UpdateHasUrlAndVersion
    <2>1. m \in Message
      BY MessagesAssumption DEF TypeOK
    <2> QED
      BY <2>1, BothNamed, ValueOfOnlyEntry
  <1> QED
    BY <1>1, TypeCorrect, PTL

-----------------------------------------------------------------------------
(* How long the MQTT task handles a message, and how it ends *)

\* The steps that the handler has left at most.
HandlerSteps ==
    CASE At("answer") -> 4
      [] At("request") -> 3
      [] At("acknowledge") -> 3
      [] At("callback") -> 2
      [] At("verdict") -> 1
      [] OTHER -> 0

\* Every step of the handler brings it nearer to its end, and nothing but a restart of the
\* device interferes: no task that publishes, no event of the client and no other message.
HandlerBounded ==
    [][/\ HandlerStep => HandlerSteps' < HandlerSteps
       /\ ~At("idle") /\ ~HandlerStep => handler' = handler \/ (Reboot /\ ~wiped')]_vars

\* Once the callback is installed, the handler ends a message that orders the device to
\* forget its credentials only by the wipe: neither the branches of messageArrived before
\* the callback nor its own branches lose the order.
OrderCarriedOut ==
    [][/\ HandlerStep /\ handler'.pc = "idle"
       /\ callbackFunc /\ WipeVerdict(handler.msg) /\ ~IsFirmware(handler.msg)
       => wiped']_vars

\* What is neither a step of the handler nor the receipt of a message leaves it alone, or is
\* a restart.
LEMMA OthersLeaveHandler ==
    ASSUME TypeOK, [Next]_vars, ~At("idle"), ~HandlerStep
    PROVE  handler' = handler \/ (Reboot /\ ~wiped')
  <1>1. CASE BootStep \/ Round \/ Drain \/ Expire \/ Connect \/ Disconnect \/ OwnerDeletes \/ Provision
    BY <1>1 DEF BootStep, CreateClient, InstallCallback, EndWait, Register, FirstNotify, Round,
       Drain, Expire, Connect, Disconnect, OwnerDeletes, Provision
  <1>2. CASE (\E x \in Sendings : UartSend(x)) \/ (\E on \in BOOLEAN : UartNotify(on))
             \/ (\E m \in Requests : Ask(m)) \/ UNCHANGED vars
    BY <1>2 DEF UartSend, UartNotify, Ask, vars
  <1>3. CASE Restart
    BY <1>3 DEF Restart
  <1>4. ~Receive /\ ~Unread
    BY DEF Receive, Unread
  <1> QED
    BY <1>1, <1>2, <1>3, <1>4 DEF Next

\* A step of the handler leaves it fewer.
LEMMA HandlerStepCounts ==
    ASSUME TypeOK, HandlerStep
    PROVE  HandlerSteps' < HandlerSteps
  <1> USE DEF HandlerSteps, At
  <1>1. CASE AnswerDelete \/ RequestDelete \/ Acknowledge \/ Control \/ StartUpdate \/ PassOn
    BY <1>1 DEF AnswerDelete, RequestDelete, Acknowledge, Control, StartUpdate, PassOn, Called,
       GotoHandler, TypeOK
  <1>2. CASE Dropped \/ ControlPanics \/ Wipe \/ Return
    BY <1>2 DEF Dropped, ControlPanics, Wipe, Return, Called, Reboot, Idle
  <1> QED
    BY <1>1, <1>2 DEF HandlerStep

\* Of the steps that end a message, only the wipe ends one that orders it.
LEMMA OrderKept ==
    ASSUME TypeOK, HandlerStep, handler'.pc = "idle", callbackFunc, WipeVerdict(handler.msg),
           ~IsFirmware(handler.msg)
    PROVE  wiped'
  <1>1. ~IsControl(handler.msg)
    <2>1. CASE IsDelete(handler.msg)
      BY <2>1, KindsDiffer
    <2>2. CASE IsUnknownDevice(handler.msg)
      BY <2>2, InputFacts DEF TypeOK, Inputs
    <2> QED
      BY <2>1, <2>2 DEF WipeVerdict
  <1>2. ~(AnswerDelete \/ RequestDelete \/ Acknowledge \/ Control \/ StartUpdate \/ PassOn)
    BY DEF AnswerDelete, RequestDelete, Acknowledge, Control, StartUpdate, PassOn, GotoHandler, TypeOK
  <1>3. ~Dropped /\ ~ControlPanics /\ ~Return
    BY <1>1 DEF Dropped, ControlPanics, Return
  <1>4. Wipe
    BY <1>2, <1>3 DEF HandlerStep
  <1> QED
    BY <1>4 DEF Wipe

\* The MQTT task is done with a message after four steps, and if the message orders a wipe
\* and the callback is there, the device is wiped by then, or restarted.
THEOREM HandlerCounts == Spec => [](HandlerSteps \in 0 .. 4) /\ HandlerBounded /\ OrderCarriedOut
  <1>1. HandlerSteps \in 0 .. 4
    BY DEF HandlerSteps
  <1>2. TypeOK /\ [Next]_vars =>
          [/\ HandlerStep => HandlerSteps' < HandlerSteps
           /\ ~At("idle") /\ ~HandlerStep => handler' = handler \/ (Reboot /\ ~wiped')]_vars
    BY OthersLeaveHandler, HandlerStepCounts
  <1>3. TypeOK /\ [Next]_vars =>
          [/\ HandlerStep /\ handler'.pc = "idle"
           /\ callbackFunc /\ WipeVerdict(handler.msg) /\ ~IsFirmware(handler.msg)
           => wiped']_vars
    BY OrderKept
  <1> QED
    BY <1>1, <1>2, <1>3, TypeCorrect, PTL DEF Spec, HandlerBounded, OrderCarriedOut
=============================================================================
