---------------------------- MODULE Provisioning ----------------------------
(***************************************************************************)
(* How a device gets its credentials, keeps them and forgets them: the     *)
(* boot path of app_main, the web server of the soft AP that receives the  *)
(* credentials, the Wi-Fi events of the station mode, and the factory      *)
(* resets, which three tasks start on their own: the UART task (command    *)
(* o), the MQTT task (a delete request or an unknown device) and the main  *)
(* task (a broker that refuses the connection).                            *)
(*                                                                         *)
(* NVS holds the application record (booting mode and MAC address) and     *)
(* one string per credential.  A value is named by the request it came     *)
(* from; what malloc returns for a string of unknown length is None.       *)
(***************************************************************************)
EXTENDS Integers, Sequences, FiniteSets

CONSTANTS
    Requests,          \* the sets of credentials users post
    None,              \* no value, or memory nobody wrote
    WifiMaximumRetry,  \* WIFI_MAXIMUM_RETRY (2)
    Recorded           \* the kinds of ill-timed events the history records

ASSUME ProvisioningAssumption == None \notin Requests /\ WifiMaximumRetry \in Nat

\* What each handler takes from the body, in the order in which it saves it.  The
\* server's address and its port, written one after the other, count as one.
LinkKeys == <<"server", "ap_ssid", "ap_password", "auth_key">>
SetKeys == <<"ap_ssid", "ap_password">>
Keys == {LinkKeys[i] : i \in 1 .. 4}
BackupKeys == {"ap_ssid_b", "ap_password_b"}

VARIABLES
    \* --- NVS, kept across a restart ---
    record,       \* the "app_data_info" blob
    creds,        \* the credentials, with the backup of the Wi-Fi pair
    \* --- RAM ---
    nvs_ready,    \* NVS is initialised
    flash_info,   \* RAM copy of the record
    buffers,      \* RAM copies of the credentials
    boot_mode,    \* the branch app_main took
    phase,        \* progress of app_main
    link,         \* the Wi-Fi station
    s_retry_num,
    ap_state,     \* a station has joined the soft AP: the web server runs
    http,         \* progress of the web server through a request
    resetter,     \* progress of each task through a factory reset
    lapses        \* history: the kinds of ill-timed events so far

nvs == <<record, creds>>
wifi == <<phase, link, s_retry_num>>
vars == <<nvs, nvs_ready, flash_info, buffers, boot_mode, wifi, ap_state, http, resetter, lapses>>

-----------------------------------------------------------------------------
Modes == {"FACTORY", "NORMAL"}
Resetters == {"uart", "mqtt", "main"}
\* "partial" stands for a request that NVS holds only a part of: the body lacks the
\* rest, or the device is cut off while it saves, or link/set reaches a device that
\* has no other credentials yet.
Lapses == {"partial", "reread", "race", "unsaved"}
Values == Requests \cup {None}

\* flash_info_t, reduced to booting_mode and whether esp_mac is known.
Record == [mode : Modes, mac : BOOLEAN]
FactoryRecord == [mode |-> "FACTORY", mac |-> FALSE]
Absent == [mode |-> "ABSENT", mac |-> FALSE]

NoCredentials == [k \in Keys \cup BackupKeys |-> None]

HttpPCs == {"idle", "receive", "mode", "record", "open", "save", "restart"}
HttpStates == [pc : HttpPCs, req : Values, keys : {LinkKeys, SetKeys},
               found : 0 .. 4, open : BOOLEAN, next : 1 .. 4]
NoRequest == [pc |-> "idle", req |-> None, keys |-> LinkKeys, found |-> 0,
              open |-> FALSE, next |-> 1]

TypeOK ==
    /\ record \in Record \cup {Absent}
    /\ creds \in [Keys \cup BackupKeys -> Values]
    /\ nvs_ready \in BOOLEAN
    /\ flash_info \in Record
    /\ buffers \in [Keys \cup BackupKeys -> Values]
    /\ boot_mode \in Modes
    /\ phase \in {"start", "ap", "wait", "handoff", "up"}
    /\ link \in {"down", "trying", "associated", "up"}
    /\ s_retry_num \in 0 .. WifiMaximumRetry
    /\ ap_state \in BOOLEAN
    /\ http \in HttpStates
    /\ resetter \in [Resetters -> {"idle", "erase", "restart"}]
    /\ lapses \subseteq Lapses

Blamed(kind, cond) == {k \in {kind} \cap Recorded : cond}
Blame(kind, cond) == lapses' = lapses \cup Blamed(kind, cond)

\* Somebody erased NVS and has not restarted the device yet.
Erased == \E r \in Resetters : resetter[r] = "restart"
\* The mode is saved and the credentials are not.
Saving == http.pc \in {"open", "save"}
NoReset == \A r \in Resetters : resetter[r] = "idle"

\* damda_nvs_init and the first esp_nvs_read.  The factory record finds room in an
\* empty NVS.  An NVS without a free page is erased at this point: that is a factory
\* reset that ends in another restart.
Boot ==
    /\ record' = IF record = Absent THEN FactoryRecord ELSE record
    /\ flash_info' = record'
    /\ creds' = creds
    /\ nvs_ready' = TRUE
    /\ buffers' = creds
    /\ boot_mode' = record'.mode
    /\ phase' = "start"
    /\ link' = "down"
    /\ s_retry_num' = 0
    /\ ap_state' = FALSE
    /\ http' = NoRequest
    /\ resetter' = [r \in Resetters |-> "idle"]

Init ==
    /\ record = FactoryRecord
    /\ creds = NoCredentials
    /\ nvs_ready = TRUE
    /\ flash_info = FactoryRecord
    /\ buffers = NoCredentials
    /\ boot_mode = "FACTORY"
    /\ phase = "start"
    /\ link = "down"
    /\ s_retry_num = 0
    /\ ap_state = FALSE
    /\ http = NoRequest
    /\ resetter = [r \in Resetters |-> "idle"]
    /\ lapses = {}

\* write_flash: nvs_open fails without NVS, nvs_set_blob or nvs_commit when NVS has no
\* room.  The caller learns of neither.
WriteFlash(rec) ==
    /\ record' \in {record} \cup {r \in {rec} : nvs_ready}
    /\ Blame("unsaved", nvs_ready /\ record' # rec)

-----------------------------------------------------------------------------
(* app_main and the Wi-Fi events *)

SoftAp_macNotRead ==
    /\ phase = "start"
    /\ boot_mode # "NORMAL"
    /\ WriteFlash(flash_info)
    /\ phase' = "ap"
    /\ UNCHANGED <<flash_info, creds, nvs_ready, buffers, boot_mode, link, s_retry_num,
                   ap_state, http, resetter>>

\* wifi_init_softap
SoftAp ==
    /\ phase = "start"
    /\ boot_mode # "NORMAL"
    /\ flash_info' = [flash_info EXCEPT !.mac = TRUE]
    /\ WriteFlash(flash_info')
    /\ phase' = "ap"
    /\ UNCHANGED <<creds, nvs_ready, buffers, boot_mode, link, s_retry_num, ap_state, http,
                   resetter>>

\* wifi_init_sta, up to esp_wifi_start.  strlen of a buffer nobody filled either
\* stops the device with a panic or configures some other network.
StartSta ==
    /\ phase = "start"
    /\ boot_mode = "NORMAL"
    /\ LET read == IF nvs_ready THEN creds ELSE NoCredentials
       IN  \/ /\ buffers' = read
              /\ phase' = "wait"
              /\ link' = "trying"
              /\ UNCHANGED <<nvs, nvs_ready, flash_info, boot_mode, s_retry_num, ap_state,
                             http, resetter, lapses>>
           \/ /\ None \in {read["ap_ssid"], read["ap_password"]}
              /\ Boot
              /\ lapses' = lapses

\* WIFI_EVENT_STA_CONNECTED, which the handler does not look at: the access point has
\* accepted the station, which asks it for an address.
Associate ==
    /\ phase \in {"wait", "handoff"}
    /\ link = "trying"
    /\ link' = "associated"
    /\ UNCHANGED <<nvs, nvs_ready, flash_info, buffers, boot_mode, phase, s_retry_num, ap_state,
                   http, resetter, lapses>>

\* IP_EVENT_STA_GOT_IP: sets WIFI_CONNECTED_BIT.
GotIp ==
    /\ phase \in {"wait", "handoff"}
    /\ link = "associated"
    /\ link' = "up"
    /\ s_retry_num' = 0
    /\ phase' = "handoff"
    /\ UNCHANGED <<nvs, nvs_ready, flash_info, buffers, boot_mode, ap_state, http, resetter,
                   lapses>>

StaDisconnected_givesUp ==
    /\ phase \in {"wait", "handoff"}
    /\ link # "down"
    /\ IF s_retry_num < WifiMaximumRetry
       THEN link' = "trying" /\ s_retry_num' = s_retry_num + 1
       ELSE link' = "down" /\ s_retry_num' = s_retry_num
    /\ UNCHANGED <<nvs, nvs_ready, flash_info, buffers, boot_mode, phase, ap_state, http,
                   resetter, lapses>>

\* WIFI_EVENT_STA_DISCONNECTED while the handlers are registered.
StaDisconnected ==
    /\ phase \in {"wait", "handoff"}
    /\ link # "down"
    /\ IF s_retry_num < WifiMaximumRetry
       THEN /\ link' = "trying"
            /\ s_retry_num' = s_retry_num + 1
            /\ UNCHANGED <<nvs, nvs_ready, flash_info, buffers, boot_mode, phase, ap_state,
                           http, resetter>>
       ELSE Boot
    /\ lapses' = lapses

\* app_main wakes and unregisters the handlers: from here on nobody reconnects.
Unregister ==
    /\ phase = "handoff"
    /\ phase' = "up"
    /\ UNCHANGED <<nvs, nvs_ready, flash_info, buffers, boot_mode, link, s_retry_num, ap_state,
                   http, resetter, lapses>>

LoseLink ==
    /\ phase = "up"
    /\ link' = "down"
    /\ UNCHANGED <<nvs, nvs_ready, flash_info, buffers, boot_mode, phase, s_retry_num, ap_state,
                   http, resetter, lapses>>

\* WIFI_EVENT_AP_STACONNECTED starts the web server.
StationJoins ==
    /\ phase = "ap"
    /\ ap_state' = TRUE
    /\ UNCHANGED <<nvs, nvs_ready, flash_info, buffers, boot_mode, wifi, http, resetter, lapses>>

-----------------------------------------------------------------------------
(* adder_post_handler (link/start) and adder_set_post_handler (link/set) *)

Post_whileServing(req, keys) ==
    /\ phase = "ap" /\ ap_state
    /\ http' = [NoRequest EXCEPT !.pc = "receive", !.req = req, !.keys = keys]
    /\ Blame("partial", keys = SetKeys /\ \E k \in Keys : creds[k] = None)
    /\ UNCHANGED <<nvs, nvs_ready, flash_info, buffers, boot_mode, wifi, ap_state, resetter>>

\* The answer is sent before the body is read.
Post(req, keys) ==
    /\ phase = "ap" /\ ap_state
    /\ http.pc = "idle"
    /\ http' = [NoRequest EXCEPT !.pc = "receive", !.req = req, !.keys = keys]
    /\ Blame("partial", keys = SetKeys /\ \E k \in Keys : creds[k] = None)
    /\ UNCHANGED <<nvs, nvs_ready, flash_info, buffers, boot_mode, wifi, ap_state, resetter>>

\* The first piece of a body names the strings the handler wants up to the first one it
\* lacks: all of them, some, or none when it is not JSON.  Or the client is gone.
Receive ==
    /\ http.pc = "receive"
    /\ \/ \E n \in 0 .. Len(http.keys) :
             /\ http' = [http EXCEPT !.pc = "mode", !.found = n]
             /\ Blame("partial", n < Len(http.keys))
       \/ http' = NoRequest /\ lapses' = lapses
    /\ UNCHANGED <<nvs, nvs_ready, flash_info, buffers, boot_mode, wifi, ap_state, resetter>>

SetMode ==
    /\ http.pc = "mode"
    /\ flash_info' = [flash_info EXCEPT !.mode = "NORMAL"]
    /\ http' = [http EXCEPT !.pc = "record"]
    /\ UNCHANGED <<nvs, nvs_ready, buffers, boot_mode, wifi, ap_state, resetter, lapses>>

SaveMode_notWritten ==
    /\ http.pc = "record"
    /\ http' = [http EXCEPT !.pc = "open"]
    /\ UNCHANGED <<nvs, nvs_ready, flash_info, buffers, boot_mode, wifi, ap_state, resetter,
                   lapses>>

SaveMode ==
    /\ http.pc = "record"
    /\ WriteFlash(flash_info)
    /\ http' = [http EXCEPT !.pc = "open"]
    /\ UNCHANGED <<creds, nvs_ready, flash_info, buffers, boot_mode, wifi, ap_state, resetter>>

OpenNvs ==
    /\ http.pc = "open"
    /\ http' = [http EXCEPT !.pc = "save", !.open = nvs_ready]
    /\ UNCHANGED <<nvs, nvs_ready, flash_info, buffers, boot_mode, wifi, ap_state, resetter,
                   lapses>>

\* nvs_set_str: a stale handle is refused, and NVS may have no room.  The handlers look
\* at neither result.
SetStr(key, value) ==
    /\ creds' \in {creds} \cup {c \in {[creds EXCEPT ![key] = value]} : http.open}
    /\ Blame("unsaved", http.open /\ creds'[key] # value)

SaveKey_offByOne ==
    /\ http.pc = "save"
    /\ http.next <= http.found
    /\ SetStr(http.keys[http.next], http.req)
    /\ http' = IF http.next + 1 < Len(http.keys) THEN [http EXCEPT !.next = @ + 1]
               ELSE [http EXCEPT !.pc = "restart"]
    /\ UNCHANGED <<record, nvs_ready, flash_info, buffers, boot_mode, wifi, ap_state, resetter>>

SaveKey ==
    /\ http.pc = "save"
    /\ http.next <= http.found
    /\ SetStr(http.keys[http.next], http.req)
    /\ http' = IF http.next < Len(http.keys) THEN [http EXCEPT !.next = @ + 1]
               ELSE [http EXCEPT !.pc = "restart"]
    /\ UNCHANGED <<record, nvs_ready, flash_info, buffers, boot_mode, wifi, ap_state, resetter>>

\* A string the body lacks is NULL: strlen(NULL) panics, and the strings before it are
\* saved by then.  Without a valid handle nvs_set_str returns before that.
SavePanics ==
    /\ http.pc = "save"
    /\ http.next > http.found
    /\ IF http.open THEN Boot
       ELSE /\ http' = [http EXCEPT !.pc = "restart"]
            /\ UNCHANGED <<nvs, nvs_ready, flash_info, buffers, boot_mode, wifi, ap_state,
                           resetter>>
    /\ lapses' = lapses

HttpRestart ==
    /\ http.pc = "restart"
    /\ Boot
    /\ lapses' = lapses

HttpStep == Receive \/ SetMode \/ SaveMode \/ OpenNvs \/ SaveKey \/ SavePanics \/ HttpRestart

-----------------------------------------------------------------------------
(* Factory resets, and the other writers of NVS *)

\* The device has been a station since it started; command a may have made it a
\* soft AP meanwhile, which main_task and an OTA task do not notice.
MainRuns == boot_mode = "NORMAL" /\ phase \in {"up", "ap"}

\* Which task resets when: MQTT messages need the network, a refused connection that
\* main_task looks for may be an old one.
CanReset(r) ==
    \/ r = "uart"
    \/ r = "mqtt" /\ boot_mode = "NORMAL" /\ phase = "up"
    \/ r = "main" /\ MainRuns

\* nvs_flash_init, then the erasure in a step of its own.  After the erasure by
\* another task it opens NVS once more, until it erases it again.
ResetInit(r) ==
    /\ resetter[r] = "idle"
    /\ CanReset(r)
    /\ nvs_ready' = TRUE
    /\ resetter' = [resetter EXCEPT ![r] = "erase"]
    /\ Blame("race", Erased)
    /\ UNCHANGED <<nvs, flash_info, buffers, boot_mode, wifi, ap_state, http>>

ResetErase_staysReady(r) ==
    /\ resetter[r] = "erase"
    /\ record' = Absent
    /\ creds' = NoCredentials
    /\ resetter' = [resetter EXCEPT ![r] = "restart"]
    /\ UNCHANGED <<nvs_ready, flash_info, buffers, boot_mode, wifi, ap_state, http, lapses>>

\* nvs_flash_erase deinitialises NVS first, which ends every open handle.
ResetErase(r) ==
    /\ resetter[r] = "erase"
    /\ record' = Absent
    /\ creds' = NoCredentials
    /\ nvs_ready' = FALSE
    /\ http' = [http EXCEPT !.open = FALSE]
    /\ resetter' = [resetter EXCEPT ![r] = "restart"]
    /\ UNCHANGED <<flash_info, buffers, boot_mode, wifi, ap_state, lapses>>

ResetRestart_notCalled(r) ==
    /\ resetter[r] = "restart"
    /\ resetter' = [resetter EXCEPT ![r] = "erase"]
    /\ UNCHANGED <<nvs, nvs_ready, flash_info, buffers, boot_mode, wifi, ap_state, http, lapses>>

ResetRestart(r) ==
    /\ resetter[r] = "restart"
    /\ Boot
    /\ lapses' = lapses

ResetStep(r) == ResetErase(r) \/ ResetRestart(r)

\* The OTA task and main_task save the record they share.
SaveRecord ==
    /\ MainRuns
    /\ WriteFlash(flash_info)
    /\ UNCHANGED <<creds, nvs_ready, flash_info, buffers, boot_mode, wifi, ap_state, http,
                   resetter>>

\* UART command n: read_flash, which writes a factory record where it finds none.
RereadFlash ==
    /\ resetter["uart"] = "idle"
    /\ nvs_ready
    /\ flash_info' = IF record = Absent THEN FactoryRecord ELSE record
    /\ record' \in {record, flash_info'}
    /\ lapses' = lapses \cup Blamed("reread", flash_info' # flash_info)
                        \cup Blamed("unsaved", record' # flash_info')
    /\ UNCHANGED <<creds, nvs_ready, buffers, boot_mode, wifi, ap_state, http, resetter>>

\* UART command a: from the station mode to the soft AP.
UartSoftAp ==
    /\ resetter["uart"] = "idle"
    /\ phase = "up"
    /\ phase' = "ap"
    /\ link' = "down"
    /\ UNCHANGED <<nvs, nvs_ready, flash_info, buffers, boot_mode, s_retry_num, ap_state, http,
                   resetter, lapses>>

\* The same command on the soft AP of the boot path, whose interface it does not
\* know: creating a second one fails an assertion.
UartSoftApAgain ==
    /\ resetter["uart"] = "idle"
    /\ phase = "ap" /\ boot_mode # "NORMAL"
    /\ Boot
    /\ Blame("partial", Saving)

\* UART command b: with a soft AP in use, esp_event_loop_create_default finds the
\* loop of the boot path and ESP_ERROR_CHECK aborts; otherwise nothing happens.
UartSoftApOff ==
    /\ resetter["uart"] = "idle"
    /\ phase = "ap" /\ ap_state
    /\ Boot
    /\ Blame("partial", Saving)

PowerCut ==
    /\ Boot
    /\ Blame("partial", Saving)

-----------------------------------------------------------------------------
Next ==
    \/ SoftAp \/ StartSta \/ Associate \/ GotIp \/ StaDisconnected \/ Unregister \/ LoseLink
    \/ StationJoins
    \/ \E req \in Requests : \E keys \in {LinkKeys, SetKeys} : Post(req, keys)
    \/ HttpStep
    \/ \E r \in Resetters : ResetInit(r) \/ ResetStep(r)
    \/ SaveRecord
    \/ RereadFlash
    \/ UartSoftAp \/ UartSoftApAgain \/ UartSoftApOff
    \/ PowerCut

Spec == Init /\ [][Next]_vars

\* The radio reports how every attempt to join the access point ends.
AttemptEnds == Associate \/ (link = "trying" /\ StaDisconnected)

\* A reset that has begun waits for nothing.  An address need never come: nobody asks
\* the network for it again in the code, or gives up.  The web server gets no fairness
\* either: a client that sends no body can hold it for ever, and nothing waits for it.
Fairness ==
    /\ WF_vars(AttemptEnds)
    /\ \A r \in Resetters : WF_vars(ResetStep(r))

FairSpec == Spec /\ Fairness

-----------------------------------------------------------------------------
(* Properties *)

\* A device that starts as a station has read every credential it needs from NVS
\* (the booting mode is saved before the credentials are).
NormalModeProvisioned ==
    phase \in {"wait", "handoff", "up"} /\ NoReset /\ lapses = {} =>
        \A k \in Keys : buffers[k] # None

\* The SSID and password in NVS belong together unless a handler is between the
\* two, although a later request overwrites them one by one.
WifiPairTogether ==
    lapses = {} /\ http.pc # "save" => creds["ap_ssid"] = creds["ap_password"]

\* A device in normal mode knows the MAC address that is part of its device id:
\* only the soft AP reads it, and no order of resets, restarts and saves separates
\* the booting mode from it, unless a record is re-read that a reset has erased.
NormalModeHasIdentity ==
    "reread" \notin lapses =>
        \A rec \in {record, flash_info} : rec.mode = "NORMAL" => rec.mac

\* After a factory reset the device starts as from the factory, although other
\* tasks keep saving records and credentials until the restart, unless two tasks
\* reset it at once.
ResetForgets ==
    [][\A r \in Resetters :
         ResetRestart(r) /\ "race" \notin lapses =>
            record' = FactoryRecord /\ creds' = NoCredentials]_vars

\* When the web server restarts the device, the posted credentials and the normal
\* mode are in NVS if the body named them and NVS took them, or a factory reset has begun.
PostTakesEffect ==
    [][HttpRestart /\ http.found = Len(http.keys) /\ {"reread", "unsaved"} \cap lapses = {}
       /\ NoReset =>
         /\ record.mode = "NORMAL"
         /\ \A i \in 1 .. Len(http.keys) : creds[http.keys[i]] = http.req]_vars

\* The record keeps its promises, although a task opens NVS again that another one
\* has erased.
Store == INSTANCE RecordStore WITH
             Values <- Record, Fresh <- FactoryRecord,
             volatile <- flash_info, durable <- record, open <- nvs_ready

ImplementsStore == Store!Spec

\* A device that waits for the network gets an address or restarts, whatever becomes of
\* its attempts to connect, unless it is connected for good to a network that never
\* gives it one: wifi_init_sta sets no limit to that wait.
StationBootEnds ==
    \/ phase = "wait" ~> phase # "wait"
    \/ <>[](phase = "wait" /\ link = "associated")

\* A factory reset that has begun ends with a restart.
ResetEnds == \A r \in Resetters : resetter[r] # "idle" ~> resetter[r] = "idle"
=============================================================================
