------------------------------ MODULE OtaUpdate ------------------------------
(***************************************************************************)
(* Firmware updates of the device: the MQTT task that receives a firmware  *)
(* message (customMQTTMsgReceive), the OTA tasks it creates                *)
(* (simple_ota_example_task), the main task that reports a failed update   *)
(* after the restart (main_task), and what they share: the RAM copy of the *)
(* application record (flash_info), its copy in NVS, the globals ota_url   *)
(* and ota_version, and the application slots of the flash.                *)
(*                                                                         *)
(* An offer stands for a firmware message: a URL together with the version *)
(* string of the image found there.  ota_url and ota_version are two       *)
(* globals written one after the other, so each is a variable.  An image   *)
(* is named by the offer that delivers it, or by Factory.                  *)
(***************************************************************************)
EXTENDS Integers, FiniteSets

CONSTANTS
    Offers,       \* the (URL, version) pairs a server can send
    Factory,      \* the image flashed at the factory, version "1.0"
    Blank,        \* the content of an erased piece of a slot
    Garbled,      \* the content of a piece written twice without an erasure between
    None,         \* an empty ota_url or ota_version
    Tasks,        \* identities of the OTA tasks FreeRTOS can create
    NumChunks,    \* pieces in which esp_https_ota writes an image
    MaxRetries,   \* max_retries of the OTA task (5)
    ReportTicks,  \* rounds of main_task before a failure is reported (20)
    MaxOffers, MaxCuts, MaxRereads, MaxErasures  \* bounds on the environment

ASSUME ImagesAssumption ==
    /\ Factory \notin Offers
    /\ Blank \notin Offers \cup {Factory}
    /\ Garbled \notin Offers \cup {Factory, Blank}
    /\ None \notin Offers \cup {Factory, Blank, Garbled}

ASSUME SizesAssumption ==
    /\ NumChunks \in Nat \ {0}
    /\ MaxRetries \in Nat \ {0}
    /\ ReportTicks \in Nat \ {0}

ASSUME BoundsAssumption ==
    /\ MaxOffers \in Nat
    /\ MaxCuts \in Nat
    /\ MaxRereads \in Nat
    /\ MaxErasures \in Nat

VARIABLES
    \* --- flash, kept across a restart ---
    slots,            \* content of the application partitions
    otadata,          \* the partition esp_ota_set_boot_partition selected
    nvs,              \* the "app_data_info" blob
    nvs_erased,       \* nvs_flash_erase was called and the device still runs
    \* --- RAM, lost in a restart ---
    running,          \* the partition this boot executes
    flash_info,       \* RAM copy of the application record
    ota_url,          \* global, read by the OTA tasks
    ota_version,      \* global, read by the OTA tasks
    online,           \* the MQTT client is connected
    rx,               \* progress of the MQTT task through a firmware message
    ota,              \* progress of each OTA task
    mqtt_start_flag,  \* set by MQTT_EVENT_CONNECTED, cleared by main_task
    task_count,       \* rounds of main_task since the start or last report
    reporter,         \* progress of main_task through a failure report
    \* --- history ---
    received,         \* offers received since the start
    owed,             \* an update was given up and not yet reported
    lapses,           \* the kinds of ill-timed events that happened so far
    spent             \* how much of each bound the environment used

flash == <<slots, otadata, nvs, nvs_erased>>
globals == <<flash_info, ota_url, ota_version>>
main == <<online, mqtt_start_flag, task_count, reporter>>
history == <<received, owed, lapses, spent>>
vars == <<flash, running, globals, rx, ota, main, history>>

-----------------------------------------------------------------------------
Images == Offers \cup {Factory}
Slots == {"factory", "ota_0", "ota_1"}
Chunks == 1 .. NumChunks
Contents == Images \cup {Blank, Garbled}
Lapses == {"overlap", "report", "offline", "cut", "reread", "erase", "unsaved"}

\* flash_info_t, reduced to ver_string and ota_mode_fail.
Record == [ver : Images \cup {None}, fail : BOOLEAN]
FactoryRecord == [ver |-> Factory, fail |-> FALSE]

TaskPCs == {"off", "attempt", "download", "write", "copy", "save", "inform",
            "giveup", "savefail", "restart"}
TaskStates == [pc : TaskPCs, retry_count : 0 .. MaxRetries,
               url : Offers \cup {None}, chunk : 0 .. NumChunks]
Off == [pc |-> "off", retry_count |-> 0, url |-> None, chunk |-> 0]

RxStates == [pc : {"idle", "url", "spawn"}, offer : Offers \cup {None}]
NoMessage == [pc |-> "idle", offer |-> None]

\* esp_image_verify: every piece belongs to the same image.
Complete(s) ==
    /\ slots[s][1] \in Images
    /\ \A c \in Chunks : slots[s][c] = slots[s][1]

\* Mutants, named ..._<fault>: definitions as a plausible bug would have them.
\* Runs substitute them one at a time to see the property it breaks fail.
TargetSlot_alwaysOta1 == "ota_1"

\* esp_ota_get_next_update_partition(NULL): never the running partition.
TargetSlot == IF running = "ota_0" THEN "ota_1" ELSE "ota_0"

BootSlot_unverified == otadata

\* The bootloader tries the selected partition, then those before it down to
\* the factory image (rollback is not configured).
BootSlot ==
    CASE Complete(otadata) -> otadata
      [] ~Complete(otadata) /\ otadata = "ota_1" /\ Complete("ota_0") -> "ota_0"
      [] OTHER -> "factory"

\* The image the bootloader would start now.
NextImage == slots[BootSlot][1]

Live(t) == ota[t].pc # "off"
SomeLive == \E t \in Tasks : Live(t)
Updating == SomeLive \/ rx.pc # "idle"
Reporting == reporter # "idle"

At(t, pc) == ota[t].pc = pc
Goto(t, pc) == ota' = [ota EXCEPT ![t].pc = pc]

Blame(kind, cond) == lapses' = lapses \cup {k \in {kind} : cond}
Spend(kind, max) ==
    /\ spent[kind] < max
    /\ spent' = [spent EXCEPT ![kind] = @ + 1]

TypeOK ==
    /\ slots \in [Slots -> [Chunks -> Contents]]
    /\ otadata \in Slots
    /\ nvs \in Record
    /\ nvs_erased \in BOOLEAN
    /\ running \in Slots
    /\ flash_info \in Record
    /\ ota_url \in Offers \cup {None}
    /\ ota_version \in Offers \cup {None}
    /\ online \in BOOLEAN
    /\ rx \in RxStates
    /\ ota \in [Tasks -> TaskStates]
    /\ mqtt_start_flag \in BOOLEAN
    /\ task_count \in 0 .. ReportTicks
    /\ reporter \in {"idle", "publish", "clear", "save", "rearm"}
    /\ received \subseteq Offers
    /\ owed \in BOOLEAN
    /\ lapses \subseteq Lapses
    /\ spent \in [{"offer", "cut", "reread", "erase"} -> Nat]

RamReset ==
    /\ ota_url' = None
    /\ ota_version' = None
    /\ rx' = NoMessage
    /\ ota' = [t \in Tasks |-> Off]
    /\ online' = FALSE
    /\ mqtt_start_flag' = FALSE
    /\ task_count' = 0
    /\ reporter' = "idle"
    /\ received' = {}

Init ==
    /\ slots = [s \in Slots |->
                  [c \in Chunks |-> IF s = "factory" THEN Factory ELSE Blank]]
    /\ otadata = "factory"
    /\ nvs = FactoryRecord
    /\ nvs_erased = FALSE
    /\ running = "factory"
    /\ flash_info = FactoryRecord
    /\ ota_url = None
    /\ ota_version = None
    /\ rx = NoMessage
    /\ ota = [t \in Tasks |-> Off]
    /\ online = FALSE
    /\ mqtt_start_flag = FALSE
    /\ task_count = 0
    /\ reporter = "idle"
    /\ received = {}
    /\ owed = FALSE
    /\ lapses = {}
    /\ spent = [k \in {"offer", "cut", "reread", "erase"} |-> 0]

\* A restart, planned or not: the bootloader chooses the slot and
\* damda_nvs_init reads the record back, or writes the factory record when
\* NVS holds none.  When it finds NVS without a free page it erases it first:
\* that is EraseNvs, followed at once by the restart.
Boot ==
    /\ running' = BootSlot
    /\ nvs' = IF nvs_erased THEN FactoryRecord ELSE nvs
    /\ flash_info' = nvs'
    /\ nvs_erased' = FALSE
    /\ RamReset
    /\ UNCHANGED <<slots, otadata>>

\* write_flash: nvs_open fails once NVS was erased and deinitialised, nvs_set_blob
\* or nvs_commit when NVS has no room.  The caller learns of neither.
WriteFlash(rec) ==
    /\ nvs' \in {nvs} \cup {r \in {rec} : ~nvs_erased}
    /\ Blame("unsaved", ~nvs_erased /\ nvs' # rec)
    /\ UNCHANGED <<slots, otadata, nvs_erased>>

-----------------------------------------------------------------------------
(* The MQTT task *)

\* MQTT_EVENT_CONNECTED and MQTT_EVENT_DISCONNECTED: mqtt_start_flag is not
\* taken back when the connection is lost.
MqttConnected ==
    /\ ~online
    /\ online' = TRUE
    /\ mqtt_start_flag' = TRUE
    /\ UNCHANGED <<flash, running, globals, rx, ota, task_count, reporter, history>>

MqttDisconnected ==
    /\ online
    /\ online' = FALSE
    /\ UNCHANGED <<flash, running, globals, rx, ota, mqtt_start_flag, task_count,
                   reporter, history>>

\* A firmware message arrives; the callback copies its version first.
FirmwareMessage(o) ==
    /\ online
    /\ rx.pc = "idle"
    /\ Spend("offer", MaxOffers)
    /\ rx' = [pc |-> "url", offer |-> o]
    /\ ota_version' = o
    /\ received' = received \cup {o}
    /\ lapses' = lapses \cup {k \in {"overlap"} : SomeLive}
                        \cup {k \in {"report"} : Reporting}
    /\ UNCHANGED <<flash, running, flash_info, ota_url, ota, main, owed>>

CopyUrl ==
    /\ rx.pc = "url"
    /\ ota_url' = rx.offer
    /\ rx' = [rx EXCEPT !.pc = "spawn"]
    /\ UNCHANGED <<flash, running, flash_info, ota_version, ota, main, history>>

\* ota_task_init ignores the result of xTaskCreate: with no memory left the
\* acknowledged update is forgotten.
OtaTaskInit ==
    /\ rx.pc = "spawn"
    /\ rx' = NoMessage
    /\ \/ \E t \in Tasks : ~Live(t) /\ Goto(t, "attempt")
       \/ ota' = ota
    /\ UNCHANGED <<flash, running, globals, main, history>>

-----------------------------------------------------------------------------
(* An OTA task; esp_https_ota is "attempt", then "download" and "write" in turn *)

\* esp_https_ota opens the connection: config.url points at the global.
Attempt(t) ==
    /\ At(t, "attempt")
    /\ ota' = [ota EXCEPT ![t] = [pc |-> "download", retry_count |-> ota[t].retry_count,
                                  url |-> ota_url, chunk |-> 0]]
    /\ UNCHANGED <<flash, running, globals, rx, main, history>>

\* esp_ota_write erases a sector when the download reaches it, also in a partition
\* that another task has selected meanwhile.
EraseChunk(t) ==
    /\ At(t, "download")
    /\ ota[t].chunk < NumChunks
    /\ slots' = [slots EXCEPT ![TargetSlot][ota[t].chunk + 1] = Blank]
    /\ Goto(t, "write")
    /\ UNCHANGED <<otadata, nvs, nvs_erased, running, globals, rx, main, history>>

\* Flash that was not erased since takes the same content again and no other.
Written(old, new) == IF old \in {Blank, new} THEN new ELSE Garbled

WriteChunk(t) ==
    /\ At(t, "write")
    /\ LET c == ota[t].chunk + 1
       IN  /\ slots' = [slots EXCEPT ![TargetSlot][c] = Written(@, ota[t].url)]
           /\ ota' = [ota EXCEPT ![t].pc = "download", ![t].chunk = c]
    /\ UNCHANGED <<otadata, nvs, nvs_erased, running, globals, rx, main, history>>

Finish_notSelected(t) ==
    /\ At(t, "download")
    /\ ota[t].chunk = NumChunks
    /\ Complete(TargetSlot)
    /\ Goto(t, "copy")
    /\ UNCHANGED <<flash, running, globals, rx, main, history>>

\* The image is complete and valid: select it for the next boot.
Finish(t) ==
    /\ At(t, "download")
    /\ ota[t].chunk = NumChunks
    /\ Complete(TargetSlot)
    /\ otadata' = TargetSlot
    /\ Goto(t, "copy")
    /\ UNCHANGED <<slots, nvs, nvs_erased, running, globals, rx, main, history>>

AttemptFails_notCounted(t) ==
    /\ ota[t].pc \in {"attempt", "download", "write"}
    /\ ota' = [ota EXCEPT ![t] = [@ EXCEPT !.pc = "attempt", !.url = None, !.chunk = 0]]
    /\ UNCHANGED <<flash, running, globals, rx, main, history>>

\* Any error of esp_https_ota but a partition conflict: wait and retry.
AttemptFails(t) ==
    /\ ota[t].pc \in {"attempt", "download", "write"}
    /\ LET n == ota[t].retry_count + 1
       IN  ota' = [ota EXCEPT ![t] = [pc |-> IF n < MaxRetries THEN "attempt" ELSE "giveup",
                                      retry_count |-> n, url |-> None, chunk |-> 0]]
    /\ UNCHANGED <<flash, running, globals, rx, main, history>>

PartitionConflict(t) ==
    /\ At(t, "attempt")
    /\ Goto(t, "giveup")
    /\ UNCHANGED <<flash, running, globals, rx, main, history>>

CopyVersion_skipped(t) ==
    /\ At(t, "copy")
    /\ Goto(t, "save")
    /\ UNCHANGED <<flash, running, globals, rx, main, history>>

CopyVersion(t) ==
    /\ At(t, "copy")
    /\ flash_info' = [flash_info EXCEPT !.ver = ota_version]
    /\ Goto(t, "save")
    /\ UNCHANGED <<flash, running, ota_url, ota_version, rx, main, history>>

SaveVersion_versionOnly(t) ==
    /\ At(t, "save")
    /\ WriteFlash([nvs EXCEPT !.ver = flash_info.ver])
    /\ Goto(t, "inform")
    /\ UNCHANGED <<running, globals, rx, main, received, owed, spent>>

SaveVersion(t) ==
    /\ At(t, "save")
    /\ WriteFlash(flash_info)
    /\ Goto(t, "inform")
    /\ UNCHANGED <<running, globals, rx, main, received, owed, spent>>

\* damda_Req_UpdateDeviceInfo sends flash_info.ver to the server.
Inform(t) ==
    /\ At(t, "inform")
    /\ Goto(t, "restart")
    /\ UNCHANGED <<flash, running, globals, rx, main, history>>

GiveUp_flagNotSet(t) ==
    /\ At(t, "giveup")
    /\ Goto(t, "savefail")
    /\ owed' = TRUE
    /\ UNCHANGED <<flash, running, globals, rx, main, received, lapses, spent>>

GiveUp(t) ==
    /\ At(t, "giveup")
    /\ flash_info' = [flash_info EXCEPT !.fail = TRUE]
    /\ Goto(t, "savefail")
    /\ owed' = TRUE
    /\ UNCHANGED <<flash, running, ota_url, ota_version, rx, main, received, lapses, spent>>

SaveFail_notWritten(t) ==
    /\ At(t, "savefail")
    /\ Goto(t, "restart")
    /\ UNCHANGED <<flash, running, globals, rx, main, history>>

SaveFail(t) ==
    /\ At(t, "savefail")
    /\ WriteFlash(flash_info)
    /\ Goto(t, "restart")
    /\ UNCHANGED <<running, globals, rx, main, received, owed, spent>>

Restart(t) ==
    /\ At(t, "restart")
    /\ Boot
    /\ UNCHANGED <<owed, lapses, spent>>

OtaStep(t) ==
    \/ Attempt(t) \/ EraseChunk(t) \/ WriteChunk(t) \/ Finish(t) \/ AttemptFails(t)
    \/ PartitionConflict(t) \/ CopyVersion(t) \/ SaveVersion(t) \/ Inform(t)
    \/ GiveUp(t) \/ SaveFail(t) \/ Restart(t)

-----------------------------------------------------------------------------
(* main_task: a round every 200 s *)

Round == IF task_count < ReportTicks THEN task_count + 1 ELSE task_count
ReportDue == mqtt_start_flag /\ flash_info.fail /\ Round >= ReportTicks

MainRound ==
    /\ reporter = "idle"
    /\ task_count' = Round
    /\ reporter' = IF ReportDue THEN "publish" ELSE "idle"
    /\ Blame("report", ReportDue /\ Updating)
    /\ UNCHANGED <<flash, running, globals, rx, ota, online, mqtt_start_flag, received, owed,
                   spent>>

\* OTA_upgrade_fail: obtain_time, then notify /5/0/5 = "8".  Without a connection
\* the message waits in the client's outbox, where it can expire.
PublishFailure ==
    /\ reporter = "publish"
    /\ reporter' = "clear"
    /\ \/ owed' = FALSE /\ lapses' = lapses
       \/ ~online /\ owed' = owed /\ lapses' = lapses \cup {"offline"}
    /\ UNCHANGED <<flash, running, globals, rx, ota, online, mqtt_start_flag, task_count,
                   received, spent>>

ClearFailure ==
    /\ reporter = "clear"
    /\ flash_info' = [flash_info EXCEPT !.fail = FALSE]
    /\ reporter' = "save"
    /\ UNCHANGED <<flash, running, ota_url, ota_version, rx, ota, online, mqtt_start_flag,
                   task_count, history>>

SaveCleared_notWritten ==
    /\ reporter = "save"
    /\ reporter' = "rearm"
    /\ UNCHANGED <<flash, running, globals, rx, ota, online, mqtt_start_flag, task_count, history>>

SaveCleared ==
    /\ reporter = "save"
    /\ WriteFlash(flash_info)
    /\ reporter' = "rearm"
    /\ UNCHANGED <<running, globals, rx, ota, online, mqtt_start_flag, task_count,
                   received, owed, spent>>

Rearm ==
    /\ reporter = "rearm"
    /\ mqtt_start_flag' = FALSE
    /\ task_count' = 0
    /\ reporter' = "idle"
    /\ UNCHANGED <<flash, running, globals, rx, ota, online, history>>

ReporterStep == PublishFailure \/ ClearFailure \/ SaveCleared \/ Rearm

-----------------------------------------------------------------------------
(* The user and the power supply *)

\* UART command 'n' reads the record back over the RAM copy, which may hold something
\* that is not saved yet, or whose saving failed.
RereadFlash ==
    /\ Spend("reread", MaxRereads)
    /\ flash_info' = IF nvs_erased THEN flash_info ELSE nvs
    /\ Blame("reread", flash_info' # flash_info)
    /\ UNCHANGED <<flash, running, ota_url, ota_version, rx, ota, main, received, owed>>

\* A factory reset: UART command 'o', a delete request, an unknown device, or
\* a broker that keeps refusing the connection.  The device restarts soon after.
EraseNvs ==
    /\ ~nvs_erased
    /\ Spend("erase", MaxErasures)
    /\ nvs_erased' = TRUE
    /\ lapses' = lapses \cup {"erase"}
    /\ UNCHANGED <<slots, otadata, nvs, running, globals, rx, ota, main, received, owed>>

ResetRestart ==
    /\ nvs_erased
    /\ Boot
    /\ UNCHANGED <<owed, lapses, spent>>

PowerCut ==
    /\ Spend("cut", MaxCuts)
    /\ Boot
    /\ Blame("cut", \/ \E t \in Tasks : ota[t].pc \in {"copy", "save", "savefail"}
                    \/ reporter \in {"clear", "save"})
    /\ UNCHANGED owed

-----------------------------------------------------------------------------
Next ==
    \/ MqttConnected
    \/ MqttDisconnected
    \/ \E o \in Offers : FirmwareMessage(o)
    \/ CopyUrl
    \/ OtaTaskInit
    \/ \E t \in Tasks : OtaStep(t)
    \/ MainRound
    \/ ReporterStep
    \/ RereadFlash
    \/ EraseNvs
    \/ ResetRestart
    \/ PowerCut

Spec == Init /\ [][Next]_vars

\* Every task that can run is scheduled; esp_https_ota and obtain_time end by
\* their timeouts; the broker accepts a connection in the end.
Fairness ==
    /\ WF_vars(CopyUrl \/ OtaTaskInit)
    /\ \A t \in Tasks : WF_vars(OtaStep(t))
    /\ WF_vars(MainRound)
    /\ WF_vars(ReporterStep)
    /\ WF_vars(MqttConnected)
    /\ WF_vars(ResetRestart)

FairSpec == Spec /\ Fairness

-----------------------------------------------------------------------------
(* Properties *)

\* The partition that executes holds one complete image, and the factory
\* partition holds the factory image: whatever the OTA tasks do to each other
\* and wherever power fails, there is an image to start.
AlwaysBootable ==
    /\ Complete(running)
    /\ \A c \in Chunks : slots["factory"][c] = Factory

\* No step writes into the partition the device executes from (TargetSlot is
\* recomputed by every OTA task, while others run and after any fallback).
RunningImageIntact == [][slots'[running] = slots[running]]_vars

\* The version stored in NVS is the version of the image the bootloader would
\* start, outside the window between selecting the new image and storing its
\* version, as long as updates do not overlap, power does not fail inside that
\* window, the record is not re-read over an unsaved one, NVS is not erased and
\* takes what is written.
RecordMatchesImage ==
    lapses \cap {"overlap", "cut", "reread", "erase", "unsaved"} = {}
    /\ (\A t \in Tasks : ota[t].pc \notin {"copy", "save"})
    => nvs.ver = NextImage

\* A given-up update is not forgotten before it is reported: its failure flag is
\* in NVS once the task that gave up has stored it.
FailureNotLost ==
    owed /\ lapses = {} /\ (\A t \in Tasks : ~At(t, "savefail")) => nvs.fail

\* A failure is reported only when an update failed since the last report.
NoSpuriousReport ==
    [][PublishFailure /\ lapses = {} => owed]_vars

\* The version the OTA task announces to the server after its download is the
\* version of the image that will start: "Send Updated device information after
\* successful FOTA".
InformsInstalledVersion ==
    [][\A t \in Tasks : Inform(t) => flash_info.ver = NextImage]_vars

\* The same, as far as the code keeps it: while no offer arrives during an update,
\* whatever went wrong before the last restart.  With the same offer again (a firmware
\* message that is delivered twice, or that the server repeats) it depends on the other
\* tasks: a second download erases the partition the first one has selected, piece by
\* piece, and until it has written it again the device would start another image.
\* Unless that is so at that moment the version is right, however many tasks write the
\* partition, and NVS holds it if the last write succeeded.
InformsInstalledVersionAlone ==
    [][\A t \in Tasks :
         /\ Inform(t)
         /\ "reread" \notin lapses
         /\ \/ "overlap" \notin lapses
            \/ (\E o \in Offers : received = {o}) /\ Complete(otadata)
         => /\ flash_info.ver = NextImage
            /\ nvs_erased \/ "unsaved" \in lapses \/ nvs.ver = NextImage]_vars

\* An update ends: every OTA task reaches the restart, within its retries.
UpdateEnds == \A t \in Tasks : Live(t) ~> ~Live(t)

\* A given-up update is reported in the end, across restarts, unless an
\* ill-timed event intervened.
FailureReported == owed ~> (~owed \/ lapses # {})

\* The partitions, tasks and globals implement the contract: the image that
\* executes is the one in the running partition, the next one is what the
\* bootloader would choose.
Contract == INSTANCE UpdateContract WITH
                image <- slots[running][1],
                next <- NextImage,
                offered <- received

ImplementsContract == Contract!Spec

\* The record: NVS holds none between its erasure and the restart.
Store == INSTANCE RecordStore WITH
             Values <- Record,
             Fresh <- FactoryRecord,
             Absent <- [ver |-> Blank, fail |-> FALSE],
             volatile <- flash_info,
             durable <- IF nvs_erased THEN [ver |-> Blank, fail |-> FALSE] ELSE nvs,
             open <- ~nvs_erased

\* The record keeps its promises, whichever tasks change and save it.
ImplementsStore == Store!Spec
=============================================================================
