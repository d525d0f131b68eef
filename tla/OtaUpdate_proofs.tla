--------------------------- MODULE OtaUpdate_proofs ---------------------------
(***************************************************************************)
(* Proofs about OtaUpdate, for every number of offers, OTA tasks, pieces,  *)
(* retries and environment events.                                         *)
(*                                                                         *)
(*   TypeInv     type correctness, with what it needs: a task that reads   *)
(*               ota_url finds an offer there                              *)
(*   FlashInv    the running partition is complete and never written       *)
(*   UpdateInv   a lone update: what one task downloads is what it records *)
(*   RecordInv   the stored version is that of the selected partition      *)
(*   SameOfferInv  several tasks that install the same offer               *)
(*   FailInv     the failure flag, in RAM and NVS, follows what is owed    *)
(*                                                                         *)
(* UpdateCounts gives the number of steps an update can take.              *)
(***************************************************************************)
EXTENDS OtaUpdate, TLAPS

\* Within esp_https_ota: the image arrives, piece by piece.
Downloading(t) == ota[t].pc \in {"download", "write"}

\* What rx and ota_url hold when somebody is about to read them.
UrlsInv ==
    /\ ota_url \in received \cup {None}
    /\ rx.pc # "idle" => rx.offer \in received
    /\ rx.pc = "spawn" \/ SomeLive => ota_url \in received
    /\ rx.pc # "idle" \/ SomeLive => ota_version \in received
    /\ \A t \in Tasks : Downloading(t) => ota[t].url \in received
    /\ \A t \in Tasks : At(t, "write") => ota[t].chunk < NumChunks
    /\ \A t \in Tasks : ota[t].pc \in {"off", "attempt", "download", "write"} =>
         ota[t].retry_count < MaxRetries

TypeInv == TypeOK /\ UrlsInv

\* The partition selected, the one that runs and the one being written.
FlashInv ==
    /\ AlwaysBootable
    /\ otadata = "ota_1" => running # "factory"
    /\ \A t \in Tasks : Downloading(t) =>
         \A c \in 1 .. ota[t].chunk : slots[TargetSlot][c] \in received \cup {Blank, Garbled}

Installed(t) == ota[t].pc \in {"copy", "save", "inform", "restart"}

Alone == lapses \cap {"overlap", "reread"} = {}

LoneUpdate ==
    /\ \A t, u \in Tasks : Live(t) /\ Live(u) => t = u
    /\ rx.pc # "idle" => ~SomeLive /\ ota_version = rx.offer
    /\ rx.pc = "spawn" => ota_url = ota_version
    /\ \A t \in Tasks : ota[t].pc \in {"attempt", "download", "write"} => ota_url = ota_version
    /\ \A t \in Tasks : Downloading(t) =>
         /\ ota[t].url = ota_version
         /\ \A c \in 1 .. ota[t].chunk : slots[TargetSlot][c] = ota_version
    /\ \A t \in Tasks : At(t, "write") => slots[TargetSlot][ota[t].chunk + 1] = Blank
    /\ Complete(otadata)
    /\ (\A t \in Tasks : ~Installed(t)) => otadata = running
    /\ \A t \in Tasks : At(t, "copy") => slots[otadata][1] = ota_version
    /\ \A t \in Tasks : ota[t].pc \in {"save", "inform"} =>
         flash_info.ver = slots[otadata][1]
    /\ \A t \in Tasks : At(t, "inform") =>
         nvs_erased \/ "unsaved" \in lapses \/ nvs.ver = flash_info.ver

UpdateInv == Alone => LoneUpdate

Kept == lapses \cap {"overlap", "cut", "reread", "erase", "unsaved"} = {}

RecordKept ==
    /\ ~nvs_erased
    /\ (\A t \in Tasks : ota[t].pc \notin {"copy", "save"}) =>
         /\ nvs.ver = slots[otadata][1]
         /\ flash_info.ver = slots[otadata][1]

RecordInv == Kept => RecordKept

FailKept ==
    /\ Reporting => ~Updating
    /\ \A t \in Tasks : At(t, "savefail") => owed /\ flash_info.fail
    /\ reporter = "publish" => owed
    /\ reporter \in {"clear", "save"} => ~owed
    /\ reporter = "save" => ~flash_info.fail
    /\ (\A t \in Tasks : ~At(t, "savefail")) /\ reporter \notin {"clear", "save"} =>
         (flash_info.fail <=> owed) /\ (nvs.fail <=> owed)

FailInv == lapses = {} => FailKept

-----------------------------------------------------------------------------
(* Type correctness *)

\* A chosen value is among the slots.
LEMMA BootSlotType ==
    ASSUME TypeOK
    PROVE  BootSlot \in Slots /\ TargetSlot \in {"ota_0", "ota_1"}
  BY DEF TypeOK, BootSlot, TargetSlot, Slots

\* A task that does not run, and the absence of a message, are values of
\* the types declared for them.
LEMMA OffType == Off \in TaskStates /\ NoMessage \in RxStates
  BY SizesAssumption DEF Off, TaskStates, TaskPCs, NoMessage, RxStates

\* Every field of a task state can be replaced by a value of its type.
LEMMA TaskStateUpdate ==
    ASSUME TypeOK, NEW t \in Tasks, NEW s \in TaskStates
    PROVE  [ota EXCEPT ![t] = s] \in [Tasks -> TaskStates]
  BY DEF TypeOK

\* Moving a task to another point of simple_ota_example_task keeps its type.
LEMMA GotoType ==
    ASSUME TypeOK, NEW t \in Tasks, NEW pc \in TaskPCs
    PROVE  [ota EXCEPT ![t].pc = pc] \in [Tasks -> TaskStates]
  BY DEF TypeOK, TaskStates

\* Records of NVS and RAM keep their type when one field is replaced.
LEMMA RecordType ==
    /\ FactoryRecord \in Record
    /\ \A r \in Record, v \in Images \cup {None}, b \in BOOLEAN :
          /\ [r EXCEPT !.ver = v] \in Record
          /\ [r EXCEPT !.fail = b] \in Record
  BY DEF FactoryRecord, Record, Images

\* The device as it leaves the factory satisfies the type invariant.
LEMMA InitTypeInv == Init => TypeInv
  <1> SUFFICES ASSUME Init PROVE TypeInv
    OBVIOUS
  <1>1. slots \in [Slots -> [Chunks -> Contents]]
    BY DEF Init, Contents, Images
  <1>2. ota \in [Tasks -> TaskStates]
    BY OffType DEF Init
  <1>3. task_count \in 0 .. ReportTicks
    BY SizesAssumption DEF Init
  <1>4. spent \in [{"offer", "cut", "reread", "erase"} -> Nat]
    BY DEF Init
  <1>5. TypeOK
    BY <1>1, <1>2, <1>3, <1>4, RecordType, OffType
       DEF Init, TypeOK, Slots
  <1>6. UrlsInv
    BY SizesAssumption DEF Init, UrlsInv, SomeLive, Live, At, Downloading, Off, NoMessage
  <1> QED
    BY <1>5, <1>6 DEF TypeInv

\* A restart leaves no task and no message in progress.
LEMMA BootTypeInv ==
    ASSUME TypeInv, Boot,
           UNCHANGED owed, lapses' \subseteq Lapses,
           spent' \in [{"offer", "cut", "reread", "erase"} -> Nat]
    PROVE  TypeInv'
  <1>1. BootSlot \in Slots
    BY BootSlotType DEF TypeInv
  <1>2. nvs' \in Record /\ flash_info' \in Record
    BY RecordType DEF TypeInv, TypeOK, Boot
  <1>3. ota' \in [Tasks -> TaskStates]
    BY OffType DEF Boot, RamReset
  <1>4. TypeOK'
    <2>1. task_count' \in 0 .. ReportTicks
      BY SizesAssumption DEF Boot, RamReset
    <2>2. running' \in Slots /\ slots' = slots /\ otadata' = otadata
      BY <1>1 DEF Boot
    <2> QED
      BY <1>2, <1>3, <2>1, <2>2, OffType DEF TypeInv, TypeOK, Boot, RamReset
  <1>5. UrlsInv'
    BY SizesAssumption
       DEF Boot, RamReset, UrlsInv, SomeLive, Live, At, Downloading, Off, NoMessage
  <1> QED
    BY <1>4, <1>5 DEF TypeInv

\* write_flash changes nothing but the stored record, and that to one of its type.
LEMMA WriteFlashType ==
    ASSUME TypeOK, WriteFlash(flash_info)
    PROVE  nvs' \in Record /\ lapses' \subseteq Lapses
  BY DEF TypeOK, WriteFlash, Blame, Lapses

\* Every step of an OTA task keeps the type invariant.
LEMMA OtaStepTypeInv ==
    ASSUME TypeInv, NEW t \in Tasks, OtaStep(t)
    PROVE  TypeInv'
  <1> USE DEF TypeInv, TypeOK, flash, globals, main, history
  <1>1. CASE Attempt(t)
    <2>1. [pc |-> "download", retry_count |-> ota[t].retry_count,
           url |-> ota_url, chunk |-> 0] \in TaskStates
      BY SizesAssumption DEF TaskStates, TaskPCs
    <2>2. ota' \in [Tasks -> TaskStates]
      BY <1>1, <2>1, TaskStateUpdate DEF Attempt
    <2>3. UrlsInv'
      BY <1>1 DEF Attempt, UrlsInv, SomeLive, Live, At, Downloading
    <2> QED
      BY <1>1, <2>2, <2>3 DEF Attempt
  <1>2. CASE WriteChunk(t)
    <2>1. TargetSlot \in Slots
      BY BootSlotType DEF Slots
    <2>2. ota[t].chunk + 1 \in Chunks /\ ota[t].chunk + 1 \in 0 .. NumChunks
      BY <1>2, SizesAssumption DEF WriteChunk, Chunks, TaskStates, UrlsInv, At
    <2>3. \A old \in Contents : Written(old, ota[t].url) \in Contents
      BY <1>2 DEF WriteChunk, Written, Contents, Images, UrlsInv, At, Downloading
    <2>4. slots' \in [Slots -> [Chunks -> Contents]]
      BY <1>2, <2>1, <2>2, <2>3 DEF WriteChunk
    <2>5. ota' \in [Tasks -> TaskStates]
      BY <1>2, <2>2 DEF WriteChunk, TaskStates, TaskPCs
    <2>6. UrlsInv'
      BY <1>2 DEF WriteChunk, UrlsInv, SomeLive, Live, At, Downloading, TaskStates
    <2> QED
      BY <1>2, <2>4, <2>5, <2>6 DEF WriteChunk
  <1>12. CASE EraseChunk(t)
    <2>1. TargetSlot \in Slots /\ Blank \in Contents
      BY BootSlotType DEF Slots, Contents
    <2>2. slots' \in [Slots -> [Chunks -> Contents]]
      BY <1>12, <2>1 DEF EraseChunk
    <2>3. ota' \in [Tasks -> TaskStates]
      BY <1>12, GotoType DEF EraseChunk, Goto, TaskPCs
    <2>4. UrlsInv'
      BY <1>12 DEF EraseChunk, Goto, UrlsInv, SomeLive, Live, At, Downloading, TaskStates
    <2> QED
      BY <1>12, <2>2, <2>3, <2>4 DEF EraseChunk
  <1>4. CASE AttemptFails(t)
    <2> DEFINE n == ota[t].retry_count + 1
               s == [pc |-> IF n < MaxRetries THEN "attempt" ELSE "giveup",
                     retry_count |-> n, url |-> None, chunk |-> 0]
    <2>1. n \in 0 .. MaxRetries
      BY <1>4, SizesAssumption DEF AttemptFails, UrlsInv, TaskStates
    <2>2. s \in TaskStates
      BY <2>1, SizesAssumption DEF TaskStates, TaskPCs
    <2>3. ota' = [ota EXCEPT ![t] = s]
      BY <1>4 DEF AttemptFails
    <2>4. n < MaxRetries <=> s.pc = "attempt"
      OBVIOUS
    <2>5. s.pc \in {"attempt", "giveup"} /\ s.retry_count = n
      OBVIOUS
    <2> HIDE DEF n, s
    <2>6. ota' \in [Tasks -> TaskStates]
      BY <2>2, <2>3, TaskStateUpdate
    <2>7. UrlsInv'
      BY <1>4, <2>3, <2>4, <2>5 DEF AttemptFails, UrlsInv, SomeLive, Live, At, Downloading
    <2> QED
      BY <1>4, <2>6, <2>7 DEF AttemptFails
  <1>3. CASE Finish(t)
    <2>1. ota' \in [Tasks -> TaskStates]
      BY <1>3, GotoType DEF Finish, Goto, TaskPCs
    <2>2. UrlsInv'
      BY <1>3 DEF Finish, Goto, UrlsInv, SomeLive, Live, At, Downloading
    <2>3. TargetSlot \in Slots
      BY BootSlotType DEF Slots
    <2> QED
      BY <1>3, <2>1, <2>2, <2>3 DEF Finish
  <1>5. CASE PartitionConflict(t)
    <2>1. ota' \in [Tasks -> TaskStates]
      BY <1>5, GotoType DEF PartitionConflict, Goto, TaskPCs
    <2>2. UrlsInv'
      BY <1>5 DEF PartitionConflict, Goto, UrlsInv, SomeLive, Live, At, Downloading
    <2> QED
      BY <1>5, <2>1, <2>2 DEF PartitionConflict
  <1>6. CASE CopyVersion(t)
    <2>1. ota' \in [Tasks -> TaskStates]
      BY <1>6, GotoType DEF CopyVersion, Goto, TaskPCs
    <2>2. UrlsInv'
      BY <1>6 DEF CopyVersion, Goto, UrlsInv, SomeLive, Live, At, Downloading
    <2>3. flash_info' \in Record
      BY <1>6, RecordType DEF CopyVersion, Images
    <2> QED
      BY <1>6, <2>1, <2>2, <2>3 DEF CopyVersion
  <1>7. CASE SaveVersion(t)
    <2>1. ota' \in [Tasks -> TaskStates]
      BY <1>7, GotoType DEF SaveVersion, Goto, TaskPCs
    <2>2. UrlsInv'
      BY <1>7 DEF SaveVersion, Goto, UrlsInv, SomeLive, Live, At, Downloading, WriteFlash
    <2> QED
      BY <1>7, <2>1, <2>2, WriteFlashType DEF SaveVersion, WriteFlash
  <1>8. CASE Inform(t)
    <2>1. ota' \in [Tasks -> TaskStates]
      BY <1>8, GotoType DEF Inform, Goto, TaskPCs
    <2>2. UrlsInv'
      BY <1>8 DEF Inform, Goto, UrlsInv, SomeLive, Live, At, Downloading
    <2> QED
      BY <1>8, <2>1, <2>2 DEF Inform
  <1>9. CASE GiveUp(t)
    <2>1. ota' \in [Tasks -> TaskStates]
      BY <1>9, GotoType DEF GiveUp, Goto, TaskPCs
    <2>2. UrlsInv'
      BY <1>9 DEF GiveUp, Goto, UrlsInv, SomeLive, Live, At, Downloading
    <2>3. flash_info' \in Record
      BY <1>9, RecordType DEF GiveUp
    <2> QED
      BY <1>9, <2>1, <2>2, <2>3 DEF GiveUp
  <1>10. CASE SaveFail(t)
    <2>1. ota' \in [Tasks -> TaskStates]
      BY <1>10, GotoType DEF SaveFail, Goto, TaskPCs
    <2>2. UrlsInv'
      BY <1>10 DEF SaveFail, Goto, UrlsInv, SomeLive, Live, At, Downloading, WriteFlash
    <2> QED
      BY <1>10, <2>1, <2>2, WriteFlashType DEF SaveFail, WriteFlash
  <1>11. CASE Restart(t)
    BY <1>11, BootTypeInv DEF Restart
  <1> QED
    BY <1>1, <1>2, <1>3, <1>4, <1>5, <1>6, <1>7, <1>8, <1>9, <1>10, <1>11, <1>12 DEF OtaStep

\* Every step of the system keeps the type invariant.
LEMMA NextTypeInv == TypeInv /\ [Next]_vars => TypeInv'
  <1> SUFFICES ASSUME TypeInv, [Next]_vars PROVE TypeInv'
    OBVIOUS
  <1> USE DEF TypeInv, TypeOK, flash, globals, main, history
  <1>1. CASE MqttConnected
    BY <1>1 DEF MqttConnected, UrlsInv, SomeLive, Live, At, Downloading
  <1>2. CASE MqttDisconnected
    BY <1>2 DEF MqttDisconnected, UrlsInv, SomeLive, Live, At, Downloading
  <1>3. ASSUME NEW o \in Offers, FirmwareMessage(o) PROVE TypeInv'
    <2>1. rx' \in RxStates /\ rx'.offer = o
      BY <1>3 DEF FirmwareMessage, RxStates
    <2>2. spent' \in [{"offer", "cut", "reread", "erase"} -> Nat]
      BY <1>3 DEF FirmwareMessage, Spend
    <2>3. lapses' \subseteq Lapses /\ received' \subseteq Offers
      BY <1>3 DEF FirmwareMessage, Lapses
    <2>4. UrlsInv'
      BY <1>3, <2>1 DEF FirmwareMessage, UrlsInv, SomeLive, Live, At, Downloading
    <2> QED
      BY <1>3, <2>1, <2>2, <2>3, <2>4 DEF FirmwareMessage
  <1>4. CASE CopyUrl
    BY <1>4 DEF CopyUrl, UrlsInv, SomeLive, Live, At, Downloading, RxStates
  <1>5. CASE OtaTaskInit
    <2>1. rx' \in RxStates /\ rx'.pc = "idle"
      BY <1>5, OffType DEF OtaTaskInit, NoMessage
    <2>2. ota' \in [Tasks -> TaskStates]
      <3>1. "attempt" \in TaskPCs
        BY DEF TaskPCs
      <3>2. \A t \in Tasks : Goto(t, "attempt") => ota' \in [Tasks -> TaskStates]
        BY <3>1, GotoType DEF Goto
      <3>3. ota' = ota => ota' \in [Tasks -> TaskStates]
        OBVIOUS
      <3> QED
        BY <1>5, <3>2, <3>3 DEF OtaTaskInit
    <2>3. ota_url \in received /\ ota_version \in received
      BY <1>5 DEF OtaTaskInit, UrlsInv
    <2>4. UrlsInv'
      <3>1. CASE ota' = ota
        BY <1>5, <2>1, <2>3, <3>1 DEF OtaTaskInit, UrlsInv, SomeLive, Live, At, Downloading
      <3>2. ASSUME NEW t \in Tasks, ~Live(t), Goto(t, "attempt")
            PROVE  UrlsInv'
        <4>1. \A u \in Tasks : ota'[u].pc \in {"download", "write"} => ota'[u] = ota[u]
          BY <3>2 DEF Goto
        <4>2. \A u \in Tasks : ota'[u].pc \in {"off", "attempt", "download", "write"} =>
                ota[u].pc \in {"off", "attempt", "download", "write"}
                /\ ota'[u].retry_count = ota[u].retry_count
          BY <3>2 DEF Goto, Live
        <4> QED
          BY <1>5, <2>1, <2>3, <4>1, <4>2 DEF OtaTaskInit, UrlsInv, At, Downloading
      <3> QED
        BY <1>5, <3>1, <3>2 DEF OtaTaskInit
    <2> QED
      BY <1>5, <2>1, <2>2, <2>4 DEF OtaTaskInit
  <1>6. ASSUME NEW t \in Tasks, OtaStep(t) PROVE TypeInv'
    BY <1>6, OtaStepTypeInv
  <1>7. CASE MainRound
    <2>1. task_count' \in 0 .. ReportTicks
      BY <1>7, SizesAssumption DEF MainRound, Round
    <2>2. lapses' \subseteq Lapses
      BY <1>7 DEF MainRound, Blame, Lapses
    <2> QED
      BY <1>7, <2>1, <2>2 DEF MainRound, UrlsInv, SomeLive, Live, At, Downloading
  <1>8. CASE PublishFailure
    BY <1>8 DEF PublishFailure, Lapses, UrlsInv, SomeLive, Live, At, Downloading
  <1>9. CASE ClearFailure
    <2>1. flash_info' \in Record
      BY <1>9, RecordType DEF ClearFailure
    <2> QED
      BY <1>9, <2>1 DEF ClearFailure, UrlsInv, SomeLive, Live, At, Downloading
  <1>10. CASE SaveCleared
    BY <1>10, WriteFlashType
       DEF SaveCleared, WriteFlash, UrlsInv, SomeLive, Live, At, Downloading
  <1>11. CASE Rearm
    <2>1. task_count' \in 0 .. ReportTicks
      BY <1>11, SizesAssumption DEF Rearm
    <2> QED
      BY <1>11, <2>1 DEF Rearm, UrlsInv, SomeLive, Live, At, Downloading
  <1>12. CASE RereadFlash
    <2>1. spent' \in [{"offer", "cut", "reread", "erase"} -> Nat]
      BY <1>12 DEF RereadFlash, Spend
    <2>2. lapses' \subseteq Lapses
      BY <1>12 DEF RereadFlash, Blame, Lapses
    <2> QED
      BY <1>12, <2>1, <2>2 DEF RereadFlash, UrlsInv, SomeLive, Live, At, Downloading
  <1>13. CASE EraseNvs
    <2>1. spent' \in [{"offer", "cut", "reread", "erase"} -> Nat]
      BY <1>13 DEF EraseNvs, Spend
    <2> QED
      BY <1>13, <2>1 DEF EraseNvs, Lapses, UrlsInv, SomeLive, Live, At, Downloading
  <1>14. CASE ResetRestart
    BY <1>14, BootTypeInv DEF ResetRestart
  <1>15. CASE PowerCut
    <2>1. spent' \in [{"offer", "cut", "reread", "erase"} -> Nat]
      BY <1>15 DEF PowerCut, Spend
    <2>2. lapses' \subseteq Lapses
      BY <1>15 DEF PowerCut, Blame, Lapses
    <2> QED
      BY <1>15, <2>1, <2>2, BootTypeInv DEF PowerCut
  <1>16. CASE UNCHANGED vars
    BY <1>16 DEF vars, UrlsInv, SomeLive, Live, At, Downloading
  <1> QED
    BY <1>1, <1>2, <1>3, <1>4, <1>5, <1>6, <1>7, <1>8, <1>9, <1>10, <1>11, <1>12,
       <1>13, <1>14, <1>15, <1>16 DEF Next, ReporterStep

\* Every variable keeps its type, and the state a task reads from a global is
\* an offer that was received since the start.
THEOREM TypeCorrect == Spec => []TypeInv
  BY InitTypeInv, NextTypeInv, PTL DEF Spec

\* Every variable keeps its type: flags, slots, task states and records hold
\* nothing but the values the code stores in them.
THEOREM TypesHold == Spec => []TypeOK
  <1>1. TypeInv => TypeOK
    BY DEF TypeInv
  <1> QED
    BY <1>1, TypeCorrect, PTL

-----------------------------------------------------------------------------
(* The partitions *)

\* esp_ota_get_next_update_partition never returns the partition that executes.
LEMMA TargetNotRunning ==
    ASSUME TypeOK
    PROVE  TargetSlot # running /\ TargetSlot # "factory"
  BY DEF TypeOK, TargetSlot, Slots

\* Only a download touches a partition, erasing and writing it piece by piece.
LEMMA SlotsStep ==
    ASSUME TypeInv, [Next]_vars
    PROVE  \/ slots' = slots
           \/ \E t \in Tasks : EraseChunk(t) \/ WriteChunk(t)
  BY DEF Next, vars, flash, MqttConnected, MqttDisconnected, FirmwareMessage, CopyUrl,
         OtaTaskInit, OtaStep, Attempt, Finish, AttemptFails, PartitionConflict,
         CopyVersion, SaveVersion, Inform, GiveUp, SaveFail, Restart, Boot, WriteFlash,
         MainRound, ReporterStep, PublishFailure, ClearFailure, SaveCleared, Rearm,
         RereadFlash, EraseNvs, ResetRestart, PowerCut

\* What a piece of the target holds after it was erased or written.
After(t) ==
    LET old == slots[TargetSlot][ota[t].chunk + 1]
    IN  IF At(t, "write") THEN Written(old, ota[t].url) ELSE Blank

\* Erasing or writing a piece leaves every other piece and partition alone.
LEMMA ChunkFrame ==
    ASSUME TypeInv, NEW t \in Tasks, EraseChunk(t) \/ WriteChunk(t)
    PROVE  /\ \A s \in Slots \ {TargetSlot} : slots'[s] = slots[s]
           /\ ota[t].chunk + 1 \in Chunks
           /\ TargetSlot \in Slots /\ TargetSlot # running /\ TargetSlot # "factory"
           /\ \A c \in Chunks : slots'[TargetSlot][c] =
                IF c = ota[t].chunk + 1 THEN After(t) ELSE slots[TargetSlot][c]
           /\ UNCHANGED <<running, otadata, nvs, nvs_erased, globals, rx, main, history>>
           /\ TargetSlot' = TargetSlot
  <1>1. ota[t].chunk \in 0 .. NumChunks /\ ota[t].chunk < NumChunks
    BY DEF EraseChunk, WriteChunk, TypeInv, TypeOK, UrlsInv, TaskStates, At
  <1>2. ota[t].chunk + 1 \in Chunks
    BY <1>1, SizesAssumption DEF Chunks
  <1>3. TargetSlot \in Slots /\ TargetSlot # running /\ TargetSlot # "factory"
    BY TargetNotRunning, BootSlotType DEF TypeInv, Slots
  <1>4. slots' = [slots EXCEPT ![TargetSlot][ota[t].chunk + 1] = After(t)]
    BY DEF EraseChunk, WriteChunk, After, At
  <1>5. slots \in [Slots -> [Chunks -> Contents]]
    BY DEF TypeInv, TypeOK
  <1>6. UNCHANGED <<running, otadata, nvs, nvs_erased, globals, rx, main, history>>
    BY DEF EraseChunk, WriteChunk
  <1>7. TargetSlot' = TargetSlot
    BY <1>6 DEF TargetSlot
  <1> QED
    BY <1>2, <1>3, <1>4, <1>5, <1>6, <1>7

\* No step ever writes into the partition the device executes from.
THEOREM RunningIntact == Spec => RunningImageIntact
  <1>1. TypeInv /\ [Next]_vars => [slots'[running] = slots[running]]_vars
    BY SlotsStep, ChunkFrame DEF TypeInv, TypeOK
  <1> QED
    BY <1>1, TypeCorrect, PTL DEF Spec, RunningImageIntact

\* Steps that leave the partitions alone and start no download half-way.
LEMMA FlashStable ==
    ASSUME FlashInv, TypeInv,
           UNCHANGED <<slots, otadata, running>>, received \subseteq received',
           \A t \in Tasks : Downloading(t)' =>
             \/ ota'[t].chunk = 0
             \/ Downloading(t) /\ ota'[t].chunk = ota[t].chunk
    PROVE  FlashInv'
  <1>1. AlwaysBootable'
    BY DEF FlashInv, AlwaysBootable, Complete
  <1>2. TargetSlot' = TargetSlot
    BY DEF TargetSlot
  <1>3. \A t \in Tasks : Downloading(t)' =>
          \A c \in 1 .. ota'[t].chunk : slots'[TargetSlot][c] \in received' \cup {Blank, Garbled}
    BY DEF FlashInv
  <1> QED
    BY <1>1, <1>2, <1>3 DEF FlashInv

\* The bootloader's choice is complete, and never the factory image in place of
\* a selected ota_1.
LEMMA BootSlotComplete ==
    ASSUME TypeInv, FlashInv
    PROVE  /\ Complete(BootSlot)
           /\ otadata = "ota_1" => BootSlot # "factory"
  <1>1. Complete("factory")
    BY SizesAssumption DEF FlashInv, AlwaysBootable, Complete, Chunks, Images
  <1>2. Complete(BootSlot)
    BY <1>1 DEF BootSlot
  <1>3. ASSUME otadata = "ota_1" PROVE Complete("ota_1") \/ Complete("ota_0")
    BY <1>3 DEF FlashInv, AlwaysBootable, TypeInv, TypeOK, Slots
  <1> QED
    BY <1>2, <1>3 DEF BootSlot

\* A restart, planned or not, keeps the flash invariant.
LEMMA BootFlashInv ==
    ASSUME TypeInv, FlashInv, Boot
    PROVE  FlashInv'
  <1>1. AlwaysBootable'
    BY BootSlotComplete DEF Boot, FlashInv, AlwaysBootable, Complete
  <1> QED
    BY <1>1, BootSlotComplete DEF Boot, RamReset, FlashInv, Downloading, Off

\* The factory state satisfies the flash invariant.
LEMMA InitFlashInv == Init => FlashInv
  <1> SUFFICES ASSUME Init PROVE FlashInv
    OBVIOUS
  <1>1. \A c \in Chunks : slots["factory"][c] = Factory
    BY DEF Init, Slots
  <1>2. 1 \in Chunks /\ running = "factory"
    BY SizesAssumption DEF Chunks, Init
  <1>3. AlwaysBootable
    BY <1>1, <1>2 DEF AlwaysBootable, Complete, Images
  <1> QED
    BY <1>3 DEF Init, FlashInv, Downloading, Off

\* Every step of an OTA task keeps the flash invariant.
LEMMA OtaStepFlashInv ==
    ASSUME TypeInv, FlashInv, NEW t \in Tasks, OtaStep(t)
    PROVE  FlashInv'
  <1> USE DEF flash, globals, main, history
  <1>0. ota \in [Tasks -> TaskStates]
    BY DEF TypeInv, TypeOK
  <1>1. CASE Attempt(t)
    <2>1. ota'[t].chunk = 0
      BY <1>0, <1>1 DEF Attempt
    <2>2. \A u \in Tasks \ {t} : ota'[u] = ota[u]
      BY <1>0, <1>1 DEF Attempt
    <2>3. UNCHANGED <<slots, otadata, running, received>>
      BY <1>1 DEF Attempt
    <2> QED
      BY <2>1, <2>2, <2>3, FlashStable DEF Downloading
  <1>2. CASE EraseChunk(t) \/ WriteChunk(t)
    <2> DEFINE k == ota[t].chunk + 1
    <2>1. After(t) \in received \cup {Blank, Garbled}
      BY <1>2 DEF EraseChunk, WriteChunk, After, Written, TypeInv, UrlsInv, At, Downloading
    <2>2. TargetSlot' = TargetSlot /\ UNCHANGED <<running, otadata, received>>
      BY <1>2, ChunkFrame
    <2>3. AlwaysBootable'
      BY <1>2, ChunkFrame DEF FlashInv, AlwaysBootable, Complete, TypeInv, TypeOK, Slots
    <2>4. \A u \in Tasks : Downloading(u)' =>
            /\ Downloading(u)
            /\ ota'[u].chunk \in {ota[u].chunk} \cup {c \in {k} : u = t}
      BY <1>0, <1>2 DEF EraseChunk, WriteChunk, Goto, At, Downloading, TaskStates
    <2>5. ASSUME NEW u \in Tasks, Downloading(u)', NEW c \in 1 .. ota'[u].chunk
          PROVE  slots'[TargetSlot][c] \in received \cup {Blank, Garbled}
      <3>1. c \in Chunks
        <4>1. ota'[u].chunk \in 0 .. NumChunks
          BY <1>2, OtaStepTypeInv, OtaStep(t) DEF TypeInv, TypeOK, TaskStates
        <4> QED
          BY <2>5, <4>1, SizesAssumption DEF Chunks
      <3>2. c # k => c \in 1 .. ota[u].chunk
        BY <1>0, <2>4, <2>5 DEF TaskStates
      <3> QED
        BY <1>2, <2>1, <2>4, <2>5, <3>1, <3>2, ChunkFrame DEF FlashInv
    <2> QED
      BY <2>2, <2>3, <2>5 DEF FlashInv
  <1>3. CASE Finish(t)
    <2>1. UNCHANGED <<slots, running, received>> /\ TargetSlot' = TargetSlot
      BY <1>3 DEF Finish, TargetSlot
    <2>2. AlwaysBootable'
      BY <2>1 DEF FlashInv, AlwaysBootable, Complete
    <2>3. otadata' = "ota_1" => running' # "factory"
      BY <1>3, <2>1 DEF Finish, TargetSlot
    <2>4. \A u \in Tasks : Downloading(u)' =>
            Downloading(u) /\ ota'[u].chunk = ota[u].chunk
      BY <1>0, <1>3 DEF Finish, Goto, Downloading
    <2> QED
      BY <2>1, <2>2, <2>3, <2>4 DEF FlashInv
  <1>4. CASE AttemptFails(t)
    BY <1>0, <1>4, FlashStable DEF AttemptFails, Downloading
  <1>5. CASE PartitionConflict(t)
    BY <1>0, <1>5, FlashStable DEF PartitionConflict, Goto, Downloading
  <1>6. CASE CopyVersion(t)
    BY <1>0, <1>6, FlashStable DEF CopyVersion, Goto, Downloading
  <1>7. CASE SaveVersion(t)
    BY <1>0, <1>7, FlashStable DEF SaveVersion, WriteFlash, Goto, Downloading
  <1>8. CASE Inform(t)
    BY <1>0, <1>8, FlashStable DEF Inform, Goto, Downloading
  <1>9. CASE GiveUp(t)
    BY <1>0, <1>9, FlashStable DEF GiveUp, Goto, Downloading
  <1>10. CASE SaveFail(t)
    BY <1>0, <1>10, FlashStable DEF SaveFail, WriteFlash, Goto, Downloading
  <1>11. CASE Restart(t)
    BY <1>11, BootFlashInv DEF Restart
  <1> QED
    BY <1>1, <1>2, <1>3, <1>4, <1>5, <1>6, <1>7, <1>8, <1>9, <1>10, <1>11 DEF OtaStep

\* Every step of the system keeps the flash invariant.
LEMMA NextFlashInv == TypeInv /\ FlashInv /\ [Next]_vars => FlashInv'
  <1> SUFFICES ASSUME TypeInv, FlashInv, [Next]_vars PROVE FlashInv'
    OBVIOUS
  <1> USE DEF flash, globals, main, history
  <1>1. ASSUME UNCHANGED <<slots, otadata, running, ota>>, received \subseteq received'
        PROVE  FlashInv'
    BY <1>1, FlashStable DEF Downloading
  <1>2. CASE MqttConnected \/ MqttDisconnected
    BY <1>1, <1>2 DEF MqttConnected, MqttDisconnected
  <1>3. ASSUME NEW o \in Offers, FirmwareMessage(o) PROVE FlashInv'
    BY <1>1, <1>3 DEF FirmwareMessage
  <1>4. CASE CopyUrl
    BY <1>1, <1>4 DEF CopyUrl
  <1>5. CASE OtaTaskInit
    <2>1. \A t \in Tasks : Downloading(t)' => ota'[t] = ota[t]
      <3>1. ASSUME NEW u \in Tasks, Goto(u, "attempt")
            PROVE  \A t \in Tasks : Downloading(t)' => ota'[t] = ota[t]
        BY <3>1 DEF Goto, TypeInv, TypeOK, Downloading
      <3> QED
        BY <1>5, <3>1 DEF OtaTaskInit
    <2> QED
      BY <1>5, <2>1, FlashStable DEF OtaTaskInit, Downloading
  <1>6. ASSUME NEW t \in Tasks, OtaStep(t) PROVE FlashInv'
    BY <1>6, OtaStepFlashInv
  <1>7. CASE MainRound \/ ReporterStep
    BY <1>1, <1>7 DEF MainRound, ReporterStep, PublishFailure, ClearFailure, SaveCleared,
                      WriteFlash, Rearm
  <1>8. CASE RereadFlash \/ EraseNvs
    BY <1>1, <1>8 DEF RereadFlash, EraseNvs
  <1>9. CASE ResetRestart \/ PowerCut
    BY <1>9, BootFlashInv DEF ResetRestart, PowerCut
  <1>10. CASE UNCHANGED vars
    BY <1>1, <1>10 DEF vars
  <1> QED
    BY <1>2, <1>3, <1>4, <1>5, <1>6, <1>7, <1>8, <1>9, <1>10 DEF Next

\* The running partition is complete, the factory image is untouched, and every
\* piece a download has written belongs to an image offered since the start.
THEOREM FlashCorrect == Spec => []FlashInv
  BY TypeCorrect, InitFlashInv, NextFlashInv, PTL DEF Spec

\* Whatever the OTA tasks do to each other, and wherever power fails, the
\* partition that runs is complete and the factory image is untouched.
THEOREM Bootable == Spec => []AlwaysBootable
  <1>1. FlashInv => AlwaysBootable
    BY DEF FlashInv
  <1> QED
    BY <1>1, FlashCorrect, PTL

-----------------------------------------------------------------------------
(* A lone update *)

\* Ill-timed events are never forgotten.
LEMMA LapsesGrow ==
    ASSUME [Next]_vars
    PROVE  lapses \subseteq lapses'
  BY DEF Next, vars, history, MqttConnected, MqttDisconnected, FirmwareMessage, CopyUrl,
         OtaTaskInit, OtaStep, Attempt, EraseChunk, WriteChunk, Finish, AttemptFails,
         PartitionConflict, CopyVersion, SaveVersion, Inform, GiveUp, SaveFail, Restart,
         WriteFlash, MainRound, ReporterStep, PublishFailure, ClearFailure, SaveCleared, Rearm,
         RereadFlash, EraseNvs, ResetRestart, PowerCut, Blame

\* Steps of the other tasks: nothing an update reads changes.
LEMMA UpdateStable ==
    ASSUME LoneUpdate,
           UNCHANGED <<slots, otadata, running, ota_url, ota_version, rx, ota>>,
           \A t \in Tasks : ota[t].pc \in {"save", "inform"} =>
             flash_info'.ver = flash_info.ver,
           \A t \in Tasks : ota[t].pc = "inform" =>
             nvs_erased' \/ "unsaved" \in lapses' \/ nvs'.ver = flash_info'.ver
    PROVE  LoneUpdate'
  BY DEF LoneUpdate, Live, SomeLive, At, Downloading, Complete, TargetSlot, Installed

\* After a restart no update is in progress, so nothing is asked of one.
LEMMA BootLone ==
    ASSUME TypeInv, FlashInv, Boot, Complete(otadata)
    PROVE  LoneUpdate'
  <1>1. BootSlot = otadata
    BY DEF BootSlot
  <1>2. Complete(otadata)'
    BY DEF Boot, Complete
  <1> QED
    BY <1>1, <1>2 DEF Boot, RamReset, LoneUpdate, Live, SomeLive, At, Downloading, Installed,
                      Off, NoMessage

\* The factory state has no update in progress.
LEMMA InitLone == Init => LoneUpdate
  <1> SUFFICES ASSUME Init PROVE LoneUpdate
    OBVIOUS
  <1>1. Complete(otadata)
    <2>1. \A c \in Chunks : slots["factory"][c] = Factory
      BY DEF Init, Slots
    <2>2. 1 \in Chunks /\ otadata = "factory"
      BY SizesAssumption DEF Chunks, Init
    <2> QED
      BY <2>1, <2>2 DEF Complete, Images
  <1> QED
    BY <1>1 DEF Init, LoneUpdate, Live, SomeLive, At, Downloading, Installed, Off, NoMessage

\* Every step of an OTA task that runs alone keeps what is known of its update.
LEMMA OtaStepLone ==
    ASSUME TypeInv, FlashInv, LoneUpdate, NEW t \in Tasks, OtaStep(t)
    PROVE  LoneUpdate'
  <1> USE DEF flash, globals, main, history
  <1>0. ota \in [Tasks -> TaskStates]
    BY DEF TypeInv, TypeOK
  <1>a. Live(t)
    BY DEF OtaStep, Attempt, EraseChunk, WriteChunk, Finish, AttemptFails, PartitionConflict, CopyVersion,
           SaveVersion, Inform, GiveUp, SaveFail, Restart, At, Live
  <1>b. rx.pc = "idle" /\ \A u \in Tasks \ {t} : ota[u].pc = "off"
    BY <1>a DEF LoneUpdate, Live, SomeLive
  \* It is enough to look at the task that moves.
  <1>c. ASSUME \A u \in Tasks \ {t} : ota'[u] = ota[u], rx' = rx,
               UNCHANGED <<running, ota_version>>,
               ota'[t].pc \in {"attempt", "download", "write"} => ota_url' = ota_version,
               Downloading(t)' =>
                 /\ ota'[t].url = ota_version
                 /\ \A c \in 1 .. ota'[t].chunk : slots'[TargetSlot][c] = ota_version,
               ota'[t].pc = "write" => slots'[TargetSlot][ota'[t].chunk + 1] = Blank,
               Complete(otadata)',
               ota'[t].pc \notin {"copy", "save", "inform", "restart"} => otadata' = running,
               ota'[t].pc = "copy" => slots'[otadata'][1] = ota_version,
               ota'[t].pc \in {"save", "inform"} => flash_info'.ver = slots'[otadata'][1],
               ota'[t].pc = "inform" =>
                 nvs_erased' \/ "unsaved" \in lapses' \/ nvs'.ver = flash_info'.ver
        PROVE  LoneUpdate'
    <2>1. \A u, v \in Tasks : Live(u)' /\ Live(v)' => u = v
      BY <1>b, <1>c DEF Live
    <2>2. \A u \in Tasks : ota'[u].pc # "off" => u = t
      BY <1>b, <1>c
    <2>3. TargetSlot' = TargetSlot
      BY <1>c DEF TargetSlot
    <2> QED
      BY <1>b, <1>c, <2>1, <2>2, <2>3 DEF LoneUpdate, At, Downloading, Installed, Live, SomeLive
  <1>1. CASE Attempt(t)
    <2>1. ota'[t].pc = "download" /\ ota'[t].url = ota_url /\ ota'[t].chunk = 0
          /\ \A u \in Tasks \ {t} : ota'[u] = ota[u]
      BY <1>0, <1>1 DEF Attempt
    <2>2. ota_url = ota_version /\ otadata = running /\ Complete(otadata)
      BY <1>1, <1>b DEF Attempt, LoneUpdate, At, Installed
    <2>3. UNCHANGED <<slots, otadata, running, ota_version, ota_url, rx>>
      BY <1>1 DEF Attempt
    <2>4. Complete(otadata)'
      BY <2>2, <2>3 DEF Complete
    <2>5. 1 .. ota'[t].chunk = {}
      BY <2>1
    <2> QED
      BY <1>c, <2>1, <2>2, <2>3, <2>4, <2>5 DEF Downloading
  <1>2. CASE EraseChunk(t) \/ WriteChunk(t)
    <2> DEFINE k == ota[t].chunk + 1
    <2>1. k \in Chunks /\ TargetSlot \in Slots /\ TargetSlot # running
          /\ UNCHANGED <<otadata, running, ota_version, ota_url, rx>>
      BY <1>2, ChunkFrame
    <2>2. ota[t].url = ota_version /\ ota_url = ota_version
          /\ otadata = running /\ Complete(otadata)
          /\ \A c \in 1 .. ota[t].chunk : slots[TargetSlot][c] = ota_version
      BY <1>2, <1>b DEF EraseChunk, WriteChunk, LoneUpdate, At, Downloading, Installed
    <2>3. Complete(otadata)'
      BY <1>2, <2>1, <2>2, ChunkFrame DEF Complete, TypeInv, TypeOK
    <2>4. \A c \in Chunks : slots'[TargetSlot][c] =
                             IF c = k THEN After(t) ELSE slots[TargetSlot][c]
      BY <1>2, ChunkFrame
    <2>5. \A c \in 1 .. ota[t].chunk : c \in Chunks /\ c # k
      BY <1>0, <2>1, SizesAssumption DEF Chunks, TaskStates
    <2>6. ota'[t].url = ota[t].url /\ \A u \in Tasks \ {t} : ota'[u] = ota[u]
      BY <1>0, <1>2 DEF EraseChunk, WriteChunk, Goto, TaskStates
    <2>7. CASE EraseChunk(t)
      <3>1. ota'[t].pc = "write" /\ ota'[t].chunk = ota[t].chunk /\ After(t) = Blank
        BY <1>0, <2>7 DEF EraseChunk, Goto, At, After, TaskStates
      <3>2. slots'[TargetSlot][k] = Blank
            /\ \A c \in 1 .. ota[t].chunk : slots'[TargetSlot][c] = ota_version
        BY <2>1, <2>2, <2>4, <2>5, <3>1
      <3> QED
        BY <1>c, <2>1, <2>2, <2>3, <2>6, <3>1, <3>2 DEF Downloading
    <2>8. CASE WriteChunk(t)
      <3>1. ota'[t].pc = "download" /\ ota'[t].chunk = k
        BY <1>0, <2>8 DEF WriteChunk, At, TaskStates
      <3>2. After(t) = ota_version
        BY <2>2, <2>8 DEF WriteChunk, LoneUpdate, After, Written, At
      <3>3. \A c \in 1 .. k : c # k => c \in 1 .. ota[t].chunk
        BY <1>0 DEF TaskStates
      <3>4. \A c \in 1 .. k : slots'[TargetSlot][c] = ota_version
        BY <2>1, <2>2, <2>4, <2>5, <3>2, <3>3
      <3> QED
        BY <1>c, <2>1, <2>2, <2>3, <2>6, <3>1, <3>4 DEF Downloading
    <2> QED
      BY <1>2, <2>7, <2>8
  <1>3. CASE Finish(t)
    <2>1. ota'[t].pc = "copy" /\ \A u \in Tasks \ {t} : ota'[u] = ota[u]
      BY <1>0, <1>3 DEF Finish, Goto, TaskStates
    <2>2. UNCHANGED <<slots, running, ota_version, rx>> /\ otadata' = TargetSlot
      BY <1>3 DEF Finish
    <2>3. slots[TargetSlot][1] = ota_version
      BY <1>3, SizesAssumption DEF Finish, LoneUpdate, At, Downloading
    <2>4. Complete(otadata)'
      BY <1>3, <2>2 DEF Finish, Complete
    <2> QED
      BY <1>c, <2>1, <2>2, <2>3, <2>4 DEF Downloading
  <1>4. CASE AttemptFails(t)
    <2>1. ota'[t].pc \in {"attempt", "giveup"} /\ \A u \in Tasks \ {t} : ota'[u] = ota[u]
      BY <1>0, <1>4 DEF AttemptFails
    <2>2. UNCHANGED <<slots, otadata, running, ota_version, ota_url, rx>>
      BY <1>4 DEF AttemptFails
    <2>3. otadata = running /\ Complete(otadata)
      BY <1>4, <1>b DEF AttemptFails, LoneUpdate, At, Installed
    <2>4. ota_url = ota_version
      BY <1>4, <1>a DEF AttemptFails, LoneUpdate, At
    <2>5. Complete(otadata)'
      BY <2>2, <2>3 DEF Complete
    <2> QED
      BY <1>c, <2>1, <2>2, <2>3, <2>4, <2>5 DEF Downloading
  <1>5. CASE PartitionConflict(t)
    <2>1. ota'[t].pc = "giveup" /\ \A u \in Tasks \ {t} : ota'[u] = ota[u]
      BY <1>0, <1>5 DEF PartitionConflict, Goto, TaskStates
    <2>2. UNCHANGED <<slots, otadata, running, ota_version, rx>>
      BY <1>5 DEF PartitionConflict
    <2>3. Complete(otadata)'
      BY <2>2 DEF LoneUpdate, Complete
    <2>4. otadata = running
      BY <1>5, <1>b DEF PartitionConflict, LoneUpdate, At, Installed
    <2> QED
      BY <1>c, <2>1, <2>2, <2>3, <2>4 DEF Downloading
  <1>6. CASE CopyVersion(t)
    <2>1. ota'[t].pc = "save" /\ \A u \in Tasks \ {t} : ota'[u] = ota[u]
      BY <1>0, <1>6 DEF CopyVersion, Goto, TaskStates
    <2>2. UNCHANGED <<slots, otadata, running, ota_version, rx>>
      BY <1>6 DEF CopyVersion
    <2>3. Complete(otadata)'
      BY <2>2 DEF LoneUpdate, Complete
    <2>4. flash_info'.ver = slots[otadata][1]
      BY <1>6 DEF CopyVersion, LoneUpdate, At, TypeInv, TypeOK, Record
    <2> QED
      BY <1>c, <2>1, <2>2, <2>3, <2>4 DEF Downloading
  <1>7. CASE SaveVersion(t)
    <2>1. ota'[t].pc = "inform" /\ \A u \in Tasks \ {t} : ota'[u] = ota[u]
      BY <1>0, <1>7 DEF SaveVersion, Goto, TaskStates
    <2>2. UNCHANGED <<slots, otadata, running, ota_version, rx>>
      BY <1>7 DEF SaveVersion, WriteFlash
    <2>3. Complete(otadata)'
      BY <2>2 DEF LoneUpdate, Complete
    <2>4. /\ flash_info'.ver = slots[otadata][1]
          /\ nvs_erased' \/ "unsaved" \in lapses' \/ nvs'.ver = flash_info'.ver
      BY <1>7 DEF SaveVersion, WriteFlash, Blame, LoneUpdate, At
    <2> QED
      BY <1>c, <2>1, <2>2, <2>3, <2>4 DEF Downloading
  <1>8. CASE Inform(t)
    <2>1. ota'[t].pc = "restart" /\ \A u \in Tasks \ {t} : ota'[u] = ota[u]
      BY <1>0, <1>8 DEF Inform, Goto, TaskStates
    <2>2. UNCHANGED <<slots, otadata, running, ota_version, rx>>
      BY <1>8 DEF Inform
    <2>3. Complete(otadata)'
      BY <2>2 DEF LoneUpdate, Complete
    <2> QED
      BY <1>c, <2>1, <2>2, <2>3 DEF Downloading
  <1>9. CASE GiveUp(t)
    <2>1. ota'[t].pc = "savefail" /\ \A u \in Tasks \ {t} : ota'[u] = ota[u]
      BY <1>0, <1>9 DEF GiveUp, Goto, TaskStates
    <2>2. UNCHANGED <<slots, otadata, running, ota_version, rx>>
      BY <1>9 DEF GiveUp
    <2>3. Complete(otadata)'
      BY <2>2 DEF LoneUpdate, Complete
    <2>4. otadata = running
      BY <1>9, <1>b DEF GiveUp, LoneUpdate, At, Installed
    <2> QED
      BY <1>c, <2>1, <2>2, <2>3, <2>4 DEF Downloading
  <1>10. CASE SaveFail(t)
    <2>1. ota'[t].pc = "restart" /\ \A u \in Tasks \ {t} : ota'[u] = ota[u]
      BY <1>0, <1>10 DEF SaveFail, Goto, TaskStates
    <2>2. UNCHANGED <<slots, otadata, running, ota_version, rx>>
      BY <1>10 DEF SaveFail, WriteFlash
    <2>3. Complete(otadata)'
      BY <2>2 DEF LoneUpdate, Complete
    <2> QED
      BY <1>c, <2>1, <2>2, <2>3 DEF Downloading
  <1>11. CASE Restart(t)
    BY <1>11, BootLone DEF Restart, LoneUpdate
  <1> QED
    BY <1>1, <1>2, <1>3, <1>4, <1>5, <1>6, <1>7, <1>8, <1>9, <1>10, <1>11 DEF OtaStep

\* Every step of the system keeps what is known of an update that runs alone.
LEMMA NextUpdateInv == TypeInv /\ FlashInv /\ UpdateInv /\ [Next]_vars => UpdateInv'
  <1> SUFFICES ASSUME TypeInv, FlashInv, UpdateInv, [Next]_vars, Alone'
               PROVE  LoneUpdate'
    BY DEF UpdateInv
  <1>0. Alone /\ LoneUpdate
    BY LapsesGrow DEF Alone, UpdateInv
  <1> USE DEF flash, globals, main, history
  <1>a. lapses \subseteq lapses'
    BY LapsesGrow
  <1>1. ASSUME UNCHANGED <<slots, otadata, running, globals, rx, ota, nvs, nvs_erased>>
        PROVE  LoneUpdate'
    BY <1>0, <1>a, <1>1, UpdateStable DEF LoneUpdate, At
  <1>2. CASE MqttConnected \/ MqttDisconnected \/ MainRound \/ PublishFailure \/ Rearm
    BY <1>1, <1>2 DEF MqttConnected, MqttDisconnected, MainRound, PublishFailure, Rearm
  <1>3. ASSUME NEW o \in Offers, FirmwareMessage(o) PROVE LoneUpdate'
    <2>1. ~SomeLive
      BY <1>3 DEF FirmwareMessage, Alone
    <2>2. rx'.pc = "url" /\ rx'.offer = o /\ ota_version' = o
      BY <1>3 DEF FirmwareMessage
    <2>3. UNCHANGED <<slots, otadata, running, ota>>
      BY <1>3 DEF FirmwareMessage
    <2> QED
      BY <1>0, <2>1, <2>2, <2>3
         DEF LoneUpdate, Live, SomeLive, At, Downloading, Complete, Installed
  <1>4. CASE CopyUrl
    <2>1. UNCHANGED <<slots, otadata, running, ota, ota_version>>
      BY <1>4 DEF CopyUrl
    <2>2. rx'.pc = "spawn" /\ rx'.offer = rx.offer /\ ota_url' = rx.offer /\ rx.pc = "url"
      BY <1>4 DEF CopyUrl, TypeInv, TypeOK, RxStates
    <2> QED
      BY <1>0, <2>1, <2>2 DEF LoneUpdate, Live, SomeLive, At, Downloading, Complete, Installed
  <1>5. CASE OtaTaskInit
    <2>1. UNCHANGED <<slots, otadata, running, ota_version, ota_url>> /\ rx'.pc = "idle"
      BY <1>5 DEF OtaTaskInit, NoMessage
    <2>2. /\ \A t \in Tasks : ota[t].pc = "off"
          /\ ota_url = ota_version
          /\ Complete(otadata)' /\ otadata = running
      BY <1>0, <1>5, <2>1
         DEF OtaTaskInit, LoneUpdate, Live, SomeLive, Installed, Complete
    <2>3. CASE ota' = ota
      BY <2>1, <2>2, <2>3 DEF LoneUpdate, Live, SomeLive, At, Downloading, Installed
    <2>4. ASSUME NEW t \in Tasks, Goto(t, "attempt") PROVE LoneUpdate'
      <3>1. ota'[t].pc = "attempt" /\ \A u \in Tasks \ {t} : ota'[u].pc = "off"
        BY <2>2, <2>4 DEF Goto, TypeInv, TypeOK, TaskStates
      <3> QED
        BY <2>1, <2>2, <3>1 DEF LoneUpdate, Live, SomeLive, At, Downloading, Installed
    <2> QED
      BY <1>5, <2>3, <2>4 DEF OtaTaskInit
  <1>6. ASSUME NEW t \in Tasks, OtaStep(t) PROVE LoneUpdate'
    BY <1>0, <1>6, OtaStepLone
  <1>7. CASE ClearFailure
    <2>1. flash_info'.ver = flash_info.ver
      BY <1>7 DEF ClearFailure, TypeInv, TypeOK, Record
    <2> QED
      BY <1>0, <1>a, <1>7, <2>1, UpdateStable DEF ClearFailure, LoneUpdate, At
  <1>8. CASE SaveCleared
    <2>1. flash_info' = flash_info /\ nvs_erased' = nvs_erased
          /\ (nvs_erased \/ "unsaved" \in lapses' \/ nvs'.ver = flash_info.ver)
      BY <1>8 DEF SaveCleared, WriteFlash, Blame
    <2>2. UNCHANGED <<slots, otadata, running, ota_url, ota_version, rx, ota>>
      BY <1>8 DEF SaveCleared, WriteFlash
    <2> QED
      BY <1>0, <2>1, <2>2, UpdateStable
  <1>9. CASE RereadFlash
    <2>1. flash_info' = flash_info
      BY <1>9 DEF RereadFlash, Blame, Alone
    <2>2. UNCHANGED <<slots, otadata, running, ota_url, ota_version, rx, ota, nvs, nvs_erased>>
      BY <1>9 DEF RereadFlash
    <2> QED
      BY <1>1, <2>1, <2>2
  <1>10. CASE EraseNvs
    BY <1>0, <1>10, UpdateStable DEF EraseNvs
  <1>11. CASE ResetRestart \/ PowerCut
    BY <1>0, <1>11, BootLone DEF ResetRestart, PowerCut, LoneUpdate
  <1>12. CASE UNCHANGED vars
    BY <1>1, <1>12 DEF vars
  <1> QED
    BY <1>2, <1>3, <1>4, <1>5, <1>6, <1>7, <1>8, <1>9, <1>10, <1>11, <1>12
       DEF Next, ReporterStep

\* While no second offer overlaps an update, the globals name the offer being
\* installed from the message to the restart.
THEOREM UpdateCorrect == Spec => []UpdateInv
  <1>1. Init => UpdateInv
    BY InitLone DEF UpdateInv
  <1> QED
    BY <1>1, TypeCorrect, FlashCorrect, NextUpdateInv, PTL DEF Spec

-----------------------------------------------------------------------------
(* The same offer, several times *)

\* A task whose download ended well and that has not restarted the device yet.
Installing(t) == ota[t].pc \in {"copy", "save", "inform"}

\* What the tasks that install the same offer o find, however their steps mix: the
\* partition they share is selected and holds pieces of o and no others, and what one
\* of them has copied or stored is the version all of them would.
SameOffer(o) ==
    \A t \in Tasks :
      /\ Installing(t) =>
           otadata = TargetSlot /\ \A c \in Chunks : slots[TargetSlot][c] \in {o, Blank}
      /\ ota[t].pc \in {"save", "inform"} => flash_info.ver = o
      /\ At(t, "inform") => nvs_erased \/ "unsaved" \in lapses \/ nvs.ver = o

SameOfferInv ==
    "reread" \notin lapses => \A o \in Offers : received = {o} => SameOffer(o)

\* Steps that leave the partitions and the stored versions alone and install nothing.
LEMMA SameStable ==
    ASSUME NEW o \in Offers, SameOffer(o),
           UNCHANGED <<slots, otadata, running, nvs>>,
           flash_info'.ver = flash_info.ver,
           nvs_erased => nvs_erased', lapses \subseteq lapses',
           \A t \in Tasks : ota'[t].pc \in {"copy", "save", "inform"} => ota'[t].pc = ota[t].pc
    PROVE  SameOffer(o)'
  BY DEF SameOffer, Installing, At, TargetSlot

\* What a task stores under the other tasks is the version of the offer they share.
LEMMA SameStored ==
    ASSUME NEW o \in Offers, SameOffer(o), WriteFlash(flash_info),
           UNCHANGED <<running, flash_info>>, lapses \subseteq lapses',
           \A t \in Tasks :
             /\ ota'[t].pc \in {"copy", "save", "inform"} => Installing(t)
             /\ ota'[t].pc \in {"save", "inform"} => ota[t].pc \in {"save", "inform"}
    PROVE  SameOffer(o)'
  <1>1. UNCHANGED <<slots, otadata, nvs_erased>> /\ TargetSlot' = TargetSlot
    BY DEF WriteFlash, TargetSlot
  <1>2. nvs_erased \/ "unsaved" \in lapses' \/ nvs' = flash_info
    BY DEF WriteFlash, Blame
  <1> QED
    BY <1>1, <1>2 DEF SameOffer, Installing, At

\* A step of one of the tasks that install the same offer keeps what is known of all.
LEMMA OtaStepSame ==
    ASSUME TypeInv, FlashInv, NEW o \in Offers, received = {o}, SameOffer(o),
           NEW t \in Tasks, OtaStep(t), received' # {}
    PROVE  SameOffer(o)'
  <1> USE DEF flash, globals, main, history
  <1>0. DOMAIN ota = Tasks
    BY DEF TypeInv, TypeOK
  <1>1. CASE Attempt(t) \/ AttemptFails(t)
    BY <1>0, <1>1, SameStable DEF Attempt, AttemptFails
  <1>2. CASE PartitionConflict(t)
    BY <1>0, <1>2, SameStable DEF PartitionConflict, Goto
  <1>3. CASE GiveUp(t)
    <2>1. flash_info'.ver = flash_info.ver
      BY <1>3 DEF GiveUp, TypeInv, TypeOK, Record
    <2> QED
      BY <1>0, <1>3, <2>1, SameStable DEF GiveUp, Goto
  <1>4. CASE EraseChunk(t) \/ WriteChunk(t)
    <2>1. Written(o, o) = o /\ Written(Blank, o) = o
      BY DEF Written
    <2>2. ASSUME slots[TargetSlot][ota[t].chunk + 1] \in {o, Blank} PROVE After(t) \in {o, Blank}
      BY <1>4, <2>1, <2>2 DEF EraseChunk, WriteChunk, After, TypeInv, UrlsInv, At, Downloading
    <2>3. \A c \in Chunks : slots[TargetSlot][c] \in {o, Blank} =>
                              slots'[TargetSlot][c] \in {o, Blank}
      BY <1>4, <2>2, ChunkFrame
    <2>4. \A u \in Tasks : ota'[u].pc \in {"copy", "save", "inform"} => ota'[u].pc = ota[u].pc
      BY <1>4 DEF EraseChunk, WriteChunk, Goto, At, TypeInv, TypeOK, TaskStates
    <2>5. UNCHANGED <<otadata, nvs, nvs_erased, flash_info, lapses>> /\ TargetSlot' = TargetSlot
      BY <1>4, ChunkFrame
    <2> QED
      BY <2>3, <2>4, <2>5 DEF SameOffer, Installing, At
  <1>5. CASE Finish(t)
    <2>1. \A c \in Chunks : slots[TargetSlot][c] = o
      BY <1>5, SizesAssumption, ImagesAssumption
         DEF Finish, FlashInv, At, Downloading, Complete, Chunks, Images
    <2>2. /\ UNCHANGED <<slots, running, nvs, nvs_erased, flash_info, lapses>>
          /\ otadata' = TargetSlot /\ TargetSlot' = TargetSlot
      BY <1>5 DEF Finish, TargetSlot
    <2>3. \A u \in Tasks : ota'[u].pc \in {"save", "inform"} => ota'[u].pc = ota[u].pc
      BY <1>0, <1>5 DEF Finish, Goto
    <2> QED
      BY <2>1, <2>2, <2>3 DEF SameOffer, Installing, At
  <1>6. CASE CopyVersion(t)
    <2>1. ota_version = o
      BY <1>6 DEF CopyVersion, TypeInv, UrlsInv, SomeLive, Live, At
    <2>2. flash_info'.ver = o
      BY <1>6, <2>1 DEF CopyVersion, TypeInv, TypeOK, Record
    <2>3. UNCHANGED <<slots, otadata, running, nvs, nvs_erased, lapses>> /\ TargetSlot' = TargetSlot
      BY <1>6 DEF CopyVersion, TargetSlot
    <2>4. \A u \in Tasks :
            /\ ota'[u].pc \in {"copy", "save", "inform"} => Installing(u)
            /\ ota'[u].pc = "inform" => ota[u].pc = "inform"
      BY <1>0, <1>6 DEF CopyVersion, Goto, At, Installing
    <2> QED
      BY <2>2, <2>3, <2>4 DEF SameOffer, Installing, At
  <1>7. CASE SaveVersion(t) \/ SaveFail(t)
    <2>1. WriteFlash(flash_info) /\ UNCHANGED <<running, flash_info>> /\ lapses \subseteq lapses'
      BY <1>7 DEF SaveVersion, SaveFail, WriteFlash, Blame
    <2>2. \A u \in Tasks :
            /\ ota'[u].pc \in {"copy", "save", "inform"} => Installing(u)
            /\ ota'[u].pc \in {"save", "inform"} => ota[u].pc \in {"save", "inform"}
      <3>1. CASE SaveVersion(t)
        BY <1>0, <3>1 DEF SaveVersion, Goto, At, Installing
      <3>2. CASE SaveFail(t)
        BY <1>0, <3>2 DEF SaveFail, Goto, At, Installing
      <3> QED
        BY <1>7, <3>1, <3>2
    <2> QED
      BY <2>1, <2>2, SameStored
  <1>8. CASE Inform(t)
    BY <1>0, <1>8, SameStable DEF Inform, Goto
  <1>10. CASE Restart(t)
    BY <1>10 DEF Restart, Boot, RamReset
  <1> QED
    BY <1>1, <1>2, <1>3, <1>4, <1>5, <1>6, <1>7, <1>8, <1>10 DEF OtaStep

\* Every step of the system keeps what is known of the tasks of one offer.
LEMMA NextSameOfferInv ==
    TypeInv /\ FlashInv /\ SameOfferInv /\ [Next]_vars => SameOfferInv'
  <1> SUFFICES ASSUME TypeInv, FlashInv, SameOfferInv, [Next]_vars,
                      "reread" \notin lapses', NEW o \in Offers, received' = {o}
               PROVE  SameOffer(o)'
    BY DEF SameOfferInv
  <1> USE DEF flash, globals, main, history
  <1>0. DOMAIN ota = Tasks
    BY DEF TypeInv, TypeOK
  <1>1. "reread" \notin lapses /\ lapses \subseteq lapses'
    BY LapsesGrow
  <1>2. ASSUME UNCHANGED <<slots, otadata, running, nvs, nvs_erased, flash_info, received>>,
               \A t \in Tasks : ota'[t].pc \in {"copy", "save", "inform"} => ota'[t].pc = ota[t].pc
        PROVE  SameOffer(o)'
    BY <1>1, <1>2, SameStable DEF SameOfferInv
  <1>3. ASSUME NEW p \in Offers, FirmwareMessage(p) PROVE SameOffer(o)'
    <2>1. CASE received = {o}
      BY <1>2, <1>3, <2>1 DEF FirmwareMessage
    <2>2. CASE received # {o}
      <3>1. received = {}
        BY <1>3, <2>2 DEF FirmwareMessage
      <3>2. \A t \in Tasks : ota[t].pc = "off"
        BY <3>1 DEF TypeInv, UrlsInv, SomeLive, Live
      <3> QED
        BY <1>3, <3>2 DEF FirmwareMessage, SameOffer, Installing, At
    <2> QED
      BY <2>1, <2>2
  <1>4. CASE OtaTaskInit
    <2>1. \A t \in Tasks : Goto(t, "attempt") => \A u \in Tasks :
            ota'[u].pc \in {"copy", "save", "inform"} => ota'[u].pc = ota[u].pc
      BY <1>0 DEF Goto
    <2> QED
      BY <1>2, <1>4, <2>1 DEF OtaTaskInit
  <1>5. ASSUME NEW t \in Tasks, OtaStep(t) PROVE SameOffer(o)'
    <2>1. received' = received
      BY <1>5 DEF OtaStep, Attempt, EraseChunk, WriteChunk, Finish, AttemptFails,
           PartitionConflict, CopyVersion, SaveVersion, Inform, GiveUp, SaveFail, Restart, Boot, RamReset
    <2> QED
      BY <1>1, <1>5, <2>1, OtaStepSame DEF SameOfferInv
  <1>6. CASE \/ MqttConnected \/ MqttDisconnected \/ CopyUrl \/ MainRound \/ PublishFailure
             \/ Rearm \/ UNCHANGED vars
    BY <1>2, <1>6 DEF MqttConnected, MqttDisconnected, CopyUrl, MainRound, PublishFailure,
                      Rearm, vars
  <1>7. CASE ClearFailure
    <2>1. flash_info'.ver = flash_info.ver
      BY <1>7 DEF ClearFailure, TypeInv, TypeOK, Record
    <2> QED
      BY <1>1, <1>7, <2>1, SameStable DEF ClearFailure, SameOfferInv
  <1>8. CASE SaveCleared
    <2>1. WriteFlash(flash_info) /\ UNCHANGED <<running, flash_info, ota, received>>
      BY <1>8 DEF SaveCleared
    <2> QED
      BY <1>1, <2>1, SameStored DEF SameOfferInv, Installing
  <1>9. CASE RereadFlash
    <2>1. flash_info' = flash_info
      BY <1>9 DEF RereadFlash, Blame
    <2>2. UNCHANGED <<slots, otadata, running, nvs, nvs_erased, ota, received>>
      BY <1>9 DEF RereadFlash
    <2> QED
      BY <1>2, <2>1, <2>2
  <1>10. CASE EraseNvs
    BY <1>1, <1>10, SameStable DEF EraseNvs, SameOfferInv
  <1>11. CASE ResetRestart \/ PowerCut
    BY <1>11 DEF ResetRestart, PowerCut, Boot, RamReset
  <1> QED
    BY <1>3, <1>4, <1>5, <1>6, <1>7, <1>8, <1>9, <1>10, <1>11 DEF Next, ReporterStep

\* The tasks of one offer install that offer, whatever went wrong before the restart.
THEOREM SameOfferCorrect == Spec => []SameOfferInv
  <1>1. Init => SameOfferInv
    BY DEF Init, SameOfferInv
  <1> QED
    BY <1>1, NextSameOfferInv, TypeCorrect, FlashCorrect, PTL DEF Spec

\* The version announced after a download is the version of the image that will start,
\* and is stored by then if the store took it: of an update that no other offer meets,
\* and of several downloads of one offer while none of them has just erased a piece of
\* the partition the device would start.
THEOREM InformsTruly == Spec => InformsInstalledVersionAlone
  <1>1. ASSUME TypeInv, UpdateInv, [Next]_vars, NEW t \in Tasks, Inform(t),
               lapses \cap {"overlap", "reread"} = {}
        PROVE  flash_info.ver = NextImage
               /\ (nvs_erased \/ "unsaved" \in lapses \/ nvs.ver = NextImage)
    <2>1. LoneUpdate /\ ota[t].pc = "inform"
      BY <1>1 DEF UpdateInv, Alone, Inform, At
    <2> QED
      BY <2>1 DEF LoneUpdate, NextImage, BootSlot, At
  <1>2. ASSUME TypeInv, SameOfferInv, NEW t \in Tasks, Inform(t), "reread" \notin lapses,
               NEW o \in Offers, received = {o}, Complete(otadata)
        PROVE  flash_info.ver = NextImage
               /\ (nvs_erased \/ "unsaved" \in lapses \/ nvs.ver = NextImage)
    <2>1. SameOffer(o) /\ ota[t].pc = "inform"
      BY <1>2 DEF SameOfferInv, Inform, At
    <2>2. slots[otadata][1] = o
      BY <1>2, <2>1, SizesAssumption, ImagesAssumption
         DEF SameOffer, Installing, Complete, Chunks, Images
    <2>3. BootSlot = otadata
      BY <1>2 DEF BootSlot
    <2> QED
      BY <2>1, <2>2, <2>3 DEF SameOffer, NextImage, At
  <1>3. TypeInv /\ UpdateInv /\ SameOfferInv /\ [Next]_vars =>
          [\A t \in Tasks :
             /\ Inform(t)
             /\ "reread" \notin lapses
             /\ \/ "overlap" \notin lapses
                \/ (\E o \in Offers : received = {o}) /\ Complete(otadata)
             => /\ flash_info.ver = NextImage
                /\ nvs_erased \/ "unsaved" \in lapses \/ nvs.ver = NextImage]_vars
    BY <1>1, <1>2
  <1> QED
    BY <1>3, TypeCorrect, UpdateCorrect, SameOfferCorrect, PTL
       DEF Spec, InformsInstalledVersionAlone

-----------------------------------------------------------------------------
(* The stored version *)

\* Steps that touch neither the records nor the flash keep RecordKept.
LEMMA RecordStable ==
    ASSUME RecordKept, UNCHANGED <<slots, otadata, nvs_erased, nvs>>,
           flash_info'.ver = flash_info.ver,
           \A t \in Tasks : ota[t].pc \in {"copy", "save"} => ota'[t].pc \in {"copy", "save"}
    PROVE  RecordKept'
  BY DEF RecordKept

\* A restart keeps RecordKept.
LEMMA BootRecord ==
    ASSUME RecordKept, Boot, \A t \in Tasks : ota[t].pc \notin {"copy", "save"}
    PROVE  RecordKept'
  BY DEF RecordKept, Boot

\* Every step of an OTA task keeps RecordKept.
LEMMA OtaStepRecord ==
    ASSUME TypeInv, FlashInv, LoneUpdate, RecordKept, NEW t \in Tasks, OtaStep(t), Kept'
    PROVE  RecordKept'
  <1> USE DEF flash, globals, main, history
  <1>0. ota \in [Tasks -> TaskStates]
    BY DEF TypeInv, TypeOK
  <1>1. CASE Attempt(t) \/ AttemptFails(t) \/ PartitionConflict(t) \/ Inform(t)
    <2>1. ota[t].pc \notin {"copy", "save"} /\ \A u \in Tasks \ {t} : ota'[u] = ota[u]
      BY <1>0, <1>1 DEF Attempt, AttemptFails, PartitionConflict, Inform, Goto, At
    <2>2. UNCHANGED <<slots, otadata, nvs_erased, nvs, flash_info>>
      BY <1>1 DEF Attempt, AttemptFails, PartitionConflict, Inform
    <2> QED
      BY <2>1, <2>2, RecordStable
  <1>2. CASE EraseChunk(t) \/ WriteChunk(t)
    <2>1. otadata # TargetSlot
      BY <1>2, TargetNotRunning
         DEF EraseChunk, WriteChunk, LoneUpdate, At, Installed, Live, TypeInv
    <2>2. slots'[otadata] = slots[otadata] /\ UNCHANGED <<otadata, nvs_erased, nvs, flash_info>>
      BY <1>2, <2>1, ChunkFrame DEF TypeInv, TypeOK
    <2>3. \A u \in Tasks : ota[u].pc \in {"copy", "save"} => ota'[u].pc \in {"copy", "save"}
      BY <1>0, <1>2 DEF EraseChunk, WriteChunk, Goto, At
    <2> QED
      BY <2>2, <2>3 DEF RecordKept
  <1>3. CASE Finish(t)
    <2>1. ota'[t].pc = "copy" /\ nvs_erased' = nvs_erased
      BY <1>0, <1>3 DEF Finish, Goto, TaskStates
    <2> QED
      BY <2>1 DEF RecordKept
  <1>4. CASE CopyVersion(t)
    <2>1. ota'[t].pc = "save" /\ nvs_erased' = nvs_erased
      BY <1>0, <1>4 DEF CopyVersion, Goto, TaskStates
    <2> QED
      BY <2>1 DEF RecordKept
  <1>5. CASE SaveVersion(t) \/ SaveFail(t)
    <2>1. nvs' = flash_info /\ UNCHANGED <<flash_info, slots, otadata, nvs_erased>>
      BY <1>5 DEF SaveVersion, SaveFail, WriteFlash, Blame, RecordKept, Kept
    <2>2. ota[t].pc = "save" => flash_info.ver = slots[otadata][1]
      BY DEF LoneUpdate
    <2>3. \A u \in Tasks \ {t} : ota[u].pc = "off"
      BY <1>5 DEF LoneUpdate, SaveVersion, SaveFail, At, Live
    <2> QED
      BY <1>5, <2>1, <2>2, <2>3 DEF RecordKept, SaveVersion, SaveFail, At
  <1>6. CASE GiveUp(t)
    <2>1. flash_info'.ver = flash_info.ver
      BY <1>6 DEF GiveUp, TypeInv, TypeOK, Record
    <2>2. ota[t].pc = "giveup" /\ \A u \in Tasks \ {t} : ota'[u] = ota[u]
      BY <1>0, <1>6 DEF GiveUp, Goto, At
    <2>3. UNCHANGED <<slots, otadata, nvs_erased, nvs>>
      BY <1>6 DEF GiveUp
    <2> QED
      BY <2>1, <2>2, <2>3, RecordStable
  <1>7. CASE Restart(t)
    <2>1. \A u \in Tasks : ota[u].pc \notin {"copy", "save"}
      BY <1>7 DEF Restart, At, LoneUpdate, Live
    <2> QED
      BY <1>7, <2>1, BootRecord DEF Restart
  <1> QED
    BY <1>1, <1>2, <1>3, <1>4, <1>5, <1>6, <1>7 DEF OtaStep

\* Every step of the system keeps the invariant on the stored version.
LEMMA NextRecordInv ==
    TypeInv /\ FlashInv /\ UpdateInv /\ RecordInv /\ [Next]_vars => RecordInv'
  <1> SUFFICES ASSUME TypeInv, FlashInv, UpdateInv, RecordInv, [Next]_vars, Kept'
               PROVE  RecordKept'
    BY DEF RecordInv
  <1>0. LoneUpdate /\ RecordKept
    BY LapsesGrow DEF Alone, Kept, UpdateInv, RecordInv
  <1> USE DEF flash, globals, main, history
  <1>1. ASSUME UNCHANGED <<slots, otadata, nvs_erased, nvs, ota>>, flash_info'.ver = flash_info.ver
        PROVE  RecordKept'
    BY <1>0, <1>1, RecordStable
  <1>2. CASE MqttConnected \/ MqttDisconnected \/ MainRound \/ PublishFailure \/ Rearm
    BY <1>1, <1>2 DEF MqttConnected, MqttDisconnected, MainRound, PublishFailure, Rearm
  <1>3. ASSUME NEW o \in Offers, FirmwareMessage(o) PROVE RecordKept'
    BY <1>1, <1>3 DEF FirmwareMessage
  <1>4. CASE CopyUrl
    BY <1>1, <1>4 DEF CopyUrl
  <1>5. CASE OtaTaskInit
    <2>1. ASSUME NEW t \in Tasks, ~Live(t), Goto(t, "attempt")
          PROVE  \A u \in Tasks : ota[u].pc \in {"copy", "save"} => ota'[u].pc = ota[u].pc
      BY <2>1 DEF Goto, Live, TypeInv, TypeOK
    <2>2. \A u \in Tasks : ota[u].pc \in {"copy", "save"} => ota'[u].pc \in {"copy", "save"}
      BY <1>5, <2>1 DEF OtaTaskInit
    <2>3. UNCHANGED <<slots, otadata, nvs_erased, nvs, flash_info>>
      BY <1>5 DEF OtaTaskInit
    <2> QED
      BY <1>0, <2>2, <2>3, RecordStable
  <1>6. ASSUME NEW t \in Tasks, OtaStep(t) PROVE RecordKept'
    BY <1>0, <1>6, OtaStepRecord
  <1>7. CASE ClearFailure
    <2>1. flash_info'.ver = flash_info.ver
      BY <1>7 DEF ClearFailure, TypeInv, TypeOK, Record
    <2> QED
      BY <1>1, <1>7, <2>1 DEF ClearFailure
  <1>8. CASE SaveCleared
    <2>1. nvs' = flash_info /\ UNCHANGED <<flash_info, slots, otadata, nvs_erased, ota>>
      BY <1>0, <1>8 DEF SaveCleared, WriteFlash, Blame, RecordKept, Kept
    <2> QED
      BY <1>0, <2>1 DEF RecordKept
  <1>9. CASE RereadFlash
    <2>1. flash_info' = nvs /\ UNCHANGED <<slots, otadata, nvs_erased, nvs, ota>>
      BY <1>0, <1>9 DEF RereadFlash, RecordKept
    <2> QED
      BY <1>0, <2>1 DEF RecordKept
  <1>10. CASE EraseNvs
    BY <1>10 DEF EraseNvs, Kept
  <1>11. CASE ResetRestart
    BY <1>0, <1>11 DEF ResetRestart, RecordKept
  <1>12. CASE PowerCut
    <2>1. \A t \in Tasks : ota[t].pc \notin {"copy", "save"}
      BY <1>12 DEF PowerCut, Blame, Kept
    <2> QED
      BY <1>0, <1>12, <2>1, BootRecord DEF PowerCut
  <1>13. CASE UNCHANGED vars
    BY <1>1, <1>13 DEF vars
  <1> QED
    BY <1>2, <1>3, <1>4, <1>5, <1>6, <1>7, <1>8, <1>9, <1>10, <1>11, <1>12, <1>13
       DEF Next, ReporterStep

\* The factory record names the factory image.
LEMMA InitRecordInv == Init => RecordInv
  <1> SUFFICES ASSUME Init PROVE RecordKept
    BY DEF RecordInv
  <1>1. slots["factory"][1] = Factory
    BY SizesAssumption DEF Init, Slots, Chunks
  <1> QED
    BY <1>1 DEF Init, RecordKept, FactoryRecord

\* The stored version follows the selected image through copy, save and restart.
THEOREM RecordCorrect == Spec => []RecordInv
  BY InitRecordInv, NextRecordInv, TypeCorrect, FlashCorrect, UpdateCorrect, PTL DEF Spec

\* The stored version is the version of the image the bootloader would start,
\* as long as nothing ill-timed happened and outside the saving window.
THEOREM RecordMatches == Spec => []RecordMatchesImage
  <1>1. UpdateInv /\ RecordInv => RecordMatchesImage
    <2> SUFFICES ASSUME UpdateInv, RecordInv, Kept,
                        \A t \in Tasks : ota[t].pc \notin {"copy", "save"}
                 PROVE  nvs.ver = NextImage
      BY DEF RecordMatchesImage, Kept
    <2>1. Complete(otadata)
      BY DEF UpdateInv, Alone, Kept, LoneUpdate
    <2>2. BootSlot = otadata
      BY <2>1 DEF BootSlot
    <2> QED
      BY <2>2 DEF RecordInv, RecordKept, NextImage
  <1> QED
    BY <1>1, UpdateCorrect, RecordCorrect, PTL

-----------------------------------------------------------------------------
(* The failure flag *)

\* Steps that touch neither the failure flags nor the report keep FailKept.
LEMMA FailStable ==
    ASSUME FailKept, UNCHANGED <<owed, reporter, nvs, rx, flash_info>>,
           \A t \in Tasks : Live(t)' => Live(t),
           \A t \in Tasks : ota'[t].pc = "savefail" <=> ota[t].pc = "savefail"
    PROVE  FailKept'
  BY DEF FailKept, Reporting, Updating, SomeLive, Live, At

\* A restart keeps FailKept: the flag survives in NVS.
LEMMA BootFail ==
    ASSUME FailKept, Boot, ~nvs_erased, UNCHANGED owed,
           \A t \in Tasks : ota[t].pc # "savefail",
           reporter \notin {"clear", "save"}
    PROVE  FailKept'
  <1>1. nvs.fail <=> owed
    BY DEF FailKept, At
  <1>2. nvs' = nvs /\ flash_info' = nvs /\ reporter' = "idle"
    BY DEF Boot, RamReset
  <1>3. (flash_info'.fail <=> owed') /\ (nvs'.fail <=> owed')
    BY <1>1, <1>2
  <1>4. \A t \in Tasks : ota'[t].pc = "off"
    BY DEF Boot, RamReset, Off
  <1> QED
    BY <1>2, <1>3, <1>4 DEF FailKept, Reporting, At

\* Every step of an OTA task keeps FailKept.
LEMMA OtaStepFail ==
    ASSUME TypeInv, LoneUpdate, RecordKept, FailKept, NEW t \in Tasks, OtaStep(t), lapses' = {}
    PROVE  FailKept'
  <1> USE DEF flash, globals, main, history
  <1>0. ota \in [Tasks -> TaskStates]
    BY DEF TypeInv, TypeOK
  <1>a. Live(t)
    BY DEF OtaStep, Attempt, EraseChunk, WriteChunk, Finish, AttemptFails, PartitionConflict,
           CopyVersion, SaveVersion, Inform, GiveUp, SaveFail, Restart, At, Live
  <1>b. reporter = "idle" /\ \A u \in Tasks \ {t} : ota[u].pc = "off"
    BY <1>a DEF FailKept, Reporting, Updating, SomeLive, LoneUpdate, Live
  <1>1. CASE Attempt(t) \/ EraseChunk(t) \/ WriteChunk(t) \/ Finish(t) \/ AttemptFails(t)
             \/ PartitionConflict(t) \/ Inform(t)
    <2>1. ota[t].pc # "savefail" /\ ota'[t].pc # "savefail"
          /\ \A u \in Tasks \ {t} : ota'[u] = ota[u]
      BY <1>0, <1>1 DEF Attempt, EraseChunk, WriteChunk, Finish, AttemptFails,
                        PartitionConflict, Inform, Goto, At, TaskStates
    <2>2. UNCHANGED <<owed, reporter, nvs, rx, flash_info>>
      BY <1>1 DEF Attempt, EraseChunk, WriteChunk, Finish, AttemptFails, PartitionConflict,
                  Inform
    <2> QED
      BY <1>a, <2>1, <2>2, FailStable DEF Live
  <1>2. CASE CopyVersion(t)
    <2>1. flash_info'.fail = flash_info.fail
      BY <1>2 DEF CopyVersion, TypeInv, TypeOK, Record
    <2>2. ota[t].pc = "copy" /\ ota'[t].pc = "save" /\ \A u \in Tasks \ {t} : ota'[u] = ota[u]
      BY <1>0, <1>2 DEF CopyVersion, Goto, At, TaskStates
    <2>3. UNCHANGED <<owed, reporter, nvs>>
      BY <1>2 DEF CopyVersion
    <2> QED
      BY <1>b, <2>1, <2>2, <2>3 DEF FailKept, Reporting, At
  <1>3. CASE SaveVersion(t)
    <2>1. nvs' = flash_info /\ UNCHANGED <<owed, reporter, flash_info>>
      BY <1>3 DEF SaveVersion, WriteFlash, Blame, RecordKept
    <2>2. ota[t].pc = "save" /\ ota'[t].pc = "inform" /\ \A u \in Tasks \ {t} : ota'[u] = ota[u]
      BY <1>0, <1>3 DEF SaveVersion, Goto, At, TaskStates
    <2>3. flash_info.fail <=> owed
      BY <1>b, <2>2 DEF FailKept, At
    <2>4. (nvs'.fail <=> owed') /\ (flash_info'.fail <=> owed')
      BY <2>1, <2>3
    <2> QED
      BY <1>b, <2>1, <2>2, <2>4 DEF FailKept, Reporting, At
  <1>4. CASE GiveUp(t)
    <2>1. ota[t].pc = "giveup" /\ ota'[t].pc = "savefail"
          /\ \A u \in Tasks \ {t} : ota'[u] = ota[u]
      BY <1>0, <1>4 DEF GiveUp, Goto, At, TaskStates
    <2>2. owed' = TRUE /\ reporter' = reporter
      BY <1>4 DEF GiveUp
    <2>3. flash_info'.fail
      BY <1>4 DEF GiveUp, TypeInv, TypeOK, Record
    <2> QED
      BY <1>b, <2>1, <2>2, <2>3 DEF FailKept, Reporting, At
  <1>5. CASE SaveFail(t)
    <2>1. nvs' = flash_info /\ UNCHANGED <<owed, reporter, flash_info>>
      BY <1>5 DEF SaveFail, WriteFlash, Blame, RecordKept
    <2>2. ota[t].pc = "savefail" /\ ota'[t].pc = "restart"
          /\ \A u \in Tasks \ {t} : ota'[u] = ota[u]
      BY <1>0, <1>5 DEF SaveFail, Goto, At, TaskStates
    <2>3. owed /\ flash_info.fail
      BY <2>2 DEF FailKept, At
    <2>4. (nvs'.fail <=> owed') /\ (flash_info'.fail <=> owed')
      BY <2>1, <2>3
    <2> QED
      BY <1>b, <2>1, <2>2, <2>4 DEF FailKept, Reporting, At
  <1>6. CASE Restart(t)
    <2>1. \A u \in Tasks : ota[u].pc # "savefail"
      BY <1>b, <1>6 DEF Restart, At
    <2> QED
      BY <1>6, <1>b, <2>1, BootFail DEF Restart, RecordKept
  <1> QED
    BY <1>1, <1>2, <1>3, <1>4, <1>5, <1>6 DEF OtaStep

\* Every step of the system keeps the invariant on the failure flag.
LEMMA NextFailInv ==
    TypeInv /\ UpdateInv /\ RecordInv /\ FailInv /\ [Next]_vars => FailInv'
  <1> SUFFICES ASSUME TypeInv, UpdateInv, RecordInv, FailInv, [Next]_vars, lapses' = {}
               PROVE  FailKept'
    BY DEF FailInv
  <1>0. LoneUpdate /\ RecordKept /\ FailKept
    <2>1. lapses = {}
      BY LapsesGrow
    <2> QED
      BY <2>1 DEF Alone, Kept, UpdateInv, RecordInv, FailInv
  <1> USE DEF flash, globals, main, history
  <1>1. ASSUME UNCHANGED <<owed, reporter, nvs, rx, flash_info, ota>> PROVE FailKept'
    BY <1>0, <1>1, FailStable DEF Live
  <1>2. CASE MqttConnected \/ MqttDisconnected
    BY <1>1, <1>2 DEF MqttConnected, MqttDisconnected
  <1>3. ASSUME NEW o \in Offers, FirmwareMessage(o) PROVE FailKept'
    <2>1. ~Reporting
      BY <1>3 DEF FirmwareMessage
    <2>2. UNCHANGED <<owed, reporter, nvs, flash_info, ota>>
      BY <1>3 DEF FirmwareMessage
    <2> QED
      BY <1>0, <2>1, <2>2 DEF FailKept, Reporting, At
  <1>4. CASE CopyUrl
    <2>1. rx.pc = "url" /\ UNCHANGED <<owed, reporter, nvs, flash_info, ota>>
      BY <1>4 DEF CopyUrl
    <2>2. ~Reporting
      BY <1>0, <2>1 DEF FailKept, Updating
    <2> QED
      BY <1>0, <2>1, <2>2 DEF FailKept, Reporting, At
  <1>5. CASE OtaTaskInit
    <2>1. rx.pc = "spawn" /\ UNCHANGED <<owed, reporter, nvs, flash_info>>
      BY <1>5 DEF OtaTaskInit
    <2>2. ~Reporting
      BY <1>0, <2>1 DEF FailKept, Updating
    <2>3. ASSUME NEW t \in Tasks, ~Live(t), Goto(t, "attempt")
          PROVE  \A u \in Tasks : ota'[u].pc = "savefail" <=> ota[u].pc = "savefail"
      BY <2>3 DEF Goto, Live, TypeInv, TypeOK, TaskStates
    <2>4. \A u \in Tasks : ota'[u].pc = "savefail" <=> ota[u].pc = "savefail"
      BY <1>5, <2>3 DEF OtaTaskInit
    <2> QED
      BY <1>0, <2>1, <2>2, <2>4 DEF FailKept, Reporting, At
  <1>6. ASSUME NEW t \in Tasks, OtaStep(t) PROVE FailKept'
    BY <1>0, <1>6, OtaStepFail
  <1>7. CASE MainRound
    <2>1. UNCHANGED <<owed, nvs, flash_info, ota, rx>> /\ reporter = "idle"
      BY <1>7 DEF MainRound
    <2>2. CASE ~ReportDue
      BY <1>1, <1>7, <2>1, <2>2 DEF MainRound
    <2>3. CASE ReportDue
      <3>1. ~Updating /\ reporter' = "publish"
        BY <1>7, <2>3 DEF MainRound, Blame
      <3>2. \A t \in Tasks : ota[t].pc = "off"
        BY <3>1 DEF Updating, SomeLive, Live
      <3>3. owed
        BY <1>0, <2>1, <2>3, <3>2 DEF FailKept, At, ReportDue
      <3>4. ~Updating'
        BY <2>1, <3>1 DEF Updating, SomeLive, Live
      <3> QED
        BY <1>0, <2>1, <3>1, <3>2, <3>3, <3>4 DEF FailKept, At
    <2> QED
      BY <2>2, <2>3
  <1>8. CASE PublishFailure
    <2>1. owed' = FALSE /\ reporter' = "clear" /\ reporter = "publish"
      BY <1>8 DEF PublishFailure
    <2>2. UNCHANGED <<nvs, flash_info, ota, rx>>
      BY <1>8 DEF PublishFailure
    <2>3. ~Updating
      BY <1>0, <2>1 DEF FailKept, Reporting
    <2> QED
      BY <2>1, <2>2, <2>3 DEF FailKept, Updating, SomeLive, Live, At
  <1>9. CASE ClearFailure
    <2>1. ~flash_info'.fail
      BY <1>9 DEF ClearFailure, TypeInv, TypeOK, Record
    <2>2. reporter = "clear" /\ reporter' = "save" /\ UNCHANGED <<owed, ota, rx>>
      BY <1>9 DEF ClearFailure
    <2>3. ~Updating /\ ~owed
      BY <1>0, <2>2 DEF FailKept, Reporting
    <2> QED
      BY <2>1, <2>2, <2>3 DEF FailKept, Updating, SomeLive, Live, At
  <1>10. CASE SaveCleared
    <2>1. nvs' = flash_info /\ UNCHANGED <<owed, ota, rx, flash_info>>
          /\ reporter = "save" /\ reporter' = "rearm"
      BY <1>0, <1>10 DEF SaveCleared, WriteFlash, Blame, RecordKept
    <2>2. ~Updating /\ ~owed /\ ~flash_info.fail
      BY <1>0, <2>1 DEF FailKept, Reporting
    <2>3. ~nvs'.fail /\ ~flash_info'.fail /\ ~owed'
      BY <2>1, <2>2
    <2>4. ~Updating'
      BY <2>1, <2>2 DEF Updating, SomeLive, Live
    <2> QED
      BY <1>0, <2>1, <2>3, <2>4 DEF FailKept, At
  <1>11. CASE Rearm
    <2>1. reporter = "rearm" /\ reporter' = "idle" /\ UNCHANGED <<owed, ota, nvs, flash_info>>
      BY <1>11 DEF Rearm
    <2> QED
      BY <1>0, <2>1 DEF FailKept, Reporting, At
  <1>12. CASE RereadFlash
    <2>1. flash_info' = flash_info
      BY <1>12 DEF RereadFlash, Blame
    <2> QED
      BY <1>1, <1>12, <2>1 DEF RereadFlash
  <1>13. CASE EraseNvs
    BY <1>13 DEF EraseNvs
  <1>14. CASE ResetRestart
    BY <1>0, <1>14 DEF ResetRestart, RecordKept
  <1>15. CASE PowerCut
    <2>1. (\A t \in Tasks : ota[t].pc # "savefail") /\ reporter \notin {"clear", "save"}
      BY <1>15 DEF PowerCut, Blame
    <2> QED
      BY <1>0, <1>15, <2>1, BootFail DEF PowerCut, RecordKept
  <1>16. CASE UNCHANGED vars
    BY <1>1, <1>16 DEF vars
  <1> QED
    BY <1>2, <1>3, <1>4, <1>5, <1>6, <1>7, <1>8, <1>9, <1>10, <1>11, <1>12, <1>13,
       <1>14, <1>15, <1>16 DEF Next, ReporterStep

\* A failure is owed to the server exactly while the flag, its copy in NVS or a
\* report in progress says so.
THEOREM FailCorrect == Spec => []FailInv
  <1>1. Init => FailInv
    BY DEF Init, FailInv, FailKept, Reporting, At, Off, FactoryRecord
  <1> QED
    BY <1>1, NextFailInv, TypeCorrect, UpdateCorrect, RecordCorrect, PTL DEF Spec

\* A failure is in NVS from the moment the task that gave up has stored it until
\* it is published: no restart loses it.
THEOREM FailureKept == Spec => []FailureNotLost
  <1>1. FailInv => FailureNotLost
    BY DEF FailInv, FailKept, FailureNotLost, At
  <1> QED
    BY <1>1, FailCorrect, PTL

\* Nothing is reported that did not fail since the last report.
THEOREM ReportsTruly == Spec => NoSpuriousReport
  <1>1. FailInv /\ [Next]_vars => [PublishFailure /\ lapses = {} => owed]_vars
    BY DEF FailInv, FailKept, PublishFailure
  <1> QED
    BY <1>1, FailCorrect, PTL DEF Spec, NoSpuriousReport

-----------------------------------------------------------------------------
(* How long an update can take *)

\* The steps a task has left at most: a try is opening, an erasure and a write for every
\* piece, and its end; four more follow the last one (the version, its copy in NVS, the
\* announcement, the restart).
TrySteps == 2 * NumChunks + 2
MaxSteps == MaxRetries * TrySteps + 4

StepsLeft(s) ==
    CASE s.pc = "attempt" -> (MaxRetries - s.retry_count) * TrySteps + 4
      [] s.pc = "download" -> (MaxRetries - s.retry_count) * TrySteps + 3 - 2 * s.chunk
      [] s.pc = "write" -> (MaxRetries - s.retry_count) * TrySteps + 2 - 2 * s.chunk
      [] s.pc = "copy" -> 4
      [] s.pc \in {"save", "giveup"} -> 3
      [] s.pc \in {"inform", "savefail"} -> 2
      [] s.pc = "restart" -> 1
      [] OTHER -> 0

\* The count is a natural number below a constant, and zero for a task that has ended.
InBounds ==
    /\ \A t \in Tasks : StepsLeft(ota[t]) \in 0 .. MaxSteps
    /\ \A t \in Tasks : StepsLeft(ota[t]) = 0 <=> ~Live(t)

\* Every step of an OTA task brings it nearer to its restart, whatever failed and
\* whichever task runs beside it; no other step puts it back.
UpdateBounded ==
    [][\A t \in Tasks :
         /\ OtaStep(t) => StepsLeft(ota'[t]) < StepsLeft(ota[t])
         /\ Live(t) /\ ~OtaStep(t) => ota'[t] \in {ota[t], Off}]_vars

\* Arithmetic: what one try less leaves.
LEMMA TriesLeft ==
    ASSUME NEW n \in 0 .. MaxRetries
    PROVE  /\ TrySteps \in Nat /\ TrySteps >= 4
           /\ (MaxRetries - n) * TrySteps \in Nat
           /\ (MaxRetries - n) * TrySteps <= MaxRetries * TrySteps
           /\ n < MaxRetries =>
                (MaxRetries - n) * TrySteps = (MaxRetries - (n + 1)) * TrySteps + TrySteps
           /\ n < MaxRetries => (MaxRetries - n) * TrySteps >= TrySteps
  <1>1. TrySteps \in Nat /\ TrySteps >= 4
    BY SizesAssumption DEF TrySteps
  <1> DEFINE m == MaxRetries - n
             k == TrySteps
  <1>2. m \in Nat /\ MaxRetries = m + n /\ n \in Nat /\ MaxRetries \in Nat
    BY SizesAssumption
  <1>3. k \in Nat
    BY <1>1
  <1> HIDE DEF m, k
  <1>4. m * k \in Nat /\ n * k \in Nat /\ (m + n) * k = m * k + n * k
    BY <1>2, <1>3
  <1>5. m * k = (m - 1) * k + k
    BY <1>2, <1>3
  <1>6. m >= 1 => (m - 1) * k \in Nat
    BY <1>2, <1>3
  <1>7. m * k <= MaxRetries * k
    BY <1>2, <1>4
  <1>8. m >= 1 => m * k >= k
    <2> SUFFICES ASSUME m >= 1 PROVE m * k >= k
      OBVIOUS
    <2> DEFINE r == (m - 1) * k
    <2>1. r \in Nat /\ m * k = r + k
      BY <1>5, <1>6
    <2> HIDE DEF r
    <2> QED
      BY <2>1, <1>3
  <1>9. MaxRetries - (n + 1) = m - 1 /\ (n < MaxRetries => m >= 1)
    BY <1>2
  <1> QED
    BY <1>1, <1>4, <1>5, <1>7, <1>8, <1>9 DEF m, k

\* A count of the steps left stays within the bounds.
LEMMA StepsLeftBounds ==
    ASSUME TypeInv, NEW t \in Tasks
    PROVE  /\ StepsLeft(ota[t]) \in 0 .. MaxSteps
           /\ StepsLeft(ota[t]) = 0 <=> ~Live(t)
  <1> DEFINE n == ota[t].retry_count
             left == (MaxRetries - n) * TrySteps
  <1>1. n \in 0 .. MaxRetries /\ ota[t].pc \in TaskPCs /\ ota[t].chunk \in 0 .. NumChunks
    BY DEF TypeInv, TypeOK, TaskStates
  <1>2. /\ left \in Nat /\ left <= MaxRetries * TrySteps
        /\ n < MaxRetries => left >= TrySteps
        /\ MaxRetries * TrySteps \in Nat
    BY <1>1, TriesLeft, SizesAssumption
  <1>3. /\ ota[t].pc \in {"attempt", "download", "write"} => n < MaxRetries
        /\ ota[t].pc = "write" => ota[t].chunk < NumChunks
    BY DEF TypeInv, UrlsInv, At
  <1> HIDE DEF n
  <1>4. TrySteps = 2 * NumChunks + 2 /\ NumChunks \in Nat
    BY SizesAssumption DEF TrySteps
  <1>5. StepsLeft(ota[t]) = CASE ota[t].pc = "attempt" -> left + 4
                              [] ota[t].pc = "download" -> left + 3 - 2 * ota[t].chunk
                              [] ota[t].pc = "write" -> left + 2 - 2 * ota[t].chunk
                              [] ota[t].pc = "copy" -> 4
                              [] ota[t].pc \in {"save", "giveup"} -> 3
                              [] ota[t].pc \in {"inform", "savefail"} -> 2
                              [] ota[t].pc = "restart" -> 1
                              [] OTHER -> 0
    BY DEF StepsLeft, n
  <1> HIDE DEF left
  <1> QED
    BY <1>1, <1>2, <1>3, <1>4, <1>5 DEF MaxSteps, TaskPCs, Live

\* Every step of a task, the failed ones too, leaves it fewer.
LEMMA OtaStepCounts ==
    ASSUME TypeInv, NEW t \in Tasks, OtaStep(t)
    PROVE  StepsLeft(ota'[t]) < StepsLeft(ota[t])
  <1> DEFINE n == ota[t].retry_count
             left == (MaxRetries - n) * TrySteps
  <1>0. n \in 0 .. MaxRetries /\ ota[t].chunk \in 0 .. NumChunks /\ DOMAIN ota = Tasks
    BY DEF TypeInv, TypeOK, TaskStates
  <1>1. /\ TrySteps = 2 * NumChunks + 2 /\ NumChunks \in Nat /\ left \in Nat
        /\ n < MaxRetries => left >= TrySteps
        /\ n < MaxRetries => left = (MaxRetries - (n + 1)) * TrySteps + TrySteps
        /\ n < MaxRetries => (MaxRetries - (n + 1)) * TrySteps \in Nat
    <2>1. n < MaxRetries => n + 1 \in 0 .. MaxRetries
      BY <1>0, SizesAssumption
    <2> QED
      BY <1>0, <2>1, TriesLeft, SizesAssumption DEF TrySteps
  <1>2. /\ ota[t].pc \in {"attempt", "download", "write"} => n < MaxRetries
        /\ ota[t].pc = "write" => ota[t].chunk < NumChunks
    BY DEF TypeInv, UrlsInv, At
  <1>3. /\ ota[t].pc = "attempt" => StepsLeft(ota[t]) = left + 4
        /\ ota[t].pc = "download" => StepsLeft(ota[t]) = left + 3 - 2 * ota[t].chunk
        /\ ota[t].pc = "write" => StepsLeft(ota[t]) = left + 2 - 2 * ota[t].chunk
    BY DEF StepsLeft
  <1>4. CASE Attempt(t)
    <2>1. StepsLeft(ota'[t]) = left + 3 - 2 * 0
      BY <1>0, <1>4 DEF Attempt, StepsLeft
    <2> HIDE DEF left
    <2> QED
      BY <1>1, <1>3, <1>4, <2>1 DEF Attempt, At
  <1>5. CASE WriteChunk(t)
    <2>1. StepsLeft(ota'[t]) = left + 3 - 2 * (ota[t].chunk + 1) /\ ota[t].pc = "write"
      BY <1>0, <1>5 DEF WriteChunk, StepsLeft, At, TypeInv, TypeOK, TaskStates
    <2> HIDE DEF left
    <2> QED
      BY <1>0, <1>1, <1>3, <2>1
  <1>10. CASE EraseChunk(t)
    <2>1. StepsLeft(ota'[t]) = left + 2 - 2 * ota[t].chunk /\ ota[t].pc = "download"
      BY <1>0, <1>10 DEF EraseChunk, Goto, StepsLeft, At, TypeInv, TypeOK, TaskStates
    <2> HIDE DEF left
    <2> QED
      BY <1>0, <1>1, <1>3, <2>1
  <1>6. CASE AttemptFails(t)
    <2> DEFINE rest == (MaxRetries - (n + 1)) * TrySteps
    <2>1. \/ StepsLeft(ota'[t]) = rest + 4
          \/ StepsLeft(ota'[t]) = 3
      BY <1>0, <1>6 DEF AttemptFails, StepsLeft
    <2>2. rest \in Nat /\ left = rest + TrySteps
          /\ ota[t].pc \in {"attempt", "download", "write"}
      BY <1>1, <1>2, <1>6 DEF AttemptFails
    <2> HIDE DEF left, rest
    <2> QED
      BY <1>0, <1>1, <1>2, <1>3, <2>1, <2>2
  <1>7. CASE Finish(t) \/ PartitionConflict(t)
    <2>1. StepsLeft(ota'[t]) \in {3, 4} /\ StepsLeft(ota'[t]) <= IF ota[t].pc = "attempt" THEN 3 ELSE 4
      BY <1>0, <1>7 DEF Finish, PartitionConflict, Goto, At, StepsLeft, TypeInv, TypeOK, TaskStates
    <2>2. ota[t].pc \in {"attempt", "download"}
      BY <1>7 DEF Finish, PartitionConflict, At
    <2>3. left >= TrySteps
      BY <1>1, <1>2, <2>2
    <2> HIDE DEF left
    <2> QED
      BY <1>0, <1>1, <1>3, <2>1, <2>2, <2>3
  <1>8. CASE CopyVersion(t) \/ SaveVersion(t) \/ Inform(t) \/ GiveUp(t) \/ SaveFail(t)
    BY <1>0, <1>8 DEF CopyVersion, SaveVersion, Inform, GiveUp, SaveFail, Goto, At, StepsLeft,
                      TypeInv, TypeOK, TaskStates
  <1>9. CASE Restart(t)
    BY <1>9 DEF Restart, Boot, RamReset, At, StepsLeft, Off
  <1> QED
    BY <1>4, <1>5, <1>6, <1>7, <1>8, <1>9, <1>10, OtaStep(t) DEF OtaStep

\* What is not a step of a task ends it with a restart or leaves it alone.
LEMMA OthersLeaveAlone ==
    ASSUME TypeInv, NEW t \in Tasks, Live(t), [Next]_vars, ~OtaStep(t)
    PROVE  ota'[t] \in {ota[t], Off}
  <1> USE DEF flash, globals, main, history
  <1>0. DOMAIN ota = Tasks
    BY DEF TypeInv, TypeOK
  <1>1. ASSUME NEW u \in Tasks, OtaStep(u) PROVE ota'[t] \in {ota[t], Off}
    <2>1. u # t
      BY <1>1
    <2> QED
      BY <1>0, <1>1, <2>1 DEF OtaStep, Attempt, EraseChunk, WriteChunk, Finish, AttemptFails,
           PartitionConflict, CopyVersion, SaveVersion, Inform, GiveUp, SaveFail, Restart,
           Boot, RamReset, Goto
  <1>2. CASE OtaTaskInit
    BY <1>0, <1>2 DEF OtaTaskInit, Goto
  <1>3. CASE ResetRestart \/ PowerCut
    BY <1>3 DEF ResetRestart, PowerCut, Boot, RamReset
  <1>4. CASE \/ MqttConnected \/ MqttDisconnected \/ (\E o \in Offers : FirmwareMessage(o))
             \/ CopyUrl \/ MainRound \/ ReporterStep \/ RereadFlash \/ EraseNvs
             \/ UNCHANGED vars
    BY <1>4 DEF MqttConnected, MqttDisconnected, FirmwareMessage, CopyUrl, MainRound,
         ReporterStep, PublishFailure, ClearFailure, SaveCleared, Rearm, RereadFlash, EraseNvs,
         vars
  <1> QED
    BY <1>1, <1>2, <1>3, <1>4 DEF Next

\* An update takes at most MaxRetries * (2 * NumChunks + 2) + 4 steps of its task: no mix of
\* failing downloads, other tasks, reports and commands makes it run for ever.
THEOREM UpdateCounts == Spec => []InBounds /\ UpdateBounded
  <1>1. TypeInv => InBounds
    BY StepsLeftBounds DEF InBounds
  <1>2. TypeInv /\ [Next]_vars =>
          [\A t \in Tasks :
             /\ OtaStep(t) => StepsLeft(ota'[t]) < StepsLeft(ota[t])
             /\ Live(t) /\ ~OtaStep(t) => ota'[t] \in {ota[t], Off}]_vars
    BY OtaStepCounts, OthersLeaveAlone
  <1> QED
    BY <1>1, <1>2, TypeCorrect, PTL DEF Spec, UpdateBounded

-----------------------------------------------------------------------------
(* The contract *)

\* Erasing or writing a piece of the target leaves the next image what it was, or makes
\* it one of those the bootloader may start: the running one, the factory's, or the offer
\* just downloaded.
LEMMA WriteRestages ==
    ASSUME TypeInv, FlashInv, FlashInv', NEW t \in Tasks, EraseChunk(t) \/ WriteChunk(t)
    PROVE  NextImage' = NextImage \/ NextImage' \in received \cup {slots[running][1], Factory}
  <1> USE DEF globals, main, history
  <1>1. /\ UNCHANGED <<running, otadata, received>> /\ TargetSlot' = TargetSlot
        /\ TargetSlot \in Slots /\ TargetSlot # running /\ TargetSlot # "factory"
        /\ \A s \in Slots \ {TargetSlot} : slots'[s] = slots[s]
    BY ChunkFrame
  <1>2. BootSlot' \in Slots
    BY <1>1 DEF BootSlot, TypeInv, TypeOK, Slots
  <1>3. CASE BootSlot' = running
    BY <1>1, <1>3 DEF NextImage, TypeInv, TypeOK
  <1>4. CASE BootSlot' = "factory"
    BY <1>4, SizesAssumption DEF NextImage, FlashInv, AlwaysBootable, Chunks
  <1>5. CASE BootSlot' # running /\ BootSlot' # "factory"
    <2>1. BootSlot' = TargetSlot
      BY <1>1, <1>2, <1>5 DEF BootSlot, TargetSlot, FlashInv, TypeInv, TypeOK, Slots
    <2>2. Complete(TargetSlot)'
      BY <1>1, <1>5, <2>1 DEF BootSlot, TargetSlot
    <2> DEFINE k == ota[t].chunk + 1
    <2>3. k \in Chunks /\ slots'[TargetSlot][k] = After(t)
      BY ChunkFrame
    <2>4. slots'[TargetSlot][k] = slots'[TargetSlot][1] /\ slots'[TargetSlot][1] \in Images
      BY <1>1, <2>2, <2>3 DEF Complete
    <2>5. After(t) \in received \cup {Blank, Garbled}
      BY DEF EraseChunk, WriteChunk, After, Written, TypeInv, UrlsInv, At, Downloading
    <2>6. slots'[TargetSlot][1] \in received
      BY <2>3, <2>4, <2>5, ImagesAssumption DEF Images
    <2> QED
      BY <1>1, <2>1, <2>6 DEF NextImage
  <1> QED
    BY <1>3, <1>4, <1>5

\* A step that leaves flash and running partition alone stutters in the contract.
LEMMA SameNext ==
    ASSUME UNCHANGED <<slots, otadata>>
    PROVE  NextImage' = NextImage /\ BootSlot' = BootSlot
  BY DEF NextImage, BootSlot, Complete

\* A restart of the device is a Restart of the contract.
LEMMA BootRestarts ==
    ASSUME TypeInv, Boot
    PROVE  Contract!Restart
  <1>1. NextImage' = NextImage /\ BootSlot' = BootSlot
    BY SameNext DEF Boot
  <1> QED
    BY <1>1 DEF Contract!Restart, Boot, RamReset, NextImage

\* Every step of the device is a step of the contract or a stutter.
LEMMA StepImplements ==
    ASSUME TypeInv, FlashInv, FlashInv', [Next]_vars
    PROVE  [Contract!Next]_(Contract!vars)
  <1> USE DEF flash, globals, main, history
  <1>1. ASSUME UNCHANGED <<slots, otadata, running, received>>
        PROVE  UNCHANGED Contract!vars
    BY <1>1, SameNext DEF Contract!vars
  <1>2. ASSUME NEW o \in Offers, FirmwareMessage(o) PROVE Contract!Receive
    <2>1. UNCHANGED <<slots, otadata, running>> /\ received' = received \cup {o}
      BY <1>2 DEF FirmwareMessage
    <2> QED
      BY <2>1, SameNext DEF Contract!Receive
  <1>3. ASSUME NEW t \in Tasks, EraseChunk(t) \/ WriteChunk(t)
        PROVE  Contract!Restage \/ UNCHANGED Contract!vars
    <2>1. slots'[running] = slots[running] /\ UNCHANGED <<running, received>>
      BY <1>3, ChunkFrame DEF TypeInv, TypeOK
    <2> QED
      BY <1>3, <2>1, WriteRestages DEF Contract!Restage, Contract!vars
  <1>4. ASSUME NEW t \in Tasks, Finish(t) PROVE Contract!Restage
    <2>1. UNCHANGED <<slots, running, received>> /\ otadata' = TargetSlot
      BY <1>4 DEF Finish
    <2>2. BootSlot' = TargetSlot
      BY <1>4, <2>1 DEF Finish, BootSlot, Complete
    <2>3. slots[TargetSlot][1] \in received
      BY <1>4, SizesAssumption, ImagesAssumption
         DEF Finish, FlashInv, At, Downloading, Complete, Images
    <2> QED
      BY <2>1, <2>2, <2>3 DEF Contract!Restage, NextImage
  <1>5. ASSUME NEW t \in Tasks, OtaStep(t)
        PROVE  Contract!Next \/ UNCHANGED Contract!vars
    <2>1. CASE EraseChunk(t) \/ WriteChunk(t)
      BY <1>3, <2>1 DEF Contract!Next
    <2>2. CASE Finish(t)
      BY <1>4, <2>2 DEF Contract!Next
    <2>3. CASE Restart(t)
      BY <2>3, BootRestarts DEF Restart, Contract!Next
    <2>4. CASE \/ Attempt(t) \/ AttemptFails(t) \/ PartitionConflict(t) \/ CopyVersion(t)
               \/ SaveVersion(t) \/ Inform(t) \/ GiveUp(t) \/ SaveFail(t)
      BY <1>1, <2>4 DEF Attempt, AttemptFails, PartitionConflict, CopyVersion, SaveVersion,
                        Inform, GiveUp, SaveFail, WriteFlash
    <2> QED
      BY <1>5, <2>1, <2>2, <2>3, <2>4 DEF OtaStep
  <1>6. CASE ResetRestart \/ PowerCut
    BY <1>6, BootRestarts DEF ResetRestart, PowerCut, Contract!Next
  <1>7. CASE \/ MqttConnected \/ MqttDisconnected \/ CopyUrl \/ OtaTaskInit \/ MainRound
             \/ ReporterStep \/ RereadFlash \/ EraseNvs
    BY <1>1, <1>7 DEF MqttConnected, MqttDisconnected, CopyUrl, OtaTaskInit, MainRound,
         ReporterStep, PublishFailure, ClearFailure, SaveCleared, WriteFlash, Rearm,
         RereadFlash, EraseNvs
  <1>8. CASE UNCHANGED vars
    BY <1>1, <1>8 DEF vars
  <1> QED
    BY <1>2, <1>5, <1>6, <1>7, <1>8 DEF Next, Contract!Next

\* The factory state is an initial state of the contract.
LEMMA InitImplements == Init => Contract!Init
  <1> SUFFICES ASSUME Init PROVE Contract!Init
    OBVIOUS
  <1>1. slots["factory"][1] = Factory /\ slots[BootSlot][1] = Factory
    <2>1. BootSlot = "factory"
      BY DEF Init, BootSlot
    <2> QED
      BY <2>1, SizesAssumption DEF Init, Slots, Chunks
  <1> QED
    BY <1>1 DEF Init, Contract!Init, NextImage

\* The detailed system implements the update contract: only a restart changes the
\* image that executes, and what it starts is the image that was running, the
\* factory image, or one that was offered since the last restart.
THEOREM Implements == Spec => ImplementsContract
  BY InitImplements, StepImplements, TypeCorrect, FlashCorrect, PTL
     DEF Spec, ImplementsContract, Contract!Spec

-----------------------------------------------------------------------------
(* The record *)

\* A record of the device is not the sign of an erased NVS.
LEMMA ErasedIsNoRecord ==
    ASSUME NEW rec \in Record
    PROVE  rec # [ver |-> Blank, fail |-> FALSE]
  BY ImagesAssumption DEF Record, Images

\* A restart of the device, planned or not, is one of the store.
LEMMA BootRestartsStore ==
    ASSUME TypeInv, Boot
    PROVE  Store!Restart
  <1>1. nvs # [ver |-> Blank, fail |-> FALSE] /\ FactoryRecord # [ver |-> Blank, fail |-> FALSE]
    BY ErasedIsNoRecord DEF TypeInv, TypeOK, FactoryRecord, Record, Images
  <1> QED
    BY <1>1 DEF Boot, Store!Restart

\* write_flash saves the record in RAM, or does nothing when it fails.
LEMMA WriteFlashSaves ==
    ASSUME TypeInv, WriteFlash(flash_info), flash_info' = flash_info
    PROVE  Store!Save \/ UNCHANGED Store!vars
  <1>1. flash_info \in Record
    BY DEF TypeInv, TypeOK
  <1> QED
    BY <1>1 DEF WriteFlash, Store!Save, Store!vars

\* Every step of the device is a step of the store or a stutter.
LEMMA StepKeepsStore ==
    ASSUME TypeInv, TypeInv', [Next]_vars
    PROVE  [Store!Next]_(Store!vars)
  <1> USE DEF flash, globals, main, history
  <1>1. ASSUME UNCHANGED <<nvs, nvs_erased>>
        PROVE  Store!Change
    BY <1>1 DEF Store!Change, TypeInv, TypeOK
  <1>2. ASSUME NEW t \in Tasks, OtaStep(t)
        PROVE  [Store!Next]_(Store!vars)
    <2>1. CASE SaveVersion(t) \/ SaveFail(t)
      BY <2>1, WriteFlashSaves DEF SaveVersion, SaveFail, Store!Next
    <2>2. CASE Restart(t)
      BY <2>2, BootRestartsStore DEF Restart, Store!Next
    <2>3. CASE \/ Attempt(t) \/ EraseChunk(t) \/ WriteChunk(t) \/ Finish(t)
               \/ AttemptFails(t) \/ PartitionConflict(t) \/ CopyVersion(t) \/ Inform(t)
               \/ GiveUp(t)
      BY <1>1, <2>3 DEF Attempt, EraseChunk, WriteChunk, Finish, AttemptFails, PartitionConflict,
           CopyVersion, Inform, GiveUp, Store!Next
    <2> QED
      BY <1>2, <2>1, <2>2, <2>3 DEF OtaStep
  <1>3. CASE ResetRestart \/ PowerCut
    BY <1>3, BootRestartsStore DEF ResetRestart, PowerCut, Store!Next
  <1>4. CASE SaveCleared
    BY <1>4, WriteFlashSaves DEF SaveCleared, Store!Next
  <1>5. CASE EraseNvs
    BY <1>5 DEF EraseNvs, Store!Erase, Store!Next
  <1>6. CASE \/ MqttConnected \/ MqttDisconnected \/ (\E o \in Offers : FirmwareMessage(o))
             \/ CopyUrl \/ OtaTaskInit \/ MainRound \/ PublishFailure \/ ClearFailure \/ Rearm
             \/ RereadFlash \/ UNCHANGED vars
    BY <1>1, <1>6 DEF MqttConnected, MqttDisconnected, FirmwareMessage, CopyUrl, OtaTaskInit,
         MainRound, PublishFailure, ClearFailure, Rearm, RereadFlash, vars, Store!Next
  <1> QED
    BY <1>2, <1>3, <1>4, <1>5, <1>6 DEF Next, ReporterStep

\* NVS holds a record that RAM held when some task saved it, all of it, or none after an
\* erasure, and nothing is saved between the erasure and the restart, whichever of the
\* OTA tasks, main_task and the UART task change, save and re-read it meanwhile.
THEOREM ImplementsRecord == Spec => ImplementsStore
  <1>1. Init => Store!Init
    BY DEF Init, Store!Init
  <1> QED
    BY <1>1, StepKeepsStore, TypeCorrect, PTL DEF Spec, ImplementsStore, Store!Spec
===============================================================================
