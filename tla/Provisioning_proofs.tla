------------------------- MODULE Provisioning_proofs -------------------------
(***************************************************************************)
(* Proofs about Provisioning, for every set of posted credentials and      *)
(* every number of retries.                                                *)
(***************************************************************************)
EXTENDS Provisioning, TLAPS

-----------------------------------------------------------------------------
(* Types *)

LEMMA KeyFacts ==
    /\ Len(LinkKeys) = 4 /\ Len(SetKeys) = 2
    /\ LinkKeys[1] = "server" /\ LinkKeys[2] = "ap_ssid" /\ LinkKeys[3] = "ap_password"
    /\ LinkKeys[4] = "auth_key"
    /\ SetKeys[1] = "ap_ssid" /\ SetKeys[2] = "ap_password"
    /\ Keys = {"server", "ap_ssid", "ap_password", "auth_key"}
    /\ LinkKeys # SetKeys
  <1>1. Len(LinkKeys) = 4 /\ Len(SetKeys) = 2
    BY DEF LinkKeys, SetKeys
  <1>2. /\ LinkKeys[1] = "server" /\ LinkKeys[2] = "ap_ssid" /\ LinkKeys[3] = "ap_password"
        /\ LinkKeys[4] = "auth_key"
        /\ SetKeys[1] = "ap_ssid" /\ SetKeys[2] = "ap_password"
    BY DEF LinkKeys, SetKeys
  <1>3. 1 .. 4 = {1, 2, 3, 4}
    OBVIOUS
  <1>4. Keys = {"server", "ap_ssid", "ap_password", "auth_key"}
    BY <1>2, <1>3 DEF Keys
  <1> QED
    BY <1>1, <1>2, <1>4

LEMMA NoRequestType == NoRequest \in HttpStates
  BY DEF NoRequest, HttpStates, HttpPCs, Values

LEMMA NoCredentialsType == NoCredentials \in [Keys \cup BackupKeys -> Values]
  BY DEF NoCredentials, Values

LEMMA BlameType ==
    ASSUME TypeOK, NEW kind \in Lapses, NEW cond, Blame(kind, cond)
    PROVE  /\ lapses' \subseteq Lapses /\ lapses \subseteq lapses'
           /\ kind \in Recorded /\ cond => kind \in lapses'
  BY DEF TypeOK, Blame, Blamed

\* A failed write of the record is recorded, and without NVS there is none.
LEMMA WriteFlashType ==
    ASSUME TypeOK, NEW rec \in Record, WriteFlash(rec)
    PROVE  /\ record' \in {record, rec} /\ (~nvs_ready => record' = record)
           /\ lapses' \subseteq Lapses /\ lapses \subseteq lapses'
           /\ "unsaved" \in Recorded /\ "unsaved" \notin lapses' /\ nvs_ready => record' = rec
  BY DEF TypeOK, WriteFlash, Blame, Blamed, Lapses

\* So is a failed write of a credential.
LEMMA SetStrType ==
    ASSUME TypeOK, NEW key \in Keys, NEW value \in Values, SetStr(key, value)
    PROVE  /\ creds' \in {creds, [creds EXCEPT ![key] = value]} /\ (~http.open => creds' = creds)
           /\ creds' \in [Keys \cup BackupKeys -> Values]
           /\ lapses' \subseteq Lapses /\ lapses \subseteq lapses'
           /\ "unsaved" \in Recorded /\ "unsaved" \notin lapses' /\ http.open =>
                creds' = [creds EXCEPT ![key] = value]
  <1>1. /\ creds' \in {creds, [creds EXCEPT ![key] = value]} /\ (~http.open => creds' = creds)
        /\ http.open /\ creds'[key] # value /\ "unsaved" \in Recorded => "unsaved" \in lapses'
        /\ lapses' \subseteq Lapses /\ lapses \subseteq lapses'
    BY DEF TypeOK, SetStr, Blame, Blamed, Lapses
  <1>2. creds \in [Keys \cup BackupKeys -> Values]
    BY DEF TypeOK
  <1>3. creds[key] = value => creds = [creds EXCEPT ![key] = value]
    BY <1>2
  <1> QED
    BY <1>1, <1>2, <1>3

\* What a request in the web server writes, and under which key.
LEMMA RequestKeys ==
    ASSUME TypeOK
    PROVE  /\ http.keys \in {LinkKeys, SetKeys} /\ http.next \in 1 .. 4 /\ http.found \in 0 .. 4
           /\ Len(http.keys) \in 2 .. 4
           /\ \A i \in 1 .. Len(http.keys) : http.keys[i] \in Keys
           /\ http.req \in Values
  <1>1. /\ http.keys \in {LinkKeys, SetKeys} /\ http.next \in 1 .. 4 /\ http.found \in 0 .. 4
        /\ http.req \in Values
    BY DEF TypeOK, HttpStates
  <1>2. /\ Len(LinkKeys) \in 2 .. 4 /\ \A i \in 1 .. Len(LinkKeys) : LinkKeys[i] \in Keys
    BY KeyFacts
  <1>3. /\ Len(SetKeys) \in 2 .. 4 /\ \A i \in 1 .. Len(SetKeys) : SetKeys[i] \in Keys
    BY KeyFacts
  <1> QED
    BY <1>1, <1>2, <1>3

LEMMA BootType ==
    ASSUME TypeOK, Boot, lapses' \subseteq Lapses
    PROVE  TypeOK'
  <1>1. record' \in Record /\ record'.mode \in Modes
    BY DEF Boot, TypeOK, Record, FactoryRecord, Modes
  <1>2. resetter' \in [Resetters -> {"idle", "erase", "restart"}]
    BY DEF Boot
  <1>3. 0 \in 0 .. WifiMaximumRetry
    BY ProvisioningAssumption
  <1> QED
    BY <1>1, <1>2, <1>3, NoRequestType DEF Boot, TypeOK

\* The request in the web server, and NVS between an erasure and the restart.
ShapeInv ==
    /\ http.pc # "idle" => phase = "ap" /\ http.req \in Requests
    /\ http.pc \in {"idle", "receive", "mode", "record", "open"} => http.next = 1
    /\ http.next <= Len(http.keys) /\ http.found <= Len(http.keys)
    /\ phase \notin {"start", "ap"} => boot_mode = "NORMAL"
    /\ ~Erased => nvs_ready
    /\ record = Absent => Erased
    /\ ~nvs_ready => record = Absent

LEMMA InitType == Init => TypeOK /\ ShapeInv
  <1>1. Init => TypeOK
    <2>1. FactoryRecord \in Record /\ 0 \in 0 .. WifiMaximumRetry
      BY ProvisioningAssumption DEF Record, FactoryRecord, Modes
    <2> QED
      BY <2>1, NoRequestType, NoCredentialsType DEF Init, TypeOK, Modes
  <1>2. Init => ShapeInv
    BY KeyFacts DEF Init, ShapeInv, NoRequest, FactoryRecord, Absent
  <1> QED
    BY <1>1, <1>2

\* The device restarts.  If it does so while credentials are saved, NVS was erased,
\* or the body lacks a string, or the event is recorded.
Restarts ==
    /\ Boot /\ lapses \subseteq lapses' /\ lapses' \subseteq Lapses
    /\ Saving => \/ Erased \/ http.found < Len(http.keys)
                 \/ "partial" \in Recorded => "partial" \in lapses'

BootEvents ==
    \/ StartSta /\ Boot
    \/ StaDisconnected /\ Boot
    \/ SavePanics /\ Boot
    \/ HttpRestart
    \/ \E r \in Resetters : ResetRestart(r)
    \/ UartSoftApAgain \/ UartSoftApOff \/ PowerCut

LEMMA BootEventsRestart ==
    ASSUME TypeOK, ShapeInv, BootEvents
    PROVE  Restarts
  <1>1. CASE UartSoftApAgain \/ UartSoftApOff \/ PowerCut
    BY <1>1, BlameType DEF UartSoftApAgain, UartSoftApOff, PowerCut, Restarts, Lapses
  <1>2. CASE StartSta /\ Boot
    <2>1. http.pc = "idle"
      BY <1>2 DEF StartSta, ShapeInv
    <2>2. lapses' = lapses
      BY <1>2 DEF StartSta
    <2> QED
      BY <1>2, <2>1, <2>2 DEF Restarts, Saving, TypeOK
  <1>3. CASE StaDisconnected /\ Boot
    <2>1. http.pc = "idle" /\ lapses' = lapses
      BY <1>3 DEF StaDisconnected, ShapeInv
    <2> QED
      BY <1>3, <2>1 DEF Restarts, Saving, TypeOK
  <1>4. CASE SavePanics /\ Boot
    <2>1. http.found < http.next /\ http.next <= Len(http.keys)
      BY <1>4, RequestKeys DEF SavePanics, ShapeInv
    <2>2. http.found < Len(http.keys)
      BY <2>1, RequestKeys
    <2> QED
      BY <1>4, <2>2 DEF SavePanics, Restarts, TypeOK
  <1>5. CASE HttpRestart
    BY <1>5 DEF HttpRestart, Restarts, Saving, TypeOK
  <1>6. CASE \E r \in Resetters : ResetRestart(r)
    BY <1>6 DEF ResetRestart, Restarts, Erased, TypeOK
  <1> QED
    BY <1>1, <1>2, <1>3, <1>4, <1>5, <1>6 DEF BootEvents

LEMMA RestartShape ==
    ASSUME TypeOK, Restarts
    PROVE  TypeOK' /\ ShapeInv'
  <1>1. TypeOK'
    BY BootType DEF Restarts
  <1>2. ~Erased'
    BY DEF Restarts, Boot, Erased
  <1>3. /\ http'.pc = "idle" /\ http'.next = 1 /\ http'.found = 0 /\ http'.keys = LinkKeys
        /\ nvs_ready' /\ record' # Absent /\ phase' = "start"
    BY DEF Restarts, Boot, NoRequest, FactoryRecord, Absent
  <1> QED
    BY <1>1, <1>2, <1>3, KeyFacts DEF ShapeInv
-----------------------------------------------------------------------------
\* The steps of app_main and of the station that are not restarts.
WifiSteps ==
    \/ StartSta /\ phase' = "wait"
    \/ Associate \/ GotIp
    \/ StaDisconnected /\ phase' = phase
    \/ Unregister \/ LoseLink

ServerSteps ==
    \/ \E req \in Requests : \E keys \in {LinkKeys, SetKeys} : Post(req, keys)
    \/ Receive \/ SetMode \/ SaveMode \/ OpenNvs \/ SaveKey
    \/ SavePanics /\ http' = [http EXCEPT !.pc = "restart"]

OtherSteps ==
    \/ SoftAp \/ StationJoins
    \/ (\E r \in Resetters : ResetInit(r) \/ ResetErase(r))
    \/ SaveRecord \/ RereadFlash \/ UartSoftAp

LEMMA NextCases ==
    ASSUME TypeOK, ShapeInv, [Next]_vars
    PROVE  Restarts \/ WifiSteps \/ ServerSteps \/ OtherSteps \/ UNCHANGED vars
  <1>1. StartSta => Boot \/ phase' = "wait"
    BY DEF StartSta
  <1>2. StaDisconnected => Boot \/ phase' = phase
    BY DEF StaDisconnected
  <1>3. SavePanics => Boot \/ http' = [http EXCEPT !.pc = "restart"]
    BY DEF SavePanics
  <1> QED
    BY <1>1, <1>2, <1>3, BootEventsRestart
       DEF Next, HttpStep, ResetStep, BootEvents, WifiSteps, ServerSteps, OtherSteps

LEMMA WifiShape ==
    ASSUME TypeOK, ShapeInv, WifiSteps
    PROVE  /\ TypeOK' /\ ShapeInv'
           /\ UNCHANGED <<nvs, nvs_ready, flash_info, boot_mode, http, resetter, lapses>>
           /\ phase # "ap" /\ phase' # "ap" /\ http.pc = "idle"
  <1>1. UNCHANGED <<nvs, nvs_ready, flash_info, boot_mode, ap_state, http, resetter, lapses>>
    <2>1. CASE StartSta /\ phase' = "wait"
      BY <2>1 DEF StartSta, Boot
    <2>2. CASE StaDisconnected /\ phase' = phase
      BY <2>2 DEF StaDisconnected, Boot
    <2> QED
      BY <2>1, <2>2 DEF WifiSteps, Associate, GotIp, Unregister, LoseLink, Boot
  <1>2. phase # "ap" /\ phase' \in {"wait", "handoff", "up"}
    BY DEF WifiSteps, StartSta, Associate, GotIp, StaDisconnected, Unregister, LoseLink, TypeOK
  <1>3. link' \in {"down", "trying", "associated", "up"} /\ s_retry_num' \in 0 .. WifiMaximumRetry
    <2>1. CASE StaDisconnected /\ phase' = phase
      BY <2>1, ProvisioningAssumption DEF StaDisconnected, Boot, TypeOK
    <2> QED
      BY <2>1, ProvisioningAssumption
         DEF WifiSteps, StartSta, Boot, Associate, GotIp, Unregister, LoseLink, TypeOK
  <1>4. buffers' \in [Keys \cup BackupKeys -> Values]
    <2>1. CASE StartSta
      BY <2>1, NoCredentialsType DEF StartSta, Boot, TypeOK
    <2>2. CASE StaDisconnected /\ phase' = phase
      BY <2>2 DEF StaDisconnected, Boot, TypeOK
    <2> QED
      BY <2>1, <2>2 DEF WifiSteps, Associate, GotIp, Unregister, LoseLink, TypeOK
  <1>5. http.pc = "idle"
    BY <1>2 DEF ShapeInv
  <1>6. TypeOK'
    BY <1>1, <1>2, <1>3, <1>4 DEF TypeOK, nvs
  <1>7. boot_mode = "NORMAL"
    BY DEF WifiSteps, StartSta, Associate, GotIp, StaDisconnected, Unregister, LoseLink, ShapeInv
  <1>8. ShapeInv'
    BY <1>1, <1>5, <1>7 DEF ShapeInv, nvs, Erased
  <1> QED
    BY <1>1, <1>2, <1>5, <1>6, <1>8

LEMMA HttpType ==
    ASSUME http \in HttpStates
    PROVE  /\ \A pc \in HttpPCs : [http EXCEPT !.pc = pc] \in HttpStates
           /\ \A pc \in HttpPCs, n \in 0 .. 4 : [http EXCEPT !.pc = pc, !.found = n] \in HttpStates
           /\ \A pc \in HttpPCs, b \in BOOLEAN : [http EXCEPT !.pc = pc, !.open = b] \in HttpStates
           /\ \A b \in BOOLEAN : [http EXCEPT !.open = b] \in HttpStates
           /\ \A n \in 1 .. 4 : [http EXCEPT !.next = n] \in HttpStates
  BY DEF HttpStates

LEMMA ServerShape ==
    ASSUME TypeOK, ShapeInv, ServerSteps
    PROVE  TypeOK' /\ ShapeInv'
  <1>1. CASE \E req \in Requests : \E keys \in {LinkKeys, SetKeys} : Post(req, keys)
    <2> PICK req \in Requests, keys \in {LinkKeys, SetKeys} : Post(req, keys)
      BY <1>1
    <2>1. /\ http' \in HttpStates /\ http'.next = 1 /\ http'.keys = keys /\ http'.req = req
          /\ http'.found = 0
      BY NoRequestType DEF Post, NoRequest, HttpStates, HttpPCs, Values
    <2>2. 1 <= Len(keys)
      BY KeyFacts
    <2>3. TypeOK'
      BY <2>1, BlameType DEF Post, TypeOK, nvs, wifi, Lapses
    <2> QED
      BY <2>1, <2>2, <2>3 DEF Post, ShapeInv, nvs, wifi, Erased
  <1>2. CASE Receive
    <2> DEFINE Found(n) == [http EXCEPT !.pc = "mode", !.found = n]
    <2>0. http' = NoRequest \/ \E n \in 0 .. 4 : n <= Len(http.keys) /\ http' = Found(n)
      <3>1. Len(http.keys) \in 2 .. 4
        BY RequestKeys
      <3>2. ASSUME NEW m \in 2 .. 4 PROVE \A n \in 0 .. m : n \in 0 .. 4 /\ n <= m
        BY <3>2
      <3>3. http' = NoRequest \/ \E n \in 0 .. Len(http.keys) : http' = Found(n)
        BY <1>2 DEF Receive
      <3> HIDE DEF Found
      <3> QED
        BY <3>1, <3>2, <3>3
    <2>1. http' \in HttpStates
      <3>1. \A n \in 0 .. 4 : Found(n) \in HttpStates
        BY HttpType DEF TypeOK, HttpPCs
      <3> QED
        BY <2>0, <3>1, NoRequestType
    <2>2. lapses' \subseteq Lapses
      BY <1>2, BlameType DEF Receive, TypeOK, Lapses
    <2>3. TypeOK'
      BY <1>2, <2>1, <2>2 DEF Receive, TypeOK, nvs, wifi
    <2>4. \/ http' = NoRequest
          \/ /\ http'.pc = "mode" /\ http'.next = http.next /\ http'.keys = http.keys
             /\ http'.req = http.req /\ http'.found <= Len(http.keys)
      <3>1. \A n \in 0 .. 4 : /\ Found(n).pc = "mode" /\ Found(n).next = http.next
                             /\ Found(n).keys = http.keys /\ Found(n).req = http.req
                             /\ Found(n).found = n
        BY DEF TypeOK, HttpStates
      <3> QED
        BY <2>0, <3>1
    <2>5. /\ NoRequest.pc = "idle" /\ NoRequest.next = 1 /\ NoRequest.found = 0
          /\ NoRequest.keys = LinkKeys
      BY DEF NoRequest
    <2>6. http.pc = "receive"
      BY <1>2 DEF Receive
    <2>7. UNCHANGED <<record, nvs_ready, phase, boot_mode, resetter>>
      BY <1>2 DEF Receive, nvs, wifi
    <2>8. phase = "ap" /\ http.req \in Requests /\ http.next = 1 /\ http.next <= Len(http.keys)
      BY <2>6 DEF ShapeInv
    <2>9. CASE http' = NoRequest
      <3>1. /\ http'.pc = "idle" /\ http'.next = 1 /\ http'.next <= Len(http'.keys)
            /\ http'.found <= Len(http'.keys)
        BY <2>5, <2>9, KeyFacts
      <3> QED
        BY <2>3, <2>7, <3>1 DEF ShapeInv, Erased
    <2>10. CASE http' # NoRequest
      BY <2>3, <2>4, <2>7, <2>8, <2>10 DEF ShapeInv, Erased
    <2> QED
      BY <2>9, <2>10
  <1>3. CASE SetMode
    <2>1. http' \in HttpStates /\ flash_info' \in Record
      BY <1>3, HttpType DEF SetMode, TypeOK, HttpPCs, Record, Modes
    <2>2. TypeOK'
      BY <1>3, <2>1 DEF SetMode, TypeOK, nvs, wifi
    <2> QED
      BY <1>3, <2>2 DEF SetMode, ShapeInv, nvs, wifi, Erased, TypeOK, HttpStates
  <1>4. CASE SaveMode
    <2>0. flash_info \in Record /\ flash_info # Absent
      BY DEF TypeOK, Record, Modes, Absent
    <2>1. /\ http' \in HttpStates /\ record' \in {record, flash_info}
          /\ (~nvs_ready => record' = record) /\ lapses' \subseteq Lapses
      BY <1>4, <2>0, HttpType, WriteFlashType DEF SaveMode, TypeOK, HttpPCs
    <2>2. TypeOK'
      BY <1>4, <2>1 DEF SaveMode, TypeOK, wifi
    <2> QED
      BY <1>4, <2>0, <2>1, <2>2 DEF SaveMode, ShapeInv, wifi, Erased, TypeOK, HttpStates
  <1>5. CASE OpenNvs
    <2>1. http' \in HttpStates
      BY <1>5, HttpType DEF OpenNvs, TypeOK, HttpPCs
    <2>2. TypeOK'
      BY <1>5, <2>1 DEF OpenNvs, TypeOK, nvs, wifi
    <2> QED
      BY <1>5, <2>2 DEF OpenNvs, ShapeInv, nvs, wifi, Erased, TypeOK, HttpStates
  <1>6. CASE SaveKey
    <2>1. Len(http.keys) \in Nat /\ Len(http.keys) <= 4 /\ http.next \in 1 .. 4
      <3>1. http.keys \in {LinkKeys, SetKeys} /\ http.next \in 1 .. 4
        BY DEF TypeOK, HttpStates
      <3>2. http.keys = LinkKeys \/ http.keys = SetKeys
        BY <3>1
      <3>3. Len(LinkKeys) = 4 /\ Len(SetKeys) = 2
        BY KeyFacts
      <3> DEFINE n == Len(http.keys)
      <3>4. n = Len(LinkKeys) \/ n = Len(SetKeys)
        BY <3>2
      <3> HIDE DEF n
      <3>5. n \in Nat /\ n <= 4
        BY <3>3, <3>4
      <3> QED
        BY <3>1, <3>5 DEF n
    <2>2. /\ http' \in HttpStates
          /\ http'.next <= Len(http.keys) /\ http'.keys = http.keys /\ http'.req = http.req
          /\ http'.found = http.found /\ http'.pc \in {"save", "restart"}
      <3>1. CASE http.next < Len(http.keys)
        <4>1. http' = [http EXCEPT !.next = http.next + 1]
          BY <1>6, <3>1 DEF SaveKey
        <4>2. http.next + 1 \in 1 .. 4
          BY <2>1, <3>1
        <4>3. http' \in HttpStates
          BY <4>1, <4>2, HttpType DEF TypeOK
        <4> QED
          BY <1>6, <2>1, <3>1, <4>1, <4>3 DEF SaveKey, TypeOK, HttpStates
      <3>2. CASE ~(http.next < Len(http.keys))
        <4>1. http' = [http EXCEPT !.pc = "restart"]
          BY <1>6, <3>2 DEF SaveKey
        <4>2. http' \in HttpStates
          BY <4>1, HttpType DEF TypeOK, HttpPCs
        <4> QED
          BY <4>1, <4>2 DEF TypeOK, HttpStates, ShapeInv
      <3> QED
        BY <3>1, <3>2
    <2>3. creds' \in [Keys \cup BackupKeys -> Values] /\ lapses' \subseteq Lapses
      <3>1. http.keys[http.next] \in Keys /\ http.req \in Values
        BY RequestKeys DEF ShapeInv
      <3> QED
        BY <1>6, <3>1, SetStrType DEF SaveKey
    <2>4. TypeOK'
      BY <1>6, <2>2, <2>3 DEF SaveKey, TypeOK, wifi
    <2>5. http.pc = "save"
      BY <1>6 DEF SaveKey
    <2> QED
      BY <1>6, <2>2, <2>4, <2>5 DEF SaveKey, ShapeInv, wifi, Erased
  <1>7. CASE SavePanics /\ http' = [http EXCEPT !.pc = "restart"]
    <2>1. http' \in HttpStates /\ http'.pc = "restart"
      <3>1. http' \in HttpStates
        BY <1>7, HttpType DEF TypeOK, HttpPCs
      <3> QED
        BY <1>7, <3>1 DEF TypeOK, HttpStates
    <2>2. /\ UNCHANGED <<nvs, nvs_ready, flash_info, buffers, boot_mode, wifi, ap_state, resetter>>
          /\ lapses' = lapses
      BY <1>7, <2>1 DEF SavePanics, Boot, NoRequest
    <2>3. TypeOK'
      BY <2>1, <2>2 DEF TypeOK, nvs, wifi
    <2>4. http.pc = "save"
      BY <1>7 DEF SavePanics
    <2> QED
      BY <1>7, <2>1, <2>2, <2>3, <2>4 DEF ShapeInv, nvs, wifi, Erased, TypeOK, HttpStates
  <1> QED
    BY <1>1, <1>2, <1>3, <1>4, <1>5, <1>6, <1>7 DEF ServerSteps
LEMMA OtherShape ==
    ASSUME TypeOK, ShapeInv, OtherSteps
    PROVE  TypeOK' /\ ShapeInv'
  <1>0. flash_info # Absent /\ FactoryRecord # Absent /\ FactoryRecord \in Record
    BY DEF TypeOK, Record, Modes, Absent, FactoryRecord
  <1>1. CASE SoftAp
    <2>1. flash_info' \in Record /\ flash_info' # Absent
      BY <1>1 DEF SoftAp, TypeOK, Record, Modes, Absent
    <2>2. /\ record' \in {record, flash_info'} /\ (~nvs_ready => record' = record)
          /\ lapses' \subseteq Lapses
      BY <1>1, <2>1, WriteFlashType DEF SoftAp
    <2>3. TypeOK'
      BY <1>1, <2>1, <2>2 DEF SoftAp, TypeOK
    <2> QED
      BY <1>1, <2>1, <2>2, <2>3 DEF SoftAp, ShapeInv, Erased
  <1>2. CASE StationJoins \/ UartSoftAp
    <2>1. TypeOK'
      BY <1>2 DEF StationJoins, UartSoftAp, TypeOK, nvs, wifi
    <2> QED
      BY <1>2, <2>1 DEF StationJoins, UartSoftAp, ShapeInv, nvs, wifi, Erased
  <1>3. ASSUME NEW r \in Resetters, ResetInit(r)
        PROVE  TypeOK' /\ ShapeInv'
    <2>1. resetter' \in [Resetters -> {"idle", "erase", "restart"}]
      BY <1>3 DEF ResetInit, TypeOK
    <2>2. lapses' \subseteq Lapses
      BY <1>3, BlameType DEF ResetInit, Lapses
    <2>3. TypeOK'
      BY <1>3, <2>1, <2>2 DEF ResetInit, TypeOK, nvs, wifi
    <2>4. Erased' <=> Erased
      BY <1>3 DEF ResetInit, TypeOK, Erased
    <2> QED
      BY <1>3, <2>3, <2>4 DEF ResetInit, ShapeInv, nvs, wifi
  <1>4. ASSUME NEW r \in Resetters, ResetErase(r)
        PROVE  TypeOK' /\ ShapeInv'
    <2>1. resetter' \in [Resetters -> {"idle", "erase", "restart"}]
      BY <1>4 DEF ResetErase, TypeOK
    <2>2. http' \in HttpStates
      BY <1>4, HttpType DEF ResetErase, TypeOK
    <2>3. TypeOK'
      BY <1>4, <2>1, <2>2, NoCredentialsType DEF ResetErase, TypeOK, wifi
    <2>4. Erased'
      BY <1>4 DEF ResetErase, TypeOK, Erased
    <2>5. /\ http'.pc = http.pc /\ http'.req = http.req /\ http'.next = http.next
          /\ http'.keys = http.keys /\ http'.found = http.found
      BY <1>4 DEF ResetErase, TypeOK, HttpStates
    <2> QED
      BY <1>4, <2>3, <2>4, <2>5 DEF ResetErase, ShapeInv, wifi
  <1>5. CASE SaveRecord
    <2>1. /\ record' \in {record, flash_info} /\ (~nvs_ready => record' = record)
          /\ lapses' \subseteq Lapses
      BY <1>5, WriteFlashType DEF SaveRecord, TypeOK
    <2>2. TypeOK'
      BY <1>5, <2>1 DEF SaveRecord, TypeOK, wifi
    <2> QED
      BY <1>0, <1>5, <2>1, <2>2 DEF SaveRecord, ShapeInv, wifi, Erased
  <1>6. CASE RereadFlash
    <2>1. flash_info' \in Record /\ record' \in {record, flash_info'}
      BY <1>0, <1>6 DEF RereadFlash, TypeOK
    <2>2. lapses' \subseteq Lapses
      BY <1>6 DEF RereadFlash, Blamed, Lapses, TypeOK
    <2>3. TypeOK'
      BY <1>6, <2>1, <2>2 DEF RereadFlash, TypeOK, wifi
    <2>4. flash_info' # Absent
      BY <2>1 DEF Record, Modes, Absent
    <2> QED
      BY <1>6, <2>1, <2>3, <2>4 DEF RereadFlash, ShapeInv, wifi, Erased
  <1> QED
    BY <1>1, <1>2, <1>3, <1>4, <1>5, <1>6 DEF OtherSteps

LEMMA NextShape ==
    ASSUME TypeOK, ShapeInv, [Next]_vars
    PROVE  TypeOK' /\ ShapeInv'
  <1>1. CASE UNCHANGED vars
    BY <1>1 DEF vars, nvs, wifi, TypeOK, ShapeInv, Erased
  <1> QED
    BY <1>1, NextCases, RestartShape, WifiShape, ServerShape, OtherShape

\* Types, and the shape of a request in the web server.
THEOREM ShapeCorrect == Spec => [](TypeOK /\ ShapeInv)
  BY InitType, NextShape, PTL DEF Spec

\* Every variable keeps its type, whatever tasks and users interleave.
THEOREM TypeCorrect == Spec => []TypeOK
  BY ShapeCorrect, PTL

-----------------------------------------------------------------------------
(* The identity of a device in normal mode *)

\* Wherever the mode may become NORMAL, the MAC address is known.
IdentityInv ==
    \/ "reread" \in lapses
    \/ /\ \A rec \in {record, flash_info} : rec.mode = "NORMAL" => rec.mac
       /\ phase = "ap" \/ boot_mode = "NORMAL" => flash_info.mac

LEMMA IdentityFrame ==
    ASSUME IdentityInv, record' = record, flash_info' = flash_info, lapses \subseteq lapses',
           phase' = "ap" \/ boot_mode' = "NORMAL" => phase = "ap" \/ boot_mode = "NORMAL"
    PROVE  IdentityInv'
  BY DEF IdentityInv

LEMMA NextIdentity ==
    ASSUME TypeOK, ShapeInv, IdentityInv, "reread" \in Recorded, [Next]_vars
    PROVE  IdentityInv'
  <1>0. flash_info \in Record /\ record \in Record \cup {Absent} /\ Absent.mode = "ABSENT"
        /\ FactoryRecord.mode = "FACTORY" /\ FactoryRecord # Absent
    BY DEF TypeOK, Absent, FactoryRecord
  <1>1. CASE Restarts
    <2>1. /\ record' = (IF record = Absent THEN FactoryRecord ELSE record) /\ flash_info' = record'
          /\ boot_mode' = record'.mode /\ phase' = "start" /\ lapses \subseteq lapses'
      BY <1>1 DEF Restarts, Boot
    <2> QED
      BY <1>0, <2>1 DEF IdentityInv
  <1>2. CASE WifiSteps
    BY <1>2, WifiShape, IdentityFrame DEF nvs
  <1>3. CASE ServerSteps
    <2>1. CASE \/ \E req \in Requests : \E keys \in {LinkKeys, SetKeys} : Post(req, keys)
               \/ Receive \/ OpenNvs \/ SaveKey
               \/ SavePanics /\ http' = [http EXCEPT !.pc = "restart"]
      <3>1. /\ UNCHANGED <<record, flash_info, boot_mode>> /\ lapses \subseteq lapses'
            /\ phase' = phase
        <4>1. CASE SavePanics /\ http' = [http EXCEPT !.pc = "restart"]
          <5>1. http'.pc = "restart"
            BY <4>1 DEF TypeOK, HttpStates
          <5> QED
            BY <4>1, <5>1 DEF SavePanics, Boot, NoRequest, nvs, wifi
        <4> QED
          BY <2>1, <4>1 DEF Post, Receive, OpenNvs, SaveKey, SetStr, Blame, nvs, wifi
      <3> QED
        BY <3>1, IdentityFrame
    <2>2. CASE SetMode
      <3>1. phase = "ap"
        BY <2>2 DEF SetMode, ShapeInv
      <3> QED
        BY <2>2, <3>1 DEF SetMode, IdentityInv, TypeOK, Record, nvs, wifi
    <2>3. CASE SaveMode
      <3>1. record' \in {record, flash_info} /\ lapses \subseteq lapses'
        BY <1>0, <2>3, WriteFlashType DEF SaveMode
      <3> QED
        BY <2>3, <3>1 DEF SaveMode, IdentityInv, wifi
    <2> QED
      BY <1>3, <2>1, <2>2, <2>3 DEF ServerSteps
  <1>4. CASE SoftAp
    <2>1. flash_info'.mac /\ flash_info' \in Record
      BY <1>4 DEF SoftAp, TypeOK, Record
    <2>2. record' \in {record, flash_info'} /\ lapses \subseteq lapses'
      BY <1>4, <2>1, WriteFlashType DEF SoftAp
    <2> QED
      BY <2>1, <2>2 DEF IdentityInv
  <1>5. CASE StationJoins \/ UartSoftAp \/ \E r \in Resetters : ResetInit(r)
    <2>1. /\ UNCHANGED <<record, flash_info, boot_mode>> /\ lapses \subseteq lapses'
          /\ phase' = phase \/ phase = "up"
      BY <1>5 DEF StationJoins, UartSoftAp, ResetInit, Blame, nvs, wifi
    <2>2. phase = "up" => boot_mode = "NORMAL"
      BY DEF ShapeInv
    <2> QED
      BY <1>5, <2>1, <2>2, IdentityFrame
  <1>6. ASSUME NEW r \in Resetters, ResetErase(r)
        PROVE  IdentityInv'
    BY <1>0, <1>6 DEF ResetErase, IdentityInv, wifi
  <1>7. CASE SaveRecord
    <2>1. boot_mode = "NORMAL"
      BY <1>7 DEF SaveRecord, MainRuns
    <2>2. record' \in {record, flash_info} /\ lapses \subseteq lapses'
      BY <1>0, <1>7, WriteFlashType DEF SaveRecord
    <2> QED
      BY <1>7, <2>1, <2>2 DEF SaveRecord, IdentityInv, wifi
  <1>8. CASE RereadFlash
    <2>1. /\ record' \in {record, flash_info'} /\ UNCHANGED <<boot_mode, phase>>
          /\ lapses \subseteq lapses'
          /\ flash_info' # flash_info => "reread" \in lapses'
      BY <1>8 DEF RereadFlash, Blamed, wifi
    <2> QED
      BY <2>1 DEF IdentityInv
  <1>9. CASE UNCHANGED vars
    BY <1>9, IdentityFrame DEF vars, nvs, wifi
  <1> QED
    BY <1>1, <1>2, <1>3, <1>4, <1>5, <1>6, <1>7, <1>8, <1>9, NextCases DEF OtherSteps

\* A device in normal mode knows the MAC address that is part of its identity, whatever
\* saves, resets and restarts come between and whatever NVS refuses, unless a re-read of
\* the record changed it.
THEOREM IdentityCorrect ==
    ASSUME "reread" \in Recorded
    PROVE  Spec => []NormalModeHasIdentity
  <1>1. Init => IdentityInv
    BY DEF Init, IdentityInv, FactoryRecord
  <1>2. TypeOK /\ ShapeInv /\ IdentityInv /\ [Next]_vars => IdentityInv'
    BY NextIdentity
  <1>3. IdentityInv => NormalModeHasIdentity
    BY DEF IdentityInv, NormalModeHasIdentity
  <1> QED
    BY <1>1, <1>2, <1>3, ShapeCorrect, PTL DEF Spec

-----------------------------------------------------------------------------
(* A factory reset forgets *)

\* Between the erasure and the restart NVS is empty and closed, unless a second reset
\* has opened it again.
ErasedInv ==
    Erased /\ "race" \notin lapses =>
        record = Absent /\ creds = NoCredentials /\ ~nvs_ready /\ ~http.open

LEMMA ErasedFrame ==
    ASSUME ErasedInv, creds' = creds \/ http.open, record' = record \/ nvs_ready,
           nvs_ready' = nvs_ready,
           http'.open => http.open \/ nvs_ready, Erased' => Erased, lapses \subseteq lapses'
    PROVE  ErasedInv'
  BY DEF ErasedInv

LEMMA NextErased ==
    ASSUME TypeOK, ShapeInv, ErasedInv, "race" \in Recorded, [Next]_vars
    PROVE  ErasedInv'
  <1>1. CASE Restarts
    BY <1>1 DEF Restarts, Boot, ErasedInv, Erased
  <1>2. CASE WifiSteps
    BY <1>2, WifiShape, ErasedFrame DEF nvs, Erased
  <1>3. CASE ServerSteps
    <2>1. CASE SavePanics /\ http' = [http EXCEPT !.pc = "restart"]
      <3>1. http'.pc = "restart" /\ http'.open = http.open
        BY <2>1 DEF TypeOK, HttpStates
      <3>2. UNCHANGED <<nvs, nvs_ready, resetter, lapses>>
        BY <2>1, <3>1 DEF SavePanics, Boot, NoRequest
      <3> QED
        BY <3>1, <3>2, ErasedFrame DEF nvs, Erased
    <2>2. CASE \/ \E req \in Requests : \E keys \in {LinkKeys, SetKeys} : Post(req, keys)
               \/ Receive \/ SetMode \/ OpenNvs
      <3>1. UNCHANGED <<nvs, nvs_ready, resetter>> /\ lapses \subseteq lapses'
        BY <2>2 DEF Post, Receive, SetMode, OpenNvs, Blame
      <3>2. http'.open => http.open \/ nvs_ready
        <4>1. CASE \E req \in Requests : \E keys \in {LinkKeys, SetKeys} : Post(req, keys)
          BY <4>1 DEF Post, NoRequest
        <4>2. CASE Receive
          <5>1. http \in HttpStates /\ NoRequest.open = FALSE
            BY DEF TypeOK, NoRequest
          <5>2. \/ \E n \in 0 .. Len(http.keys) : http' = [http EXCEPT !.pc = "mode", !.found = n]
                \/ http' = NoRequest
            BY <4>2 DEF Receive
          <5> QED
            BY <5>1, <5>2 DEF HttpStates
        <4>3. CASE SetMode \/ OpenNvs
          BY <4>3 DEF SetMode, OpenNvs, TypeOK, HttpStates
        <4> QED
          BY <2>2, <4>1, <4>2, <4>3
      <3> QED
        BY <3>1, <3>2, ErasedFrame DEF nvs, Erased
    <2>3. CASE SaveMode \/ SaveKey
      <3>1. /\ nvs_ready' = nvs_ready /\ resetter' = resetter /\ lapses \subseteq lapses'
            /\ (creds' = creds) \/ http.open
            /\ (record' = record) \/ nvs_ready
        BY <2>3 DEF SaveMode, SaveKey, SetStr, WriteFlash, Blame
      <3>2. http'.open = http.open
        BY <2>3 DEF SaveMode, SaveKey, TypeOK, HttpStates
      <3> QED
        BY <3>1, <3>2, ErasedFrame DEF Erased
    <2> QED
      BY <1>3, <2>1, <2>2, <2>3 DEF ServerSteps
  <1>4. CASE SoftAp \/ StationJoins \/ SaveRecord \/ RereadFlash \/ UartSoftAp
    <2>1. /\ creds' = creds /\ ((record' = record) \/ nvs_ready) /\ nvs_ready' = nvs_ready
          /\ http' = http /\ resetter' = resetter /\ lapses \subseteq lapses'
      BY <1>4 DEF SoftAp, StationJoins, SaveRecord, RereadFlash, UartSoftAp, WriteFlash, Blame, nvs
    <2> QED
      BY <2>1, ErasedFrame DEF Erased
  <1>5. ASSUME NEW r \in Resetters, ResetInit(r)
        PROVE  ErasedInv'
    <2>1. Erased' <=> Erased
      BY <1>5 DEF ResetInit, TypeOK, Erased
    <2>2. Erased => "race" \in lapses'
      BY <1>5 DEF ResetInit, Blame, Blamed
    <2> QED
      BY <2>1, <2>2 DEF ErasedInv
  <1>6. ASSUME NEW r \in Resetters, ResetErase(r)
        PROVE  ErasedInv'
    BY <1>6 DEF ResetErase, ErasedInv, TypeOK, HttpStates
  <1>7. CASE UNCHANGED vars
    BY <1>7, ErasedFrame DEF vars, nvs, Erased
  <1> QED
    BY <1>1, <1>2, <1>3, <1>4, <1>5, <1>6, <1>7, NextCases DEF OtherSteps

\* After an erasure nobody writes NVS until the restart: it is empty and closed, although
\* the web server, main_task and the OTA task go on saving.
THEOREM ErasedCorrect ==
    ASSUME "race" \in Recorded
    PROVE  Spec => []ErasedInv
  <1>1. Init => ErasedInv
    BY DEF Init, ErasedInv, Erased
  <1> QED
    BY <1>1, NextErased, ShapeCorrect, PTL DEF Spec

\* A device that was reset starts as from the factory, whatever other tasks saved until
\* the restart, unless two tasks reset it at once.
THEOREM ResetCorrect ==
    ASSUME "race" \in Recorded
    PROVE  Spec => ResetForgets
  <1>1. ASSUME ErasedInv, NEW r \in Resetters, ResetRestart(r), "race" \notin lapses
        PROVE  record' = FactoryRecord /\ creds' = NoCredentials
    <2>1. Erased
      BY <1>1 DEF ResetRestart, Erased
    <2> QED
      BY <1>1, <2>1 DEF ErasedInv, ResetRestart, Boot
  <1>2. ErasedInv /\ [Next]_vars =>
            [\A r \in Resetters : ResetRestart(r) /\ "race" \notin lapses =>
                record' = FactoryRecord /\ creds' = NoCredentials]_vars
    BY <1>1
  <1> QED
    BY <1>2, ErasedCorrect, PTL DEF Spec, ResetForgets
-----------------------------------------------------------------------------
(* The Wi-Fi pair *)

\* The server is about to write the password, the SSID of the request being written.
AtPassword == http.pc = "save" /\ http.open /\ http.keys[http.next] = "ap_password"

PairInv ==
    lapses = {} =>
        /\ Erased => ~http.open
        /\ http.pc \notin {"idle", "receive"} => ~(http.found < Len(http.keys))
        /\ AtPassword => creds["ap_ssid"] = http.req
        /\ ~AtPassword => creds["ap_ssid"] = creds["ap_password"]

\* A step that leaves the credentials and does not come to the password.
LEMMA PairFrame ==
    ASSUME PairInv, creds' = creds, lapses \subseteq lapses', Erased' => Erased,
           http'.open => http.open \/ (lapses' = {} => ~Erased),
           AtPassword' <=> AtPassword, http'.req = http.req \/ ~AtPassword,
           \/ http'.pc \in {"idle", "receive"} \/ ~(http'.found < Len(http'.keys)) \/ lapses' # {}
           \/ http.pc \notin {"idle", "receive"} /\ UNCHANGED <<http.found, http.keys>>
    PROVE  PairInv'
  BY DEF PairInv

LEMMA NothingIsNoPair == NoCredentials["ap_ssid"] = NoCredentials["ap_password"]
  BY KeyFacts DEF NoCredentials

LEMMA FirstKey ==
    ASSUME NEW keys \in {LinkKeys, SetKeys}
    PROVE  keys[1] # "ap_password"
  BY KeyFacts

LEMMA SaveKeyPair ==
    ASSUME TypeOK, ShapeInv, PairInv, "unsaved" \in Recorded, SaveKey
    PROVE  PairInv'
  <1> SUFFICES ASSUME lapses' = {}
               PROVE  PairInv'
    BY DEF PairInv
  <1>1. /\ http.pc = "save" /\ http.keys \in {LinkKeys, SetKeys} /\ http.next \in 1 .. 4
        /\ http.next <= Len(http.keys) /\ http.req \in Requests
    BY DEF SaveKey, TypeOK, HttpStates, ShapeInv
  <1>2. /\ lapses = {} /\ resetter' = resetter
        /\ creds' = IF http.open THEN [creds EXCEPT ![http.keys[http.next]] = http.req] ELSE creds
    <2>1. http.keys[http.next] \in Keys /\ http.req \in Values
      BY <1>1, RequestKeys
    <2> QED
      BY <2>1, SetStrType DEF SaveKey
  <1>3. /\ http'.keys = http.keys /\ http'.req = http.req /\ http'.open = http.open
        /\ http'.found = http.found
        /\ \/ http'.pc = "save" /\ http'.next = http.next + 1 /\ http.next < Len(http.keys)
           \/ http'.pc = "restart" /\ ~(http.next < Len(http.keys))
    BY DEF SaveKey, TypeOK, HttpStates
  <1>4. creds \in [Keys \cup BackupKeys -> Values] /\ "ap_ssid" \in Keys /\ "ap_password" \in Keys
    BY KeyFacts DEF TypeOK
  <1>5. CASE ~http.open
    <2>1. ~AtPassword /\ ~AtPassword'
      BY <1>3, <1>5 DEF AtPassword
    <2> QED
      BY <1>1, <1>2, <1>3, <1>5, <2>1, PairFrame DEF Erased
  <1>6. CASE http.open
    <2> DEFINE key == http.keys[http.next]
    <2>1. /\ creds'["ap_ssid"] = IF key = "ap_ssid" THEN http.req ELSE creds["ap_ssid"]
          /\ creds'["ap_password"] = IF key = "ap_password" THEN http.req ELSE creds["ap_password"]
      BY <1>2, <1>4, <1>6
    <2>2. key = "ap_ssid" <=> AtPassword'
      <3>1. CASE http.keys = LinkKeys
        BY <1>1, <1>3, <1>6, <3>1, KeyFacts DEF AtPassword
      <3>2. CASE http.keys = SetKeys
        BY <1>1, <1>3, <1>6, <3>2, KeyFacts DEF AtPassword
      <3> QED
        BY <1>1, <3>1, <3>2
    <2>3. key = "ap_password" <=> AtPassword
      BY <1>1, <1>6 DEF AtPassword
    <2> HIDE DEF key
    <2> QED
      BY <1>1, <1>2, <1>3, <1>6, <2>1, <2>2, <2>3 DEF PairInv, Erased
  <1> QED
    BY <1>5, <1>6

LEMMA ServerPair ==
    ASSUME TypeOK, ShapeInv, ErasedInv, PairInv, {"partial", "race", "unsaved"} \subseteq Recorded,
           ServerSteps
    PROVE  PairInv'
  <1>1. CASE SaveKey
    BY <1>1, SaveKeyPair
  <1>2. CASE SavePanics /\ http' = [http EXCEPT !.pc = "restart"]
    <2>1. http.pc = "save" /\ http.found < http.next /\ http.next <= Len(http.keys)
      BY <1>2, RequestKeys DEF SavePanics, ShapeInv
    <2>2. http.found < Len(http.keys)
      BY <2>1, RequestKeys
    <2>3. lapses' = lapses
      BY <1>2 DEF SavePanics
    <2> QED
      BY <2>1, <2>2, <2>3 DEF PairInv
  <1>3. CASE \/ \E req \in Requests : \E keys \in {LinkKeys, SetKeys} : Post(req, keys)
             \/ Receive \/ SetMode \/ SaveMode
    <2>1. /\ creds' = creds /\ resetter' = resetter /\ lapses \subseteq lapses'
          /\ http.pc \in {"idle", "receive", "mode", "record"}
      BY <1>3 DEF Post, Receive, SetMode, SaveMode, WriteFlash, Blame, nvs
    <2>2. /\ http'.pc # "save" /\ (http'.open => http.open)
          /\ \/ http'.pc \in {"idle", "receive"} \/ ~(http'.found < Len(http'.keys)) \/ lapses' # {}
             \/ http.pc \notin {"idle", "receive"} /\ UNCHANGED <<http.found, http.keys>>
      <3>1. CASE \E req \in Requests : \E keys \in {LinkKeys, SetKeys} : Post(req, keys)
        BY <3>1 DEF Post, NoRequest
      <3>2. CASE Receive
        <4>1. http \in HttpStates /\ NoRequest.open = FALSE /\ NoRequest.pc = "idle"
          BY DEF TypeOK, NoRequest
        <4>2. ASSUME NEW n \in 0 .. Len(http.keys), http' = [http EXCEPT !.pc = "mode", !.found = n],
                     Blame("partial", n < Len(http.keys))
              PROVE  /\ http'.pc = "mode" /\ http'.open = http.open
                     /\ ~(http'.found < Len(http'.keys)) \/ lapses' # {}
          <5>1. /\ http'.pc = "mode" /\ http'.open = http.open /\ http'.found = n
                /\ http'.keys = http.keys
            BY <4>1, <4>2 DEF HttpStates
          <5>2. n < Len(http.keys) => "partial" \in lapses'
            BY <4>2 DEF Blame, Blamed
          <5> QED
            BY <5>1, <5>2
        <4> QED
          BY <3>2, <4>1, <4>2 DEF Receive
      <3>3. CASE SetMode \/ SaveMode
        BY <3>3 DEF SetMode, SaveMode, TypeOK, HttpStates
      <3> QED
        BY <1>3, <3>1, <3>2, <3>3
    <2>3. ~AtPassword /\ ~AtPassword'
      BY <2>1, <2>2 DEF AtPassword
    <2> QED
      BY <2>1, <2>2, <2>3, PairFrame DEF Erased
  <1>4. CASE OpenNvs
    <2>1. /\ creds' = creds /\ resetter' = resetter /\ lapses' = lapses
          /\ http.pc = "open" /\ http'.pc = "save" /\ http'.open = nvs_ready
          /\ http'.found = http.found /\ http'.next = http.next /\ http'.keys = http.keys
      BY <1>4 DEF OpenNvs, nvs, TypeOK, HttpStates
    <2>2. http.keys \in {LinkKeys, SetKeys} /\ http.next = 1
      BY <2>1 DEF TypeOK, HttpStates, ShapeInv
    <2>3. ~AtPassword /\ ~AtPassword'
      BY <2>1, <2>2, FirstKey DEF AtPassword
    <2>4. lapses' = {} /\ Erased => ~nvs_ready
      BY <2>1 DEF ErasedInv
    <2> QED
      BY <2>1, <2>3, <2>4, PairFrame DEF Erased
  <1> QED
    BY <1>1, <1>2, <1>3, <1>4 DEF ServerSteps

LEMMA NextPair ==
    ASSUME TypeOK, ShapeInv, ErasedInv, PairInv, {"partial", "race", "unsaved"} \subseteq Recorded,
           [Next]_vars
    PROVE  PairInv'
  <1>1. CASE Restarts
    <2>1. /\ creds' = creds /\ lapses \subseteq lapses'
          /\ ~Erased' /\ http'.pc = "idle"
      BY <1>1 DEF Restarts, Boot, Erased, NoRequest
    <2>2. lapses' = {} => ~AtPassword
      BY <1>1, <2>1 DEF Restarts, Saving, PairInv, AtPassword
    <2> QED
      BY <2>1, <2>2 DEF PairInv, AtPassword
  <1>2. CASE WifiSteps
    BY <1>2, WifiShape, PairFrame DEF nvs, Erased, AtPassword
  <1>3. CASE ServerSteps
    BY <1>3, ServerPair
  <1>4. CASE SoftAp \/ StationJoins \/ SaveRecord \/ RereadFlash \/ UartSoftAp
    <2>1. /\ creds' = creds /\ http' = http /\ resetter' = resetter /\ lapses \subseteq lapses'
      BY <1>4 DEF SoftAp, StationJoins, SaveRecord, RereadFlash, UartSoftAp, WriteFlash, Blame, nvs
    <2> QED
      BY <2>1, PairFrame DEF Erased, AtPassword
  <1>5. ASSUME NEW r \in Resetters, ResetInit(r)
        PROVE  PairInv'
    <2>1. Erased' <=> Erased
      BY <1>5 DEF ResetInit, TypeOK, Erased
    <2>2. creds' = creds /\ http' = http /\ lapses \subseteq lapses'
      BY <1>5 DEF ResetInit, nvs, Blame
    <2> QED
      BY <2>1, <2>2, PairFrame DEF AtPassword
  <1>6. ASSUME NEW r \in Resetters, ResetErase(r)
        PROVE  PairInv'
    <2>1. /\ creds' = NoCredentials /\ ~http'.open /\ lapses' = lapses
          /\ http'.pc = http.pc /\ http'.found = http.found /\ http'.keys = http.keys
      BY <1>6 DEF ResetErase, TypeOK, HttpStates
    <2> QED
      BY <2>1, NothingIsNoPair DEF PairInv, AtPassword
  <1>7. CASE UNCHANGED vars
    BY <1>7, PairFrame DEF vars, nvs, Erased, AtPassword
  <1> QED
    BY <1>1, <1>2, <1>3, <1>4, <1>5, <1>6, <1>7, NextCases DEF OtherSteps

\* SSID and password in NVS are of one request, whichever of the two handlers wrote them,
\* unless the device restarted in the middle of the writing, on its own or because the body
\* lacks a string, or NVS refused one of the two.
THEOREM PairCorrect ==
    ASSUME {"partial", "race", "unsaved"} \subseteq Recorded
    PROVE  Spec => []WifiPairTogether
  <1>1. Init => PairInv
    BY NothingIsNoPair DEF Init, PairInv, AtPassword, NoRequest, Erased
  <1>2. TypeOK /\ ShapeInv /\ ErasedInv /\ PairInv /\ [Next]_vars => PairInv'
    BY NextPair
  <1>3. PairInv => WifiPairTogether
    BY DEF PairInv, WifiPairTogether, AtPassword
  <1>4. Spec => []ErasedInv
    BY ErasedCorrect
  <1> QED
    BY <1>1, <1>2, <1>3, <1>4, ShapeCorrect, PTL DEF Spec
-----------------------------------------------------------------------------
(* What the web server has saved *)

\* While NVS is not erased, the mode is saved before the credentials, and these one after
\* the other, also when other tasks save or re-read the record meanwhile.
SavedInv ==
    {"reread", "unsaved"} \cap lapses = {} /\ ~Erased =>
        /\ http.pc \in {"record", "open", "save", "restart"} => flash_info.mode = "NORMAL"
        /\ http.pc \in {"open", "save", "restart"} => record.mode = "NORMAL"
        /\ http.pc = "save" =>
             http.open /\ \A i \in 1 .. http.next - 1 : creds[http.keys[i]] = http.req
        /\ http.pc = "restart" /\ http.found = Len(http.keys) =>
             \A i \in 1 .. Len(http.keys) : creds[http.keys[i]] = http.req

\* A step that leaves the request and NVS.
LEMMA SavedFrame ==
    ASSUME SavedInv, UNCHANGED <<nvs, flash_info, http>>, lapses \subseteq lapses', Erased' <=> Erased
    PROVE  SavedInv'
  BY DEF SavedInv, nvs

\* A step before the first key is written.
LEMMA SavedEarly ==
    ASSUME SavedInv, ShapeInv, lapses \subseteq lapses', Erased' <=> Erased,
           http'.pc \in {"idle", "receive", "mode", "record", "open"},
           http'.pc \in {"record", "open"} => flash_info'.mode = "NORMAL",
           http'.pc = "open" /\ ~Erased => record'.mode = "NORMAL"
    PROVE  SavedInv'
  BY DEF SavedInv

LEMMA SavedNextKey ==
    ASSUME TypeOK, ShapeInv, SavedInv, "unsaved" \in Recorded, SaveKey
    PROVE  SavedInv'
  <1> SUFFICES ASSUME {"reread", "unsaved"} \cap lapses' = {}, ~Erased'
               PROVE  SavedInv'
    BY DEF SavedInv
  <1>1. /\ http.pc = "save" /\ http.keys \in {LinkKeys, SetKeys} /\ http.next \in 1 .. 4
        /\ http.next <= Len(http.keys) /\ http.req \in Requests
    BY DEF SaveKey, TypeOK, HttpStates, ShapeInv
  <1>2. /\ lapses \subseteq lapses' /\ resetter' = resetter /\ record' = record
        /\ flash_info' = flash_info
    BY DEF SaveKey, SetStr, Blame
  <1>3. /\ http.open /\ record.mode = "NORMAL" /\ flash_info.mode = "NORMAL"
        /\ \A i \in 1 .. http.next - 1 : creds[http.keys[i]] = http.req
    BY <1>1, <1>2 DEF SavedInv, Erased
  <1>4. /\ http'.keys = http.keys /\ http'.req = http.req /\ http'.open = http.open
        /\ \/ http'.pc = "save" /\ http'.next = http.next + 1
           \/ http'.pc = "restart" /\ ~(http.next < Len(http.keys))
    BY DEF SaveKey, TypeOK, HttpStates
  <1>5. /\ creds \in [Keys \cup BackupKeys -> Values]
        /\ creds' = [creds EXCEPT ![http.keys[http.next]] = http.req]
    <2>1. http.keys[http.next] \in Keys /\ http.req \in Values
      BY <1>1, RequestKeys
    <2> QED
      BY <1>3, <2>1, SetStrType DEF SaveKey, TypeOK
  <1>6. \A i \in 1 .. Len(http.keys) : http.keys[i] \in Keys
    BY RequestKeys
  <1>7. Len(http.keys) \in Nat
    BY RequestKeys
  <1>8. \A i \in 1 .. http.next : creds'[http.keys[i]] = http.req
    <2> TAKE i \in 1 .. http.next
    <2>1. http.keys[i] \in Keys
      BY <1>1, <1>6, <1>7
    <2>2. creds'[http.keys[i]] = IF http.keys[i] = http.keys[http.next] THEN http.req
                                 ELSE creds[http.keys[i]]
      BY <1>5, <2>1
    <2>3. i = http.next \/ i \in 1 .. http.next - 1
      BY <1>1
    <2> QED
      BY <1>3, <2>2, <2>3
  <1>9. CASE http'.pc = "save" /\ http'.next = http.next + 1
    <2>1. http'.next - 1 = http.next
      BY <1>1, <1>9
    <2> QED
      BY <1>2, <1>3, <1>4, <1>8, <1>9, <2>1 DEF SavedInv
  <1>10. CASE http'.pc = "restart" /\ ~(http.next < Len(http.keys))
    <2>1. http.next = Len(http.keys)
      BY <1>1, <1>7, <1>10
    <2> QED
      BY <1>2, <1>3, <1>4, <1>8, <1>10, <2>1 DEF SavedInv
  <1> QED
    BY <1>4, <1>9, <1>10

LEMMA ServerSaved ==
    ASSUME TypeOK, ShapeInv, SavedInv, {"reread", "unsaved"} \subseteq Recorded, ServerSteps
    PROVE  SavedInv'
  <1>1. CASE SaveKey
    BY <1>1, SavedNextKey
  <1>2. CASE SavePanics /\ http' = [http EXCEPT !.pc = "restart"]
    <2>1. /\ http'.pc = "restart" /\ http.pc = "save" /\ http'.found = http.found
          /\ http'.keys = http.keys /\ http.found < http.next /\ http.next <= Len(http.keys)
      BY <1>2, RequestKeys DEF TypeOK, HttpStates, SavePanics, ShapeInv
    <2>2. UNCHANGED <<nvs, flash_info, resetter, lapses>>
      BY <1>2, <2>1 DEF SavePanics, Boot, NoRequest
    <2>3. http.found # Len(http.keys)
      BY <2>1, RequestKeys
    <2> QED
      BY <2>1, <2>2, <2>3 DEF SavedInv, nvs, Erased
  <1>3. CASE (\E req \in Requests : \E keys \in {LinkKeys, SetKeys} : Post(req, keys)) \/ Receive
    <2>1. http'.pc \in {"idle", "receive", "mode"} /\ resetter' = resetter /\ lapses \subseteq lapses'
      <3>1. CASE \E req \in Requests : \E keys \in {LinkKeys, SetKeys} : Post(req, keys)
        BY <3>1 DEF Post, NoRequest, Blame
      <3>2. CASE Receive
        <4>1. \/ \E n \in 0 .. Len(http.keys) : http' = [http EXCEPT !.pc = "mode", !.found = n]
              \/ http' = NoRequest
          BY <3>2 DEF Receive
        <4>2. http \in HttpStates /\ NoRequest.pc = "idle"
          BY DEF TypeOK, NoRequest
        <4>3. http'.pc \in {"idle", "mode"}
          BY <4>1, <4>2 DEF HttpStates
        <4> QED
          BY <3>2, <4>3 DEF Receive, Blame
      <3> QED
        BY <1>3, <3>1, <3>2
    <2> QED
      BY <2>1, SavedEarly DEF Erased
  <1>4. CASE SetMode
    <2>1. http'.pc = "record" /\ flash_info'.mode = "NORMAL" /\ resetter' = resetter /\ lapses' = lapses
      BY <1>4 DEF SetMode, TypeOK, HttpStates, Record
    <2> QED
      BY <2>1, SavedEarly DEF Erased
  <1>5. CASE SaveMode
    <2>1. http'.pc = "open" /\ flash_info' = flash_info /\ resetter' = resetter /\ http.pc = "record"
      BY <1>5 DEF SaveMode, TypeOK, HttpStates
    <2>2. lapses \subseteq lapses' /\ (~Erased /\ "unsaved" \notin lapses' => record' = flash_info)
      BY <1>5, WriteFlashType DEF SaveMode, ShapeInv, TypeOK
    <2> QED
      BY <2>1, <2>2 DEF SavedInv, Erased
  <1>6. CASE OpenNvs
    <2>1. http'.pc = "save" /\ http'.open = nvs_ready /\ http'.next = http.next /\ http.pc = "open"
          /\ UNCHANGED <<nvs, flash_info, resetter, lapses>>
      BY <1>6 DEF OpenNvs, TypeOK, HttpStates
    <2>2. http'.next = 1
      BY <2>1 DEF ShapeInv
    <2>3. \A i \in 1 .. http'.next - 1 : FALSE
      BY <2>2
    <2>4. ~Erased => nvs_ready
      BY DEF ShapeInv
    <2> QED
      BY <2>1, <2>3, <2>4 DEF SavedInv, nvs, Erased
  <1> QED
    BY <1>1, <1>2, <1>3, <1>4, <1>5, <1>6 DEF ServerSteps

LEMMA NextSaved ==
    ASSUME TypeOK, ShapeInv, SavedInv, {"reread", "unsaved"} \subseteq Recorded, [Next]_vars
    PROVE  SavedInv'
  <1>1. CASE Restarts
    BY <1>1 DEF Restarts, Boot, SavedInv, NoRequest
  <1>2. CASE WifiSteps
    BY <1>2, WifiShape, SavedFrame DEF Erased
  <1>3. CASE ServerSteps
    BY <1>3, ServerSaved
  <1>4. CASE SoftAp
    <2>1. http.pc = "idle" /\ http' = http
      BY <1>4 DEF SoftAp, ShapeInv
    <2> QED
      BY <2>1 DEF SavedInv
  <1>5. CASE StationJoins \/ UartSoftAp \/ UNCHANGED vars
    BY <1>5, SavedFrame DEF StationJoins, UartSoftAp, vars, Erased
  <1>6. ASSUME NEW r \in Resetters, ResetInit(r)
        PROVE  SavedInv'
    <2>1. Erased' <=> Erased
      BY <1>6 DEF ResetInit, TypeOK, Erased
    <2> QED
      BY <1>6, <2>1, SavedFrame DEF ResetInit, Blame
  <1>7. ASSUME NEW r \in Resetters, ResetErase(r)
        PROVE  SavedInv'
    <2>1. Erased'
      BY <1>7 DEF ResetErase, TypeOK, Erased
    <2> QED
      BY <2>1 DEF SavedInv
  <1>8. CASE SaveRecord
    <2>1. /\ UNCHANGED <<creds, flash_info, http, resetter>> /\ lapses \subseteq lapses'
          /\ record' = record \/ record' = flash_info
      BY <1>8 DEF SaveRecord, WriteFlash, Blame
    <2> QED
      BY <2>1 DEF SavedInv, Erased
  <1>9. CASE RereadFlash
    <2>1. /\ UNCHANGED <<creds, http, resetter>> /\ lapses \subseteq lapses'
          /\ record # Absent => flash_info' = record /\ record' = record
          /\ flash_info' # flash_info => "reread" \in lapses'
      BY <1>9 DEF RereadFlash, Blamed
    <2>2. ~Erased => record # Absent
      BY DEF ShapeInv
    <2> QED
      BY <2>1, <2>2 DEF SavedInv, Erased
  <1> QED
    BY <1>1, <1>2, <1>3, <1>4, <1>5, <1>6, <1>7, <1>8, <1>9, NextCases DEF OtherSteps

\* When the web server restarts the device, everything it was posted is in NVS, unless NVS
\* refused it or the record was re-read before it was saved.
THEOREM PostCorrect ==
    ASSUME {"reread", "unsaved"} \subseteq Recorded
    PROVE  Spec => PostTakesEffect
  <1>1. Init => SavedInv
    BY DEF Init, SavedInv, NoRequest
  <1>2. TypeOK /\ ShapeInv /\ SavedInv /\ [Next]_vars => SavedInv'
    BY NextSaved
  <1>3. SavedInv /\ [Next]_vars =>
            [HttpRestart /\ http.found = Len(http.keys) /\ {"reread", "unsaved"} \cap lapses = {}
             /\ NoReset =>
                 /\ record.mode = "NORMAL"
                 /\ \A i \in 1 .. Len(http.keys) : creds[http.keys[i]] = http.req]_vars
    <2>1. NoReset => ~Erased
      BY DEF NoReset, Erased
    <2> QED
      BY <2>1 DEF SavedInv, HttpRestart
  <1> QED
    BY <1>1, <1>2, <1>3, ShapeCorrect, PTL DEF Spec, PostTakesEffect
-----------------------------------------------------------------------------
(* A device that starts as a station has its credentials *)

Complete(c) == \A k \in Keys : c[k] # None

\* Wherever the mode may become NORMAL, the credentials in NVS are complete, or the web
\* server is still writing them.
ProvInv ==
    lapses = {} /\ ~Erased =>
        /\ boot_mode = "NORMAL" => Complete(creds)
        /\ record.mode = "NORMAL" => Complete(creds) \/ http.pc \in {"open", "save"}
        /\ flash_info.mode = "NORMAL" => Complete(creds) \/ http.pc \in {"record", "open", "save"}
        /\ http.pc # "idle" /\ http.keys = SetKeys => Complete(creds)
        /\ phase \in {"wait", "handoff", "up"} => Complete(buffers)

\* A step that leaves NVS, the record in RAM and the progress of app_main.
LEMMA ProvFrame ==
    ASSUME ProvInv, UNCHANGED <<nvs, flash_info, http, boot_mode>>, lapses \subseteq lapses',
           Erased' <=> Erased,
           phase' \in {"wait", "handoff", "up"} /\ ~Erased /\ lapses = {} =>
               (phase \in {"wait", "handoff", "up"} /\ buffers' = buffers) \/ Complete(buffers')
    PROVE  ProvInv'
  BY DEF ProvInv, nvs, Complete

\* The last key of a request completes the credentials.
LEMMA SaveKeyProv ==
    ASSUME TypeOK, ShapeInv, PairInv, SavedInv, SavedInv', ProvInv, SaveKey
    PROVE  ProvInv'
  <1> SUFFICES ASSUME lapses' = {}, ~Erased'
               PROVE  ProvInv'
    BY DEF ProvInv
  <1>1. /\ http.pc = "save" /\ http.keys \in {LinkKeys, SetKeys}
        /\ http.req \in Requests /\ phase = "ap"
    BY DEF SaveKey, TypeOK, HttpStates, ShapeInv
  <1>2. /\ lapses = {} /\ ~Erased
        /\ UNCHANGED <<record, flash_info, boot_mode, phase, resetter>>
    BY DEF SaveKey, SetStr, Blame, Erased, wifi
  <1>3. /\ http'.keys = http.keys /\ http'.found = http.found /\ http'.req = http.req
        /\ http'.pc = "save" \/ http'.pc = "restart"
    BY DEF SaveKey, TypeOK, HttpStates
  <1>4. Complete(creds) => Complete(creds')
    <2>1. http.req # None /\ creds \in [Keys \cup BackupKeys -> Values]
      BY <1>1, ProvisioningAssumption DEF TypeOK
    <2>2. \A k \in Keys : creds'[k] = creds[k] \/ creds'[k] = http.req
      BY <2>1 DEF SaveKey, SetStr
    <2> QED
      BY <2>1, <2>2 DEF Complete
  <1>5. CASE http'.pc = "restart"
    <2>0. http.found = Len(http.keys)
      <3>1. ~(http.found < Len(http.keys)) /\ ~(Len(http.keys) < http.next)
        BY <1>1, <1>2, RequestKeys DEF PairInv, ShapeInv
      <3>2. http.found <= Len(http.keys)
        BY DEF ShapeInv
      <3> QED
        BY <3>1, <3>2, RequestKeys
    <2>1. \A i \in 1 .. Len(http.keys) : creds'[http.keys[i]] = http.req
      BY <1>1, <1>2, <1>3, <1>5, <2>0 DEF SavedInv
    <2>2. Complete(creds')
      <3>1. CASE http.keys = SetKeys
        BY <1>1, <1>2, <1>4, <3>1 DEF ProvInv
      <3>2. CASE http.keys = LinkKeys
        <4>1. \A i \in 1 .. 4 : creds'[LinkKeys[i]] = http.req
          BY <2>1, <3>2, KeyFacts
        <4>2. http.req # None
          BY <1>1, ProvisioningAssumption
        <4> QED
          BY <4>1, <4>2 DEF Complete, Keys
      <3> QED
        BY <1>1, <3>1, <3>2
    <2> QED
      BY <1>1, <1>2, <2>2 DEF ProvInv
  <1>6. CASE http'.pc = "save"
    BY <1>1, <1>2, <1>3, <1>4, <1>6 DEF ProvInv
  <1> QED
    BY <1>3, <1>5, <1>6

LEMMA ServerProv ==
    ASSUME TypeOK, ShapeInv, PairInv, SavedInv, SavedInv', ProvInv, Lapses \subseteq Recorded,
           ServerSteps
    PROVE  ProvInv'
  <1> USE DEF Lapses
  <1>1. CASE SaveKey
    BY <1>1, SaveKeyProv
  <1>2. CASE SavePanics /\ http' = [http EXCEPT !.pc = "restart"]
    <2>1. http.pc = "save" /\ http.found < Len(http.keys)
      BY <1>2, RequestKeys DEF SavePanics, ShapeInv
    <2>2. lapses' = lapses
      BY <1>2 DEF SavePanics
    <2> QED
      BY <2>1, <2>2 DEF PairInv, ProvInv
  <1>3. ASSUME NEW req \in Requests, NEW keys \in {LinkKeys, SetKeys}, Post(req, keys)
        PROVE  ProvInv'
    <2>1. /\ http'.pc = "receive" /\ http'.keys = keys /\ http.pc = "idle" /\ phase = "ap"
          /\ UNCHANGED <<record, creds, flash_info, boot_mode, phase, resetter>>
          /\ lapses \subseteq lapses'
      BY <1>3 DEF Post, NoRequest, nvs, wifi, Blame
    <2>2. lapses' = {} /\ keys = SetKeys => Complete(creds)
      BY <1>3 DEF Post, Blame, Blamed, Complete
    <2> QED
      BY <2>1, <2>2 DEF ProvInv, Erased, Complete
  <1>4. CASE Receive
    <2>1. \/ \E n \in 0 .. Len(http.keys) : http' = [http EXCEPT !.pc = "mode", !.found = n]
          \/ http' = NoRequest
      BY <1>4 DEF Receive
    <2>2. http.pc = "receive" /\ (http'.pc = "idle" \/ (http'.pc = "mode" /\ http'.keys = http.keys))
      <3>1. http \in HttpStates /\ NoRequest.pc = "idle"
        BY DEF TypeOK, NoRequest
      <3>2. CASE http' = NoRequest
        BY <1>4, <3>1, <3>2 DEF Receive
      <3>3. CASE http' # NoRequest
        BY <1>4, <2>1, <3>1, <3>3 DEF Receive, HttpStates
      <3> QED
        BY <3>2, <3>3
    <2>3. /\ UNCHANGED <<record, creds, flash_info, boot_mode, phase, resetter, buffers>>
          /\ lapses \subseteq lapses'
      BY <1>4 DEF Receive, nvs, wifi, Blame
    <2> QED
      BY <2>2, <2>3 DEF ProvInv, Erased, Complete
  <1>5. CASE SetMode \/ SaveMode \/ OpenNvs
    <2>1. /\ http'.keys = http.keys /\ phase = "ap"
          /\ UNCHANGED <<creds, boot_mode, phase, resetter>> /\ lapses \subseteq lapses'
          /\ \/ http'.pc = "record" /\ record' = record /\ http.pc = "mode"
             \/ http'.pc \in {"open", "save"} /\ http.pc \in {"record", "open"}
      <3>1. CASE SetMode
        BY <3>1 DEF SetMode, TypeOK, HttpStates, ShapeInv, nvs, wifi
      <3>2. CASE SaveMode
        BY <3>2 DEF SaveMode, WriteFlash, Blame, TypeOK, HttpStates, ShapeInv, nvs, wifi
      <3>3. CASE OpenNvs
        BY <3>3 DEF OpenNvs, TypeOK, HttpStates, ShapeInv, nvs, wifi
      <3> QED
        BY <1>5, <3>1, <3>2, <3>3
    <2> QED
      BY <2>1 DEF ProvInv, Erased, Complete
  <1> QED
    BY <1>1, <1>2, <1>3, <1>4, <1>5 DEF ServerSteps

LEMMA NextProv ==
    ASSUME TypeOK, ShapeInv, ErasedInv, PairInv, SavedInv, SavedInv', ProvInv,
           Lapses \subseteq Recorded, [Next]_vars
    PROVE  ProvInv'
  <1>1. CASE Restarts
    <2> SUFFICES ASSUME lapses' = {}
                 PROVE  ProvInv'
      BY DEF ProvInv
    <2>1. /\ record' = (IF record = Absent THEN FactoryRecord ELSE record) /\ flash_info' = record'
          /\ boot_mode' = record'.mode /\ creds' = creds /\ phase' = "start"
          /\ http'.pc = "idle" /\ lapses = {}
      BY <1>1 DEF Restarts, Boot, NoRequest
    <2>2. record'.mode = "NORMAL" => ~Erased /\ record' = record
      BY <2>1 DEF ErasedInv, FactoryRecord
    <2>3. Saving => Erased
      BY <1>1, <2>1 DEF Restarts, Saving, PairInv, Lapses
    <2>4. record'.mode = "NORMAL" => Complete(creds)
      BY <2>1, <2>2, <2>3 DEF ProvInv, Saving
    <2> QED
      BY <2>1, <2>4 DEF ProvInv
  <1>2. CASE WifiSteps
    <2>1. /\ UNCHANGED <<nvs, flash_info, http, boot_mode, resetter, lapses, nvs_ready>>
      BY <1>2, WifiShape
    <2>2. CASE StartSta /\ phase' = "wait"
      <3>1. buffers' = IF nvs_ready THEN creds ELSE NoCredentials
        BY <2>2 DEF StartSta, Boot
      <3>2. ~Erased /\ lapses = {} => Complete(buffers')
        BY <2>2, <3>1 DEF StartSta, ProvInv, ShapeInv
      <3> QED
        BY <2>1, <3>2, ProvFrame DEF Erased
    <2>3. CASE StaDisconnected /\ phase' = phase
      <3>1. buffers' = buffers /\ phase \in {"wait", "handoff"}
        BY <2>3 DEF StaDisconnected, Boot
      <3> QED
        BY <2>1, <2>3, <3>1, ProvFrame DEF Erased
    <2>4. CASE Associate \/ GotIp \/ Unregister \/ LoseLink
      <3>1. buffers' = buffers /\ phase \in {"wait", "handoff", "up"}
        BY <2>4 DEF Associate, GotIp, Unregister, LoseLink
      <3> QED
        BY <2>1, <3>1, ProvFrame DEF Erased
    <2> QED
      BY <1>2, <2>2, <2>3, <2>4 DEF WifiSteps
  <1>3. CASE ServerSteps
    BY <1>3, ServerProv
  <1>4. CASE SoftAp
    <2>1. /\ UNCHANGED <<creds, http, boot_mode, resetter>> /\ phase' = "ap" /\ http.pc = "idle"
          /\ flash_info'.mode = flash_info.mode /\ (record' = record \/ record' = flash_info')
          /\ lapses \subseteq lapses'
      BY <1>4 DEF SoftAp, WriteFlash, Blame, ShapeInv, TypeOK, Record
    <2> QED
      BY <2>1 DEF ProvInv, Erased, Complete
  <1>5. CASE StationJoins \/ UartSoftAp \/ UNCHANGED vars
    <2>1. /\ UNCHANGED <<nvs, flash_info, http, boot_mode, resetter, lapses, buffers>>
          /\ phase' = phase \/ phase' = "ap"
      BY <1>5 DEF StationJoins, UartSoftAp, vars, wifi
    <2> QED
      BY <2>1, ProvFrame DEF Erased
  <1>6. ASSUME NEW r \in Resetters, ResetInit(r)
        PROVE  ProvInv'
    <2>1. Erased' <=> Erased
      BY <1>6 DEF ResetInit, TypeOK, Erased
    <2> QED
      BY <1>6, <2>1, ProvFrame DEF ResetInit, Blame, wifi
  <1>7. ASSUME NEW r \in Resetters, ResetErase(r)
        PROVE  ProvInv'
    <2>1. Erased'
      BY <1>7 DEF ResetErase, TypeOK, Erased
    <2> QED
      BY <2>1 DEF ProvInv
  <1>8. CASE SaveRecord
    <2>1. /\ UNCHANGED <<creds, flash_info, http, resetter, boot_mode, phase, buffers>>
          /\ boot_mode = "NORMAL" /\ lapses \subseteq lapses'
      BY <1>8 DEF SaveRecord, MainRuns, WriteFlash, Blame, wifi
    <2> QED
      BY <2>1 DEF ProvInv, Erased, Complete
  <1>9. CASE RereadFlash
    <2>1. /\ UNCHANGED <<creds, http, resetter, boot_mode, phase, buffers>> /\ lapses \subseteq lapses'
          /\ record # Absent => flash_info' = record /\ record' = record
      BY <1>9 DEF RereadFlash, wifi
    <2>2. ~Erased => record # Absent
      BY DEF ShapeInv
    <2> QED
      BY <2>1, <2>2 DEF ProvInv, Erased, Complete
  <1> QED
    BY <1>1, <1>2, <1>3, <1>4, <1>5, <1>6, <1>7, <1>8, <1>9, NextCases DEF OtherSteps

\* A device that starts as a station has read every credential it needs, although the
\* booting mode is in NVS before them and other tasks save and re-read the record.
THEOREM ProvisionedCorrect ==
    ASSUME Lapses \subseteq Recorded
    PROVE  Spec => []NormalModeProvisioned
  <1>1. Init => PairInv /\ SavedInv /\ ProvInv
    BY NothingIsNoPair
       DEF Init, PairInv, AtPassword, NoRequest, Erased, SavedInv, ProvInv, FactoryRecord
  <1>2. TypeOK /\ ShapeInv /\ ErasedInv /\ PairInv /\ [Next]_vars => PairInv'
    BY NextPair DEF Lapses
  <1>3. TypeOK /\ ShapeInv /\ SavedInv /\ [Next]_vars => SavedInv'
    BY NextSaved DEF Lapses
  <1>4. TypeOK /\ ShapeInv /\ ErasedInv /\ PairInv /\ SavedInv /\ SavedInv' /\ ProvInv /\ [Next]_vars
            => ProvInv'
    BY NextProv
  <1>5. ProvInv => NormalModeProvisioned
    <2>1. NoReset => ~Erased
      BY DEF NoReset, Erased
    <2> QED
      BY <2>1 DEF ProvInv, NormalModeProvisioned, Complete
  <1>6. Spec => []ErasedInv
    BY ErasedCorrect DEF Lapses
  <1> QED
    BY <1>1, <1>2, <1>3, <1>4, <1>5, <1>6, ShapeCorrect, PTL DEF Spec

-----------------------------------------------------------------------------
(* The record *)

\* write_flash of the record in RAM is a Save of the store; without NVS, and where NVS
\* refuses it, it only changes RAM.
LEMMA WriteFlashSaves ==
    ASSUME flash_info' \in Record, WriteFlash(flash_info'), nvs_ready \in BOOLEAN,
           nvs_ready' = nvs_ready
    PROVE  Store!Save \/ Store!Change
  BY DEF WriteFlash, Store!Save, Store!Change

\* Every step of the device is a step of the store or a stutter.
LEMMA StepKeepsStore ==
    ASSUME TypeOK, ShapeInv, TypeOK', [Next]_vars
    PROVE  [Store!Next]_(Store!vars)
  <1> USE DEF nvs, wifi
  <1>1. flash_info' \in Record /\ nvs_ready \in BOOLEAN
    BY DEF TypeOK
  <1>2. ASSUME UNCHANGED <<record, nvs_ready>>
        PROVE  Store!Change
    BY <1>1, <1>2 DEF Store!Change
  <1>3. CASE Restarts
    BY <1>3 DEF Restarts, Boot, Store!Restart, Store!Next
  <1>4. CASE WifiSteps
    BY <1>2, <1>4, WifiShape DEF Store!Next
  <1>5. CASE ServerSteps
    <2>1. CASE SaveMode
      BY <1>1, <2>1, WriteFlashSaves DEF SaveMode, Store!Next
    <2>2. CASE SavePanics /\ http' = [http EXCEPT !.pc = "restart"]
      <3>1. http'.pc = "restart"
        BY <2>2 DEF TypeOK, HttpStates
      <3> QED
        BY <1>2, <2>2, <3>1 DEF SavePanics, Boot, NoRequest, Store!Next
    <2>3. CASE \/ \E req \in Requests : \E keys \in {LinkKeys, SetKeys} : Post(req, keys)
               \/ Receive \/ SetMode \/ OpenNvs \/ SaveKey
      BY <1>2, <2>3 DEF Post, Receive, SetMode, OpenNvs, SaveKey, Store!Next
    <2> QED
      BY <1>5, <2>1, <2>2, <2>3 DEF ServerSteps
  <1>6. CASE OtherSteps
    <2>1. CASE SoftAp \/ SaveRecord
      BY <1>1, <2>1, WriteFlashSaves DEF SoftAp, SaveRecord, Store!Next
    <2>2. CASE StationJoins \/ UartSoftAp
      BY <1>2, <2>2 DEF StationJoins, UartSoftAp, Store!Next
    <2>3. ASSUME NEW r \in Resetters, ResetInit(r) PROVE Store!Reopen
      BY <2>3 DEF ResetInit, Store!Reopen
    <2>4. ASSUME NEW r \in Resetters, ResetErase(r) PROVE Store!Erase
      BY <2>4 DEF ResetErase, Store!Erase
    <2>5. CASE RereadFlash
      BY <1>1, <1>2, <2>5 DEF RereadFlash, Store!Save, Store!Next
    <2> QED
      BY <1>6, <2>1, <2>2, <2>3, <2>4, <2>5 DEF OtherSteps, Store!Next
  <1>7. CASE UNCHANGED vars
    BY <1>7 DEF vars, Store!vars
  <1> QED
    BY <1>3, <1>4, <1>5, <1>6, <1>7, NextCases

\* The record keeps the promises of the store although three tasks reset the device, one
\* of them opens NVS again that another has erased, and the web server saves meanwhile.
THEOREM ImplementsRecord == Spec => ImplementsStore
  <1>1. Init => Store!Init
    BY DEF Init, Store!Init
  <1> QED
    BY <1>1, StepKeepsStore, ShapeCorrect, NextShape, PTL DEF Spec, ImplementsStore, Store!Spec

-----------------------------------------------------------------------------
(* How long a station waits, and how long a reset takes *)

\* While app_main waits for the network, an attempt to connect is under way, or the network
\* owes the device an address.
WaitInv == phase = "wait" => link \in {"trying", "associated"}

\* The reports that app_main waits for at most: of each attempt, that the access point
\* accepts it and that it has an address or is lost.
ReportsLeft ==
    IF phase # "wait" THEN 0
    ELSE 2 * (WifiMaximumRetry + 1 - s_retry_num) - (IF link = "associated" THEN 1 ELSE 0)

\* Each report is one less to wait for, and nothing but a restart of the device disturbs
\* the count: no command, no request in the web server and no reset that goes on beside it.
StationBounded ==
    [][phase = "wait" =>
         IF Associate \/ GotIp \/ StaDisconnected THEN ReportsLeft' < ReportsLeft
         ELSE phase' = "start" \/ ReportsLeft' = ReportsLeft]_vars

\* The steps that a task has left of its factory reset.
ResetLeft(r) == CASE resetter[r] = "erase" -> 2 [] resetter[r] = "restart" -> 1 [] OTHER -> 0

\* Each of its steps brings a reset nearer to the restart; no other step but a restart of
\* the device has an effect on it, a reset by another task included.
ResetBounded ==
    [][\A r \in Resetters : resetter[r] # "idle" =>
         IF ResetStep(r) THEN ResetLeft(r)' < ResetLeft(r)
         ELSE resetter'[r] \in {resetter[r], "idle"}]_vars

\* The web server, the other tasks and the resets leave a station that waits alone.
LEMMA OthersLeaveStation ==
    ASSUME TypeOK, ServerSteps \/ OtherSteps
    PROVE  \/ phase' = phase /\ link' = link /\ s_retry_num' = s_retry_num
           \/ phase # "wait" /\ phase' = "ap"
  <1>1. CASE ServerSteps
    <2>1. CASE SavePanics /\ http' = [http EXCEPT !.pc = "restart"]
      <3>1. http'.pc = "restart"
        BY <2>1 DEF TypeOK, HttpStates
      <3> QED
        BY <2>1, <3>1 DEF SavePanics, Boot, NoRequest, wifi
    <2>2. CASE ~(SavePanics /\ http' = [http EXCEPT !.pc = "restart"])
      BY <1>1, <2>2 DEF ServerSteps, Post, Receive, SetMode, SaveMode, OpenNvs, SaveKey, wifi
    <2> QED
      BY <2>1, <2>2
  <1>2. CASE OtherSteps
    BY <1>2 DEF OtherSteps, SoftAp, StationJoins, ResetInit, ResetErase, SaveRecord, RereadFlash,
                UartSoftAp, wifi
  <1> QED
    BY <1>1, <1>2

\* A step of the station keeps it trying, until it has an address or the device restarts.
LEMMA NextWait ==
    ASSUME TypeOK, ShapeInv, WaitInv, [Next]_vars
    PROVE  WaitInv'
  <1>1. CASE Restarts
    BY <1>1 DEF Restarts, Boot, WaitInv
  <1>2. CASE WifiSteps
    BY <1>2 DEF WifiSteps, StartSta, Associate, GotIp, StaDisconnected, Unregister, LoseLink, Boot,
                WaitInv
  <1>3. CASE ServerSteps \/ OtherSteps
    BY <1>3, OthersLeaveStation DEF WaitInv
  <1>4. CASE UNCHANGED vars
    BY <1>4 DEF vars, wifi, WaitInv
  <1> QED
    BY <1>1, <1>2, <1>3, <1>4, NextCases

LEMMA StationStep ==
    ASSUME TypeOK, ShapeInv, WaitInv, [Next]_vars, phase = "wait"
    PROVE  IF Associate \/ GotIp \/ StaDisconnected THEN ReportsLeft' < ReportsLeft
           ELSE phase' = "start" \/ ReportsLeft' = ReportsLeft
  <1>0. /\ WifiMaximumRetry \in Nat /\ s_retry_num \in 0 .. WifiMaximumRetry
        /\ link \in {"trying", "associated"}
        /\ ReportsLeft =
             2 * (WifiMaximumRetry + 1 - s_retry_num) - (IF link = "associated" THEN 1 ELSE 0)
    BY ProvisioningAssumption DEF TypeOK, WaitInv, ReportsLeft
  <1>4. CASE Associate
    <2>1. /\ phase' = "wait" /\ link = "trying" /\ link' = "associated"
          /\ s_retry_num' = s_retry_num
      BY <1>4 DEF Associate
    <2>2. ReportsLeft' = 2 * (WifiMaximumRetry + 1 - s_retry_num) - 1
      BY <2>1 DEF ReportsLeft
    <2> QED
      BY <1>0, <1>4, <2>1, <2>2
  <1>1. CASE GotIp
    <2>1. ReportsLeft' = 0
      BY <1>1 DEF GotIp, ReportsLeft
    <2> QED
      BY <1>0, <1>1, <2>1
  <1>2. CASE StaDisconnected
    <2>1. CASE s_retry_num < WifiMaximumRetry
      <3>1. phase' = "wait" /\ s_retry_num' = s_retry_num + 1 /\ link' = "trying"
        BY <1>2, <2>1 DEF StaDisconnected
      <3>2. ReportsLeft' = 2 * (WifiMaximumRetry + 1 - (s_retry_num + 1)) - 0
        BY <3>1 DEF ReportsLeft
      <3> QED
        BY <1>0, <1>2, <3>2
    <2>2. CASE ~(s_retry_num < WifiMaximumRetry)
      <3>1. ReportsLeft' = 0
        BY <1>2, <2>2 DEF StaDisconnected, Boot, ReportsLeft
      <3> QED
        BY <1>0, <1>2, <3>1
    <2> QED
      BY <2>1, <2>2
  <1>3. CASE ~(Associate \/ GotIp \/ StaDisconnected)
    <2>1. CASE Restarts
      BY <1>3, <2>1 DEF Restarts, Boot
    <2>2. ~WifiSteps
      BY <1>3 DEF WifiSteps, StartSta, Unregister, LoseLink
    <2>3. CASE ServerSteps \/ OtherSteps
      BY <1>3, <2>3, OthersLeaveStation DEF ReportsLeft
    <2>4. CASE UNCHANGED vars
      BY <1>3, <2>4 DEF vars, wifi, ReportsLeft
    <2> QED
      BY <2>1, <2>2, <2>3, <2>4, NextCases
  <1> QED
    BY <1>1, <1>2, <1>3, <1>4

\* A station that waits for its network waits for the radio or for an address, and for
\* 2 * (WifiMaximumRetry + 1) reports at most; then it has an address, or the device
\* restarts.  Nothing bounds the wait for the address.
THEOREM StationCounts ==
    Spec => [](WaitInv /\ (phase = "wait" => ReportsLeft \in 1 .. 2 * (WifiMaximumRetry + 1)))
            /\ StationBounded
  <1>1. Init => WaitInv
    BY DEF Init, WaitInv
  <1>2. TypeOK => (phase = "wait" => ReportsLeft \in 1 .. 2 * (WifiMaximumRetry + 1))
    BY ProvisioningAssumption DEF TypeOK, ReportsLeft
  <1>3. TypeOK /\ ShapeInv /\ WaitInv /\ [Next]_vars =>
          [phase = "wait" =>
             IF Associate \/ GotIp \/ StaDisconnected THEN ReportsLeft' < ReportsLeft
             ELSE phase' = "start" \/ ReportsLeft' = ReportsLeft]_vars
    BY StationStep
  <1> QED
    BY <1>1, <1>2, <1>3, NextWait, ShapeCorrect, PTL DEF Spec, StationBounded

LEMMA ResetStepCounts ==
    ASSUME TypeOK, ShapeInv, [Next]_vars, NEW r \in Resetters, resetter[r] # "idle"
    PROVE  IF ResetStep(r) THEN ResetLeft(r)' < ResetLeft(r)
           ELSE resetter'[r] \in {resetter[r], "idle"}
  <1>0. DOMAIN resetter = Resetters
    BY DEF TypeOK
  <1>1. CASE ResetErase(r)
    BY <1>0, <1>1 DEF ResetErase, ResetStep, ResetLeft
  <1>2. CASE ResetRestart(r)
    BY <1>2 DEF ResetRestart, Boot, ResetStep, ResetLeft
  <1>3. CASE ~ResetStep(r)
    <2>1. CASE Restarts
      BY <1>3, <2>1 DEF Restarts, Boot
    <2>2. CASE WifiSteps
      BY <1>3, <2>2, WifiShape
    <2>3. CASE ServerSteps
      <3>1. UNCHANGED resetter
        <4>1. CASE SavePanics /\ http' = [http EXCEPT !.pc = "restart"]
          <5>1. http'.pc = "restart"
            BY <4>1 DEF TypeOK, HttpStates
          <5> QED
            BY <4>1, <5>1 DEF SavePanics, Boot, NoRequest
        <4>2. CASE ~(SavePanics /\ http' = [http EXCEPT !.pc = "restart"])
          BY <2>3, <4>2 DEF ServerSteps, Post, Receive, SetMode, SaveMode, OpenNvs, SaveKey
        <4> QED
          BY <4>1, <4>2
      <3> QED
        BY <1>3, <3>1
    <2>4. CASE OtherSteps
      <3>1. ASSUME NEW q \in Resetters, ResetInit(q) \/ ResetErase(q) PROVE resetter'[r] = resetter[r]
        <4>1. q # r
          BY <1>3, <3>1 DEF ResetInit, ResetStep
        <4> QED
          BY <1>0, <3>1, <4>1 DEF ResetInit, ResetErase
      <3> QED
        BY <1>3, <2>4, <3>1 DEF OtherSteps, SoftAp, StationJoins, SaveRecord, RereadFlash, UartSoftAp
    <2>5. CASE UNCHANGED vars
      BY <1>3, <2>5 DEF vars
    <2> QED
      BY <2>1, <2>2, <2>3, <2>4, <2>5, NextCases
  <1> QED
    BY <1>1, <1>2, <1>3 DEF ResetStep

\* A factory reset is over after two more steps of its task, at most, however many tasks
\* reset the device at once.
THEOREM ResetCounts == Spec => ResetBounded
  <1>1. TypeOK /\ ShapeInv /\ [Next]_vars =>
          [\A r \in Resetters : resetter[r] # "idle" =>
             IF ResetStep(r) THEN ResetLeft(r)' < ResetLeft(r)
             ELSE resetter'[r] \in {resetter[r], "idle"}]_vars
    BY ResetStepCounts
  <1> QED
    BY <1>1, ShapeCorrect, PTL DEF Spec, ResetBounded
=============================================================================
