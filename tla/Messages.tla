------------------------------ MODULE Messages ------------------------------
(***************************************************************************)
(* What the device reads in a message of the server.  A message is a topic *)
(* and a JSON text; the functions below are the SDK's getters, each of     *)
(* which parses the text anew.  A getter that finds nothing leaves its     *)
(* result buffer as it was: Unset stands for that content.                 *)
(***************************************************************************)
EXTENDS Integers, Sequences, FiniteSets

CONSTANTS
    Absent,   \* the message does not have this item
    Unset     \* the content of a buffer that nobody wrote

ASSUME ValuesAssumption == "text" \notin {Absent, Unset}

VersionUri == "/3/0/3"
UrlUri == "/5/0/1"
FirmwareUris == {VersionUri, UrlUri}

\* The topic is <type>/<kind>/iot-server/<device>/<opr>; o, rc, ec and the entries e
\* (resource n, value sv) are in the text.  Every text has an operation.
Message == [sid : Nat, kind : {"sync", "async"}, opr : {"read", "write", "execute", "delete", "reply"},
            o : {"res", "r", "w", "e", "d"}, rc : {Absent, 200, 404},
            ec : {Absent, 40400, 40443},
            e : Seq([n : FirmwareUris \cup {"other"}, sv : {Absent, "text"}])]

\* getReturnCode and getErrorCode
ReturnCode(m) == IF m.rc = Absent THEN -1 ELSE m.rc
ErrorCode(m) == IF m.ec = Absent THEN 0 ELSE m.ec

\* The string values are read for all entries if the first one has any.
HasStringValues(m) == m.e # <<>> /\ m.e[1].sv # Absent

Named(m, uris) == {i \in 1 .. Len(m.e) : m.e[i].n \in uris}

\* getStringValueByResourceUri: the value of the first entry of that name.
StringValueByResourceUri(m, uri) ==
    IF Named(m, {uri}) = {} THEN Unset
    ELSE LET first == CHOOSE i \in Named(m, {uri}) : \A j \in Named(m, {uri}) : i <= j
         IN  IF m.e[first].sv = Absent THEN Unset ELSE m.e[first].sv

IsFirmwareUpdateMessage_oneUri(m) == Named(m, FirmwareUris) # {}

\* Two entries name the version or the URL.
IsFirmwareUpdateMessage(m) == Cardinality(Named(m, FirmwareUris)) = 2

\* getMessageType: a firmware update whatever the operation; else the operation,
\* with the kind of the topic.
MessageType(m) ==
    CASE IsFirmwareUpdateMessage(m) -> "FIRMWARE_DOWNLOAD"
      [] ~IsFirmwareUpdateMessage(m) /\ m.o = "res" -> "RESPONSE"
      [] ~IsFirmwareUpdateMessage(m) /\ m.o = "r" -> IF m.kind = "sync" THEN "READ" ELSE "READ_ASYNC"
      [] ~IsFirmwareUpdateMessage(m) /\ m.o = "w" -> IF m.kind = "sync" THEN "WRITE" ELSE "WRITE_ASYNC"
      [] ~IsFirmwareUpdateMessage(m) /\ m.o = "e" -> IF m.kind = "sync" THEN "EXECUTE" ELSE "EXECUTE_ASYNC"
      [] ~IsFirmwareUpdateMessage(m) /\ m.o = "d" -> IF m.kind = "sync" THEN "DELETE_SYNC" ELSE "DELETE_ASYNC"

IsControl(m) == MessageType(m) \in {"READ", "WRITE", "EXECUTE"}
IsDelete(m) == MessageType(m) \in {"DELETE_SYNC", "DELETE_ASYNC"}
IsFirmware(m) == MessageType(m) = "FIRMWARE_DOWNLOAD"

IsUnknownDevice_anyNotFound(m) == ReturnCode(m) = 404

\* The server does not know this device.
IsUnknownDevice(m) == ReturnCode(m) = 404 /\ ErrorCode(m) = 40443
=============================================================================
