--------------------------- MODULE DeviceContract ---------------------------
(***************************************************************************)
(* What a device promises to its owner and to the server, without tasks,   *)
(* queues or messages: it forgets its credentials only for a reason that   *)
(* the server gave it within the present session, and once it has          *)
(* forgotten them only its owner brings it back.                           *)
(***************************************************************************)
CONSTANT Reasons

VARIABLES
    registered,   \* the server knows the device
    wiped,        \* the device has forgotten its credentials
    reasons       \* what the server has asked for, or complained of, in this session

vars == <<registered, wiped, reasons>>

Init ==
    /\ registered = FALSE
    /\ wiped = FALSE
    /\ reasons = {}

\* A message of the device reaches the server, or the owner deletes the device there.
Exchange ==
    /\ registered' \in BOOLEAN
    /\ reasons' \in {reasons \cup more : more \in SUBSET Reasons}
    /\ registered' /\ ~registered => ~wiped
    /\ wiped' = wiped

EndSession ==
    /\ reasons' = {}
    /\ UNCHANGED <<registered, wiped>>

Wipe ==
    /\ ~wiped
    /\ reasons # {}
    /\ wiped' = TRUE
    /\ reasons' = {}
    /\ registered' = registered

Provision ==
    /\ wiped
    /\ wiped' = FALSE
    /\ UNCHANGED <<registered, reasons>>

Next == Exchange \/ EndSession \/ Wipe \/ Provision

Spec == Init /\ [][Next]_vars
=============================================================================
