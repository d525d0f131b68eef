--------------------------- MODULE UpdateContract ---------------------------
(***************************************************************************)
(* What firmware updating promises, without tasks, globals or partitions.  *)
(* A device executes an image.  What it will execute after its next        *)
(* restart is that same image, the factory image, or one that a server     *)
(* offered since the last restart; and only a restart changes the image    *)
(* that executes.                                                          *)
(***************************************************************************)
CONSTANTS Offers, Factory

VARIABLES
    image,    \* what the device executes
    next,     \* what a restart would execute
    offered   \* offers received since the last restart

vars == <<image, next, offered>>

Init ==
    /\ image = Factory
    /\ next = Factory
    /\ offered = {}

Receive ==
    /\ \E o \in Offers : offered' = offered \cup {o}
    /\ UNCHANGED <<image, next>>

\* A download replaces, or spoils, what would be started next.
Restage ==
    /\ next' \in offered \cup {image, Factory}
    /\ UNCHANGED <<image, offered>>

Restart ==
    /\ image' = next
    /\ next' = next
    /\ offered' = {}

Next == Receive \/ Restage \/ Restart

Spec == Init /\ [][Next]_vars
=============================================================================
