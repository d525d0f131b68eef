---------------------------- MODULE RecordStore ----------------------------
(***************************************************************************)
(* What the application record promises, without the tasks that share it:  *)
(* it exists in RAM and in NVS.  NVS holds what RAM held when a task saved *)
(* it, all of it, or nothing after an erasure.  An erasure closes NVS, and *)
(* nothing is saved until it is opened again or the device restarts.       *)
(* After a restart the two are the same, and there is a record.            *)
(***************************************************************************)
CONSTANTS
    Values,   \* the records
    Fresh,    \* the factory record
    Absent    \* no record

VARIABLES
    volatile,   \* the record in RAM
    durable,    \* the record in NVS
    open        \* NVS is initialised

vars == <<volatile, durable, open>>

Init ==
    /\ volatile = Fresh
    /\ durable = Fresh
    /\ open = TRUE

\* A task changes the record in RAM, or reads NVS over it.
Change ==
    /\ volatile' \in Values
    /\ UNCHANGED <<durable, open>>

\* write_flash, of a record changed in the same step or before
Save ==
    /\ open
    /\ volatile' \in Values
    /\ durable' = volatile'
    /\ open' = open

\* nvs_flash_erase
Erase ==
    /\ durable' = Absent
    /\ open' = FALSE
    /\ volatile' = volatile

\* nvs_flash_init, by a task that resets the device although another one has erased NVS
Reopen ==
    /\ open' = TRUE
    /\ UNCHANGED <<volatile, durable>>

\* damda_nvs_init
Restart ==
    /\ durable' = IF durable = Absent THEN Fresh ELSE durable
    /\ volatile' = durable'
    /\ open' = TRUE

Next == Change \/ Save \/ Erase \/ Reopen \/ Restart

Spec == Init /\ [][Next]_vars
=============================================================================
