---------------------------- MODULE DurableCell ----------------------------
(***************************************************************************)
(* What a write-through store promises of one value: it is served from     *)
(* memory, and the row behind it is only ever overwritten with the value   *)
(* memory holds at that moment.  A write whose save fails changes memory   *)
(* alone; a crash throws memory away; the value served after a restart is  *)
(* saved before it is served.                                              *)
(***************************************************************************)
VARIABLES
    volatile,  \* the value in memory; the row's value while the store is closed
    durable,   \* the value in the row
    open       \* is the store open?

vars == <<volatile, durable, open>>

Init == durable = volatile /\ open = TRUE

Save ==
    /\ open
    /\ durable' = volatile'
    /\ UNCHANGED open

SaveFails ==
    /\ open
    /\ UNCHANGED <<durable, open>>

Crash ==
    /\ open
    /\ open' = FALSE
    /\ volatile' = durable
    /\ UNCHANGED durable

Reopen ==
    /\ ~open
    /\ open' = TRUE
    /\ durable' = volatile'

Next == Save \/ SaveFails \/ Crash \/ Reopen

Spec == Init /\ [][Next]_vars
=============================================================================
