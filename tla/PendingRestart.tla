--------------------------- MODULE PendingRestart ---------------------------
(***************************************************************************)
(* What the firmware update relies on: once a restart is scheduled it stays *)
(* scheduled until the device resets, and the device does not reset while  *)
(* BinManager is busy.                                                     *)
(***************************************************************************)
VARIABLES scheduled, busy

Init == scheduled = FALSE /\ busy = FALSE

Schedule == scheduled' = TRUE /\ UNCHANGED busy

Work == busy' \in BOOLEAN /\ UNCHANGED scheduled

Reset == scheduled /\ ~ busy /\ scheduled' = FALSE /\ busy' = FALSE

Next == Schedule \/ Work \/ Reset

Spec == Init /\ [][Next]_<<scheduled, busy>>
=============================================================================
