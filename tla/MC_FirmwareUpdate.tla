-------------------------- MODULE MC_FirmwareUpdate --------------------------
(* FirmwareUpdate with a firmware partition of two subsectors, a factory   *)
(* image and a second one that works or not.                               *)
EXTENDS FirmwareUpdate, TLC

CONSTANTS A, B

MCSize == (A :> 2) @@ (B :> 2)

\* For an unruly Homer: one image fits, the other is larger than the firmware
\* partition, and its erase runs past the end of the buffer.
MCSizeOver == (A :> 1) @@ (B :> 2)
=============================================================================
