------------------------ MODULE MC_BootloaderSerial ------------------------
(* BootloaderSerial with a line that fills the buffer and one that is too   *)
(* long, sent on two ports.                                                 *)
EXTENDS BootloaderSerial, TLC

CONSTANTS fills, over

MCLength == (fills :> 2) @@ (over :> 5)

Ports == Permutations(Sources)
=============================================================================
