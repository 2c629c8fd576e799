---------------------------- MODULE FirmwareStore ----------------------------
(***************************************************************************)
(* What BinManager keeps: the binaries in the BUFFER and BACKUP partitions *)
(* of the external flash and in the FIRMWARE partition of the MCU, the     *)
(* struct_binary that describes each of them, and the flags of             *)
(* Configurator that the application and the bootloader pass to each       *)
(* other.  The unit of data is a subsector.                                *)
(*                                                                         *)
(* A struct or a configuration is saved with ExtMem::secure_write, which   *)
(* ExtMemJournal shows to be indivisible; RAM copy and saved copy agree    *)
(* between two steps, so one variable stands for both, but for the struct  *)
(* of the buffer while unsaved holds.                                      *)
(***************************************************************************)
EXTENDS Integers

CONSTANTS
    Images,     \* the binaries Homer can upload
    Factory,    \* the image the device was programmed with
    Broken,     \* images that never get as far as resetting launched
    Size,       \* Size[g]: subsectors of image g
    N,          \* EXTMEM_SIZEOF_BUFFER in subsectors
    F,          \* INTMEM_SIZEOF_FIRMWARE in subsectors
    Limit,      \* bound of the instance: nobody announces or sends more
    None,       \* no image: an empty build_id
    Blank,      \* an erased subsector
    Torn,       \* a subsector whose erase or program went wrong
    Env         \* what the environment does in this instance

ASSUME StoreAssumption ==
    /\ Factory \in Images \ Broken
    /\ Broken \subseteq Images
    /\ F \in Nat \ {0}
    /\ N \in Nat /\ N > F
    /\ Limit \in Nat /\ Limit >= F
    /\ Size \in [Images -> 1 .. Limit] /\ Size[Factory] <= F
    /\ {None, Blank, Torn} \cap Images = {}
    /\ None # Blank /\ None # Torn /\ Blank # Torn
    /\ Env \subseteq {"power", "disconnect", "timeout", "button", "unruly", "settings",
                      "backup"}

VARIABLES
    ext,        \* the subsectors of the external flash
    fw,         \* the FIRMWARE partition of the MCU
    bin,        \* the struct_binary of each component
    conf,       \* struct_config_ioda: the flags used here
    pc,         \* where the bootloader or the byzance thread is
    mode,       \* the bootloader's mode
    i,          \* the loop in progress; in the application _erase_index
    busy,       \* _bin_buffer.busy
    eraseCounter, \* _erase_counter
    unsaved,    \* the struct of the buffer is newer in RAM than in the flash
    announced,  \* the image whose crc is in _bin_crc_received
    part,       \* _part_index_expected and, in parts, _bin_size_written
    running,    \* _upload_running, with its ticker
    conn,       \* the connection thread in _client_connection_change
    restart,    \* restart_pending
    copied      \* the loop of update_component

flash == <<ext, fw, bin, conf>>
upload == <<busy, eraseCounter, unsaved, announced, part, running, conn, restart, copied>>
vars == <<flash, pc, mode, i, upload>>

BUFFER == 0
BACKUP == N

\* The buffer, the backup and what lies behind it, as far as the largest image
\* announced makes update_component reach.
ExtNo == 0 .. N + Limit

FwNo == 0 .. F - 1

Cell == Images \cup {Blank, Torn}

Component == {"firmware", "backup", "buffer"}

State == {"INVALID", "VALID", "ERASING", "ERASED"}

Bin == [state : State, img : Images \cup {None}, size : 0 .. Limit]

\* defaults_struct_bin.
defaults_struct_bin == [state |-> "INVALID", img |-> None, size |-> 0]

\* Flash bits only go from 1 to 0: programming needs an erased subsector.
Program(old, new) ==
    IF old = Blank \/ old = new THEN new ELSE IF new = Blank THEN old ELSE Torn

\* set_state of a component: the struct is saved.
set_state(c, s) == bin' = [bin EXCEPT ![c].state = s]

\* _copy_binary(dest, src) followed by set_state(dest, VALID).
CopyBinary(dst, src) == bin' = [bin EXCEPT ![dst] = [bin[src] EXCEPT !.state = "VALID"]]

Partition(c) == IF c = "buffer" THEN BUFFER ELSE BACKUP

\* The whole image g lies at base.
WholeAt(memory, base, g) == \A k \in 0 .. Size[g] - 1 : memory[base + k] = g

\* The image that runs when the MCU jumps to the firmware, None when it is
\* not one image from the first to the last subsector.
RunningImage ==
    LET whole == {g \in Images : Size[g] <= F /\ WholeAt(fw, 0, g)} IN
    IF whole = {} THEN None ELSE CHOOSE g \in whole : TRUE

\* The RAM after a reset.
ResetRam ==
    /\ pc' = "off"
    /\ mode' = "none"
    /\ i' = 0
    /\ busy' = FALSE
    /\ eraseCounter' = 0
    /\ unsaved' = FALSE
    /\ announced' = None
    /\ part' = 0
    /\ running' = FALSE
    /\ conn' = "idle"
    /\ restart' = FALSE
    /\ copied' = 0

Init ==
    /\ ext = [k \in ExtNo |-> Blank]
    /\ fw = [k \in FwNo |-> IF k < Size[Factory] THEN Factory ELSE Blank]
    /\ bin = [c \in Component |-> defaults_struct_bin]
    /\ conf \in [flashflag : {0}, launched : {0}, autobackup : {0, 1}]
    /\ pc = "off"
    /\ mode = "none"
    /\ i = 0
    /\ busy = FALSE
    /\ eraseCounter = 0
    /\ unsaved = FALSE
    /\ announced = None
    /\ part = 0
    /\ running = FALSE
    /\ conn = "idle"
    /\ restart = FALSE
    /\ copied = 0
=============================================================================
