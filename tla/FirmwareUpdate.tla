--------------------------- MODULE FirmwareUpdate ---------------------------
(***************************************************************************)
(* The firmware update from the upload by Homer to the start of the new    *)
(* firmware or the return to the old one: the application and the          *)
(* bootloader take turns on the same flash memories, with resets between   *)
(* and inside their steps.                                                 *)
(***************************************************************************)
EXTENDS Bootloader, Application

\* What an interrupted erase or program of the chips leaves behind.
Interrupted ==
    \/ UNCHANGED flash
    \/ /\ \E k \in ExtNo, u \in {Blank, Torn} :
              /\ \/ pc = "r_erase" /\ i < eraseCounter /\ k = BUFFER + i
                 \/ pc = "bk_copy" /\ i < bin["firmware"].size /\ k = BACKUP + i
                 \/ pc = "loop" /\ Ram.state = "ERASING" /\ i < eraseCounter
                    /\ k = BUFFER + i
                 \/ pc = "upd_copy" /\ copied < Ram.size /\ k = BACKUP + copied /\ u = Torn
                 \/ pc = "writing" /\ k = BUFFER + part /\ u = Torn
              /\ ext' = [ext EXCEPT ![k] = u]
       /\ UNCHANGED <<fw, bin, conf>>
    \/ /\ pc = "upd_erase"
       /\ \E n \in 0 .. Ram.size, u \in {Blank, Torn} :
              ext' = [k \in ExtNo |-> IF k = BACKUP + n THEN u
                                     ELSE IF k - BACKUP \in 0 .. n THEN Blank ELSE ext[k]]
       /\ UNCHANGED <<fw, bin, conf>>
    \/ /\ pc = "fl_erase"
       /\ \E n \in 0 .. bin[Source].size - 1, u \in {Blank, Torn} :
              fw' = [k \in FwNo |-> IF k = n THEN u ELSE IF k < n THEN Blank ELSE fw[k]]
       /\ UNCHANGED <<ext, bin, conf>>
    \/ /\ pc = "fl_copy"
       /\ i < bin[Source].size
       /\ fw' = [fw EXCEPT ![i] = Torn]
       /\ UNCHANGED <<ext, bin, conf>>

PowerLoss ==
    /\ "power" \in Env
    /\ pc # "off"
    /\ Interrupted
    /\ ResetRam

\* ticker_call of ByzanceCore: a pending restart waits while BinManager is
\* busy (_restart_follows), then HAL_NVIC_SystemReset.
RestartTick ==
    /\ restart
    /\ pc \in Running
    /\ ~ busy
    /\ Interrupted
    /\ ResetRam

Next ==
    \/ BootloaderStep \/ Command
    \/ AppStep \/ HomerStep
    \/ Disconnect \/ ConnectionStop \/ UploadTimeout
    \/ RestartTick \/ PowerLoss

Spec == Init /\ [][Next]_vars

\* The MCU runs: neither the bootloader nor the byzance thread nor the
\* connection thread stops, and the ticker that restarts the device fires.
Fairness ==
    /\ WF_vars(BootloaderStep)
    /\ WF_vars(AppStep)
    /\ WF_vars(ConnectionStop)
    /\ WF_vars(RestartTick)

FairSpec == Spec /\ Fairness

-----------------------------------------------------------------------------
(* Properties.                                                             *)

\* The longest erase: of the buffer, or for the largest image announced.
MaxErase == IF N > Limit THEN N + 1 ELSE Limit + 1

\* The flash, the structs, the flags and the counters of the update.
TypeOK ==
    /\ ext \in [ExtNo -> Cell]
    /\ fw \in [FwNo -> Cell]
    /\ bin \in [Component -> Bin] /\ bin["firmware"].size <= F
    /\ conf \in [flashflag : {0, 1}, launched : {0, 1}, autobackup : {0, 1}]
    /\ pc \in Running \cup {"off", "r_erase", "select", "backup", "bk_copy", "fl_start",
                            "fl_erase", "fl_copy", "fl_conf", "end", "commands",
                            "app_fix", "app_launch"}
    /\ mode \in {"none", "FLASH", "RESTORE", "COMMANDS", "JUMP"}
    /\ i \in 0 .. MaxErase
    /\ busy \in BOOLEAN
    /\ eraseCounter \in 0 .. MaxErase
    /\ unsaved \in BOOLEAN
    /\ announced \in Images \cup {None}
    /\ part \in 0 .. Limit
    /\ running \in BOOLEAN
    /\ conn \in {"idle", "stop"}
    /\ restart \in BOOLEAN
    /\ copied \in 0 .. Limit

\* bootloader_end only jumps to a firmware that was written from its first to
\* its last subsector, however often the power failed while it was flashed or
\* restored.
JumpOnlyToWhole == pc = "app_fix" => RunningImage # None

\* The binary in component c is the one its struct names.
Intact(c) ==
    /\ bin[c].img # None
    /\ IF c = "firmware" THEN WholeAt(fw, 0, bin[c].img)
                         ELSE WholeAt(ext, Partition(c), bin[c].img)

\* A VALID buffer holds the announced image ("binary uploaded or written +
\* verified"), so flash_firmware never copies anything else.
ValidBufferIntact == bin["buffer"].state = "VALID" => Intact("buffer")

\* A VALID backup holds the image its struct names.
ValidBackupIntact == bin["backup"].state = "VALID" => Intact("backup")

\* Of a VALID backup or firmware at most the first subsector is missing, and
\* then it is erased, so that bootloader_end sees it; or restore_processes has
\* still to finish and will erase it.
OnlyFirstLost ==
    /\ bin["backup"].state = "VALID" =>
           LET g == bin["backup"].img IN
           \A k \in 0 .. Size[g] - 1 :
               \/ ext[BACKUP + k] = g
               \/ k = 0 /\ (ext[BACKUP] = Blank \/ bin["buffer"].state = "ERASING")
    /\ bin["firmware"].state = "VALID" =>
           LET g == bin["firmware"].img IN
           \A k \in 0 .. Size[g] - 1 : fw[k] = g \/ (k = 0 /\ fw[0] = Blank)

\* Whenever a reset has left an incomplete firmware behind, the flags and the
\* structs make the next start complete it: from the buffer or from the backup.
FlashIsResumed ==
    pc = "off" /\ RunningImage = None /\ bin["firmware"].state # "VALID" =>
        \/ AutomaticMode = "FLASH" /\ bin["buffer"].state = "VALID"
        \/ AutomaticMode = "RESTORE" /\ bin["backup"].state = "VALID"

\* While flashflag is set the buffer holds a complete image: upload_start
\* clears the flag before it spoils the buffer.
FlashflagGuardsBuffer == conf.flashflag = 1 => Intact("buffer")

\* The buffer is busy only while an upload or an erase is in progress, so that
\* a restart is postponed for no other reason.
BusyMeansProcedure ==
    pc = "loop" /\ conn = "idle" /\ busy => running \/ bin["buffer"].state = "ERASING"

\* The data of the binary that component c describes stays as it is, but for the
\* subsectors in lost.
Kept(c, lost) ==
    \A k \in 0 .. bin[c].size - 1 :
        k \in lost \/ IF c = "firmware" THEN fw'[k] = fw[k]
                      ELSE ext'[Partition(c) + k] = ext[Partition(c) + k]

\* With a Homer that keeps to the procedure, no step changes the data of a binary
\* whose struct says VALID: INVALID is saved first, also when connections are
\* lost and the lock of set_state is held. The one exception is the subsector
\* after the buffer that restore_processes erases.
SpoiledOnlyWhenInvalid ==
    [][\A c \in Component : bin[c].state = "VALID" =>
           Kept(c, IF c = "backup" /\ pc = "r_erase" THEN {0} ELSE {})]_vars

\* The subsectors of the backup that the erase or the part in progress reaches.
Overrun == IF pc = "writing" THEN {part - N} ELSE {i - N}

\* What is left of that when Homer announces and sends what it likes and a user
\* types commands: a VALID firmware is never changed. A VALID backup is changed
\* by erases and parts that run past the end of the buffer. What lies within the
\* buffer of a VALID image is changed by a part, and a VALID backup by
\* update_component, only after the connection thread has kept the lock from
\* them.
UnrulySpoils ==
    [][/\ bin["firmware"].state = "VALID" => Kept("firmware", {})
       /\ bin["buffer"].state = "VALID" =>
              Kept("buffer", N .. Limit) \/ (pc = "writing" /\ "disconnect" \in Env)
       /\ bin["backup"].state = "VALID" =>
              Kept("backup", Overrun)
                  \/ (pc \in {"upd_erase", "upd_copy"} /\ "disconnect" \in Env)]_vars

\* When the buffer is reported ERASED and no part has been accepted since the
\* erase was asked for, the announced image can be written without another
\* erase, whatever interrupted the erase before and whatever Homer does.
ErasedWhenBlank ==
    [][bin'["buffer"].state = "ERASED" /\ bin["buffer"].state # "ERASED" /\ part = 0 =>
           \A k \in 0 .. bin'["buffer"].size - 1 : k < N => ext'[BUFFER + k] = Blank]_vars

\* With autobackup a start of the device ends in an application that works,
\* a firmware that fails to launch included.
DeviceComesBack == pc = "off" /\ conf.autobackup = 1 ~> pc = "loop"

\* An erase of the buffer ends.
EraseEnds == bin["buffer"].state = "ERASING" ~> bin["buffer"].state # "ERASING"
=============================================================================
