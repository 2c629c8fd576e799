----------------------------- MODULE Bootloader -----------------------------
(***************************************************************************)
(* The bootloader: BinManager::init with restore_processes, bootloader_app *)
(* (the choice of a mode and its work), flash_firmware, the backup         *)
(* procedure, the commands that change a binary, and bootloader_end.       *)
(*                                                                         *)
(*   off -> r_erase -> select -> backup -> bk_copy -> fl_start -> fl_erase *)
(*       -> fl_copy -> fl_conf -> end -> app_fix (the application starts)  *)
(***************************************************************************)
EXTENDS FirmwareStore

\* Variant: two subsectors more than the buffer has.
BootTwoMore ==
    /\ pc = "off"
    /\ IF bin["buffer"].state = "ERASING"
       THEN pc' = "r_erase" /\ eraseCounter' = N + 2
       ELSE pc' = "select" /\ UNCHANGED eraseCounter
    /\ UNCHANGED <<flash, mode, i, busy, unsaved, announced, part, running, conn,
                   restart, copied>>

\* BinManager::init. An interrupted erase is done again over the whole of
\* EXTMEM_SIZEOF_BUFFER; buffer_erase counts one subsector more.
Boot ==
    /\ pc = "off"
    /\ IF bin["buffer"].state = "ERASING"
       THEN pc' = "r_erase" /\ eraseCounter' = N + 1
       ELSE pc' = "select" /\ UNCHANGED eraseCounter
    /\ UNCHANGED <<flash, mode, i, busy, unsaved, announced, part, running, conn,
                   restart, copied>>

RestoreErase ==
    /\ pc = "r_erase"
    /\ i < eraseCounter
    /\ ext' = [ext EXCEPT ![BUFFER + i] = Blank]
    /\ i' = i + 1
    /\ UNCHANGED <<fw, bin, conf, pc, mode, upload>>

RestoreErased ==
    /\ pc = "r_erase"
    /\ i = eraseCounter
    /\ set_state("buffer", "ERASED")
    /\ i' = 0
    /\ eraseCounter' = 0
    /\ pc' = "select"
    /\ UNCHANGED <<ext, fw, conf, mode, busy, unsaved, announced, part, running, conn,
                   restart, copied>>

\* The mode the flags ask for: a failed launch before a new binary.
AutomaticMode ==
    CASE conf.launched # 0 -> "RESTORE"
      [] conf.launched = 0 /\ conf.flashflag # 0 -> "FLASH"
      [] conf.launched = 0 /\ conf.flashflag = 0 /\ fw[0] = Blank -> "COMMANDS"
      [] OTHER -> "JUMP"

\* bootloader_app. The user button comes before the flags, and so does
\* restartbl; both lead to the command mode, the long press after defaults.
SelectMode ==
    /\ pc = "select"
    /\ mode' \in {AutomaticMode} \cup (IF "button" \in Env THEN {"COMMANDS"} ELSE {})
    /\ pc' = CASE mode' = "FLASH" -> "backup"
               [] mode' = "RESTORE" -> "fl_start"
               [] mode' = "COMMANDS" -> "commands"
               [] mode' = "JUMP" -> "end"
    /\ UNCHANGED <<flash, i, upload>>

-----------------------------------------------------------------------------
(* The backup of the running firmware.                                     *)

\* backup_start(true): there is a firmware, and the backup is not of it.
BackupNeeded ==
    /\ bin["firmware"].state = "VALID"
    /\ \/ bin["backup"].state # "VALID"
       \/ bin["backup"].img # bin["firmware"].img

AfterBackup == IF mode = "FLASH" THEN "fl_start" ELSE "commands"

BackupStart ==
    /\ pc = "backup"
    /\ mode = "FLASH" => conf.autobackup # 0
    /\ BackupNeeded
    /\ set_state("backup", "INVALID")
    /\ i' = 0
    /\ pc' = "bk_copy"
    /\ UNCHANGED <<ext, fw, conf, mode, upload>>

BackupSkip ==
    /\ pc = "backup"
    /\ (mode = "FLASH" /\ conf.autobackup = 0) \/ ~ BackupNeeded
    /\ pc' = AfterBackup
    /\ UNCHANGED <<flash, mode, i, upload>>

\* _backup_function: one subsector for each yield, written with erase = 1.
BackupCopy ==
    /\ pc = "bk_copy"
    /\ i < bin["firmware"].size
    /\ ext' = [ext EXCEPT ![BACKUP + i] = fw[i]]
    /\ i' = i + 1
    /\ UNCHANGED <<fw, bin, conf, pc, mode, upload>>

BackupFinish ==
    /\ pc = "bk_copy"
    /\ i = bin["firmware"].size
    /\ CopyBinary("backup", "firmware")
    /\ i' = 0
    /\ pc' = AfterBackup
    /\ UNCHANGED <<ext, fw, conf, mode, upload>>

-----------------------------------------------------------------------------
(* flash_firmware.                                                         *)

Source == IF mode = "FLASH" THEN "buffer" ELSE "backup"

AfterFlash ==
    CASE mode = "FLASH" -> "fl_conf"
      [] mode = "RESTORE" -> "end"
      [] OTHER -> "commands"

\* A source that is not VALID, or larger than the partition, is refused.
Flashable == bin[Source].state = "VALID" /\ bin[Source].size <= F

\* Variants: flashflag is cleared before the firmware is written; the firmware
\* stays VALID while it is written.
FlashStartFlagCleared ==
    /\ pc = "fl_start"
    /\ IF Flashable
       THEN set_state("firmware", "INVALID") /\ pc' = "fl_erase"
       ELSE UNCHANGED bin /\ pc' = AfterFlash
    /\ conf' = [conf EXCEPT !.flashflag = 0]
    /\ UNCHANGED <<ext, fw, mode, i, upload>>

FlashStartStaysValid ==
    /\ pc = "fl_start"
    /\ pc' = IF Flashable THEN "fl_erase" ELSE AfterFlash
    /\ UNCHANGED <<flash, mode, i, upload>>

\* A source that is refused is skipped, as nobody looks at the return code;
\* otherwise the firmware becomes INVALID before its first sector is erased.
FlashStart ==
    /\ pc = "fl_start"
    /\ IF Flashable
       THEN set_state("firmware", "INVALID") /\ pc' = "fl_erase"
       ELSE UNCHANGED bin /\ pc' = AfterFlash
    /\ UNCHANGED <<ext, fw, conf, mode, i, upload>>

FlashErase ==
    /\ pc = "fl_erase"
    /\ fw' = [k \in FwNo |-> IF k < bin[Source].size THEN Blank ELSE fw[k]]
    /\ i' = 0
    /\ pc' = "fl_copy"
    /\ UNCHANGED <<ext, bin, conf, mode, upload>>

FlashCopy ==
    /\ pc = "fl_copy"
    /\ i < bin[Source].size
    /\ fw' = [fw EXCEPT ![i] = Program(@, ext[Partition(Source) + i])]
    /\ i' = i + 1
    /\ UNCHANGED <<ext, bin, conf, pc, mode, upload>>

FlashFinish ==
    /\ pc = "fl_copy"
    /\ i = bin[Source].size
    /\ CopyBinary("firmware", Source)
    /\ i' = 0
    /\ pc' = AfterFlash
    /\ UNCHANGED <<ext, fw, conf, mode, upload>>

\* Variant: launched is not set.
FlashConfNotLaunched ==
    /\ pc = "fl_conf"
    /\ conf' = [conf EXCEPT !.flashflag = 0]
    /\ pc' = "end"
    /\ UNCHANGED <<ext, fw, bin, mode, i, upload>>

\* set_flashflag(0, false) and set_launched(1, true): one save of both.
FlashConf ==
    /\ pc = "fl_conf"
    /\ conf' = [conf EXCEPT !.flashflag = 0, !.launched = 1]
    /\ pc' = "end"
    /\ UNCHANGED <<ext, fw, bin, mode, i, upload>>

-----------------------------------------------------------------------------
\* bootloader_end looks at the first word of the firmware only.
End ==
    /\ pc = "end"
    /\ IF fw[0] = Blank THEN pc' = "commands" /\ mode' = "COMMANDS"
                        ELSE pc' = "app_fix" /\ mode' = "none"
    /\ UNCHANGED <<flash, i, upload>>

\* The autojump timer of command_mode, or the command jump.
Autojump ==
    /\ pc = "commands"
    /\ pc' = "end"
    /\ UNCHANGED <<flash, mode, i, upload>>

\* A user types firmware=backup, firmware=restore, launch_reset or defaults, or
\* opens the serial port (welcome), which runs bootloader_app again.
Command ==
    /\ pc = "commands"
    /\ "button" \in Env
    /\ \/ pc' \in {"backup", "fl_start", "select"} /\ UNCHANGED <<bin, conf>>
       \/ /\ conf' = [conf EXCEPT !.launched = 0]
          /\ UNCHANGED <<bin, pc>>
       \/ /\ bin' = [c \in Component |-> defaults_struct_bin]
          /\ conf' = [c \in DOMAIN conf |-> 0]
          /\ UNCHANGED pc
    /\ UNCHANGED <<ext, fw, mode, i, upload>>

BootloaderStep ==
    \/ Boot \/ RestoreErase \/ RestoreErased \/ SelectMode
    \/ BackupStart \/ BackupSkip \/ BackupCopy \/ BackupFinish
    \/ FlashStart \/ FlashErase \/ FlashCopy \/ FlashFinish \/ FlashConf
    \/ End \/ Autojump
=============================================================================
