----------------------------- MODULE Application -----------------------------
(***************************************************************************)
(* The running application as far as binaries go: the start-up of Byzance, *)
(* the byzance thread (BinManager::yield and the handlers of MQTTCommands, *)
(* one after another), the connection thread and the two tickers.          *)
(*                                                                         *)
(* The byzance thread is at loop between two pieces of work and at one of  *)
(* the other places while the external flash works for it; the connection  *)
(* thread and the tickers run at any of them.                              *)
(*                                                                         *)
(* get_state, get_size and set_state wait for their lock at most 100 ms,   *)
(* which the connection thread can hold for longer while it saves a struct *)
(* and reports it; they then do nothing, and no caller looks at the return *)
(* code.                                                                   *)
(***************************************************************************)
EXTENDS FirmwareStore

Running == {"loop", "erasing", "prepare", "writing", "upd_erase", "upd_copy"}

-----------------------------------------------------------------------------
(* The struct of the buffer and the lock.                                  *)

\* _bin_buffer: buffer_prepare fills it before set_state saves it.
Ram == IF unsaved
       THEN [state |-> "INVALID", img |-> announced, size |-> Size[announced]]
       ELSE bin["buffer"]

\* The connection thread is in upload_stop and may hold the lock.
MayBeLocked == conn = "stop"

\* set_state of the buffer in the byzance thread: saved when it changes.
SetBuffer(s) ==
    \/ /\ Ram.state # s
       /\ bin' = [bin EXCEPT !["buffer"] = [Ram EXCEPT !.state = s]]
       /\ unsaved' = FALSE
    \/ /\ Ram.state = s \/ MayBeLocked
       /\ UNCHANGED <<bin, unsaved>>

-----------------------------------------------------------------------------
(* Start-up.                                                               *)

\* The firmware hangs or crashes before it has reset launched; the watchdog
\* resets the device.
AppCrash ==
    /\ pc \in {"app_fix", "app_launch"}
    /\ RunningImage \in Broken \cup {None}
    /\ ResetRam
    /\ UNCHANGED flash

\* fix_build_id: the struct of a firmware that came in by other ways.
AppFix ==
    /\ pc = "app_fix"
    /\ RunningImage # None
    /\ bin' = IF bin["firmware"].img = RunningImage THEN bin
              ELSE [bin EXCEPT !["firmware"] =
                       [state |-> "VALID", img |-> RunningImage, size |-> F]]
    /\ pc' = "app_launch"
    /\ UNCHANGED <<ext, fw, conf, mode, i, upload>>

AppLaunch ==
    /\ pc = "app_launch"
    /\ RunningImage \notin Broken
    /\ conf' = [conf EXCEPT !.launched = 0]
    /\ pc' = "loop"
    /\ UNCHANGED <<ext, fw, bin, mode, i, upload>>

-----------------------------------------------------------------------------
(* _erase_function, called by yield.                                       *)

EraseSubsector ==
    /\ pc = "loop"
    /\ Ram.state = "ERASING"
    /\ i < eraseCounter
    /\ ext' = [ext EXCEPT ![BUFFER + i] = Blank]
    /\ pc' = "erasing"
    /\ UNCHANGED <<fw, bin, conf, mode, i, upload>>

\* Variant: the erase index stays where it is.
EraseNotCounted ==
    /\ pc = "erasing"
    /\ busy' = TRUE
    /\ pc' = "loop"
    /\ UNCHANGED <<flash, mode, i, eraseCounter, unsaved, announced, part, running, conn,
                   restart, copied>>

EraseCounted ==
    /\ pc = "erasing"
    /\ i' = i + 1
    /\ busy' = TRUE
    /\ pc' = "loop"
    /\ UNCHANGED <<flash, mode, eraseCounter, unsaved, announced, part, running, conn,
                   restart, copied>>

EraseDone ==
    /\ pc = "loop"
    /\ Ram.state = "ERASING"
    /\ i >= eraseCounter
    /\ SetBuffer("ERASED")
    /\ busy' = FALSE
    /\ UNCHANGED <<ext, fw, conf, pc, mode, i, eraseCounter, announced, part, running,
                   conn, restart, copied>>

-----------------------------------------------------------------------------
(* MQTTCommands. Homer waits for the ERASED report, sends the parts of the *)
(* image it announced, which fits, and then the end, and starts nothing    *)
(* while the connection is down, unless it is unruly.                      *)

Polite == "unruly" \notin Env

\* _bin_crc_received = _bin_crc_calculated: all parts of the announced image
\* have been accepted, or none was announced and none accepted (0 = 0).
CrcEqual ==
    IF announced = None THEN part = 0 ELSE part = Size[announced]

\* buffer_check compares the struct in the buffer with the defaults struct
\* filled from the request, the state included.
buffer_check(g) == Ram = [state |-> "INVALID", img |-> g, size |-> Size[g]]

\* Variant: flashflag stays set.
UploadStartKeepsFlag(g) ==
    /\ pc = "loop"
    /\ Ram.state # "ERASING" \/ MayBeLocked
    /\ Polite => conn = "idle" /\ Size[g] <= F
    /\ announced' = g
    /\ pc' = "prepare"
    /\ UNCHANGED <<flash, mode, i, busy, eraseCounter, unsaved, part, running, conn,
                   restart, copied>>

\* upload_start up to the point where flashflag is cleared. Its first get_state,
\* when it fails, leaves any state in tmp_state.
UploadStart(g) ==
    /\ pc = "loop"
    /\ Ram.state # "ERASING" \/ MayBeLocked
    /\ Polite => conn = "idle" /\ Size[g] <= F
    /\ announced' = g
    /\ conf' = [conf EXCEPT !.flashflag = 0]
    /\ pc' = "prepare"
    /\ UNCHANGED <<ext, fw, bin, mode, i, busy, eraseCounter, unsaved, part, running, conn,
                   restart, copied>>

\* upload_start that ends as a duplicate. The struct compared is INVALID, so
\* that only a get_state that fails can find VALID afterwards.
UploadDuplicate(g) ==
    /\ pc = "loop"
    /\ buffer_check(g)
    /\ MayBeLocked
    /\ ~ Polite
    /\ announced' = g
    /\ UNCHANGED <<flash, pc, mode, i, busy, eraseCounter, unsaved, part, running, conn,
                   restart, copied>>

\* The new struct of the buffer, saved as ERASING unless the lock is held.
PrepareStruct ==
    \/ /\ bin' = [bin EXCEPT !["buffer"] =
                     [state |-> "ERASING", img |-> announced, size |-> Size[announced]]]
       /\ unsaved' = FALSE
    \/ /\ MayBeLocked
       /\ unsaved' = TRUE
       /\ UNCHANGED bin

\* Variants: the last subsector of the image is not counted; the erase index is
\* not reset.
BufferPrepareOneLess ==
    /\ pc = "prepare"
    /\ PrepareStruct
    /\ i' = 0
    /\ eraseCounter' = Size[announced] - 1
    /\ busy' = TRUE
    /\ part' = 0
    /\ running' = TRUE
    /\ pc' = "loop"
    /\ UNCHANGED <<ext, fw, conf, mode, announced, conn, restart, copied>>

BufferPrepareIndexKept ==
    /\ pc = "prepare"
    /\ PrepareStruct
    /\ eraseCounter' = Size[announced] + 1
    /\ busy' = TRUE
    /\ part' = 0
    /\ running' = TRUE
    /\ pc' = "loop"
    /\ UNCHANGED <<ext, fw, conf, mode, i, announced, conn, restart, copied>>

\* buffer_prepare with buffer_erase, and BinManager::upload_start. _copy_binary
\* with copy_state = 0 makes the state INVALID, so an ERASED buffer is erased
\* again. Nothing compares the size with that of the buffer.
BufferPrepare ==
    /\ pc = "prepare"
    /\ PrepareStruct
    /\ i' = 0
    /\ eraseCounter' = Size[announced] + 1
    /\ busy' = TRUE
    /\ part' = 0
    /\ running' = TRUE
    /\ pc' = "loop"
    /\ UNCHANGED <<ext, fw, conf, mode, announced, conn, restart, copied>>

\* Homer sends the part that is expected. An unruly one goes on past the end of
\* the image, and of the buffer, up to the bound of the instance.
PartSent ==
    /\ part < Limit
    /\ Polite => /\ announced # None
                 /\ part < Size[announced]
                 /\ Ram.state = "ERASED" \/ part > 0

\* upload_data with the expected part: the state is INVALID until upload_end.
UploadData ==
    /\ pc = "loop"
    /\ PartSent
    /\ SetBuffer("INVALID")
    /\ busy' = TRUE
    /\ pc' = "writing"
    /\ UNCHANGED <<ext, fw, conf, mode, i, eraseCounter, announced, part, running, conn,
                   restart, copied>>

\* write_bin_part, with erase = 0.
WritePart ==
    /\ pc = "writing"
    /\ \E g \in IF announced = None THEN Images ELSE {announced} :
           ext' = [ext EXCEPT ![BUFFER + part] = Program(@, g)]
    /\ part' = part + 1
    /\ pc' = "loop"
    /\ UNCHANGED <<fw, bin, conf, mode, i, busy, eraseCounter, unsaved, announced, running,
                   conn, restart, copied>>

UploadEnd ==
    /\ pc = "loop"
    /\ Polite => announced # None /\ CrcEqual
    /\ SetBuffer(IF CrcEqual THEN "VALID" ELSE "INVALID")
    /\ busy' = FALSE
    /\ running' = FALSE
    /\ UNCHANGED <<ext, fw, conf, pc, mode, i, eraseCounter, announced, part, conn,
                   restart, copied>>

\* The checks of update_start. Without an upload since the last reset there is
\* no crc in RAM and the request is refused. get_size and get_state, when they
\* fail, leave any size and state.
UpdateReady ==
    /\ announced # None
    /\ CrcEqual
    /\ Polite => conn = "idle"
    /\ Ram.size # 0 \/ MayBeLocked
    /\ Ram.state = "VALID" \/ MayBeLocked

UpdateFirmware ==
    /\ pc = "loop"
    /\ UpdateReady
    /\ conf' = [conf EXCEPT !.flashflag = 1]
    /\ UNCHANGED <<ext, fw, bin, pc, mode, i, upload>>

\* Variant: the backup is not made INVALID.
UpdateBackupStaysValid ==
    /\ pc = "loop"
    /\ "backup" \in Env
    /\ UpdateReady
    /\ conf.autobackup = 0
    /\ pc' = "upd_erase"
    /\ UNCHANGED <<flash, mode, i, upload>>

\* update_component(BIN_COMPONENT_BACKUP): refused when autobackup is on. The
\* backup is written whether it could be made INVALID or not.
UpdateBackup ==
    /\ pc = "loop"
    /\ "backup" \in Env
    /\ UpdateReady
    /\ conf.autobackup = 0
    /\ set_state("backup", "INVALID") \/ (MayBeLocked /\ UNCHANGED bin)
    /\ pc' = "upd_erase"
    /\ UNCHANGED <<ext, fw, conf, mode, i, upload>>

UpdateErase ==
    /\ pc = "upd_erase"
    /\ ext' = [k \in ExtNo |-> IF k - BACKUP \in 0 .. Ram.size THEN Blank ELSE ext[k]]
    /\ copied' = 0
    /\ pc' = "upd_copy"
    /\ UNCHANGED <<fw, bin, conf, mode, i, busy, eraseCounter, unsaved, announced, part,
                   running, conn, restart>>

UpdateCopy ==
    /\ pc = "upd_copy"
    /\ copied < Ram.size
    /\ ext' = [ext EXCEPT ![BACKUP + copied] = Program(@, ext[BUFFER + copied])]
    /\ copied' = copied + 1
    /\ UNCHANGED <<fw, bin, conf, pc, mode, i, busy, eraseCounter, unsaved, announced, part,
                   running, conn, restart>>

\* _copy_binary and set_state(VALID), which saves the new struct unless the
\* backup could not be made INVALID before, or the lock is held now.
UpdateFinish ==
    /\ pc = "upd_copy"
    /\ copied = Ram.size
    /\ \/ /\ bin["backup"].state # "VALID"
          /\ bin' = [bin EXCEPT !["backup"] = [Ram EXCEPT !.state = "VALID"]]
       \/ /\ bin["backup"].state = "VALID" \/ MayBeLocked
          /\ UNCHANGED bin
    /\ copied' = 0
    /\ pc' = "loop"
    /\ UNCHANGED <<ext, fw, conf, mode, i, busy, eraseCounter, unsaved, announced, part,
                   running, conn, restart>>

\* MQTTSettings::autobackup.
SetAutobackup ==
    /\ pc = "loop"
    /\ "settings" \in Env
    /\ \E v \in {0, 1} : conf' = [conf EXCEPT !.autobackup = v]
    /\ UNCHANGED <<ext, fw, bin, pc, mode, i, upload>>

SystemRestart ==
    /\ pc = "loop"
    /\ restart' = TRUE
    /\ UNCHANGED <<flash, pc, mode, i, busy, eraseCounter, unsaved, announced, part, running,
                   conn, copied>>

-----------------------------------------------------------------------------
(* The connection thread and the upload ticker.                            *)

\* _client_connection_change(false) finds an upload running and calls
\* upload_stop, which first says that it is over.
Disconnect ==
    /\ "disconnect" \in Env
    /\ pc \in Running
    /\ conn = "idle"
    /\ running
    /\ running' = FALSE
    /\ conn' = "stop"
    /\ UNCHANGED <<flash, pc, mode, i, busy, eraseCounter, unsaved, announced, part,
                   restart, copied>>

\* The rest of upload_stop. set_state gives up when the byzance thread holds the
\* lock for more than 100 ms, and saves nothing when RAM has INVALID already.
ConnectionStop ==
    /\ conn = "stop"
    /\ set_state("buffer", "INVALID") \/ UNCHANGED bin
    /\ busy' = FALSE
    /\ conn' = "idle"
    /\ UNCHANGED <<ext, fw, conf, pc, mode, i, eraseCounter, unsaved, announced, part, running,
                   restart, copied>>

\* _tick_callback after BIN_UPLOAD_TIMEOUT: upload_stop in an interrupt, where
\* the mutex of set_state cannot be taken.
UploadTimeout ==
    /\ "timeout" \in Env
    /\ pc \in Running
    /\ running
    /\ running' = FALSE
    /\ busy' = FALSE
    /\ UNCHANGED <<flash, pc, mode, i, eraseCounter, unsaved, announced, part, conn,
                   restart, copied>>

AppStep ==
    \/ AppCrash \/ AppFix \/ AppLaunch
    \/ EraseSubsector \/ EraseCounted \/ EraseDone
    \/ BufferPrepare \/ WritePart \/ UpdateErase \/ UpdateCopy \/ UpdateFinish

HomerStep ==
    \/ \E g \in Images : UploadStart(g) \/ UploadDuplicate(g)
    \/ UploadData \/ UploadEnd \/ UpdateFirmware \/ UpdateBackup
    \/ SetAutobackup \/ SystemRestart
=============================================================================
