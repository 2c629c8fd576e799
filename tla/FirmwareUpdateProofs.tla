------------------------ MODULE FirmwareUpdateProofs ------------------------
(* Proofs about FirmwareUpdate, for every set of images, every size of an  *)
(* image and of the partitions, and every environment a theorem names.     *)
EXTENDS FirmwareUpdate, TLAPS

\* The places between restore_processes and the loop of the byzance thread.
Starting == {"select", "backup", "bk_copy", "fl_start", "fl_erase", "fl_copy", "fl_conf",
             "end", "commands", "app_fix", "app_launch"}

Buffer == bin["buffer"]
Backup == bin["backup"]
Firmware == bin["firmware"]

\* Connections are lost, so that set_state may find its lock held.
Disconnects == "disconnect" \in Env

-----------------------------------------------------------------------------
(* The invariant, for every environment.                                   *)

\* What the state of a struct and the counters are while its data is worked on.
RestoreStage ==
    /\ pc = "off" => i = 0 /\ eraseCounter = 0
    /\ pc = "r_erase" => i <= N + 1 /\ eraseCounter = N + 1 /\ Buffer.state = "ERASING"
    /\ pc # "r_erase" => eraseCounter <= Limit + 1
    /\ pc \in Starting => Buffer.state # "ERASING"

CopyStage ==
    /\ pc = "bk_copy" =>
           Backup.state = "INVALID" /\ Firmware.state = "VALID" /\ i <= Firmware.size
    /\ pc \in {"fl_erase", "fl_copy"} =>
           Firmware.state = "INVALID" /\ bin[Source].state = "VALID" /\ bin[Source].size <= F
    /\ pc = "fl_copy" => i <= bin[Source].size
    /\ pc \in {"upd_erase", "upd_copy"} => Backup.state = "INVALID" \/ Disconnects
    /\ pc = "upd_copy" => copied <= Ram.size

UploadStage ==
    /\ pc = "erasing" => i < eraseCounter
    /\ pc = "prepare" => announced # None
    /\ pc = "writing" => part < Limit /\ (Buffer.state = "INVALID" \/ Disconnects)
    /\ pc \in Running /\ Ram.state = "ERASING" => eraseCounter = Buffer.size + 1
    /\ conn = "stop" => pc \in Running /\ Disconnects
    /\ unsaved => pc \in Running /\ announced # None /\ Disconnects

\* An erase is in progress, and nothing has been written into it.
Erasing == pc = "r_erase" \/ (pc \in Running /\ Ram.state = "ERASING" /\ part = 0)

\* The subsectors the erase index has passed are blank.
ErasingBlank ==
    Erasing => /\ \A k \in 0 .. i - 1 : k < N \/ pc = "r_erase" => ext[k] = Blank
               /\ pc = "erasing" /\ i < N => ext[i] = Blank

-----------------------------------------------------------------------------
(* The invariant when Homer is polite.                                     *)

\* What Homer announces fits, and so does what is copied.
FitInv ==
    /\ announced # None => Size[announced] <= F
    /\ \A c \in Component : bin[c].size <= F
    /\ pc # "r_erase" => eraseCounter <= F + 1
    /\ pc \in {"upd_erase", "upd_copy"} => Backup.state = "INVALID"

\* The parts accepted so far are in the buffer and the others are erased.
Uploaded ==
    /\ Buffer.img = announced
    /\ Buffer.size = Size[announced]
    /\ part <= Size[announced]
    /\ \A k \in 0 .. part - 1 : ext[k] = announced
    /\ Buffer.state = "ERASED" \/ part > 0 \/ pc = "writing" =>
           \A k \in part .. Size[announced] - 1 : ext[k] = Blank
    /\ part > 0 \/ pc = "writing" => Buffer.state # "ERASING"
    /\ pc = "writing" => part < Size[announced]
    /\ Buffer.state = "VALID" => part = Size[announced]

\* With a new struct that could not be saved, nothing is erased or written.
UploadInv ==
    /\ announced # None =>
           /\ pc \in Running
           /\ pc # "prepare" => IF unsaved THEN part = 0 /\ pc = "loop" ELSE Uploaded
    /\ announced = None =>
           /\ pc # "writing"
           /\ pc \in Running => Buffer.state # "ERASING"

\* A complete image is in the buffer.
Complete ==
    /\ Buffer.img \in Images
    /\ Buffer.size = Size[Buffer.img]
    /\ WholeAt(ext, BUFFER, Buffer.img)

\* All parts of the announced image have been accepted.
Accepted == announced # None /\ part = Size[announced] /\ ~ unsaved

CompleteInv ==
    /\ Buffer.state = "VALID" => Complete
    /\ conf.flashflag = 1 =>
           /\ Complete
           /\ Buffer.state # "ERASING"
           /\ pc \notin {"prepare", "writing"}
           /\ announced # None => Accepted
    /\ pc \in {"upd_erase", "upd_copy"} => Accepted

\* Subsector k of memory has image g, or is the first and erased.
HasPart(memory, base, g, k) == memory[base + k] = g \/ (k = 0 /\ memory[base] = Blank)

\* Of a VALID backup or firmware at most the first subsector is missing.
BackupInv ==
    Backup.state = "VALID" =>
        /\ Backup.img \in Images
        /\ Size[Backup.img] <= Backup.size
        /\ \A k \in 0 .. Size[Backup.img] - 1 :
               \/ HasPart(ext, BACKUP, Backup.img, k)
               \/ k = 0 /\ Buffer.state = "ERASING" /\ pc \in {"off", "r_erase"}

FirmwareInv ==
    Firmware.state = "VALID" =>
        /\ Firmware.img \in Images
        /\ Size[Firmware.img] <= Firmware.size
        /\ \A k \in 0 .. Size[Firmware.img] - 1 : HasPart(fw, 0, Firmware.img, k)

\* The copies in progress are equal to their sources so far.
CopyInv ==
    /\ pc = "bk_copy" => \A k \in 0 .. i - 1 : ext[BACKUP + k] = fw[k]
    /\ pc = "upd_copy" =>
           /\ \A k \in 0 .. copied - 1 : ext[BACKUP + k] = ext[BUFFER + k]
           /\ \A k \in copied .. Buffer.size - 1 : ext[BACKUP + k] = Blank
    /\ pc = "fl_copy" =>
           /\ \A k \in 0 .. i - 1 : fw[k] = ext[Partition(Source) + k]
           /\ \A k \in i .. bin[Source].size - 1 : fw[k] = Blank

-----------------------------------------------------------------------------
(* The invariant when nobody is at the bootloader either.                  *)

Whole == \E g \in Images : Size[g] <= F /\ WholeAt(fw, 0, g)

Resumable ==
    \/ conf.flashflag = 1 /\ conf.launched = 0 /\ Buffer.state = "VALID"
    \/ conf.launched = 1 /\ Backup.state = "VALID"

\* A firmware that is not whole is known to lack its first subsector, or the
\* flags and the structs make the next start write it again.
ResumeInv ==
    /\ Whole \/ Firmware.state = "VALID" \/ Resumable
    /\ pc \in {"backup", "bk_copy"} => mode = "FLASH"
    /\ pc \in {"fl_start", "fl_erase", "fl_copy"} => mode \in {"FLASH", "RESTORE"}
    /\ pc \in {"backup", "bk_copy", "fl_start", "fl_erase", "fl_copy"} =>
           /\ mode = "FLASH" => conf.flashflag = 1 /\ conf.launched = 0
           /\ mode = "RESTORE" => conf.launched = 1
    /\ pc \in {"fl_conf", "end", "commands"} => Whole \/ Firmware.state = "VALID"
    /\ pc \in Running \cup {"app_fix", "app_launch"} => Whole

Unattended == "button" \notin Env

StageInv == RestoreStage /\ CopyStage /\ UploadStage
BinInv == FitInv /\ UploadInv /\ CompleteInv /\ BackupInv /\ FirmwareInv /\ CopyInv

IInv ==
    /\ TypeOK
    /\ StageInv
    /\ ErasingBlank
    /\ Polite => BinInv
    /\ Polite /\ Unattended => ResumeInv

-----------------------------------------------------------------------------
(* The structs and the memories.                                           *)

LEMMA StoreFacts ==
    /\ F \in Nat \ {0} /\ N \in Nat /\ N > F /\ Limit \in Nat /\ Limit >= F
    /\ \A g \in Images : Size[g] \in 1 .. Limit
    /\ None \notin Images /\ Blank \notin Images /\ Torn \notin Images /\ Blank # Torn
    /\ Factory \in Images /\ Size[Factory] <= F
  BY StoreAssumption

LEMMA Bounds ==
    /\ MaxErase \in Nat /\ N + 1 <= MaxErase /\ Limit + 1 <= MaxErase
    /\ MaxErase \in {N + 1, Limit + 1}
  BY StoreFacts DEF MaxErase

LEMMA Names ==
    /\ "buffer" \in Component /\ "backup" \in Component /\ "firmware" \in Component
    /\ "INVALID" \in State /\ "VALID" \in State /\ "ERASING" \in State /\ "ERASED" \in State
    /\ Source \in {"buffer", "backup"} /\ Source \in Component
  BY DEF Component, State, Source

LEMMA BinTyped ==
    ASSUME TypeOK, NEW c \in Component
    PROVE  /\ bin[c].state \in State /\ bin[c].img \in Images \cup {None}
           /\ bin[c].size \in 0 .. Limit
           /\ c = "firmware" => bin[c].size \in 0 .. F
  <1>1. bin[c] \in Bin /\ bin["firmware"].size <= F
    BY DEF TypeOK
  <1>2. bin[c].state \in State /\ bin[c].img \in Images \cup {None} /\ bin[c].size \in 0 .. Limit
    BY <1>1 DEF Bin
  <1> QED BY <1>1, <1>2, StoreFacts

\* Only the state of one struct changes.
OnlyState(c, s) ==
    /\ bin'[c].state = s /\ bin'[c].img = bin[c].img /\ bin'[c].size = bin[c].size
    /\ \A d \in Component : d # c => bin'[d] = bin[d]

\* set_state changes one state and nothing else.
LEMMA SetState ==
    ASSUME bin \in [Component -> Bin], NEW c \in Component, NEW s \in State, set_state(c, s)
    PROVE  bin' \in [Component -> Bin] /\ OnlyState(c, s)
  BY DEF set_state, Bin, OnlyState

\* The struct of c is now the one of d, VALID.
Copied(c, d) ==
    /\ bin'[c].state = "VALID" /\ bin'[c].img = bin[d].img /\ bin'[c].size = bin[d].size
    /\ \A e \in Component : e # c => bin'[e] = bin[e]

LEMMA CopyStruct ==
    ASSUME bin \in [Component -> Bin], NEW c \in Component, NEW d \in Component,
           CopyBinary(c, d)
    PROVE  bin' \in [Component -> Bin] /\ Copied(c, d)
  BY DEF CopyBinary, Bin, State, Copied

\* The struct of the buffer in RAM: while it is unsaved it is of the announced
\* image and INVALID.
LEMMA RamFacts ==
    ASSUME TypeOK, UploadStage
    PROVE  /\ unsaved => /\ announced \in Images
                         /\ Ram = [state |-> "INVALID", img |-> announced,
                                   size |-> Size[announced]]
                         /\ Ram.state = "INVALID" /\ Ram.size = Size[announced]
           /\ ~ unsaved => Ram = Buffer
           /\ Ram \in Bin /\ Ram.size \in 0 .. Limit
           /\ Ram.state = "ERASING" => ~ unsaved /\ Buffer.state = "ERASING"
  <1>1. CASE unsaved
    <2>1. announced \in Images
      BY <1>1 DEF TypeOK, UploadStage
    <2>2. Ram = [state |-> "INVALID", img |-> announced, size |-> Size[announced]]
      BY <1>1 DEF Ram
    <2>3. Size[announced] \in 0 .. Limit
      BY <2>1, StoreFacts
    <2> QED BY <1>1, <2>1, <2>2, <2>3, Names DEF Bin
  <1>2. CASE ~ unsaved
    <2>1. Ram = Buffer
      BY <1>2 DEF Ram, Buffer
    <2>2. Buffer \in Bin
      BY Names DEF TypeOK, Buffer
    <2>3. Buffer.size \in 0 .. Limit
      BY <2>2 DEF Bin
    <2> QED BY <1>2, <2>1, <2>2, <2>3
  <1> QED BY <1>1, <1>2

\* set_state of the buffer saves the struct in RAM, or nothing.
SavedAs(s) ==
    /\ Ram.state # s /\ ~ unsaved'
    /\ Buffer'.state = s /\ Buffer'.img = Ram.img /\ Buffer'.size = Ram.size

NotSaved(s) ==
    /\ Ram.state = s \/ conn = "stop"
    /\ bin' = bin /\ unsaved' = unsaved

LEMMA SetBufferStruct ==
    ASSUME TypeOK, UploadStage, NEW s \in State, SetBuffer(s)
    PROVE  /\ bin' \in [Component -> Bin] /\ unsaved' \in BOOLEAN
           /\ \A d \in Component : d # "buffer" => bin'[d] = bin[d]
           /\ SavedAs(s) \/ NotSaved(s)
  <1>b. bin \in [Component -> Bin] /\ unsaved \in BOOLEAN
    BY DEF TypeOK
  <1>1. CASE /\ Ram.state # s
             /\ bin' = [bin EXCEPT !["buffer"] = [Ram EXCEPT !.state = s]]
             /\ unsaved' = FALSE
    <2>1. /\ [Ram EXCEPT !.state = s] \in Bin
          /\ [Ram EXCEPT !.state = s].state = s
          /\ [Ram EXCEPT !.state = s].img = Ram.img /\ [Ram EXCEPT !.state = s].size = Ram.size
      <3>1. Ram \in Bin
        BY RamFacts
      <3> QED BY <3>1 DEF Bin
    <2>2. /\ bin'["buffer"] = [Ram EXCEPT !.state = s] /\ bin' \in [Component -> Bin]
          /\ \A d \in Component : d # "buffer" => bin'[d] = bin[d]
      BY <1>1, <1>b, <2>1, Names
    <2> QED BY <1>1, <2>1, <2>2 DEF SavedAs, Buffer
  <1>2. CASE (Ram.state = s \/ MayBeLocked) /\ UNCHANGED <<bin, unsaved>>
    BY <1>2, <1>b DEF MayBeLocked, NotSaved
  <1> QED BY <1>1, <1>2 DEF SetBuffer

\* The struct buffer_prepare makes.
LEMMA PrepareFacts ==
    ASSUME TypeOK, UploadStage, BufferPrepare
    PROVE  /\ announced \in Images
           /\ bin' \in [Component -> Bin] /\ unsaved' \in BOOLEAN
           /\ \A d \in Component : d # "buffer" => bin'[d] = bin[d]
           /\ \/ /\ ~ unsaved' /\ Buffer'.state = "ERASING"
                 /\ Buffer'.img = announced /\ Buffer'.size = Size[announced]
              \/ unsaved' /\ bin' = bin /\ conn = "stop"
  <1>1. announced \in Images
    BY DEF TypeOK, UploadStage, BufferPrepare
  <1>b. bin \in [Component -> Bin] /\ unsaved \in BOOLEAN
    BY DEF TypeOK
  <1> DEFINE new == [state |-> "ERASING", img |-> announced, size |-> Size[announced]]
  <1>2. CASE bin' = [bin EXCEPT !["buffer"] = new] /\ unsaved' = FALSE
    <2>1. new \in Bin
      BY <1>1, Names, StoreFacts DEF Bin
    <2>2. /\ bin'["buffer"] = new /\ bin' \in [Component -> Bin]
          /\ \A d \in Component : d # "buffer" => bin'[d] = bin[d]
      BY <1>2, <1>b, <2>1, Names
    <2>3. /\ Buffer'.state = "ERASING" /\ Buffer'.img = announced
          /\ Buffer'.size = Size[announced]
      BY <2>2 DEF Buffer
    <2>4. unsaved' \in BOOLEAN /\ ~ unsaved'
      BY <1>2
    <2> QED BY <1>1, <2>2, <2>3, <2>4
  <1>3. CASE MayBeLocked /\ unsaved' = TRUE /\ UNCHANGED bin
    BY <1>1, <1>b, <1>3 DEF MayBeLocked
  <1> QED BY <1>2, <1>3 DEF BufferPrepare, PrepareStruct

\* The image that runs is one of the images, and it is whole.
LEMMA RunningWhole ==
    /\ RunningImage # None <=> Whole
    /\ RunningImage # None =>
           RunningImage \in Images /\ Size[RunningImage] <= F /\ WholeAt(fw, 0, RunningImage)
  <1> DEFINE whole == {g \in Images : Size[g] <= F /\ WholeAt(fw, 0, g)}
  <1>1. CASE whole = {}
    BY <1>1 DEF RunningImage, Whole
  <1>2. CASE whole # {}
    <2>1. RunningImage = CHOOSE g \in whole : TRUE
      BY <1>2 DEF RunningImage
    <2>2. RunningImage \in whole
      BY <1>2, <2>1, Zenon
    <2> QED BY <2>2, StoreFacts DEF Whole
  <1> QED BY <1>1, <1>2

-----------------------------------------------------------------------------
(* Type correctness.                                                       *)

Places == Running \cup {"off", "r_erase", "select", "backup", "bk_copy", "fl_start",
                        "fl_erase", "fl_copy", "fl_conf", "end", "commands",
                        "app_fix", "app_launch"}

\* What a reset clears, and what it keeps.
RamTypeOK ==
    /\ pc \in Places
    /\ mode \in {"none", "FLASH", "RESTORE", "COMMANDS", "JUMP"}
    /\ i \in 0 .. MaxErase
    /\ busy \in BOOLEAN
    /\ eraseCounter \in 0 .. MaxErase
    /\ unsaved \in BOOLEAN
    /\ announced \in Images \cup {None}
    /\ part \in 0 .. Limit
    /\ running \in BOOLEAN
    /\ conn \in {"idle", "stop"}
    /\ restart \in BOOLEAN
    /\ copied \in 0 .. Limit

FlashTypeOK ==
    /\ ext \in [ExtNo -> Cell]
    /\ fw \in [FwNo -> Cell]
    /\ bin \in [Component -> Bin] /\ bin["firmware"].size <= F
    /\ conf \in [flashflag : {0, 1}, launched : {0, 1}, autobackup : {0, 1}]

LEMMA TypeParts == (TypeOK <=> FlashTypeOK /\ RamTypeOK) /\ (TypeOK' <=> FlashTypeOK' /\ RamTypeOK')
  BY DEF TypeOK, FlashTypeOK, RamTypeOK, Places

\* A reset clears the RAM.
LEMMA ResetType ==
    ASSUME ResetRam
    PROVE  RamTypeOK'
  <1>1. 0 \in 0 .. MaxErase /\ 0 \in 0 .. Limit
    BY StoreFacts, Bounds
  <1> QED BY <1>1 DEF ResetRam, RamTypeOK, Places

LEMMA BootloaderRamType ==
    ASSUME TypeOK, StageInv, BootloaderStep
    PROVE  RamTypeOK'
  <1>t. RamTypeOK
    BY TypeParts
  <1>s. Firmware.size \in 0 .. Limit /\ bin[Source].size \in 0 .. Limit
    BY BinTyped, Names DEF Firmware
  <1> USE StoreFacts, Bounds DEF RamTypeOK, upload, Places
  <1>1. CASE Boot
    BY <1>1, <1>t DEF Boot
  <1>2. CASE RestoreErase \/ RestoreErased
    BY <1>2, <1>t DEF RestoreErase, RestoreErased, StageInv, RestoreStage
  <1>3. CASE SelectMode
    BY <1>3, <1>t DEF SelectMode, AutomaticMode
  <1>4. CASE BackupStart \/ BackupSkip \/ BackupFinish
    BY <1>4, <1>t DEF BackupStart, BackupSkip, BackupFinish, AfterBackup
  <1>5. CASE BackupCopy
    BY <1>5, <1>s, <1>t DEF BackupCopy, Firmware
  <1>6. CASE FlashStart \/ FlashErase \/ FlashFinish \/ FlashConf
    BY <1>6, <1>t DEF FlashStart, FlashErase, FlashFinish, FlashConf, AfterFlash
  <1>7. CASE FlashCopy
    BY <1>7, <1>s, <1>t DEF FlashCopy
  <1>8. CASE End \/ Autojump
    BY <1>8, <1>t DEF End, Autojump
  <1> QED BY <1>1, <1>2, <1>3, <1>4, <1>5, <1>6, <1>7, <1>8 DEF BootloaderStep

LEMMA ApplicationRamType ==
    ASSUME TypeOK, StageInv,
           AppStep \/ HomerStep \/ Command \/ Disconnect \/ ConnectionStop \/ UploadTimeout
    PROVE  RamTypeOK'
  <1>t. RamTypeOK /\ UploadStage
    BY TypeParts DEF StageInv
  <1>s. Ram.size \in 0 .. Limit
    BY <1>t, RamFacts
  <1> USE StoreFacts, Bounds DEF RamTypeOK, upload, Places, Running
  <1>1. CASE AppCrash
    BY <1>1, ResetType DEF AppCrash
  <1>2. CASE AppFix \/ AppLaunch \/ EraseSubsector
    BY <1>2, <1>t DEF AppFix, AppLaunch, EraseSubsector
  <1>3. CASE EraseCounted
    BY <1>3, <1>t DEF EraseCounted, UploadStage
  <1>4. CASE BufferPrepare
    <2>1. announced \in Images /\ unsaved' \in BOOLEAN
      BY <1>4, <1>t, PrepareFacts
    <2>2. Size[announced] + 1 \in 0 .. MaxErase /\ 0 \in 0 .. MaxErase /\ 0 \in 0 .. Limit
      BY <2>1
    <2> QED BY <1>4, <2>1, <2>2, <1>t DEF BufferPrepare
  <1>5. CASE WritePart
    BY <1>5, <1>t DEF WritePart, UploadStage
  <1>6. CASE UpdateErase \/ UpdateCopy \/ UpdateFinish
    BY <1>6, <1>s, <1>t DEF UpdateErase, UpdateCopy, UpdateFinish
  <1>7. ASSUME NEW g \in Images, UploadStart(g) \/ UploadDuplicate(g)
        PROVE  RamTypeOK'
    BY <1>7, <1>t DEF UploadStart, UploadDuplicate
  <1>8. CASE UpdateFirmware \/ UpdateBackup \/ SetAutobackup \/ SystemRestart
    BY <1>8, <1>t DEF UpdateFirmware, UpdateBackup, SetAutobackup, SystemRestart
  <1>9. CASE EraseDone \/ UploadData \/ UploadEnd
    <2>1. unsaved' \in BOOLEAN
      BY <1>9, <1>t, SetBufferStruct, Names DEF EraseDone, UploadData, UploadEnd
    <2> QED BY <1>9, <2>1, <1>t DEF EraseDone, UploadData, UploadEnd
  <1>10. CASE Command
    BY <1>10, <1>t DEF Command
  <1>11. CASE Disconnect \/ ConnectionStop \/ UploadTimeout
    BY <1>11, <1>t DEF Disconnect, ConnectionStop, UploadTimeout
  <1> QED BY <1>1, <1>2, <1>3, <1>4, <1>5, <1>6, <1>7, <1>8, <1>9, <1>10, <1>11
          DEF AppStep, HomerStep

\* A binary that is programmed or erased stays a sequence of cells.
LEMMA ProgramType ==
    ASSUME NEW old \in Cell, NEW new \in Cell
    PROVE  Program(old, new) \in Cell
  BY DEF Program, Cell

LEMMA Indices ==
    /\ \A k \in 0 .. F - 1 : k \in FwNo
    /\ \A k \in 0 .. Limit : BUFFER + k \in ExtNo /\ BACKUP + k \in ExtNo
    /\ \A k \in 0 .. N : k \in ExtNo
    /\ \A k \in ExtNo : k \in Nat /\ k <= N + Limit
    /\ \A k \in FwNo : k \in Nat /\ k < F
  BY StoreFacts DEF ExtNo, FwNo, BUFFER, BACKUP

LEMMA InterruptedType ==
    ASSUME TypeOK, StageInv, Interrupted
    PROVE  FlashTypeOK'
  <1>t. FlashTypeOK /\ RamTypeOK
    BY TypeParts
  <1>c. Blank \in Cell /\ Torn \in Cell
    BY DEF Cell
  <1>1. CASE UNCHANGED flash
    BY <1>1, <1>t DEF flash, FlashTypeOK
  <1>2. CASE UNCHANGED <<fw, bin, conf>> /\ ext' \in [ExtNo -> Cell]
    BY <1>2, <1>t DEF FlashTypeOK
  <1>3. CASE UNCHANGED <<ext, bin, conf>> /\ fw' \in [FwNo -> Cell]
    BY <1>3, <1>t DEF FlashTypeOK
  <1>4. ASSUME NEW k \in ExtNo, NEW u \in {Blank, Torn}, ext' = [ext EXCEPT ![k] = u]
        PROVE  ext' \in [ExtNo -> Cell]
    BY <1>4, <1>t, <1>c DEF FlashTypeOK
  <1>5. ASSUME NEW n, NEW u \in {Blank, Torn},
               ext' = [k \in ExtNo |-> IF k = BACKUP + n THEN u
                                      ELSE IF k - BACKUP \in 0 .. n THEN Blank ELSE ext[k]]
        PROVE  ext' \in [ExtNo -> Cell]
    BY <1>5, <1>t, <1>c DEF FlashTypeOK
  <1>6. ASSUME NEW n, NEW u \in {Blank, Torn},
               fw' = [k \in FwNo |-> IF k = n THEN u ELSE IF k < n THEN Blank ELSE fw[k]]
        PROVE  fw' \in [FwNo -> Cell]
    BY <1>6, <1>t, <1>c DEF FlashTypeOK
  <1>7. ASSUME fw' = [fw EXCEPT ![i] = Torn]
        PROVE  fw' \in [FwNo -> Cell]
    BY <1>7, <1>t, <1>c DEF FlashTypeOK
  <1> QED BY <1>1, <1>2, <1>3, <1>4, <1>5, <1>6, <1>7 DEF Interrupted

LEMMA BootloaderFlashType ==
    ASSUME TypeOK, StageInv, BootloaderStep
    PROVE  FlashTypeOK'
  <1>t. FlashTypeOK /\ RamTypeOK
    BY TypeParts
  <1>c. Blank \in Cell
    BY DEF Cell
  <1>n. bin[Source].size \in 0 .. Limit /\ Firmware.size \in 0 .. F
    BY BinTyped, Names DEF Firmware
  <1>1. CASE Boot \/ SelectMode \/ BackupSkip \/ End \/ Autojump
    BY <1>1, <1>t DEF Boot, SelectMode, BackupSkip, End, Autojump, flash, FlashTypeOK
  <1>2. CASE RestoreErase
    BY <1>2, <1>t, <1>c DEF RestoreErase, FlashTypeOK
  <1>3. CASE RestoreErased
    <2>1. bin' \in [Component -> Bin] /\ OnlyState("buffer", "ERASED")
      BY <1>3, <1>t, SetState, Names DEF RestoreErased, FlashTypeOK
    <2>2. bin'["firmware"] = bin["firmware"]
      BY <2>1, Names DEF OnlyState
    <2> QED BY <1>3, <2>1, <2>2, <1>t DEF RestoreErased, FlashTypeOK
  <1>4. CASE BackupStart
    <2>1. bin' \in [Component -> Bin] /\ OnlyState("backup", "INVALID")
      BY <1>4, <1>t, SetState, Names DEF BackupStart, FlashTypeOK
    <2>2. bin'["firmware"] = bin["firmware"]
      BY <2>1, Names DEF OnlyState
    <2> QED BY <1>4, <2>1, <2>2, <1>t DEF BackupStart, FlashTypeOK
  <1>5. CASE BackupCopy
    <2>0. i \in 0 .. F - 1
      BY <1>5, <1>t, <1>n, StoreFacts, Bounds DEF BackupCopy, Firmware, RamTypeOK
    <2>1. fw[i] \in Cell
      BY <2>0, <1>t, Indices DEF FlashTypeOK
    <2> QED BY <1>5, <2>1, <1>t DEF BackupCopy, FlashTypeOK
  <1>6. CASE BackupFinish
    <2>1. bin' \in [Component -> Bin] /\ Copied("backup", "firmware")
      BY <1>6, <1>t, CopyStruct, Names DEF BackupFinish, FlashTypeOK
    <2>2. bin'["firmware"] = bin["firmware"]
      BY <2>1, Names DEF Copied
    <2> QED BY <1>6, <2>1, <2>2, <1>t DEF BackupFinish, FlashTypeOK
  <1>7. CASE FlashFinish
    <2>1. bin' \in [Component -> Bin] /\ Copied("firmware", Source)
      BY <1>7, <1>t, CopyStruct, Names DEF FlashFinish, FlashTypeOK
    <2>2. bin'["firmware"].size <= F
      BY <1>7, <2>1 DEF Copied, FlashFinish, StageInv, CopyStage
    <2> QED BY <1>7, <2>1, <2>2, <1>t DEF FlashFinish, FlashTypeOK
  <1>8. CASE FlashStart
    <2>1. CASE Flashable
      <3>1. bin' \in [Component -> Bin] /\ OnlyState("firmware", "INVALID")
        BY <1>8, <2>1, <1>t, SetState, Names DEF FlashStart, FlashTypeOK
      <3>2. bin'["firmware"].size = bin["firmware"].size
        BY <3>1 DEF OnlyState
      <3> QED BY <1>8, <3>1, <3>2, <1>t DEF FlashStart, FlashTypeOK
    <2>2. CASE ~ Flashable
      BY <1>8, <2>2, <1>t DEF FlashStart, FlashTypeOK
    <2> QED BY <2>1, <2>2
  <1>9. CASE FlashErase
    BY <1>9, <1>t, <1>c DEF FlashErase, FlashTypeOK
  <1>10. CASE FlashCopy
    <2>0. i \in Nat /\ i < F /\ i <= Limit
      BY <1>10, <1>t, <1>n, StoreFacts, Bounds DEF FlashCopy, RamTypeOK, StageInv, CopyStage
    <2>1. i \in FwNo /\ Partition(Source) + i \in ExtNo
      BY <2>0, Indices, StoreFacts DEF Partition
    <2>2. Program(fw[i], ext[Partition(Source) + i]) \in Cell
      BY <2>1, <1>t, ProgramType DEF FlashTypeOK
    <2> QED BY <1>10, <2>2, <1>t DEF FlashCopy, FlashTypeOK
  <1>11. CASE FlashConf
    BY <1>11, <1>t DEF FlashConf, FlashTypeOK
  <1> QED BY <1>1, <1>2, <1>3, <1>4, <1>5, <1>6, <1>7, <1>8, <1>9, <1>10, <1>11
          DEF BootloaderStep

LEMMA ApplicationFlashType ==
    ASSUME TypeOK, StageInv,
           AppStep \/ HomerStep \/ Command \/ Disconnect \/ ConnectionStop \/ UploadTimeout
    PROVE  FlashTypeOK'
  <1>t. FlashTypeOK /\ RamTypeOK /\ UploadStage
    BY TypeParts DEF StageInv
  <1>c. Blank \in Cell
    BY DEF Cell
  <1>n. Ram.size \in 0 .. Limit /\ Ram \in Bin
    BY <1>t, RamFacts
  <1>1. CASE AppCrash \/ EraseCounted \/ SystemRestart \/ Disconnect \/ UploadTimeout
    BY <1>1, <1>t DEF AppCrash, EraseCounted, SystemRestart, Disconnect, UploadTimeout, flash,
       FlashTypeOK
  <1>2. CASE AppFix
    <2>1. RunningImage \in Images
      BY <1>2, RunningWhole DEF AppFix
    <2>2. [state |-> "VALID", img |-> RunningImage, size |-> F] \in Bin
      BY <2>1, Names, StoreFacts DEF Bin
    <2>3. bin' \in [Component -> Bin] /\ bin'["firmware"].size <= F
      <3>1. CASE bin' = bin
        BY <3>1, <1>t DEF FlashTypeOK
      <3>2. CASE bin' = [bin EXCEPT !["firmware"] =
                            [state |-> "VALID", img |-> RunningImage, size |-> F]]
        <4>1. bin' \in [Component -> Bin] /\ bin'["firmware"].size = F
          BY <3>2, <2>2, <1>t, Names DEF FlashTypeOK
        <4> QED BY <4>1, StoreFacts
      <3> QED BY <1>2, <3>1, <3>2 DEF AppFix
    <2> QED BY <1>2, <2>3, <1>t DEF AppFix, FlashTypeOK
  <1>3. CASE AppLaunch \/ UpdateFirmware \/ SetAutobackup
    BY <1>3, <1>t DEF AppLaunch, UpdateFirmware, SetAutobackup, FlashTypeOK
  <1>4. ASSUME NEW g \in Images, UploadStart(g) \/ UploadDuplicate(g)
        PROVE  FlashTypeOK'
    BY <1>4, <1>t DEF UploadStart, UploadDuplicate, flash, FlashTypeOK
  <1>5. CASE EraseSubsector
    BY <1>5, <1>t, <1>c DEF EraseSubsector, FlashTypeOK
  <1>6. CASE EraseDone \/ UploadData \/ UploadEnd
    <2>1. PICK s \in State : SetBuffer(s)
      BY <1>6, Names DEF EraseDone, UploadData, UploadEnd
    <2>2. bin' \in [Component -> Bin] /\ bin'["firmware"] = bin["firmware"]
      BY <2>1, <1>t, SetBufferStruct, Names
    <2> QED BY <1>6, <2>2, <1>t DEF EraseDone, UploadData, UploadEnd, FlashTypeOK
  <1>7. CASE BufferPrepare
    <2>1. bin' \in [Component -> Bin] /\ bin'["firmware"] = bin["firmware"]
      BY <1>7, <1>t, PrepareFacts, Names
    <2> QED BY <1>7, <2>1, <1>t DEF BufferPrepare, FlashTypeOK
  <1>8. CASE WritePart
    <2>1. BUFFER + part \in ExtNo
      BY <1>8, <1>t, Indices DEF RamTypeOK
    <2>2. PICK g \in Images : ext' = [ext EXCEPT ![BUFFER + part] = Program(@, g)]
      BY <1>8, <1>t DEF WritePart, RamTypeOK
    <2>3. Program(ext[BUFFER + part], g) \in Cell
      BY <2>1, <1>t, ProgramType DEF FlashTypeOK, Cell
    <2> QED BY <1>8, <2>2, <2>3, <1>t DEF WritePart, FlashTypeOK
  <1>9. CASE UpdateErase
    BY <1>9, <1>t, <1>c DEF UpdateErase, FlashTypeOK
  <1>10. CASE UpdateCopy
    <2>1. BACKUP + copied \in ExtNo /\ BUFFER + copied \in ExtNo
      BY <1>t, Indices DEF RamTypeOK
    <2>2. Program(ext[BACKUP + copied], ext[BUFFER + copied]) \in Cell
      BY <2>1, <1>t, ProgramType DEF FlashTypeOK
    <2> QED BY <1>10, <2>2, <1>t DEF UpdateCopy, FlashTypeOK
  <1>11. CASE UpdateFinish
    <2>1. [Ram EXCEPT !.state = "VALID"] \in Bin
      BY <1>n, Names DEF Bin
    <2>2. bin' \in [Component -> Bin] /\ bin'["firmware"] = bin["firmware"]
      BY <1>11, <1>t, <2>1, Names DEF UpdateFinish, FlashTypeOK
    <2> QED BY <1>11, <2>2, <1>t DEF UpdateFinish, FlashTypeOK
  <1>12. CASE UpdateBackup
    <2>1. bin' \in [Component -> Bin] /\ bin'["firmware"] = bin["firmware"]
      BY <1>12, <1>t, SetState, Names DEF UpdateBackup, FlashTypeOK, OnlyState
    <2> QED BY <1>12, <2>1, <1>t DEF UpdateBackup, FlashTypeOK
  <1>13. CASE ConnectionStop
    <2>1. bin' \in [Component -> Bin] /\ bin'["firmware"] = bin["firmware"]
      BY <1>13, <1>t, SetState, Names DEF ConnectionStop, FlashTypeOK, OnlyState
    <2> QED BY <1>13, <2>1, <1>t DEF ConnectionStop, FlashTypeOK
  <1>14. CASE Command
    <2>1. defaults_struct_bin \in Bin /\ defaults_struct_bin.size = 0
      BY Names, StoreFacts DEF defaults_struct_bin, Bin
    <2>2. bin' \in [Component -> Bin] /\ bin'["firmware"].size <= F
      BY <1>14, <2>1, <1>t, Names, StoreFacts DEF Command, FlashTypeOK
    <2>3. conf' \in [flashflag : {0, 1}, launched : {0, 1}, autobackup : {0, 1}]
      BY <1>14, <1>t DEF Command, FlashTypeOK
    <2> QED BY <1>14, <2>2, <2>3, <1>t DEF Command, FlashTypeOK
  <1> QED BY <1>1, <1>2, <1>3, <1>4, <1>5, <1>6, <1>7, <1>8, <1>9, <1>10, <1>11, <1>12, <1>13,
             <1>14 DEF AppStep, HomerStep

LEMMA TypeStep ==
    ASSUME TypeOK, StageInv, [Next]_vars
    PROVE  TypeOK'
  <1>1. CASE BootloaderStep
    BY <1>1, BootloaderFlashType, BootloaderRamType, TypeParts
  <1>2. CASE AppStep \/ HomerStep \/ Command \/ Disconnect \/ ConnectionStop \/ UploadTimeout
    BY <1>2, ApplicationFlashType, ApplicationRamType, TypeParts
  <1>3. CASE RestartTick \/ PowerLoss
    BY <1>3, InterruptedType, ResetType, TypeParts DEF RestartTick, PowerLoss
  <1>4. CASE UNCHANGED vars
    BY <1>4 DEF vars, flash, upload, TypeOK
  <1> QED BY <1>1, <1>2, <1>3, <1>4 DEF Next

-----------------------------------------------------------------------------
(* The stages.                                                             *)

LEMMA OnlyStateOf ==
    ASSUME TypeOK, NEW c \in Component, NEW s \in State, set_state(c, s)
    PROVE  OnlyState(c, s)
  BY SetState DEF TypeOK

LEMMA CopiedOf ==
    ASSUME TypeOK, NEW c \in Component, NEW d \in Component, CopyBinary(c, d)
    PROVE  Copied(c, d)
  BY CopyStruct DEF TypeOK

LEMMA BootloaderStage ==
    ASSUME TypeOK, StageInv, BootloaderStep
    PROVE  StageInv'
  <1>t. RamTypeOK /\ F \in Nat /\ N \in Nat /\ Limit \in Nat
    BY TypeParts, StoreFacts
  <1>s. Firmware.size \in Nat /\ Buffer.size \in Nat /\ Backup.size \in Nat
    BY BinTyped, Names, StoreFacts DEF Firmware, Buffer, Backup
  <1> USE DEF StageInv, RestoreStage, CopyStage, UploadStage, Starting, Running, Buffer, Backup,
              Firmware, Source, upload, RamTypeOK
  <1>1. CASE Boot
    BY <1>1, <1>t DEF Boot, flash
  <1>2. CASE RestoreErase
    BY <1>2, <1>t DEF RestoreErase
  <1>3. CASE RestoreErased
    <2>1. OnlyState("buffer", "ERASED")
      BY <1>3, OnlyStateOf, Names DEF RestoreErased
    <2> QED BY <1>3, <2>1, <1>t DEF RestoreErased, OnlyState
  <1>4. CASE SelectMode
    BY <1>4, <1>t DEF SelectMode, AutomaticMode, flash
  <1>5. CASE BackupStart
    <2>1. OnlyState("backup", "INVALID")
      BY <1>5, OnlyStateOf, Names DEF BackupStart
    <2>2. bin'["firmware"] = bin["firmware"] /\ bin'["buffer"] = bin["buffer"]
      BY <2>1, Names DEF OnlyState
    <2> QED BY <1>5, <2>1, <2>2, <1>t, <1>s DEF BackupStart, BackupNeeded, OnlyState
  <1>6. CASE BackupSkip
    BY <1>6, <1>t DEF BackupSkip, AfterBackup, flash
  <1>7. CASE BackupCopy
    BY <1>7, <1>t, <1>s DEF BackupCopy
  <1>8. CASE BackupFinish
    <2>1. Copied("backup", "firmware")
      BY <1>8, CopiedOf, Names DEF BackupFinish
    <2>2. bin'["buffer"] = bin["buffer"]
      BY <2>1, Names DEF Copied
    <2> QED BY <1>8, <2>2, <1>t DEF BackupFinish, AfterBackup
  <1>9. CASE FlashStart
    <2>1. CASE Flashable
      <3>1. OnlyState("firmware", "INVALID")
        BY <1>9, <2>1, OnlyStateOf, Names DEF FlashStart
      <3>2. bin'["backup"] = bin["backup"] /\ bin'["buffer"] = bin["buffer"]
        BY <3>1, Names DEF OnlyState
      <3> QED BY <1>9, <2>1, <3>1, <3>2, <1>t DEF FlashStart, OnlyState, Flashable
    <2>2. CASE ~ Flashable
      BY <1>9, <2>2, <1>t DEF FlashStart, AfterFlash
    <2> QED BY <2>1, <2>2
  <1>10. CASE FlashErase
    BY <1>10, <1>t, <1>s DEF FlashErase
  <1>11. CASE FlashCopy
    BY <1>11, <1>t, <1>s DEF FlashCopy
  <1>12. CASE FlashFinish
    <2>1. Copied("firmware", Source)
      BY <1>12, CopiedOf, Names DEF FlashFinish
    <2>2. bin'["buffer"] = bin["buffer"]
      BY <2>1, Names DEF Copied
    <2> QED BY <1>12, <2>2, <1>t DEF FlashFinish, AfterFlash
  <1>13. CASE FlashConf \/ End \/ Autojump
    BY <1>13, <1>t DEF FlashConf, End, Autojump, flash
  <1> QED BY <1>1, <1>2, <1>3, <1>4, <1>5, <1>6, <1>7, <1>8, <1>9, <1>10, <1>11, <1>12, <1>13
          DEF BootloaderStep

\* A place of the byzance thread outside update_component and the writing of a
\* part; the struct of the buffer is saved, or neither saved nor erased.
LEMMA LoopStage ==
    ASSUME TypeOK, StageInv, pc \in Running, pc' \in {"loop", "erasing", "prepare"},
           conn' = conn,
           eraseCounter' = eraseCounter,
           pc' = "erasing" => i' < eraseCounter,
           pc' = "prepare" => announced' # None,
           unsaved' => announced' # None /\ unsaved,
           \/ Ram' = Ram /\ Buffer'.size = Buffer.size
           \/ Ram'.state # "ERASING"
    PROVE  StageInv'
  <1>1. pc # "r_erase" /\ pc' \notin {"r_erase", "off", "writing", "upd_erase", "upd_copy"}
           /\ pc' \notin Starting /\ pc' \in Running
    BY DEF Running, Starting
  <1>2. RestoreStage'
    BY <1>1 DEF StageInv, RestoreStage
  <1>3. CopyStage'
    BY <1>1 DEF CopyStage, Starting
  <1>4. UploadStage'
    BY <1>1 DEF StageInv, UploadStage
  <1> QED BY <1>2, <1>3, <1>4 DEF StageInv

LEMMA ApplicationStage ==
    ASSUME TypeOK, StageInv, AppStep \/ HomerStep
    PROVE  StageInv'
  <1>t. RamTypeOK /\ F \in Nat /\ N \in Nat /\ N > F /\ Limit \in Nat /\ UploadStage
    BY TypeParts, StoreFacts DEF StageInv
  <1>s. Buffer.size \in 0 .. Limit /\ Ram.size \in 0 .. Limit
    BY <1>t, BinTyped, Names, RamFacts DEF Buffer
  <1>r. pc = "loop" => pc \in Running
    BY DEF Running
  <1>1. CASE AppCrash
    BY <1>1, <1>t DEF AppCrash, ResetRam, flash, StageInv, RestoreStage, CopyStage, UploadStage,
       Starting, Running
  <1>2. CASE AppFix
    <2>1. bin'["buffer"] = bin["buffer"]
      BY <1>2 DEF AppFix, TypeOK, Component
    <2> QED BY <1>2, <2>1, <1>t DEF AppFix, StageInv, RestoreStage, CopyStage, UploadStage,
            Starting, Running, Buffer, upload
  <1>3. CASE AppLaunch
    <2>1. ~ unsaved /\ Buffer.state # "ERASING"
      BY <1>3 DEF AppLaunch, StageInv, RestoreStage, UploadStage, Running, Starting
    <2>2. Ram'.state # "ERASING"
      BY <1>3, <2>1 DEF AppLaunch, Ram, upload, Buffer
    <2> QED BY <1>3, <2>1, <2>2, <1>t DEF AppLaunch, StageInv, RestoreStage, CopyStage,
            UploadStage, Starting, Running, Buffer, upload
  <1>4. CASE EraseSubsector
    <2>1. UNCHANGED <<bin, upload, i>> /\ pc = "loop" /\ pc' = "erasing" /\ i < eraseCounter
      BY <1>4 DEF EraseSubsector
    <2>2. Ram' = Ram /\ Buffer'.size = Buffer.size
      BY <2>1 DEF Ram, upload, Buffer
    <2> QED BY <2>1, <2>2, <1>t, <1>r, LoopStage DEF upload, UploadStage
  <1>5. CASE EraseCounted
    <2>1. /\ UNCHANGED <<bin, unsaved, announced, conn, eraseCounter>>
          /\ pc = "erasing" /\ pc' = "loop"
      BY <1>5 DEF EraseCounted, flash
    <2>2. Ram' = Ram /\ Buffer'.size = Buffer.size
      BY <2>1 DEF Ram, Buffer
    <2> QED BY <2>1, <2>2, <1>t, LoopStage DEF UploadStage, Running
  <1>6. CASE EraseDone \/ UploadEnd
    <2>1. PICK s \in {"ERASED", "VALID", "INVALID"} : SetBuffer(s)
      BY <1>6 DEF EraseDone, UploadEnd
    <2>2. UNCHANGED <<announced, conn, eraseCounter, i>> /\ pc = "loop" /\ pc' = "loop"
      BY <1>6 DEF EraseDone, UploadEnd
    <2>3. CASE SavedAs(s)
      <3>1. ~ unsaved' /\ Ram' = Buffer' /\ Buffer'.state # "ERASING"
        BY <2>1, <2>3 DEF SavedAs, Ram, Buffer
      <3> QED BY <2>2, <3>1, <1>r, LoopStage
    <2>4. CASE NotSaved(s)
      <3>1. Ram' = Ram /\ Buffer' = Buffer /\ unsaved' = unsaved
        BY <2>2, <2>4 DEF NotSaved, Ram, Buffer
      <3> QED BY <2>2, <3>1, <1>r, <1>t, LoopStage DEF UploadStage
    <2> QED BY <2>1, <2>3, <2>4, <1>t, SetBufferStruct, Names
  <1>7. CASE BufferPrepare
    <2>1. /\ announced \in Images /\ UNCHANGED <<announced, conn>> /\ pc' = "loop"
          /\ eraseCounter' = Size[announced] + 1 /\ pc \in Running
      BY <1>7, <1>t, PrepareFacts DEF BufferPrepare, Running
    <2>2. Size[announced] \in 1 .. Limit
      BY <2>1, StoreFacts
    <2>3. CASE ~ unsaved' /\ Buffer'.state = "ERASING" /\ Buffer'.size = Size[announced]
      BY <2>1, <2>2, <2>3, <1>t DEF StageInv, RestoreStage, CopyStage, UploadStage, Starting,
         Running
    <2>4. CASE unsaved' /\ bin' = bin /\ conn = "stop"
      <3>1. Ram'.state = "INVALID"
        BY <2>4 DEF Ram
      <3> QED BY <2>1, <2>2, <2>4, <3>1, <1>t, StoreFacts DEF StageInv, RestoreStage, CopyStage,
              UploadStage, Starting, Running
    <2> QED BY <1>7, <2>3, <2>4, <1>t, PrepareFacts
  <1>8. CASE WritePart
    <2>1. UNCHANGED <<bin, unsaved, announced, conn, eraseCounter>> /\ pc = "writing" /\ pc' = "loop"
      BY <1>8 DEF WritePart
    <2>2. Ram' = Ram /\ Buffer'.size = Buffer.size
      BY <2>1 DEF Ram, Buffer
    <2> QED BY <2>1, <2>2, <1>t, LoopStage DEF UploadStage, Running
  <1>9. CASE UpdateErase \/ UpdateCopy
    <2>1. /\ UNCHANGED <<bin, i, eraseCounter, unsaved, announced, conn>>
          /\ pc \in {"upd_erase", "upd_copy"} /\ pc' = "upd_copy" /\ copied' <= Ram.size
      BY <1>9, <1>s, <1>t DEF UpdateErase, UpdateCopy, RamTypeOK
    <2>2. Ram' = Ram /\ Buffer' = Buffer /\ Backup' = Backup
      BY <2>1 DEF Ram, Buffer, Backup
    <2> QED BY <2>1, <2>2, <1>t DEF StageInv, RestoreStage, CopyStage, UploadStage, Starting,
            Running
  <1>10. CASE UpdateFinish
    <2>1. UNCHANGED <<i, eraseCounter, unsaved, announced, conn>> /\ pc = "upd_copy" /\ pc' = "loop"
      BY <1>10 DEF UpdateFinish
    <2>2. Buffer' = Buffer
      BY <1>10 DEF UpdateFinish, Buffer, TypeOK, Component
    <2>3. Ram' = Ram
      BY <2>1, <2>2 DEF Ram, Buffer
    <2> QED BY <2>1, <2>2, <2>3, <1>t, LoopStage DEF UploadStage, Running
  <1>11. ASSUME NEW g \in Images, UploadStart(g)
         PROVE  StageInv'
    <2>1. /\ UNCHANGED <<bin, i, eraseCounter, unsaved, conn>> /\ announced' = g /\ g # None
          /\ pc = "loop" /\ pc' = "prepare"
      BY <1>11, StoreFacts DEF UploadStart
    <2>2. CASE unsaved
      <3>1. Ram'.state = "INVALID"
        BY <2>1, <2>2 DEF Ram
      <3> QED BY <2>1, <3>1, <1>r, LoopStage
    <2>3. CASE ~ unsaved
      <3>1. Ram' = Ram /\ Buffer' = Buffer
        BY <2>1, <2>3 DEF Ram, Buffer
      <3> QED BY <2>1, <3>1, <1>r, LoopStage
    <2> QED BY <2>2, <2>3
  <1>12. ASSUME NEW g \in Images, UploadDuplicate(g)
         PROVE  StageInv'
    <2>1. /\ UNCHANGED <<bin, i, eraseCounter, unsaved, conn>> /\ announced' = g /\ g # None
          /\ pc = "loop" /\ pc' = "loop" /\ Ram.img = g
      BY <1>12, StoreFacts DEF UploadDuplicate, flash, buffer_check
    <2>2. CASE unsaved
      <3>1. Ram'.state = "INVALID"
        BY <2>1, <2>2 DEF Ram
      <3> QED BY <2>1, <3>1, <1>r, LoopStage
    <2>3. CASE ~ unsaved
      <3>1. Ram' = Ram /\ Buffer' = Buffer
        BY <2>1, <2>3 DEF Ram, Buffer
      <3> QED BY <2>1, <3>1, <1>r, LoopStage
    <2> QED BY <2>2, <2>3
  <1>13. CASE UploadData
    <2>1. /\ UNCHANGED <<i, eraseCounter, announced, part, conn>> /\ pc = "loop"
          /\ pc' = "writing" /\ part < Limit /\ SetBuffer("INVALID")
      BY <1>13 DEF UploadData, PartSent
    <2>2. CASE SavedAs("INVALID")
      <3>1. ~ unsaved' /\ Buffer'.state = "INVALID" /\ Ram'.state = "INVALID"
        BY <2>2 DEF SavedAs, Ram, Buffer
      <3> QED BY <2>1, <3>1, <1>t DEF StageInv, RestoreStage, CopyStage, UploadStage, Starting,
              Running
    <2>3. CASE NotSaved("INVALID")
      <3>1. Ram' = Ram /\ Buffer' = Buffer /\ unsaved' = unsaved
        BY <2>1, <2>3 DEF NotSaved, Ram, Buffer
      <3>2. Buffer.state = "INVALID" \/ Disconnects
        BY <2>3, <1>t, RamFacts DEF NotSaved, UploadStage
      <3> QED BY <2>1, <3>1, <3>2, <1>t DEF StageInv, RestoreStage, CopyStage, UploadStage,
              Starting, Running
    <2> QED BY <2>1, <2>2, <2>3, <1>t, SetBufferStruct, Names
  <1>14. CASE UpdateFirmware \/ SetAutobackup \/ SystemRestart
    <2>1. UNCHANGED <<bin, i, eraseCounter, unsaved, announced, conn, pc>> /\ pc = "loop"
      BY <1>14 DEF UpdateFirmware, SetAutobackup, SystemRestart, flash, upload
    <2>2. Ram' = Ram /\ Buffer' = Buffer
      BY <2>1 DEF Ram, Buffer
    <2> QED BY <2>1, <2>2, <1>r, <1>t, LoopStage DEF UploadStage
  <1>15. CASE UpdateBackup
    <2>1. UNCHANGED <<i, eraseCounter, unsaved, announced, conn>> /\ pc = "loop" /\ pc' = "upd_erase"
      BY <1>15 DEF UpdateBackup, upload
    <2>2. Buffer' = Buffer
      BY <1>15, OnlyStateOf, Names DEF UpdateBackup, OnlyState, Buffer
    <2>3. Backup'.state = "INVALID" \/ Disconnects
      BY <1>15, OnlyStateOf, Names, <1>t DEF UpdateBackup, OnlyState, Backup, MayBeLocked,
         UploadStage
    <2>4. Ram' = Ram
      BY <2>1, <2>2 DEF Ram, Buffer
    <2> QED BY <2>1, <2>2, <2>3, <2>4, <1>t DEF StageInv, RestoreStage, CopyStage, UploadStage,
            Starting, Running
  <1> QED BY <1>1, <1>2, <1>3, <1>4, <1>5, <1>6, <1>7, <1>8, <1>9, <1>10, <1>11, <1>12, <1>13,
             <1>14, <1>15 DEF AppStep, HomerStep

LEMMA StageStep ==
    ASSUME TypeOK, StageInv, [Next]_vars
    PROVE  StageInv'
  <1>t. RamTypeOK /\ F \in Nat /\ N \in Nat /\ Limit \in Nat
    BY TypeParts, StoreFacts
  <1>1. CASE BootloaderStep
    BY <1>1, BootloaderStage
  <1>2. CASE AppStep \/ HomerStep
    BY <1>2, ApplicationStage
  <1>3. CASE Command
    <2>1. /\ pc = "commands" /\ UNCHANGED <<i, eraseCounter, unsaved, conn>>
          /\ pc' \in Starting \ {"bk_copy", "fl_erase", "fl_copy"}
      BY <1>3 DEF Command, Starting, upload
    <2>2. bin'["buffer"].state # "ERASING"
      BY <1>3 DEF Command, StageInv, RestoreStage, Starting, Buffer, defaults_struct_bin,
         Component
    <2> QED BY <2>1, <2>2, <1>t DEF StageInv, RestoreStage, CopyStage, UploadStage, Starting,
            Running, Buffer
  <1>4. CASE Disconnect \/ UploadTimeout
    <2>1. /\ UNCHANGED <<bin, pc, mode, i, eraseCounter, unsaved, announced, part, copied>>
          /\ conn' = "stop" => pc \in Running /\ Disconnects
      BY <1>4 DEF Disconnect, UploadTimeout, flash, StageInv, UploadStage, Disconnects
    <2>2. Ram' = Ram
      BY <2>1 DEF Ram
    <2> QED BY <2>1, <2>2 DEF StageInv, RestoreStage, CopyStage, UploadStage, Buffer, Backup,
            Firmware, Source
  <1>5. CASE ConnectionStop
    <2>1. /\ pc \in Running /\ conn' = "idle"
          /\ UNCHANGED <<pc, mode, i, eraseCounter, unsaved, announced, part, copied>>
      BY <1>5 DEF ConnectionStop, StageInv, UploadStage
    <2>2. CASE UNCHANGED bin
      <3>1. Ram' = Ram
        BY <2>1, <2>2 DEF Ram
      <3> QED BY <2>1, <2>2, <3>1 DEF StageInv, RestoreStage, CopyStage, UploadStage, Buffer,
              Backup, Firmware, Source
    <2>3. CASE set_state("buffer", "INVALID")
      <3>1. OnlyState("buffer", "INVALID")
        BY <2>3, OnlyStateOf, Names
      <3>2. Backup' = Backup /\ Buffer'.state = "INVALID" /\ Buffer'.size = Buffer.size
        BY <3>1, Names DEF OnlyState, Backup, Buffer
      <3>3. Ram'.state # "ERASING" /\ Ram'.size = Ram.size
        BY <2>1, <3>2 DEF Ram, Buffer
      <3> QED BY <2>1, <3>2, <3>3 DEF StageInv, RestoreStage, CopyStage, UploadStage, Running,
              Starting
    <2> QED BY <1>5, <2>2, <2>3 DEF ConnectionStop
  <1>6. CASE RestartTick \/ PowerLoss
    BY <1>6, <1>t DEF RestartTick, PowerLoss, ResetRam, StageInv, RestoreStage, CopyStage,
       UploadStage, Starting, Running
  <1>7. CASE UNCHANGED vars
    <2>1. UNCHANGED <<bin, pc, mode, i, eraseCounter, unsaved, announced, part, conn, copied>>
      BY <1>7 DEF vars, flash, upload
    <2>2. Ram' = Ram
      BY <2>1 DEF Ram
    <2> QED BY <2>1, <2>2 DEF StageInv, RestoreStage, CopyStage, UploadStage, Buffer, Backup,
            Firmware, Source
  <1> QED BY <1>1, <1>2, <1>3, <1>4, <1>5, <1>6, <1>7 DEF Next

-----------------------------------------------------------------------------
(* Which data a step may change.                                           *)

\* Subsector k is not changed, but by the erase, the part or the copy that is
\* in progress.
Touches(k) ==
    \/ ext'[k] = ext[k]
    \/ pc \in {"loop", "r_erase"} /\ Buffer.state = "ERASING" /\ k = i /\ i < eraseCounter
    \/ pc = "writing" /\ k = part
    \/ pc \in {"bk_copy", "upd_erase", "upd_copy"} /\ k >= N

\* A program or an erase that is cut changes the subsector it works on.
LEMMA InterruptedData ==
    ASSUME TypeOK, StageInv, Interrupted
    PROVE  /\ UNCHANGED <<bin, conf>>
           /\ pc \notin {"fl_erase", "fl_copy"} => fw' = fw
           /\ \A k \in ExtNo : Touches(k)
  <1>t. /\ RamTypeOK /\ FlashTypeOK /\ N \in Nat /\ UploadStage
        /\ i \in Nat /\ part \in Nat /\ copied \in Nat
    BY TypeParts, StoreFacts, Bounds DEF StageInv, RamTypeOK
  <1>s. Ram.size \in 0 .. Limit
    BY <1>t, RamFacts
  <1>1. CASE UNCHANGED flash
    BY <1>1 DEF flash, Touches
  <1>2. ASSUME NEW n \in ExtNo, NEW u \in {Blank, Torn},
               \/ pc = "r_erase" /\ i < eraseCounter /\ n = BUFFER + i
               \/ pc = "bk_copy" /\ i < bin["firmware"].size /\ n = BACKUP + i
               \/ pc = "loop" /\ Ram.state = "ERASING" /\ i < eraseCounter
                  /\ n = BUFFER + i
               \/ pc = "upd_copy" /\ copied < Ram.size /\ n = BACKUP + copied /\ u = Torn
               \/ pc = "writing" /\ n = BUFFER + part /\ u = Torn,
               ext' = [ext EXCEPT ![n] = u]
        PROVE  \A k \in ExtNo : Touches(k)
    <2>1. \A k \in ExtNo : k # n => ext'[k] = ext[k]
      BY <1>2, <1>t DEF FlashTypeOK
    <2>2. pc = "r_erase" => n = i /\ i < eraseCounter /\ Buffer.state = "ERASING"
      BY <1>2, <1>t DEF StageInv, RestoreStage, BUFFER
    <2>3. pc = "loop" => n = i /\ i < eraseCounter /\ Buffer.state = "ERASING"
      BY <1>2, <1>t, RamFacts DEF BUFFER
    <2>4. pc = "writing" => n = part
      BY <1>2, <1>t DEF BUFFER
    <2>5. pc \in {"bk_copy", "upd_copy"} => n >= N
      BY <1>2, <1>t DEF BACKUP
    <2>6. pc \in {"r_erase", "bk_copy", "loop", "upd_copy", "writing"}
      BY <1>2
    <2> QED BY <2>1, <2>2, <2>3, <2>4, <2>5, <2>6 DEF Touches
  <1>3. ASSUME pc = "upd_erase", NEW n \in 0 .. Ram.size, NEW u \in {Blank, Torn},
               ext' = [k \in ExtNo |-> IF k = BACKUP + n THEN u
                                      ELSE IF k - BACKUP \in 0 .. n THEN Blank ELSE ext[k]]
        PROVE  \A k \in ExtNo : Touches(k)
    <2> TAKE k \in ExtNo
    <2>1. k \in Nat /\ n \in Nat
      BY Indices, <1>s, <1>3, StoreFacts
    <2>2. CASE k >= N
      BY <1>3, <2>2 DEF Touches
    <2>3. CASE k < N
      <3>1. k # BACKUP + n /\ k - BACKUP \notin 0 .. n
        BY <2>1, <2>3, <1>t DEF BACKUP
      <3> QED BY <1>3, <3>1 DEF Touches
    <2> QED BY <2>1, <2>2, <2>3, <1>t
  <1>4. CASE /\ pc \in {"fl_erase", "fl_copy"}
             /\ UNCHANGED <<ext, bin, conf>>
    BY <1>4 DEF Touches
  <1> QED BY <1>1, <1>2, <1>3, <1>4 DEF Interrupted

LEMMA ChangedData ==
    ASSUME TypeOK, StageInv, [Next]_vars
    PROVE  /\ pc \notin {"fl_erase", "fl_copy"} => fw' = fw
           /\ \A k \in ExtNo : Touches(k)
  <1>t. /\ RamTypeOK /\ FlashTypeOK /\ N \in Nat /\ UploadStage
        /\ i \in Nat /\ part \in Nat /\ copied \in Nat
    BY TypeParts, StoreFacts, Bounds DEF StageInv, RamTypeOK
  <1>s. Ram.size \in 0 .. Limit
    BY <1>t, RamFacts
  <1>1. CASE RestartTick \/ PowerLoss
    BY <1>1, InterruptedData DEF RestartTick, PowerLoss
  <1>2. CASE RestoreErase
    <2>1. \A k \in ExtNo : k # i => ext'[k] = ext[k]
      BY <1>2, <1>t DEF RestoreErase, FlashTypeOK, BUFFER
    <2>2. i < eraseCounter /\ Buffer.state = "ERASING" /\ pc = "r_erase" /\ fw' = fw
      BY <1>2 DEF RestoreErase, StageInv, RestoreStage
    <2> QED BY <2>1, <2>2 DEF Touches
  <1>3. CASE EraseSubsector
    <2>1. \A k \in ExtNo : k # i => ext'[k] = ext[k]
      BY <1>3, <1>t DEF EraseSubsector, FlashTypeOK, BUFFER
    <2>2. i < eraseCounter /\ Buffer.state = "ERASING" /\ pc = "loop" /\ fw' = fw
      BY <1>3, <1>t, RamFacts DEF EraseSubsector
    <2> QED BY <2>1, <2>2 DEF Touches
  <1>4. CASE WritePart
    <2>1. \A k \in ExtNo : k # part => ext'[k] = ext[k]
      BY <1>4, <1>t DEF WritePart, FlashTypeOK, BUFFER
    <2> QED BY <1>4, <2>1 DEF WritePart, Touches
  <1>5. CASE BackupCopy
    <2>1. \A k \in ExtNo : k # N + i => ext'[k] = ext[k]
      BY <1>5, <1>t DEF BackupCopy, FlashTypeOK, BACKUP
    <2>2. pc = "bk_copy" /\ N + i >= N /\ fw' = fw
      BY <1>5, <1>t DEF BackupCopy
    <2> QED BY <2>1, <2>2 DEF Touches
  <1>6. CASE UpdateCopy
    <2>1. \A k \in ExtNo : k # N + copied => ext'[k] = ext[k]
      BY <1>6, <1>t DEF UpdateCopy, FlashTypeOK, BACKUP
    <2>2. pc = "upd_copy" /\ N + copied >= N /\ fw' = fw
      BY <1>6, <1>t DEF UpdateCopy
    <2> QED BY <2>1, <2>2 DEF Touches
  <1>7. CASE UpdateErase
    <2>1. ASSUME NEW k \in ExtNo
          PROVE  Touches(k)
      <3>1. k \in Nat
        BY Indices
      <3>2. CASE k >= N
        BY <1>7, <3>2 DEF UpdateErase, Touches
      <3>3. CASE k < N
        <4>1. k - BACKUP \notin 0 .. Ram.size
          BY <3>1, <3>3, <1>t, <1>s DEF BACKUP
        <4> QED BY <1>7, <4>1 DEF UpdateErase, Touches
      <3> QED BY <3>1, <3>2, <3>3, <1>t
    <2> QED BY <1>7, <2>1 DEF UpdateErase
  <1>8. CASE FlashErase \/ FlashCopy
    BY <1>8 DEF FlashErase, FlashCopy, Touches
  <1>9. CASE UNCHANGED <<ext, fw>>
    BY <1>9 DEF Touches
  <1>10. CASE BootloaderStep
    BY <1>2, <1>5, <1>8, <1>9, <1>10 DEF BootloaderStep, Boot, RestoreErased, SelectMode,
       BackupStart, BackupSkip, BackupFinish, FlashStart, FlashFinish, FlashConf, End, Autojump,
       flash
  <1>11. CASE AppStep \/ HomerStep
    BY <1>3, <1>4, <1>6, <1>7, <1>9, <1>11 DEF AppStep, HomerStep, AppCrash, AppFix, AppLaunch,
       EraseCounted, EraseDone, BufferPrepare, UpdateFinish, UploadStart, UploadDuplicate,
       UploadData, UploadEnd, UpdateFirmware, UpdateBackup, SetAutobackup, SystemRestart, flash
  <1>12. CASE Command \/ Disconnect \/ ConnectionStop \/ UploadTimeout \/ UNCHANGED vars
    BY <1>9, <1>12 DEF Command, Disconnect, ConnectionStop, UploadTimeout, flash, vars
  <1> QED BY <1>1, <1>10, <1>11, <1>12 DEF Next

\* What may become of VALID binaries in any environment.
LEMMA UnrulyStep ==
    ASSUME TypeOK, StageInv, [Next]_vars
    PROVE  /\ Firmware.state = "VALID" => Kept("firmware", {})
           /\ Buffer.state = "VALID" =>
                  Kept("buffer", N .. Limit) \/ (pc = "writing" /\ Disconnects)
           /\ Backup.state = "VALID" =>
                  Kept("backup", Overrun)
                      \/ (pc \in {"upd_erase", "upd_copy"} /\ Disconnects)
  <1>t. /\ N \in Nat /\ Limit \in Nat
        /\ Buffer.size \in 0 .. Limit /\ Backup.size \in 0 .. Limit
    BY StoreFacts, BinTyped, Names DEF Buffer, Backup
  <1>1. Firmware.state = "VALID" => fw' = fw
    BY ChangedData DEF StageInv, CopyStage
  <1>2. ASSUME Buffer.state = "VALID", ~ (pc = "writing" /\ Disconnects)
        PROVE  Kept("buffer", N .. Limit)
    <2>1. pc # "writing"
      BY <1>2 DEF StageInv, UploadStage
    <2>2. ASSUME NEW k \in 0 .. Buffer.size - 1, k \notin N .. Limit
          PROVE  ext'[BUFFER + k] = ext[BUFFER + k]
      <3>1. BUFFER + k = k /\ k \in ExtNo /\ ~ (k >= N)
        BY <2>2, <1>t DEF BUFFER, ExtNo
      <3> QED BY <1>2, <2>1, <3>1, ChangedData DEF Touches
    <2> QED BY <2>2 DEF Kept, Buffer, Partition
  <1>3. ASSUME Backup.state = "VALID", ~ (pc \in {"upd_erase", "upd_copy"} /\ Disconnects)
        PROVE  Kept("backup", Overrun)
    <2>1. pc \notin {"bk_copy", "upd_erase", "upd_copy"}
      BY <1>3 DEF StageInv, CopyStage
    <2>2. ASSUME NEW k \in 0 .. Backup.size - 1, k \notin Overrun
          PROVE  ext'[BACKUP + k] = ext[BACKUP + k]
      <3>1. N + k \in ExtNo /\ BACKUP + k = N + k
        BY <1>t DEF BACKUP, ExtNo
      <3>2. i \in Nat /\ part \in Nat
        BY Bounds, StoreFacts DEF TypeOK
      <3>3. pc = "writing" => N + k # part
        BY <2>2, <3>2, <1>t DEF Overrun
      <3>4. pc # "writing" => N + k # i
        BY <2>2, <3>2, <1>t DEF Overrun
      <3> QED BY <2>1, <3>1, <3>3, <3>4, ChangedData DEF Touches
    <2> QED BY <2>2 DEF Kept, Backup, Partition
  <1> QED BY <1>1, <1>2, <1>3 DEF Kept

-----------------------------------------------------------------------------
(* The erased buffer.                                                      *)

\* How the struct of the buffer changes.
LEMMA BufferStruct ==
    ASSUME TypeOK, StageInv, [Next]_vars
    PROVE  \/ Buffer' = Buffer
           \/ RestoreErased /\ OnlyState("buffer", "ERASED")
           \/ EraseDone /\ SavedAs("ERASED")
           \/ /\ BufferPrepare /\ ~ unsaved' /\ Buffer'.state = "ERASING"
              /\ Buffer'.img = announced /\ Buffer'.size = Size[announced]
           \/ UploadData /\ SavedAs("INVALID")
           \/ UploadEnd /\ SavedAs(IF CrcEqual THEN "VALID" ELSE "INVALID")
           \/ ConnectionStop /\ OnlyState("buffer", "INVALID")
           \/ Command /\ Buffer' = defaults_struct_bin
  <1>u. UploadStage
    BY DEF StageInv
  <1>1. CASE BootloaderStep
    <2>1. CASE RestoreErased
      BY <2>1, OnlyStateOf, Names DEF RestoreErased
    <2>2. CASE BackupStart
      BY <2>2, OnlyStateOf, Names DEF BackupStart, OnlyState, Buffer
    <2>3. CASE BackupFinish \/ FlashFinish
      BY <2>3, CopiedOf, Names DEF BackupFinish, FlashFinish, Copied, Buffer
    <2>4. CASE FlashStart
      BY <2>4, OnlyStateOf, Names DEF FlashStart, OnlyState, Buffer
    <2>5. CASE UNCHANGED bin
      BY <2>5 DEF Buffer
    <2> QED BY <1>1, <2>1, <2>2, <2>3, <2>4, <2>5 DEF BootloaderStep, Boot, RestoreErase, SelectMode,
            BackupSkip, BackupCopy, FlashErase, FlashCopy, FlashConf, End, Autojump, flash
  <1>2. CASE AppStep \/ HomerStep
    <2>1. CASE AppFix
      BY <2>1 DEF AppFix, TypeOK, Component, Buffer
    <2>2. CASE EraseDone
      BY <2>2, <1>u, SetBufferStruct, Names DEF EraseDone, NotSaved, Buffer
    <2>3. CASE UploadData
      BY <2>3, <1>u, SetBufferStruct, Names DEF UploadData, NotSaved, Buffer
    <2>4. CASE UploadEnd
      BY <2>4, <1>u, SetBufferStruct, Names DEF UploadEnd, NotSaved, Buffer
    <2>5. CASE BufferPrepare
      BY <2>5, <1>u, PrepareFacts DEF Buffer
    <2>6. CASE UpdateFinish
      BY <2>6 DEF UpdateFinish, Buffer, TypeOK, Component
    <2>7. CASE UpdateBackup
      BY <2>7, OnlyStateOf, Names DEF UpdateBackup, OnlyState, Buffer
    <2>8. CASE UNCHANGED bin
      BY <2>8 DEF Buffer
    <2> QED BY <1>2, <2>1, <2>2, <2>3, <2>4, <2>5, <2>6, <2>7, <2>8 DEF AppStep, HomerStep, AppCrash,
            AppLaunch, EraseSubsector, EraseCounted, WritePart, UpdateErase, UpdateCopy,
            UploadStart, UploadDuplicate, UpdateFirmware, SetAutobackup, SystemRestart, flash
  <1>3. CASE Command
    BY <1>3 DEF Command, Buffer, Component
  <1>4. CASE ConnectionStop
    BY <1>4, OnlyStateOf, Names DEF ConnectionStop, Buffer
  <1>5. CASE Disconnect \/ UploadTimeout \/ UNCHANGED vars
    BY <1>5 DEF Disconnect, UploadTimeout, vars, flash, Buffer
  <1>6. CASE RestartTick \/ PowerLoss
    BY <1>6, InterruptedData DEF RestartTick, PowerLoss, Buffer
  <1> QED BY <1>1, <1>2, <1>3, <1>4, <1>5, <1>6 DEF Next

\* How the byzance thread gets to its places.
LEMMA Entering ==
    ASSUME StageInv, [Next]_vars
    PROVE  /\ pc' = "r_erase" => \/ Boot \/ RestoreErase
                                 \/ pc = "r_erase" /\ UNCHANGED vars
           /\ pc' = "prepare" => pc = "prepare" \/ \E g \in Images : UploadStart(g)
           /\ pc' = "writing" => pc = "writing" \/ UploadData
           /\ pc' = "erasing" => pc = "erasing" \/ EraseSubsector
           /\ pc' = "upd_erase" => pc = "upd_erase" \/ UpdateBackup
           /\ pc' = "upd_copy" => pc = "upd_copy" \/ UpdateErase
           /\ pc' \in Running => pc \in Running \/ AppLaunch
  <1>1. CASE BootloaderStep \/ Command
    <2>1. pc' \notin Running /\ (pc' = "r_erase" => Boot \/ RestoreErase)
      BY <1>1 DEF BootloaderStep, Command, Boot, RestoreErase, RestoreErased, SelectMode,
         AutomaticMode, BackupStart, BackupSkip, BackupCopy, BackupFinish, FlashStart, FlashErase,
         FlashCopy, FlashFinish, FlashConf, End, Autojump, AfterBackup, AfterFlash, Running
    <2> QED BY <2>1 DEF Running
  <1>2. CASE AppStep \/ HomerStep
    BY <1>2 DEF AppStep, HomerStep, AppCrash, ResetRam, AppFix, AppLaunch, EraseSubsector,
       EraseCounted, EraseDone, BufferPrepare, WritePart, UpdateErase, UpdateCopy, UpdateFinish,
       UploadStart, UploadDuplicate, UploadData, UploadEnd, UpdateFirmware, UpdateBackup,
       SetAutobackup, SystemRestart, Running
  <1>3. CASE UNCHANGED vars
    BY <1>3 DEF vars
  <1>4. CASE Disconnect \/ ConnectionStop \/ UploadTimeout
    <2>1. pc' = pc /\ pc \in Running
      BY <1>4 DEF Disconnect, ConnectionStop, UploadTimeout, StageInv, UploadStage
    <2> QED BY <2>1 DEF Running
  <1>5. CASE RestartTick \/ PowerLoss
    BY <1>5 DEF RestartTick, PowerLoss, ResetRam, Running
  <1> QED BY <1>1, <1>2, <1>3, <1>4, <1>5 DEF Next

\* What may happen while the application runs.
LEMMA WhileRunning ==
    ASSUME pc \in Running, [Next]_vars
    PROVE  \/ EraseSubsector \/ EraseCounted \/ EraseDone \/ BufferPrepare \/ WritePart
           \/ UpdateErase \/ UpdateCopy \/ UpdateFinish
           \/ HomerStep \/ Disconnect \/ ConnectionStop \/ UploadTimeout
           \/ ResetRam \/ UNCHANGED vars
  <1>1. CASE BootloaderStep \/ Command
    BY <1>1 DEF BootloaderStep, Command, Boot, RestoreErase, RestoreErased, SelectMode,
       BackupStart, BackupSkip, BackupCopy, BackupFinish, FlashStart, FlashErase, FlashCopy,
       FlashFinish, FlashConf, End, Autojump, Running
  <1>2. CASE AppStep
    BY <1>2 DEF AppStep, AppCrash, AppFix, AppLaunch, Running
  <1> QED BY <1>1, <1>2 DEF Next, RestartTick, PowerLoss

\* How the struct in RAM changes while the application runs.
LEMMA RamStep ==
    ASSUME TypeOK, StageInv, pc \in Running, [Next]_vars
    PROVE  \/ BufferPrepare \/ ResetRam
           \/ \E g \in Images : UploadStart(g) \/ UploadDuplicate(g)
           \/ EraseDone /\ SavedAs("ERASED")
           \/ UploadData /\ SavedAs("INVALID")
           \/ UploadEnd /\ SavedAs(IF CrcEqual THEN "VALID" ELSE "INVALID")
           \/ ConnectionStop /\ OnlyState("buffer", "INVALID") /\ unsaved' = unsaved
           \/ Buffer' = Buffer /\ unsaved' = unsaved
  <1>u. UploadStage
    BY DEF StageInv
  <1>1. CASE EraseDone \/ UploadData \/ UploadEnd
    <2>1. ASSUME NEW s \in State, SetBuffer(s)
          PROVE  SavedAs(s) \/ (Buffer' = Buffer /\ unsaved' = unsaved)
      BY <2>1, <1>u, SetBufferStruct DEF NotSaved, Buffer
    <2> QED BY <1>1, <2>1, Names DEF EraseDone, UploadData, UploadEnd
  <1>2. CASE UpdateFinish
    BY <1>2 DEF UpdateFinish, Buffer, TypeOK, Component
  <1>3. CASE UpdateBackup
    BY <1>3, OnlyStateOf, Names DEF UpdateBackup, OnlyState, Buffer, upload
  <1>4. CASE ConnectionStop
    BY <1>4, OnlyStateOf, Names DEF ConnectionStop, Buffer
  <1>5. CASE UNCHANGED <<bin, unsaved>>
    BY <1>5 DEF Buffer
  <1> QED BY <1>1, <1>2, <1>3, <1>4, <1>5, WhileRunning DEF HomerStep, EraseSubsector, EraseCounted,
          WritePart, UpdateErase, UpdateCopy, UpdateFirmware, SetAutobackup, SystemRestart,
          Disconnect, UploadTimeout, vars, flash, upload

\* Nothing but buffer_prepare starts an erase.
LEMMA StillErasing ==
    ASSUME TypeOK, StageInv, pc \in Running, [Next]_vars, pc' \in Running,
           Ram'.state = "ERASING", ~ BufferPrepare
    PROVE  Ram.state = "ERASING" /\ Buffer' = Buffer
  <1>1. ~ unsaved' /\ Buffer'.state = "ERASING"
    BY DEF Ram, Buffer
  <1>2. ~ ResetRam
    BY DEF ResetRam, Running
  <1>3. CASE Buffer' = Buffer /\ unsaved' = unsaved
    BY <1>1, <1>3 DEF Ram, Buffer
  <1>4. CASE \E g \in Images : UploadStart(g) \/ UploadDuplicate(g)
    BY <1>3, <1>4 DEF UploadStart, UploadDuplicate, flash, Buffer
  <1> QED BY <1>1, <1>2, <1>3, <1>4, RamStep DEF SavedAs, OnlyState, Buffer

\* The erase index passes a subsector only when it is blank.
LEMMA ErasingStep ==
    ASSUME TypeOK, StageInv, ErasingBlank, [Next]_vars
    PROVE  ErasingBlank'
  <1>t. /\ FlashTypeOK /\ N \in Nat /\ Limit \in Nat /\ i \in Nat /\ i <= MaxErase
        /\ MaxErase \in {N + 1, Limit + 1} /\ part \in Nat /\ UploadStage
    BY TypeParts, StoreFacts, Bounds DEF StageInv, RamTypeOK
  <1>1. ASSUME pc' = "r_erase"
        PROVE  ErasingBlank'
    <2>1. CASE Boot
      BY <1>1, <2>1 DEF Boot, ErasingBlank, StageInv, RestoreStage
    <2>2. CASE RestoreErase
      <3>1. /\ ext' = [ext EXCEPT ![i] = Blank] /\ i' = i + 1 /\ i \in 0 .. N
            /\ pc = "r_erase"
        BY <2>2, <1>t DEF RestoreErase, BUFFER, StageInv, RestoreStage
      <3>2. \A k \in 0 .. i - 1 : ext[k] = Blank
        BY <3>1 DEF ErasingBlank, Erasing
      <3>3. \A k \in 0 .. i : ext'[k] = Blank
        BY <3>1, <3>2, <1>t DEF FlashTypeOK, ExtNo
      <3> QED BY <1>1, <3>1, <3>3, <1>t DEF ErasingBlank
    <2>3. CASE pc = "r_erase" /\ UNCHANGED vars
      BY <1>1, <2>3 DEF vars, flash, ErasingBlank, Erasing
    <2> QED BY <1>1, <2>1, <2>2, <2>3, Entering
  <1>2. ASSUME pc' \in Running, Ram'.state = "ERASING", part' = 0
        PROVE  ErasingBlank'
    <2>0. pc' # "r_erase"
      BY <1>2 DEF Running
    <2>1. CASE BufferPrepare
      BY <2>0, <2>1 DEF BufferPrepare, ErasingBlank
    <2>2. CASE AppLaunch
      BY <1>2, <2>2 DEF AppLaunch, Ram, Buffer, StageInv, RestoreStage, Starting
    <2>3. CASE pc \in Running /\ ~ BufferPrepare
      <3>1. Ram.state = "ERASING" /\ Buffer' = Buffer
        BY <1>2, <2>3, StillErasing
      <3>2. ASSUME part = 0, i' = i, pc' = "erasing" => pc = "erasing",
                   \A k \in 0 .. N - 1 : ext'[k] = ext[k]
            PROVE  ErasingBlank'
        <4>2. Erasing /\ pc # "r_erase"
          BY <2>3, <3>1, <3>2 DEF Erasing, Running
        <4>3. \A k \in 0 .. i - 1 : k < N => ext[k] = Blank
          BY <4>2 DEF ErasingBlank
        <4>4. pc = "erasing" /\ i < N => ext[i] = Blank
          BY <4>2 DEF ErasingBlank
        <4> QED BY <2>0, <3>2, <4>3, <4>4, <1>t DEF ErasingBlank
      <3>3. CASE EraseSubsector
        <4>1. /\ ext' = [ext EXCEPT ![i] = Blank] /\ i' = i /\ part = 0 /\ pc = "loop"
          BY <1>2, <3>3, <1>t DEF EraseSubsector, BUFFER, upload
        <4>2. \A k \in 0 .. i - 1 : k < N => ext[k] = Blank
          BY <2>3, <3>1, <4>1 DEF ErasingBlank, Erasing
        <4>3. /\ \A k \in 0 .. i - 1 : k < N => ext'[k] = Blank
              /\ i < N => ext'[i] = Blank
          BY <4>1, <4>2, <1>t DEF FlashTypeOK, ExtNo
        <4> QED BY <2>0, <4>1, <4>3 DEF ErasingBlank
      <3>4. CASE EraseCounted
        <4>1. /\ ext' = ext /\ i' = i + 1 /\ part = 0 /\ pc = "erasing" /\ pc' = "loop"
          BY <1>2, <3>4 DEF EraseCounted, flash
        <4>2. /\ \A k \in 0 .. i - 1 : k < N => ext[k] = Blank
              /\ i < N => ext[i] = Blank
          BY <2>3, <3>1, <4>1 DEF ErasingBlank, Erasing
        <4> QED BY <2>0, <4>1, <4>2, <1>t DEF ErasingBlank
      <3>5. CASE WritePart
        BY <1>2, <3>5, <1>t DEF WritePart
      <3>6. CASE ResetRam
        BY <1>2, <3>6 DEF ResetRam, Running
      <3>7. CASE UpdateErase \/ UpdateCopy
        <4>1. /\ UNCHANGED <<part, i>> /\ pc' # "erasing"
              /\ pc \in {"upd_erase", "upd_copy"}
          BY <3>7 DEF UpdateErase, UpdateCopy
        <4>2. ASSUME NEW k \in 0 .. N - 1
              PROVE  ext'[k] = ext[k]
          <5>1. k \in ExtNo /\ ~ (k >= N)
            BY <1>t DEF ExtNo
          <5> QED BY <4>1, <5>1, ChangedData DEF Touches
        <4> QED BY <1>2, <3>2, <4>1, <4>2
      <3>8. CASE \/ EraseDone \/ UpdateFinish \/ HomerStep
                 \/ Disconnect \/ ConnectionStop \/ UploadTimeout \/ UNCHANGED vars
        <4>1. UNCHANGED <<ext, part, i>> /\ (pc' = "erasing" => pc = "erasing")
          BY <3>8 DEF HomerStep, EraseDone, UpdateFinish, UploadStart,
             UploadDuplicate, UploadData, UploadEnd, UpdateFirmware, UpdateBackup, SetAutobackup,
             SystemRestart, Disconnect, ConnectionStop, UploadTimeout, vars, flash, upload
        <4> QED BY <1>2, <3>2, <4>1
      <3> QED BY <2>3, <3>3, <3>4, <3>5, <3>6, <3>7, <3>8, WhileRunning
    <2> QED BY <1>2, <2>1, <2>2, <2>3, Entering
  <1> QED BY <1>1, <1>2 DEF ErasingBlank, Erasing

\* ERASED is reported when every subsector of the image within the buffer is
\* blank.
LEMMA ErasedStep ==
    ASSUME TypeOK, StageInv, ErasingBlank, [Next]_vars,
           Buffer'.state = "ERASED", Buffer.state # "ERASED", part = 0
    PROVE  \A k \in 0 .. Buffer'.size - 1 : k < N => ext'[BUFFER + k] = Blank
  <1>t. N \in Nat /\ UploadStage /\ Buffer.size \in Nat /\ i \in Nat
    BY StoreFacts, Bounds, BinTyped, Names DEF StageInv, Buffer, TypeOK
  <1>1. CASE RestoreErased /\ OnlyState("buffer", "ERASED")
    <2>1. i = N + 1 /\ ext' = ext /\ pc = "r_erase" /\ Buffer'.size = Buffer.size
      BY <1>1 DEF RestoreErased, StageInv, RestoreStage, OnlyState, Buffer
    <2>2. \A k \in 0 .. N : ext[k] = Blank
      BY <2>1, <1>t DEF ErasingBlank, Erasing
    <2> QED BY <2>1, <2>2, <1>t DEF BUFFER
  <1>2. CASE EraseDone /\ SavedAs("ERASED")
    <2>1. pc = "loop" /\ Ram.state = "ERASING" /\ i >= eraseCounter /\ ext' = ext
      BY <1>2 DEF EraseDone
    <2>2. eraseCounter = Buffer.size + 1 /\ Buffer'.size = Buffer.size
      BY <1>2, <2>1, <1>t, RamFacts DEF UploadStage, Running, SavedAs
    <2>3. \A k \in 0 .. i - 1 : k < N => ext[k] = Blank
      BY <2>1 DEF ErasingBlank, Erasing, Running
    <2> QED BY <2>1, <2>2, <2>3, <1>t DEF BUFFER
  <1> QED BY <1>1, <1>2, BufferStruct DEF OnlyState, SavedAs, Buffer, defaults_struct_bin

-----------------------------------------------------------------------------
(* The structs when Homer is polite.                                       *)

\* Who changes the announced image and the number of parts.
LEMMA UploadVars ==
    ASSUME [Next]_vars
    PROVE  \/ UNCHANGED <<announced, part>>
           \/ ResetRam
           \/ BufferPrepare \/ WritePart
           \/ \E g \in Images : UploadStart(g)
           \/ ~ Polite
  <1>1. CASE BootloaderStep \/ Command
    BY <1>1 DEF BootloaderStep, Command, Boot, RestoreErase, RestoreErased, SelectMode,
       BackupStart, BackupSkip, BackupCopy, BackupFinish, FlashStart, FlashErase, FlashCopy,
       FlashFinish, FlashConf, End, Autojump, upload
  <1>2. CASE AppStep \/ HomerStep
    BY <1>2 DEF AppStep, HomerStep, AppCrash, AppFix, AppLaunch, EraseSubsector, EraseCounted,
       EraseDone, UpdateErase, UpdateCopy, UpdateFinish, UploadDuplicate, UploadData, UploadEnd,
       UpdateFirmware, UpdateBackup, SetAutobackup, SystemRestart, upload
  <1>3. CASE Disconnect \/ ConnectionStop \/ UploadTimeout \/ UNCHANGED vars
    BY <1>3 DEF Disconnect, ConnectionStop, UploadTimeout, vars, upload
  <1>4. CASE RestartTick \/ PowerLoss
    BY <1>4 DEF RestartTick, PowerLoss
  <1> QED BY <1>1, <1>2, <1>3, <1>4 DEF Next

\* Who changes the length of the erase.
LEMMA EraseCounters ==
    ASSUME [Next]_vars
    PROVE  \/ eraseCounter' = eraseCounter
           \/ eraseCounter' = 0
           \/ Boot /\ pc' = "r_erase"
           \/ BufferPrepare
  <1>1. CASE BootloaderStep \/ Command
    BY <1>1 DEF BootloaderStep, Command, Boot, RestoreErase, RestoreErased, SelectMode,
       BackupStart, BackupSkip, BackupCopy, BackupFinish, FlashStart, FlashErase, FlashCopy,
       FlashFinish, FlashConf, End, Autojump, upload
  <1>2. CASE AppStep \/ HomerStep
    BY <1>2 DEF AppStep, HomerStep, AppCrash, ResetRam, AppFix, AppLaunch, EraseSubsector,
       EraseCounted, EraseDone, WritePart, UpdateErase, UpdateCopy, UpdateFinish, UploadStart,
       UploadDuplicate, UploadData, UploadEnd, UpdateFirmware, UpdateBackup, SetAutobackup,
       SystemRestart, upload
  <1>3. CASE Disconnect \/ ConnectionStop \/ UploadTimeout \/ UNCHANGED vars
    BY <1>3 DEF Disconnect, ConnectionStop, UploadTimeout, vars, upload
  <1>4. CASE RestartTick \/ PowerLoss
    BY <1>4 DEF RestartTick, PowerLoss, ResetRam
  <1> QED BY <1>1, <1>2, <1>3, <1>4 DEF Next

\* The repeated erase of restore_processes is left at its end or by a reset.
LEMMA LeavingRestore ==
    ASSUME StageInv, [Next]_vars, pc = "r_erase", pc' # "r_erase"
    PROVE  eraseCounter' = 0
  <1>1. CASE BootloaderStep \/ Command
    BY <1>1 DEF BootloaderStep, Command, Boot, RestoreErase, RestoreErased, SelectMode,
       BackupStart, BackupSkip, BackupCopy, BackupFinish, FlashStart, FlashErase, FlashCopy,
       FlashFinish, FlashConf, End, Autojump
  <1>2. CASE AppStep \/ HomerStep
    BY <1>2 DEF AppStep, HomerStep, AppCrash, AppFix, AppLaunch, EraseSubsector,
       EraseCounted, EraseDone, BufferPrepare, WritePart, UpdateErase, UpdateCopy, UpdateFinish,
       UploadStart, UploadDuplicate, UploadData, UploadEnd, UpdateFirmware, UpdateBackup,
       SetAutobackup, SystemRestart
  <1>3. CASE Disconnect \/ ConnectionStop \/ UploadTimeout \/ UNCHANGED vars
    BY <1>3 DEF Disconnect, ConnectionStop, UploadTimeout, vars
  <1>4. CASE RestartTick \/ PowerLoss
    BY <1>4 DEF RestartTick, PowerLoss, ResetRam
  <1> QED BY <1>1, <1>2, <1>3, <1>4 DEF Next

\* How the struct of the backup changes.
LEMMA BackupStruct ==
    ASSUME TypeOK, StageInv, [Next]_vars
    PROVE  \/ Backup' = Backup
           \/ Backup'.state = "INVALID" /\ Backup'.size \in {Backup.size, 0}
           \/ BackupFinish /\ Copied("backup", "firmware")
           \/ /\ UpdateFinish /\ Backup'.state = "VALID"
              /\ Backup'.img = Ram.img /\ Backup'.size = Ram.size
  <1>u. UploadStage
    BY DEF StageInv
  <1>1. CASE BootloaderStep
    <2>1. CASE RestoreErased
      BY <2>1, OnlyStateOf, Names DEF RestoreErased, OnlyState, Backup
    <2>2. CASE BackupStart
      BY <2>2, OnlyStateOf, Names DEF BackupStart, OnlyState, Backup
    <2>3. CASE BackupFinish
      BY <2>3, CopiedOf, Names DEF BackupFinish
    <2>4. CASE FlashFinish
      BY <2>4, CopiedOf, Names DEF FlashFinish, Copied, Backup
    <2>5. CASE FlashStart
      BY <2>5, OnlyStateOf, Names DEF FlashStart, OnlyState, Backup
    <2>6. CASE UNCHANGED bin
      BY <2>6 DEF Backup
    <2> QED BY <1>1, <2>1, <2>2, <2>3, <2>4, <2>5, <2>6 DEF BootloaderStep, Boot, RestoreErase,
            SelectMode, BackupSkip, BackupCopy, FlashErase, FlashCopy, FlashConf, End, Autojump,
            flash
  <1>2. CASE AppStep \/ HomerStep
    <2>1. CASE AppFix
      BY <2>1 DEF AppFix, TypeOK, Component, Backup
    <2>2. CASE EraseDone \/ UploadData \/ UploadEnd
      <3>1. PICK s \in State : SetBuffer(s)
        BY <2>2, Names DEF EraseDone, UploadData, UploadEnd
      <3> QED BY <3>1, <1>u, SetBufferStruct, Names DEF Backup
    <2>3. CASE BufferPrepare
      BY <2>3, <1>u, PrepareFacts, Names DEF Backup
    <2>4. CASE UpdateBackup
      BY <2>4, OnlyStateOf, Names DEF UpdateBackup, OnlyState, Backup
    <2>5. CASE UpdateFinish
      <3>1. Ram \in Bin /\ bin \in [Component -> Bin]
        BY <1>u, RamFacts DEF TypeOK
      <3>2. CASE bin' = [bin EXCEPT !["backup"] = [Ram EXCEPT !.state = "VALID"]]
        <4>1. bin'["backup"] = [Ram EXCEPT !.state = "VALID"]
          BY <3>1, <3>2, Names
        <4>2. /\ [Ram EXCEPT !.state = "VALID"].state = "VALID"
              /\ [Ram EXCEPT !.state = "VALID"].img = Ram.img
              /\ [Ram EXCEPT !.state = "VALID"].size = Ram.size
          BY <3>1 DEF Bin
        <4> QED BY <2>5, <4>1, <4>2 DEF Backup
      <3> QED BY <2>5, <3>2 DEF UpdateFinish, Backup
    <2>6. CASE UNCHANGED bin
      BY <2>6 DEF Backup
    <2> QED BY <1>2, <2>1, <2>2, <2>3, <2>4, <2>5, <2>6 DEF AppStep, HomerStep, AppCrash, AppLaunch,
            EraseSubsector, EraseCounted, WritePart, UpdateErase, UpdateCopy, UploadStart,
            UploadDuplicate, UpdateFirmware, SetAutobackup, SystemRestart, flash
  <1>3. CASE Command
    BY <1>3 DEF Command, Backup, Component, defaults_struct_bin
  <1>4. CASE ConnectionStop
    BY <1>4, OnlyStateOf, Names DEF ConnectionStop, OnlyState, Backup
  <1>5. CASE Disconnect \/ UploadTimeout \/ UNCHANGED vars
    BY <1>5 DEF Disconnect, UploadTimeout, vars, flash, Backup
  <1>6. CASE RestartTick \/ PowerLoss
    BY <1>6, InterruptedData DEF RestartTick, PowerLoss, Backup
  <1> QED BY <1>1, <1>2, <1>3, <1>4, <1>5, <1>6 DEF Next

\* What a polite Homer announces fits into the firmware partition, and so does
\* everything that is copied from it.
LEMMA FitStep ==
    ASSUME TypeOK, TypeOK', StageInv, Polite, FitInv, [Next]_vars
    PROVE  FitInv'
  <1>t. /\ F \in Nat /\ UploadStage /\ Component = {"firmware", "backup", "buffer"}
        /\ Buffer.size <= F /\ Backup.size <= F /\ Firmware.size <= F
    BY StoreFacts, Names DEF StageInv, FitInv, Component, Buffer, Backup, Firmware
  <1>r. Ram.size <= F
    BY <1>t, RamFacts DEF FitInv, UploadStage
  <1>1. announced' # None => Size[announced'] <= F
    <2>1. CASE announced' = announced
      BY <2>1 DEF FitInv
    <2>2. ASSUME NEW g \in Images, UploadStart(g)
          PROVE  Size[announced'] <= F
      BY <2>2 DEF UploadStart
    <2> QED BY <2>1, <2>2, UploadVars DEF ResetRam, BufferPrepare, WritePart
  <1>2. Buffer'.size <= F
    <2>1. CASE BufferPrepare /\ Buffer'.size = Size[announced]
      BY <2>1, <1>t DEF BufferPrepare, UploadStage, FitInv
    <2> QED BY <1>t, <1>r, <2>1, BufferStruct DEF OnlyState, SavedAs, Buffer, defaults_struct_bin
  <1>3. Backup'.size <= F
    BY <1>t, <1>r, BackupStruct DEF Copied, Backup, Firmware
  <1>4. Firmware'.size <= F
    BY DEF TypeOK, Firmware
  <1>5. pc' # "r_erase" => eraseCounter' <= F + 1
    <2>1. CASE BufferPrepare
      <3>1. announced # None /\ eraseCounter' = Size[announced] + 1
        BY <2>1, <1>t DEF BufferPrepare, UploadStage
      <3>2. Size[announced] <= F /\ Size[announced] \in Nat
        BY <3>1, StoreFacts DEF FitInv, TypeOK
      <3> QED BY <3>1, <3>2, <1>t
    <2>2. CASE pc = "r_erase" /\ pc' # "r_erase"
      BY <2>2, <1>t, LeavingRestore
    <2> QED BY <2>1, <2>2, <1>t, EraseCounters DEF FitInv
  <1>6. pc' \in {"upd_erase", "upd_copy"} => Backup'.state = "INVALID"
    <2>1. CASE UpdateBackup
      <3>1. set_state("backup", "INVALID")
        BY <2>1 DEF UpdateBackup, UpdateReady, MayBeLocked
      <3> QED BY <3>1, OnlyStateOf, Names DEF OnlyState, Backup
    <2>2. CASE pc \in {"upd_erase", "upd_copy"} /\ pc' \in {"upd_erase", "upd_copy"}
      BY <2>2, BackupStruct DEF BackupFinish, UpdateFinish, FitInv
    <2> QED BY <2>1, <2>2, Entering DEF UpdateErase
  <1> QED BY <1>1, <1>2, <1>3, <1>4, <1>5, <1>6, <1>t DEF FitInv, Buffer, Backup, Firmware

-----------------------------------------------------------------------------
(* The upload by a polite Homer.                                           *)

\* The upload is where it was when nothing it is about has changed.
LEMMA UploadFrame ==
    ASSUME TypeOK, FitInv, UploadInv, pc \in Running, pc' \in Running,
           UNCHANGED <<announced, part, unsaved>>, Buffer' = Buffer,
           pc' = "prepare" <=> pc = "prepare", pc' = "writing" <=> pc = "writing",
           pc = "loop" => pc' = "loop" \/ ~ unsaved,
           \A k \in 0 .. F - 1 : ext'[k] = ext[k]
    PROVE  UploadInv'
  <1>1. CASE announced = None \/ pc = "prepare"
    BY <1>1 DEF UploadInv
  <1>2. CASE announced # None /\ pc # "prepare" /\ unsaved
    BY <1>2 DEF UploadInv
  <1>3. CASE announced # None /\ pc # "prepare" /\ ~ unsaved
    <2>1. Size[announced] \in 1 .. F /\ part \in Nat /\ F \in Nat
      BY <1>3, StoreFacts DEF FitInv, TypeOK
    <2>2. Uploaded
      BY <1>3 DEF UploadInv
    <2>3. /\ \A k \in 0 .. part - 1 : ext'[k] = ext[k]
          /\ \A k \in part .. Size[announced] - 1 : ext'[k] = ext[k]
      BY <2>1, <2>2 DEF Uploaded
    <2>4. Uploaded'
      BY <2>2, <2>3 DEF Uploaded
    <2> QED BY <1>3, <2>4 DEF UploadInv
  <1> QED BY <1>1, <1>2, <1>3

LEMMA UploadStep ==
    ASSUME TypeOK, StageInv, ErasingBlank, Polite, FitInv, UploadInv, [Next]_vars
    PROVE  UploadInv'
  <1>t. /\ RamTypeOK /\ FlashTypeOK /\ F \in Nat /\ N \in Nat /\ N > F /\ Limit >= F
        /\ Limit \in Nat /\ part \in Nat /\ UploadStage
    BY TypeParts, StoreFacts DEF StageInv, RamTypeOK
  <1>a. announced # None => announced \in Images /\ Size[announced] \in 1 .. F
    BY <1>t, StoreFacts DEF RamTypeOK, FitInv
  <1>1. CASE pc' \notin Running /\ announced' = None
    BY <1>1 DEF UploadInv, Running
  <1>2. CASE ResetRam
    BY <1>1, <1>2 DEF ResetRam, Running
  <1>3. CASE pc \notin Running
    <2>1. announced = None
      BY <1>3 DEF UploadInv
    <2>2. announced' = None
      BY <1>3, <2>1, UploadVars DEF ResetRam, BufferPrepare, WritePart, UploadStart, Running
    <2>3. CASE AppLaunch
      BY <2>2, <2>3 DEF AppLaunch, StageInv, RestoreStage, Starting, Buffer, UploadInv
    <2> QED BY <1>1, <1>3, <2>2, <2>3, Entering
  <1>4. ASSUME NEW g \in Images, UploadStart(g)
        PROVE  UploadInv'
    BY <1>4, StoreFacts DEF UploadStart, UploadInv, Running
  <1>5. CASE BufferPrepare
    <2>1. /\ announced \in Images /\ announced # None /\ announced' = announced
          /\ part' = 0 /\ pc' = "loop"
      BY <1>5, <1>t, PrepareFacts, StoreFacts DEF BufferPrepare
    <2>2. CASE unsaved'
      BY <2>1, <2>2 DEF UploadInv, Running
    <2>3. CASE /\ ~ unsaved' /\ Buffer'.state = "ERASING"
               /\ Buffer'.img = announced /\ Buffer'.size = Size[announced]
      <3>1. Uploaded'
        BY <2>1, <2>3, <1>a DEF Uploaded
      <3> QED BY <2>1, <2>3, <3>1 DEF UploadInv, Running
    <2> QED BY <1>5, <1>t, <2>2, <2>3, PrepareFacts
  <1>6. CASE WritePart
    <2>1. /\ pc = "writing" /\ pc' = "loop" /\ announced # None /\ announced' = announced
          /\ part' = part + 1 /\ Buffer' = Buffer /\ unsaved' = unsaved
      BY <1>6 DEF WritePart, UploadInv, Buffer
    <2>2. ~ unsaved /\ Uploaded
      BY <2>1 DEF UploadInv
    <2>3. /\ part < Size[announced] /\ Size[announced] \in 1 .. F
          /\ \A k \in 0 .. part - 1 : ext[k] = announced
          /\ \A k \in part .. Size[announced] - 1 : ext[k] = Blank
          /\ Buffer.state # "ERASING" /\ Buffer.state # "VALID"
      BY <2>1, <2>2, <1>t, <1>a DEF Uploaded
    <2>4. ext' = [ext EXCEPT ![part] = announced]
      <3>1. part \in part .. Size[announced] - 1
        BY <2>3, <1>t
      <3>2. Program(ext[part], announced) = announced
        BY <2>3, <3>1 DEF Program
      <3>3. ext' = [ext EXCEPT ![part] = Program(ext[part], announced)]
        <4>1. BUFFER + part = part
          BY <1>t DEF BUFFER
        <4>2. ext' = [ext EXCEPT ![BUFFER + part] = Program(ext[BUFFER + part], announced)]
          BY <1>6, <2>1 DEF WritePart
        <4> QED BY <4>1, <4>2
      <3> QED BY <3>2, <3>3
    <2>5. /\ \A k \in 0 .. part : ext'[k] = announced
          /\ \A k \in part + 1 .. Size[announced] - 1 : ext'[k] = Blank
      BY <2>3, <2>4, <1>t DEF FlashTypeOK, ExtNo
    <2>6. Uploaded'
      BY <2>1, <2>2, <2>3, <2>5, <1>t DEF Uploaded
    <2> QED BY <2>1, <2>2, <2>6 DEF UploadInv, Running
  <1>7. ASSUME pc \in Running, UNCHANGED <<announced, part>>
        PROVE  UploadInv'
    <2>f. ASSUME pc' \in Running, ext' = ext, Buffer' = Buffer, unsaved' = unsaved, pc' # "writing",
                 pc # "writing" \/ pc' = pc,
                 pc = "loop" => pc' = "loop" \/ ~ unsaved, pc' = "prepare" <=> pc = "prepare"
          PROVE  UploadInv'
      BY <1>7, <2>f, UploadFrame
    <2>1. CASE UploadData
      <3>1. /\ pc = "loop" /\ pc' = "writing" /\ ext' = ext /\ announced # None
            /\ part < Size[announced] /\ (Ram.state = "ERASED" \/ part > 0)
            /\ SetBuffer("INVALID")
        BY <2>1 DEF UploadData, PartSent
      <3>2. ~ unsaved /\ Uploaded /\ Ram = Buffer
        BY <3>1, <1>t, RamFacts DEF UploadInv
      <3>3. /\ Buffer'.state \in {"INVALID", Buffer.state} /\ ~ unsaved'
            /\ Buffer'.img = Buffer.img /\ Buffer'.size = Buffer.size
        BY <3>1, <3>2, <1>t, SetBufferStruct, Names DEF SavedAs, NotSaved, Buffer
      <3>4. Buffer.state # "ERASING" /\ Buffer.state # "VALID"
        BY <3>1, <3>2, <1>t, <1>a DEF Uploaded
      <3>5. \A k \in part .. Size[announced] - 1 : ext[k] = Blank
        BY <3>1, <3>2 DEF Uploaded
      <3>6. Uploaded'
        BY <1>7, <3>1, <3>2, <3>3, <3>4, <3>5 DEF Uploaded
      <3> QED BY <1>7, <3>1, <3>3, <3>6 DEF UploadInv, Running
    <2>2. CASE UploadEnd
      <3>1. /\ pc = "loop" /\ pc' = "loop" /\ ext' = ext /\ announced # None
            /\ part = Size[announced] /\ SetBuffer("VALID")
        BY <2>2 DEF UploadEnd, CrcEqual
      <3>2. ~ unsaved /\ Uploaded /\ Ram = Buffer
        BY <3>1, <1>a, <1>t, RamFacts DEF UploadInv
      <3>3. /\ Buffer'.state \in {"VALID", Buffer.state} /\ ~ unsaved'
            /\ Buffer'.img = Buffer.img /\ Buffer'.size = Buffer.size
        BY <3>1, <3>2, <1>t, SetBufferStruct, Names DEF SavedAs, NotSaved, Buffer
      <3>4. Uploaded'
        BY <1>7, <3>1, <3>2, <3>3, <1>a, <1>t DEF Uploaded
      <3> QED BY <1>7, <3>1, <3>3, <3>4 DEF UploadInv, Running
    <2>3. CASE EraseDone
      <3>1. /\ pc = "loop" /\ pc' = "loop" /\ ext' = ext /\ Ram.state = "ERASING"
            /\ SetBuffer("ERASED")
        BY <2>3 DEF EraseDone
      <3>2. ~ unsaved /\ Ram = Buffer /\ Buffer.state = "ERASING"
        BY <3>1, <1>t, RamFacts
      <3>3. announced # None /\ Uploaded /\ part = 0
        BY <3>1, <3>2, <1>t DEF UploadInv, Running, Uploaded
      <3>4. CASE SavedAs("ERASED")
        <4>1. /\ Buffer'.state = "ERASED" /\ ~ unsaved'
              /\ Buffer'.img = Buffer.img /\ Buffer'.size = Buffer.size
          BY <3>2, <3>4 DEF SavedAs
        <4>2. \A k \in 0 .. Size[announced] - 1 : ext'[k] = Blank
          <5>1. \A k \in 0 .. Buffer'.size - 1 : k < N => ext'[BUFFER + k] = Blank
            BY <3>2, <3>3, <4>1, ErasedStep
          <5>2. Buffer'.size = Size[announced] /\ Size[announced] \in 1 .. F
            BY <3>3, <4>1, <1>a DEF Uploaded
          <5> QED BY <5>1, <5>2, <1>t DEF BUFFER
        <4>3. Uploaded'
          BY <1>7, <3>1, <3>3, <4>1, <4>2, <1>a DEF Uploaded
        <4> QED BY <1>7, <3>1, <3>3, <4>1, <4>3 DEF UploadInv, Running
      <3>5. CASE NotSaved("ERASED")
        BY <1>7, <3>1, <3>5, <2>f DEF NotSaved, Buffer
      <3> QED BY <3>1, <3>4, <3>5, <1>t, SetBufferStruct, Names
    <2>4. CASE ConnectionStop /\ OnlyState("buffer", "INVALID")
      <3>1. /\ UNCHANGED <<pc, ext, unsaved>> /\ Buffer'.state = "INVALID"
            /\ Buffer'.img = Buffer.img /\ Buffer'.size = Buffer.size
        BY <2>4 DEF ConnectionStop, OnlyState, Buffer
      <3>2. Uploaded => Uploaded'
        BY <1>7, <3>1 DEF Uploaded
      <3> QED BY <1>7, <3>1, <3>2 DEF UploadInv
    <2>5. CASE EraseSubsector
      <3>1. /\ pc = "loop" /\ pc' = "erasing" /\ Ram.state = "ERASING" /\ UNCHANGED <<bin, unsaved>>
        BY <2>5 DEF EraseSubsector, upload
      <3>2. ~ unsaved /\ Buffer.state = "ERASING" /\ Buffer' = Buffer
        BY <3>1, <1>t, RamFacts DEF Buffer
      <3>3. announced # None /\ Uploaded /\ part = 0
        BY <3>1, <3>2, <1>t DEF UploadInv, Running, Uploaded
      <3>4. Uploaded'
        BY <1>7, <3>1, <3>2, <3>3, <1>a DEF Uploaded
      <3> QED BY <1>7, <3>1, <3>2, <3>3, <3>4 DEF UploadInv, Running
    <2>6. CASE UpdateErase \/ UpdateCopy
      <3>1. /\ pc \in {"upd_erase", "upd_copy"} /\ pc' = "upd_copy" /\ UNCHANGED <<bin, unsaved>>
        BY <2>6 DEF UpdateErase, UpdateCopy
      <3>2. ASSUME NEW k \in 0 .. F - 1
            PROVE  ext'[k] = ext[k]
        <4>1. k \in ExtNo /\ ~ (k >= N)
          BY <1>t DEF ExtNo
        <4> QED BY <3>1, <4>1, ChangedData DEF Touches
      <3> QED BY <1>7, <3>1, <3>2, UploadFrame DEF Running, Buffer
    <2>7. CASE UpdateFinish \/ UpdateBackup
      <3>1. /\ ext' = ext /\ unsaved' = unsaved /\ pc \in {"loop", "upd_copy"}
            /\ pc' \in {"loop", "upd_erase"} /\ (UpdateBackup => UpdateReady)
            /\ (UpdateFinish => pc' = "loop")
        BY <2>7 DEF UpdateFinish, UpdateBackup, upload
      <3>2. UpdateReady => ~ unsaved
        BY <1>7, <1>a, <1>t, <2>7 DEF UpdateReady, CrcEqual, UploadInv, UpdateBackup, UpdateFinish
      <3>3. Buffer' = Buffer
        BY <2>7, BufferStruct DEF UpdateFinish, UpdateBackup, RestoreErased, EraseDone,
           BufferPrepare, UploadData, UploadEnd, ConnectionStop, Command
      <3> QED BY <2>7, <2>f, <3>1, <3>2, <3>3 DEF Running
    <2>8. CASE /\ UNCHANGED <<ext, bin, unsaved>>
               /\ \/ EraseCounted \/ UpdateFirmware \/ SetAutobackup \/ SystemRestart
                  \/ Disconnect \/ ConnectionStop \/ UploadTimeout \/ UNCHANGED vars
      BY <1>7, <2>8, UploadFrame DEF EraseCounted, UpdateFirmware, SetAutobackup, SystemRestart,
         Disconnect, ConnectionStop, UploadTimeout, vars, Running, Buffer
    <2>9. CASE ConnectionStop
      BY <2>4, <2>8, <2>9, OnlyStateOf, Names DEF ConnectionStop
    <2>10. ASSUME NEW g \in Images, UploadDuplicate(g)
           PROVE  UploadInv'
      BY <2>10 DEF UploadDuplicate
    <2> QED BY <1>2, <1>4, <1>5, <1>6, <1>7, <2>1, <2>2, <2>3, <2>5, <2>6, <2>7, <2>8, <2>9, <2>10,
               WhileRunning
            DEF HomerStep, EraseCounted, UpdateFirmware, SetAutobackup, SystemRestart,
                Disconnect, UploadTimeout, vars, flash, upload
  <1> QED BY <1>2, <1>3, <1>4, <1>5, <1>6, <1>7, UploadVars

-----------------------------------------------------------------------------
(* The complete image in the buffer.                                       *)

\* Only update_start sets flashflag, and upload_start clears it.
LEMMA FlashflagSet ==
    ASSUME TypeOK, [Next]_vars, conf'.flashflag = 1
    PROVE  UpdateFirmware \/ (conf.flashflag = 1 /\ ~ \E g \in Images : UploadStart(g))
  <1>t. conf \in [flashflag : {0, 1}, launched : {0, 1}, autobackup : {0, 1}]
    BY DEF TypeOK
  <1>1. CASE BootloaderStep
    <2>1. conf.flashflag = 1
      BY <1>1, <1>t DEF BootloaderStep, Boot, RestoreErase, RestoreErased, SelectMode, BackupStart,
         BackupSkip, BackupCopy, BackupFinish, FlashStart, FlashErase, FlashCopy, FlashFinish,
         FlashConf, End, Autojump, flash
    <2>2. pc # "loop"
      BY <1>1 DEF BootloaderStep, Boot, RestoreErase, RestoreErased, SelectMode, BackupStart,
         BackupSkip, BackupCopy, BackupFinish, FlashStart, FlashErase, FlashCopy, FlashFinish,
         FlashConf, End, Autojump
    <2> QED BY <2>1, <2>2 DEF UploadStart
  <1>2. CASE Command
    BY <1>2, <1>t DEF Command, UploadStart
  <1>3. CASE \E g \in Images : UploadStart(g)
    BY <1>3, <1>t DEF UploadStart
  <1>4. CASE AppStep \/ HomerStep
    BY <1>3, <1>4, <1>t DEF AppStep, HomerStep, AppCrash, AppFix, AppLaunch, EraseSubsector,
       EraseCounted, EraseDone, BufferPrepare, WritePart, UpdateErase, UpdateCopy, UpdateFinish,
       UploadDuplicate, UploadData, UploadEnd, UpdateBackup, SetAutobackup, SystemRestart, flash
  <1>5. CASE Disconnect \/ ConnectionStop \/ UploadTimeout \/ UNCHANGED vars
    BY <1>3, <1>5 DEF Disconnect, ConnectionStop, UploadTimeout, vars, flash
  <1>6. CASE RestartTick \/ PowerLoss
    BY <1>3, <1>6 DEF RestartTick, PowerLoss, Interrupted, flash
  <1> QED BY <1>1, <1>2, <1>4, <1>5, <1>6 DEF Next

\* Only buffer_prepare leaves a struct in RAM that is not saved.
LEMMA UnsavedSet ==
    ASSUME [Next]_vars, unsaved'
    PROVE  unsaved \/ BufferPrepare
  <1>1. CASE BootloaderStep \/ Command
    BY <1>1 DEF BootloaderStep, Command, Boot, RestoreErase, RestoreErased, SelectMode,
       BackupStart, BackupSkip, BackupCopy, BackupFinish, FlashStart, FlashErase, FlashCopy,
       FlashFinish, FlashConf, End, Autojump, upload
  <1>2. CASE EraseDone \/ UploadData \/ UploadEnd
    BY <1>2 DEF EraseDone, UploadData, UploadEnd, SetBuffer
  <1>3. CASE AppStep \/ HomerStep
    BY <1>2, <1>3 DEF AppStep, HomerStep, AppCrash, ResetRam, AppFix, AppLaunch, EraseSubsector,
       EraseCounted, WritePart, UpdateErase, UpdateCopy, UpdateFinish, UploadStart,
       UploadDuplicate, UpdateFirmware, UpdateBackup, SetAutobackup, SystemRestart, upload
  <1>4. CASE Disconnect \/ ConnectionStop \/ UploadTimeout \/ UNCHANGED vars
    BY <1>4 DEF Disconnect, ConnectionStop, UploadTimeout, vars, upload
  <1>5. CASE RestartTick \/ PowerLoss
    BY <1>5 DEF RestartTick, PowerLoss, ResetRam
  <1> QED BY <1>1, <1>3, <1>4, <1>5 DEF Next

\* A part is written only where the announced image goes, and not into a VALID
\* buffer.
LEMMA Writing ==
    ASSUME TypeOK, FitInv, UploadInv, pc = "writing"
    PROVE  part \in 0 .. F - 1 /\ Buffer.state # "VALID"
  <1>1. announced # None /\ Uploaded
    BY DEF UploadInv
  <1>2. Size[announced] \in 1 .. F /\ part \in Nat /\ F \in Nat
    BY <1>1, StoreFacts DEF FitInv, TypeOK
  <1> QED BY <1>1, <1>2 DEF Uploaded

\* INVALID is saved before the data of a binary is changed.
LEMMA SpoiledStep ==
    ASSUME TypeOK, StageInv, FitInv, UploadInv, [Next]_vars
    PROVE  /\ Firmware.state = "VALID" => fw' = fw
           /\ Buffer.state = "VALID" =>
                  \A k \in 0 .. Buffer.size - 1 : ext'[BUFFER + k] = ext[BUFFER + k]
           /\ Backup.state = "VALID" =>
                  \A k \in 0 .. Backup.size - 1 :
                      (pc = "r_erase" /\ k = 0) \/ ext'[BACKUP + k] = ext[BACKUP + k]
  <1>t. /\ N \in Nat /\ Limit \in Nat /\ F \in Nat /\ N > F /\ Limit >= F
        /\ Buffer.size \in 0 .. F /\ Backup.size \in 0 .. F
        /\ i \in Nat /\ part \in Nat /\ eraseCounter \in Nat
    <2>1. Buffer.size \in 0 .. Limit /\ Backup.size \in 0 .. Limit
      BY BinTyped, Names DEF Buffer, Backup
    <2>2. Buffer.size <= F /\ Backup.size <= F
      BY Names DEF FitInv, Buffer, Backup
    <2> QED BY <2>1, <2>2, StoreFacts, Bounds DEF TypeOK
  <1>1. Firmware.state = "VALID" => fw' = fw
    BY ChangedData DEF StageInv, CopyStage
  <1>2. ASSUME Buffer.state = "VALID", NEW k \in 0 .. Buffer.size - 1
        PROVE  ext'[BUFFER + k] = ext[BUFFER + k]
    <2>1. BUFFER + k = k /\ k \in ExtNo /\ ~ (k >= N)
      BY <1>t DEF BUFFER, ExtNo
    <2> QED BY <1>2, <2>1, Writing, ChangedData DEF Touches
  <1>3. ASSUME Backup.state = "VALID", NEW k \in 0 .. Backup.size - 1
        PROVE  (pc = "r_erase" /\ k = 0) \/ ext'[BACKUP + k] = ext[BACKUP + k]
    <2>1. BACKUP + k = N + k /\ N + k \in ExtNo
      BY <1>t DEF BACKUP, ExtNo
    <2>2. pc \notin {"bk_copy", "upd_erase", "upd_copy"}
      BY <1>3 DEF StageInv, CopyStage, FitInv
    <2>3. pc = "writing" => N + k # part
      BY <1>t, Writing
    <2>4. pc = "loop" /\ i < eraseCounter => N + k # i
      BY <1>t DEF FitInv
    <2>5. pc = "r_erase" /\ i < eraseCounter /\ N + k = i => k = 0
      BY <1>t DEF StageInv, RestoreStage
    <2> QED BY <2>1, <2>2, <2>3, <2>4, <2>5, ChangedData DEF Touches
  <1> QED BY <1>1, <1>2, <1>3

\* An image stays in the buffer while its struct and its subsectors do.
LEMMA CompleteStep ==
    ASSUME TypeOK, StageInv, FitInv, [Next]_vars, Complete, Buffer.state # "ERASING",
           pc # "writing", Buffer'.img = Buffer.img, Buffer'.size = Buffer.size
    PROVE  Complete'
  <1>1. /\ Buffer.img \in Images /\ Size[Buffer.img] \in 1 .. F /\ F \in Nat /\ N \in Nat
        /\ N > F /\ Limit \in Nat
    BY StoreFacts, Names DEF Complete, FitInv, Buffer
  <1>2. ASSUME NEW k \in 0 .. Size[Buffer.img] - 1
        PROVE  ext'[BUFFER + k] = Buffer.img
    <2>1. BUFFER + k = k /\ k \in ExtNo /\ ~ (k >= N)
      BY <1>1 DEF BUFFER, ExtNo
    <2>2. ext'[k] = ext[k]
      BY <2>1, ChangedData DEF Touches
    <2> QED BY <2>1, <2>2 DEF Complete, WholeAt
  <1> QED BY <1>2 DEF Complete, WholeAt

LEMMA CompleteInvStep ==
    ASSUME TypeOK, StageInv, Polite, FitInv, UploadInv, CompleteInv, [Next]_vars
    PROVE  CompleteInv'
  <1>t. RamTypeOK /\ F \in Nat /\ UploadStage
    BY TypeParts, StoreFacts DEF StageInv
  <1>a. announced # None => announced \in Images /\ Size[announced] \in 1 .. F
    BY <1>t, StoreFacts DEF RamTypeOK, FitInv
  <1>1. ASSUME Buffer'.state = "VALID"
        PROVE  Complete'
    <2>1. CASE Buffer' = Buffer
      BY <1>1, <2>1, Writing, CompleteStep DEF CompleteInv
    <2>2. CASE UploadEnd /\ SavedAs(IF CrcEqual THEN "VALID" ELSE "INVALID")
      <3>1. pc = "loop" /\ announced # None /\ part = Size[announced] /\ ext' = ext
        BY <2>2 DEF UploadEnd, CrcEqual
      <3>2. ~ unsaved /\ Uploaded /\ Ram = Buffer
        BY <3>1, <1>a, <1>t, RamFacts DEF UploadInv
      <3>3. /\ Buffer'.img = announced /\ Buffer'.size = Size[announced]
            /\ \A k \in 0 .. Size[announced] - 1 : ext'[k] = announced
        BY <2>2, <3>1, <3>2 DEF Uploaded, SavedAs
      <3> QED BY <3>1, <3>3, <1>a DEF Complete, WholeAt, BUFFER
    <2> QED BY <1>1, <2>1, <2>2, BufferStruct DEF OnlyState, SavedAs, Buffer, defaults_struct_bin
  <1>2. ASSUME conf'.flashflag = 1
        PROVE  /\ Complete'
               /\ Buffer'.state # "ERASING"
               /\ pc' \notin {"prepare", "writing"}
               /\ announced' # None => Accepted'
    <2>1. CASE UpdateFirmware
      <3>1. /\ pc' = "loop" /\ UNCHANGED <<ext, bin, announced, part, unsaved>>
            /\ announced # None /\ part = Size[announced] /\ Ram.state = "VALID"
        BY <2>1 DEF UpdateFirmware, UpdateReady, MayBeLocked, CrcEqual, upload
      <3>2. ~ unsaved /\ Buffer.state = "VALID"
        BY <3>1, <1>t, RamFacts
      <3>3. Complete /\ Accepted
        BY <3>1, <3>2 DEF CompleteInv, Accepted
      <3> QED BY <3>1, <3>2, <3>3 DEF Complete, Buffer, Accepted
    <2>2. CASE conf.flashflag = 1 /\ ~ \E g \in Images : UploadStart(g)
      <3>1. /\ Complete /\ Buffer.state # "ERASING" /\ pc \notin {"prepare", "writing"}
            /\ announced # None => Accepted
        BY <2>2 DEF CompleteInv
      <3>2. ~ BufferPrepare /\ ~ WritePart /\ ~ UploadData
        BY <3>1, <1>a, <1>t DEF BufferPrepare, WritePart, UploadData, PartSent, Accepted, RamTypeOK
      <3>3. pc' \notin {"prepare", "writing"}
        BY <2>2, <3>1, <3>2, Entering
      <3>4. announced' # None => Accepted'
        BY <2>2, <3>1, <3>2, UploadVars, UnsavedSet DEF Accepted, ResetRam
      <3>5. /\ Buffer'.img = Buffer.img /\ Buffer'.size = Buffer.size
            /\ Buffer'.state # "ERASING"
        <4>1. CASE Command
          BY <1>2, <3>1, <4>1 DEF Command, Buffer, TypeOK
        <4>2. CASE RestoreErased
          BY <3>1, <4>2 DEF RestoreErased, StageInv, RestoreStage
        <4>3. CASE EraseDone
          BY <3>1, <4>3, <1>t, RamFacts DEF EraseDone
        <4>4. CASE UploadEnd /\ SavedAs(IF CrcEqual THEN "VALID" ELSE "INVALID")
          <5>1. Ram = Buffer
            BY <3>1, <4>4, <1>t, RamFacts DEF UploadEnd, Accepted
          <5> QED BY <4>4, <5>1 DEF SavedAs
        <4> QED BY <3>1, <3>2, <4>1, <4>2, <4>3, <4>4, BufferStruct DEF OnlyState, Buffer
      <3> QED BY <3>1, <3>3, <3>4, <3>5, CompleteStep
    <2> QED BY <1>2, <2>1, <2>2, FlashflagSet
  <1>3. ASSUME pc' \in {"upd_erase", "upd_copy"}
        PROVE  Accepted'
    <2>1. CASE UpdateBackup
      <3>1. /\ UNCHANGED <<announced, part, unsaved>> /\ Ram.state = "VALID"
            /\ announced # None /\ part = Size[announced]
        BY <2>1 DEF UpdateBackup, UpdateReady, MayBeLocked, CrcEqual, upload
      <3>2. ~ unsaved
        BY <3>1, <1>t, RamFacts
      <3> QED BY <3>1, <3>2 DEF Accepted
    <2>2. CASE pc \in {"upd_erase", "upd_copy"}
      <3>1. UNCHANGED <<announced, part>>
        BY <1>3, <2>2, UploadVars DEF ResetRam, BufferPrepare, WritePart, UploadStart
      <3>2. Accepted /\ ~ unsaved'
        BY <2>2, UnsavedSet DEF CompleteInv, Accepted, BufferPrepare
      <3> QED BY <3>1, <3>2 DEF Accepted
    <2> QED BY <1>3, <2>1, <2>2, Entering DEF UpdateErase
  <1> QED BY <1>1, <1>2, <1>3 DEF CompleteInv

-----------------------------------------------------------------------------
(* The backup and the firmware.                                            *)

\* How the struct of the firmware changes.
LEMMA FirmwareStruct ==
    ASSUME TypeOK, StageInv, [Next]_vars
    PROVE  \/ Firmware' = Firmware
           \/ Firmware'.state = "INVALID"
           \/ FlashFinish /\ Copied("firmware", Source)
           \/ /\ AppFix
              /\ Firmware' = [state |-> "VALID", img |-> RunningImage, size |-> F]
  <1>u. UploadStage
    BY DEF StageInv
  <1>1. CASE BootloaderStep
    <2>1. CASE RestoreErased \/ BackupStart
      BY <2>1, OnlyStateOf, Names DEF RestoreErased, BackupStart, OnlyState, Firmware
    <2>2. CASE BackupFinish
      BY <2>2, CopiedOf, Names DEF BackupFinish, Copied, Firmware
    <2>3. CASE FlashFinish
      BY <2>3, CopiedOf, Names DEF FlashFinish
    <2>4. CASE FlashStart
      BY <2>4, OnlyStateOf, Names DEF FlashStart, OnlyState, Firmware
    <2>5. CASE UNCHANGED bin
      BY <2>5 DEF Firmware
    <2> QED BY <1>1, <2>1, <2>2, <2>3, <2>4, <2>5 DEF BootloaderStep, Boot, RestoreErase,
            SelectMode, BackupSkip, BackupCopy, FlashErase, FlashCopy, FlashConf, End, Autojump,
            flash
  <1>2. CASE AppStep \/ HomerStep
    <2>1. CASE AppFix
      BY <2>1 DEF AppFix, TypeOK, Component, Firmware
    <2>2. CASE EraseDone \/ UploadData \/ UploadEnd
      <3>1. PICK s \in State : SetBuffer(s)
        BY <2>2, Names DEF EraseDone, UploadData, UploadEnd
      <3> QED BY <3>1, <1>u, SetBufferStruct, Names DEF Firmware
    <2>3. CASE BufferPrepare
      BY <2>3, <1>u, PrepareFacts, Names DEF Firmware
    <2>4. CASE UpdateBackup
      BY <2>4, OnlyStateOf, Names DEF UpdateBackup, OnlyState, Firmware
    <2>5. CASE UpdateFinish
      BY <2>5 DEF UpdateFinish, Firmware, TypeOK, Component
    <2>6. CASE UNCHANGED bin
      BY <2>6 DEF Firmware
    <2> QED BY <1>2, <2>1, <2>2, <2>3, <2>4, <2>5, <2>6 DEF AppStep, HomerStep, AppCrash, AppLaunch,
            EraseSubsector, EraseCounted, WritePart, UpdateErase, UpdateCopy, UploadStart,
            UploadDuplicate, UpdateFirmware, SetAutobackup, SystemRestart, flash
  <1>3. CASE Command
    BY <1>3 DEF Command, Firmware, Component, defaults_struct_bin
  <1>4. CASE ConnectionStop
    BY <1>4, OnlyStateOf, Names DEF ConnectionStop, OnlyState, Firmware
  <1>5. CASE Disconnect \/ UploadTimeout \/ UNCHANGED vars
    BY <1>5 DEF Disconnect, UploadTimeout, vars, flash, Firmware
  <1>6. CASE RestartTick \/ PowerLoss
    BY <1>6, InterruptedData DEF RestartTick, PowerLoss, Firmware
  <1> QED BY <1>1, <1>2, <1>3, <1>4, <1>5, <1>6 DEF Next

\* The erase that restore_processes repeats ends behind the first subsector of
\* the backup, and that subsector is blank then.
LEMMA RestoredFirst ==
    ASSUME TypeOK, StageInv, ErasingBlank, RestoreErased
    PROVE  ext[BACKUP] = Blank
  <1>1. pc = "r_erase" /\ i = N + 1 /\ Buffer.state = "ERASING" /\ N \in Nat
    BY StoreFacts DEF RestoreErased, StageInv, RestoreStage
  <1>2. N \in 0 .. i - 1
    BY <1>1
  <1> QED BY <1>1, <1>2 DEF ErasingBlank, Erasing, BACKUP

\* An erase found at the start is not forgotten before it is repeated.
LEMMA StillRestoring ==
    ASSUME TypeOK, StageInv, [Next]_vars, Buffer.state = "ERASING", pc \in {"off", "r_erase"}
    PROVE  (Buffer'.state = "ERASING" /\ pc' \in {"off", "r_erase"}) \/ RestoreErased
  <1>1. CASE BootloaderStep
    BY <1>1 DEF BootloaderStep, Boot, RestoreErase, SelectMode, BackupStart, BackupSkip, BackupCopy,
       BackupFinish, FlashStart, FlashErase, FlashCopy, FlashFinish, FlashConf, End, Autojump,
       Buffer, flash
  <1>2. CASE AppStep \/ HomerStep
    BY <1>2 DEF AppStep, HomerStep, AppCrash, AppFix, AppLaunch, EraseSubsector, EraseCounted,
       EraseDone, BufferPrepare, WritePart, UpdateErase, UpdateCopy, UpdateFinish, UploadStart,
       UploadDuplicate, UploadData, UploadEnd, UpdateFirmware, UpdateBackup, SetAutobackup, SystemRestart
  <1>3. CASE Command \/ Disconnect \/ ConnectionStop \/ UploadTimeout
    BY <1>3 DEF Command, Disconnect, ConnectionStop, UploadTimeout, StageInv, UploadStage, Running
  <1>4. CASE RestartTick \/ PowerLoss
    BY <1>4, InterruptedData DEF RestartTick, PowerLoss, ResetRam, Buffer
  <1>5. CASE UNCHANGED vars
    BY <1>5 DEF vars, flash, Buffer
  <1> QED BY <1>1, <1>2, <1>3, <1>4, <1>5 DEF Next

LEMMA BackupInvStep ==
    ASSUME TypeOK, StageInv, ErasingBlank, BinInv, [Next]_vars
    PROVE  BackupInv'
  <1>t. F \in Nat /\ N \in Nat /\ N > F /\ Backup.size \in Nat /\ UploadStage
    BY StoreFacts, BinTyped, Names DEF Backup, StageInv
  <1> SUFFICES ASSUME Backup'.state = "VALID"
               PROVE  /\ Backup'.img \in Images
                      /\ Size[Backup'.img] <= Backup'.size
                      /\ \A k \in 0 .. Size[Backup'.img] - 1 :
                             \/ HasPart(ext', BACKUP, Backup'.img, k)
                             \/ k = 0 /\ Buffer'.state = "ERASING" /\ pc' \in {"off", "r_erase"}
    BY DEF BackupInv, HasPart
  <1>1. CASE Backup' = Backup
    <2>1. /\ Backup.img \in Images /\ Size[Backup.img] <= Backup.size
          /\ Size[Backup.img] \in Nat /\ Backup.state = "VALID"
      BY <1>1, StoreFacts DEF BinInv, BackupInv
    <2>2. ASSUME NEW k \in 0 .. Size[Backup.img] - 1
          PROVE  \/ HasPart(ext', BACKUP, Backup.img, k)
                 \/ k = 0 /\ Buffer'.state = "ERASING" /\ pc' \in {"off", "r_erase"}
      <3>1. k \in 0 .. Backup.size - 1
        BY <2>1, <1>t
      <3>2. (pc = "r_erase" /\ k = 0) \/ ext'[BACKUP + k] = ext[BACKUP + k]
        BY <2>1, <3>1, SpoiledStep DEF BinInv
      <3>3. \/ HasPart(ext, BACKUP, Backup.img, k)
            \/ k = 0 /\ Buffer.state = "ERASING" /\ pc \in {"off", "r_erase"}
        BY <2>1 DEF BinInv, BackupInv
      <3>4. CASE k = 0 /\ Buffer.state = "ERASING" /\ pc \in {"off", "r_erase"}
        <4>1. CASE RestoreErased
          <5>1. ext'[BACKUP] = Blank
            BY <4>1, RestoredFirst DEF RestoreErased
          <5> QED BY <3>4, <5>1 DEF HasPart
        <4> QED BY <3>4, <4>1, StillRestoring
      <3>5. CASE ext'[BACKUP + k] = ext[BACKUP + k] /\ HasPart(ext, BACKUP, Backup.img, k)
        BY <3>5, <1>t DEF HasPart, BACKUP
      <3>6. pc = "r_erase" => Buffer.state = "ERASING"
        BY DEF StageInv, RestoreStage
      <3> QED BY <3>2, <3>3, <3>4, <3>5, <3>6
    <2> QED BY <1>1, <2>1, <2>2
  <1>2. CASE BackupFinish /\ Copied("backup", "firmware")
    <2>1. /\ Backup'.img = Firmware.img /\ Backup'.size = Firmware.size
          /\ ext' = ext /\ pc = "bk_copy" /\ i = Firmware.size /\ Firmware.state = "VALID"
      BY <1>2 DEF BackupFinish, Copied, Backup, Firmware, StageInv, CopyStage
    <2>2. /\ Firmware.img \in Images /\ Size[Firmware.img] <= Firmware.size
          /\ Size[Firmware.img] \in Nat \ {0} /\ Firmware.size \in Nat
      BY <2>1, StoreFacts, BinTyped, Names DEF BinInv, FirmwareInv, Firmware
    <2>3. ASSUME NEW k \in 0 .. Size[Firmware.img] - 1
          PROVE  HasPart(ext', BACKUP, Firmware.img, k)
      <3>1. k \in 0 .. i - 1 /\ 0 \in 0 .. i - 1
        BY <2>1, <2>2, <1>t
      <3>2. ext[BACKUP + k] = fw[k] /\ ext[BACKUP + 0] = fw[0]
        BY <2>1, <3>1 DEF BinInv, CopyInv
      <3>3. HasPart(fw, 0, Firmware.img, k)
        BY <2>1 DEF BinInv, FirmwareInv
      <3> QED BY <2>1, <3>1, <3>2, <3>3, <1>t DEF HasPart, BACKUP
    <2> QED BY <2>1, <2>2, <2>3
  <1>3. CASE UpdateFinish /\ Backup'.img = Ram.img /\ Backup'.size = Ram.size
    <2>1. pc = "upd_copy" /\ ext' = ext /\ copied = Ram.size
      BY <1>3 DEF UpdateFinish
    <2>2. announced # None /\ part = Size[announced] /\ ~ unsaved
      BY <2>1 DEF BinInv, CompleteInv, Accepted
    <2>3. /\ Backup'.img = Buffer.img /\ Backup'.size = Buffer.size
          /\ ext' = ext /\ pc = "upd_copy" /\ copied = Buffer.size
      BY <1>3, <2>1, <2>2, <1>t, RamFacts
    <2>4. /\ Buffer.img = announced /\ Buffer.size = Size[announced]
          /\ \A k \in 0 .. Size[announced] - 1 : ext[k] = announced
      BY <2>3, <2>2 DEF BinInv, UploadInv, Uploaded
    <2>5. announced \in Images /\ Size[announced] \in Nat
      BY <2>2, StoreFacts DEF TypeOK
    <2>6. \A k \in 0 .. Size[announced] - 1 : ext[BACKUP + k] = announced
      BY <2>3, <2>4, <2>5, <1>t DEF BinInv, CopyInv, BUFFER
    <2> QED BY <2>3, <2>4, <2>5, <2>6, <1>t DEF HasPart
  <1> QED BY <1>1, <1>2, <1>3, BackupStruct

LEMMA FirmwareInvStep ==
    ASSUME TypeOK, StageInv, BinInv, [Next]_vars
    PROVE  FirmwareInv'
  <1>t. F \in Nat /\ N \in Nat /\ N > F /\ Firmware.size \in 0 .. F
    BY StoreFacts, BinTyped, Names DEF Firmware
  <1> SUFFICES ASSUME Firmware'.state = "VALID"
               PROVE  /\ Firmware'.img \in Images
                      /\ Size[Firmware'.img] <= Firmware'.size
                      /\ \A k \in 0 .. Size[Firmware'.img] - 1 :
                             HasPart(fw', 0, Firmware'.img, k)
    BY DEF FirmwareInv, HasPart
  <1>1. CASE Firmware' = Firmware
    <2>1. fw' = fw
      BY <1>1, ChangedData DEF StageInv, CopyStage
    <2> QED BY <1>1, <2>1 DEF BinInv, FirmwareInv
  <1>2. CASE FlashFinish /\ Copied("firmware", Source)
    <2>1. /\ Firmware'.img = bin[Source].img /\ Firmware'.size = bin[Source].size
          /\ fw' = fw /\ pc = "fl_copy" /\ i = bin[Source].size /\ bin[Source].state = "VALID"
      BY <1>2 DEF FlashFinish, Copied, Firmware, StageInv, CopyStage
    <2>2. \A k \in 0 .. i - 1 : fw[k] = ext[Partition(Source) + k]
      BY <2>1 DEF BinInv, CopyInv
    <2>3. CASE Source = "buffer"
      <3>1. /\ Buffer.img \in Images /\ Buffer.size = Size[Buffer.img]
            /\ \A k \in 0 .. Size[Buffer.img] - 1 : ext[BUFFER + k] = Buffer.img
        BY <2>1, <2>3 DEF BinInv, CompleteInv, Complete, WholeAt, Buffer
      <3>2. Partition(Source) = BUFFER /\ Size[Buffer.img] \in Nat
        BY <2>3, <3>1, StoreFacts DEF Partition
      <3>3. \A k \in 0 .. Size[Buffer.img] - 1 : fw[k] = Buffer.img
        BY <2>1, <2>2, <2>3, <3>1, <3>2 DEF Buffer
      <3> QED BY <2>1, <2>3, <3>1, <3>2, <3>3, <1>t DEF HasPart, Buffer
    <2>4. CASE Source = "backup"
      <3>1. /\ Backup.img \in Images /\ Size[Backup.img] <= Backup.size
            /\ \A k \in 0 .. Size[Backup.img] - 1 : HasPart(ext, BACKUP, Backup.img, k)
        BY <2>1, <2>4 DEF BinInv, BackupInv, Backup
      <3>2. Partition(Source) = BACKUP /\ Size[Backup.img] \in Nat \ {0} /\ Backup.size \in Nat
        BY <2>4, <3>1, StoreFacts, BinTyped, Names DEF Partition, Backup
      <3>3. ASSUME NEW k \in 0 .. Size[Backup.img] - 1
            PROVE  HasPart(fw, 0, Backup.img, k)
        <4>1. k \in 0 .. i - 1 /\ 0 \in 0 .. i - 1
          BY <2>1, <2>4, <3>1, <3>2, <1>t DEF Backup
        <4>2. fw[k] = ext[BACKUP + k] /\ fw[0] = ext[BACKUP + 0]
          BY <2>2, <3>2, <4>1
        <4>3. HasPart(ext, BACKUP, Backup.img, k)
          BY <3>1
        <4> QED BY <4>1, <4>2, <4>3, <1>t DEF HasPart, BACKUP
      <3> QED BY <2>1, <2>4, <3>1, <3>3 DEF Backup
    <2> QED BY <2>3, <2>4, Names
  <1>3. CASE AppFix /\ Firmware' = [state |-> "VALID", img |-> RunningImage, size |-> F]
    <2>1. /\ RunningImage \in Images /\ WholeAt(fw, 0, RunningImage) /\ fw' = fw
          /\ Size[RunningImage] <= F
      BY <1>3, RunningWhole DEF AppFix
    <2>2. Size[RunningImage] \in 1 .. F
      BY <2>1, StoreFacts
    <2> QED BY <1>3, <2>1, <2>2, <1>t DEF WholeAt, HasPart
  <1> QED BY <1>1, <1>2, <1>3, FirmwareStruct

\* Who is in a copy.
LEMMA Copying ==
    ASSUME TypeOK, StageInv, [Next]_vars
    PROVE  /\ pc' = "bk_copy" => \/ BackupStart \/ BackupCopy
                                 \/ pc = "bk_copy" /\ UNCHANGED vars
           /\ pc' = "fl_copy" => \/ FlashErase \/ FlashCopy
                                 \/ pc = "fl_copy" /\ UNCHANGED vars
           /\ pc' = "upd_copy" =>
                  \/ UpdateErase \/ UpdateCopy
                  \/ pc = "upd_copy" /\ UNCHANGED <<ext, copied>> /\ Buffer'.size = Buffer.size
  <1>1. CASE BootloaderStep \/ Command
    BY <1>1 DEF BootloaderStep, Command, Boot, RestoreErase, RestoreErased, SelectMode,
       AutomaticMode, BackupStart, BackupSkip, BackupFinish, FlashStart,
       FlashFinish, FlashConf, End, Autojump, AfterBackup, AfterFlash, BackupCopy, FlashErase,
       FlashCopy
  <1>2. CASE AppStep \/ HomerStep
    BY <1>2 DEF AppStep, HomerStep, AppCrash, ResetRam, AppFix, AppLaunch, EraseSubsector,
       EraseCounted, EraseDone, BufferPrepare, WritePart, UpdateErase, UpdateCopy, UpdateFinish,
       UploadStart, UploadDuplicate, UploadData, UploadEnd, UpdateFirmware, UpdateBackup, SetAutobackup,
       SystemRestart
  <1>3. CASE Disconnect \/ ConnectionStop \/ UploadTimeout
    <2>1. pc \in Running /\ UNCHANGED <<pc, ext, copied>>
      BY <1>3 DEF Disconnect, ConnectionStop, UploadTimeout, StageInv, UploadStage, flash
    <2>2. Buffer'.size = Buffer.size
      BY <1>3, OnlyStateOf, Names DEF Disconnect, ConnectionStop, UploadTimeout, OnlyState, flash,
         Buffer
    <2> QED BY <2>1, <2>2 DEF Running
  <1>4. CASE RestartTick \/ PowerLoss
    BY <1>4 DEF RestartTick, PowerLoss, ResetRam
  <1>5. CASE UNCHANGED vars
    BY <1>5 DEF vars, flash, upload, Buffer
  <1> QED BY <1>1, <1>2, <1>3, <1>4, <1>5 DEF Next

LEMMA CopyInvStep ==
    ASSUME TypeOK, StageInv, FitInv, CompleteInv, CopyInv, [Next]_vars
    PROVE  CopyInv'
  <1>t. /\ RamTypeOK /\ FlashTypeOK /\ F \in Nat /\ N \in Nat /\ N > F
        /\ Limit \in Nat /\ Limit >= F /\ UploadStage
    BY TypeParts, StoreFacts DEF StageInv
  <1>s. /\ Buffer.size \in 0 .. F /\ Firmware.size \in 0 .. F /\ bin[Source].size \in 0 .. F
        /\ i \in Nat /\ copied \in Nat
    <2>1. /\ Buffer.size \in Nat /\ bin[Source].size \in Nat /\ Firmware.size \in 0 .. F
          /\ i \in Nat /\ copied \in Nat
      BY BinTyped, Names, Bounds, <1>t DEF Buffer, Firmware, RamTypeOK
    <2>2. Buffer.size <= F /\ bin[Source].size <= F
      BY Names DEF FitInv, Buffer
    <2> QED BY <2>1, <2>2, <1>t
  <1>r. pc \in {"upd_erase", "upd_copy"} => Ram = Buffer
    BY <1>t, RamFacts DEF CompleteInv, Accepted
  <1>1. ASSUME pc' = "bk_copy"
        PROVE  \A k \in 0 .. i' - 1 : ext'[BACKUP + k] = fw'[k]
    <2>1. CASE BackupStart
      BY <2>1 DEF BackupStart
    <2>2. CASE BackupCopy
      <3>1. /\ pc = "bk_copy" /\ i' = i + 1 /\ fw' = fw /\ i \in 0 .. F - 1
            /\ ext' = [ext EXCEPT ![N + i] = fw[i]]
        BY <2>2, <1>s, <1>t DEF BackupCopy, Firmware, BACKUP
      <3>2. \A k \in 0 .. i - 1 : ext[N + k] = fw[k]
        BY <3>1 DEF CopyInv, BACKUP
      <3>3. \A k \in 0 .. i : ext'[N + k] = fw[k]
        BY <3>1, <3>2, <1>t DEF FlashTypeOK, ExtNo
      <3> QED BY <3>1, <3>3, <1>s DEF BACKUP
    <2>3. CASE pc = "bk_copy" /\ UNCHANGED vars
      BY <2>3 DEF vars, flash, CopyInv
    <2> QED BY <1>1, <2>1, <2>2, <2>3, Copying
  <1>2. ASSUME pc' = "upd_copy"
        PROVE  /\ \A k \in 0 .. copied' - 1 : ext'[BACKUP + k] = ext'[BUFFER + k]
               /\ \A k \in copied' .. Buffer'.size - 1 : ext'[BACKUP + k] = Blank
    <2>1. CASE UpdateErase
      <3>1. /\ copied' = 0 /\ Buffer' = Buffer
            /\ ext' = [k \in ExtNo |-> IF k - N \in 0 .. Buffer.size THEN Blank ELSE ext[k]]
        BY <2>1, <1>r DEF UpdateErase, Buffer, BACKUP
      <3>2. \A k \in 0 .. Buffer.size - 1 : ext'[N + k] = Blank
        BY <3>1, <1>s, <1>t DEF ExtNo
      <3> QED BY <3>1, <3>2 DEF BACKUP
    <2>2. CASE UpdateCopy
      <3>1. /\ pc = "upd_copy" /\ copied' = copied + 1 /\ Buffer' = Buffer /\ copied < Buffer.size
            /\ copied \in 0 .. F - 1
        BY <2>2, <1>r, <1>s, <1>t DEF UpdateCopy, Buffer
      <3>2. /\ \A k \in 0 .. copied - 1 : ext[N + k] = ext[k]
            /\ \A k \in copied .. Buffer.size - 1 : ext[N + k] = Blank
        BY <3>1 DEF CopyInv, BACKUP, BUFFER
      <3>3. ext[N + copied] = Blank
        BY <3>1, <3>2, <1>s
      <3>4. ext' = [ext EXCEPT ![N + copied] = ext[copied]]
        <4>1. ext' = [ext EXCEPT ![N + copied] = Program(ext[N + copied], ext[copied])]
          <5>1. BACKUP + copied = N + copied /\ BUFFER + copied = copied
            BY <1>s DEF BACKUP, BUFFER
          <5>2. ext' = [ext EXCEPT ![BACKUP + copied] = Program(ext[BACKUP + copied], ext[BUFFER + copied])]
            BY <2>2 DEF UpdateCopy
          <5> QED BY <5>1, <5>2
        <4> QED BY <3>3, <4>1 DEF Program
      <3>5. /\ \A k \in 0 .. copied : ext'[N + k] = ext'[k]
            /\ \A k \in copied + 1 .. Buffer.size - 1 : ext'[N + k] = Blank
        BY <3>1, <3>2, <3>4, <1>s, <1>t DEF FlashTypeOK, ExtNo
      <3> QED BY <3>1, <3>5, <1>s DEF BACKUP, BUFFER
    <2>3. CASE pc = "upd_copy" /\ UNCHANGED <<ext, copied>> /\ Buffer'.size = Buffer.size
      BY <2>3 DEF CopyInv
    <2> QED BY <1>2, <2>1, <2>2, <2>3, Copying
  <1>3. ASSUME pc' = "fl_copy"
        PROVE  /\ \A k \in 0 .. i' - 1 : fw'[k] = ext'[Partition(Source') + k]
               /\ \A k \in i' .. bin'[Source'].size - 1 : fw'[k] = Blank
    <2>1. CASE FlashErase
      <3>1. /\ i' = 0 /\ bin' = bin /\ Source' = Source
            /\ fw' = [k \in FwNo |-> IF k < bin[Source].size THEN Blank ELSE fw[k]]
        BY <2>1 DEF FlashErase, Source
      <3>2. \A k \in 0 .. bin[Source].size - 1 : fw'[k] = Blank
        BY <3>1, <1>s, <1>t DEF FwNo
      <3> QED BY <3>1, <3>2
    <2>2. CASE FlashCopy
      <3> DEFINE from == Partition(Source)
                 size == bin[Source].size
      <3>1. /\ pc = "fl_copy" /\ i' = i + 1 /\ ext' = ext /\ bin' = bin /\ Source' = Source
            /\ i < size /\ i \in 0 .. F - 1
        BY <2>2, <1>s, <1>t DEF FlashCopy, Source
      <3>2. /\ \A k \in 0 .. i - 1 : fw[k] = ext[from + k]
            /\ \A k \in i .. size - 1 : fw[k] = Blank
        BY <3>1 DEF CopyInv
      <3>3. fw[i] = Blank
        BY <3>1, <3>2, <1>s
      <3>4. fw' = [fw EXCEPT ![i] = ext[from + i]]
        <4>1. fw' = [fw EXCEPT ![i] = Program(fw[i], ext[from + i])]
          BY <2>2 DEF FlashCopy
        <4> QED BY <3>3, <4>1 DEF Program
      <3>5. /\ \A k \in 0 .. i : fw'[k] = ext[from + k]
            /\ \A k \in i + 1 .. size - 1 : fw'[k] = Blank
        BY <3>1, <3>2, <3>4, <1>s, <1>t DEF FlashTypeOK, FwNo
      <3> QED BY <3>1, <3>5, <1>s
    <2>3. CASE pc = "fl_copy" /\ UNCHANGED vars
      BY <2>3 DEF vars, flash, CopyInv, Source
    <2> QED BY <1>3, <2>1, <2>2, <2>3, Copying
  <1> QED BY <1>1, <1>2, <1>3 DEF CopyInv, Partition

LEMMA BinStep ==
    ASSUME TypeOK, TypeOK', StageInv, ErasingBlank, Polite, BinInv, [Next]_vars
    PROVE  BinInv'
  BY FitStep, UploadStep, CompleteInvStep, BackupInvStep, FirmwareInvStep, CopyInvStep DEF BinInv

-----------------------------------------------------------------------------
(* The firmware that is written again.                                     *)

\* A VALID firmware whose first subsector is not blank is whole.
LEMMA FirstNotBlank ==
    ASSUME TypeOK, FirmwareInv, Firmware.state = "VALID", fw[0] # Blank
    PROVE  Whole
  <1>t. Firmware.size \in 0 .. F /\ F \in Nat
    BY StoreFacts, BinTyped, Names DEF Firmware
  <1>1. Firmware.img \in Images /\ Size[Firmware.img] \in 1 .. F
    BY <1>t, StoreFacts DEF FirmwareInv
  <1>2. \A k \in 0 .. Size[Firmware.img] - 1 : fw[0 + k] = Firmware.img
    BY <1>1 DEF FirmwareInv, HasPart
  <1> QED BY <1>1, <1>2 DEF Whole, WholeAt

LEMMA WholeKept == ASSUME fw' = fw PROVE Whole' <=> Whole
  BY DEF Whole, WholeAt

\* While the firmware is being written, the flags and the source stay.
LEMMA ResumeFlash ==
    ASSUME TypeOK, StageInv, ResumeInv, pc \in {"fl_erase", "fl_copy"}
    PROVE  Resumable
  BY DEF StageInv, CopyStage, ResumeInv, Resumable, Source, Buffer, Backup

LEMMA BootloaderResume ==
    ASSUME TypeOK, StageInv, FitInv, FirmwareInv, Unattended, ResumeInv, BootloaderStep
    PROVE  ResumeInv'
  <1>c. conf.flashflag \in {0, 1} /\ conf.launched \in {0, 1}
    BY DEF TypeOK
  <1> USE DEF Running
  <1>1. CASE Boot \/ RestoreErase
    <2>1. UNCHANGED <<fw, bin, conf>> /\ pc' \in {"r_erase", "select"}
      BY <1>1 DEF Boot, RestoreErase, flash
    <2> QED BY <2>1, WholeKept DEF ResumeInv, Resumable, Buffer, Backup, Firmware
  <1>2. CASE RestoreErased
    <2>1. OnlyState("buffer", "ERASED") /\ Buffer.state = "ERASING"
      BY <1>2, OnlyStateOf, Names DEF RestoreErased, StageInv, RestoreStage
    <2>2. Backup' = Backup /\ Firmware' = Firmware
      BY <2>1, Names DEF OnlyState, Backup, Firmware
    <2>3. UNCHANGED <<fw, conf>> /\ pc' = "select"
      BY <1>2 DEF RestoreErased
    <2> QED BY <2>1, <2>2, <2>3, WholeKept DEF ResumeInv, Resumable
  <1>3. CASE SelectMode
    <2>1. UNCHANGED <<fw, bin, conf>> /\ mode' = AutomaticMode
      BY <1>3 DEF SelectMode, Unattended, flash
    <2>2. Resumable => conf.flashflag = 1 \/ conf.launched = 1
      BY DEF Resumable
    <2>3. CASE conf.launched = 1
      <3>1. mode' = "RESTORE" /\ pc' = "fl_start"
        BY <1>3, <2>1, <2>3 DEF AutomaticMode, SelectMode
      <3> QED BY <2>1, <2>3, <3>1, WholeKept DEF ResumeInv, Resumable, Buffer, Backup, Firmware
    <2>4. CASE conf.launched = 0 /\ conf.flashflag = 1
      <3>1. mode' = "FLASH" /\ pc' = "backup"
        BY <1>3, <2>1, <2>4 DEF AutomaticMode, SelectMode
      <3> QED BY <2>1, <2>4, <3>1, WholeKept DEF ResumeInv, Resumable, Buffer, Backup, Firmware
    <2>5. CASE conf.launched = 0 /\ conf.flashflag = 0
      <3>1. mode' \in {"COMMANDS", "JUMP"} /\ pc' \in {"commands", "end"}
        BY <1>3, <2>1, <2>5 DEF AutomaticMode, SelectMode
      <3> QED BY <2>1, <2>2, <2>5, <3>1, WholeKept DEF ResumeInv, Resumable, Buffer, Backup, Firmware
    <2> QED BY <2>3, <2>4, <2>5, <1>c
  <1>4. CASE BackupStart
    <2>1. OnlyState("backup", "INVALID") /\ Firmware.state = "VALID"
      BY <1>4, OnlyStateOf, Names DEF BackupStart, BackupNeeded, Firmware
    <2>2. Firmware' = Firmware
      BY <2>1, Names DEF OnlyState, Firmware
    <2>3. UNCHANGED <<conf, mode>> /\ pc = "backup" /\ pc' = "bk_copy"
      BY <1>4 DEF BackupStart
    <2> QED BY <2>1, <2>2, <2>3 DEF ResumeInv
  <1>5. CASE BackupSkip
    <2>1. UNCHANGED <<fw, bin, conf, mode>> /\ pc = "backup" /\ pc' = "fl_start" /\ mode = "FLASH"
      BY <1>5 DEF BackupSkip, AfterBackup, flash, ResumeInv
    <2> QED BY <2>1, WholeKept DEF ResumeInv, Resumable, Buffer, Backup, Firmware
  <1>6. CASE BackupCopy
    <2>1. UNCHANGED <<fw, bin, conf, mode>> /\ pc = "bk_copy" /\ pc' = "bk_copy"
      BY <1>6 DEF BackupCopy
    <2> QED BY <2>1, WholeKept DEF ResumeInv, Resumable, Buffer, Backup, Firmware
  <1>7. CASE BackupFinish
    <2>1. Copied("backup", "firmware") /\ Firmware.state = "VALID"
      BY <1>7, CopiedOf, Names DEF BackupFinish, StageInv, CopyStage
    <2>2. Firmware' = Firmware
      BY <2>1, Names DEF Copied, Firmware
    <2>3. UNCHANGED <<conf, mode>> /\ pc = "bk_copy" /\ pc' = "fl_start" /\ mode = "FLASH"
      BY <1>7 DEF BackupFinish, AfterBackup, ResumeInv
    <2> QED BY <2>1, <2>2, <2>3 DEF ResumeInv
  <1>8. CASE FlashStart
    <2>1. /\ pc = "fl_start" /\ UNCHANGED <<fw, conf, mode>> /\ mode \in {"FLASH", "RESTORE"}
          /\ mode = "FLASH" => conf.flashflag = 1 /\ conf.launched = 0
          /\ mode = "RESTORE" => conf.launched = 1
      BY <1>8 DEF FlashStart, ResumeInv
    <2>f. bin[Source].size <= F
      BY Names DEF FitInv
    <2>2. CASE bin[Source].state = "VALID"
      <3>1. OnlyState("firmware", "INVALID") /\ pc' = "fl_erase"
        BY <1>8, <2>2, <2>f, OnlyStateOf, Names DEF FlashStart, Flashable
      <3>2. Buffer' = Buffer /\ Backup' = Backup
        BY <3>1, Names DEF OnlyState, Buffer, Backup
      <3>3. Resumable
        BY <2>1, <2>2 DEF Resumable, Source, Buffer, Backup
      <3> QED BY <2>1, <3>1, <3>2, <3>3 DEF ResumeInv, Resumable
    <2>3. CASE bin[Source].state # "VALID"
      <3>1. bin' = bin /\ pc' \in {"fl_conf", "end"}
        BY <1>8, <2>1, <2>3 DEF FlashStart, Flashable, AfterFlash
      <3>2. ~ Resumable
        BY <2>1, <2>3 DEF Resumable, Source, Buffer, Backup
      <3> QED BY <2>1, <3>1, <3>2, WholeKept DEF ResumeInv, Firmware
    <2> QED BY <2>2, <2>3
  <1>9. CASE FlashErase \/ FlashCopy
    <2>1. /\ pc \in {"fl_erase", "fl_copy"} /\ pc' = "fl_copy"
          /\ UNCHANGED <<bin, conf, mode>>
      BY <1>9 DEF FlashErase, FlashCopy
    <2>2. Resumable'
      BY <2>1, ResumeFlash DEF Resumable, Buffer, Backup
    <2> QED BY <2>1, <2>2 DEF ResumeInv
  <1>10. CASE FlashFinish
    <2>1. Copied("firmware", Source) /\ pc = "fl_copy" /\ mode' = mode /\ pc' = AfterFlash
      BY <1>10, CopiedOf, Names DEF FlashFinish
    <2>2. Firmware'.state = "VALID"
      BY <2>1 DEF Copied, Firmware
    <2>3. pc' \in {"fl_conf", "end"}
      BY <2>1 DEF AfterFlash, ResumeInv
    <2> QED BY <2>2, <2>3 DEF ResumeInv
  <1>11. CASE FlashConf
    <2>1. UNCHANGED <<fw, bin>> /\ pc = "fl_conf" /\ pc' = "end"
      BY <1>11 DEF FlashConf
    <2> QED BY <2>1, WholeKept DEF ResumeInv, Firmware
  <1>12. CASE End
    <2>1. UNCHANGED <<fw, bin, conf>> /\ pc = "end" /\ pc' \in {"commands", "app_fix"}
      BY <1>12 DEF End, flash
    <2>2. pc' = "app_fix" => Whole
      BY <1>12, <2>1, FirstNotBlank DEF End, ResumeInv
    <2> QED BY <2>1, <2>2, WholeKept DEF ResumeInv, Firmware
  <1>13. CASE Autojump
    <2>1. UNCHANGED <<fw, bin, conf>> /\ pc = "commands" /\ pc' = "end"
      BY <1>13 DEF Autojump, flash
    <2> QED BY <2>1, WholeKept DEF ResumeInv, Firmware
  <1> QED BY <1>1, <1>2, <1>3, <1>4, <1>5, <1>6, <1>7, <1>8, <1>9, <1>10, <1>11, <1>12, <1>13
          DEF BootloaderStep

LEMMA ResumeStep ==
    ASSUME TypeOK, StageInv, FitInv, FirmwareInv, Unattended, ResumeInv, [Next]_vars
    PROVE  ResumeInv'
  <1> USE DEF Running
  <1>1. CASE BootloaderStep
    BY <1>1, BootloaderResume
  <1>2. ASSUME pc \in Running \cup {"app_fix", "app_launch"},
               pc' \in Running \cup {"app_fix", "app_launch", "off"}
        PROVE  ResumeInv'
    <2>1. Whole'
      BY <1>2, ChangedData, WholeKept DEF ResumeInv
    <2> QED BY <1>2, <2>1 DEF ResumeInv
  <1>3. CASE AppStep \/ HomerStep
    BY <1>2, <1>3 DEF AppStep, HomerStep, AppCrash, ResetRam, AppFix, AppLaunch, EraseSubsector,
       EraseCounted, EraseDone, BufferPrepare, WritePart, UpdateErase, UpdateCopy, UpdateFinish,
       UploadStart, UploadDuplicate, UploadData, UploadEnd, UpdateFirmware, UpdateBackup, SetAutobackup,
       SystemRestart
  <1>4. CASE Disconnect \/ ConnectionStop \/ UploadTimeout
    BY <1>2, <1>4 DEF Disconnect, ConnectionStop, UploadTimeout, StageInv, UploadStage
  <1>5. CASE Command
    BY <1>5 DEF Command, Unattended
  <1>6. CASE RestartTick \/ PowerLoss
    <2>1. UNCHANGED <<bin, conf>> /\ pc' = "off"
      BY <1>6, InterruptedData DEF RestartTick, PowerLoss, ResetRam
    <2>2. CASE pc \in {"fl_erase", "fl_copy"}
      BY <2>1, <2>2, ResumeFlash DEF ResumeInv, Resumable, Buffer, Backup
    <2>3. CASE pc \notin {"fl_erase", "fl_copy"}
      <3>1. fw' = fw
        BY <2>3, ChangedData
      <3> QED BY <2>1, <3>1, WholeKept DEF ResumeInv, Resumable, Buffer, Backup, Firmware
    <2> QED BY <2>2, <2>3
  <1>7. CASE UNCHANGED vars
    <2>1. UNCHANGED <<fw, bin, conf, pc, mode>>
      BY <1>7 DEF vars, flash
    <2> QED BY <2>1, WholeKept DEF ResumeInv, Resumable, Buffer, Backup, Firmware
  <1> QED BY <1>1, <1>3, <1>4, <1>5, <1>6, <1>7 DEF Next

-----------------------------------------------------------------------------
(* The invariant.                                                          *)

LEMMA Initially == Init => IInv
  <1> SUFFICES ASSUME Init PROVE IInv
    OBVIOUS
  <1>c. defaults_struct_bin \in Bin /\ Blank \in Cell /\ Factory \in Cell
    BY StoreFacts, Names DEF defaults_struct_bin, Bin, Cell
  <1>b. \A c \in Component : bin[c] = defaults_struct_bin
    BY DEF Init
  <1>s. /\ Buffer.state = "INVALID" /\ Backup.state = "INVALID" /\ Firmware.state = "INVALID"
        /\ \A c \in Component : bin[c].size = 0
    BY <1>b, Names DEF Buffer, Backup, Firmware, defaults_struct_bin
  <1>1. FlashTypeOK
    BY <1>c, <1>s, Names, StoreFacts DEF Init, FlashTypeOK
  <1>2. RamTypeOK
    <2>1. 0 \in 0 .. MaxErase /\ 0 \in 0 .. Limit
      BY StoreFacts, Bounds
    <2> QED BY <2>1 DEF Init, RamTypeOK, Places
  <1>3. StageInv
    BY <1>s, StoreFacts DEF Init, StageInv, RestoreStage, CopyStage, UploadStage, Starting, Running
  <1>4. ErasingBlank
    BY DEF Init, ErasingBlank, Erasing, Running
  <1>5. BinInv
    <2>1. FitInv
      BY <1>s, StoreFacts DEF Init, FitInv
    <2> QED BY <1>s, <2>1 DEF Init, BinInv, UploadInv, CompleteInv, BackupInv, FirmwareInv, CopyInv,
            Running
  <1>6. ResumeInv
    <2>1. Size[Factory] \in 1 .. F /\ F \in Nat
      BY StoreFacts
    <2>2. WholeAt(fw, 0, Factory)
      BY <2>1 DEF Init, WholeAt, FwNo
    <2>3. Whole
      BY <2>2, StoreFacts DEF Whole
    <2> QED BY <2>3 DEF Init, ResumeInv, Running
  <1> QED BY <1>1, <1>2, <1>3, <1>4, <1>5, <1>6, TypeParts DEF IInv

LEMMA Inductive == IInv /\ [Next]_vars => IInv'
  <1> SUFFICES ASSUME IInv, [Next]_vars PROVE IInv'
    OBVIOUS
  <1>1. TypeOK /\ StageInv /\ ErasingBlank
    BY DEF IInv
  <1>2. TypeOK' /\ StageInv'
    BY <1>1, TypeStep, StageStep
  <1>3. ErasingBlank'
    BY <1>1, ErasingStep
  <1>4. ASSUME Polite
        PROVE  BinInv'
    BY <1>1, <1>2, <1>4, BinStep DEF IInv
  <1>5. ASSUME Polite, Unattended
        PROVE  ResumeInv'
    BY <1>1, <1>5, ResumeStep DEF IInv, BinInv
  <1> QED BY <1>2, <1>3, <1>4, <1>5 DEF IInv, Polite, Unattended

-----------------------------------------------------------------------------
(* What the specification guarantees.                                      *)

\* The invariant holds in every state of the update, through every reset.
THEOREM Invariance == Spec => []IInv
  BY Initially, Inductive, PTL DEF Spec

\* The variables of BinManager and the flags keep their types: the indices of
\* _erase_function, of the parts and of the copies stay below what was announced
\* and sent, in every environment.
THEOREM TypeCorrect == Spec => []TypeOK
  <1>1. IInv => TypeOK
    BY DEF IInv
  <1> QED BY Invariance, <1>1, PTL

\* _erase_function and restore_processes report ERASED only when every subsector
\* of the image within the buffer is blank, whatever Homer announces, sends or
\* repeats, and whichever calls of set_state are refused their lock.
THEOREM ErasedBlank == Spec => ErasedWhenBlank
  <1> DEFINE A == bin'["buffer"].state = "ERASED" /\ bin["buffer"].state # "ERASED" /\ part = 0 =>
                      \A k \in 0 .. bin'["buffer"].size - 1 : k < N => ext'[BUFFER + k] = Blank
  <1>1. IInv /\ [Next]_vars => [A]_vars
    <2> SUFFICES ASSUME IInv, [Next]_vars PROVE A
      OBVIOUS
    <2>1. TypeOK /\ StageInv /\ ErasingBlank
      BY DEF IInv
    <2> QED BY <2>1, ErasedStep DEF Buffer
  <1>2. Spec => [][A]_vars
    BY Invariance, <1>1, PTL DEF Spec
  <1> QED BY <1>2 DEF ErasedWhenBlank

\* In every environment, announcements and parts larger than the buffer included:
\* no step of BinManager changes a VALID firmware, a VALID backup is changed only
\* where an erase or a part has run past the buffer, and a VALID buffer (within
\* the partition) or a VALID backup as a whole only after set_state was refused
\* its lock and nobody looked at the return code.
THEOREM SpoilsUnruly == Spec => UnrulySpoils
  <1> DEFINE A == /\ bin["firmware"].state = "VALID" => Kept("firmware", {})
                  /\ bin["buffer"].state = "VALID" =>
                         Kept("buffer", N .. Limit) \/ (pc = "writing" /\ "disconnect" \in Env)
                  /\ bin["backup"].state = "VALID" =>
                         Kept("backup", Overrun)
                             \/ (pc \in {"upd_erase", "upd_copy"} /\ "disconnect" \in Env)
  <1>1. IInv /\ [Next]_vars => [A]_vars
    <2> SUFFICES ASSUME IInv, [Next]_vars PROVE A
      OBVIOUS
    <2>1. TypeOK /\ StageInv
      BY DEF IInv
    <2> QED BY <2>1, UnrulyStep DEF Buffer, Backup, Firmware, Disconnects
  <1>2. Spec => [][A]_vars
    BY Invariance, <1>1, PTL DEF Spec
  <1> QED BY <1>2 DEF UnrulySpoils

\* With a Homer that announces only images that fit and starts nothing while the
\* connection is down, INVALID is saved before the data of a binary is changed.
THEOREM SpoiledInvalid == ASSUME Polite PROVE Spec => SpoiledOnlyWhenInvalid
  <1> DEFINE A == \A c \in Component : bin[c].state = "VALID" =>
                      Kept(c, IF c = "backup" /\ pc = "r_erase" THEN {0} ELSE {})
  <1>1. IInv /\ [Next]_vars => [A]_vars
    <2> SUFFICES ASSUME IInv, [Next]_vars, NEW c \in Component, bin[c].state = "VALID"
                 PROVE  Kept(c, IF c = "backup" /\ pc = "r_erase" THEN {0} ELSE {})
      OBVIOUS
    <2>1. TypeOK /\ StageInv /\ FitInv /\ UploadInv
      BY DEF IInv, BinInv
    <2>2. CASE c = "firmware"
      BY <2>1, <2>2, SpoiledStep DEF Kept, Firmware
    <2>3. CASE c = "buffer"
      BY <2>1, <2>3, SpoiledStep DEF Kept, Buffer, Partition
    <2>4. CASE c = "backup"
      BY <2>1, <2>4, SpoiledStep DEF Kept, Backup, Partition
    <2> QED BY <2>2, <2>3, <2>4 DEF Component
  <1>2. Spec => [][A]_vars
    BY Invariance, <1>1, PTL DEF Spec
  <1> QED BY <1>2 DEF SpoiledOnlyWhenInvalid

\* A VALID buffer holds the image its struct names when Homer keeps to the
\* protocol: it waits for ERASED and sends the parts in order.
THEOREM ValidBuffer == ASSUME Polite PROVE Spec => []ValidBufferIntact
  <1>1. IInv => ValidBufferIntact
    BY StoreFacts DEF IInv, BinInv, CompleteInv, Complete, ValidBufferIntact, Intact, Partition,
       Buffer
  <1> QED BY Invariance, <1>1, PTL

\* flashflag is never set over a buffer that is not complete, so flash_firmware
\* has a whole image to copy at every retry.
THEOREM FlashflagGuards == ASSUME Polite PROVE Spec => []FlashflagGuardsBuffer
  <1>1. IInv => FlashflagGuardsBuffer
    BY StoreFacts DEF IInv, BinInv, CompleteInv, Complete, FlashflagGuardsBuffer, Intact,
       Partition, Buffer
  <1> QED BY Invariance, <1>1, PTL

\* Of a VALID backup or firmware at most the first subsector is lost, and it is
\* seen to be: bootloader_end looks at exactly that one.
THEOREM FirstLost == ASSUME Polite PROVE Spec => []OnlyFirstLost
  <1>1. IInv => OnlyFirstLost
    <2> SUFFICES ASSUME IInv PROVE OnlyFirstLost
      OBVIOUS
    <2>1. BackupInv /\ FirmwareInv /\ N \in Nat
      BY StoreFacts DEF IInv, BinInv
    <2>2. ASSUME Backup.state = "VALID", NEW k \in 0 .. Size[Backup.img] - 1
          PROVE  \/ ext[BACKUP + k] = Backup.img
                 \/ k = 0 /\ (ext[BACKUP] = Blank \/ Buffer.state = "ERASING")
      BY <2>1, <2>2 DEF BackupInv, HasPart
    <2>3. ASSUME Firmware.state = "VALID", NEW k \in 0 .. Size[Firmware.img] - 1
          PROVE  fw[k] = Firmware.img \/ (k = 0 /\ fw[0] = Blank)
      BY <2>1, <2>3 DEF FirmwareInv, HasPart
    <2> QED BY <2>2, <2>3 DEF OnlyFirstLost, Backup, Firmware, Buffer
  <1> QED BY Invariance, <1>1, PTL

\* However often the power fails while a firmware is flashed or restored, the
\* bootloader jumps only to one that is whole.
THEOREM JumpToWhole == ASSUME Polite, Unattended PROVE Spec => []JumpOnlyToWhole
  <1>1. IInv => JumpOnlyToWhole
    BY RunningWhole DEF IInv, ResumeInv, JumpOnlyToWhole
  <1> QED BY Invariance, <1>1, PTL

\* An incomplete firmware that no struct vouches for is written again at the
\* next start, from the buffer or from the backup.
THEOREM Resumed == ASSUME Polite, Unattended PROVE Spec => []FlashIsResumed
  <1>1. IInv => FlashIsResumed
    <2> SUFFICES ASSUME IInv, RunningImage = None, Firmware.state # "VALID"
                 PROVE  \/ AutomaticMode = "FLASH" /\ Buffer.state = "VALID"
                        \/ AutomaticMode = "RESTORE" /\ Backup.state = "VALID"
      BY DEF FlashIsResumed, Firmware, Buffer, Backup
    <2>1. Resumable
      BY RunningWhole DEF IInv, ResumeInv
    <2> QED BY <2>1 DEF Resumable, AutomaticMode
  <1> QED BY Invariance, <1>1, PTL
=============================================================================
