# A TLA+ model of the Byzance IODA firmware

The repository holds the firmware of an IoT device (IODA, an STM32F437 with an
external SPI flash): a library that connects the device to a server ("Homer")
over MQTT, lets Homer upload and install new firmware, and a bootloader that
installs it and goes back to a backup when the new firmware does not start.
What must never go wrong is the persistent state: a device in the field whose
power fails, whose connection drops or whose new firmware is broken has to come
back by itself. The models start there.

## Inventory

Own code is in `src/_libs_/byzance_drivers` (storage, configuration, binaries),
`src/_libs_/byzance` (network, commands, threads) and
`src/bootloaders/bootloader_ioda/main.cpp`. `mbed-os_*`, `usb`, `libraries`,
`fonts` and `picojson.h` are third-party code; `mqtt` is a third-party client
with local changes, modelled where ByzanceClient depends on it.

| component | state | operations | hard because |
|---|---|---|---|
| ExtMem | journal and index in flash, `_subsector_buffer`, a mutex | `secure_write`, `write_data`, `read_data`, `erase_subsectors`, recovery in `init` | power loss inside any erase or program; several threads; boundaries between subsectors |
| BinManager | `struct_binary` of firmware, backup, buffer and bootloader; busy flags; erase and backup counters; the upload ticker | upload, erase, backup, `flash_firmware`, `update_component`, recovery in `init` | procedures that span many steps, resets and threads |
| Bootloader | its mode; flags in Configurator | mode selection, FLASH, RESTORE, commands, jump | starts from whatever state a reset left behind |
| MQTTCommands | received and calculated crc, expected part | upload/start, data, end, update, restart | order and repetition of the commands are Homer's |
| IODA_general | threads, connection state | start-up, main loop, connection change, restart | connection thread and tickers run beside the byzance thread |
| ByzanceCore | `restart_pending`, `restart_sec`, who controls the LEDs | `restart`, `ticker_call`, `led_module` | an interrupt counts down what threads set; postponed while BinManager is busy |
| IntMem | the flash of the MCU | `erase`, `write_data`, `get_sector` | sectors of three sizes, a map written by hand |
| Configurator, MqttManager | configuration structs in RAM and in flash, a lock | setters, `init`, `set_defaults` | RAM is changed before a save that may fail; several threads; resets |
| ByzanceClient | socket, MQTT client, connection flags, two mailboxes, a semaphore | `thread_connection`, `subscribe_all`, `send_message`, `get_message` | several threads on bounded queues over a connection that fails anywhere |
| ByzanceWorker, MsgIdBuffer | ids of the last messages | `process`, `add`, answers | repeated messages, wake-ups by a signal |
| bootloader serial line | a command buffer shared with interrupts | receive, check the CRC, parse | interrupt against main loop, lost characters, a full buffer |
| Connector, TLSSocket, HttpServer, LowpanBR, radio driver, LEDs, logger, info reports | devices and sockets | I/O | not modelled |

Interactions: Homer's commands arrive on the client thread, are put in a queue
and handled by the byzance thread, which also calls `BinManager::yield`. The
connection thread calls `upload_stop` when the connection is lost; a ticker
interrupt does so after a minute without data, another one carries out a
restart. Application and bootloader never run at the same time; they talk
through the structs and the flags `flashflag`, `launched` and `autobackup` in
the external flash, each saved with one `secure_write`.

What makes each of these parts correct: `secure_write` is atomic; a VALID binary is
complete and stays untouched as long as Homer keeps to the procedure; the bootloader never starts a partly written
firmware and resumes an interrupted installation; an erase reaches exactly what
is then written; the device ends in an application that works; no procedure
stays in progress for ever; no block, permit or wake-up of the message path is
lost and no command is carried out twice; a scheduled restart takes place and
never during a procedure; a setting that was saved survives every reset; a
bootloader command that fails its CRC is not carried out. Where the code does not
quite keep to this, a run shows how, or "Seen while modelling" says so.
PROJECT.json lists the hazards line by line.

## Modules

**FlashGeometry** fixes the geometry: subsectors are erased, pages programmed.
**AtomicStore** is what `secure_write` promises: a call changes the store in one
indivisible step or not at all and returns OK only afterwards.
**ExtMemJournal** is the code: one action for each erase of a subsector or
program of a page, the mutex and its timeout, `init` after a power-up, and
`PowerLoss`, which may interrupt any of these steps. `Recovered` is the memory
as `init` would leave it; `AtomicWrites` is AtomicStore under this mapping.
**ExtMemJournalProofs** holds the proofs.

| ExtMemJournal | ExtMem.cpp |
|---|---|
| `Begin`, `Fill`, `EraseJournal`, `ProgramJournal`, `EraseIndex`, `ProgramIndex` | `secure_write` with the `write_data` calls in it |
| `CopyBlock`, `EraseDest`, `ProgramDest` | the loop of `_handle_journal` |
| `EmptyJournal` | `_empty_journal` and the return of the caller |
| `Boot` | `init` |
| `LockTimeout`, `RefuseOverlap` | the early returns of `secure_write` |

**FirmwareStore** is the state that application and bootloader share, in units
of subsectors. Because `secure_write` is atomic, saving a struct is one step.
`Limit` bounds what an instance announces and sends; it may exceed the buffer.
**Bootloader** has `BinManager::init` with `restore_processes`, the mode
selection of `bootloader_app`, the backup, `flash_firmware`, the commands and
`bootloader_end`. **Application** has the start-up up to the reset of
`launched`, `_erase_function`, the handlers of MQTTCommands, `upload_stop` from
the connection thread and from the ticker, and `update_component` for the
backup. **FirmwareUpdate** composes the two with power losses and restarts.
`Env` selects what the environment does: `power` (power loss), `disconnect`,
`timeout` (the upload ticker), `settings` (autobackup is switched), `backup`
(Homer replaces the backup), `button` (a user at the bootloader, or anything
else that leads to the command mode) and `unruly`. Without `unruly` Homer is
polite: it announces images that fit, waits for the ERASED report, sends the
parts and then the end, and starts nothing while the connection is down. With
it, Homer sends commands in any order, images larger than the firmware and the
buffer, and parts past the end of both, as nothing in `upload_start`,
`upload_data`, `buffer_erase` and `write_bin_part` compares a size or a part
number with the partition.

`set_state` waits 100 ms for its lock and nobody looks at its return code. While
the connection thread is in `upload_stop` (`MayBeLocked`) every `set_state`,
`get_state` and `get_size` of the byzance thread may be refused: the step goes on
with the old struct, or with whatever was in the variable.

**FirmwareUpdateProofs** holds the proofs.

**IntMem** is the flash of the MCU on the memory map as written in
`memory_map.h`, against the sectors the chip has by the sizes given there, for
every size `flash_firmware` and `write_data` accept. **IntMemProofs** holds the
proofs.

**MqttMails** is what the threads share: the mailboxes with their memory pools,
the semaphore, the signal and the connection flags, and `send_message`, which
runs in the thread of its caller step by step (permit or timeout, allocation,
put). **ByzanceClient** is the connection thread with the socket, the MQTT client
and its handler table; the broker and the network are external and accept,
refuse, push messages or fail at any time. **ByzanceWorker** is the byzance
thread: it listens, drains the mail, drops a command whose id MsgIdBuffer still
has, answers and frees. **MessagePath** composes the three;
**MessagePathProofs** holds the proofs.

| module | code |
|---|---|
| `send_message`, `SemExpires`, `Alloc`, `Put` | `ByzanceClient::send_message` |
| `ConnectSocket`, `CheckClient`, `ConnectClient`, `destroy_client`, `Publish`, `FreeSent`, `ReleaseSent`, `Yield` | `ByzanceClient::thread_connection` |
| `SubscribeOk`, `SubscribeFails`, `SubscribeAllFails` | `subscribe_all` and `MQTT::Client::subscribe` |
| `ReportWelcome`, `Announced` | `Byzance::_client_connection_change(true)` |
| `Deliver`, `Signal` | `deliverMessage`, `rcvd_packet_callback`, `_client_msg_rcvd` |
| `Listen`, `Wake`, `GetMessage`, `DeleteIncoming` | the loop of `_thread_byzance_function` |
| `process`, `send_response`, `add` | `ByzanceWorker::process`, `MsgIdBuffer::add` |

**PendingRestart** is what the firmware update relies on: a scheduled restart
stays scheduled until the reset, and there is no reset while BinManager is busy.
**ByzanceCore** is the code: `restart` in several threads, in three steps that
the ticker may interrupt (`restart`, `Compare`, `Store`), and `ticker_call`
(`TickCount`, `TickPostpone`, `TickReset`). It implements PendingRestart, which
is why `RestartTick` of FirmwareUpdate may be a single step.
**ByzanceCoreProofs** holds the proofs.

**Configurator** is one struct with the form all setters of Configurator and
MqttManager have: lock, compare with RAM, change RAM, save the whole struct,
unlock, with the early returns. `init` loads it and repairs fields that read as
erased, `Factory` is the factory reset of the bootloader. Three histories record
what callers were told: `acked` is the value a caller who asked for a save was last
answered OK for, `hollow` the fields for which that answer came without a save
while the flash had another value, `unsaved` the fields whose last save failed or
was not asked for. A power loss forgets neither of the first two. **ConfiguratorProofs** holds the proofs.

**BootloaderSerial** is the command line. Two ports send at any time, without
waiting for an answer; characters arrive or are lost; the interrupt fills `cmd`
and checks the CRC at the end of a line, whatever `data_flag` is. The main loop
rewrites the text in place twice, once to remove leading blanks
(`bootloader_ioda/main.cpp:738`) and once to make it lower case
(`BootloaderCommander.cpp:58`); `Load` and `Store` of one character are two steps,
with room for interrupts between them. `whole` and `disturbed` are histories: the
line of a port stands in `cmd` as it was sent; `cmd` was written to after the
line that waits was accepted. **BootloaderSerialProofs** holds the proofs.

`MC_*` modules give the constants for TLC. Operators called variants, in front
of the definition they vary, are wrong versions of it used to see that a
property notices.

## What is abstracted

* Page contents and binaries are model values. A binary is its image in every
  subsector; its build id is the image. Sizes are whole subsectors.
* An interrupted erase leaves each page old, erased or torn. An interrupted
  program leaves its page torn. The two index words are programmed in byte
  order, so a torn word reads as unset or fails the range checks of
  `_handle_journal`; this is the one assumption about the chip the atomicity
  rests on.
* RAM and saved copy of a struct agree between two steps, except that `unsaved`
  marks a struct of the buffer that `buffer_prepare` has filled in RAM and could
  not save. The struct of the backup can differ too, when `update_component` has
  copied it in RAM and `set_state` then saves nothing; the application does not
  read it before it is saved with another state or lost. Errors returned by the memory and by the locks of Configurator are not
  modelled here (failing saves are in Configurator). The lock in `set_state` may
  be refused to either thread, and in the ticker interrupt it cannot be taken at
  all.
* The xor checksum of an upload is equal when all parts of the announced image
  have been accepted, and when nothing has been announced or accepted.
* An image has at least one subsector; a size of 0, which `flash_firmware` and
  `_backup_prepare` treat in branches of their own, is left out. A size above the
  partition is refused by `flash_firmware` (`Flashable`) and by nobody before. A
  wrong part number or part checksum is answered without any other effect.
* `backup_start` is called by the bootloader only; so is the backup here.
* In FirmwareUpdate a pending restart happens at any later time when BinManager
  is not busy; ByzanceCore has the count-down.
* MessagePath: a message is its topic or its id. One answer per command; the
  progress reports of BinManager are further sends of the same form. The
  timeouts of waits may expire at any time. What a failed allocation in
  `rcvd_packet_callback` loses is lost without a trace, as in the code.
* ByzanceCore: `restart` and `restart_postpone` are called with at least one
  second. MQTTCommands does so; `restart_postpone` is part of the interface for
  user code and checks nothing (see below).
  The user postpones only so often (`MaxPostpone`) and an interrupted call of
  `restart` goes on after at most `MaxLate` ticks.
* Configurator: `secure_write` is one step, justified by AtomicWrites; it may
  fail, which leaves the flash alone.
* BootloaderSerial: the CRC is one last character that fits the text it was made
  for and no other. The texts have no leading blanks and no `=`, so both passes
  over the text store what they have loaded; a store is stale when an interrupt
  came between. `cmd` has the byte behind it that the terminator of a full line
  hits.

## Runs

| run | shows | states |
|---|---|---|
| journal | atomicity, no torn page seen or recovered; calls return, recovery completes | 505,692 |
| update | no jump to a partly written firmware; a VALID buffer is intact; a VALID backup or firmware lacks at most an erased first subsector; interrupted flashing is resumed; `flashflag` implies a complete buffer; a buffer reported ERASED is blank; data changes only under a struct that is not VALID | 353,598 |
| update_unruly | whatever Homer announces and sends, and with a user at the bootloader: a buffer reported ERASED is blank; a VALID firmware is never changed, a VALID backup or buffer only past the end of the buffer or after a refused lock | 5,249,096 |
| update_live | a start with autobackup ends in a working application; erases end | 22,514 |
| messages | no block of a mailbox, no permit and no wake-up is lost; the client never outlives its socket; a client that is up is subscribed to every topic; no command is carried out twice within the window of MsgIdBuffer; `send_message` returns, queued messages go out, received ones are processed while the connection lasts | 378,479 |
| restart | a scheduled restart is armed, takes place, and implements PendingRestart; the user is told of a busy BinManager | 2,200 |
| configurator | what was saved and answered with OK is what every later start loads; RAM and flash differ only in fields whose save failed; the lock is given back | 209,870 |
| serial | a text is carried out against its CRC only if an interrupt wrote to the buffer after the check; a whole line is accepted whatever came before | 4,248,475 |

Bounds. Two pages per subsector and two subsectors give calls inside one
subsector, a whole subsector, across a boundary and too large; two threads
contend for the mutex; the journal never holds more than two blocks. Two images
of two subsectors give a first and a later subsector, and a buffer with one
subsector to spare; one image may be broken. For an unruly Homer the firmware has
one subsector and the buffer two; an image of two is refused by `flash_firmware`,
its erase of three reaches the backup, and so do parts up to `Limit` = 3. IntMem
is checked on its real addresses, in units of 4 KiB, for every size. A send
mailbox of one block and a receive mailbox of two fill up; three senders contend
for them; two topics and a handler table of four let a reconnection on the same
client leave every topic with two handlers, so the one message Homer may publish
(`Budget`) arrives twice. That Homer itself repeats a command, and that a full
list of ids forgets the oldest, is left to the theorem NoCommandTwice, which has no
such bound; a larger budget together with liveness takes too long. Three seconds,
two postponements and two late ticks let the count-down pass zero during a call.
A buffer of two characters, a line that fills it and one that overflows it twice
over cover the branches of `received_char`; two ports interleave in it. The ports
are interchangeable and nothing in `serial` is a liveness property, so symmetry is
sound.

Fairness. ExtMemJournal: the mutex holder and `init` go on (nothing blocks them
but the chip, which finishes), a waiting thread gets the mutex or its timeout
expires. RecoveryCompletes is conditional on the power staying on.
FirmwareUpdate: the bootloader, the byzance thread and the connection thread
keep running and the restart ticker fires. The autojump of the command mode is a
timer and belongs to the bootloader's steps. MessagePath: the scheduler runs
every thread that is ready and a wait with a timeout ends. ByzanceCore: the
ticker fires and a thread in `restart` gets to run. Configurator: a thread in a
setter gets to run. Nothing is assumed of Homer, the network, the broker or the
user; QueuedGoesOut, ReceivedIsProcessed and RestartHappens say what may excuse
them.

Four runs state what a comment of the code says and find it violated:

* **backup_lost**: the erase repeated after a reset counts one subsector more
  than the buffer has and erases the first of a valid backup.
* **busy_stuck**: a connection lost during the erase of a subsector leaves the
  buffer busy with nothing in progress, and every restart postponed until another
  upload ends.
* **intmem**: the addresses of sectors 21 to 23 are wrong (`memory_map.h:42`), so
  a firmware that reaches 0x081A0000 is programmed there without an erase.
  `flash_firmware` accepts 496 pages (`BinManager.cpp:1046`) and `fix_build_id`
  gives a factory firmware that size (`BinManager.cpp:607`), which its backup and
  every restore then have.
* **ack_lost**: after a save that failed, a setter called again with the same value
  finds RAM unchanged and answers OK without saving (`Configurator.cpp:407`); the
  next power loss loses the value.

Seen while modelling, without a run of its own:

* With `Env = {"power", "button"}` FirmwareUpdate violates JumpOnlyToWhole: the
  command mode after a reset during flashing jumps to a half-written firmware
  after its timeout, because `bootloader_end` looks at the first word only
  (`bootloader_ioda/main.cpp:626`).
* With `"unruly"` it violates ValidBufferIntact: upload/end without upload, or
  upload/data before the erase is done, make a buffer VALID that holds no
  verified binary (`MQTTCommands.cpp:194`).
* With `"unruly"` it violates SpoiledOnlyWhenInvalid: an announced size or parts
  larger than the buffer erase and overwrite a VALID backup
  (`MQTTCommands.cpp:94`, `BinManager.cpp:789`), and a `set_state` that is refused
  its lock leaves a backup VALID while `update_component` rewrites it
  (`BinManager.cpp:868`).
* Power lost between saving the firmware struct and saving the flags makes the
  bootloader back up the firmware it has just flashed
  (`bootloader_ioda/main.cpp:571`): the backup may then be a firmware that never
  ran.
* A bootloader of 64 KiB or more erases the first sector of the firmware.
* `buffer_check` compares the state byte too, so a duplicate upload is not
  refused; update_start refuses a binary uploaded before the last restart.
* DeviceComesBack needs uploads that are not cut off, because a restart during an
  erase leads to backup_lost and a backup without its first subsector cannot be
  restored into a firmware that starts.
* `_send_sem` does not avoid "allocation faults in mail_box"
  (`ByzanceClient.h:333`): a sender whose wait timed out allocates without a
  permit, and then one with a permit finds no block.
* `subscribe_all` returns -cnt, which is 0 when the first topic fails
  (`ByzanceClient.cpp:380`): the client then says subscribed and sends its
  welcome report without any handler. SubscribedWhileUp holds since a failed
  subscribe also marks the MQTT client as not connected.
* A restart asked for while the ticker runs can shorten a longer count-down
  (`ByzanceCore.cpp:249`), and `restart_postpone` schedules a restart when none
  is pending (`IODA_general.h:515`). With 0 it would start a count-down that
  passes below zero.
* A time offset of -1 reads as erased and is replaced by the default at the next
  start.
* The command line of the bootloader has no protection against its own
  interrupts. "throw msg away if crc is not correct"
  (`bootloader_ioda/main.cpp:122`) holds at the end of a line only: characters
  that arrive before `parse` change the text that was checked, and
  VerifiedUnlessDisturbed without its last condition is violated with one port
  already. A stale store of the main loop can spoil a line that is coming in; a
  line accepted before `data_flag = 0` (main.cpp:764) is dropped; two ports fill
  the buffer with one counter. The terminator of an exactly full line lies one
  past `cmd`.

## Proofs

ExtMemJournalProofs proves for every geometry, every set of threads and every
set of calls that stay in the memory:

* `TypeCorrect`, `NoHalfWrite`, `AlwaysRecoverable`: the three invariants of
  the run journal;
* `SecureWriteIsAtomic`: `Spec => AtomicWrites`, the refinement.

The assumptions are `GeometryAssumption`, `PatchAssumption` and
`JournalAssumption` (markers such as `Torn` differ from data). The invariants
are not inductive: that a page is never torn after recovery depends on the
journal being complete whenever the index is valid. `IInv` says, place by place,
what is complete: while the journal is filled the destination is untouched and
the finished blocks equal the patched subsectors (`FillingInv`); while it is
copied the index is valid, the journal complete, and only covered subsectors
may be torn (`CopyingInv`); when the index is cleared everything has been
copied (`ClearInv`); when the device is off, one of the two holds
(`AtRestInv`). The arithmetic is in `StructCovers`: the structure computed by
`secure_write` covers every page of the call with at most two subsectors. The
refinement follows because `Recovered` changes only when the index is written.

MessagePathProofs proves all seven invariants of the run messages for every size
of the mailboxes, every list of topics, every handler table at least as long,
every capacity of MsgIdBuffer and any finite set of user threads
(`MailAssumption`, `ClientAssumption`, `WorkerAssumption`). `IInv` has one part
per mechanism:

* `SocketInv` adds to ClientHasSocket that the connection thread has a client
  whenever it is past the top of its loop;
* `HandlersInv` gives SubscribedWhileUp: the handler table begins with the topics
  in order, and is short of one only before the first `subscribe_all` of a client
  is through. A full table does no harm since it already has every topic;
* `IdsInv` gives NoRepeat: the list of MsgIdBuffer is the end of the history in
  reverse, so a mid that is not in it is none of the last `IdCapacity`;
* NoBlockLeaks and NoPermitLost count threads by their place in `send_message`.
  `CountMoved` says how a count changes when one thread moves, and `SendCounts`
  what each step of `send_message` does to the sums. An allocation without a
  permit takes a block and leaves the permits alone; one that fails gives up its
  permit, but only when the pool is empty, and then there is nothing to count;
* `WorkInv` and `LoopInv` say what the byzance thread answers and that the loops
  stay in their bounds, which TypeOK needs.

ByzanceCoreProofs proves TypeOK, CountdownArmed and the refinement of
PendingRestart (`CountdownImplements`), for any set of user threads and any bound
(`CoreAssumption`). CountdownArmed says nothing while a call of `restart` is cut
between its comparison and its store; `ArgPositive` carries the proof over that
gap: whichever way such a call ends it leaves a positive count-down. A step maps
to the abstract step of the same meaning or changes neither `pending` nor `busy`.

ConfiguratorProofs proves TypeOK, SavedSurvives (`PromiseKept`) and RamIsSaved for
every set of threads, fields and values (`ConfigAssumption`). Together with the
trace of ack_lost, SavedSurvives says exactly which OK can be relied on. What was
saved must survive the failed save of another field, so the invariant follows a
value from the setter to the flash: who saves holds the lock (`LockInv`), only its
field may differ meanwhile (`SavingInv`), what was answered and is not hollow is in
RAM (`AckedInRam`), so that any later save saves it. A restart loses nothing
because `set_defaults` keeps every set value and is idempotent (`DefaultsKeep`,
`DefaultsIdempotent`).

FirmwareUpdateProofs proves the safety properties of the runs update and
update_unruly for every set of images, every size of an image and of the
partitions, images that do not fit included (`StoreAssumption`: the buffer is
larger than the firmware, the factory image fits and the markers `None`, `Blank`
and `Torn` are not images). What a theorem needs of the environment is its
hypothesis:

* in every environment: `TypeCorrect`, `ErasedBlank`, `SpoilsUnruly`;
* `Polite` (Homer keeps to the procedure): `SpoiledInvalid`, `ValidBuffer`,
  `FlashflagGuards`, `FirstLost`;
* `Polite` and `Unattended` (nobody brings the bootloader into its command mode):
  `JumpToWhole`, `Resumed`.

"Seen while modelling" says how these fail without the hypotheses. The parts of
`IInv` follow them:

* `StageInv`, in every environment, ties the state of a struct to the procedure
  that works on its data, and the counters to their limits: a write to a partition
  finds its struct not VALID, unless connections are lost and the lock was
  refused;
* `ErasingBlank`, in every environment: while an erase is in progress and no part
  has been accepted, the subsectors its index has passed are blank, in the
  application (`_erase_function`) as in the bootloader (`restore_processes`);
* `BinInv`, for a polite Homer, follows an image through the device: what is
  announced fits, and no lock is refused where it matters (`FitInv`), the accepted
  parts are in the buffer and the rest is erased, or the new struct could not be
  saved and nothing is written (`UploadInv`), a VALID buffer and one under
  `flashflag` are complete (`CompleteInv`), a copy equals its source as far as it
  got (`CopyInv`), so a VALID backup or firmware lacks at most a first subsector
  (`BackupInv`, `FirmwareInv`);
* `ResumeInv` is the argument for JumpOnlyToWhole and FlashIsResumed: the firmware
  is whole, or its struct is VALID and the check of the first word sees what it
  lacks, or the flags and the structs make the next start write it again, and
  stay so while it does.

IntMemProofs proves, for every size the code accepts, how far the memory map can
be trusted. `GetSector` shows what the search through the map computes: the
sector of the chip below 0x081A0000 and sector 20 above. Hence
`ProgramsErasedBelowGap`: the pages programmed on erased sectors are exactly those
below 0x081A0000, which is the precise form of what the run intmem finds violated;
and `SparesOther`: erasing for a firmware never costs the bootloader, and erasing
for a bootloader costs the firmware exactly from 64 KiB on.

BootloaderSerialProofs proves TypeOK, VerifiedUnlessDisturbed and WholeLineAccepted
for any lines, any size of the buffer and any number of ports
(`SerialAssumption`). `HeldInv` says that a character held by the main loop never
lands behind the buffer; `Verified` that the text that waits is the one that was
checked as long as nothing disturbed it; `Tracked` what is in the buffer of a line
of which nothing has been lost. The lemmas `CutText`, `CrcFits` and `WholeText` say
what the terminator leaves of the buffer as text.

Only model-checked: liveness, which needs fairness and ENABLED and is out of the
prover's reach (CallsReturn, RecoveryCompletes, DeviceComesBack, EraseEnds,
SendReturns, QueuedGoesOut, ReceivedIsProcessed, RestartHappens, BusyIsTold,
LockReleased). Every invariant, action property and refinement of a passing run
is a theorem. ValidBackupIntact, BusyMeansProcedure, WrittenOnErased and
AckedSurvives are the properties of the violation runs and do not hold.
ErasedBelowGap and OtherPartitionSpared are proved and need no run.

## Not modelled

Most of the files under `src/` are third-party: two copies of mbed-os with the
vendor's register definitions, the USB stack, drivers, fonts and picojson. They
are used through a few calls (flash, mutex, mail, semaphore, ticker, socket) whose
effect is in the modules that call them. Of the own code, these change no state a
property could be about or do so only as input and output: the text formats
(ByzanceParser, ByzanceSerializer, ByzanceJson), the info reports, the web page,
LEDs, logging and console, the set-up of network and peripherals, the radio
driver and the border router. `Byzance::disconnect`, `client_clear_buffer` with
MqttBuffer, and Connector are called by nothing that runs in the modelled
histories. The update of the bootloader by `update_component` has no protection
against resets; only its addresses are checked (IntMem).

## Plan

1. ExtMemJournal with AtomicStore: done, proved.
2. FirmwareStore, Bootloader, Application, FirmwareUpdate: done, proved.
3. IntMem: done, proved.
4. MqttMails, ByzanceClient, ByzanceWorker, MessagePath: done, proved.
5. ByzanceCore with PendingRestart, Configurator: done, proved.
6. BootloaderSerial: done, proved.
7. To come: an action property of the update that says when a complete backup
   may be given up; the exact damage of the repeated erase (which image loses its
   first subsector, and when) as a theorem in place of the violation run's single
   trace; leading blanks and arguments in BootloaderSerial.
