---------------------------- MODULE ExtMemJournal ----------------------------
(***************************************************************************)
(* ExtMem::secure_write, _handle_journal, _empty_journal and the journal   *)
(* recovery of ExtMem::init, one step per erase or page program of the     *)
(* flash chip, with a power loss possible between and inside these steps.  *)
(*                                                                         *)
(* Threads share ExtMem under its recursive mutex.  The holder runs        *)
(*                                                                         *)
(*   fill, j_erase, j_program  copy each touched subsector, patched, into  *)
(*                             EXTPART_SECURE_JOURNAL                      *)
(*   x_erase, x_program        write {blocks, dest_addr} to                *)
(*                             EXTPART_SECURE_INDEX                        *)
(*   copy, d_erase, d_program  _handle_journal: journal to destination     *)
(*   clear                     _empty_journal                              *)
(*                                                                         *)
(* and init after a power-up runs _handle_journal on the index it reads.   *)
(***************************************************************************)
EXTENDS FlashGeometry

CONSTANTS
    Threads,    \* callers of secure_write
    NoCall,     \* no call is running
    Nobody,     \* the mutex is free, or init runs before the threads do
    Torn,       \* a page whose erase or program was interrupted
    Unset,      \* an index word that reads 0xFFFFFFFF
    Rejected    \* an index word the checks of _handle_journal refuse:
                \* blocks > 2, dest_addr > EXTMEM_SIZEOF

ASSUME JournalAssumption ==
    /\ NoCall \notin Patch
    /\ Nobody \notin Threads
    /\ Torn \notin Content
    /\ Unset \notin Int
    /\ Rejected \notin Int
    /\ Unset # Rejected

VARIABLES
    dest,       \* the subsectors secure_write is used on
    journal,    \* EXTPART_SECURE_JOURNAL, two subsectors
    index,      \* EXTPART_SECURE_INDEX, a struct_journal
    buffer,     \* _subsector_buffer
    jstruct,    \* the struct_journal on the stack of init or secure_write
    i,          \* the loop over blocks
    j,          \* the loop over the pages of a block, in write_data
    pc,         \* the next step of the mutex holder or of init
    owner,      \* the thread that holds the mutex
    call,       \* the running call of each thread
    ret         \* what the last call of each thread returned

flash == <<dest, journal, index>>
ram == <<buffer, jstruct, i, j>>
vars == <<flash, ram, pc, owner, call, ret>>

Block == {0, 1}

Page == Content \cup {Torn}

Erased == [m \in PageNo |-> Blank]

EmptyIndex == [blocks |-> Unset, dest_addr |-> Unset]

Pcs == {"off", "idle", "fill", "j_erase", "j_program", "x_erase", "x_program",
        "copy", "d_erase", "d_program", "clear"}

\* The flash and the RAM of a device that has been switched off.
RamLost ==
    /\ buffer' = Erased
    /\ jstruct' = EmptyIndex
    /\ i' = 0
    /\ j' = 0

-----------------------------------------------------------------------------
(* The address arithmetic of secure_write.                                 *)

calculate_subsector_index(page) == page \div PagesPerSubsector

\* The number of subsectors the pages from first to last touch, as computed
\* by secure_write and write_data.
Blocks(first, last) ==
    calculate_subsector_index(last + 1) - calculate_subsector_index(first)
        + (IF (last + 1) % PagesPerSubsector # 0 THEN 1 ELSE 0)

\* The struct_journal of a call. dest_addr is in subsectors.
JournalOf(p) ==
    [blocks |-> Blocks(First(p), Last(p)),
     dest_addr |-> calculate_subsector_index(First(p))]

Size(p) == Last(p) - First(p) + 1

-----------------------------------------------------------------------------
Init ==
    /\ dest \in [Subsector -> [PageNo -> Content]]
    /\ journal = [b \in Block |-> Erased]
    /\ index = EmptyIndex
    /\ buffer = Erased
    /\ jstruct = EmptyIndex
    /\ i = 0
    /\ j = 0
    /\ pc = "off"
    /\ owner = Nobody
    /\ call = [t \in Threads |-> NoCall]
    /\ ret = [t \in Threads |-> "none"]

\* A thread calls secure_write and waits for the mutex. Threads start after
\* ExtMem::init has returned.
Call(t) ==
    /\ pc = "idle" \/ owner # Nobody
    /\ call[t] = NoCall
    /\ \E p \in Patch : call' = [call EXCEPT ![t] = p]
    /\ ret' = [ret EXCEPT ![t] = "none"]
    /\ UNCHANGED <<flash, ram, pc, owner>>

Return(t, code) ==
    /\ call' = [call EXCEPT ![t] = NoCall]
    /\ ret' = [ret EXCEPT ![t] = code]

\* EXTMEM_MUTEX_LOCK gives up after EXTMEM_MUTEX_TIMEOUT.
LockTimeout(t) ==
    /\ pc # "idle"
    /\ call[t] # NoCall
    /\ owner # t
    /\ Return(t, "TIMEOUT")
    /\ UNCHANGED <<flash, ram, pc, owner>>

\* More data than a subsector: EXTMEM_OVERLAP.
RefuseOverlap(t) ==
    /\ pc = "idle"
    /\ call[t] # NoCall
    /\ Size(call[t]) > PagesPerSubsector
    /\ Return(t, "OVERLAP")
    /\ UNCHANGED <<flash, ram, pc, owner>>

\* secure_write has the mutex and computes the journal structure.
Begin(t) ==
    /\ pc = "idle"
    /\ call[t] # NoCall
    /\ Size(call[t]) <= PagesPerSubsector
    /\ owner' = t
    /\ jstruct' = JournalOf(call[t])
    /\ i' = 0
    /\ pc' = "fill"
    /\ UNCHANGED <<flash, buffer, j, call, ret>>

\* Variant: the second block takes none of the new data.
FillFirstBlockOnly ==
    /\ pc = "fill"
    /\ LET s == jstruct.dest_addr + i IN
           buffer' = IF i = 0 THEN Patched(s, dest[s], call[owner]) ELSE dest[s]
    /\ pc' = "j_erase"
    /\ UNCHANGED <<flash, jstruct, i, j, owner, call, ret>>

\* Read the subsector into _subsector_buffer and put the new data in.
Fill ==
    /\ pc = "fill"
    /\ LET s == jstruct.dest_addr + i IN
           buffer' = Patched(s, dest[s], call[owner])
    /\ pc' = "j_erase"
    /\ UNCHANGED <<flash, jstruct, i, j, owner, call, ret>>

\* write_data of a whole subsector to the journal: erase, then the pages.
EraseJournal ==
    /\ pc = "j_erase"
    /\ journal' = [journal EXCEPT ![i] = Erased]
    /\ j' = 0
    /\ pc' = "j_program"
    /\ UNCHANGED <<dest, index, buffer, jstruct, i, owner, call, ret>>

\* Variant: the page counter is not reset for the next block.
NextPageNoReset(again, after) ==
    LET lastPage == j + 1 = PagesPerSubsector IN
    /\ j' = j + 1
    /\ i' = IF lastPage THEN i + 1 ELSE i
    /\ pc' = IF ~ lastPage THEN pc
             ELSE IF i + 1 < jstruct.blocks THEN again ELSE after

\* The end of one round of the loop over pages; the loop over blocks goes on
\* at again, and when all blocks are done the code continues at after.
NextPage(again, after) ==
    LET lastPage == j + 1 = PagesPerSubsector IN
    /\ j' = IF lastPage THEN 0 ELSE j + 1
    /\ i' = IF lastPage THEN i + 1 ELSE i
    /\ pc' = IF ~ lastPage THEN pc
             ELSE IF i + 1 < jstruct.blocks THEN again ELSE after

ProgramJournal ==
    /\ pc = "j_program"
    /\ journal' = [journal EXCEPT ![i] = [@ EXCEPT ![j] = buffer[j]]]
    /\ NextPage("fill", "x_erase")
    /\ UNCHANGED <<dest, index, buffer, jstruct, owner, call, ret>>

EraseIndex ==
    /\ pc = "x_erase"
    /\ index' = EmptyIndex
    /\ pc' = "x_program"
    /\ UNCHANGED <<dest, journal, ram, owner, call, ret>>

\* Where _handle_journal goes on for the struct_journal js: to the end, to
\* _empty_journal or to the copying.
HandleJournal(js) ==
    CASE js.blocks = Unset \/ js.dest_addr = Unset -> "idle"
      [] js.blocks # Unset /\ js.dest_addr # Unset
            /\ (js.blocks = Rejected \/ js.dest_addr = Rejected) -> "clear"
      [] OTHER -> "copy"

ProgramIndex ==
    /\ pc = "x_program"
    /\ index' = jstruct
    /\ i' = 0
    /\ pc' = HandleJournal(jstruct)
    /\ UNCHANGED <<dest, journal, buffer, jstruct, j, owner, call, ret>>

\* Variant: the index is emptied before the journal has been copied.
CopyBlockIndexEmptied ==
    /\ pc = "copy"
    /\ buffer' = journal[i]
    /\ index' = EmptyIndex
    /\ pc' = "d_erase"
    /\ UNCHANGED <<dest, journal, jstruct, i, j, owner, call, ret>>

CopyBlock ==
    /\ pc = "copy"
    /\ buffer' = journal[i]
    /\ pc' = "d_erase"
    /\ UNCHANGED <<flash, jstruct, i, j, owner, call, ret>>

EraseDest ==
    /\ pc = "d_erase"
    /\ dest' = [dest EXCEPT ![jstruct.dest_addr + i] = Erased]
    /\ j' = 0
    /\ pc' = "d_program"
    /\ UNCHANGED <<journal, index, buffer, jstruct, i, owner, call, ret>>

ProgramDest ==
    /\ pc = "d_program"
    /\ dest' = [dest EXCEPT ![jstruct.dest_addr + i] = [@ EXCEPT ![j] = buffer[j]]]
    /\ NextPage("copy", "clear")
    /\ UNCHANGED <<journal, index, buffer, jstruct, owner, call, ret>>

\* Variant: secure_write starts over instead of returning.
EmptyJournalNoReturn ==
    /\ pc = "clear"
    /\ index' = EmptyIndex
    /\ jstruct' = EmptyIndex
    /\ pc' = "idle"
    /\ owner' = Nobody
    /\ UNCHANGED <<dest, journal, buffer, i, j, call, ret>>

\* _empty_journal: the structure of 0xFF needs only the erase, the page is
\* skipped. Then init goes on, or secure_write returns EXTMEM_OK.
EmptyJournal ==
    /\ pc = "clear"
    /\ index' = EmptyIndex
    /\ jstruct' = EmptyIndex
    /\ pc' = "idle"
    /\ owner' = Nobody
    /\ IF owner = Nobody THEN UNCHANGED <<call, ret>> ELSE Return(owner, "OK")
    /\ UNCHANGED <<dest, journal, buffer, i, j>>

\* Variants: init does not look at the journal, or gives up on what it finds.
BootIgnoresJournal ==
    /\ pc = "off"
    /\ jstruct' = index
    /\ i' = 0
    /\ pc' = "idle"
    /\ UNCHANGED <<flash, buffer, j, owner, call, ret>>

BootGivesUp ==
    /\ pc = "off"
    /\ jstruct' = index
    /\ i' = 0
    /\ pc' = IF HandleJournal(index) = "idle" THEN "idle" ELSE "off"
    /\ UNCHANGED <<flash, buffer, j, owner, call, ret>>

\* ExtMem::init reads the index and handles what it finds.
Boot ==
    /\ pc = "off"
    /\ jstruct' = index
    /\ i' = 0
    /\ pc' = HandleJournal(index)
    /\ UNCHANGED <<flash, buffer, j, owner, call, ret>>

-----------------------------------------------------------------------------
(* Power loss. An interrupted erase leaves each page as it was, erased or  *)
(* torn; an interrupted program leaves its page torn. The index words are  *)
(* sent blocks first and little-endian, so an interrupted program leaves   *)
(* a word unset or with its high byte still 0xFF, which the checks refuse. *)

TornSubsector(s) == {u \in [PageNo -> Page] : \A m \in PageNo : u[m] \in {s[m], Blank, Torn}}

TornErase(w) == IF w = Unset THEN {Unset} ELSE {w, Unset, Rejected}

TornProgram(js) ==
    {[blocks |-> Rejected, dest_addr |-> Unset],
     [blocks |-> js.blocks, dest_addr |-> Unset],
     [blocks |-> js.blocks, dest_addr |-> Rejected]}

\* What the interrupted step of the flash chip leaves behind.
Interrupted ==
    \/ UNCHANGED flash
    \/ /\ pc = "j_erase"
       /\ \E u \in TornSubsector(journal[i]) : journal' = [journal EXCEPT ![i] = u]
       /\ UNCHANGED <<dest, index>>
    \/ /\ pc = "j_program"
       /\ journal' = [journal EXCEPT ![i] = [@ EXCEPT ![j] = Torn]]
       /\ UNCHANGED <<dest, index>>
    \/ /\ pc \in {"x_erase", "clear"}
       /\ \E b \in TornErase(index.blocks), d \in TornErase(index.dest_addr) :
              index' = [blocks |-> b, dest_addr |-> d]
       /\ UNCHANGED <<dest, journal>>
    \/ /\ pc = "x_program"
       /\ index' \in TornProgram(jstruct)
       /\ UNCHANGED <<dest, journal>>
    \/ /\ pc = "d_erase"
       /\ LET s == jstruct.dest_addr + i IN
              \E u \in TornSubsector(dest[s]) : dest' = [dest EXCEPT ![s] = u]
       /\ UNCHANGED <<journal, index>>
    \/ /\ pc = "d_program"
       /\ dest' = [dest EXCEPT ![jstruct.dest_addr + i] = [@ EXCEPT ![j] = Torn]]
       /\ UNCHANGED <<journal, index>>

PowerLoss ==
    /\ pc # "off"
    /\ Interrupted
    /\ RamLost
    /\ pc' = "off"
    /\ owner' = Nobody
    /\ call' = [t \in Threads |-> NoCall]
    /\ ret' = [t \in Threads |-> "none"]

HolderStep ==
    \/ Fill \/ EraseJournal \/ ProgramJournal
    \/ EraseIndex \/ ProgramIndex
    \/ CopyBlock \/ EraseDest \/ ProgramDest \/ EmptyJournal

Next ==
    \/ \E t \in Threads : Call(t) \/ LockTimeout(t) \/ RefuseOverlap(t) \/ Begin(t)
    \/ HolderStep
    \/ Boot
    \/ PowerLoss

Spec == Init /\ [][Next]_vars

\* The chip finishes what it is told, the mutex holder is not blocked by
\* anything else, a waiting thread gets the mutex or times out, and a device
\* that is off is switched on again.
Fairness ==
    /\ WF_vars(HolderStep)
    /\ WF_vars(Boot)
    /\ \A t \in Threads : WF_vars(LockTimeout(t) \/ RefuseOverlap(t) \/ Begin(t))

FairSpec == Spec /\ Fairness

-----------------------------------------------------------------------------
(* Properties.                                                             *)

\* The state of ExtMem: every word, page and counter is in its range.
TypeOK ==
    /\ dest \in [Subsector -> [PageNo -> Page]]
    /\ journal \in [Block -> [PageNo -> Page]]
    /\ index \in [blocks : Int \cup {Unset, Rejected},
                 dest_addr : Int \cup {Unset, Rejected}]
    /\ buffer \in [PageNo -> Page]
    /\ jstruct \in [blocks : Int \cup {Unset, Rejected},
                   dest_addr : Int \cup {Unset, Rejected}]
    /\ i \in 0 .. 2
    /\ j \in PageNo
    /\ pc \in Pcs
    /\ owner \in Threads \cup {Nobody}
    /\ call \in [Threads -> Patch \cup {NoCall}]
    /\ ret \in [Threads -> {"none", "OK", "OVERLAP", "TIMEOUT"}]

\* The index names a transaction that _handle_journal will copy.
Pending == index.blocks \in Int /\ index.dest_addr \in Int

\* The contents the memory has once init has run: with a pending transaction
\* the subsectors it covers are taken from the journal.
Recovered ==
    [s \in Subsector |->
        IF Pending /\ s - index.dest_addr \in 0 .. index.blocks - 1
        THEN journal[s - index.dest_addr] ELSE dest[s]]

\* The call of the mutex holder has reached the index: it can no longer be
\* lost.
Committed(t) == owner = t /\ pc \in {"copy", "d_erase", "d_program", "clear"}

Store == INSTANCE AtomicStore WITH
    store <- Recovered, done <- [t \in Threads |-> Committed(t)]

\* secure_write as seen through the recovery of init is the indivisible
\* store of AtomicStore, whatever the interleaving of the callers and
\* wherever the power fails.
AtomicWrites == Store!Spec

\* Whoever gets the mutex (a read_data of another thread, the next
\* secure_write, the rest of the start-up) finds no transaction half done:
\* nothing is pending and no page was torn by a power loss.
NoHalfWriteVisible ==
    pc = "idle" => /\ ~ Pending
                   /\ \A s \in Subsector, m \in PageNo : dest[s][m] # Torn

\* What recovery would restore is never garbage: while a transaction is
\* pending, the journal blocks it needs are complete even if the destination
\* is torn, and while none is, the destination is complete.
RecoverableAlways ==
    \A s \in Subsector, m \in PageNo : Recovered[s][m] # Torn

\* Every call returns, or the power fails.
CallsReturn == \A t \in Threads : call[t] # NoCall ~> call[t] = NoCall

\* If the power stays on from some time on, start-up gets through the journal
\* recovery.
RecoveryCompletes == <>[][pc' # "off"]_pc => (pc = "off" ~> pc = "idle")

-----------------------------------------------------------------------------
(* The inductive invariant behind the properties.                          *)

Clean(subsector) == \A m \in PageNo : subsector[m] # Torn

DestClean == \A s \in Subsector : Clean(dest[s])

Covers(js, s) == s - js.dest_addr \in 0 .. js.blocks - 1

\* A transaction that the two journal subsectors can hold and that stays in
\* the memory.
ValidStruct(js) ==
    /\ js.blocks \in 1 .. 2
    /\ js.dest_addr \in Subsector
    /\ js.dest_addr + js.blocks <= Subsectors

\* The journal holds the whole of a pending transaction, and what it does not
\* cover is complete in the destination.
JournalComplete(js) ==
    /\ \A k \in Block : k < js.blocks => Clean(journal[k])
    /\ \A s \in Subsector : ~ Covers(js, s) => Clean(dest[s])

OwnerInv ==
    /\ owner # Nobody => owner \in Threads /\ call[owner] \in Patch
    /\ pc \in {"off", "idle"} => owner = Nobody
    /\ pc = "off" => call = [t \in Threads |-> NoCall]

AtRestInv ==
    /\ pc = "idle" => ~ Pending /\ DestClean
    /\ pc = "off" /\ ~ Pending => DestClean
    /\ pc = "off" /\ Pending => ValidStruct(index) /\ JournalComplete(index)

\* Block k of the journal is the patched destination subsector.
FilledBlock(k) ==
    LET s == jstruct.dest_addr + k IN
    journal[k] = Patched(s, dest[s], call[owner])

FillingInv ==
    pc \in {"fill", "j_erase", "j_program", "x_erase", "x_program"} =>
        /\ owner \in Threads
        /\ Size(call[owner]) <= PagesPerSubsector
        /\ jstruct = JournalOf(call[owner])
        /\ ~ Pending
        /\ DestClean
        /\ IF pc \in {"x_erase", "x_program"} THEN i = jstruct.blocks
                                             ELSE i < jstruct.blocks
        /\ \A k \in Block : k < i => FilledBlock(k)
        /\ pc \in {"j_erase", "j_program"} =>
               LET s == jstruct.dest_addr + i IN
               buffer = Patched(s, dest[s], call[owner])
        /\ pc = "j_program" => \A m \in PageNo : m < j => journal[i][m] = buffer[m]

CopiedBlock(k) == dest[jstruct.dest_addr + k] = journal[k]

CopyingInv ==
    pc \in {"copy", "d_erase", "d_program"} =>
        /\ index = jstruct
        /\ ValidStruct(jstruct)
        /\ JournalComplete(jstruct)
        /\ i < jstruct.blocks
        /\ \A k \in Block : k < i => CopiedBlock(k)
        /\ pc \in {"d_erase", "d_program"} => buffer = journal[i]
        /\ pc = "d_program" =>
               \A m \in PageNo : m < j => dest[jstruct.dest_addr + i][m] = buffer[m]

ClearInv ==
    pc = "clear" =>
        /\ DestClean
        /\ index = jstruct
        /\ owner # Nobody => Pending
        /\ Pending => /\ ValidStruct(jstruct)
                      /\ \A k \in Block : k < jstruct.blocks => CopiedBlock(k)

IInv == TypeOK /\ OwnerInv /\ AtRestInv /\ FillingInv /\ CopyingInv /\ ClearInv
=============================================================================
