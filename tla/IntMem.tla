------------------------------- MODULE IntMem -------------------------------
(***************************************************************************)
(* IntMem: the MCU flash as flash_firmware and update_component use it.    *)
(* A partition is erased by sectors, which get_sector finds in the map of  *)
(* memory_map.h, and then programmed page by page without another erase.   *)
(*                                                                         *)
(* Addresses count 4 KiB (ADDR_FLASH_DEVICE_PAGE_SIZE and                  *)
(* SPIFLASH_SUBSECTOR_SIZE) from INTMEM_BEGIN.                             *)
(***************************************************************************)
EXTENDS Integers, Sequences

FLASH_SECTORS == 24

\* get_map: the addresses of ADDR_FLASH_SECTOR_0 to _23 as defined, the last
\* three being 0x08A00000, 0x08C00000 and 0x08E00000.
get_map ==
    <<0, 4, 8, 12, 16, 32, 64, 96, 128, 160, 192, 224,
      256, 260, 264, 268, 272, 288, 320, 352, 384, 2560, 3072, 3584>>

\* The sectors of the chip, by the sizes in the comments of memory_map.h: each
\* bank has four sectors of 16, one of 64 and seven of 128 Kbyte.
BankSector(p) ==
    IF p < 16 THEN p \div 4 ELSE IF p < 32 THEN 4 ELSE 4 + p \div 32

ChipSector(p) == IF p < 256 THEN BankSector(p) ELSE 12 + BankSector(p - 256)

INTPART_BOOTLOADER == 0
INTPART_FIRMWARE == 16
INTMEM_SIZEOF == 512

Partition == {"firmware", "bootloader"}

Begin(p) == IF p = "firmware" THEN INTPART_FIRMWARE ELSE INTPART_BOOTLOADER

\* The sizes that are accepted: flash_firmware refuses a binary larger than its
\* partition, update_component none; write_data refuses what ends beyond the
\* memory.
Sizes(p) ==
    IF p = "firmware" THEN 1 .. INTMEM_SIZEOF - INTPART_FIRMWARE ELSE 1 .. INTMEM_SIZEOF

\* The search through the map; sector 0 when the address is in none.
get_sector(address) ==
    LET found == {k \in 0 .. FLASH_SECTORS - 2 :
                     get_map[k + 1] <= address /\ address < get_map[k + 2]} IN
    IF found = {} THEN 0 ELSE CHOOSE k \in found : TRUE

\* NbSectors of the erase from address first to address end.
SectorCount(first, end) == get_sector(end) - get_sector(first) + 1

VARIABLES
    target,     \* the partition that is written, or "none"
    size,       \* the size of its new binary
    written,    \* pages programmed so far
    erased      \* sectors that have been erased for it

vars == <<target, size, written, erased>>

Init == target = "none" /\ size = 0 /\ written = 0 /\ erased = {}

\* IntMem::erase(begin, begin + size); the HAL erases NbSectors from Sector.
Erase(p) ==
    /\ target = "none"
    /\ target' = p
    /\ size' \in Sizes(p)
    /\ written' = 0
    /\ LET first == get_sector(Begin(p)) IN
       erased' = first .. first + SectorCount(Begin(p), Begin(p) + size') - 1

\* IntMem::write_data of one page with erase = 0.
WritePage ==
    /\ target # "none"
    /\ written < size
    /\ written' = written + 1
    /\ UNCHANGED <<target, size, erased>>

Done ==
    /\ target # "none"
    /\ written = size
    /\ target' = "none"
    /\ size' = 0
    /\ written' = 0
    /\ erased' = {}

Next == (\E p \in Partition : Erase(p)) \/ WritePage \/ Done

Spec == Init /\ [][Next]_vars

-----------------------------------------------------------------------------
(* Properties.                                                             *)

\* Every page write_data programs lies in a sector erase has erased, so that
\* the page holds what was written: what the comments of the map promise, which
\* give sector 21 a base right after the 128 Kbyte of sector 20.
WrittenOnErased ==
    target # "none" =>
        \A k \in 0 .. written - 1 : ChipSector(Begin(target) + k) \in erased

\* The pages that are programmed on erased sectors are exactly those below
\* 0x081A0000, the end of sector 20, whatever the size of the binary: get_sector
\* takes every later address for sector 20.
ErasedBelowGap ==
    target # "none" =>
        \A k \in 0 .. written - 1 :
            ChipSector(Begin(target) + k) \in erased <=> Begin(target) + k < 416

\* Erasing for a firmware never costs the bootloader; update_component costs the
\* firmware its first sector exactly when the new bootloader fills its partition
\* or is larger, the end of the erase then being an address of the firmware.
OtherPartitionSpared ==
    /\ target = "firmware" =>
           \A k \in INTPART_BOOTLOADER .. INTPART_FIRMWARE - 1 : ChipSector(k) \notin erased
    /\ target = "bootloader" =>
           (ChipSector(INTPART_FIRMWARE) \in erased <=> size >= INTPART_FIRMWARE)
=============================================================================
