----------------------------- MODULE IntMemProofs -----------------------------
(* Proofs about IntMem, for every size that is accepted.                   *)
EXTENDS IntMem, TLAPS

-----------------------------------------------------------------------------
(* The sectors.                                                            *)

LEMMA Map ==
    /\ get_map[1] = 0 /\ get_map[2] = 4 /\ get_map[3] = 8 /\ get_map[4] = 12
    /\ get_map[5] = 16 /\ get_map[6] = 32 /\ get_map[7] = 64 /\ get_map[8] = 96
    /\ get_map[9] = 128 /\ get_map[10] = 160 /\ get_map[11] = 192 /\ get_map[12] = 224
    /\ get_map[13] = 256 /\ get_map[14] = 260 /\ get_map[15] = 264 /\ get_map[16] = 268
    /\ get_map[17] = 272 /\ get_map[18] = 288 /\ get_map[19] = 320 /\ get_map[20] = 352
    /\ get_map[21] = 384 /\ get_map[22] = 2560 /\ get_map[23] = 3072 /\ get_map[24] = 3584
  BY DEF get_map

\* The map has address a in sector k.
Holds(k, a) == get_map[k + 1] <= a /\ a < get_map[k + 2]

\* The sector in which the map has an address of the chip.
MapSector(a) == IF a < 416 THEN ChipSector(a) ELSE 20

LEMMA MapSectorRange ==
    ASSUME NEW a \in 0 .. INTMEM_SIZEOF
    PROVE  MapSector(a) \in 0 .. 20
  BY DEF MapSector, ChipSector, BankSector, INTMEM_SIZEOF

LEMMA HoldsOne ==
    ASSUME NEW a \in 0 .. INTMEM_SIZEOF, NEW k \in 0 .. FLASH_SECTORS - 2
    PROVE  Holds(k, a) <=> k = MapSector(a)
  <1> USE DEF Holds, MapSector, ChipSector, BankSector, INTMEM_SIZEOF
  <1>1. CASE k = 0 \/ k = 1 \/ k = 2 \/ k = 3
    BY <1>1, Map
  <1>2. CASE k = 4 \/ k = 5 \/ k = 6 \/ k = 7
    BY <1>2, Map
  <1>3. CASE k = 8 \/ k = 9 \/ k = 10 \/ k = 11
    BY <1>3, Map
  <1>4. CASE k = 12 \/ k = 13 \/ k = 14 \/ k = 15
    BY <1>4, Map
  <1>5. CASE k = 16 \/ k = 17 \/ k = 18 \/ k = 19
    BY <1>5, Map
  <1>6. CASE k = 20 \/ k = 21 \/ k = 22
    BY <1>6, Map
  <1> QED BY <1>1, <1>2, <1>3, <1>4, <1>5, <1>6 DEF FLASH_SECTORS

\* get_sector finds the sector of the chip below 0x081A0000, and sector 20 for
\* every later address.
LEMMA GetSector ==
    ASSUME NEW a \in 0 .. INTMEM_SIZEOF
    PROVE  get_sector(a) = MapSector(a)
  <1> DEFINE found == {k \in 0 .. FLASH_SECTORS - 2 :
                          get_map[k + 1] <= a /\ a < get_map[k + 2]}
  <1>1. MapSector(a) \in 0 .. FLASH_SECTORS - 2
    BY MapSectorRange DEF FLASH_SECTORS
  <1>2. found = {MapSector(a)}
    BY <1>1, HoldsOne DEF Holds
  <1>3. get_sector(a) = IF found = {} THEN 0 ELSE CHOOSE k \in found : TRUE
    BY DEF get_sector
  <1> HIDE DEF found
  <1>4. (CHOOSE k \in found : TRUE) \in found
    BY <1>2
  <1> QED BY <1>2, <1>3, <1>4

\* The sectors of the chip follow one another.
LEMMA SectorsAscend ==
    ASSUME NEW p \in 0 .. INTMEM_SIZEOF - 1, NEW q \in 0 .. INTMEM_SIZEOF - 1, p <= q
    PROVE  ChipSector(p) <= ChipSector(q) /\ ChipSector(p) \in 0 .. 23
  BY DEF ChipSector, BankSector, INTMEM_SIZEOF

-----------------------------------------------------------------------------
(* The invariant.                                                          *)

\* The sectors from that of the begin to that of the end are erased.
ErasedFor(p, s) == erased = MapSector(Begin(p)) .. MapSector(Begin(p) + s)

IInv ==
    /\ target \in Partition \cup {"none"}
    /\ target # "none" =>
           /\ size \in Sizes(target)
           /\ written \in 0 .. size
           /\ ErasedFor(target, size)

LEMMA Ends ==
    ASSUME NEW p \in Partition, NEW s \in Sizes(p)
    PROVE  Begin(p) \in 0 .. INTMEM_SIZEOF /\ Begin(p) + s \in 0 .. INTMEM_SIZEOF /\ s \in Nat
  BY DEF Partition, Begin, Sizes, INTMEM_SIZEOF, INTPART_FIRMWARE, INTPART_BOOTLOADER

LEMMA EraseStep ==
    ASSUME NEW p \in Partition, Erase(p)
    PROVE  IInv'
  <1>1. PICK s \in Sizes(p) : size' = s
    BY DEF Erase
  <1>2. /\ get_sector(Begin(p)) = MapSector(Begin(p))
        /\ get_sector(Begin(p) + s) = MapSector(Begin(p) + s)
        /\ MapSector(Begin(p)) \in Int /\ MapSector(Begin(p) + s) \in Int
    BY Ends, GetSector, MapSectorRange
  <1>3. erased' = MapSector(Begin(p)) .. MapSector(Begin(p))
                      + (MapSector(Begin(p) + s) - MapSector(Begin(p)) + 1) - 1
    BY <1>1, <1>2 DEF Erase, SectorCount
  <1>4. erased' = MapSector(Begin(p)) .. MapSector(Begin(p) + s)
    BY <1>2, <1>3
  <1>5. target' = p /\ written' = 0 /\ 0 \in 0 .. s
    BY <1>1, Ends DEF Erase
  <1>6. p # "none"
    BY DEF Partition
  <1> QED BY <1>1, <1>4, <1>5, <1>6 DEF IInv, ErasedFor

LEMMA Inductive == IInv /\ [Next]_vars => IInv'
  <1> SUFFICES ASSUME IInv, [Next]_vars PROVE IInv'
    OBVIOUS
  <1>1. CASE \E p \in Partition : Erase(p)
    BY <1>1, EraseStep
  <1>2. CASE WritePage
    <2>1. target \in Partition /\ size \in Sizes(target) /\ written \in 0 .. size
      BY <1>2 DEF WritePage, IInv
    <2>2. size \in Nat
      BY <2>1, Ends
    <2>3. written + 1 \in 0 .. size
      BY <1>2, <2>1, <2>2 DEF WritePage
    <2> QED BY <1>2, <2>3 DEF WritePage, IInv, ErasedFor
  <1>3. CASE Done
    BY <1>3 DEF Done, IInv
  <1>4. CASE UNCHANGED vars
    BY <1>4 DEF vars, IInv, ErasedFor
  <1> QED BY <1>1, <1>2, <1>3, <1>4 DEF Next

\* erase leaves exactly the sectors between its two addresses erased until the
\* last page has been programmed.
THEOREM Invariance == Spec => []IInv
  <1>1. Init => IInv
    BY DEF Init, IInv
  <1> QED BY <1>1, Inductive, PTL DEF Spec

\* For every size flash_firmware and update_component accept, write_data
\* programs erased sectors below 0x081A0000 and sectors erase has left out from
\* there on: get_sector is right about the former addresses and wrong about all
\* the latter, where the map of memory_map.h goes on with sector 20.
THEOREM ProgramsErasedBelowGap == Spec => []ErasedBelowGap
  <1>1. IInv => ErasedBelowGap
    <2> SUFFICES ASSUME IInv, target # "none", NEW k \in 0 .. written - 1
                 PROVE  ChipSector(Begin(target) + k) \in erased <=> Begin(target) + k < 416
      BY DEF ErasedBelowGap
    <2>1. /\ target \in Partition /\ size \in Sizes(target) /\ written \in 0 .. size
          /\ ErasedFor(target, size)
      BY DEF IInv
    <2> DEFINE b == Begin(target)
    <2>2. /\ k \in Nat /\ size \in Nat /\ k < size /\ b \in {0, 16}
          /\ b + size \in 0 .. INTMEM_SIZEOF
      BY <2>1, Ends DEF Begin, INTPART_FIRMWARE, INTPART_BOOTLOADER
    <2> HIDE DEF b
    <2>3. /\ b \in 0 .. INTMEM_SIZEOF - 1 /\ b + k \in 0 .. INTMEM_SIZEOF - 1
          /\ b <= b + k
      BY <2>2 DEF INTMEM_SIZEOF
    <2>4. ChipSector(b) <= ChipSector(b + k) /\ ChipSector(b) \in 0 .. 23
      BY <2>3, SectorsAscend
    <2>5. MapSector(b) = ChipSector(b)
      BY <2>2 DEF MapSector
    <2>6. MapSector(b + size) \in 0 .. 20
      BY <2>2, MapSectorRange
    <2>7. CASE b + k < 416
      <3>1. ChipSector(b + k) <= MapSector(b + size) /\ ChipSector(b + k) \in 0 .. 20
        <4>1. CASE b + size < 416
          <5>1. b + size \in 0 .. INTMEM_SIZEOF - 1 /\ b + k <= b + size
            BY <2>2, <4>1 DEF INTMEM_SIZEOF
          <5>2. ChipSector(b + k) <= ChipSector(b + size) /\ ChipSector(b + k) \in 0 .. 23
            BY <2>3, <5>1, SectorsAscend
          <5> QED BY <2>6, <4>1, <5>2 DEF MapSector
        <4>2. CASE b + size >= 416
          <5>1. ChipSector(b + k) \in 0 .. 20
            BY <2>3, <2>7 DEF ChipSector, BankSector, INTMEM_SIZEOF
          <5> QED BY <2>2, <4>2, <5>1 DEF MapSector
        <4> QED BY <2>2, <4>1, <4>2 DEF INTMEM_SIZEOF
      <3>2. ChipSector(b + k) \in MapSector(b) .. MapSector(b + size)
        BY <2>4, <2>5, <2>6, <3>1
      <3> QED BY <2>1, <2>7, <3>2 DEF ErasedFor, b
    <2>8. CASE b + k >= 416
      <3>1. ChipSector(b + k) >= 21 /\ ChipSector(b + k) \in Int
        BY <2>3, <2>8 DEF ChipSector, BankSector, INTMEM_SIZEOF
      <3>2. ChipSector(b + k) \notin MapSector(b) .. MapSector(b + size)
        BY <2>4, <2>5, <2>6, <3>1
      <3>3. ~ (b + k < 416)
        BY <2>2, <2>8
      <3> QED BY <2>1, <3>2, <3>3 DEF ErasedFor, b
    <2> QED BY <2>2, <2>7, <2>8
  <1> QED BY Invariance, <1>1, PTL

\* Flashing a firmware of any accepted size spares the bootloader, and
\* update_component erases the begin of the firmware exactly when the new
\* bootloader has at least the size of its partition.
THEOREM SparesOther == Spec => []OtherPartitionSpared
  <1>1. IInv => OtherPartitionSpared
    <2> SUFFICES ASSUME IInv PROVE OtherPartitionSpared
      OBVIOUS
    <2>1. ASSUME target = "firmware",
                 NEW k \in INTPART_BOOTLOADER .. INTPART_FIRMWARE - 1
          PROVE  ChipSector(k) \notin erased
      <3>1. size \in Sizes("firmware") /\ erased = MapSector(16) .. MapSector(16 + size)
        BY <2>1 DEF IInv, ErasedFor, Begin, INTPART_FIRMWARE
      <3>2. MapSector(16) = 4
        BY DEF MapSector, ChipSector, BankSector
      <3>3. ChipSector(k) \in 0 .. 3
        BY DEF ChipSector, BankSector, INTPART_BOOTLOADER, INTPART_FIRMWARE
      <3> QED BY <3>1, <3>2, <3>3
    <2>2. ASSUME target = "bootloader"
          PROVE  ChipSector(INTPART_FIRMWARE) \in erased <=> size >= INTPART_FIRMWARE
      <3>1. size \in 1 .. 512 /\ erased = MapSector(0) .. MapSector(0 + size)
        BY <2>2 DEF IInv, ErasedFor, Begin, Sizes, INTPART_BOOTLOADER, INTMEM_SIZEOF
      <3>2. MapSector(0) = 0 /\ ChipSector(INTPART_FIRMWARE) = 4
        BY DEF MapSector, ChipSector, BankSector, INTPART_FIRMWARE
      <3>3. MapSector(0 + size) \in Int /\ (MapSector(0 + size) >= 4 <=> size >= 16)
        BY <3>1 DEF MapSector, ChipSector, BankSector
      <3>4. 4 \in 0 .. MapSector(0 + size) <=> size >= 16
        BY <3>3
      <3> QED BY <3>1, <3>2, <3>4 DEF INTPART_FIRMWARE
    <2> QED BY <2>1, <2>2 DEF OtherPartitionSpared
  <1> QED BY Invariance, <1>1, PTL
=============================================================================
