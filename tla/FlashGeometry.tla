---------------------------- MODULE FlashGeometry ----------------------------
(***************************************************************************)
(* The external SPI flash as ExtMem sees it: subsectors are the unit of    *)
(* erasing, pages the unit of programming (the comment in                  *)
(* ExtMem::write_data).  A page is the unit of data here; addresses count  *)
(* pages.                                                                  *)
(***************************************************************************)
EXTENDS Integers

CONSTANTS
    PagesPerSubsector,  \* subsector_size / page_size of external_spiflash
    Subsectors,         \* the subsectors secure_write is used on
    Content,            \* what a page can be made to hold
    Blank,              \* an erased page: 0xFF everywhere
    Patch               \* the (address, data, size) arguments of the calls

PageNo == 0 .. PagesPerSubsector - 1

Subsector == 0 .. Subsectors - 1

\* calculate_subsector_begin of subsector s, plus m pages.
PageOf(s, m) == s * PagesPerSubsector + m

\* A patch maps the pages it covers, first to last, to their new contents.
PatchFrom(first, last) == [first .. last -> Content]

ASSUME GeometryAssumption ==
    /\ PagesPerSubsector \in Nat \ {0}
    /\ Subsectors \in Nat \ {0}
    /\ Blank \in Content

\* Every call stays in the memory and covers at least one page.
ASSUME PatchAssumption ==
    \A p \in Patch :
        \E first, last \in 0 .. Subsectors * PagesPerSubsector - 1 :
            first <= last /\ p \in PatchFrom(first, last)

First(p) == CHOOSE a \in DOMAIN p : \A b \in DOMAIN p : a <= b

Last(p) == CHOOSE a \in DOMAIN p : \A b \in DOMAIN p : b <= a

\* Subsector s with the pages of patch p replaced: the memcpy into the copy
\* of the subsector that secure_write makes in RAM.
Patched(s, subsector, p) ==
    [m \in PageNo |-> IF PageOf(s, m) \in DOMAIN p
                      THEN p[PageOf(s, m)] ELSE subsector[m]]

\* The memory with the pages of patch p replaced.
Apply(memory, p) ==
    [s \in Subsector |-> Patched(s, memory[s], p)]
=============================================================================
