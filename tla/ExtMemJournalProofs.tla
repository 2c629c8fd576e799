------------------------- MODULE ExtMemJournalProofs -------------------------
(* Proofs about ExtMemJournal, for every memory size, page count, set of   *)
(* threads and set of calls.                                               *)
EXTENDS ExtMemJournal, TLAPS

-----------------------------------------------------------------------------
(* Address arithmetic.                                                     *)

\* Division with remainder by the size of a subsector.
LEMMA DivFacts ==
    ASSUME NEW a \in Nat, NEW n \in Nat \ {0}
    PROVE  /\ a \div n \in Nat
           /\ a % n \in 0 .. n - 1
           /\ a = (a \div n) * n + (a % n)
  BY SMT

\* Multiplying keeps the order.
LEMMA MulMono ==
    ASSUME NEW x \in Nat, NEW y \in Nat, NEW n \in Nat, x <= y
    PROVE  x * n <= y * n
  BY SMT

\* A multiple that is below another one belongs to a smaller factor.
LEMMA MulLess ==
    ASSUME NEW x \in Nat, NEW y \in Nat, NEW n \in Nat, x * n < y * n
    PROVE  x < y
  <1>1. CASE y <= x
    BY <1>1, MulMono, SMT
  <1> QED BY <1>1, SMT

\* The pages of a patch are an interval, and First and Last are its ends.
LEMMA PatchEnds ==
    ASSUME NEW p \in Patch
    PROVE  /\ First(p) \in 0 .. Subsectors * PagesPerSubsector - 1
           /\ Last(p) \in 0 .. Subsectors * PagesPerSubsector - 1
           /\ First(p) <= Last(p)
           /\ DOMAIN p = First(p) .. Last(p)
           /\ p \in [First(p) .. Last(p) -> Content]
  <1>1. PICK f, l \in 0 .. Subsectors * PagesPerSubsector - 1 :
            f <= l /\ p \in PatchFrom(f, l)
    BY PatchAssumption
  <1>n. Subsectors * PagesPerSubsector - 1 \in Int
    BY GeometryAssumption, SMT
  <1>i. f \in Int /\ l \in Int
    BY <1>1, <1>n
  <1>2. DOMAIN p = f .. l
    BY <1>1 DEF PatchFrom
  <1>3. First(p) = f
    <2>1. f \in DOMAIN p /\ \A b \in DOMAIN p : f <= b
      BY <1>1, <1>2, <1>i
    <2>2. \A x \in DOMAIN p : (\A b \in DOMAIN p : x <= b) => x = f
      BY <2>1, <1>2, <1>i
    <2> QED BY <2>1, <2>2 DEF First
  <1>4. Last(p) = l
    <2>1. l \in DOMAIN p /\ \A b \in DOMAIN p : b <= l
      BY <1>1, <1>2, <1>i
    <2>2. \A x \in DOMAIN p : (\A b \in DOMAIN p : b <= x) => x = l
      BY <2>1, <1>2, <1>i
    <2> QED BY <2>1, <2>2 DEF Last
  <1> QED BY <1>1, <1>2, <1>3, <1>4 DEF PatchFrom

\* The structure that secure_write computes covers every page of the call
\* with at most two subsectors of the memory.
LEMMA StructCovers ==
    ASSUME NEW p \in Patch, Size(p) <= PagesPerSubsector
    PROVE  /\ ValidStruct(JournalOf(p))
           /\ \A s \in Subsector, m \in PageNo :
                  PageOf(s, m) \in DOMAIN p => Covers(JournalOf(p), s)
  <1> DEFINE P == PagesPerSubsector
             f == First(p)
             e == Last(p) + 1
             q == f \div P
             r == e \div P
             n == Blocks(First(p), Last(p))
  <1>1. P \in Nat \ {0} /\ Subsectors \in Nat \ {0}
    BY GeometryAssumption
  <1>p. Subsectors * P \in Int
    BY <1>1, SMT
  <1>2. f \in Nat /\ e \in Nat /\ f < e /\ e <= f + P /\ e <= Subsectors * P
    BY PatchEnds, <1>1, <1>p DEF Size
  <1>3. q \in Nat /\ f % P \in 0 .. P - 1 /\ f = q * P + (f % P)
    BY <1>1, <1>2, DivFacts
  <1>4. r \in Nat /\ e % P \in 0 .. P - 1 /\ e = r * P + (e % P)
    BY <1>1, <1>2, DivFacts
  <1>5. n = r - q + (IF e % P # 0 THEN 1 ELSE 0)
    BY DEF Blocks, calculate_subsector_index
  <1>6. n \in 1 .. 2 /\ q < Subsectors /\ q + n <= Subsectors
    <2> HIDE DEF q, r, f, e, n, P
    <2>1. q * P \in Nat /\ r * P \in Nat /\ (q + 1) * P = q * P + P
            /\ (q + 2) * P = q * P + P + P
      BY <1>1, <1>3, <1>4, SMT
    <2>2. q <= r
      <3>1. q * P < (r + 1) * P
        <4>1. (r + 1) * P = r * P + P
          BY <1>1, <1>4, SMT
        <4> QED BY <4>1, <2>1, <1>1, <1>2, <1>3, <1>4, SMT
      <3>2. q < r + 1
        BY <3>1, <1>1, <1>3, <1>4, MulLess
      <3> QED BY <3>2, <1>3, <1>4
    <2>3. r < q + 2
      <3>1. r * P < (q + 2) * P
        BY <2>1, <1>1, <1>2, <1>3, <1>4, SMT
      <3> QED BY <3>1, <1>1, <1>3, <1>4, MulLess
    <2>4. n \in 1 .. 2
      <3>1. CASE e % P = 0
        <4>1. q * P < r * P
          BY <3>1, <2>1, <1>1, <1>2, <1>3, <1>4, SMT
        <4>2. q < r
          BY <4>1, <1>1, <1>3, <1>4, MulLess
        <4> QED BY <4>2, <3>1, <2>3, <1>3, <1>4, <1>5
      <3>2. CASE e % P # 0
        <4>1. r < q + 2 /\ q <= r
          BY <2>2, <2>3
        <4> QED BY <4>1, <3>2, <1>3, <1>4, <1>5
      <3> QED BY <3>1, <3>2
    <2>5. q + n <= Subsectors
      <3>1. CASE e % P = 0
        <4>1. r * P < (Subsectors + 1) * P
          <5>1. (Subsectors + 1) * P = Subsectors * P + P
            BY <1>1, SMT
          <5> QED BY <5>1, <1>p, <3>1, <2>1, <1>1, <1>2, <1>4, SMT
        <4>2. r < Subsectors + 1
          BY <4>1, <1>1, <1>4, MulLess
        <4> QED BY <4>2, <3>1, <1>1, <1>3, <1>4, <1>5
      <3>2. CASE e % P # 0
        <4>1. r * P < Subsectors * P
          BY <1>p, <3>2, <2>1, <1>1, <1>2, <1>4, SMT
        <4>2. r < Subsectors
          BY <4>1, <1>1, <1>4, MulLess
        <4> QED BY <4>2, <3>2, <1>1, <1>3, <1>4, <1>5
      <3> QED BY <3>1, <3>2
    <2> QED BY <2>4, <2>5, <1>1, <1>3
  <1>7. JournalOf(p) = [blocks |-> n, dest_addr |-> q]
    BY DEF JournalOf, calculate_subsector_index
  <1>8. ValidStruct(JournalOf(p))
    <2> HIDE DEF q, n
    <2> QED BY <1>1, <1>3, <1>6, <1>7 DEF ValidStruct, Subsector
  <1>9. ASSUME NEW s \in Subsector, NEW m \in PageNo, PageOf(s, m) \in DOMAIN p
        PROVE  Covers(JournalOf(p), s)
    <2>1. s \in Nat /\ m \in 0 .. P - 1
      BY <1>1 DEF Subsector, PageNo
    <2>2. s * P + m \in f .. Last(p)
      BY <1>9, PatchEnds DEF PageOf
    <2>3. e = Last(p) + 1 /\ Last(p) \in Int
      BY PatchEnds, <1>p
    <2> HIDE DEF q, r, f, e, n, P
    <2>4. s * P \in Nat /\ q * P \in Nat /\ r * P \in Nat /\ (s + 1) * P = s * P + P
             /\ (r + 1) * P = r * P + P
      BY <2>1, <1>1, <1>3, <1>4, SMT
    <2>5. s * P + m \in Int /\ f <= s * P + m /\ s * P + m < e
      BY <2>1, <2>2, <2>3, <2>4, <1>2
    <2>6. q < s + 1
      <3>1. q * P < (s + 1) * P
        BY <2>1, <2>4, <2>5, <1>1, <1>2, <1>3
      <3> QED BY <3>1, <2>1, <1>1, <1>3, MulLess
    <2>7. s < q + n
      <3>1. CASE e % P = 0
        <4>1. s * P < r * P
          BY <3>1, <2>1, <2>4, <2>5, <1>1, <1>2, <1>4
        <4>2. s < r
          BY <4>1, <2>1, <1>1, <1>4, MulLess
        <4> QED BY <4>2, <3>1, <2>1, <1>3, <1>4, <1>5
      <3>2. CASE e % P # 0
        <4>1. s * P < (r + 1) * P
          BY <3>2, <2>1, <2>4, <2>5, <1>1, <1>2, <1>4
        <4>2. s < r + 1
          BY <4>1, <2>1, <1>1, <1>4, MulLess
        <4> QED BY <4>2, <3>2, <2>1, <1>3, <1>4, <1>5
      <3> QED BY <3>1, <3>2
    <2> QED BY <2>1, <2>6, <2>7, <1>3, <1>6, <1>7 DEF Covers
  <1> QED BY <1>8, <1>9

\* Patching keeps the type, and a clean subsector stays clean.
LEMMA PatchedClean ==
    ASSUME NEW p \in Patch, NEW s \in Int, NEW u \in [PageNo -> Page]
    PROVE  /\ Patched(s, u, p) \in [PageNo -> Page]
           /\ Clean(u) => Clean(Patched(s, u, p))
  <1>1. \A a \in DOMAIN p : p[a] \in Content
    BY PatchEnds
  <1> QED BY <1>1, JournalAssumption DEF Patched, Clean, Page

\* A subsector the structure of a call does not cover is not changed by it.
LEMMA PatchedElsewhere ==
    ASSUME NEW p \in Patch, Size(p) <= PagesPerSubsector,
           NEW s \in Subsector, ~ Covers(JournalOf(p), s),
           NEW u \in [PageNo -> Page]
    PROVE  Patched(s, u, p) = u
  <1>1. \A m \in PageNo : PageOf(s, m) \notin DOMAIN p
    BY StructCovers
  <1> QED BY <1>1 DEF Patched

\* An erased subsector is clean.
LEMMA ErasedClean == Erased \in [PageNo -> Page] /\ Clean(Erased)
  BY GeometryAssumption, JournalAssumption DEF Erased, Clean, Page

-----------------------------------------------------------------------------
(* The invariant.                                                          *)

\* The invariant holds before the first power-up.
LEMMA InitIInv == Init => IInv
  <1> SUFFICES ASSUME Init PROVE IInv
    OBVIOUS
  <1>1. TypeOK
    BY ErasedClean, GeometryAssumption, JournalAssumption
    DEF Init, TypeOK, EmptyIndex, Page, PageNo, Pcs, Block
  <1>2. OwnerInv
    BY DEF Init, OwnerInv
  <1>3. AtRestInv
    BY JournalAssumption
    DEF Init, AtRestInv, Pending, EmptyIndex, DestClean, Clean
  <1>4. FillingInv /\ CopyingInv /\ ClearInv
    BY DEF Init, FillingInv, CopyingInv, ClearInv
  <1> QED BY <1>1, <1>2, <1>3, <1>4 DEF IInv

\* While secure_write fills the journal, its structure is valid and the
\* block in work is in the journal and in the memory.
LEMMA FillFacts ==
    ASSUME IInv, pc \in {"fill", "j_erase", "j_program", "x_erase", "x_program"}
    PROVE  /\ owner \in Threads
           /\ call[owner] \in Patch
           /\ jstruct = JournalOf(call[owner])
           /\ ValidStruct(jstruct)
           /\ pc \notin {"x_erase", "x_program"} =>
                  i \in Block /\ jstruct.dest_addr + i \in Subsector
  <1>1. /\ owner \in Threads /\ call[owner] \in Patch
        /\ jstruct = JournalOf(call[owner])
        /\ Size(call[owner]) <= PagesPerSubsector
    BY JournalAssumption DEF IInv, FillingInv, OwnerInv
  <1>2. ValidStruct(jstruct)
    BY <1>1, StructCovers
  <1>3. pc \notin {"x_erase", "x_program"} =>
            i \in Block /\ jstruct.dest_addr + i \in Subsector
    BY <1>2, GeometryAssumption
    DEF IInv, FillingInv, TypeOK, ValidStruct, Block, Subsector
  <1> QED BY <1>1, <1>2, <1>3

\* The same while _handle_journal copies.
LEMMA CopyFacts ==
    ASSUME IInv, pc \in {"copy", "d_erase", "d_program"}
    PROVE  /\ i \in Block
           /\ jstruct.dest_addr + i \in Subsector
           /\ jstruct.dest_addr \in Int /\ jstruct.blocks \in 1 .. 2
  BY GeometryAssumption
  DEF IInv, CopyingInv, TypeOK, ValidStruct, Block, Subsector

\* secure_write takes the mutex: the structure it computes is valid.
LEMMA BeginStep ==
    ASSUME IInv, NEW t \in Threads, Begin(t)
    PROVE  IInv'
  <1>1. call[t] \in Patch /\ ValidStruct(JournalOf(call[t]))
    <2>1. call[t] \in Patch
      BY DEF Begin, IInv, TypeOK
    <2> QED BY <2>1, StructCovers DEF Begin
  <1>2. TypeOK'
    BY <1>1 DEF Begin, IInv, TypeOK, ValidStruct, JournalOf, Pcs, flash, Subsector
  <1>3. OwnerInv' /\ AtRestInv' /\ CopyingInv' /\ ClearInv'
    BY <1>1, JournalAssumption DEF Begin, IInv, OwnerInv, AtRestInv, CopyingInv, ClearInv
  <1>4. FillingInv'
    <2>1. 0 < JournalOf(call[t]).blocks /\ ~ Pending /\ DestClean
      BY <1>1 DEF Begin, IInv, AtRestInv, ValidStruct
    <2>2. ~ Pending' /\ DestClean'
      BY <2>1 DEF Begin, Pending, DestClean, flash
    <2> QED BY <1>1, <2>1, <2>2 DEF Begin, FillingInv, Block
  <1> QED BY <1>2, <1>3, <1>4 DEF IInv

\* Patching a subsector in _subsector_buffer keeps the invariant.
LEMMA FillStep ==
    ASSUME IInv, Fill
    PROVE  IInv'
  <1>1. pc = "fill" /\ jstruct.dest_addr + i \in Subsector /\ call[owner] \in Patch
    BY FillFacts DEF Fill
  <1>2. TypeOK'
    <2>1. buffer' \in [PageNo -> Page]
      <3>1. dest[jstruct.dest_addr + i] \in [PageNo -> Page]
        BY <1>1 DEF IInv, TypeOK
      <3> QED BY <1>1, <3>1, PatchedClean DEF Fill, Subsector
    <2> QED BY <2>1 DEF Fill, IInv, TypeOK, Pcs, flash
  <1>3. OwnerInv' /\ AtRestInv' /\ CopyingInv' /\ ClearInv'
    BY DEF Fill, IInv, OwnerInv, AtRestInv, CopyingInv, ClearInv
  <1>4. FillingInv'
    BY DEF Fill, IInv, FillingInv, FilledBlock, Pending, DestClean, flash
  <1> QED BY <1>2, <1>3, <1>4 DEF IInv

\* Erasing a journal block keeps the blocks filled before it.
LEMMA EraseJournalStep ==
    ASSUME IInv, EraseJournal
    PROVE  IInv'
  <1>1. pc = "j_erase" /\ i \in Block /\ i < jstruct.blocks /\ jstruct.blocks \in 1 .. 2
    BY FillFacts DEF EraseJournal, IInv, FillingInv, ValidStruct
  <1>2. TypeOK'
    <2>1. journal' \in [Block -> [PageNo -> Page]]
      BY ErasedClean, <1>1 DEF EraseJournal, IInv, TypeOK
    <2> QED BY <2>1, GeometryAssumption DEF EraseJournal, IInv, TypeOK, Pcs, PageNo
  <1>3. OwnerInv' /\ AtRestInv' /\ CopyingInv' /\ ClearInv'
    BY DEF EraseJournal, IInv, OwnerInv, AtRestInv, CopyingInv, ClearInv
  <1>4. FillingInv'
    <2>1. \A k \in Block : k < i => journal'[k] = journal[k]
      BY <1>1 DEF EraseJournal, IInv, TypeOK
    <2>2. \A k \in Block : k < i' => FilledBlock(k)'
      BY <1>1, <2>1 DEF EraseJournal, IInv, FillingInv, FilledBlock
    <2> QED BY <2>2 DEF EraseJournal, IInv, FillingInv, Pending, DestClean, PageNo
  <1> QED BY <1>2, <1>3, <1>4 DEF IInv

\* Programming a page of the journal, the last page of a block and the
\* last block included, keeps the invariant.
LEMMA ProgramJournalStep ==
    ASSUME IInv, ProgramJournal
    PROVE  IInv'
  <1>1. /\ pc = "j_program" /\ i \in Block /\ i < jstruct.blocks /\ jstruct.blocks \in 1 .. 2
        /\ j \in PageNo
    BY FillFacts DEF ProgramJournal, IInv, FillingInv, ValidStruct, TypeOK
  <1>2. /\ journal \in [Block -> [PageNo -> Page]]
        /\ journal' = [journal EXCEPT ![i] = [journal[i] EXCEPT ![j] = buffer[j]]]
        /\ buffer \in [PageNo -> Page]
    BY DEF ProgramJournal, IInv, TypeOK
  <1>3. journal' \in [Block -> [PageNo -> Page]]
    BY <1>1, <1>2
  <1>4. /\ \A k \in Block : k # i => journal'[k] = journal[k]
        /\ \A m \in PageNo : m <= j => journal'[i][m] = buffer[m]
    <2>1. \A m \in PageNo : m < j => journal[i][m] = buffer[m]
      BY <1>1 DEF IInv, FillingInv
    <2>2. \A m \in PageNo : m <= j => m < j \/ m = j
      BY <1>1 DEF PageNo
    <2>3. journal'[i] = [journal[i] EXCEPT ![j] = buffer[j]]
      BY <1>1, <1>2
    <2>4. \A k \in Block : k # i => journal'[k] = journal[k]
      BY <1>2
    <2>5. \A m \in PageNo : m # j => journal'[i][m] = journal[i][m]
      BY <2>3, <1>1, <1>2
    <2>6. journal'[i][j] = buffer[j]
      BY <2>3, <1>1, <1>2
    <2> QED BY <2>1, <2>2, <2>4, <2>5, <2>6
  <1>5. TypeOK'
    BY <1>1, <1>3, GeometryAssumption
    DEF ProgramJournal, NextPage, IInv, TypeOK, Pcs, PageNo, Block
  <1>6. OwnerInv' /\ AtRestInv' /\ CopyingInv' /\ ClearInv'
    BY DEF ProgramJournal, NextPage, IInv, OwnerInv, AtRestInv, CopyingInv, ClearInv
  <1>7. FillingInv'
    <2>1. \A k \in Block : k < i => FilledBlock(k)'
      BY <1>1, <1>4 DEF ProgramJournal, IInv, FillingInv, FilledBlock, Block
    <2>2. CASE j + 1 = PagesPerSubsector
      <3>1. journal'[i] = buffer
        <4>1. \A m \in PageNo : m <= j
          BY <2>2, <1>1, GeometryAssumption DEF PageNo
        <4> QED BY <4>1, <1>1, <1>2, <1>3, <1>4
      <3>2. \A k \in Block : k = i => FilledBlock(k)'
        BY <3>1, <1>1 DEF ProgramJournal, IInv, FillingInv, FilledBlock
      <3>3. i' = i + 1 /\ \A k \in Block : k < i' => k < i \/ k = i
        BY <2>2, <1>1 DEF ProgramJournal, NextPage, Block
      <3>4. \A k \in Block : k < i' => FilledBlock(k)'
        BY <2>1, <3>2, <3>3
      <3>5. /\ pc' \in {"fill", "x_erase"}
            /\ IF pc' = "x_erase" THEN i' = jstruct.blocks ELSE i' < jstruct.blocks
        BY <2>2, <1>1 DEF ProgramJournal, NextPage, Block
      <3> QED
        BY <3>4, <3>5, <1>1
        DEF ProgramJournal, IInv, FillingInv, Pending, DestClean
    <2>3. CASE j + 1 # PagesPerSubsector
      <3>1. i' = i /\ j' = j + 1 /\ pc' = pc
        BY <2>3 DEF ProgramJournal, NextPage
      <3>2. \A m \in PageNo : m < j' => journal'[i'][m] = buffer'[m]
        BY <3>1, <1>1, <1>4 DEF ProgramJournal, PageNo
      <3> QED
        BY <3>1, <3>2, <2>1, <1>1
        DEF ProgramJournal, IInv, FillingInv, Pending, DestClean
    <2> QED BY <2>2, <2>3
  <1> QED BY <1>5, <1>6, <1>7 DEF IInv

\* Patched clean subsectors are clean, so the journal is complete when the
\* index is written.
LEMMA JournalFilled ==
    ASSUME IInv, pc = "x_program"
    PROVE  JournalComplete(jstruct)
  <1>1. /\ call[owner] \in Patch /\ ValidStruct(jstruct) /\ DestClean
        /\ i = jstruct.blocks
    BY FillFacts DEF IInv, FillingInv
  <1>2. ASSUME NEW k \in Block, k < jstruct.blocks
        PROVE  Clean(journal[k])
    <2>1. jstruct.dest_addr + k \in Subsector
      BY <1>1, <1>2, GeometryAssumption DEF ValidStruct, Block, Subsector
    <2>2. dest[jstruct.dest_addr + k] \in [PageNo -> Page]
             /\ Clean(dest[jstruct.dest_addr + k])
      BY <2>1, <1>1 DEF IInv, TypeOK, DestClean
    <2>3. journal[k] = Patched(jstruct.dest_addr + k, dest[jstruct.dest_addr + k], call[owner])
      BY <1>1, <1>2 DEF IInv, FillingInv, FilledBlock
    <2> QED BY <1>1, <2>1, <2>2, <2>3, PatchedClean DEF Subsector
  <1> QED BY <1>1, <1>2 DEF JournalComplete, DestClean

\* Writing the index over a complete journal starts the copying.
LEMMA ProgramIndexStep ==
    ASSUME IInv, ProgramIndex
    PROVE  IInv'
  <1>1. pc = "x_program" /\ owner \in Threads /\ ValidStruct(jstruct)
    BY FillFacts DEF ProgramIndex
  <1>2. pc' = "copy" /\ jstruct.blocks \in Int /\ jstruct.dest_addr \in Int
    BY <1>1, JournalAssumption
    DEF ProgramIndex, HandleJournal, ValidStruct, Subsector
  <1>3. TypeOK'
    BY <1>2 DEF ProgramIndex, IInv, TypeOK, Pcs
  <1>4. OwnerInv' /\ AtRestInv' /\ FillingInv' /\ ClearInv'
    BY <1>2 DEF ProgramIndex, IInv, OwnerInv, AtRestInv, FillingInv, ClearInv
  <1>5. CopyingInv'
    <2>1. JournalComplete(jstruct)'
      BY <1>1, JournalFilled DEF ProgramIndex, JournalComplete, Covers
    <2> QED
      BY <1>1, <1>2, <2>1 DEF ProgramIndex, CopyingInv, ValidStruct, Block
  <1> QED BY <1>3, <1>4, <1>5 DEF IInv

\* Reading a journal block back into _subsector_buffer keeps the invariant.
LEMMA CopyBlockStep ==
    ASSUME IInv, CopyBlock
    PROVE  IInv'
  <1>1. TypeOK'
    BY CopyFacts DEF CopyBlock, IInv, TypeOK, Pcs, flash
  <1>2. OwnerInv' /\ AtRestInv' /\ FillingInv' /\ ClearInv'
    BY DEF CopyBlock, IInv, OwnerInv, AtRestInv, FillingInv, ClearInv
  <1>3. CopyingInv'
    BY DEF CopyBlock, IInv, CopyingInv, CopiedBlock, JournalComplete, flash
  <1> QED BY <1>1, <1>2, <1>3 DEF IInv

\* A step of the copying changes only the destination subsector in work.
LEMMA OtherBlocks ==
    ASSUME IInv, pc \in {"d_erase", "d_program"},
           NEW u \in [PageNo -> Page],
           dest' = [dest EXCEPT ![jstruct.dest_addr + i] = u],
           UNCHANGED <<journal, index, jstruct>>
    PROVE  /\ dest' \in [Subsector -> [PageNo -> Page]]
           /\ dest'[jstruct.dest_addr + i] = u
           /\ \A k \in Block : k < i => CopiedBlock(k)'
           /\ JournalComplete(jstruct)'
  <1>1. /\ i \in Block /\ jstruct.dest_addr + i \in Subsector
        /\ jstruct.dest_addr \in Int /\ jstruct.blocks \in 1 .. 2
        /\ i < jstruct.blocks /\ dest \in [Subsector -> [PageNo -> Page]]
        /\ JournalComplete(jstruct)
        /\ \A k \in Block : k < i => CopiedBlock(k)
    BY CopyFacts DEF IInv, CopyingInv, TypeOK
  <1>2. \A k \in Block : k < i => CopiedBlock(k)'
    <2> SUFFICES ASSUME NEW k \in Block, k < i PROVE CopiedBlock(k)'
      OBVIOUS
    <2>1. jstruct.dest_addr + k # jstruct.dest_addr + i
      BY <1>1 DEF Block
    <2>2. jstruct.dest_addr + k \in Subsector
      BY <1>1, GeometryAssumption DEF Block, Subsector, IInv, CopyingInv, ValidStruct
    <2> QED BY <1>1, <2>1, <2>2 DEF CopiedBlock
  <1>3. JournalComplete(jstruct)'
    <2> SUFFICES ASSUME NEW s \in Subsector, ~ Covers(jstruct, s) PROVE dest'[s] = dest[s]
      BY <1>1 DEF JournalComplete, Covers
    <2>1. s # jstruct.dest_addr + i
      BY <1>1 DEF Covers, Block, Subsector
    <2> QED BY <1>1, <2>1
  <1> QED BY <1>1, <1>2, <1>3

\* Erasing a destination subsector is covered by the journal.
LEMMA EraseDestStep ==
    ASSUME IInv, EraseDest
    PROVE  IInv'
  <1>1. /\ dest' \in [Subsector -> [PageNo -> Page]]
        /\ \A k \in Block : k < i => CopiedBlock(k)'
        /\ JournalComplete(jstruct)'
    BY OtherBlocks, ErasedClean DEF EraseDest
  <1>2. TypeOK'
    BY <1>1, GeometryAssumption DEF EraseDest, IInv, TypeOK, Pcs, PageNo
  <1>3. OwnerInv' /\ AtRestInv' /\ FillingInv' /\ ClearInv'
    BY DEF EraseDest, IInv, OwnerInv, AtRestInv, FillingInv, ClearInv
  <1>4. CopyingInv'
    BY <1>1, GeometryAssumption DEF EraseDest, IInv, CopyingInv, PageNo
  <1> QED BY <1>2, <1>3, <1>4 DEF IInv

\* Programming a destination page, the last page of a block and the last
\* block included, keeps the invariant.
LEMMA ProgramDestStep ==
    ASSUME IInv, ProgramDest
    PROVE  IInv'
  <1> DEFINE s == jstruct.dest_addr + i
             u == [dest[s] EXCEPT ![j] = buffer[j]]
  <1>1. /\ pc = "d_program" /\ i \in Block /\ s \in Subsector /\ j \in PageNo
        /\ jstruct.blocks \in 1 .. 2 /\ i < jstruct.blocks
        /\ dest[s] \in [PageNo -> Page] /\ buffer \in [PageNo -> Page]
        /\ buffer = journal[i] /\ jstruct.dest_addr \in Int
    BY CopyFacts DEF ProgramDest, IInv, TypeOK, CopyingInv
  <1>2. u \in [PageNo -> Page] /\ dest' = [dest EXCEPT ![s] = u]
    BY <1>1 DEF ProgramDest
  <1>3. /\ dest' \in [Subsector -> [PageNo -> Page]]
        /\ dest'[s] = u
        /\ \A k \in Block : k < i => CopiedBlock(k)'
        /\ JournalComplete(jstruct)'
    <2> HIDE DEF u
    <2> QED BY <1>1, <1>2, OtherBlocks DEF ProgramDest
  <1>4. \A m \in PageNo : m <= j => dest'[s][m] = buffer[m]
    <2>1. \A m \in PageNo : m < j => dest[s][m] = buffer[m]
      BY <1>1 DEF IInv, CopyingInv
    <2>2. \A m \in PageNo : m <= j => m < j \/ m = j
      BY <1>1 DEF PageNo
    <2>3. \A m \in PageNo : m # j => dest'[s][m] = dest[s][m]
      BY <1>1, <1>3
    <2>4. dest'[s][j] = buffer[j]
      BY <1>1, <1>3
    <2> QED BY <2>1, <2>2, <2>3, <2>4
  <1>5. TypeOK'
    BY <1>1, <1>3, GeometryAssumption
    DEF ProgramDest, NextPage, IInv, TypeOK, Pcs, PageNo, Block
  <1>6. OwnerInv' /\ AtRestInv' /\ FillingInv'
    BY DEF ProgramDest, NextPage, IInv, OwnerInv, AtRestInv, FillingInv
  <1>7. CASE j + 1 # PagesPerSubsector
    <2>1. i' = i /\ j' = j + 1 /\ pc' = "d_program"
      BY <1>1, <1>7 DEF ProgramDest, NextPage
    <2>2. \A m \in PageNo : m < j' => dest'[s][m] = buffer'[m]
      BY <2>1, <1>1, <1>4 DEF ProgramDest, PageNo
    <2>3. CopyingInv' /\ ClearInv'
      BY <1>1, <1>3, <2>1, <2>2 DEF ProgramDest, IInv, CopyingInv, ClearInv
    <2> QED BY <1>5, <1>6, <2>3 DEF IInv
  <1>8. CASE j + 1 = PagesPerSubsector
    <2>1. /\ i' = i + 1 /\ i' \in 1 .. 2
          /\ pc' = IF i' < jstruct.blocks THEN "copy" ELSE "clear"
      BY <1>1, <1>8 DEF ProgramDest, NextPage, Block
    <2>2. dest'[s] = journal[i]
      <3>1. \A m \in PageNo : m <= j
        BY <1>1, <1>8, GeometryAssumption DEF PageNo
      <3> QED BY <3>1, <1>1, <1>2, <1>3, <1>4
    <2>3. \A k \in Block : k < i' => CopiedBlock(k)'
      <3>1. \A k \in Block : k = i => CopiedBlock(k)'
        BY <2>2, <1>1 DEF ProgramDest, CopiedBlock
      <3>2. \A k \in Block : k < i' => k < i \/ k = i
        BY <2>1, <1>1 DEF Block
      <3> QED BY <3>1, <3>2, <1>3
    <2>4. CopyingInv'
      BY <1>1, <1>3, <2>1, <2>3 DEF ProgramDest, IInv, CopyingInv
    <2>5. ClearInv'
      <3> SUFFICES ASSUME pc' = "clear" PROVE ClearInv'
        BY DEF ClearInv
      <3>1. i' = jstruct.blocks /\ \A k \in Block : k < jstruct.blocks => CopiedBlock(k)'
        <4>1. i' = jstruct.blocks
          BY <2>1, <1>1 DEF Block
        <4> QED BY <4>1, <2>3
      <3>2. DestClean'
        <4> SUFFICES ASSUME NEW v \in Subsector PROVE Clean(dest'[v])
          BY DEF DestClean, Clean
        <4>1. CASE ~ Covers(jstruct, v)
          BY <4>1, <1>3 DEF JournalComplete, ProgramDest, Covers, Clean
        <4>2. CASE Covers(jstruct, v)
          <5>1. PICK k \in Block : k < jstruct.blocks /\ v = jstruct.dest_addr + k
            <6>1. v - jstruct.dest_addr \in Block /\ v - jstruct.dest_addr < jstruct.blocks
                    /\ v = jstruct.dest_addr + (v - jstruct.dest_addr)
              BY <4>2, <1>1 DEF Covers, Block, Subsector
            <6> QED BY <6>1
          <5>2. dest'[v] = journal[k] /\ Clean(journal[k])
            BY <5>1, <3>1 DEF CopiedBlock, ProgramDest, IInv, CopyingInv, JournalComplete
          <5> QED BY <5>2
        <4> QED BY <4>1, <4>2
      <3> QED
        BY <1>1, <3>1, <3>2
        DEF ProgramDest, IInv, CopyingInv, ClearInv, Pending, ValidStruct, Subsector
    <2> QED BY <1>5, <1>6, <2>4, <2>5 DEF IInv
  <1> QED BY <1>7, <1>8

\* _empty_journal leaves nothing pending and a complete destination.
LEMMA EmptyJournalStep ==
    ASSUME IInv, EmptyJournal
    PROVE  IInv'
  <1>1. TypeOK'
    BY DEF EmptyJournal, EmptyIndex, Return, IInv, TypeOK, Pcs
  <1>2. OwnerInv' /\ FillingInv' /\ CopyingInv' /\ ClearInv'
    BY DEF EmptyJournal, IInv, OwnerInv, FillingInv, CopyingInv, ClearInv
  <1>3. AtRestInv'
    BY JournalAssumption
    DEF EmptyJournal, EmptyIndex, IInv, ClearInv, AtRestInv, Pending, DestClean, Clean
  <1> QED BY <1>1, <1>2, <1>3 DEF IInv

\* ExtMem::init takes a pending transaction up where the power loss left it.
LEMMA BootStep ==
    ASSUME IInv, Boot
    PROVE  IInv'
  <1>1. TypeOK'
    BY DEF Boot, HandleJournal, IInv, TypeOK, Pcs, flash
  <1>2. pc' \in {"idle", "clear", "copy"} /\ (pc' = "copy" <=> Pending)
    BY JournalAssumption DEF Boot, HandleJournal, Pending, IInv, TypeOK
  <1>3. OwnerInv' /\ FillingInv'
    BY <1>2 DEF Boot, IInv, OwnerInv, FillingInv
  <1>4. AtRestInv' /\ ClearInv'
    BY <1>2, JournalAssumption
    DEF Boot, IInv, OwnerInv, AtRestInv, ClearInv, Pending, DestClean, Clean, flash
  <1>5. CopyingInv'
    <2> SUFFICES ASSUME pc' = "copy" PROVE CopyingInv'
      BY <1>2 DEF CopyingInv
    <2>1. ValidStruct(index) /\ JournalComplete(index)
      BY <1>2 DEF Boot, IInv, AtRestInv
    <2>2. JournalComplete(jstruct)' /\ ValidStruct(jstruct)'
      BY <2>1 DEF Boot, JournalComplete, Covers, flash, ValidStruct
    <2> QED BY <2>1, <2>2 DEF Boot, CopyingInv, flash, ValidStruct, Block
  <1> QED BY <1>1, <1>3, <1>4, <1>5 DEF IInv

\* A power loss, whatever the interrupted erase or program leaves behind,
\* keeps the invariant.
LEMMA PowerLossStep ==
    ASSUME IInv, PowerLoss
    PROVE  IInv'
  <1>1. /\ pc' = "off" /\ owner' = Nobody /\ call' = [t \in Threads |-> NoCall]
        /\ ret' = [t \in Threads |-> "none"]
    BY DEF PowerLoss
  <1>2. /\ dest \in [Subsector -> [PageNo -> Page]]
        /\ journal \in [Block -> [PageNo -> Page]]
        /\ index \in [blocks : Int \cup {Unset, Rejected},
                      dest_addr : Int \cup {Unset, Rejected}]
    BY DEF IInv, TypeOK
  <1> DEFINE FlashOK ==
        /\ dest \in [Subsector -> [PageNo -> Page]]
        /\ journal \in [Block -> [PageNo -> Page]]
        /\ index \in [blocks : Int \cup {Unset, Rejected},
                      dest_addr : Int \cup {Unset, Rejected}]
        /\ ~ Pending => DestClean
        /\ Pending => ValidStruct(index) /\ JournalComplete(index)
  <1>3. FlashOK'
    <2>1. CASE UNCHANGED flash
      <3>1. FlashOK
        <4>1. CASE pc \in {"off", "idle", "fill", "j_erase", "j_program", "x_erase", "x_program"}
          BY <4>1, <1>2 DEF IInv, AtRestInv, FillingInv
        <4>2. CASE pc \in {"copy", "d_erase", "d_program"}
          BY <4>2, <1>2, CopyFacts DEF IInv, CopyingInv, Pending
        <4>3. CASE pc = "clear"
          <5>1. DestClean /\ (Pending => ValidStruct(index))
            BY <4>3 DEF IInv, ClearInv
          <5>2. Pending => JournalComplete(index)
            <6> SUFFICES ASSUME Pending, NEW k \in Block, k < index.blocks
                         PROVE  Clean(journal[k])
              BY <5>1 DEF JournalComplete, DestClean
            <6>1. journal[k] = dest[index.dest_addr + k]
              BY <4>3 DEF IInv, ClearInv, CopiedBlock
            <6>2. index.dest_addr + k \in Subsector
              BY <5>1, GeometryAssumption DEF ValidStruct, Block, Subsector
            <6> QED BY <5>1, <6>1, <6>2 DEF DestClean
          <5> QED BY <1>2, <5>1, <5>2
        <4> QED BY <4>1, <4>2, <4>3 DEF IInv, TypeOK, Pcs
      <3> QED
        BY <2>1, <3>1
        DEF flash, Pending, DestClean, JournalComplete, Clean, Covers, ValidStruct
    <2>2. CASE /\ pc \in {"j_erase", "j_program"}
               /\ \E u \in [PageNo -> Page] : journal' = [journal EXCEPT ![i] = u]
               /\ UNCHANGED <<dest, index>>
      <3>1. ~ Pending /\ DestClean
        BY <2>2 DEF IInv, FillingInv
      <3>2. journal' \in [Block -> [PageNo -> Page]]
        BY <2>2, <1>2
      <3> QED BY <2>2, <3>1, <3>2, <1>2 DEF Pending, DestClean, Clean
    <2>3. CASE /\ pc \in {"x_erase", "clear"}
               /\ \E b \in TornErase(index.blocks), d \in TornErase(index.dest_addr) :
                      index' = [blocks |-> b, dest_addr |-> d]
               /\ UNCHANGED <<dest, journal>>
      <3>1. DestClean'
        BY <2>3 DEF IInv, FillingInv, ClearInv, DestClean, Clean
      <3>2. /\ index' \in [blocks : Int \cup {Unset, Rejected},
                          dest_addr : Int \cup {Unset, Rejected}]
            /\ Pending' => Pending /\ index' = index
        BY <2>3, <1>2, JournalAssumption DEF TornErase, Pending
      <3>3. Pending' => pc = "clear"
        BY <3>2, <2>3 DEF IInv, FillingInv
      <3>4. Pending' => ValidStruct(index)' /\ JournalComplete(index)'
        <4> SUFFICES ASSUME Pending' PROVE ValidStruct(index)' /\ JournalComplete(index)'
          OBVIOUS
        <4>1. /\ pc = "clear" /\ Pending /\ index' = index /\ index = jstruct
              /\ ValidStruct(index) /\ DestClean
              /\ \A k \in Block : k < jstruct.blocks => CopiedBlock(k)
          BY <3>2, <3>3 DEF IInv, ClearInv
        <4>2. \A k \in Block : k < index.blocks => index.dest_addr + k \in Subsector
          BY <4>1, GeometryAssumption DEF ValidStruct, Block, Subsector
        <4>3. \A k \in Block : k < index.blocks => Clean(journal[k])
          BY <4>1, <4>2 DEF CopiedBlock, DestClean
        <4> QED
          BY <2>3, <3>1, <4>1, <4>3 DEF JournalComplete, DestClean, Clean, ValidStruct
      <3> QED BY <2>3, <1>2, <3>1, <3>2, <3>4
    <2>4. CASE pc = "x_program" /\ index' \in TornProgram(jstruct) /\ UNCHANGED <<dest, journal>>
      <3>1. /\ index' \in [blocks : Int \cup {Unset, Rejected},
                           dest_addr : Int \cup {Unset, Rejected}]
            /\ ~ Pending'
        BY <2>4, JournalAssumption DEF TornProgram, Pending, IInv, TypeOK
      <3>2. DestClean'
        BY <2>4 DEF IInv, FillingInv, DestClean, Clean
      <3> QED BY <2>4, <1>2, <3>1, <3>2
    <2>5. CASE /\ pc \in {"d_erase", "d_program"}
               /\ \E u \in [PageNo -> Page] :
                      dest' = [dest EXCEPT ![jstruct.dest_addr + i] = u]
               /\ UNCHANGED <<journal, index>>
      <3>1. /\ i \in Block /\ jstruct.dest_addr + i \in Subsector
            /\ jstruct.dest_addr \in Int /\ jstruct.blocks \in 1 .. 2
            /\ i < jstruct.blocks /\ index = jstruct
            /\ ValidStruct(jstruct) /\ JournalComplete(jstruct)
        BY <2>5, CopyFacts DEF IInv, CopyingInv
      <3>2. \A s \in Subsector : ~ Covers(jstruct, s) => dest'[s] = dest[s]
        BY <2>5, <3>1, <1>2 DEF Covers, Block, Subsector
      <3>3. ValidStruct(index)' /\ JournalComplete(index)' /\ Pending'
        BY <2>5, <3>1, <3>2
        DEF JournalComplete, Clean, Covers, ValidStruct, Pending
      <3>4. dest' \in [Subsector -> [PageNo -> Page]]
        BY <2>5, <1>2
      <3> QED BY <2>5, <1>2, <3>3, <3>4
    <2>6. Torn \in Page
      BY DEF Page
    <2>7. CASE pc = "j_erase" /\ \E u \in TornSubsector(journal[i]) :
                   journal' = [journal EXCEPT ![i] = u] /\ UNCHANGED <<dest, index>>
      BY <2>7, <2>2 DEF TornSubsector
    <2>8. CASE /\ pc = "j_program" /\ UNCHANGED <<dest, index>>
               /\ journal' = [journal EXCEPT ![i] = [@ EXCEPT ![j] = Torn]]
      <3>1. [journal[i] EXCEPT ![j] = Torn] \in [PageNo -> Page]
        BY <2>6, <2>8, <1>2, FillFacts
      <3> QED BY <2>8, <3>1, <2>2
    <2>9. CASE pc = "d_erase" /\ UNCHANGED <<journal, index>>
               /\ \E u \in TornSubsector(dest[jstruct.dest_addr + i]) :
                      dest' = [dest EXCEPT ![jstruct.dest_addr + i] = u]
      BY <2>9, <2>5 DEF TornSubsector
    <2>10. CASE /\ pc = "d_program" /\ UNCHANGED <<journal, index>>
                /\ dest' = [dest EXCEPT ![jstruct.dest_addr + i] = [@ EXCEPT ![j] = Torn]]
      <3>1. [dest[jstruct.dest_addr + i] EXCEPT ![j] = Torn] \in [PageNo -> Page]
        BY <2>6, <2>10, <1>2, CopyFacts
      <3> QED BY <2>10, <3>1, <2>5
    <2> HIDE DEF FlashOK
    <2> QED
      BY <2>1, <2>3, <2>4, <2>7, <2>8, <2>9, <2>10 DEF PowerLoss, Interrupted
  <1>4. TypeOK'
    BY <1>1, <1>3, ErasedClean, GeometryAssumption
    DEF PowerLoss, RamLost, EmptyIndex, TypeOK, Pcs, PageNo
  <1>5. OwnerInv' /\ AtRestInv' /\ FillingInv' /\ CopyingInv' /\ ClearInv'
    BY <1>1, <1>3 DEF OwnerInv, AtRestInv, FillingInv, CopyingInv, ClearInv
  <1> QED BY <1>4, <1>5 DEF IInv

\* Every step keeps the invariant.
LEMMA NextIInv == IInv /\ [Next]_vars => IInv'
  <1> SUFFICES ASSUME IInv, [Next]_vars PROVE IInv'
    OBVIOUS
  <1>1. ASSUME NEW t \in Threads, Call(t) PROVE IInv'
    BY <1>1, JournalAssumption
    DEF Call, IInv, TypeOK, OwnerInv, AtRestInv, FillingInv, CopyingInv, ClearInv,
        Pending, DestClean, Clean, JournalComplete, FilledBlock, CopiedBlock, flash, ram
  <1>2. ASSUME NEW t \in Threads, LockTimeout(t) PROVE IInv'
    BY <1>2, JournalAssumption
    DEF LockTimeout, Return, IInv, TypeOK, OwnerInv, AtRestInv, FillingInv, CopyingInv, ClearInv,
        Pending, DestClean, Clean, JournalComplete, FilledBlock, CopiedBlock, flash, ram
  <1>3. ASSUME NEW t \in Threads, RefuseOverlap(t) PROVE IInv'
    BY <1>3, JournalAssumption
    DEF RefuseOverlap, Return, IInv, TypeOK, OwnerInv, AtRestInv, FillingInv, CopyingInv, ClearInv,
        Pending, DestClean, Clean, JournalComplete, FilledBlock, CopiedBlock, flash, ram
  <1>4. ASSUME EraseIndex PROVE IInv'
    BY <1>4, JournalAssumption
    DEF EraseIndex, EmptyIndex, IInv, TypeOK, OwnerInv, AtRestInv, FillingInv,
        CopyingInv, ClearInv, Pending, DestClean, Clean, JournalComplete, FilledBlock, CopiedBlock, ram, Pcs
  <1>5. CASE UNCHANGED vars
    BY <1>5
    DEF vars, flash, ram, IInv, TypeOK, OwnerInv, AtRestInv, FillingInv, CopyingInv,
        ClearInv, Pending, DestClean, Clean, JournalComplete, FilledBlock, CopiedBlock
  <1> QED
    BY <1>1, <1>2, <1>3, <1>4, <1>5, BeginStep, FillStep, EraseJournalStep,
       ProgramJournalStep, ProgramIndexStep, CopyBlockStep, EraseDestStep,
       ProgramDestStep, EmptyJournalStep, BootStep, PowerLossStep
    DEF Next, HolderStep

\* The invariant holds in every reachable state of ExtMem.
THEOREM Invariance == Spec => []IInv
  BY InitIInv, NextIInv, PTL DEF Spec

\* TypeOK: every word, page and counter of ExtMem stays in its range; the
\* loops of secure_write and _handle_journal never leave the two journal
\* subsectors.
THEOREM TypeCorrect == Spec => []TypeOK
  <1>1. IInv => TypeOK
    BY DEF IInv
  <1> QED BY <1>1, Invariance, PTL

\* NoHalfWriteVisible: whoever gets the ExtMem mutex finds no transaction
\* half done and no torn page.
THEOREM NoHalfWrite == Spec => []NoHalfWriteVisible
  <1>1. IInv => NoHalfWriteVisible
    BY DEF IInv, AtRestInv, NoHalfWriteVisible, DestClean, Clean
  <1> QED BY <1>1, Invariance, PTL

-----------------------------------------------------------------------------
(* Recovery.                                                               *)

\* The recovered memory while nothing is pending.
LEMMA RecoveredAtRest ==
    ASSUME IInv, ~ Pending
    PROVE  Recovered = dest
  BY DEF Recovered, IInv, TypeOK

\* While a transaction is copied, what recovery restores is complete.
LEMMA RecoveredClean ==
    ASSUME IInv
    PROVE  \A s \in Subsector : Clean(Recovered[s])
  <1>1. CASE ~ Pending
    <2>1. DestClean
      <3>1. pc \in {"copy", "d_erase", "d_program"} => Pending
        BY CopyFacts DEF IInv, CopyingInv, Pending
      <3> QED
        BY <1>1, <3>1 DEF IInv, TypeOK, Pcs, AtRestInv, FillingInv, ClearInv
    <2> QED BY <1>1, <2>1, RecoveredAtRest DEF DestClean
  <1>2. CASE Pending
    <2>1. ValidStruct(index) /\ JournalComplete(index)
      <3>1. CASE pc = "off"
        BY <3>1, <1>2 DEF IInv, AtRestInv
      <3>2. CASE pc \in {"copy", "d_erase", "d_program"}
        BY <3>2 DEF IInv, CopyingInv
      <3>3. CASE pc = "clear"
        <4>1. /\ ValidStruct(index) /\ DestClean
              /\ \A k \in Block : k < index.blocks => journal[k] = dest[index.dest_addr + k]
          BY <3>3, <1>2 DEF IInv, ClearInv, CopiedBlock
        <4>2. \A k \in Block : k < index.blocks => index.dest_addr + k \in Subsector
          BY <4>1, GeometryAssumption DEF ValidStruct, Block, Subsector
        <4> QED BY <4>1, <4>2 DEF JournalComplete, DestClean
      <3> QED
        BY <1>2, <3>1, <3>2, <3>3 DEF IInv, TypeOK, Pcs, AtRestInv, FillingInv
    <2> SUFFICES ASSUME NEW s \in Subsector PROVE Clean(Recovered[s])
      OBVIOUS
    <2>2. CASE Covers(index, s)
      <3>1. s - index.dest_addr \in Block /\ s - index.dest_addr < index.blocks
        BY <2>1, <2>2 DEF Covers, ValidStruct, Block, Subsector
      <3>2. Recovered[s] = journal[s - index.dest_addr]
        BY <1>2, <2>2 DEF Recovered, Covers
      <3> QED BY <2>1, <3>1, <3>2 DEF JournalComplete
    <2>3. CASE ~ Covers(index, s)
      <3>1. Recovered[s] = dest[s]
        BY <2>3 DEF Recovered, Covers
      <3> QED BY <2>1, <2>3, <3>1 DEF JournalComplete
    <2> QED BY <2>2, <2>3
  <1> QED BY <1>1, <1>2

\* RecoverableAlways: wherever the power fails, what init restores from the
\* journal and the destination has no torn page.
THEOREM AlwaysRecoverable == Spec => []RecoverableAlways
  <1>1. IInv => RecoverableAlways
    BY RecoveredClean DEF RecoverableAlways, Clean
  <1> QED BY <1>1, Invariance, PTL

-----------------------------------------------------------------------------
(* secure_write implements AtomicStore.                                    *)

\* Steps that leave the flash alone do not change what is recovered.
LEMMA SameFlash ==
    ASSUME UNCHANGED flash
    PROVE  Recovered' = Recovered
  BY DEF flash, Recovered, Pending

\* Neither do steps while nothing is pending that leave the destination alone.
LEMMA SameDest ==
    ASSUME IInv, IInv', ~ Pending, ~ Pending', UNCHANGED dest
    PROVE  Recovered' = Recovered
  <1>1. Recovered = dest
    BY RecoveredAtRest
  <1>2. Recovered' = dest'
    BY DEF Recovered, IInv, TypeOK
  <1> QED BY <1>1, <1>2

\* Copying, complete or torn, happens only where recovery takes the journal.
LEMMA SameWhileCopying ==
    ASSUME IInv, pc \in {"d_erase", "d_program"}, NEW u,
           dest' = [dest EXCEPT ![jstruct.dest_addr + i] = u],
           UNCHANGED <<journal, index>>
    PROVE  Recovered' = Recovered
  <1>1. /\ i \in Block /\ jstruct.dest_addr + i \in Subsector
        /\ jstruct.dest_addr \in Int /\ jstruct.blocks \in 1 .. 2
        /\ i < jstruct.blocks /\ index = jstruct
        /\ dest \in [Subsector -> [PageNo -> Page]]
    BY CopyFacts DEF IInv, CopyingInv, TypeOK
  <1>2. Pending /\ Pending'
    BY <1>1 DEF Pending
  <1>3. \A s \in Subsector : ~ (s - index.dest_addr \in 0 .. index.blocks - 1)
                                 => dest'[s] = dest[s]
    <2> SUFFICES ASSUME NEW s \in Subsector, ~ (s - index.dest_addr \in 0 .. index.blocks - 1)
                 PROVE  dest'[s] = dest[s]
      OBVIOUS
    <2>1. s # jstruct.dest_addr + i
      BY <1>1 DEF Block, Subsector
    <2> QED BY <1>1, <2>1
  <1> QED BY <1>2, <1>3 DEF Recovered

\* Once everything is copied, clearing the index does not change it either.
LEMMA SameWhenCleared ==
    ASSUME IInv, pc = "clear", UNCHANGED <<dest, journal>>,
           index' = index \/ ~ Pending'
    PROVE  Recovered' = Recovered
  <1>1. CASE index' = index
    BY <1>1 DEF Recovered, Pending
  <1>2. CASE ~ Pending /\ ~ Pending'
    BY <1>2 DEF Recovered
  <1>3. CASE Pending /\ ~ Pending'
    <2>1. /\ ValidStruct(index) /\ dest \in [Subsector -> [PageNo -> Page]]
          /\ \A k \in Block : k < index.blocks => dest[index.dest_addr + k] = journal[k]
      BY <1>3 DEF IInv, ClearInv, CopiedBlock, TypeOK
    <2>2. \A s \in Subsector : s - index.dest_addr \in 0 .. index.blocks - 1
                                  => dest[s] = journal[s - index.dest_addr]
      <3> SUFFICES ASSUME NEW s \in Subsector, s - index.dest_addr \in 0 .. index.blocks - 1
                   PROVE  dest[s] = journal[s - index.dest_addr]
        OBVIOUS
      <3>1. /\ s - index.dest_addr \in Block /\ s - index.dest_addr < index.blocks
            /\ index.dest_addr + (s - index.dest_addr) = s
        BY <2>1 DEF ValidStruct, Block, Subsector
      <3> QED BY <2>1, <3>1
    <2>3. Recovered = dest
      BY <2>1, <2>2 DEF Recovered
    <2>4. Recovered' = dest'
      BY <1>3, <2>1 DEF Recovered
    <2> QED BY <2>3, <2>4
  <1> QED BY <1>1, <1>2, <1>3

\* Writing the index is the moment a call takes effect.
LEMMA IndexTakes ==
    ASSUME IInv, ProgramIndex
    PROVE  Recovered' = Apply(Recovered, call[owner])
  <1>1. /\ owner \in Threads /\ call[owner] \in Patch /\ jstruct = JournalOf(call[owner])
        /\ ValidStruct(jstruct) /\ ~ Pending /\ i = jstruct.blocks
        /\ Size(call[owner]) <= PagesPerSubsector
        /\ \A k \in Block : k < i => FilledBlock(k)
        /\ dest \in [Subsector -> [PageNo -> Page]]
    BY FillFacts DEF ProgramIndex, IInv, FillingInv, TypeOK
  <1>2. Recovered = dest
    BY <1>1, RecoveredAtRest
  <1>3. Pending' /\ index' = jstruct /\ UNCHANGED <<dest, journal>>
    BY <1>1 DEF ProgramIndex, Pending, ValidStruct, Subsector
  <1> SUFFICES ASSUME NEW s \in Subsector
               PROVE  Recovered'[s] = Patched(s, dest[s], call[owner])
    BY <1>2 DEF Recovered, Apply
  <1>4. CASE Covers(jstruct, s)
    <2>1. /\ s - jstruct.dest_addr \in Block /\ s - jstruct.dest_addr < i
          /\ jstruct.dest_addr + (s - jstruct.dest_addr) = s
      BY <1>1, <1>4 DEF Covers, ValidStruct, Block, Subsector
    <2>2. journal[s - jstruct.dest_addr] = Patched(s, dest[s], call[owner])
      BY <1>1, <2>1 DEF FilledBlock
    <2>3. Recovered'[s] = journal[s - jstruct.dest_addr]
      BY <1>3, <1>4 DEF Recovered, Covers
    <2> QED BY <2>2, <2>3
  <1>5. CASE ~ Covers(jstruct, s)
    <2>1. Recovered'[s] = dest[s]
      BY <1>3, <1>5 DEF Recovered, Covers
    <2>2. Patched(s, dest[s], call[owner]) = dest[s]
      BY <1>1, <1>5, PatchedElsewhere
    <2> QED BY <2>1, <2>2
  <1> QED BY <1>4, <1>5

\* What AtomicStore sees of a step that changes neither the recovered memory
\* nor the calls nor who holds the mutex before or after the commit.
LEMMA Stutter ==
    ASSUME UNCHANGED <<call, ret>>, Recovered' = Recovered,
           \A t \in Threads : Committed(t)' = Committed(t)
    PROVE  UNCHANGED Store!vars
  BY DEF Store!vars

\* Every step of ExtMem is a step of AtomicStore or changes nothing there.
LEMMA StoreStep ==
    ASSUME IInv, IInv', [Next]_vars
    PROVE  [Store!Next]_(Store!vars)
  <1> DEFINE done == [t \in Threads |-> Committed(t)]
  <1>1. ASSUME NEW t \in Threads, Call(t) PROVE Store!Next
    <2>1. Recovered' = Recovered /\ done' = done
      BY <1>1, SameFlash DEF Call, Committed
    <2> QED BY <1>1, <2>1 DEF Call, Store!Next, Store!Call
  <1>2. ASSUME NEW t \in Threads, LockTimeout(t) PROVE Store!Next
    <2>1. Recovered' = Recovered /\ done' = done /\ ~ done[t]
      BY <1>2, SameFlash DEF LockTimeout, Committed
    <2>2. Store!Refuse(t)
      BY <1>2, <2>1 DEF LockTimeout, Return, Store!Refuse
    <2> QED BY <2>2 DEF Store!Next
  <1>3. ASSUME NEW t \in Threads, RefuseOverlap(t) PROVE Store!Next
    <2>1. Recovered' = Recovered /\ done' = done /\ ~ done[t]
      BY <1>3, SameFlash DEF RefuseOverlap, Committed
    <2>2. Store!Refuse(t)
      BY <1>3, <2>1 DEF RefuseOverlap, Return, Store!Refuse
    <2> QED BY <2>2 DEF Store!Next
  <1>4. ASSUME NEW t \in Threads, Begin(t) PROVE UNCHANGED Store!vars
    BY <1>4, SameFlash, Stutter DEF Begin, Committed
  <1>5. ASSUME Fill \/ CopyBlock PROVE UNCHANGED Store!vars
    BY <1>5, SameFlash, Stutter DEF Fill, CopyBlock, Committed
  <1>6. ASSUME EraseJournal \/ ProgramJournal PROVE UNCHANGED Store!vars
    <2>1. ~ Pending /\ ~ Pending' /\ UNCHANGED <<dest, call, ret>>
      BY <1>6 DEF EraseJournal, ProgramJournal, IInv, FillingInv, Pending
    <2>2. \A t \in Threads : Committed(t)' = Committed(t)
      BY <1>6 DEF EraseJournal, ProgramJournal, NextPage, Committed
    <2> QED BY <2>1, <2>2, SameDest, Stutter
  <1>7. ASSUME EraseIndex PROVE UNCHANGED Store!vars
    <2>1. ~ Pending /\ ~ Pending' /\ UNCHANGED <<dest, call, ret>>
      BY <1>7, JournalAssumption
      DEF EraseIndex, EmptyIndex, IInv, FillingInv, Pending
    <2>2. \A t \in Threads : Committed(t)' = Committed(t)
      BY <1>7 DEF EraseIndex, Committed
    <2> QED BY <2>1, <2>2, SameDest, Stutter
  <1>8. ASSUME ProgramIndex PROVE Store!Next
    <2>1. /\ pc = "x_program" /\ owner \in Threads /\ call[owner] \in Patch
          /\ ValidStruct(jstruct)
      BY <1>8, FillFacts DEF ProgramIndex
    <2>2. pc' = "copy"
      BY <1>8, <2>1, JournalAssumption
      DEF ProgramIndex, HandleJournal, ValidStruct, Subsector
    <2>3. ~ done[owner] /\ done' = [done EXCEPT ![owner] = TRUE]
      BY <1>8, <2>1, <2>2 DEF ProgramIndex, Committed
    <2>4. Store!Take(owner)
      BY <1>8, <2>1, <2>3, IndexTakes, JournalAssumption DEF ProgramIndex, Store!Take, Store!Apply, Store!Patched, Apply, Patched, Store!PageOf, PageOf, Store!Subsector, Subsector, Store!PageNo, PageNo
    <2> QED BY <2>1, <2>4 DEF Store!Next
  <1>9. ASSUME EraseDest \/ ProgramDest PROVE UNCHANGED Store!vars
    <2>1. Recovered' = Recovered
      BY <1>9, SameWhileCopying DEF EraseDest, ProgramDest
    <2>2. \A t \in Threads : Committed(t)' = Committed(t)
      BY <1>9 DEF EraseDest, ProgramDest, NextPage, Committed
    <2> QED BY <1>9, <2>1, <2>2, Stutter DEF EraseDest, ProgramDest
  <1>10. ASSUME EmptyJournal PROVE Store!Next \/ UNCHANGED Store!vars
    <2>1. Recovered' = Recovered
      BY <1>10, SameWhenCleared, JournalAssumption
      DEF EmptyJournal, EmptyIndex, Pending
    <2>2. CASE owner = Nobody
      BY <1>10, <2>1, <2>2, Stutter, JournalAssumption DEF EmptyJournal, Committed
    <2>3. CASE owner # Nobody
      <3>1. owner \in Threads
        BY <2>3 DEF IInv, TypeOK
      <3>2. done[owner] /\ done' = [done EXCEPT ![owner] = FALSE]
        BY <1>10, <3>1, JournalAssumption DEF EmptyJournal, Committed
      <3>3. Store!Acknowledge(owner)
        BY <1>10, <2>1, <2>3, <3>2 DEF EmptyJournal, Return, Store!Acknowledge
      <3> QED BY <3>1, <3>3 DEF Store!Next
    <2> QED BY <2>2, <2>3
  <1>11. ASSUME Boot PROVE UNCHANGED Store!vars
    <2>1. owner = Nobody /\ owner' = Nobody
      BY <1>11 DEF Boot, IInv, OwnerInv
    <2> QED BY <1>11, <2>1, SameFlash, Stutter, JournalAssumption DEF Boot, Committed
  <1>12. ASSUME PowerLoss PROVE Store!Next
    <2>1. Recovered' = Recovered
      <3>1. CASE UNCHANGED flash
        BY <3>1, SameFlash
      <3>2. CASE pc \in {"j_erase", "j_program"} /\ UNCHANGED <<dest, index>>
        <4>1. ~ Pending /\ ~ Pending'
          BY <3>2 DEF IInv, FillingInv, Pending
        <4> QED BY <3>2, <4>1, SameDest
      <3>3. CASE pc \in {"d_erase", "d_program"} /\ UNCHANGED <<journal, index>>
                 /\ \E u : dest' = [dest EXCEPT ![jstruct.dest_addr + i] = u]
        BY <3>3, SameWhileCopying
      <3>4. CASE pc = "x_program" /\ index' \in TornProgram(jstruct)
                   /\ UNCHANGED <<dest, journal>>
        <4>1. ~ Pending /\ ~ Pending'
          BY <3>4, JournalAssumption DEF TornProgram, IInv, FillingInv, Pending
        <4> QED BY <3>4, <4>1, SameDest
      <3>5. CASE /\ pc \in {"x_erase", "clear"}
                 /\ \E b \in TornErase(index.blocks), d \in TornErase(index.dest_addr) :
                        index' = [blocks |-> b, dest_addr |-> d]
                 /\ UNCHANGED <<dest, journal>>
        <4>1. Pending' => index' = index
          BY <3>5, JournalAssumption DEF TornErase, Pending, IInv, TypeOK
        <4>2. CASE pc = "clear"
          BY <3>5, <4>1, <4>2, SameWhenCleared
        <4>3. CASE pc = "x_erase"
          <5>1. ~ Pending
            BY <4>3 DEF IInv, FillingInv
          <5>2. ~ Pending'
            BY <4>1, <5>1 DEF Pending
          <5> QED BY <3>5, <5>1, <5>2, SameDest
        <4> QED BY <3>5, <4>2, <4>3
      <3> QED
        BY <1>12, <3>1, <3>2, <3>3, <3>4, <3>5 DEF PowerLoss, Interrupted
    <2>2. done' = [t \in Threads |-> FALSE]
      BY <1>12 DEF PowerLoss, Committed
    <2> QED BY <1>12, <2>1, <2>2 DEF PowerLoss, Store!Next, Store!Forget
  <1>13. CASE UNCHANGED vars
    <2>1. UNCHANGED <<flash, call, ret, pc, owner>>
      BY <1>13 DEF vars
    <2> QED BY <2>1, SameFlash, Stutter DEF Committed
  <1> QED
    BY <1>1, <1>2, <1>3, <1>4, <1>5, <1>6, <1>7, <1>8, <1>9, <1>10, <1>11,
       <1>12, <1>13
    DEF Next, HolderStep

\* AtomicWrites: secure_write, seen through the recovery of init, is an
\* indivisible write for any number of threads and any sequence of power
\* losses; EXTMEM_OK is returned only for a write that will survive.
THEOREM SecureWriteIsAtomic == Spec => AtomicWrites
  <1>1. Init => Store!Init
    <2> SUFFICES ASSUME Init PROVE Store!Init
      OBVIOUS
    <2>1. ~ Pending
      BY JournalAssumption DEF Init, EmptyIndex, Pending
    <2>2. Recovered = dest
      BY <2>1 DEF Init, Recovered
    <2>3. [t \in Threads |-> Committed(t)] = [t \in Threads |-> FALSE]
      BY DEF Init, Committed
    <2> QED BY <2>2, <2>3 DEF Init, Store!Init, Store!Subsector, Subsector, Store!PageNo, PageNo
  <1>2. IInv /\ IInv' /\ [Next]_vars => [Store!Next]_(Store!vars)
    BY StoreStep
  <1> QED BY <1>1, <1>2, Invariance, PTL DEF Spec, AtomicWrites, Store!Spec
=============================================================================
