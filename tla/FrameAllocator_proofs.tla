------------------------ MODULE FrameAllocator_proofs ------------------------
(***************************************************************************)
(* The invariants of FrameAllocator hold for every page size, every memory *)
(* map and every sequence of calls.                                        *)
(***************************************************************************)
EXTENDS FrameAllocator, ArithFacts, FiniteSetTheorems

\* Moving a set of elements into, or out of, a finite set changes its
\* cardinality by as many.
LEMMA CardinalityGrows ==
    ASSUME NEW A, NEW B, IsFiniteSet(A), IsFiniteSet(B), A \cap B = {}
    PROVE  IsFiniteSet(A \cup B) /\ Cardinality(A \cup B) = Cardinality(A) + Cardinality(B)
<1>1. Cardinality(A \cap B) = 0
  BY FS_EmptySet, Zenon
<1>2. Cardinality(A) \in Nat /\ Cardinality(B) \in Nat
  BY FS_CardinalityType, Zenon
<1>3. /\ IsFiniteSet(A \cup B)
      /\ Cardinality(A \cup B) = Cardinality(A) + Cardinality(B) - Cardinality(A \cap B)
  BY FS_Union, Zenon
<1> QED
  BY <1>1, <1>2, <1>3

\* Likewise for a subset taken out of a finite set.
LEMMA CardinalityShrinks ==
    ASSUME NEW A, NEW B, IsFiniteSet(A), B \subseteq A
    PROVE  /\ IsFiniteSet(A \ B)
           /\ Cardinality(A \ B) = Cardinality(A) - Cardinality(B)
           /\ Cardinality(B) <= Cardinality(A)
           /\ Cardinality(A) \in Nat /\ Cardinality(B) \in Nat
<1>1. A \cap B = B
  BY Zenon
<1>2. IsFiniteSet(B) /\ Cardinality(B) <= Cardinality(A)
  BY FS_Subset, Zenon
<1>3. IsFiniteSet(A \ B) /\ Cardinality(A \ B) = Cardinality(A) - Cardinality(A \cap B)
  BY FS_Difference, Zenon
<1>4. Cardinality(A) \in Nat /\ Cardinality(B) \in Nat
  BY <1>2, FS_CardinalityType, Zenon
<1> QED
  BY <1>1, <1>2, <1>3, <1>4, Zenon

USE PageAssumption

-----------------------------------------------------------------------------
(* Page arithmetic.                                                        *)

\* ALIGN_DOWN and ALIGN_UP give page-aligned addresses on either side.
LEMMA AlignFacts ==
    ASSUME NEW x \in Nat
    PROVE  /\ ALIGN_DOWN(x) \in Nat /\ ALIGN_DOWN(x) % PageSize = 0 /\ ALIGN_DOWN(x) <= x
           /\ ALIGN_UP(x) \in Nat /\ ALIGN_UP(x) % PageSize = 0 /\ x <= ALIGN_UP(x)
           /\ frame_index_of(x) \in Nat
<1>1. ASSUME NEW y \in Nat
      PROVE  ALIGN_DOWN(y) \in Nat /\ ALIGN_DOWN(y) % PageSize = 0
             /\ ALIGN_DOWN(y) <= y /\ y - PageSize < ALIGN_DOWN(y)
  <2>1. y \div PageSize \in Nat /\ y % PageSize \in 0 .. PageSize - 1
        /\ y = PageSize * (y \div PageSize) + (y % PageSize)
    BY DivMod, Zenon
  <2>2. ALIGN_DOWN(y) = PageSize * (y \div PageSize) + 0
    BY <2>1 DEF ALIGN_DOWN
  <2>3. ALIGN_DOWN(y) % PageSize = 0
    <3> DEFINE q == y \div PageSize
    <3>1. q \in Nat /\ 0 \in 0 .. PageSize - 1 /\ ALIGN_DOWN(y) = PageSize * q + 0
      BY <2>1, <2>2
    <3> HIDE DEF q
    <3> QED BY <3>1, QuotientUnique
  <2>4. ALIGN_DOWN(y) = y - (y % PageSize)
    BY Zenon DEF ALIGN_DOWN
  <2>5. PageSize * (y \div PageSize) \in Nat
    BY <2>1
  <2> QED BY <2>1, <2>2, <2>3, <2>4, <2>5, SMTT(60)
<1>2. x + PageSize - 1 \in Nat
  OBVIOUS
<1>3. frame_index_of(x) \in Nat
  BY DivMod, Zenon DEF frame_index_of
<1> QED BY <1>1, <1>2, <1>3, SMTT(60) DEF ALIGN_UP

\* On page-aligned addresses both are the identity, and comparing frame
\* indices is comparing addresses.
LEMMA AlignedFacts ==
    ASSUME NEW b \in Nat, b % PageSize = 0, NEW i \in Nat
    PROVE  /\ ALIGN_DOWN(b) = b /\ ALIGN_UP(b) = b
           /\ frame_index_of(b) <= i <=> b <= frame_addr_of(i)
           /\ i < frame_index_of(b) <=> frame_addr_of(i) < b
<1> DEFINE q == b \div PageSize
<1>1. q \in Nat /\ b = PageSize * q + 0
  BY DivMod, Zenon
<1>2. ALIGN_DOWN(b) = b
  BY DEF ALIGN_DOWN
<1>3. (PageSize * q + (PageSize - 1)) % PageSize = PageSize - 1
  <2> HIDE DEF q
  <2> QED BY <1>1, QuotientUnique
<1>4. b + PageSize - 1 = PageSize * q + (PageSize - 1)
  <2> HIDE DEF q
  <2> QED BY <1>1
<1>5. ALIGN_UP(b) = b
  BY <1>3, <1>4 DEF ALIGN_UP, ALIGN_DOWN
<1>6. frame_addr_of(i) = PageSize * i /\ b = PageSize * q
  <2> HIDE DEF q
  <2> QED BY <1>1 DEF frame_addr_of
<1>7. (q <= i <=> PageSize * q <= PageSize * i) /\ (i < q <=> PageSize * i < PageSize * q)
  <2> HIDE DEF q
  <2> QED BY <1>1, ScaleOrder, Zenon
<1> QED BY <1>2, <1>5, <1>6, <1>7, Zenon DEF frame_index_of

\* A frame's address leads back to the frame.
LEMMA IndexOfAddress ==
    ASSUME NEW i \in Nat
    PROVE  frame_index_of(frame_addr_of(i)) = i /\ frame_addr_of(i) % PageSize = 0
<1>1. frame_addr_of(i) = PageSize * i + 0
  BY DEF frame_addr_of
<1> QED BY <1>1, QuotientUnique DEF frame_index_of

-----------------------------------------------------------------------------
(* The inductive invariant.                                                *)

Marking == {"usable", "kernel", "modules", "reserve"}

\* What frame_init has re-reserved by the time it is at pc.
Kept ==
    IF pc = "modules"
    THEN OuterFrames(boot.kernel) \cup ModuleFrames(1 .. step - 1)
    ELSE IF pc = "reserve"
    THEN OuterFrames(boot.kernel) \cup ModuleFrames(DOMAIN boot.modules)
    ELSE IF pc = "ready" THEN BootReserved ELSE {}

\* Where the machine is in its boot sequence, and what holds there.
StageInv ==
    /\ pc \in {"off", "early"} => g_alloc_bm = {} /\ g_usable_bm = {}
    /\ pc \notin {"ready", "halted"} => live = {} /\ g_hint = 0
    /\ pc # "halted" => panicked = "none"
    /\ pc = "early" => g_cursor <= g_end
    /\ pc = "kernel" => step = 1
    /\ pc = "modules" => step \in DOMAIN boot.modules
    /\ pc = "ready" => g_boot_phys_page = "frame"
    /\ g_base % PageSize = 0 /\ g_cursor % PageSize = 0

\* Who a frame belongs to: a frame that is not allocated is usable, and one
\* that is both was handed out or re-reserved, never both.
OwnerInv ==
    pc \in Marking \cup {"ready"} =>
        /\ Frames \ g_alloc_bm \subseteq g_usable_bm
        /\ Kept \subseteq g_alloc_bm
        /\ live \subseteq g_usable_bm \cap g_alloc_bm
        /\ live \cap Kept = {}
        /\ g_usable_bm \cap g_alloc_bm \subseteq live \cup Kept

CountInv == FreeCountExact /\ NoFreeBelowHint

IInv == TypeOK /\ StageInv /\ CountInv /\ OwnerInv /\ PanicsAreHonest

-----------------------------------------------------------------------------
(* Initial state.                                                          *)

\* The invariant holds before any allocator is initialised.
LEMMA InitIInv == Init => IInv
<1> SUFFICES ASSUME Init PROVE IInv
  BY Zenon
<1> USE DEF Init
<1>1. TypeOK
  BY DEF TypeOK, Stages, Panics
<1>2. StageInv
  <2>1. 0 % PageSize = 0
    BY AlignFacts, IndexOfAddress DEF frame_addr_of
  <2> QED BY <2>1, Zenon DEF StageInv
<1>3. CountInv
  BY FS_EmptySet, Zenon DEF CountInv, FreeCountExact, NoFreeBelowHint, Free
<1>4. OwnerInv
  BY Zenon DEF OwnerInv, Marking
<1>5. PanicsAreHonest
  BY Zenon DEF PanicsAreHonest
<1> QED BY <1>1, <1>2, <1>3, <1>4, <1>5, Zenon DEF IInv

-----------------------------------------------------------------------------
(* The early allocator.                                                    *)

\* The bootloader's tables are sequences of entries.
LEMMA BootFacts ==
    ASSUME boot \in BootInfos
    PROVE  /\ Len(boot.memmap) \in Nat /\ DOMAIN boot.memmap = 1 .. Len(boot.memmap)
           /\ \A i \in 1 .. Len(boot.memmap) :
                 boot.memmap[i].base \in Nat /\ boot.memmap[i].length \in Nat
           /\ Len(boot.modules) \in Nat /\ DOMAIN boot.modules = 1 .. Len(boot.modules)
           /\ boot.modules = <<>> <=> Len(boot.modules) = 0
<1> DEFINE MapEntry == [base : Nat, length : Nat, usable : BOOLEAN]
<1>1. boot.memmap \in Seq(MapEntry) /\ boot.modules \in Seq(PhysRange)
  BY BootAssumption, Zenon DEF BootInfo
<1>2. \A e \in MapEntry : e.base \in Nat /\ e.length \in Nat
  BY Zenon
<1> HIDE DEF MapEntry
<1>3. Len(boot.memmap) \in Nat /\ DOMAIN boot.memmap = 1 .. Len(boot.memmap)
      /\ \A i \in 1 .. Len(boot.memmap) : boot.memmap[i] \in MapEntry
  BY <1>1
<1>4. Len(boot.modules) \in Nat /\ DOMAIN boot.modules = 1 .. Len(boot.modules)
  BY <1>1
<1>5. boot.modules = <<>> <=> Len(boot.modules) = 0
  BY <1>1
<1> QED BY <1>2, <1>3, <1>4, <1>5, Zenon

\* pick_region_from_memmap yields a page-aligned range of naturals.
LEMMA RegionFacts ==
    ASSUME boot \in BootInfos
    PROVE  /\ pick_region_from_memmap.base \in Nat
           /\ pick_region_from_memmap.end \in Nat
           /\ pick_region_from_memmap.base % PageSize = 0
<1> DEFINE mm == boot.memmap
           n == Len(mm)
           size == [i \in 1..n |-> UsableSize(mm[i])]
<1>1. n \in Nat /\ DOMAIN mm = 1..n
      /\ \A i \in 1..n : mm[i].base \in Nat /\ mm[i].length \in Nat
  BY BootFacts, Zenon
<1>2. \A i \in 1..n : /\ UsableStart(mm[i]) \in Nat /\ UsableStart(mm[i]) % PageSize = 0
                      /\ UsableEnd(mm[i]) \in Nat
  <2> TAKE i \in 1..n
  <2>1. mm[i].base \in Nat /\ mm[i].base + mm[i].length \in Nat
    BY <1>1, SMTT(60)
  <2> HIDE DEF mm
  <2> QED BY <2>1, AlignFacts, Zenon DEF UsableStart, UsableEnd, EntryEnd
<1>3. \A i \in 1..n : size[i] = UsableSize(mm[i]) /\ size[i] \in Int
  <2> TAKE i \in 1..n
  <2>1. UsableSize(mm[i]) \in Int
    <3> HIDE DEF mm, n
    <3> QED BY <1>2 DEF UsableSize
  <2> QED BY <2>1, Zenon
<1>4. ASSUME NEW S \in SUBSET (1..n), S # {}
      PROVE  FirstLargest(S) \in S
  <2>1. \E i \in S : \A j \in S : size[i] > size[j] \/ (size[i] = size[j] /\ i <= j)
    <3> HIDE DEF n, size
    <3> QED BY <1>1, <1>3, <1>4, FirstLargestExists, Zenon
  <2>2. \E i \in S : \A j \in S : \/ UsableSize(mm[i]) > UsableSize(mm[j])
                                  \/ UsableSize(mm[i]) = UsableSize(mm[j]) /\ i <= j
    <3> HIDE DEF n, size, mm
    <3> QED BY <2>1, <1>3, ZenonT(60)
  <2> QED BY <2>2, Zenon DEF FirstLargest
<1>5. Candidates \subseteq 1..n
  BY <1>1, Zenon DEF Candidates
<1>6. CASE Candidates = {}
  <2>1. 0 % PageSize = 0
    BY IndexOfAddress DEF frame_addr_of
  <2> QED BY <1>6, <2>1, Zenon DEF pick_region_from_memmap
<1>7. CASE Candidates # {}
  <2> DEFINE below == {i \in Candidates : UsableEnd(boot.memmap[i]) <= FourGiB}
             S == IF below # {} THEN below ELSE Candidates
             best == FirstLargest(S)
  <2>1. S \in SUBSET (1..n) /\ S # {}
    BY <1>5, <1>7, Zenon
  <2>2. best \in 1..n
    <3> HIDE DEF S, n
    <3> QED BY <2>1, <1>4, Zenon
  <2>3. pick_region_from_memmap = [base |-> UsableStart(mm[best]), end |-> UsableEnd(mm[best])]
    BY <1>7, Zenon DEF pick_region_from_memmap
  <2> HIDE DEF best, mm, n
  <2> QED BY <2>2, <2>3, <1>2, Zenon
<1> QED BY <1>6, <1>7, Zenon

\* early_init takes the region it picks for the early allocator, or panics.
LEMMA EarlyInitStep == IInv /\ early_init => IInv'
<1> SUFFICES ASSUME IInv, early_init PROVE IInv'
  BY Zenon
<1> DEFINE r == pick_region_from_memmap
<1>1. r.base \in Nat /\ r.end \in Nat /\ r.base % PageSize = 0
  BY RegionFacts, Zenon DEF IInv, TypeOK
<1>2. /\ pc = "off" /\ pc' \in {"early", "halted"}
      /\ g_base' = r.base /\ g_cursor' = r.base /\ g_end' = r.end
      /\ pc' = "early" => r.base < r.end /\ g_boot_phys_page' = "early" /\ panicked' = panicked
      /\ pc' = "halted" => panicked' = "early_init" /\ g_boot_phys_page' = g_boot_phys_page
      /\ UNCHANGED <<boot, step, pmm, live>>
  <2> HIDE DEF r
  <2>1. LET q == r IN
       /\ g_base' = q.base /\ g_cursor' = q.base /\ g_end' = q.end
       /\ IF q.base = 0 \/ q.end <= q.base
          THEN panic("early_init") /\ UNCHANGED g_boot_phys_page
          ELSE pc' = "early" /\ g_boot_phys_page' = "early" /\ UNCHANGED panicked
    BY Zenon DEF early_init, r
  <2> QED BY <2>1, <1>1, SMTT(60) DEF early_init, panic
<1> HIDE DEF r
<1>3. TypeOK'
  BY <1>1, <1>2, Zenon DEF IInv, TypeOK, pmm, Stages, Panics, Frames
<1>4. StageInv'
  BY <1>1, <1>2, SMTT(60) DEF IInv, StageInv, pmm
<1>5. CountInv'
  BY <1>2, Zenon DEF IInv, CountInv, FreeCountExact, NoFreeBelowHint, Free, pmm
<1>6. OwnerInv'
  BY <1>2, Zenon DEF OwnerInv, Marking
<1>7. PanicsAreHonest'
  <2>1. Free' = Free
    BY <1>2, Zenon DEF Free, pmm
  <2>2. panicked' \in {panicked, "early_init"}
    BY <1>2, ZenonT(60)
  <2> QED BY <2>1, <2>2, Zenon DEF IInv, PanicsAreHonest
<1> QED BY <1>3, <1>4, <1>5, <1>6, <1>7, ZenonT(60) DEF IInv

\* early_alloc_page hands out the page at its cursor, or panics at the end.
LEMMA EarlyAllocStep == IInv /\ early_alloc_page => IInv'
<1> SUFFICES ASSUME IInv, early_alloc_page PROVE IInv'
  BY Zenon
<1>0. pc = "early"
  BY Zenon DEF IInv, StageInv, early_alloc_page
<1>1. /\ g_cursor \in Nat /\ g_end \in Nat /\ g_cursor % PageSize = 0
      /\ UNCHANGED <<boot, step, g_base, g_end, g_boot_phys_page, pmm, live>>
  BY Zenon DEF IInv, TypeOK, StageInv, early_alloc_page
<1>2. \/ pc' = "halted" /\ panicked' = "out of early pages" /\ g_cursor' = g_cursor
      \/ /\ pc' = "early" /\ panicked' = panicked
         /\ g_cursor' = g_cursor + PageSize /\ g_cursor' <= g_end
  <2>1. CASE g_cursor + PageSize > g_end
    BY <2>1, Zenon DEF early_alloc_page, panic
  <2>2. CASE ~(g_cursor + PageSize > g_end)
    <3>1. pc' = pc /\ panicked' = panicked /\ g_cursor' = g_cursor + PageSize
      BY <2>2, Zenon DEF early_alloc_page
    <3>2. g_cursor + PageSize <= g_end
      BY <2>2, <1>1, SMTT(60)
    <3> QED BY <1>0, <3>1, <3>2, Zenon
  <2> QED BY <2>1, <2>2, Zenon
<1>3. g_cursor' \in Nat /\ g_cursor' % PageSize = 0
  <2> DEFINE q == g_cursor \div PageSize
  <2>1. q \in Nat /\ g_cursor = PageSize * q
    BY <1>1, DivMod, SMTT(60)
  <2> HIDE DEF q
  <2>2. g_cursor + PageSize = PageSize * (q + 1) + 0
    BY <2>1
  <2>3. q + 1 \in Nat /\ 0 \in 0 .. PageSize - 1
    BY <2>1
  <2>4. (g_cursor + PageSize) % PageSize = 0
    BY <2>2, <2>3, QuotientUnique, SMTT(60)
  <2>5. g_cursor + PageSize \in Nat
    BY <1>1
  <2> QED BY <1>1, <1>2, <2>4, <2>5, ZenonT(60)
<1>4. TypeOK'
  BY <1>1, <1>2, <1>3, Zenon DEF IInv, TypeOK, pmm, Stages, Panics, Frames
<1>5. StageInv'
  BY <1>0, <1>1, <1>2, <1>3, Zenon DEF IInv, StageInv, pmm
<1>6. CountInv'
  BY <1>1, Zenon DEF IInv, CountInv, FreeCountExact, NoFreeBelowHint, Free, pmm
<1>7. OwnerInv'
  BY <1>2, Zenon DEF OwnerInv, Marking
<1>8. PanicsAreHonest'
  BY <1>1, <1>2, Zenon DEF IInv, PanicsAreHonest, Free, pmm
<1> QED BY <1>4, <1>5, <1>6, <1>7, <1>8, Zenon DEF IInv

-----------------------------------------------------------------------------
(* frame_init.                                                             *)

\* The sets the counters count are finite.
LEMMA FiniteFacts ==
    ASSUME TypeOK
    PROVE  /\ IsFiniteSet(Frames) /\ IsFiniteSet(Free)
           /\ Free \subseteq Frames /\ Frames \subseteq Nat
           /\ \A S \in SUBSET Frames : IsFiniteSet(S) /\ Cardinality(S) \in Nat
<1>1. IsFiniteSet(Frames)
  BY FS_Interval DEF TypeOK, Frames
<1>2. Free \subseteq Frames
  BY Zenon DEF TypeOK, Free
<1>3. Frames \subseteq Nat
  BY DEF TypeOK, Frames
<1>4. \A S \in SUBSET Frames : IsFiniteSet(S) /\ Cardinality(S) \in Nat
  BY <1>1, FS_Subset, FS_CardinalityType, Zenon
<1> QED BY <1>1, <1>2, <1>3, <1>4, Zenon

\* Rounding a memory-map range outwards or inwards stays within the frames.
LEMMA RangeFacts == \A r : OuterFrames(r) \subseteq Frames /\ InnerFrames(r) \subseteq Frames
  BY Zenon DEF OuterFrames, InnerFrames

\* The topology loop of compute_max_phys_and_count ends with a natural.
LEMMA MaxPhysType == boot \in BootInfos => MaxPhys \in Nat
<1> SUFFICES ASSUME boot \in BootInfos PROVE MaxPhys \in Nat
  BY Zenon
<1> DEFINE n == Len(boot.memmap)
           ends == [i \in 1..n |-> EntryEnd(boot.memmap[i])]
           T == {0} \cup {EntryEnd(boot.memmap[i]) : i \in DOMAIN boot.memmap}
<1>1. n \in Nat /\ DOMAIN boot.memmap = 1..n
      /\ \A i \in 1..n : EntryEnd(boot.memmap[i]) \in Nat
  BY BootFacts, SMTT(60) DEF EntryEnd
<1>2. \A i \in 1..n : ends[i] = EntryEnd(boot.memmap[i]) /\ ends[i] \in Int
  BY <1>1
<1>3. T \subseteq Nat
  BY <1>1
<1>4. \E m \in T : \A k \in T : k <= m
  <2>1. CASE n = 0
    <3>1. T = {0}
      BY <1>1, <2>1
    <3> QED BY <3>1
  <2>2. CASE n # 0
    <3>1. 1..n \in SUBSET (1..n) /\ 1..n # {}
      BY <1>1, <2>2, SMTT(60)
    <3>2. PICK i \in 1..n : \A j \in 1..n : ends[i] > ends[j] \/ (ends[i] = ends[j] /\ i <= j)
      <4> HIDE DEF n, ends
      <4> QED BY <1>1, <1>2, <3>1, FirstLargestExists, Zenon
    <3>3. ends[i] \in T /\ ends[i] \in Nat
      BY <1>1, <1>2, Zenon
    <3>4. ASSUME NEW k \in T PROVE k <= ends[i]
      <4>1. CASE k = 0
        <5> HIDE DEF ends
        <5> QED BY <4>1, <3>3, SMTT(60)
      <4>2. CASE k # 0
        <5>1. PICK j \in 1..n : k = EntryEnd(boot.memmap[j])
          BY <1>1, <4>2, Zenon
        <5>2. k = ends[j] /\ ends[j] \in Int /\ ends[i] \in Int
          BY <5>1, <1>2, Zenon
        <5> HIDE DEF ends
        <5> QED BY <5>2, <3>2, SMTT(60)
      <4> QED BY <4>1, <4>2, Zenon
    <3> HIDE DEF ends, T
    <3> QED BY <3>3, <3>4, Zenon
  <2> QED BY <2>1, <2>2, Zenon
<1>5. SetMax(T) \in T
  <2> HIDE DEF T
  <2> QED BY <1>4, ZenonT(60) DEF SetMax
<1> QED BY <1>3, <1>5, Zenon DEF MaxPhys

\* frame_init takes early pages for the two bitmaps and marks every frame
\* allocated, or panics.
LEMMA FrameInitStep == IInv /\ frame_init => IInv'
<1> SUFFICES ASSUME IInv, frame_init PROVE IInv'
  BY Zenon
<1> DEFINE count == frame_index_of(ALIGN_UP(MaxPhys))
           bm_bytes == (count + 7) \div 8
           pages == 2 * (ALIGN_UP(bm_bytes) \div PageSize)
           got == EarlyPagesFor(pages)
<1>1. MaxPhys \in Nat /\ count \in Nat
  BY MaxPhysType, AlignFacts, Zenon DEF IInv, TypeOK
<1>2. pages \in Nat
  <2>1. bm_bytes \in Nat
    <3> HIDE DEF count
    <3> QED BY <1>1, DivMod
  <2>2. ALIGN_UP(bm_bytes) \in Nat
    <3> HIDE DEF bm_bytes
    <3> QED BY <2>1, AlignFacts, Zenon
  <2>3. ALIGN_UP(bm_bytes) \div PageSize \in Nat
    <3> HIDE DEF bm_bytes
    <3> QED BY <2>2, DivMod, Zenon
  <2> QED BY <2>3, SMTT(60)
<1>3. /\ pc = "early" /\ g_cursor \in Nat /\ g_end \in Nat /\ g_cursor <= g_end
      /\ g_cursor % PageSize = 0 /\ live = {} /\ g_hint = 0
      /\ g_alloc_bm = {} /\ g_usable_bm = {}
  BY Zenon DEF IInv, TypeOK, StageInv, frame_init
<1>4. got \in Nat
  <2> HIDE DEF pages
  <2>1. (g_end - g_cursor) \div PageSize \in Nat
    BY <1>3, DivMod, SMTT(60)
  <2> QED BY <2>1, <1>2, Zenon DEF EarlyPagesFor
<1>5. g_cursor + got * PageSize \in Nat /\ (g_cursor + got * PageSize) % PageSize = 0
  <2> DEFINE q == g_cursor \div PageSize
  <2>1. q \in Nat /\ g_cursor = PageSize * q
    BY <1>3, DivMod
  <2> HIDE DEF q, got
  <2>2. g_cursor + got * PageSize = PageSize * (q + got) + 0
    BY <2>1, <1>4, SMTT(60)
  <2>3. q + got \in Nat /\ 0 \in 0 .. PageSize - 1
    BY <2>1, <1>4, SMTT(60)
  <2>4. PageSize * (q + got) \in Nat
    BY <2>3
  <2> QED BY <2>2, <2>3, <2>4, QuotientUnique, SMTT(60)
<1>6. /\ g_max_phys' = MaxPhys /\ g_frame_count' = count
      /\ g_cursor' \in {g_cursor, g_cursor + got * PageSize}
      /\ UNCHANGED <<boot, g_base, g_end, g_boot_phys_page, g_hint, live>>
  BY Zenon DEF frame_init
<1>7. \/ /\ pc' = "halted" /\ panicked' \in {"zero frames", "out of early pages"}
         /\ UNCHANGED <<step, g_alloc_bm, g_usable_bm, g_free_count>>
      \/ /\ pc' = "usable" /\ step' = 1 /\ panicked' = panicked
         /\ g_alloc_bm' = 0 .. count - 1 /\ g_usable_bm' = {} /\ g_free_count' = 0
  BY Zenon DEF frame_init, panic
<1> HIDE DEF count, got, pages, bm_bytes
<1>8. g_cursor' \in Nat /\ g_cursor' % PageSize = 0
  BY <1>3, <1>5, <1>6, Zenon
<1>9. Frames' = 0 .. count - 1
  BY <1>6, Zenon DEF Frames
<1>10. Free' = {} /\ Free = {}
  BY <1>3, <1>7, Zenon DEF Free
<1>11. TypeOK'
  <2>1. g_alloc_bm' \subseteq Frames' /\ g_usable_bm' \subseteq Frames' /\ live' \subseteq Frames'
    BY <1>3, <1>6, <1>7, <1>9, ZenonT(60)
  <2>2. pc' \in Stages /\ panicked' \in Panics /\ step' \in Nat \ {0} /\ g_free_count' \in Nat
    <3>1. pc' \in Stages
      BY <1>7, Zenon DEF Stages
    <3>2. panicked' \in {"zero frames", "out of early pages", panicked}
      BY <1>7, Zenon
    <3>3. panicked' \in Panics
      BY <3>2, Zenon DEF IInv, TypeOK, Panics
    <3>4. step' \in {step, 1} /\ g_free_count' \in {g_free_count, 0}
      BY <1>7, Zenon
    <3> QED BY <3>1, <3>3, <3>4, SMTT(60) DEF IInv, TypeOK
  <2>3. g_frame_count' \in Nat /\ g_max_phys' \in Nat /\ g_hint' \in Nat
    BY <1>1, <1>3, <1>6, Zenon
  <2>4. boot' \in BootInfos /\ g_base' \in Nat /\ g_end' \in Nat
        /\ g_boot_phys_page' \in {"none", "early", "frame"}
    BY <1>6, Zenon DEF IInv, TypeOK
  <2> QED BY <2>1, <2>2, <2>3, <2>4, <1>8, ZenonT(60) DEF TypeOK
<1>12. StageInv'
  BY <1>3, <1>6, <1>7, <1>8, Zenon DEF IInv, StageInv
<1>13. CountInv'
  <2>1. g_free_count' = 0
    BY <1>7, <1>10, FS_EmptySet, Zenon DEF IInv, CountInv, FreeCountExact
  <2> QED BY <2>1, <1>10, FS_EmptySet, Zenon DEF CountInv, FreeCountExact, NoFreeBelowHint
<1>14. OwnerInv'
  <2>1. pc' = "usable" => g_alloc_bm' = Frames' /\ g_usable_bm' = {} /\ live' = {} /\ Kept' = {}
    BY <1>3, <1>6, <1>7, <1>9, ZenonT(60) DEF Kept
  <2> QED BY <2>1, <1>7, Zenon DEF OwnerInv, Marking
<1>15. PanicsAreHonest'
  <2>1. panicked' \in {"zero frames", "out of early pages", panicked}
    BY <1>7, Zenon
  <2> QED BY <2>1, <1>10, ZenonT(60) DEF IInv, PanicsAreHonest
<1> QED BY <1>11, <1>12, <1>13, <1>14, <1>15, Zenon DEF IInv

\* What mark_range_allocated does to the free frames and their count.
LEMMA ReserveFacts ==
    ASSUME IInv, pc \in Marking, NEW r, mark_range_allocated(r)
    PROVE  /\ g_alloc_bm' = g_alloc_bm \cup OuterFrames(r)
           /\ UNCHANGED <<g_usable_bm, g_frame_count, g_max_phys>>
           /\ Frames' = Frames /\ g_alloc_bm' \subseteq Frames
           /\ Frames \ g_alloc_bm' \subseteq g_usable_bm
           /\ Free' \subseteq Free
           /\ g_free_count' \in Nat /\ FreeCountExact'
<1> DEFINE R == OuterFrames(r)
           fresh == R \ g_alloc_bm
<1>1. /\ g_alloc_bm' = g_alloc_bm \cup R
      /\ UNCHANGED <<g_usable_bm, g_frame_count, g_max_phys>>
      /\ g_free_count' = IF Cardinality(fresh) <= g_free_count
                         THEN g_free_count - Cardinality(fresh) ELSE 0
  BY Zenon DEF mark_range_allocated
<1>2. /\ R \subseteq Frames /\ g_alloc_bm \subseteq Frames /\ Frames' = Frames
      /\ Frames \ g_alloc_bm \subseteq g_usable_bm /\ TypeOK
      /\ g_free_count = Cardinality(Free)
  BY <1>1, RangeFacts, Zenon DEF IInv, TypeOK, OwnerInv, CountInv, FreeCountExact, Frames
<1> HIDE DEF R
<1>3. fresh \subseteq Free /\ Free' = Free \ fresh
  BY <1>1, <1>2, Zenon DEF Free
<1>4. /\ Cardinality(Free \ fresh) = Cardinality(Free) - Cardinality(fresh)
      /\ Cardinality(fresh) <= Cardinality(Free)
      /\ Cardinality(Free) \in Nat /\ Cardinality(fresh) \in Nat
  <2>1. IsFiniteSet(Free)
    BY <1>2, FiniteFacts, Zenon
  <2> HIDE DEF fresh
  <2> QED BY <2>1, <1>3, CardinalityShrinks, Zenon
<1>5. g_free_count' = Cardinality(Free') /\ g_free_count' \in Nat
  <2> HIDE DEF fresh
  <2> QED BY <1>1, <1>2, <1>3, <1>4, SMTT(60)
<1> QED BY <1>1, <1>2, <1>3, <1>5, Zenon DEF FreeCountExact, R

\* What mark_range_usable_and_free does to them.
LEMMA ReleaseFacts ==
    ASSUME IInv, pc \in Marking, NEW r, mark_range_usable_and_free(r)
    PROVE  /\ g_alloc_bm' = g_alloc_bm \ InnerFrames(r)
           /\ g_usable_bm' = g_usable_bm \cup InnerFrames(r)
           /\ UNCHANGED <<g_frame_count, g_max_phys, g_hint>>
           /\ Frames' = Frames /\ g_alloc_bm' \subseteq Frames /\ g_usable_bm' \subseteq Frames
           /\ Frames \ g_alloc_bm' \subseteq g_usable_bm'
           /\ g_free_count' \in Nat /\ FreeCountExact'
<1> DEFINE R == InnerFrames(r)
           fresh == R \cap g_alloc_bm
<1>1. /\ g_alloc_bm' = g_alloc_bm \ R
      /\ g_usable_bm' = g_usable_bm \cup R
      /\ UNCHANGED <<g_frame_count, g_max_phys, g_hint>>
      /\ g_free_count' = g_free_count + Cardinality(fresh)
  BY Zenon DEF mark_range_usable_and_free
<1>2. /\ R \subseteq Frames /\ g_alloc_bm \subseteq Frames /\ g_usable_bm \subseteq Frames
      /\ Frames' = Frames /\ Frames \ g_alloc_bm \subseteq g_usable_bm /\ TypeOK
      /\ g_free_count = Cardinality(Free)
  BY <1>1, RangeFacts, Zenon DEF IInv, TypeOK, OwnerInv, CountInv, FreeCountExact, Frames
<1> HIDE DEF R
<1>3. fresh \cap Free = {} /\ Free' = Free \cup fresh /\ fresh \subseteq Frames
  BY <1>1, <1>2, Zenon DEF Free
<1>4. Cardinality(Free \cup fresh) = Cardinality(Free) + Cardinality(fresh)
      /\ Cardinality(Free) \in Nat /\ Cardinality(fresh) \in Nat
  <2>1. IsFiniteSet(Free) /\ IsFiniteSet(fresh) /\ Free \cap fresh = {}
        /\ Cardinality(Free) \in Nat /\ Cardinality(fresh) \in Nat
    BY <1>2, <1>3, FiniteFacts, Zenon
  <2> HIDE DEF fresh
  <2> QED BY <2>1, CardinalityGrows, Zenon
<1>5. g_free_count' = Cardinality(Free') /\ g_free_count' \in Nat
  <2> HIDE DEF fresh
  <2> QED BY <1>1, <1>2, <1>3, <1>4, SMTT(60)
<1>6. g_alloc_bm' \subseteq Frames /\ g_usable_bm' \subseteq Frames
      /\ Frames \ g_alloc_bm' \subseteq g_usable_bm'
  BY <1>1, <1>2, ZenonT(60)
<1> QED BY <1>1, <1>2, <1>5, <1>6, Zenon DEF FreeCountExact, R

\* Freeing one usable entry of the memory map frees frames of no one.
LEMMA UsableStep == IInv /\ frame_init_usable => IInv'
<1> SUFFICES ASSUME IInv, frame_init_usable PROVE IInv'
  BY Zenon
<1> DEFINE e == boot.memmap[step]
           r == [base |-> e.base, end |-> EntryEnd(e)]
<1>1. /\ pc = "usable" /\ pc' \in {"usable", "kernel"}
      /\ pc' = "kernel" => step' = 1
      /\ step' \in Nat \ {0}
      /\ UNCHANGED <<boot, early, g_boot_phys_page, live, panicked>>
  BY DEF frame_init_usable, IInv, TypeOK
<1>2. mark_range_usable_and_free(r) \/ UNCHANGED pmm
  BY Zenon DEF frame_init_usable
<1> HIDE DEF r, e
<1>3. live = {} /\ g_hint = 0 /\ Kept = {} /\ Kept' = {}
      /\ g_usable_bm \cap g_alloc_bm = {} /\ pc \in Marking /\ pc' \in Marking
  BY <1>1, Zenon DEF IInv, StageInv, Kept, OwnerInv, Marking
<1>4. /\ g_alloc_bm' \subseteq Frames /\ g_usable_bm' \subseteq Frames /\ Frames' = Frames
      /\ Frames \ g_alloc_bm' \subseteq g_usable_bm'
      /\ g_usable_bm' \cap g_alloc_bm' = {}
      /\ UNCHANGED <<g_frame_count, g_max_phys, g_hint>>
      /\ g_free_count' \in Nat /\ FreeCountExact'
  <2>1. CASE mark_range_usable_and_free(r)
    BY <2>1, <1>3, ReleaseFacts, Zenon
  <2>2. CASE UNCHANGED pmm
    BY <2>2, <1>3, Zenon DEF pmm, IInv, TypeOK, OwnerInv, CountInv, FreeCountExact, Free, Frames
  <2> QED BY <1>2, <2>1, <2>2, Zenon
<1>5. TypeOK'
  BY <1>1, <1>3, <1>4, Zenon DEF IInv, TypeOK, early, Stages
<1>6. StageInv'
  BY <1>1, <1>3, <1>4, Zenon DEF IInv, StageInv, early
<1>7. CountInv'
  <2>1. \A i \in Free' : i \in Nat
    BY <1>5, FiniteFacts, <1>4, ZenonT(60) DEF Free, Frames, IInv, TypeOK
  <2> QED BY <2>1, <1>3, <1>4, SMTT(60) DEF CountInv, NoFreeBelowHint
<1>8. OwnerInv'
  BY <1>1, <1>3, <1>4, Zenon DEF OwnerInv
<1>9. PanicsAreHonest'
  <2>1. panicked' = "none"
    BY <1>1, Zenon DEF IInv, StageInv
  <2> QED BY <2>1, Zenon DEF PanicsAreHonest
<1> QED BY <1>5, <1>6, <1>7, <1>8, <1>9, Zenon DEF IInv

\* The three re-reservations of frame_init share an argument: the range joins
\* both what is kept and what is marked allocated.
LEMMA ReserveStep ==
    ASSUME IInv, pc \in Marking, NEW r, mark_range_allocated(r),
           pc' \in Marking \cup {"ready"}, g_hint' = 0, step' \in Nat \ {0},
           UNCHANGED <<boot, early, live, panicked>>,
           g_boot_phys_page' \in {"none", "early", "frame"},
           pc' = "kernel" => step' = 1,
           pc' = "modules" => step' \in DOMAIN boot.modules,
           pc' = "ready" => g_boot_phys_page' = "frame",
           Kept' = Kept \cup OuterFrames(r)
    PROVE  IInv'
<1>1. /\ g_alloc_bm' = g_alloc_bm \cup OuterFrames(r)
      /\ UNCHANGED <<g_usable_bm, g_frame_count, g_max_phys>>
      /\ Frames' = Frames /\ g_alloc_bm' \subseteq Frames
      /\ Frames \ g_alloc_bm' \subseteq g_usable_bm
      /\ Free' \subseteq Free
      /\ g_free_count' \in Nat /\ FreeCountExact'
  BY ReserveFacts, Zenon
<1>2. live = {} /\ panicked = "none"
  BY Zenon DEF IInv, StageInv, Marking
<1>3. TypeOK'
  BY <1>1, Zenon DEF IInv, TypeOK, early, Stages, Marking
<1>4. StageInv'
  BY <1>2, Zenon DEF IInv, StageInv, early, Marking
<1>5. CountInv'
  <2>1. \A i \in Free : i \in Nat
    BY FiniteFacts, Zenon DEF IInv
  <2> QED BY <2>1, <1>1, SMTT(60) DEF CountInv, NoFreeBelowHint
<1>6. OwnerInv'
  <2>1. /\ Kept \subseteq g_alloc_bm
        /\ g_usable_bm \cap g_alloc_bm \subseteq live \cup Kept
    BY Zenon DEF IInv, OwnerInv
  <2> QED BY <2>1, <1>1, <1>2, ZenonT(60) DEF OwnerInv
<1>7. PanicsAreHonest'
  BY <1>2, Zenon DEF PanicsAreHonest
<1> QED BY <1>3, <1>4, <1>5, <1>6, <1>7, ZenonT(60) DEF IInv

\* A range covers the same frames as long as the topology is the same.
LEMMA RangesStable ==
    ASSUME boot' = boot, g_frame_count' = g_frame_count
    PROVE  /\ OuterFrames(boot.kernel)' = OuterFrames(boot.kernel)
           /\ \A K : ModuleFrames(K)' = ModuleFrames(K)
<1>1. Frames' = Frames
  BY Zenon DEF Frames
<1>2. OuterFrames(boot.kernel)' = OuterFrames(boot.kernel)
  BY <1>1, Zenon DEF OuterFrames
<1>3. ASSUME NEW K PROVE ModuleFrames(K)' = ModuleFrames(K)
  BY <1>1, Zenon DEF ModuleFrames, OuterFrames
<1> QED BY <1>2, <1>3, Zenon

\* The frames of one module more.
LEMMA OneModuleMore ==
    ASSUME NEW K, NEW k
    PROVE  ModuleFrames(K \cup {k}) = ModuleFrames(K) \cup OuterFrames(boot.modules[k])
  BY RangeFacts, Zenon DEF ModuleFrames

\* Reserving the kernel's image marks its frames used.
LEMMA KernelStep == IInv /\ frame_init_kernel => IInv'
<1> SUFFICES ASSUME IInv, frame_init_kernel PROVE IInv'
  BY Zenon
<1>1. /\ pc = "kernel" /\ pc \in Marking /\ step = 1 /\ step' = 1 /\ g_hint' = 0
      /\ mark_range_allocated(boot.kernel)
      /\ pc' = (IF boot.modules = <<>> THEN "reserve" ELSE "modules")
      /\ UNCHANGED <<boot, early, live, panicked, g_boot_phys_page>>
  BY Zenon DEF frame_init_kernel, IInv, StageInv, Marking
<1>2. g_frame_count' = g_frame_count
  BY <1>1, Zenon DEF mark_range_allocated
<1>3. OuterFrames(boot.kernel)' = OuterFrames(boot.kernel)
  BY <1>1, <1>2, RangesStable, ZenonT(60)
<1>4. /\ Len(boot.modules) \in Nat /\ DOMAIN boot.modules = 1 .. Len(boot.modules)
      /\ boot.modules = <<>> <=> Len(boot.modules) = 0
  BY BootFacts, Zenon DEF IInv, TypeOK
<1>5. Kept' = Kept \cup OuterFrames(boot.kernel)
  <2>1. CASE boot.modules = <<>>
    <3>1. DOMAIN boot'.modules = {} /\ pc' = "reserve"
      BY <1>1, <1>4, <2>1, SMTT(60)
    <3> QED BY <3>1, <1>1, <1>3, Zenon DEF Kept, ModuleFrames
  <2>2. CASE boot.modules # <<>>
    <3>1. 1 .. step' - 1 = {} /\ pc' = "modules"
      BY <1>1, <2>2, SMTT(60)
    <3> QED BY <3>1, <1>1, <1>3, ZenonT(60) DEF Kept, ModuleFrames
  <2> QED BY <2>1, <2>2, Zenon
<1>6. pc' = "modules" => step' \in DOMAIN boot.modules
  BY <1>1, <1>4, SMTT(60)
<1>7. pc' \in Marking \cup {"ready"} /\ pc' \notin {"kernel", "ready"}
  BY <1>1, Zenon DEF Marking
<1>8. g_boot_phys_page' \in {"none", "early", "frame"}
  BY <1>1, Zenon DEF IInv, TypeOK
<1> QED BY <1>1, <1>5, <1>6, <1>7, <1>8, ReserveStep, SMTT(60)

\* Reserving the modules marks their frames used.
LEMMA ModulesStep == IInv /\ frame_init_modules => IInv'
<1> SUFFICES ASSUME IInv, frame_init_modules PROVE IInv'
  BY Zenon
<1> DEFINE r == boot.modules[step]
<1>1. /\ pc = "modules" /\ pc \in Marking /\ g_hint' = 0
      /\ step \in Nat \ {0} /\ step \in DOMAIN boot.modules
      /\ mark_range_allocated(r)
      /\ IF step < Len(boot.modules)
         THEN step' = step + 1 /\ pc' = pc
         ELSE step' = 1 /\ pc' = "reserve"
      /\ UNCHANGED <<boot, early, live, panicked, g_boot_phys_page>>
  BY Zenon DEF frame_init_modules, IInv, TypeOK, StageInv, Marking
<1>2. g_frame_count' = g_frame_count
  BY <1>1, Zenon DEF mark_range_allocated
<1>3. /\ OuterFrames(boot.kernel)' = OuterFrames(boot.kernel)
      /\ \A K : ModuleFrames(K)' = ModuleFrames(K)
  BY <1>1, <1>2, RangesStable, ZenonT(60)
<1>4. Len(boot.modules) \in Nat /\ DOMAIN boot.modules = 1 .. Len(boot.modules)
  BY BootFacts, Zenon DEF IInv, TypeOK
<1>5. Kept' = Kept \cup OuterFrames(r)
  <2>1. CASE step < Len(boot.modules)
    <3>1. 1 .. step' - 1 = (1 .. step - 1) \cup {step} /\ pc' = "modules"
      BY <1>1, <2>1, SMTT(60)
    <3>2. Kept' = OuterFrames(boot.kernel) \cup ModuleFrames((1 .. step - 1) \cup {step})
      <4>1. Kept' = OuterFrames(boot.kernel)' \cup ModuleFrames(1 .. step - 1)'
        BY <3>1, Zenon DEF Kept
      <4>2. ModuleFrames(1 .. step - 1)' = ModuleFrames((1 .. step - 1) \cup {step})
        BY <3>1, <1>1, <1>2, ZenonT(60) DEF ModuleFrames, OuterFrames, Frames
      <4> QED BY <4>1, <4>2, <1>3, ZenonT(60)
    <3>3. Kept = OuterFrames(boot.kernel) \cup ModuleFrames(1 .. step - 1)
      BY <1>1, Zenon DEF Kept
    <3>4. ModuleFrames((1 .. step - 1) \cup {step})
             = ModuleFrames(1 .. step - 1) \cup OuterFrames(r)
      BY OneModuleMore, ZenonT(60)
    <3> QED BY <3>2, <3>3, <3>4, ZenonT(60)
  <2>2. CASE ~(step < Len(boot.modules))
    <3>1. DOMAIN boot'.modules = (1 .. step - 1) \cup {step} /\ pc' = "reserve"
      BY <1>1, <1>4, <2>2, SMTT(60)
    <3>2. Kept' = OuterFrames(boot.kernel) \cup ModuleFrames((1 .. step - 1) \cup {step})
      <4>1. Kept' = OuterFrames(boot.kernel)' \cup ModuleFrames(DOMAIN boot.modules)'
        BY <3>1, Zenon DEF Kept
      <4>2. ModuleFrames(DOMAIN boot.modules)' = ModuleFrames((1 .. step - 1) \cup {step})
        BY <3>1, <1>1, <1>2, ZenonT(60) DEF ModuleFrames, OuterFrames, Frames
      <4> QED BY <4>1, <4>2, <1>3, Zenon
    <3>3. Kept = OuterFrames(boot.kernel) \cup ModuleFrames(1 .. step - 1)
      BY <1>1, Zenon DEF Kept
    <3>4. ModuleFrames((1 .. step - 1) \cup {step})
             = ModuleFrames(1 .. step - 1) \cup OuterFrames(r)
      BY OneModuleMore, Zenon
    <3> QED BY <3>2, <3>3, <3>4, Zenon
  <2> QED BY <2>1, <2>2, Zenon
<1>6. pc' = "modules" => step' \in DOMAIN boot.modules
  BY <1>1, <1>4, SMTT(60)
<1>7. pc' \in Marking \cup {"ready"} /\ pc' \notin {"kernel", "ready"} /\ step' \in Nat \ {0}
  BY <1>1, SMTT(60) DEF Marking
<1>8. g_boot_phys_page' \in {"none", "early", "frame"}
  BY <1>1, Zenon DEF IInv, TypeOK
<1> HIDE DEF r
<1> QED BY <1>1, <1>5, <1>6, <1>7, <1>8, ReserveStep, ZenonT(60)

\* The frames marked for the early allocator are exactly its pages.
LEMMA EarlyFramesMarked ==
    ASSUME IInv PROVE OuterFrames(early_reserved_region) = EarlyFrames
<1>1. /\ g_base \in Nat /\ g_base % PageSize = 0
      /\ g_cursor \in Nat /\ g_cursor % PageSize = 0
  BY Zenon DEF IInv, TypeOK, StageInv
<1>2. ASSUME NEW i \in Frames
      PROVE  i \in OuterFrames(early_reserved_region) <=> i \in EarlyFrames
  <2>1. i \in Nat
    BY <1>2, FiniteFacts, Zenon DEF IInv
  <2>2. /\ frame_index_of(ALIGN_DOWN(g_base)) <= i <=> g_base <= frame_addr_of(i)
        /\ i < frame_index_of(ALIGN_UP(g_cursor)) <=> frame_addr_of(i) < g_cursor
    BY <1>1, <2>1, AlignedFacts, Zenon
  <2>3. frame_addr_of(i) \in Nat
    BY <2>1, SMTT(60) DEF frame_addr_of
  <2>4. i \in EarlyFrames => g_base < g_cursor
    BY <1>1, <2>3, SMTT(60) DEF EarlyFrames
  <2> QED BY <2>2, <2>4, Zenon DEF OuterFrames, EarlyFrames, early_reserved_region
<1> QED BY <1>2, Zenon DEF OuterFrames, EarlyFrames

\* Reserving the early pages marks used what early_alloc_page handed out.
LEMMA ReserveEarlyStep == IInv /\ frame_init_reserve_early => IInv'
<1> SUFFICES ASSUME IInv, frame_init_reserve_early PROVE IInv'
  BY Zenon
<1> DEFINE r == early_reserved_region
<1>1. /\ pc = "reserve" /\ pc \in Marking /\ g_hint' = 0 /\ pc' = "ready"
      /\ step \in Nat \ {0} /\ step' = step
      /\ mark_range_allocated(r)
      /\ g_boot_phys_page' = "frame"
      /\ UNCHANGED <<boot, early, live, panicked>>
  BY Zenon DEF frame_init_reserve_early, IInv, TypeOK, Marking
<1>2. g_frame_count' = g_frame_count
  BY <1>1, Zenon DEF mark_range_allocated
<1>3. /\ OuterFrames(boot.kernel)' = OuterFrames(boot.kernel)
      /\ \A K : ModuleFrames(K)' = ModuleFrames(K)
  BY <1>1, <1>2, RangesStable, ZenonT(60)
<1>4. EarlyFrames' = EarlyFrames
  BY <1>1, <1>2, Zenon DEF EarlyFrames, early, Frames
<1>5. OuterFrames(r) = EarlyFrames
  BY EarlyFramesMarked, Zenon
<1>6. Kept' = BootReserved'
  BY <1>1, Zenon DEF Kept
<1>7. BootReserved' = EarlyFrames \cup OuterFrames(boot.kernel)
                      \cup ModuleFrames(DOMAIN boot.modules)
  <2>1. ModuleFrames(DOMAIN boot.modules)' = ModuleFrames(DOMAIN boot.modules)
    BY <1>1, <1>2, Zenon DEF ModuleFrames, OuterFrames, Frames
  <2> QED BY <2>1, <1>3, <1>4, ZenonT(60) DEF BootReserved
<1>8. Kept = OuterFrames(boot.kernel) \cup ModuleFrames(DOMAIN boot.modules)
  BY <1>1, Zenon DEF Kept
<1> HIDE DEF r
<1>9. Kept' = Kept \cup OuterFrames(r)
  BY <1>5, <1>6, <1>7, <1>8, ZenonT(60)
<1> QED BY <1>1, <1>9, ReserveStep, ZenonT(60)

-----------------------------------------------------------------------------
(* The entry points.                                                       *)

\* Calls after boot leave the ranges boot reserved as they are.
LEMMA ReservedStable ==
    ASSUME boot' = boot, g_frame_count' = g_frame_count, UNCHANGED early
    PROVE  Frames' = Frames /\ BootReserved' = BootReserved
<1>1. Frames' = Frames
  BY Zenon DEF Frames
<1>2. OuterFrames(boot.kernel)' = OuterFrames(boot.kernel)
  BY RangesStable, Zenon
<1>3. ModuleFrames(DOMAIN boot.modules)' = ModuleFrames(DOMAIN boot.modules)
  BY <1>1, Zenon DEF ModuleFrames, OuterFrames
<1>4. EarlyFrames' = EarlyFrames
  BY <1>1, Zenon DEF EarlyFrames, early
<1> QED BY <1>1, <1>2, <1>3, <1>4, ZenonT(60) DEF BootReserved

\* With no frame free below the hint, the first pass of frame_alloc finds the
\* lowest free frame whenever there is one.
LEMMA SearchFacts ==
    ASSUME TypeOK, NoFreeBelowHint
    PROVE  /\ Free # {} => SearchResult # {}
           /\ \A i \in SearchResult : i \in Free /\ \A j \in Free : i <= j
<1> DEFINE pass0 == {i \in Free : g_hint <= i}
<1>1. pass0 = Free
  BY Zenon DEF NoFreeBelowHint
<1>2. Free \in SUBSET Nat
  BY FiniteFacts, Zenon
<1>3. {i \in Free : i < g_hint} = {}
  <2> SUFFICES ASSUME NEW i \in Free, i < g_hint PROVE FALSE
    BY Zenon
  <2>1. i \in Nat /\ g_hint \in Nat /\ g_hint <= i
    BY <1>2, Zenon DEF NoFreeBelowHint, TypeOK
  <2> QED BY <2>1
<1>4. SearchResult = IF Free # {} THEN {SetMin(Free)} ELSE {}
  BY <1>1, <1>3, Zenon DEF SearchResult
<1>5. Free # {} => SetMin(Free) \in Free /\ \A j \in Free : SetMin(Free) <= j
  BY <1>2, LeastElement, Zenon DEF SetMin
<1> QED BY <1>4, <1>5, Zenon

\* A panic of an entry point leaves the allocator as it was.
LEMMA PanicStep ==
    ASSUME IInv, pc = "ready", NEW why \in Panics \ {"bitmap corruption"}, panic(why),
           why = "OOM" => Free = {},
           UNCHANGED <<boot, step, early, g_boot_phys_page, pmm, live>>
    PROVE  IInv'
<1> USE DEF panic
<1>1. TypeOK'
  BY Zenon DEF IInv, TypeOK, Stages, early, pmm, Frames
<1>2. StageInv'
  BY Zenon DEF IInv, StageInv, early, pmm
<1>3. CountInv'
  BY Zenon DEF IInv, CountInv, FreeCountExact, NoFreeBelowHint, Free, pmm
<1>4. OwnerInv'
  BY Zenon DEF OwnerInv, Marking
<1>5. PanicsAreHonest'
  BY Zenon DEF PanicsAreHonest, Free, pmm
<1> QED BY <1>1, <1>2, <1>3, <1>4, <1>5, ZenonT(60) DEF IInv

\* frame_alloc hands out a frame that is clear in the bitmap and counts it, or
\* panics.
LEMMA AllocStep == IInv /\ frame_alloc => IInv'
<1> SUFFICES ASSUME IInv, frame_alloc PROVE IInv'
  BY Zenon
<1>1. /\ pc = "ready" /\ TypeOK /\ NoFreeBelowHint /\ g_free_count = Cardinality(Free)
      /\ UNCHANGED <<boot, step, early, g_boot_phys_page>>
  BY Zenon DEF frame_alloc, IInv, CountInv, FreeCountExact
<1>2. IsFiniteSet(Free) /\ Cardinality(Free) \in Nat /\ Free \subseteq Frames /\ Frames \subseteq Nat
  BY <1>1, FiniteFacts, Zenon
<1>3. CASE g_free_count = 0
  <2>1. Free = {}
    BY <1>1, <1>2, <1>3, FS_EmptySet, ZenonT(60)
  <2>2. panic("OOM") /\ UNCHANGED <<pmm, live>>
    BY <1>3, Zenon DEF frame_alloc
  <2>3. "OOM" \in Panics \ {"bitmap corruption"}
    BY Zenon DEF Panics
  <2> QED BY <1>1, <2>1, <2>2, <2>3, PanicStep, ZenonT(60)
<1>4. CASE g_free_count # 0
  <2>1. Free # {}
    BY <1>1, <1>4, FS_EmptySet, ZenonT(60)
  <2>2. SearchResult # {}
    BY <2>1, <1>1, SearchFacts, ZenonT(60)
  <2>3. PICK i \in SearchResult :
            /\ g_alloc_bm' = g_alloc_bm \cup {i}
            /\ g_free_count' = g_free_count - 1
            /\ g_hint' = i + 1
            /\ live' = live \cup {i}
            /\ UNCHANGED <<pc, panicked, g_usable_bm, g_frame_count, g_max_phys>>
    BY <1>4, <2>2, Zenon DEF frame_alloc
  <2>4. i \in Free /\ i \in Frames /\ i \in Nat /\ \A j \in Free : i <= j
    BY <2>3, <1>1, <1>2, SearchFacts, ZenonT(60)
  <2>5. Frames' = Frames /\ BootReserved' = BootReserved
    BY <1>1, <2>3, ReservedStable, ZenonT(60)
  <2>6. Free' = Free \ {i}
    BY <2>3, Zenon DEF Free
  <2>7. Cardinality(Free') = g_free_count - 1 /\ g_free_count' \in Nat
    <3>1. Cardinality(Free \ {i}) = Cardinality(Free) - 1
      BY <2>4, <1>2, FS_RemoveElement, ZenonT(60)
    <3> QED BY <3>1, <2>3, <2>6, <1>1, <1>2, <1>4, SMTT(60)
  <2>8. TypeOK'
    BY <1>1, <2>3, <2>4, <2>5, <2>7, SMTT(60) DEF TypeOK, early
  <2>9. StageInv'
    BY <1>1, <2>3, Zenon DEF IInv, StageInv, early
  <2>10. CountInv'
    <3>1. \A j \in Free' : i + 1 <= j
      BY <2>4, <2>6, <1>2, SMTT(60)
    <3> QED BY <3>1, <2>3, <2>7, ZenonT(60) DEF CountInv, FreeCountExact, NoFreeBelowHint
  <2>11. OwnerInv'
    <3>1. Kept = BootReserved /\ Kept' = BootReserved /\ pc' = "ready"
      BY <1>1, <2>3, <2>5, ZenonT(60) DEF Kept
    <3>2. /\ Frames \ g_alloc_bm \subseteq g_usable_bm
          /\ Kept \subseteq g_alloc_bm
          /\ live \subseteq g_usable_bm \cap g_alloc_bm
          /\ live \cap Kept = {}
          /\ g_usable_bm \cap g_alloc_bm \subseteq live \cup Kept
      BY <1>1, Zenon DEF IInv, OwnerInv
    <3>3. i \in g_usable_bm /\ i \notin g_alloc_bm
      BY <2>4, Zenon DEF Free
    <3> QED BY <3>1, <3>2, <3>3, <2>3, <2>5, ZenonT(60) DEF OwnerInv
  <2>12. PanicsAreHonest'
    BY <1>1, <2>3, Zenon DEF IInv, StageInv, PanicsAreHonest
  <2> QED BY <2>8, <2>9, <2>10, <2>11, <2>12, ZenonT(60) DEF IInv
<1> QED BY <1>3, <1>4, ZenonT(60)

\* n_frame_free, for every address that a caller may pass.
LEMMA FreeStep == ASSUME IInv, NEW paddr \in Addresses, n_frame_free(paddr) PROVE IInv'
<1> DEFINE i == frame_index_of(paddr)
<1>1. /\ pc = "ready" /\ TypeOK /\ NoFreeBelowHint /\ g_free_count = Cardinality(Free)
      /\ i \notin BootReserved
      /\ UNCHANGED <<boot, step, early, g_boot_phys_page>>
  BY Zenon DEF n_frame_free, IInv, CountInv, FreeCountExact
<1>2. IsFiniteSet(Free) /\ Cardinality(Free) \in Nat /\ Free \subseteq Frames /\ Frames \subseteq Nat
  BY <1>1, FiniteFacts, Zenon
<1>3. CASE \E why \in {"unaligned", "out of bounds", "non-usable", "double free"} :
              panic(why) /\ UNCHANGED <<pmm, live>>
  <2>1. PICK why \in {"unaligned", "out of bounds", "non-usable", "double free"} :
              panic(why) /\ UNCHANGED <<pmm, live>>
    BY <1>3, Zenon
  <2>2. why \in Panics \ {"bitmap corruption"} /\ why # "OOM"
    BY <2>1, Zenon DEF Panics
  <2> QED BY <1>1, <2>1, <2>2, PanicStep, ZenonT(60)
<1>4. CASE /\ i \in g_usable_bm /\ i \in g_alloc_bm
           /\ g_alloc_bm' = g_alloc_bm \ {i}
           /\ g_free_count' = g_free_count + 1
           /\ g_hint' = HintAfterFree(i)
           /\ live' = live \ {i}
           /\ UNCHANGED <<pc, panicked, g_usable_bm, g_frame_count, g_max_phys>>
  <2> HIDE DEF i
  <2>1. i \in Frames /\ i \in Nat /\ g_hint \in Nat
    BY <1>1, <1>2, <1>4, ZenonT(60) DEF TypeOK
  <2>2. Frames' = Frames /\ BootReserved' = BootReserved
    BY <1>1, <1>4, ReservedStable, ZenonT(60)
  <2>3. Free' = Free \cup {i} /\ i \notin Free
    BY <1>4, Zenon DEF Free
  <2>4. Cardinality(Free') = g_free_count + 1 /\ g_free_count' \in Nat
    <3>1. Cardinality(Free \cup {i}) = Cardinality(Free) + 1
      BY <2>3, <1>2, FS_AddElement, ZenonT(60)
    <3> QED BY <3>1, <2>3, <1>1, <1>2, <1>4, SMTT(60)
  <2>5. g_hint' \in Nat /\ g_hint' <= g_hint /\ g_hint' <= i
    BY <2>1, <1>4, SMTT(60) DEF HintAfterFree
  <2>6. TypeOK'
    BY <1>1, <1>4, <2>1, <2>2, <2>4, <2>5, ZenonT(60) DEF TypeOK, early
  <2>7. StageInv'
    BY <1>1, <1>4, ZenonT(60) DEF IInv, StageInv, early
  <2>8. CountInv'
    <3>1. \A j \in Free' : g_hint' <= j
      BY <1>1, <1>2, <2>1, <2>3, <2>5, SMTT(60) DEF NoFreeBelowHint
    <3> QED BY <3>1, <1>4, <2>4, ZenonT(60) DEF CountInv, FreeCountExact, NoFreeBelowHint
  <2>9. OwnerInv'
    <3>1. Kept = BootReserved /\ Kept' = BootReserved /\ pc' = "ready"
      BY <1>1, <1>4, <2>2, ZenonT(60) DEF Kept
    <3>2. /\ Frames \ g_alloc_bm \subseteq g_usable_bm
          /\ Kept \subseteq g_alloc_bm
          /\ live \subseteq g_usable_bm \cap g_alloc_bm
          /\ live \cap Kept = {}
          /\ g_usable_bm \cap g_alloc_bm \subseteq live \cup Kept
      BY <1>1, Zenon DEF IInv, OwnerInv
    <3> QED BY <3>1, <3>2, <1>1, <1>4, <2>2, ZenonT(60) DEF OwnerInv
  <2>10. PanicsAreHonest'
    BY <1>1, <1>4, Zenon DEF IInv, StageInv, PanicsAreHonest
  <2> QED BY <2>6, <2>7, <2>8, <2>9, <2>10, ZenonT(60) DEF IInv
<1> QED BY <1>3, <1>4, Zenon DEF n_frame_free

-----------------------------------------------------------------------------
(* The theorems.                                                           *)

\* Every step keeps the invariant: one case for each action.
LEMMA Inductive == IInv /\ [Next]_vars => IInv'
<1> SUFFICES ASSUME IInv, [Next]_vars PROVE IInv'
  BY Zenon
<1>1. CASE UNCHANGED vars
  <2>1. Frames' = Frames /\ BootReserved' = BootReserved /\ Free' = Free
    BY <1>1, ReservedStable, Zenon DEF vars, pmm, early, Free
  <2>2. Kept' = Kept
    <3>1. OuterFrames(boot.kernel)' = OuterFrames(boot.kernel)
      BY <1>1, RangesStable, Zenon DEF vars, pmm
    <3>2. ModuleFrames(1 .. step - 1)' = ModuleFrames(1 .. step - 1)
      BY <1>1, <2>1, Zenon DEF vars, ModuleFrames, OuterFrames
    <3>3. ModuleFrames(DOMAIN boot.modules)' = ModuleFrames(DOMAIN boot.modules)
      BY <1>1, <2>1, Zenon DEF vars, ModuleFrames, OuterFrames
    <3> QED BY <1>1, <2>1, <3>1, <3>2, <3>3, ZenonT(60) DEF Kept, vars
  <2>3. TypeOK'
    BY <1>1, <2>1, Zenon DEF IInv, TypeOK, vars, pmm, early
  <2>4. StageInv'
    BY <1>1, Zenon DEF IInv, StageInv, vars, pmm, early
  <2>5. CountInv'
    BY <1>1, <2>1, Zenon DEF IInv, CountInv, FreeCountExact, NoFreeBelowHint, vars, pmm
  <2>6. OwnerInv'
    BY <1>1, <2>1, <2>2, Zenon DEF IInv, OwnerInv, vars, pmm
  <2>7. PanicsAreHonest'
    BY <1>1, <2>1, Zenon DEF IInv, PanicsAreHonest, vars
  <2> QED BY <2>3, <2>4, <2>5, <2>6, <2>7, ZenonT(60) DEF IInv
<1> QED
  BY <1>1, EarlyInitStep, EarlyAllocStep, FrameInitStep, UsableStep, KernelStep, ModulesStep,
     ReserveEarlyStep, AllocStep, FreeStep, ZenonT(60) DEF Next

\* The inductive invariant holds in every reachable state, for every page
\* size, memory map and sequence of calls.
THEOREM Invariance == Spec => []IInv
  BY InitIInv, Inductive, PTL DEF Spec

\* Both bitmaps stay inside the managed frames and every variable keeps its type.
THEOREM TypeCorrect == Spec => []TypeOK
<1>1. IInv => TypeOK
  BY Zenon DEF IInv
<1> QED BY <1>1, Invariance, PTL

\* frame_free_count is the number of free frames, and g_hint skips none.
THEOREM CountAndHint == Spec => [](FreeCountExact /\ NoFreeBelowHint)
<1>1. IInv => FreeCountExact /\ NoFreeBelowHint
  BY Zenon DEF IInv, CountInv
<1> QED BY <1>1, Invariance, PTL

\* What frame_alloc has handed out belongs to nobody else.
THEOREM Exclusive == Spec => []HandedOutFramesAreExclusive
<1>1. IInv => HandedOutFramesAreExclusive
  <2> SUFFICES ASSUME IInv, pc = "ready"
               PROVE  /\ live \cap BootReserved = {}
                      /\ live \subseteq g_usable_bm
                      /\ \A i \in live : frame_is_allocated(frame_addr_of(i))
    BY Zenon DEF HandedOutFramesAreExclusive
  <2>1. live \cap BootReserved = {} /\ live \subseteq g_usable_bm \cap g_alloc_bm
    BY Zenon DEF IInv, OwnerInv, Kept
  <2>2. ASSUME NEW i \in live PROVE frame_is_allocated(frame_addr_of(i))
    <3>1. i \in Nat /\ i \in g_alloc_bm
      BY <2>1, FiniteFacts, ZenonT(60) DEF IInv, TypeOK
    <3> QED BY <3>1, IndexOfAddress, Zenon DEF frame_is_allocated
  <2> QED BY <2>1, <2>2, Zenon
<1> QED BY <1>1, Invariance, PTL

\* No usable frame is lost.
THEOREM NothingLost == Spec => []NoFrameLost
<1>1. IInv => NoFrameLost
  BY Zenon DEF IInv, OwnerInv, Kept, NoFrameLost, Free
<1> QED BY <1>1, Invariance, PTL

\* frame_alloc never reports corruption, and reports OOM only when out of frames.
THEOREM HonestPanics == Spec => []PanicsAreHonest
<1>1. IInv => PanicsAreHonest
  BY ZenonT(60) DEF IInv
<1> QED BY <1>1, Invariance, PTL

\* What a step does to the frames handed out and to the free ones.
LEMMA StepFacts ==
    ASSUME IInv, Next
    PROVE  \/ pc = "ready" /\ pc' = "ready" /\ UNCHANGED early
              /\ \E i \in Free : /\ \A j \in Free : i <= j
                                 /\ Free' = Free \ {i} /\ live' = live \cup {i}
           \/ pc = "ready" /\ pc' = "ready" /\ UNCHANGED early
              /\ \E i \in live : Free' = Free \cup {i} /\ live' = live \ {i}
           \/ pc' = "halted" /\ pc # "halted" /\ UNCHANGED live /\ (pc = "ready" => UNCHANGED early)
              /\ IF pc = "ready" THEN Free' = Free ELSE Free' = {}
           \/ pc # "halted" /\ pc' # "halted" /\ pc # "ready" /\ UNCHANGED live
<1> USE DEF panic
<1>1. CASE early_init
  <2>1. pc = "off" /\ UNCHANGED <<pmm, live>> /\ (pc' = "halted" \/ pc' = "early")
    BY <1>1, Zenon DEF early_init
  <2>2. Free' = {}
    BY <2>1, Zenon DEF IInv, StageInv, Free, pmm
  <2> QED BY <2>1, <2>2, ZenonT(60)
<1>2. CASE early_alloc_page
  <2>1. pc = "early" /\ UNCHANGED <<pmm, live>> /\ (pc' = "halted" \/ pc' = pc)
    BY <1>2, Zenon DEF early_alloc_page, IInv, StageInv
  <2>2. Free' = {}
    BY <2>1, Zenon DEF IInv, StageInv, Free, pmm
  <2> QED BY <2>1, <2>2, ZenonT(60)
<1>3. CASE frame_init
  <2>1. /\ pc = "early" /\ UNCHANGED live
        /\ (pc' = "halted" /\ UNCHANGED <<g_alloc_bm, g_usable_bm>>) \/ pc' = "usable"
    BY <1>3, Zenon DEF frame_init
  <2>2. pc' = "halted" => Free' = {}
    BY <2>1, Zenon DEF IInv, StageInv, Free
  <2> QED BY <2>1, <2>2, ZenonT(60)
<1>4. CASE frame_init_usable \/ frame_init_kernel \/ frame_init_modules \/ frame_init_reserve_early
  BY <1>4, ZenonT(60) DEF frame_init_usable, frame_init_kernel, frame_init_modules, frame_init_reserve_early
<1>5. CASE frame_alloc
  <2>1. pc = "ready" /\ UNCHANGED early /\ TypeOK /\ NoFreeBelowHint
    BY <1>5, Zenon DEF frame_alloc, IInv, CountInv
  <2>2. \/ pc' = "halted" /\ UNCHANGED <<pmm, live>>
        \/ \E i \in SearchResult :
             /\ g_alloc_bm' = g_alloc_bm \cup {i} /\ live' = live \cup {i}
             /\ UNCHANGED <<pc, g_usable_bm>>
    BY <1>5, Zenon DEF frame_alloc
  <2>3. CASE pc' = "halted" /\ UNCHANGED <<pmm, live>>
    <3>1. Free' = Free
      BY <2>3, Zenon DEF Free, pmm
    <3> QED BY <2>1, <2>3, <3>1, ZenonT(60)
  <2>4. ASSUME NEW i \in SearchResult, g_alloc_bm' = g_alloc_bm \cup {i}, live' = live \cup {i},
               UNCHANGED <<pc, g_usable_bm>>
        PROVE  pc' = "ready" /\ \E f \in Free : /\ \A j \in Free : f <= j
                                 /\ Free' = Free \ {f} /\ live' = live \cup {f}
    <3>1. i \in Free /\ \A j \in Free : i <= j
      BY <2>1, <2>4, SearchFacts, ZenonT(60)
    <3>2. Free' = Free \ {i}
      BY <2>4, ZenonT(60) DEF Free
    <3> QED BY <2>1, <2>4, <3>1, <3>2, ZenonT(60)
  <2> QED BY <2>1, <2>2, <2>3, <2>4, ZenonT(60)
<1>6. ASSUME NEW paddr \in Addresses, n_frame_free(paddr)
      PROVE  /\ pc = "ready" /\ UNCHANGED early
             /\ \/ pc' = "halted" /\ UNCHANGED live /\ Free' = Free
                \/ pc' = "ready" /\ \E i \in live : Free' = Free \cup {i} /\ live' = live \ {i}
  <2> DEFINE i == frame_index_of(paddr)
  <2>1. pc = "ready" /\ UNCHANGED early /\ i \notin BootReserved
    BY <1>6, ZenonT(60) DEF n_frame_free
  <2>2. \/ pc' = "halted" /\ UNCHANGED <<pmm, live>>
        \/ /\ i \in g_usable_bm /\ i \in g_alloc_bm
           /\ g_alloc_bm' = g_alloc_bm \ {i} /\ live' = live \ {i}
           /\ UNCHANGED <<pc, g_usable_bm>>
    BY <1>6, ZenonT(60) DEF n_frame_free
  <2> HIDE DEF i
  <2>3. CASE pc' = "halted" /\ UNCHANGED <<pmm, live>>
    BY <2>1, <2>3, ZenonT(60) DEF Free, pmm
  <2>4. CASE /\ i \in g_usable_bm /\ i \in g_alloc_bm
             /\ g_alloc_bm' = g_alloc_bm \ {i} /\ live' = live \ {i}
             /\ UNCHANGED <<pc, g_usable_bm>>
    <3>1. i \in live
      BY <2>1, <2>4, ZenonT(60) DEF IInv, OwnerInv, Kept
    <3>2. Free' = Free \cup {i}
      BY <2>4, Zenon DEF Free
    <3> QED BY <2>1, <2>4, <3>1, <3>2, ZenonT(60)
  <2> QED BY <2>2, <2>3, <2>4, ZenonT(60)
<1> QED BY <1>1, <1>2, <1>3, <1>4, <1>5, <1>6, SMTT(60) DEF Next

\* frame_alloc takes the lowest free frame.
THEOREM AllocatesLowest == Spec => LowestFrameFirst
<1>1. IInv /\ [Next]_vars => [\A i \in live' \ live : \A j \in Free : i <= j]_vars
  <2> SUFFICES ASSUME IInv, Next PROVE \A i \in live' \ live : \A j \in Free : i <= j
    BY Zenon
  <2> QED BY StepFacts
<1> QED BY <1>1, Invariance, PTL DEF Spec, LowestFrameFirst

\* The early region stops growing when the permanent allocator takes over.
THEOREM HandoverIsFinal == Spec => EarlyRegionFrozen
<1>1. IInv /\ [Next]_vars => [pc = "ready" => UNCHANGED early]_vars
  <2> SUFFICES ASSUME IInv, Next, pc = "ready" PROVE UNCHANGED early
    BY Zenon
  <2> QED BY StepFacts, Zenon
<1> QED BY <1>1, Invariance, PTL DEF Spec, EarlyRegionFrozen

\* The allocator implements the abstract pool of frames.
THEOREM Refinement == Spec => PoolSpec
<1>1. Init => Pool!Init
  BY Zenon DEF Init, Pool!Init
<1>2. IInv /\ IInv' /\ [Next]_vars => [Pool!Next]_(Pool!vars)
  <2> SUFFICES ASSUME IInv, IInv', [Next]_vars PROVE [Pool!Next]_(Pool!vars)
    BY Zenon
  <2>1. CASE UNCHANGED vars
    <3>1. Free' = Free /\ UNCHANGED <<pc, live>>
      BY <2>1, Zenon DEF vars, pmm, Free
    <3> QED BY <3>1, Zenon DEF Pool!vars
  <2>2. CASE Next
    <3>0. Free' \subseteq Nat /\ Free \subseteq Nat
      <4>1. TypeOK /\ TypeOK'
        BY Zenon DEF IInv
      <4>2. Free' \subseteq Frames'
        BY <4>1, Zenon DEF TypeOK, Free
      <4>3. g_frame_count' \in Nat
        BY <4>1, Zenon DEF TypeOK
      <4>4. Frames' \subseteq Nat
        <5> SUFFICES ASSUME NEW i \in 0 .. g_frame_count' - 1 PROVE i \in Nat
          BY Zenon DEF Frames
        <5> QED BY <4>3
      <4> QED BY <4>1, <4>2, <4>4, FiniteFacts, ZenonT(60)
    <3>1. CASE pc = "ready" /\ pc' = "ready"
              /\ \E i \in Free : Free' = Free \ {i} /\ live' = live \cup {i}
      <4>1. Pool!Next
        BY <3>1, ZenonT(60) DEF Pool!Next, Pool!Take
      <4> QED BY <4>1, Zenon
    <3>2. CASE pc = "ready" /\ pc' = "ready"
              /\ \E i \in live : Free' = Free \cup {i} /\ live' = live \ {i}
      <4>1. Pool!Next
        BY <3>2, Zenon DEF Pool!Next, Pool!Give
      <4> QED BY <4>1, Zenon
    <3>3. CASE pc' = "halted" /\ pc # "halted" /\ UNCHANGED live
              /\ IF pc = "ready" THEN Free' = Free ELSE Free' = {}
      <4>1. Pool!Halt
        BY <3>3, Zenon DEF Pool!Halt
      <4> QED BY <4>1, Zenon DEF Pool!Next
    <3>4. CASE pc # "halted" /\ pc' # "halted" /\ pc # "ready" /\ UNCHANGED live
      <4>1. live = {}
        BY <3>4, Zenon DEF IInv, StageInv
      <4>2. CASE pc' = "ready"
        <5>1. Pool!Publish
          BY <3>0, <3>4, <4>1, <4>2, ZenonT(60) DEF Pool!Publish
        <5> QED BY <5>1, Zenon DEF Pool!Next
      <4>3. CASE pc' # "ready"
        BY <3>4, <4>3, Zenon DEF Pool!vars
      <4> QED BY <4>2, <4>3, Zenon
    <3> QED BY <2>2, <3>1, <3>2, <3>3, <3>4, StepFacts, ZenonT(60)
  <2> QED BY <2>1, <2>2, Zenon
<1> QED BY <1>1, <1>2, Invariance, PTL DEF Spec, PoolSpec, Pool!Spec
=============================================================================
