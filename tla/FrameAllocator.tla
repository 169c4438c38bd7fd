--------------------------- MODULE FrameAllocator ---------------------------
(***************************************************************************)
(* Physical memory: the bootstrap bump allocator (src/early_alloc.c), the  *)
(* permanent bitmap allocator (src/neo_framealloc.c), and the hand-over    *)
(* between the two in memory_bringup (src/kernel.c).                       *)
(*                                                                         *)
(* Addresses are naturals, in the bytes of a machine whose page is         *)
(* PageSize bytes.  A bitmap is the set of the indices of its 1 bits.      *)
(* frame_init runs before any task exists; its loop over the memory map    *)
(* and its re-reservations are one step each, in program order.  The       *)
(* allocator's entry points run to completion under g_memlock on the only  *)
(* CPU and no interrupt handler calls them, so each is one step.           *)
(***************************************************************************)
EXTENDS Integers, FiniteSets, Sequences

CONSTANTS
    PageSize,   \* PAGE_SIZE (4096 in the code)
    FourGiB,    \* the 4 GiB line early_alloc prefers to stay below
    BootInfos,  \* what the bootloader may hand over, see BootInfo
    Addresses   \* the physical addresses callers pass to n_frame_free

\* A half-open range of physical addresses.
PhysRange == [base : Nat, end : Nat]

\* Limine's answers: the memory map, the kernel image and the modules.
BootInfo == [memmap  : Seq([base : Nat, length : Nat, usable : BOOLEAN]),
             kernel  : PhysRange,
             modules : Seq(PhysRange)]

ASSUME PageAssumption == PageSize \in Nat \ {0}
ASSUME BootAssumption == FourGiB \in Nat /\ BootInfos \subseteq BootInfo
ASSUME AddressAssumption == Addresses \subseteq Nat

VARIABLES
    boot,          \* the BootInfo of this run of the machine
    pc,            \* how far memory_bringup has come
    step,          \* next entry of the loop pc is in
    g_base, g_cursor, g_end,  \* early_alloc.c: the bump region
    g_boot_phys_page,         \* the supplier PagingGetFreeFrame calls
    g_alloc_bm, g_usable_bm, g_frame_count, g_max_phys, g_free_count, g_hint,
    live,          \* ghost: frames frame_alloc returned, not yet freed
    panicked       \* the panic that stopped the machine, or "none"

early == <<g_base, g_cursor, g_end>>
pmm == <<g_alloc_bm, g_usable_bm, g_frame_count, g_max_phys, g_free_count, g_hint>>
vars == <<boot, pc, step, early, g_boot_phys_page, pmm, live, panicked>>

Stages == {"off", "early", "usable", "kernel", "modules", "reserve",
           "ready", "halted"}
Panics == {"none", "early_init", "out of early pages", "zero frames", "OOM",
           "bitmap corruption", "unaligned", "out of bounds", "non-usable",
           "double free"}

ALIGN_DOWN(x) == x - (x % PageSize)
ALIGN_UP(x) == ALIGN_DOWN(x + PageSize - 1)
frame_index_of(p) == p \div PageSize
frame_addr_of(i) == i * PageSize
Frames == 0 .. g_frame_count - 1
Free == g_usable_bm \ g_alloc_bm

SetMin(S) == CHOOSE m \in S : \A n \in S : m <= n
SetMax(S) == CHOOSE m \in S : \A n \in S : n <= m

panic(why) == pc' = "halted" /\ panicked' = why

Init ==
    /\ boot \in BootInfos
    /\ pc = "off" /\ step = 1
    /\ g_base = 0 /\ g_cursor = 0 /\ g_end = 0
    /\ g_boot_phys_page = "none"
    /\ g_alloc_bm = {} /\ g_usable_bm = {} /\ g_frame_count = 0
    /\ g_max_phys = 0 /\ g_free_count = 0 /\ g_hint = 0
    /\ live = {} /\ panicked = "none"

-----------------------------------------------------------------------------
(* The early bump allocator.                                               *)

EntryEnd(e) == e.base + e.length
UsableStart(e) == ALIGN_UP(e.base)
UsableEnd(e) == ALIGN_DOWN(EntryEnd(e))
UsableSize(e) == UsableEnd(e) - UsableStart(e)

\* The entries pick_region_from_memmap considers, and the first largest of some.
Candidates == {i \in DOMAIN boot.memmap :
                  boot.memmap[i].usable /\ UsableSize(boot.memmap[i]) > 0}
FirstLargest(S) ==
    CHOOSE i \in S : \A j \in S :
        \/ UsableSize(boot.memmap[i]) > UsableSize(boot.memmap[j])
        \/ UsableSize(boot.memmap[i]) = UsableSize(boot.memmap[j]) /\ i <= j
pick_region_from_memmap ==
    LET below == {i \in Candidates : UsableEnd(boot.memmap[i]) <= FourGiB}
        best == boot.memmap[FirstLargest(IF below # {} THEN below ELSE Candidates)]
    IN  IF Candidates = {} THEN [base |-> 0, end |-> 0]
        ELSE [base |-> UsableStart(best), end |-> UsableEnd(best)]

\* early_init; memory_bringup then installs supply_from_early.
early_init ==
    /\ pc = "off"
    /\ LET r == pick_region_from_memmap IN
       /\ g_base' = r.base /\ g_cursor' = r.base /\ g_end' = r.end
       /\ IF r.base = 0 \/ r.end <= r.base
          THEN panic("early_init") /\ UNCHANGED g_boot_phys_page
          ELSE pc' = "early" /\ g_boot_phys_page' = "early" /\ UNCHANGED panicked
    /\ UNCHANGED <<boot, step, pmm, live>>

\* The number of pages n calls of early_alloc_page obtain before one panics.
EarlyPagesFor(n) ==
    LET left == (g_end - g_cursor) \div PageSize IN IF n <= left THEN n ELSE left

\* early_alloc_page, called by paging_bootstrap for its tables and through
\* PagingGetFreeFrame for as long as supply_from_early is installed.
early_alloc_page ==
    /\ pc \in {"early", "ready"}
    /\ g_boot_phys_page = "early"
    /\ IF g_cursor + PageSize > g_end
       THEN panic("out of early pages") /\ UNCHANGED g_cursor
       ELSE g_cursor' = g_cursor + PageSize /\ UNCHANGED <<pc, panicked>>
    /\ UNCHANGED <<boot, step, g_base, g_end, g_boot_phys_page, pmm, live>>

\* Mutants: the last page forgotten; the whole region instead of what was used.
early_reserved_region_short == [base |-> g_base, end |-> g_cursor - PageSize]
early_reserved_region == [base |-> g_base, end |-> g_cursor]

-----------------------------------------------------------------------------
(* frame_init.                                                             *)

\* The frames mark_range_allocated and mark_range_usable_and_free run over.
\* Mutant: i1 is not clamped to g_frame_count.
OuterFrames_unclamped(r) ==
    {i \in frame_index_of(ALIGN_DOWN(r.base)) .. frame_index_of(ALIGN_UP(r.end)) - 1 :
        r.base < r.end}
OuterFrames(r) ==
    {i \in Frames : /\ r.base < r.end
                    /\ frame_index_of(ALIGN_DOWN(r.base)) <= i
                    /\ i < frame_index_of(ALIGN_UP(r.end))}
InnerFrames(r) ==
    {i \in Frames : /\ r.base < r.end
                    /\ frame_index_of(ALIGN_UP(r.base)) <= i
                    /\ i < frame_index_of(ALIGN_DOWN(r.end))}

\* Mutant: frames that were reserved already are counted again.
mark_range_allocated_recounts(r) ==
    LET fresh == Cardinality(OuterFrames(r)) IN
    /\ g_alloc_bm' = g_alloc_bm \cup OuterFrames(r)
    /\ g_free_count' = IF fresh <= g_free_count THEN g_free_count - fresh ELSE 0
    /\ UNCHANGED <<g_usable_bm, g_frame_count, g_max_phys>>
mark_range_allocated(r) ==
    LET fresh == Cardinality(OuterFrames(r) \ g_alloc_bm) IN
    /\ g_alloc_bm' = g_alloc_bm \cup OuterFrames(r)
    /\ g_free_count' = IF fresh <= g_free_count THEN g_free_count - fresh ELSE 0
    /\ UNCHANGED <<g_usable_bm, g_frame_count, g_max_phys>>

mark_range_usable_and_free(r) ==
    /\ g_usable_bm' = g_usable_bm \cup InnerFrames(r)
    /\ g_alloc_bm' = g_alloc_bm \ InnerFrames(r)
    /\ g_free_count' = g_free_count + Cardinality(InnerFrames(r) \cap g_alloc_bm)
    /\ UNCHANGED <<g_frame_count, g_max_phys, g_hint>>

MaxPhys == SetMax({0} \cup {EntryEnd(boot.memmap[i]) : i \in DOMAIN boot.memmap})

\* compute_max_phys_and_count, then both bitmaps out of the early allocator:
\* every frame reserved, none usable.
frame_init ==
    /\ pc = "early"
    /\ LET count == frame_index_of(ALIGN_UP(MaxPhys))
           bm_bytes == (count + 7) \div 8
           pages == 2 * (ALIGN_UP(bm_bytes) \div PageSize)
       IN  /\ g_max_phys' = MaxPhys
           /\ g_frame_count' = count
           /\ g_cursor' = IF count = 0 THEN g_cursor
                          ELSE g_cursor + EarlyPagesFor(pages) * PageSize
           /\ IF count = 0
              THEN panic("zero frames") /\ UNCHANGED <<step, g_alloc_bm, g_usable_bm, g_free_count>>
              ELSE IF EarlyPagesFor(pages) < pages
              THEN panic("out of early pages") /\ UNCHANGED <<step, g_alloc_bm, g_usable_bm, g_free_count>>
              ELSE /\ g_alloc_bm' = 0 .. count - 1
                   /\ g_usable_bm' = {}
                   /\ g_free_count' = 0
                   /\ pc' = "usable" /\ step' = 1
                   /\ UNCHANGED panicked
    /\ UNCHANGED <<boot, g_base, g_end, g_boot_phys_page, g_hint, live>>

\* The loop that frees the USABLE entries of the memory map.
frame_init_usable ==
    /\ pc = "usable"
    /\ LET e == boot.memmap[step] IN
       IF e.usable
       THEN mark_range_usable_and_free([base |-> e.base, end |-> EntryEnd(e)])
       ELSE UNCHANGED pmm
    /\ IF step < Len(boot.memmap)
       THEN step' = step + 1 /\ UNCHANGED pc
       ELSE step' = 1 /\ pc' = "kernel"
    /\ UNCHANGED <<boot, early, g_boot_phys_page, live, panicked>>

frame_init_kernel ==
    /\ pc = "kernel"
    /\ mark_range_allocated(boot.kernel)
    /\ UNCHANGED g_hint
    /\ pc' = IF boot.modules = <<>> THEN "reserve" ELSE "modules"
    /\ UNCHANGED <<boot, step, early, g_boot_phys_page, live, panicked>>

frame_init_modules ==
    /\ pc = "modules"
    /\ mark_range_allocated(boot.modules[step])
    /\ UNCHANGED g_hint
    /\ IF step < Len(boot.modules)
       THEN step' = step + 1 /\ UNCHANGED pc
       ELSE step' = 1 /\ pc' = "reserve"
    /\ UNCHANGED <<boot, early, g_boot_phys_page, live, panicked>>

\* The early allocator's pages, the bitmaps included; frame_init returns and
\* memory_bringup installs supply_from_frame.
frame_init_reserve_early ==
    /\ pc = "reserve"
    /\ mark_range_allocated(early_reserved_region)
    /\ g_hint' = 0
    /\ pc' = "ready"
    /\ g_boot_phys_page' = "frame"
    /\ UNCHANGED <<boot, step, early, live, panicked>>

-----------------------------------------------------------------------------
(* The permanent allocator's entry points.                                 *)

\* Mutant: the allocation bit is not tested.
SearchResult_ignores_alloc ==
    LET pass0 == {i \in g_usable_bm : g_hint <= i}
    IN  IF pass0 # {} THEN {SetMin(pass0)}
        ELSE IF g_usable_bm # {} THEN {SetMin(g_usable_bm)} ELSE {}

\* The two passes of frame_alloc: from the hint up, then from 0 to the hint.
SearchResult ==
    LET pass0 == {i \in Free : g_hint <= i}
        pass1 == {i \in Free : i < g_hint}
    IN  IF pass0 # {} THEN {SetMin(pass0)}
        ELSE IF pass1 # {} THEN {SetMin(pass1)} ELSE {}

\* Also PagingGetFreeFrame once supply_from_frame is installed.
frame_alloc ==
    /\ pc = "ready"
    /\ IF g_free_count = 0
       THEN panic("OOM") /\ UNCHANGED <<pmm, live>>
       ELSE IF SearchResult = {}
       THEN panic("bitmap corruption") /\ UNCHANGED <<pmm, live>>
       ELSE \E i \in SearchResult :
            /\ g_alloc_bm' = g_alloc_bm \cup {i}
            /\ g_free_count' = g_free_count - 1
            /\ g_hint' = i + 1
            /\ live' = live \cup {i}
            /\ UNCHANGED <<pc, panicked, g_usable_bm, g_frame_count, g_max_phys>>
    /\ UNCHANGED <<boot, step, early, g_boot_phys_page>>

\* Callers own the frame they release, or make one of the mistakes the
\* function guards against; they do not release what boot reserved.
EarlyFrames == {i \in Frames : g_base <= frame_addr_of(i) /\ frame_addr_of(i) < g_cursor}
ModuleFrames(K) == {i \in Frames : \E k \in K : i \in OuterFrames(boot.modules[k])}
BootReserved ==
    EarlyFrames \cup OuterFrames(boot.kernel) \cup ModuleFrames(DOMAIN boot.modules)

HintAfterFree(i) == IF i < g_hint THEN i ELSE g_hint

n_frame_free(paddr) ==
    LET i == frame_index_of(paddr) IN
    /\ pc = "ready"
    /\ i \notin BootReserved
    /\ \/ /\ paddr % PageSize # 0
          /\ panic("unaligned") /\ UNCHANGED <<pmm, live>>
       \/ /\ paddr % PageSize = 0 /\ paddr >= g_max_phys
          /\ panic("out of bounds") /\ UNCHANGED <<pmm, live>>
       \/ /\ paddr % PageSize = 0 /\ paddr < g_max_phys
          /\ i \notin g_usable_bm
          /\ panic("non-usable") /\ UNCHANGED <<pmm, live>>
       \/ /\ paddr % PageSize = 0 /\ paddr < g_max_phys
          /\ i \in g_usable_bm /\ i \notin g_alloc_bm
          /\ panic("double free") /\ UNCHANGED <<pmm, live>>
       \/ /\ paddr % PageSize = 0 /\ paddr < g_max_phys
          /\ i \in g_usable_bm /\ i \in g_alloc_bm
          /\ g_alloc_bm' = g_alloc_bm \ {i}
          /\ g_free_count' = g_free_count + 1
          /\ g_hint' = HintAfterFree(i)
          /\ live' = live \ {i}
          /\ UNCHANGED <<pc, panicked, g_usable_bm, g_frame_count, g_max_phys>>
    /\ UNCHANGED <<boot, step, early, g_boot_phys_page>>

frame_is_allocated(paddr) ==
    \/ paddr % PageSize # 0
    \/ paddr >= g_max_phys
    \/ frame_index_of(paddr) \in g_alloc_bm

Next ==
    \/ early_init
    \/ early_alloc_page
    \/ frame_init
    \/ frame_init_usable
    \/ frame_init_kernel
    \/ frame_init_modules
    \/ frame_init_reserve_early
    \/ frame_alloc
    \/ \E paddr \in Addresses : n_frame_free(paddr)

Spec == Init /\ [][Next]_vars

-----------------------------------------------------------------------------
(* Correctness.                                                            *)

\* The state keeps its types; both bitmaps stay inside the managed frames.
TypeOK ==
    /\ boot \in BootInfos
    /\ pc \in Stages /\ panicked \in Panics
    /\ step \in Nat \ {0}
    /\ g_base \in Nat /\ g_cursor \in Nat /\ g_end \in Nat
    /\ g_boot_phys_page \in {"none", "early", "frame"}
    /\ g_frame_count \in Nat /\ g_max_phys \in Nat
    /\ g_free_count \in Nat /\ g_hint \in Nat
    /\ g_alloc_bm \subseteq Frames /\ g_usable_bm \subseteq Frames
    /\ live \subseteq Frames

\* frame_free_count is exact at every step, through the marking loops of
\* frame_init and every allocation and release: it is the number of frames
\* that are usable and not allocated.
FreeCountExact == g_free_count = Cardinality(Free)

\* g_hint never skips a free frame: releasing below it lowers it, and
\* frame_alloc only raises it past frames it found taken.
NoFreeBelowHint == \A i \in Free : g_hint <= i

\* A frame frame_alloc has handed out is usable memory, is marked allocated,
\* and belongs neither to the kernel image, nor to a module, nor to the early
\* allocator, whose pages hold the boot page tables and these bitmaps.
HandedOutFramesAreExclusive ==
    pc = "ready" =>
        /\ live \cap BootReserved = {}
        /\ live \subseteq g_usable_bm
        /\ \A i \in live : frame_is_allocated(frame_addr_of(i))

\* Nothing leaks: a usable frame is free, handed out, or was reserved by boot.
NoFrameLost ==
    pc = "ready" => g_usable_bm = Free \cup live \cup (g_usable_bm \cap BootReserved)

\* The panics of frame_alloc tell the truth: "OOM" only when no frame is free,
\* and the "free count nonzero but no free frame found" one never happens.
PanicsAreHonest ==
    /\ panicked = "OOM" => Free = {}
    /\ panicked # "bitmap corruption"

\* frame_alloc returns the lowest free frame, whatever was released before.
LowestFrameFirst == [][\A i \in live' \ live : \A j \in Free : i <= j]_vars

\* Once the permanent allocator is up the early one hands out nothing: its
\* region, reserved by frame_init, has stopped growing.
EarlyRegionFrozen == [][pc = "ready" => UNCHANGED early]_vars

\* frame_init, frame_alloc and n_frame_free implement the pool of FramePool.
Pool == INSTANCE FramePool WITH
    Frame <- Nat,
    stage <- IF pc = "ready" THEN "up" ELSE IF pc = "halted" THEN "halted" ELSE "down",
    free  <- IF pc \in {"ready", "halted"} THEN Free ELSE {},
    taken <- live
PoolSpec == Pool!Spec
=============================================================================
