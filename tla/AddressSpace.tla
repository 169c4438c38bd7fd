---------------------------- MODULE AddressSpace ----------------------------
(***************************************************************************)
(* The kernel's own page tables: paging/paging_bootstrap.c builds them in  *)
(* early pages while the boot loader's tables are active, audits them and  *)
(* loads CR3; from then on paging.c maps heap pages, reaching every table  *)
(* through the direct map (HHDM) these tables themselves define.           *)
(*                                                                         *)
(* Addresses are page numbers.  A table has few entries: N1, N2 and N3 in  *)
(* the last three levels, four in the root, one for each region of the     *)
(* address space: identity, HHDM, heap and kernel image.  PAGE is the page *)
(* size in units of the memory map, whose entries need not be aligned.     *)
(***************************************************************************)
EXTENDS Integers, SequencesExt

CONSTANTS N1, N2, N3, PAGE, Boots, HeapPages

ASSUME GeometryAssumption == {N1, N2, N3, PAGE} \subseteq Nat \ {0} /\ HeapPages \in Nat

Big == N1                  \* pages of a 2 MiB leaf
Huge == N1 * N2            \* pages of a 1 GiB leaf
Slot == N1 * N2 * N3       \* pages under one root entry
Page == 0 .. Slot - 1      \* physical pages, all inside the HHDM
Hhdm == Slot
Heap == 2 * Slot
Kernel == 3 * Slot
Index == 0 .. Max({N1, N2, N3, 4}) - 1
Limine == -1               \* the CR3 the boot loader left

VARIABLES
    boot,    \* what the boot loader reports; never changes
    table,   \* contents of physical pages, seen as page tables
    g_cursor,\* early allocator: the next page
    g_pml4, cr3,
    pc, i, at,   \* paging_bootstrap's place, memory-map entry and page
    heap,    \* heap pages mapped so far
    free, held,  \* PMM frames: free, or used by the rest of the kernel
    why      \* why the kernel stopped: "none" while it runs

tables == <<table, g_cursor, free, why>>
vars == <<boot, tables, g_pml4, cr3, pc, i, at, heap, held>>

-----------------------------------------------------------------------------
(* The memory map.                                                         *)

Entry(k) == boot.map[k]
\* Mutant: the end is rounded down, as for the frame allocator.
Outer_floor(e) == (e.base \div PAGE) .. (e.end \div PAGE) - 1
Outer(e) == (e.base \div PAGE) .. ((e.end + PAGE - 1) \div PAGE) - 1
Inner(e) == ((e.base + PAGE - 1) \div PAGE) .. (e.end \div PAGE) - 1
Usable == {k \in DOMAIN boot.map : Entry(k).type = "USABLE" /\ Inner(Entry(k)) # {}}
Included == {"USABLE", "BOOTLOADER", "ACPI", "KERNEL", "FRAMEBUFFER"}

\* pick_region_from_memmap: the first of the largest usable entries.
EarlyRegion ==
    LET size(k) == Cardinality(Inner(Entry(k)))
        largest == {k \in Usable : \A l \in Usable : size(k) >= size(l)}
    IN  Inner(Entry(Min(largest)))

\* Mutant: the load address is taken for the link address.
KernelPage_linked(v) == v - Kernel
\* virt_to_phys_kernel: relative to where the loader put the image.
KernelPage(v) == boot.kernel + (v - Kernel)

-----------------------------------------------------------------------------
(* Entries and walks.                                                      *)

None == [p |-> FALSE, to |-> 0, ps |-> FALSE, w |-> FALSE, nx |-> FALSE]
Pointer(page) == [p |-> TRUE, to |-> page, ps |-> FALSE, w |-> TRUE, nx |-> FALSE]
Leaf(page, huge, w, nx) == [p |-> TRUE, to |-> page, ps |-> huge, w |-> w, nx |-> nx]
Zeroed == [k \in Index |-> None]
\* What a page held before it became a table.
Junk == [k \in Index |-> Leaf(0, TRUE, TRUE, FALSE)]

vaddr_indices(v) == <<v \div Slot, (v \div Huge) % N3, (v \div Big) % N2, v % N1>>

\* The entries a walk of v reads, from the root down to the one it stops at;
\* a root entry is never taken for a leaf.
Path(t, v) ==
    FoldLeft(LAMBDA path, k :
                 LET e == Last(path) IN
                 IF ~e.p \/ (e.ps /\ Len(path) > 1) THEN path
                 ELSE Append(path, t[e.to][vaddr_indices(v)[k]]),
             <<t[g_pml4][v \div Slot]>>, <<2, 3, 4>>)

\* walk_va_to_pa, and the translation of the processor.
Walk(t, v) ==
    LET path == Path(t, v)
        last == path[Len(path)]
        offset == CASE Len(path) = 2 -> v % Huge [] Len(path) = 3 -> v % Big [] OTHER -> 0
    IN  [ok |-> last.p, pa |-> last.to + offset,
         w |-> \A k \in DOMAIN path : path[k].w,
         nx |-> \E k \in DOMAIN path : path[k].nx]

-----------------------------------------------------------------------------
(* Building the tables.  An operation takes and returns a record m with    *)
(* the fields of `tables`; once m.why is set it changes nothing more.      *)

Now == [table |-> table, cursor |-> g_cursor, free |-> free, why |-> why]
Store(m) ==
    /\ table' = m.table /\ g_cursor' = m.cursor /\ free' = m.free /\ why' = m.why

Running(m) == m.why = "none"
Stop(m, reason) == [m EXCEPT !.why = reason]

EarlyPagesLeft(m) == m.cursor <= Max(EarlyRegion)

\* A zeroed early page; it is the page m.cursor.
alloc_table(m) ==
    IF EarlyPagesLeft(m)
    THEN [m EXCEPT !.table[m.cursor] = Zeroed, !.cursor = @ + 1]
    ELSE Stop(m, "out of early pages")

\* Returns the child table, made on demand; stops at a huge leaf.
get_or_make_next(m, t, k) ==
    LET e == m.table[t][k]
        a == alloc_table(m)
    IN  IF ~Running(m) THEN [m |-> m, next |-> t]
        ELSE IF e.p /\ e.ps THEN [m |-> Stop(m, "descent"), next |-> t]
        ELSE IF e.p THEN [m |-> m, next |-> e.to]
        ELSE IF ~Running(a) THEN [m |-> a, next |-> t]
        ELSE [m |-> [a EXCEPT !.table[t][k] = Pointer(m.cursor)], next |-> m.cursor]

\* From the root down the given levels of v's path.
Descend(m, v, levels) ==
    FoldLeft(LAMBDA d, level : get_or_make_next(d.m, d.next, vaddr_indices(v)[level]),
             [m |-> m, next |-> g_pml4], levels)

\* The leaf at the level where the descent d arrived.
PutLeaf(d, k, leaf) == IF Running(d.m) THEN [d.m EXCEPT !.table[d.next][k] = leaf] ELSE d.m

map_4k(m, v, page, w, nx) ==
    PutLeaf(Descend(m, v, <<1, 2, 3>>), vaddr_indices(v)[4], Leaf(page, FALSE, w, nx))

map_2m(m, v, page, nx) ==
    PutLeaf(Descend(m, v, <<1, 2>>), vaddr_indices(v)[3], Leaf(page - (page % Big), TRUE, TRUE, nx))

-----------------------------------------------------------------------------
(* paging_bootstrap, one action per page mapped.                           *)

Init ==
    /\ boot \in Boots
    /\ table = [p \in Page |-> Junk]
    /\ g_cursor = Min(EarlyRegion) /\ g_pml4 = 0 /\ cr3 = Limine
    /\ pc = "root" /\ i = 0 /\ at = 0
    /\ heap = 0 /\ free = {} /\ held = {} /\ why = "none"

Go(place, entry, page) == pc' = place /\ i' = entry /\ at' = page
Later == <<boot, cr3, heap, held>>

new_root ==
    /\ pc = "root" /\ why = "none"
    /\ Store(alloc_table(Now)) /\ g_pml4' = g_cursor
    /\ Go("identity", 0, 0)
    /\ UNCHANGED Later

map_identity_minimal ==
    /\ pc = "identity" /\ why = "none"
    /\ Store(map_4k(Now, at, at, TRUE, TRUE))
    /\ IF at + 1 < Big THEN Go("identity", 0, at + 1) ELSE Go("kernel", 0, Kernel)
    /\ UNCHANGED <<Later, g_pml4>>

\* Mutant: the sections before the data are writable too.
KernelFlags_rwx(v) == [w |-> TRUE, nx |-> v >= Kernel + boot.text]
\* The image is text, then read-only data, then data, each of whole pages.
KernelFlags(v) ==
    [w |-> v >= Kernel + boot.text + boot.rodata, nx |-> v >= Kernel + boot.text]
KernelEnd == Kernel + boot.text + boot.rodata + boot.data

map_kernel_higher_half ==
    /\ pc = "kernel" /\ why = "none"
    /\ Store(map_4k(Now, at, KernelPage(at), KernelFlags(at).w, KernelFlags(at).nx))
    /\ IF at + 1 < KernelEnd THEN Go("kernel", 0, at + 1) ELSE Go("hhdm", 1, 0)
    /\ UNCHANGED <<Later, g_pml4>>

\* map_hhdm's loop over the entries: the first page of entry k, or the end.
StartEntry(k) ==
    IF k > Len(boot.map) THEN Go("low", 0, 0)
    ELSE IF Entry(k).type \in Included /\ Outer(Entry(k)) # {}
         THEN Go("entry", k, Min(Outer(Entry(k))))
         ELSE Go("hhdm", k + 1, 0)

map_hhdm_entry ==
    /\ pc = "hhdm" /\ why = "none"
    /\ StartEntry(i)
    /\ UNCHANGED <<Later, tables, g_pml4>>

\* map_range_huge_first: 2 MiB leaves where both addresses are aligned and the
\* rest of the entry is long enough, single pages before and behind.
TakesBigLeaf(page) ==
    /\ page % Big = 0 /\ (Hhdm + page) % Big = 0
    /\ page + Big <= Max(Outer(Entry(i))) + 1

map_range_huge_first ==
    /\ pc = "entry" /\ why = "none"
    /\ LET step == IF TakesBigLeaf(at) THEN Big ELSE 1 IN
       /\ Store(IF TakesBigLeaf(at) THEN map_2m(Now, Hhdm + at, at, TRUE)
                ELSE map_4k(Now, Hhdm + at, at, TRUE, TRUE))
       /\ IF at + step <= Max(Outer(Entry(i))) THEN Go("entry", i, at + step)
          ELSE Go("hhdm", i + 1, 0)
    /\ UNCHANGED <<Later, g_pml4>>

\* The first 2 MiB, whatever the memory map says of them.
map_low ==
    /\ pc = "low" /\ why = "none"
    /\ Store(map_2m(Now, Hhdm, 0, TRUE))
    /\ Go("audit", 1, 0)
    /\ UNCHANGED <<Later, g_pml4>>

-----------------------------------------------------------------------------
(* pre_switch_audit_and_patch and install_new_cr3.                         *)

max_phys == Max({Entry(k).end : k \in DOMAIN boot.map}) \div PAGE

StackInHhdm == boot.rsp >= Hhdm /\ boot.rsp < Hhdm + max_phys
StackPage == IF StackInHhdm THEN boot.rsp - Hhdm ELSE Walk(table, boot.rsp).pa

audit_stack ==
    /\ pc = "audit" /\ i = 1 /\ why = "none"
    /\ IF StackInHhdm \/ Walk(table, boot.rsp).ok THEN UNCHANGED tables
       ELSE Store(Stop(Now, "audit"))
    /\ Go("audit", 2, 0)
    /\ UNCHANGED <<Later, g_pml4>>

\* The pages the audit insists on: low memory, the stack, both roots.
AuditPages == [k \in 1 .. Big |-> k - 1] \o <<StackPage, boot.cr3, g_pml4>>

\* Mutant: a page that is covered is mapped again.
ensure_hhdm_cover_phys_page_remaps(m, page) == map_4k(m, Hhdm + page, page, TRUE, TRUE)
\* A huge leaf is coverage enough.
ensure_hhdm_cover_phys_page(m, page) ==
    IF Walk(m.table, Hhdm + page).ok THEN m ELSE map_4k(m, Hhdm + page, page, TRUE, TRUE)

audit_page ==
    /\ pc = "audit" /\ i = 2 /\ why = "none"
    /\ Store(ensure_hhdm_cover_phys_page(Now, AuditPages[at + 1]))
    /\ IF at + 1 < Len(AuditPages) THEN Go("audit", 2, at + 1) ELSE Go("install", 0, 0)
    /\ UNCHANGED <<Later, g_pml4>>

Audited == {boot.rsp, Kernel, Hhdm, Hhdm + boot.cr3, Hhdm + g_pml4}

install_new_cr3 ==
    /\ pc = "install" /\ why = "none"
    /\ IF \A v \in Audited : Walk(table, v).ok
       THEN cr3' = g_pml4 /\ UNCHANGED why
       ELSE why' = "audit" /\ UNCHANGED cr3
    /\ Go("frame_init", 0, 0)
    /\ UNCHANGED <<boot, table, g_cursor, free, g_pml4, heap, held>>

-----------------------------------------------------------------------------
(* The frame allocator, by what FrameAllocator shows of it, and its users. *)

\* Mutant: the early pages are given out again.
frame_init_frees_early ==
    /\ pc = "frame_init" /\ why = "none"
    /\ Store([alloc_table(alloc_table(Now)) EXCEPT !.free = UNION {Inner(Entry(k)) : k \in Usable}])
    /\ Go("up", 0, 0)
    /\ UNCHANGED <<Later, g_pml4>>

\* Takes two early pages for its bitmaps and leaves the rest of the usable
\* memory free.
frame_init ==
    /\ pc = "frame_init" /\ why = "none"
    /\ LET m == alloc_table(alloc_table(Now)) IN
       Store([m EXCEPT !.free = (UNION {Inner(Entry(k)) : k \in Usable})
                                    \ (Min(EarlyRegion) .. m.cursor - 1)])
    /\ Go("up", 0, 0)
    /\ UNCHANGED <<Later, g_pml4>>

\* The frame frame_alloc returns is Min(m.free).
frame_alloc(m) ==
    IF m.free = {} THEN Stop(m, "out of frames") ELSE [m EXCEPT !.free = @ \ {Min(@)}]

\* Other code takes a frame and writes to it.
take_frame ==
    /\ pc = "up" /\ why = "none" /\ free # {}
    /\ held' = held \cup {Min(free)}
    /\ Store([frame_alloc(Now) EXCEPT !.table[Min(free)] = Junk])
    /\ UNCHANGED <<boot, g_pml4, cr3, pc, i, at, heap>>

give_frame(f) ==
    /\ pc = "up" /\ why = "none"
    /\ held' = held \ {f} /\ free' = free \cup {f}
    /\ UNCHANGED <<boot, table, g_cursor, why, g_pml4, cr3, pc, i, at, heap>>

-----------------------------------------------------------------------------
(* paging.c: every access to a table goes through the HHDM.                *)

\* The page that is accessed at the HHDM address of `page`, or a fault.
TranslateToHighHalfMemoryAddress(m, page) ==
    LET x == Walk(m.table, Hhdm + page) IN
    IF Running(m) /\ ~x.ok THEN [m |-> Stop(m, "fault"), next |-> page] ELSE [m |-> m, next |-> x.pa]

\* Mutant: the new table keeps its old contents.
GetOrAllocEntry_unzeroed(m, t, k) ==
    LET a == frame_alloc(m)
        child == Min(m.free)
    IN  IF ~Running(m) THEN [m |-> m, next |-> t]
        ELSE IF m.table[t][k].p THEN TranslateToHighHalfMemoryAddress(m, m.table[t][k].to)
        ELSE IF ~Running(a) THEN [m |-> a, next |-> t]
        ELSE TranslateToHighHalfMemoryAddress([a EXCEPT !.table[t][k] = Pointer(child)], child)

\* Unlike get_or_make_next it does not look at the PS bit.  For frame 0 it
\* returns NULL, and the caller goes on with what the identity map shows there.
GetOrAllocEntry(m, t, k) ==
    LET a == frame_alloc(m)
        child == Min(m.free)
        linked == TranslateToHighHalfMemoryAddress([a EXCEPT !.table[t][k] = Pointer(child)], child)
    IN  IF ~Running(m) THEN [m |-> m, next |-> t]
        ELSE IF m.table[t][k].p THEN TranslateToHighHalfMemoryAddress(m, m.table[t][k].to)
        ELSE IF ~Running(a) THEN [m |-> a, next |-> t]
        ELSE IF child = 0 THEN [m |-> [a EXCEPT !.table[t][k] = None], next |-> 0]
        ELSE IF ~Running(linked.m) THEN linked
        ELSE [linked EXCEPT !.m.table[linked.next] = Zeroed]

PagingMapMemory(m, v, page) ==
    LET pt == FoldLeft(LAMBDA d, k : GetOrAllocEntry(d.m, d.next, k),
                       TranslateToHighHalfMemoryAddress(m, cr3), Front(vaddr_indices(v)))
    IN  PutLeaf(pt, vaddr_indices(v)[4], Leaf(page, FALSE, TRUE, TRUE))

\* One page of heap_map_more; the heap then writes to it.
heap_map_more ==
    /\ pc = "up" /\ why = "none" /\ heap < HeapPages
    /\ LET page == Min(free)
           m == PagingMapMemory(frame_alloc(Now), Heap + heap, page)
       IN  IF free = {} THEN Store(Stop(Now, "out of frames"))
           ELSE Store(IF Running(m) THEN [m EXCEPT !.table[page] = Junk] ELSE m)
    /\ heap' = IF why' = "none" THEN heap + 1 ELSE heap
    /\ UNCHANGED <<boot, g_pml4, cr3, pc, i, at, held>>

Next ==
    \/ new_root \/ map_identity_minimal \/ map_kernel_higher_half
    \/ map_hhdm_entry \/ map_range_huge_first \/ map_low
    \/ audit_stack \/ audit_page \/ install_new_cr3
    \/ frame_init \/ take_frame \/ heap_map_more
    \/ \E f \in held : give_frame(f)

Spec == Init /\ [][Next]_vars

-----------------------------------------------------------------------------
(* Correctness.                                                            *)

Active == cr3 # Limine
Addresses == 0 .. 4 * Slot - 1

\* The pages of the tables in use, root included.
Parents == {<<g_pml4, 1>>} \cup
    {<<Path(table, v)[n].to, n + 1>> :
        <<v, n>> \in {x \in Addresses \X (1 .. 3) : Len(Path(table, x[1])) > x[2]}}

\* A table is used in one place only, and its page belongs to nobody else:
\* neither free, nor with another client, nor a page of the heap.
TablesAreExclusive ==
    Active =>
        /\ \A p, q \in Parents : p[1] = q[1] => p = q
        /\ \A p \in Parents : p[1] \notin free \cup held
        /\ \A p \in Parents, h \in 0 .. heap - 1 : p[1] # Walk(table, Heap + h).pa
        /\ \A p, q \in Parents, k, l \in 0 .. Max(Index) :
               LET e == table[p[1]][k]
                   f == table[q[1]][l]
               IN  p[2] <= 3 /\ q[2] <= 3 /\ e.p /\ ~e.ps /\ f.p /\ ~f.ps /\ e.to = f.to
                       => p = q /\ k = l

\* Once CR3 is loaded, the HHDM shows every unit of memory the kernel may
\* touch, writable, at its own address, and no page at another one's.
HhdmIsDirectMap ==
    Active =>
        /\ \A k \in DOMAIN boot.map : Entry(k).type \in Included =>
               \A unit \in Entry(k).base .. Entry(k).end - 1 :
                   LET x == Walk(table, Hhdm + (unit \div PAGE)) IN x.ok /\ x.w
        /\ \A p \in Page : LET x == Walk(table, Hhdm + p) IN x.ok => x.pa = p

\* No address is writable and executable, and none of the text is writable.
WriteXorExecute ==
    Active => \A v \in Addresses : LET x == Walk(table, v) IN x.ok => ~x.w \/ x.nx

\* Loading CR3 moves neither the kernel image nor the stack.
SwitchIsSeamless ==
    [][cr3' # cr3 =>
          /\ \A v \in Kernel .. KernelEnd - 1 :
                 Walk(table, v).ok /\ Walk(table, v).pa = boot.kernel + (v - Kernel)
          /\ Walk(table, boot.rsp).ok /\ Walk(table, boot.rsp).pa = StackPage]_vars

\* With the new tables active a mapping, once made, is never changed: growing
\* the heap touches nobody's memory but the new page.
MappingsStay ==
    [][Active => \A v \in Addresses :
          Walk(table, v).ok => Walk(table', v) = Walk(table, v)]_vars

\* Some 2 MiB block lies inside an entry, once that is rounded outwards, and a
\* later entry reaches into the block without filling it: the two share a page,
\* the first maps it by a 2 MiB leaf and the second by a single-page one.
PageSharedUnderBigLeaf ==
    \E k, l \in {n \in DOMAIN boot.map : Entry(n).type \in Included}, b \in 0 .. (Slot \div Big) - 1 :
        LET block == b * Big .. (b + 1) * Big - 1 IN
        /\ k < l
        /\ block \subseteq Outer(Entry(k))
        /\ block \cap Outer(Entry(l)) \notin {{}, block}

\* The kernel never finds its audit failing and never faults on a table.  It
\* stops when memory runs out, and get_or_make_next's panic at a huge leaf
\* stops it in one case only: a memory map with a page shared by two entries,
\* below a 2 MiB leaf of the first.
StopsOnlyWithoutMemory ==
    \/ why \in {"none", "out of early pages", "out of frames"}
    \/ why = "descent" /\ pc \in {"entry", "hhdm"} /\ PageSharedUnderBigLeaf
=============================================================================
