------------------------------ MODULE Memtest ------------------------------
(***************************************************************************)
(* The memory qualification suite, src/mm/memtest.c, run by the shell on   *)
(* the kernel heap of KernelHeap and on the pool of physical frames, from  *)
(* which the heap also takes the pages it grows by.                        *)
(*                                                                         *)
(* The four tests whose calls are fixed are sequences of calls, the loops  *)
(* of the code written out; a step of the model is one call.  What the     *)
(* suite stores is kept in words of 8 bytes.  The random test draws any    *)
(* numbers in its first cycle and the same ones in its second, as the      *)
(* generator started twice from one seed does.                             *)
(***************************************************************************)
EXTENDS KernelHeap, SequencesExt, Bitwise

CONSTANTS
    FrameCounts,        \* the numbers of free frames memtest may find
    PagesPerTable,      \* pages mapped by one page table
    LineSize,           \* the shell's line buffer, held while memtest runs
    MEMTEST_SLOT_COUNT, MEMTEST_PMM_MAX_FRAMES,
    PmmMargin, PmmLeast,        \* 32 and 8 in pmm_roundtrip_test
    g_basic_sizes, ReallocSizes,
    FirstRange, RefillRange,    \* 7000 and 9000 in fragmentation_test
    Stride,                     \* 73, the stride of the shuffled frees
    SpecialSize, AdjacentSizes, \* 512, and <<2048, 8192, 6144>> in realloc_test
    MEMTEST_GROWTH_SLOTS, MEMTEST_GROWTH_SIZE,
    GrowthStep,                 \* 257 in heap_growth_test
    MaxSize,                    \* no request of the suite is larger
    MEMTEST_RANDOM_OPS, MEMTEST_RANDOM_MAX_ALLOC,
    VerifyEvery,                \* 64 in random_cycle
    YieldEvery,                 \* 32 and 8: how often the other tests yield
    Draws, TagDraws             \* what xorshift64 may return, and for a tag

\* The comment in fragmentation_test: the stride is coprime with the slots.
Slots == 0 .. MEMTEST_SLOT_COUNT - 1
ASSUME StrideAssumption ==
    {(step * Stride) % MEMTEST_SLOT_COUNT : step \in Slots} = Slots

VARIABLES
    free,     \* the free frames
    heapTook, \* ghost: the frames the heap has grown by, its page tables included
    mem,      \* the 8-byte words of the heap window, as last stored by memtest
    page,     \* what memtest stored in the frames it holds
    g_pmm_frames,
    g_slots,
    test, at, \* the running test and the position in it
    noted,    \* the frame count the running test compares with
    cycle, stats, stream, \* the random test: cycle, statistics, numbers drawn
    verdict   \* "running", "pass", or the panic that ended the suite

pool == <<free, heapTook>>
suite == <<test, at, noted>>
random == <<cycle, stats, stream>>
frames == <<page, g_pmm_frames>>
mtvars == <<vars, pool, mem, frames, g_slots, suite, random, verdict>>

frame_free_count == Cardinality(free)
Empty == [ptr |-> NULL, size |-> 0, tag |-> 0]
clear_slots == [s \in Slots |-> Empty]
ZeroStats == [operations |-> 0, allocations |-> 0, frees |-> 0, reallocations |-> 0,
              live_bytes |-> 0, peak_live_bytes |-> 0]

\* A panic of the suite; nothing runs afterwards.
memtest_fail(why) == verdict' = why

-----------------------------------------------------------------------------
(* Contents and checks.                                                    *)

MemWords == {w \in HEAP_BASE .. HEAP_LIMIT - 1 : w % 8 = 0}
Words(size) == {k \in 0 .. size - 1 : k % 8 = 0}

\* The first byte of the word at an offset below 2^16 determines the others.
payload_pattern ==
    [tag \in 0 .. 255, k \in Words(MaxSize) |->
        (tag ^^ (k % 256)) ^^ (k \div 256)]

\* What the heap itself has stored in a word, Junk if that is not its business.
HeapWord(H, w) == IF w % ALIGNMENT = 0 THEN H.hdr[w] ELSE H.ftr[w + 8]

verify_prefix(M, H, ptr, size, tag) ==
    \A k \in Words(size) :
        M[ptr + k] = payload_pattern[tag, k] /\ HeapWord(H, ptr + k) = Junk
verify_slot(M, H, slot) ==
    slot.ptr # NULL => verify_prefix(M, H, slot.ptr, slot.size, slot.tag)
verify_all == \A s \in Slots : verify_slot(mem, heap, g_slots[s])

fill_slot(M, slot) ==
    [w \in MemWords |-> IF slot.ptr <= w /\ w < slot.ptr + slot.size
                        THEN payload_pattern[slot.tag, w - slot.ptr] ELSE M[w]]

verify_alignment(ptr) == ptr % ALIGNMENT = 0
verify_no_overlap(s, ptr, size) ==
    \A i \in Slots \ {s} : g_slots[i].ptr # NULL =>
        ptr >= g_slots[i].ptr + g_slots[i].size \/ g_slots[i].ptr >= ptr + size

-----------------------------------------------------------------------------
(* The heap's calls, with the frames they take.                            *)

\* frame_alloc hands out the lowest free frame.
Lowest(n) == {f \in free : Cardinality({g \in free : g < f}) < n}

\* PagingMapMemory takes a frame for each page, and one for each new table.
FramesFor(start, end) ==
    (end - start) \div PAGE_SIZE
        + Cardinality({a \in start .. end - 1 : a % (PAGE_SIZE * PagesPerTable) = 0})
FramesNeeded(size) ==
    IF fl_find_fit(heap, size) # NULL THEN 0
    ELSE FramesFor(ALIGN_UP(heap.curr, PAGE_SIZE), GrowthEnd(heap, Growth(size)))

\* kmalloc(size) returns: the window has room and the pool has the frames.
Served(size) == CanServe(heap, size) /\ FramesNeeded(size) <= Cardinality(free)
TakeFrames(size) ==
    LET T == Lowest(FramesNeeded(size)) IN free' = free \ T /\ heapTook' = heapTook \cup T

\* krealloc stays in place, returns this pointer, and copies this many bytes.
InPlace(ptr, newsize) ==
    USABLE(heap, ptr - HDR_SIZE) >= newsize \/ FitsInPlace(heap, ptr - HDR_SIZE, newsize)
ReallocResult(ptr, newsize) ==
    IF InPlace(ptr, newsize) THEN ptr ELSE Allocate(heap, newsize).ptr
Copied(ptr, np) ==
    [w \in MemWords |-> IF ptr # np /\ np <= w /\ w < np + USABLE(heap, ptr - HDR_SIZE)
                        THEN mem[ptr + (w - np)] ELSE mem[w]]

\* The heap, or frame_alloc below it, panics.
out_of_memory(size) ==
    /\ ~Served(size)
    /\ memtest_fail("out of memory")
    /\ out_of_frames(size)
    /\ UNCHANGED <<pool, mem, g_slots>>

\* set_slot on what kmalloc returned.
set_slot(s, size, tag) ==
    \/ out_of_memory(size)
    \/ /\ Served(size)
       /\ kmalloc(size)
       /\ TakeFrames(size)
       /\ \E ptr \in {Allocate(heap, size).ptr} :
          \E slot \in {[ptr |-> ptr, size |-> size, tag |-> tag]} :
            IF /\ verify_alignment(ptr)
               /\ USABLE(heap', ptr - HDR_SIZE) >= size
               /\ verify_no_overlap(s, ptr, size)
            THEN /\ g_slots' = [g_slots EXCEPT ![s] = slot]
                 /\ mem' = fill_slot(mem, slot)
                 /\ UNCHANGED verdict
            ELSE memtest_fail("bad allocation") /\ UNCHANGED <<mem, g_slots>>

\* Mutant: the slot is not emptied.
release_slot_keeps(s) ==
    /\ kfree(g_slots[s].ptr)
    /\ UNCHANGED <<pool, mem, g_slots, verdict>>
release_slot(s) ==
    /\ IF g_slots[s].ptr = NULL
       THEN UNCHANGED <<vars, g_slots, verdict>>
       ELSE IF ~verify_slot(mem, heap, g_slots[s])
       THEN memtest_fail("corruption") /\ UNCHANGED <<vars, g_slots>>
       ELSE /\ kfree(g_slots[s].ptr)
            /\ g_slots' = [g_slots EXCEPT ![s] = Empty]
            /\ UNCHANGED verdict
    /\ UNCHANGED <<pool, mem>>

\* krealloc, the check of what it preserved, and the new fill, with those of the
\* other checks that the caller makes.
Preserved(old_size, newsize) == Min({old_size, newsize})

reallocate(s, newsize, checks) ==
    LET old == g_slots[s] IN
    IF "precheck" \in checks /\ ~verify_slot(mem, heap, old)
    THEN memtest_fail("corruption") /\ UNCHANGED <<vars, pool, mem, g_slots>>
    ELSE IF ~InPlace(old.ptr, newsize) /\ ~Served(newsize) THEN out_of_memory(newsize)
    ELSE /\ krealloc(old.ptr, newsize)
         /\ IF InPlace(old.ptr, newsize) THEN UNCHANGED pool ELSE TakeFrames(newsize)
         /\ \E ptr \in {ReallocResult(old.ptr, newsize)} :
            \E M \in {Copied(old.ptr, ptr)}, slot \in {[old EXCEPT !.ptr = ptr, !.size = newsize]} :
              IF /\ verify_prefix(M, heap', ptr, Preserved(old.size, newsize), old.tag)
                 /\ "alignment" \in checks => verify_alignment(ptr)
                 /\ "overlap" \in checks => verify_no_overlap(s, ptr, newsize)
              THEN /\ g_slots' = [g_slots EXCEPT ![s] = slot]
                   /\ mem' = fill_slot(M, slot)
                   /\ UNCHANGED verdict
              ELSE memtest_fail("corruption") /\ UNCHANGED <<mem, g_slots>>

\* What the other processes do to the pool while memtest yields: proc_a, proc_b
\* and soak only write messages.  Mutant: one of them takes a frame.
schedule_to_allocator == free' = free \ Lowest(1) /\ UNCHANGED heapTook
schedule == UNCHANGED pool

-----------------------------------------------------------------------------
(* The tests with fixed calls.                                             *)

Set(s, size, tag) == [op |-> "set", slot |-> s, size |-> size, tag |-> tag % 256]
Realloc(s, size, checks) == [op |-> "realloc", slot |-> s, size |-> size, checks |-> checks]
Free(s) == [op |-> "free", slot |-> s]
Zero(s) == [op |-> "zero", slot |-> s]
Do(op) == [op |-> op]

\* The calls F(i) makes, for i running over a sequence; and a yield every n.
ForEach(seq, F(_)) == FlattenSeq([i \in DOMAIN seq |-> F(seq[i])])
UpTo(n) == [i \in 1 .. n |-> i - 1]
Odd == SelectSeq(UpTo(MEMTEST_SLOT_COUNT), LAMBDA i : i % 2 = 1)
YieldAfter(i, n) == IF i % n = n - 1 THEN <<Do("yield")>> ELSE <<>>

basic_heap_test ==
    ForEach(UpTo(Len(g_basic_sizes)),
            LAMBDA i : << Set(0, g_basic_sizes[i + 1], 49 + i), Do("verify"), Free(0) >>)

NonZero(tag, otherwise) == IF tag = 0 THEN otherwise ELSE tag
Shuffled(step) == (step * Stride) % MEMTEST_SLOT_COUNT

fragmentation_test ==
    ForEach(UpTo(MEMTEST_SLOT_COUNT),
            LAMBDA i : << Set(i, 24 + ((i * 173) % FirstRange), NonZero(64 ^^ i, 64)) >>)
    \o << Do("verify") >>
    \o ForEach(Odd, LAMBDA i : << Free(i) >>)
    \o << Do("verify") >>
    \o ForEach(Odd, LAMBDA i : << Set(i, 73 + ((i * 521) % RefillRange), NonZero(179 ^^ i, 179)) >>)
    \o << Do("verify") >>
    \o ForEach(UpTo(MEMTEST_SLOT_COUNT),
               LAMBDA step : << Free(Shuffled(step)) >> \o YieldAfter(step, YieldEvery))

\* krealloc(NULL, n) is kmalloc(n).
realloc_test ==
    << Set(0, ReallocSizes[1], 90) >>
    \o ForEach(Tail(ReallocSizes), LAMBDA size : << Realloc(0, size, {"precheck", "alignment"}) >>)
    \o << Free(0), Set(0, SpecialSize, 199), Do("verify"), Zero(0),
          Set(0, AdjacentSizes[1], 209), Set(1, AdjacentSizes[2], 210), Free(1),
          Realloc(0, AdjacentSizes[3], {}), Do("verify"), Free(0) >>

heap_growth_test ==
    ForEach(UpTo(MEMTEST_GROWTH_SLOTS),
            LAMBDA i : << Set(i, MEMTEST_GROWTH_SIZE + (i % 8) * GrowthStep, 112 + i) >>
                           \o YieldAfter(i, YieldEvery))
    \o << Do("verify"), Do("note") >>
    \o ForEach(Reverse(UpTo(MEMTEST_GROWTH_SLOTS)), LAMBDA i : << Free(i) >>)
    \o << Do("compare") >>

Scripts == [basic |-> basic_heap_test, fragmentation |-> fragmentation_test,
            realloc |-> realloc_test, growth |-> heap_growth_test]
After == [basic |-> "fragmentation", fragmentation |-> "realloc",
          realloc |-> "growth", growth |-> "random"]

Running(t) == test = t /\ verdict = "running"

\* One call of the running test; the next test starts with clear_slots.
call ==
    /\ test \in DOMAIN Scripts /\ verdict = "running"
    /\ at <= Len(Scripts[test])
    /\ \E c \in {Scripts[test][at]} :
        /\ \/ c.op = "set" /\ set_slot(c.slot, c.size, c.tag)
           \/ c.op = "free" /\ release_slot(c.slot)
           \/ c.op = "realloc" /\ reallocate(c.slot, c.size, c.checks)
           \/ /\ c.op = "zero"
              /\ kfree(g_slots[c.slot].ptr)
              /\ g_slots' = [g_slots EXCEPT ![c.slot] = Empty]
              /\ UNCHANGED <<pool, mem, verdict>>
           \/ /\ c.op = "verify"
              /\ IF verify_all THEN UNCHANGED verdict ELSE memtest_fail("corruption")
              /\ UNCHANGED <<vars, pool, mem, g_slots>>
           \/ c.op = "yield" /\ schedule /\ UNCHANGED <<vars, mem, g_slots, verdict>>
           \/ c.op = "note" /\ UNCHANGED <<vars, pool, mem, g_slots, verdict>>
           \/ /\ c.op = "compare"
              /\ IF frame_free_count = noted THEN UNCHANGED verdict ELSE memtest_fail("frames")
              /\ UNCHANGED <<vars, pool, mem, g_slots>>
        /\ noted' = IF c.op = "note" THEN frame_free_count ELSE noted
    /\ at' = at + 1
    /\ UNCHANGED <<test, frames, random>>

next_test ==
    /\ test \in DOMAIN Scripts /\ verdict = "running"
    /\ at > Len(Scripts[test])
    /\ test' = After[test] /\ at' = IF After[test] = "random" THEN 0 ELSE 1
    /\ g_slots' = clear_slots
    /\ UNCHANGED <<vars, pool, mem, frames, noted, random, verdict>>

-----------------------------------------------------------------------------
(* pmm_roundtrip_test: the pages it takes, then gives back in reverse.     *)

PmmCount ==
    IF noted <= MEMTEST_PMM_MAX_FRAMES + PmmMargin THEN noted \div 4 ELSE MEMTEST_PMM_MAX_FRAMES

pmm_start ==
    /\ Running("pmm")
    /\ noted' = frame_free_count
    /\ IF PmmCount' < PmmLeast THEN memtest_fail("insufficient") ELSE UNCHANGED verdict
    /\ test' = "pmm_alloc"
    /\ UNCHANGED <<vars, pool, mem, frames, g_slots, at, random>>

pmm_alloc ==
    /\ Running("pmm_alloc") /\ Len(g_pmm_frames) < PmmCount
    /\ IF free = {} THEN memtest_fail("out of memory") /\ UNCHANGED <<frames, pool>>
       ELSE \E p \in Lowest(1), i \in {Len(g_pmm_frames)} :
            IF Contains(g_pmm_frames, p)
            THEN memtest_fail("duplicate frame") /\ UNCHANGED <<frames, pool>>
            ELSE /\ g_pmm_frames' = Append(g_pmm_frames, p)
                 /\ page' = [page EXCEPT ![p] = i]
                 /\ free' = free \ {p} /\ UNCHANGED <<heapTook, verdict>>
    /\ test' = IF Len(g_pmm_frames) % YieldEvery = YieldEvery - 1 THEN "pmm_yield" ELSE test
    /\ UNCHANGED <<vars, mem, g_slots, at, noted, random>>

pmm_yield ==
    /\ Running("pmm_yield")
    /\ schedule
    /\ test' = "pmm_alloc"
    /\ UNCHANGED <<vars, mem, frames, g_slots, at, noted, random, verdict>>

pmm_verify ==
    /\ Running("pmm_alloc") /\ Len(g_pmm_frames) = PmmCount
    /\ IF frame_free_count + PmmCount # noted THEN memtest_fail("frames")
       ELSE IF \E i \in DOMAIN g_pmm_frames : page[g_pmm_frames[i]] # i - 1
       THEN memtest_fail("corruption") ELSE UNCHANGED verdict
    /\ test' = "pmm_free"
    /\ UNCHANGED <<vars, pool, mem, frames, g_slots, at, noted, random>>

pmm_free ==
    /\ Running("pmm_free")
    /\ IF g_pmm_frames # <<>>
       THEN /\ free' = free \cup {Last(g_pmm_frames)}
            /\ g_pmm_frames' = Front(g_pmm_frames)
            /\ UNCHANGED <<heapTook, suite, verdict>>
       ELSE /\ IF frame_free_count # noted THEN memtest_fail("frames") ELSE UNCHANGED verdict
            /\ test' = "basic" /\ at' = 1
            /\ UNCHANGED <<pool, g_pmm_frames, noted>>
    /\ UNCHANGED <<vars, mem, page, g_slots, random>>

-----------------------------------------------------------------------------
(* randomized_heap_test.                                                   *)

\* xorshift64: the second cycle draws what the first one has drawn.
xorshift64(d) ==
    IF cycle = 1 THEN stream' = stream \o d
    ELSE IsPrefix(d, SubSeq(stream, at + 1, Len(stream))) /\ UNCHANGED stream

stats_add_live(st, amount) ==
    LET live_bytes == st.live_bytes + amount
    IN  [st EXCEPT !.live_bytes = live_bytes, !.peak_live_bytes = Max({@, live_bytes})]

\* What a call that completed adds to the statistics.
Counted(st) ==
    stats' = [stats EXCEPT ![cycle] =
                 IF verdict' = "running" THEN [st EXCEPT !.operations = @ + 1] ELSE @]

random_alloc(s, x, y) ==
    LET size == 1 + (x % MEMTEST_RANDOM_MAX_ALLOC) IN
    /\ g_slots[s].ptr = NULL
    /\ set_slot(s, size, NonZero(y % 256, 165))
    /\ Counted(stats_add_live([stats[cycle] EXCEPT !.allocations = @ + 1], size))

random_free(s) ==
    /\ release_slot(s)
    /\ Counted([stats[cycle] EXCEPT !.frees = @ + 1, !.live_bytes = @ - g_slots[s].size])

random_realloc(s, x) ==
    LET newsize == 1 + (x % MEMTEST_RANDOM_MAX_ALLOC) IN
    /\ reallocate(s, newsize, {"precheck", "alignment", "overlap"})
    /\ Counted(stats_add_live([stats[cycle] EXCEPT !.reallocations = @ + 1,
                                                   !.live_bytes = @ - g_slots[s].size], newsize))

random_verify(s) ==
    /\ IF verify_slot(mem, heap, g_slots[s]) THEN UNCHANGED verdict ELSE memtest_fail("corruption")
    /\ UNCHANGED <<vars, pool, mem, g_slots>>
    /\ Counted(stats[cycle])

\* One operation of random_cycle: the numbers drawn decide on the slot, then on
\* what is done with it.
random_op ==
    /\ Running("random") /\ stats[cycle].operations < MEMTEST_RANDOM_OPS
    /\ \E x \in Draws : \E s \in {x % MEMTEST_SLOT_COUNT} :
        \/ \E y \in Draws, z \in TagDraws :
            /\ xorshift64(<<x, y, z>>) /\ at' = at + 3
            /\ random_alloc(s, y, z)
        \/ \E y \in Draws :
            /\ g_slots[s].ptr # NULL
            /\ \/ /\ y % 100 < 35
                  /\ xorshift64(<<x, y>>) /\ at' = at + 2
                  /\ random_free(s)
               \/ /\ y % 100 \in 35 .. 74
                  /\ \E z \in Draws :
                        /\ xorshift64(<<x, y, z>>) /\ at' = at + 3
                        /\ random_realloc(s, z)
               \/ /\ y % 100 >= 75
                  /\ xorshift64(<<x, y>>) /\ at' = at + 2
                  /\ random_verify(s)
    /\ test' = IF stats[cycle].operations % VerifyEvery = VerifyEvery - 1
               THEN "random_verify" ELSE test
    /\ UNCHANGED <<frames, noted, cycle>>

\* The periodic verification, and the yield after it.
random_full_verify ==
    /\ Running("random_verify")
    /\ IF verify_all THEN UNCHANGED verdict ELSE memtest_fail("corruption")
    /\ schedule
    /\ test' = "random"
    /\ UNCHANGED <<vars, mem, frames, g_slots, at, noted, random>>

random_end ==
    /\ Running("random") /\ stats[cycle].operations = MEMTEST_RANDOM_OPS
    /\ IF verify_all THEN UNCHANGED verdict ELSE memtest_fail("corruption")
    /\ test' = "cleanup" /\ at' = 0
    /\ UNCHANGED <<vars, pool, mem, frames, g_slots, noted, random>>

random_cleanup ==
    /\ Running("cleanup") /\ at < MEMTEST_SLOT_COUNT
    /\ \E s \in {Shuffled(at)} :
        /\ release_slot(s)
        /\ stats' = IF g_slots[s].ptr = NULL THEN stats
                    ELSE [stats EXCEPT ![cycle].frees = @ + 1,
                                       ![cycle].live_bytes = @ - g_slots[s].size]
    /\ at' = at + 1
    /\ UNCHANGED <<frames, test, noted, cycle, stream>>

\* The end of a cycle; after the second the statistics are compared.
Compared(st) == <<st.operations, st.allocations, st.reallocations, st.peak_live_bytes>>
random_cycle_end ==
    /\ Running("cleanup") /\ at = MEMTEST_SLOT_COUNT
    /\ verdict' = IF stats[cycle].live_bytes # 0 THEN "live bytes"
                  ELSE IF cycle = 1 THEN "running"
                  ELSE IF Compared(stats[1]) # Compared(stats[2]) THEN "different stats"
                  ELSE "pass"
    /\ test' = "random" /\ at' = 0 /\ cycle' = 2
    /\ g_slots' = clear_slots
    /\ UNCHANGED <<vars, pool, mem, frames, noted, stats, stream>>

-----------------------------------------------------------------------------

\* The shell runs the command: the heap is up and holds the line typed.
MTInit ==
    LET up == heap_map_more([hdr |-> [a \in Addr |-> Unmapped], ftr |-> [a \in Addr |-> Unmapped],
                             fl |-> <<>>, curr |-> HEAP_BASE, blocks |-> {}], InitPages * PAGE_SIZE)
        line == Allocate(up, LineSize)
    IN
    /\ heap = Forget(line.heap, NULL)
    /\ status = "up" /\ freed = NULL
    /\ live = [p \in {line.ptr} |-> LineSize]
    /\ \E n \in FrameCounts : free = 1 .. n /\ page = [f \in 1 .. n |-> 0]
    /\ heapTook = {} /\ g_pmm_frames = <<>>
    /\ mem = [w \in MemWords |-> 0]
    /\ g_slots = clear_slots
    /\ test = "pmm" /\ at = 1 /\ noted = 0
    /\ cycle = 1 /\ stats = [c \in 1 .. 2 |-> ZeroStats] /\ stream = <<>>
    /\ verdict = "running"

\* memtest_run has returned, or the machine has stopped.
ended == verdict # "running" /\ UNCHANGED mtvars

MTNext ==
    \/ pmm_start \/ pmm_alloc \/ pmm_yield \/ pmm_verify \/ pmm_free
    \/ call \/ next_test
    \/ random_op \/ random_full_verify \/ random_end \/ random_cleanup \/ random_cycle_end
    \/ ended

MTSpec == MTInit /\ [][MTNext]_mtvars

-----------------------------------------------------------------------------
(* Correctness.                                                            *)

\* The suite never blames allocators that work: on this heap and this pool it
\* stops only for want of memory, every check of memtest.c holding whatever
\* numbers the generator returns and however the heap grew in between.
NoFalseAlarm == verdict \in {"running", "pass", "insufficient", "out of memory"}

\* The suite keeps what it holds in its tables: a block of the heap is in a slot
\* or is the shell's line, a frame that is not free is in g_pmm_frames or belongs
\* to the heap; so when the suite ends everything it took has been given back,
\* save the pages the heap has grown by.
NothingKept ==
    LET held == {g_slots[s].ptr : s \in Slots} \ {NULL}
        took == DOMAIN page \ free
    IN  /\ verdict = "running" => Cardinality(DOMAIN live) = 1 + Cardinality(held)
        /\ verdict = "running" => took = heapTook \cup ToSet(g_pmm_frames)
        /\ verdict = "pass" => Cardinality(DOMAIN live) = 1 /\ took = heapTook

=============================================================================
