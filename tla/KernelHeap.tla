----------------------------- MODULE KernelHeap -----------------------------
(***************************************************************************)
(* The kernel heap, src/mm/kmalloc.c: blocks with a header and a footer    *)
(* that tile the mapped part of the heap window, a first-fit free list,    *)
(* splitting, coalescing by boundary tags, and growth page by page.        *)
(*                                                                         *)
(* Header words lie at multiples of 16 and footer words 8 below one, so    *)
(* the memory is two arrays over the multiples of 16: hdr[a] is the word   *)
(* at a, ftr[a] the word at a - 8.  Whatever a caller stores in a payload  *)
(* is Junk.  The calls are atomic: the lock is never contended, no         *)
(* interrupt handler allocates, and no call yields the CPU.                *)
(***************************************************************************)
EXTENDS Integers, Sequences, FiniteSets

CONSTANTS
    Word,          \* size_t holds 0 .. Word - 1
    PAGE_SIZE, HEAP_BASE, HEAP_LIMIT,
    InitPages,     \* pages mapped by kmalloc_init
    GrowPages,     \* least number of pages mapped by kmalloc
    Requests       \* sizes the callers ask for

ALIGNMENT == 16
MIN_SPLIT_SIZE == 32
HDR_SIZE == 32
FTR_SIZE == 8
OVERHEAD == HDR_SIZE + FTR_SIZE
NULL == 0

ASSUME HeapAssumption ==
    /\ {Word, PAGE_SIZE, HEAP_BASE, HEAP_LIMIT, InitPages, GrowPages} \subseteq Nat \ {0}
    /\ PAGE_SIZE % ALIGNMENT = 0 /\ Word % PAGE_SIZE = 0
    /\ HEAP_BASE % PAGE_SIZE = 0 /\ HEAP_LIMIT % PAGE_SIZE = 0
    /\ PAGE_SIZE >= OVERHEAD
    /\ HEAP_BASE + PAGE_SIZE * InitPages <= HEAP_LIMIT /\ HEAP_LIMIT < Word
    /\ Requests \subseteq 0 .. Word - 1

\* The addresses of the window that are multiples of 16, its end included.
Addr == {a \in HEAP_BASE .. HEAP_LIMIT : a % ALIGNMENT = 0}

Tag(size, alloc) == [size |-> size, alloc |-> alloc]
Junk == Tag(-1, TRUE)
Unmapped == Tag(-1, FALSE)

VARIABLES
    heap,    \* hdr, ftr, fl (the free list, head first), curr (g_heap_curr),
             \* and a ghost: blocks (where blocks start)
    status,  \* "boot" before kmalloc_init, "up", or "halted" by a panic
    live,    \* ghost: the pointers callers hold, with the size they asked for
    freed    \* ghost: the last pointer released, while its block lies unused

vars == <<heap, status, live, freed>>

ALIGN_UP(x, a) == (((x + (a - 1)) % Word) \div a) * a

total_size_for_payload(payload) ==
    ALIGN_UP(ALIGN_UP(payload, ALIGNMENT) + OVERHEAD, ALIGNMENT)

BLK_SIZE(H, h) == H.hdr[h].size
USABLE(H, h) == BLK_SIZE(H, h) - OVERHEAD
NEXT_BLOCK(H, h) == h + BLK_SIZE(H, h)
PREV_BLOCK(H, h) == h - H.ftr[h].size
IS_ALLOC(H, h) == H.hdr[h].alloc

\* Header and footer of the block at h are written together.
WriteTags(H, h, size, alloc) ==
    [H EXCEPT !.hdr[h] = Tag(size, alloc), !.ftr[h + size] = Tag(size, alloc)]

fl_push(H, b) == [H EXCEPT !.fl = <<b>> \o @]
\* b is unlinked from the place in the list where it stands.
fl_remove(H, b) ==
    LET at == {i \in DOMAIN H.fl : H.fl[i] = b}
        i == CHOOSE i \in at : TRUE
    IN  IF at = {} THEN H
        ELSE [H EXCEPT !.fl = SubSeq(H.fl, 1, i - 1) \o SubSeq(H.fl, i + 1, Len(H.fl))]

\* The caller owns the payload of h and may store anything in it.
Scribble(H, h) ==
    LET end == NEXT_BLOCK(H, h)
    IN  [H EXCEPT
            !.hdr = [a \in Addr |-> IF h + HDR_SIZE <= a /\ a < end THEN Junk ELSE @[a]],
            !.ftr = [a \in Addr |-> IF h + HDR_SIZE < a /\ a < end THEN Junk ELSE @[a]]]

\* What lies inside a free block is never read again, save the old header of the
\* pointer ptr should it be released twice: the rest may as well be Junk.
Forget(H, ptr) ==
    LET free == {h \in H.blocks : ~IS_ALLOC(H, h)}
        inside == {a \in Addr : \E h \in free : h < a /\ a < NEXT_BLOCK(H, h)}
    IN  [H EXCEPT
            !.hdr = [a \in Addr |-> IF a \in inside \ {ptr - HDR_SIZE} THEN Junk ELSE @[a]],
            !.ftr = [a \in Addr |-> IF a \in inside THEN Junk ELSE @[a]]]

-----------------------------------------------------------------------------
(* The internal operations, as functions of the heap.                      *)

GrowthEnd(H, bytes) == (ALIGN_UP(H.curr, PAGE_SIZE) + ALIGN_UP(bytes, PAGE_SIZE)) % Word

\* heap_map_more panics past the window; an end that wrapped below the start
\* maps nothing, and the header store faults.
CanGrow(H, bytes) ==
    GrowthEnd(H, bytes) \in ALIGN_UP(H.curr, PAGE_SIZE) + 1 .. HEAP_LIMIT

heap_map_more(H, bytes) ==
    LET start == ALIGN_UP(H.curr, PAGE_SIZE)
        end == GrowthEnd(H, bytes)
        mapped == [H EXCEPT !.curr = end, !.blocks = @ \cup {start}]
    IN  fl_push(WriteTags(mapped, start, end - start, FALSE), start)

\* First fit: the free list is searched from its head.
fl_find_fit(H, need_payload) ==
    LET fits == {i \in DOMAIN H.fl : BLK_SIZE(H, H.fl[i]) >= total_size_for_payload(need_payload)}
        first == {i \in fits : \A j \in fits : i <= j}
    IN  IF first = {} THEN NULL ELSE H.fl[CHOOSE i \in first : TRUE]

\* Mutant: the remainder of a split is dropped.
allocate_from_block_drops_tail(H, h, need_payload) ==
    LET need_total == total_size_for_payload(need_payload)
        old_sz == BLK_SIZE(H, h)
        taken == fl_remove(H, h)
    IN  IF old_sz >= need_total + total_size_for_payload(MIN_SPLIT_SIZE)
        THEN WriteTags(WriteTags([taken EXCEPT !.blocks = @ \cup {h + need_total}],
                                 h, need_total, TRUE),
                       h + need_total, old_sz - need_total, FALSE)
        ELSE WriteTags(taken, h, old_sz, TRUE)

allocate_from_block(H, h, need_payload) ==
    LET need_total == total_size_for_payload(need_payload)
        old_sz == BLK_SIZE(H, h)
        t == h + need_total
        taken == fl_remove(H, h)
        front == WriteTags([taken EXCEPT !.blocks = @ \cup {t}], h, need_total, TRUE)
    IN  IF old_sz >= need_total + total_size_for_payload(MIN_SPLIT_SIZE)
        THEN fl_push(WriteTags(front, t, old_sz - need_total, FALSE), t)
        ELSE WriteTags(taken, h, old_sz, TRUE)

Merge(H, h, n) ==
    WriteTags([H EXCEPT !.blocks = @ \ {n}], h, BLK_SIZE(H, h) + BLK_SIZE(H, n), IS_ALLOC(H, h))

\* Mutant: the last block's right neighbour is taken to be the window's end.
RightIsFree_looks_past_end(H, h) == NEXT_BLOCK(H, h) < HEAP_LIMIT /\ ~IS_ALLOC(H, NEXT_BLOCK(H, h))
RightIsFree(H, h) == NEXT_BLOCK(H, h) < H.curr /\ ~IS_ALLOC(H, NEXT_BLOCK(H, h))

LeftIsFree(H, h) == h > HEAP_BASE /\ ~IS_ALLOC(H, PREV_BLOCK(H, h))

\* The heap after coalescing around h, and the block h ended up in.
coalesce(H, h) ==
    LET n == NEXT_BLOCK(H, h)
        R == IF RightIsFree(H, h) THEN Merge(fl_remove(H, n), h, n) ELSE H
        p == PREV_BLOCK(R, h)
    IN  IF LeftIsFree(R, h) THEN [heap |-> Merge(fl_remove(R, p), p, h), at |-> p]
        ELSE [heap |-> R, at |-> h]

-----------------------------------------------------------------------------
(* The public API.                                                         *)

Init ==
    /\ heap = [hdr |-> [a \in Addr |-> Unmapped], ftr |-> [a \in Addr |-> Unmapped],
               fl |-> <<>>, curr |-> HEAP_BASE, blocks |-> {}]
    /\ status = "boot"
    /\ live = [p \in {} |-> 0]
    /\ freed = NULL

\* A panic: nothing runs afterwards.
Halt == status' = "halted" /\ UNCHANGED <<heap, live, freed>>

kmalloc_init ==
    /\ status = "boot"
    /\ status' = "up"
    /\ heap' = Forget(heap_map_more([heap EXCEPT !.curr = HEAP_BASE, !.fl = <<>>],
                                    InitPages * PAGE_SIZE), NULL)
    /\ UNCHANGED <<live, freed>>

Growth(size) ==
    LET need == total_size_for_payload(size)
        least == GrowPages * PAGE_SIZE
    IN  IF need < least THEN least ELSE need

\* The heap kmalloc searches last: grown once when nothing fitted.
Grown(H, size) == IF fl_find_fit(H, size) # NULL THEN H ELSE heap_map_more(H, Growth(size))

\* kmalloc gets through heap_map_more, where it needs it.
CanServe(H, size) == fl_find_fit(H, size) # NULL \/ CanGrow(H, Growth(size))

\* The heap after a successful kmalloc, and the pointer it returns.
Allocate(H, size) ==
    LET G == Grown(H, size)
        h == fl_find_fit(G, size)
        A == allocate_from_block(G, h, size)
    IN  IF h = NULL THEN [heap |-> G, ptr |-> NULL]
        ELSE [heap |-> Scribble(A, h), ptr |-> h + HDR_SIZE]

\* freed stays known until its header lies in a block that was handed out.
StillFreed(H, ptr) ==
    IF freed # NULL /\ ptr # NULL
       /\ freed - HDR_SIZE \in ptr - HDR_SIZE .. NEXT_BLOCK(H, ptr - HDR_SIZE) - 1
    THEN NULL ELSE freed

kmalloc(size) ==
    /\ status = "up"
    /\ IF size = 0 THEN UNCHANGED vars
       ELSE IF ~CanServe(heap, size) THEN Halt
       ELSE LET r == Allocate(heap, size) IN
            /\ freed' = StillFreed(r.heap, r.ptr)
            /\ heap' = Forget(r.heap, freed')
            /\ live' = IF r.ptr = NULL THEN live
                       ELSE [p \in DOMAIN live \cup {r.ptr} |->
                                IF p = r.ptr THEN size ELSE live[p]]
            /\ UNCHANGED status

\* frame_alloc found no free frame while the heap grew.
out_of_frames(size) ==
    /\ status = "up" /\ size # 0 /\ fl_find_fit(heap, size) = NULL
    /\ Halt

\* Mutant: the allocated flag survives.
Release_keeps_flag(H, ptr) ==
    LET C == coalesce(H, ptr - HDR_SIZE) IN fl_push(C.heap, C.at)
Release(H, ptr) ==
    LET h == ptr - HDR_SIZE
        C == coalesce(WriteTags(H, h, BLK_SIZE(H, h), FALSE), h)
    IN  fl_push(C.heap, C.at)

Without(f, x) == [y \in DOMAIN f \ {x} |-> f[y]]

\* A pointer the caller holds, or the last one it has already released.
kfree(ptr) ==
    /\ status = "up"
    /\ IF ~IS_ALLOC(heap, ptr - HDR_SIZE) THEN Halt
       ELSE /\ heap' = Forget(Release(heap, ptr), ptr)
            /\ live' = Without(live, ptr)
            /\ freed' = ptr
            /\ UNCHANGED status

\* The free block to the right makes the block at h large enough.
\* Mutant: the neighbour's own header and footer are counted twice.
FitsInPlace_counts_twice(H, h, newsize) ==
    RightIsFree(H, h)
        /\ USABLE(H, h) + OVERHEAD + BLK_SIZE(H, NEXT_BLOCK(H, h)) >= newsize
FitsInPlace(H, h, newsize) ==
    RightIsFree(H, h)
        /\ USABLE(H, h) + OVERHEAD + USABLE(H, NEXT_BLOCK(H, h)) >= newsize

\* krealloc of a pointer the caller holds, to a larger or smaller size; with
\* size 0 it is kfree, with a NULL pointer kmalloc.
krealloc(ptr, newsize) ==
    LET h == ptr - HDR_SIZE
        n == NEXT_BLOCK(heap, h)
        Merged == Scribble(Merge(fl_remove(heap, n), h, n), h)
        Moved == Allocate(heap, newsize)
    IN
    /\ status = "up"
    /\ newsize # 0
    /\ IF USABLE(heap, h) >= newsize
       THEN live' = [live EXCEPT ![ptr] = newsize] /\ UNCHANGED <<heap, status, freed>>
       ELSE IF FitsInPlace(heap, h, newsize)
       THEN /\ freed' = StillFreed(Merged, ptr)
            /\ heap' = Forget(Merged, freed')
            /\ live' = [live EXCEPT ![ptr] = newsize]
            /\ UNCHANGED status
       ELSE IF ~CanServe(heap, newsize) THEN Halt
       ELSE IF Moved.ptr = NULL THEN heap' = Forget(Moved.heap, freed) /\ UNCHANGED <<status, live, freed>>
       ELSE /\ heap' = Forget(Release(Moved.heap, ptr), ptr)
            /\ live' = [p \in (DOMAIN live \ {ptr}) \cup {Moved.ptr} |->
                          IF p = Moved.ptr THEN newsize ELSE live[p]]
            /\ freed' = ptr
            /\ UNCHANGED status

Next ==
    \/ kmalloc_init
    \/ \E size \in Requests : kmalloc(size) \/ out_of_frames(size)
    \/ \E ptr \in DOMAIN live \cup ({freed} \ {NULL}) : kfree(ptr)
    \/ \E ptr \in DOMAIN live, size \in Requests : krealloc(ptr, size)

Spec == Init /\ [][Next]_vars

-----------------------------------------------------------------------------
(* Correctness.                                                            *)

\* The blocks tile the mapped heap, and every footer mirrors its header: this is
\* what NEXT_BLOCK and PREV_BLOCK rely on.
BlocksTileHeap ==
    status = "up" =>
        /\ HEAP_BASE \in heap.blocks
        /\ \A h \in heap.blocks :
            LET next == NEXT_BLOCK(heap, h) IN
            /\ BLK_SIZE(heap, h) >= OVERHEAD
            /\ next = heap.curr \/ next \in heap.blocks
            /\ heap.blocks \cap (h + 1 .. next - 1) = {}
            /\ heap.ftr[next] = heap.hdr[h]

\* Every block is either on the free list, once, or held by the caller it was
\* handed to: nothing leaks and no block has two owners, through the splits,
\* merges and moves of kmalloc, kfree and krealloc.
BlocksHaveOneOwner ==
    /\ \A i, j \in DOMAIN heap.fl : heap.fl[i] = heap.fl[j] => i = j
    /\ {heap.fl[i] : i \in DOMAIN heap.fl} = {h \in heap.blocks : ~IS_ALLOC(heap, h)}
    /\ {p - HDR_SIZE : p \in DOMAIN live} = {h \in heap.blocks : IS_ALLOC(heap, h)}

\* A payload that is held keeps what kmalloc.h promises for as long as it is held:
\* 16-byte aligned, at least the size asked for, and none of the heap's own tags
\* written into it, whatever happens to its neighbours.
HeldPayloadsAreSound ==
    \A p \in DOMAIN live :
        /\ p % ALIGNMENT = 0 /\ USABLE(heap, p - HDR_SIZE) >= live[p]
        /\ \A a \in Addr : p < a /\ a < NEXT_BLOCK(heap, p - HDR_SIZE) =>
               heap.hdr[a] = Junk /\ heap.ftr[a] = Junk

\* Releasing a pointer a second time is noticed for as long as its block was not
\* handed out again, however often it was merged or split since.
DoubleFreeNoticed == freed # NULL => ~IS_ALLOC(heap, freed - HDR_SIZE)

=============================================================================
