-------------------------- MODULE KernelHeap_proofs --------------------------
(***************************************************************************)
(* Proofs about the kernel heap, for every window, page size and set of    *)
(* request sizes.                                                          *)
(*                                                                         *)
(* The operations are functions of the heap, and a call is several of them *)
(* in a row, with the free list and the tags out of step in between.  The  *)
(* inductive invariant Sound(H, X, L, f) is therefore a predicate of a     *)
(* heap: X holds the free block that is not on the list at that moment.    *)
(* Every change to the tags lays one or two blocks over a run of whole     *)
(* blocks (Refit, Split) or adds one at the end (Extend); what lies        *)
(* elsewhere keeps its header, its footer and its payload.                 *)
(***************************************************************************)
EXTENDS KernelHeap, TLAPS

\* No request comes so close to the end of size_t that its block size wraps:
\* kmalloc.c does not test for it, and none of its callers asks for as much.
SizesFit == \A size \in Requests : size + OVERHEAD + 2 * ALIGNMENT <= Word

TagSet == [size : Int, alloc : BOOLEAN]

HeapType ==
    [hdr : [Addr -> TagSet], ftr : [Addr -> TagSet], fl : Seq(Addr),
     curr : Addr, blocks : SUBSET Addr]

\* Where a block may end: where another starts, or at the end of the heap.
Ends(H) == H.blocks \cup {H.curr}

\* One block: it ends at a boundary, no other starts inside it, and its footer
\* is its header.
Block(H, h) ==
    /\ h < H.curr
    /\ BLK_SIZE(H, h) >= OVERHEAD
    /\ NEXT_BLOCK(H, h) \in Ends(H)
    /\ \A b \in H.blocks : ~(h < b /\ b < NEXT_BLOCK(H, h))
    /\ H.ftr[NEXT_BLOCK(H, h)] = H.hdr[h]

\* The blocks tile the mapped heap: BlocksTileHeap, and that every block but the
\* first has another one to its left, which is what PREV_BLOCK finds.
Tiles(H) ==
    /\ H \in HeapType
    /\ H.curr % PAGE_SIZE = 0
    /\ H.curr = HEAP_BASE \/ HEAP_BASE \in H.blocks
    /\ \A h \in H.blocks : Block(H, h)
    /\ \A b \in Ends(H) : b = HEAP_BASE \/ \E p \in H.blocks : NEXT_BLOCK(H, p) = b

Free(H) == {h \in H.blocks : ~IS_ALLOC(H, h)}
Held(H) == {h \in H.blocks : IS_ALLOC(H, h)}

Members(s) == {s[i] : i \in DOMAIN s}
Distinct(s) == \A i, j \in DOMAIN s : s[i] = s[j] => i = j

\* The free list holds every free block but those of X, once.
Listed(H, X) == Distinct(H.fl) /\ Members(H.fl) = Free(H) \ X

\* The pointers held are the payloads of the allocated blocks.
Owned(H, L) == DOMAIN L = {h + HDR_SIZE : h \in Held(H)}

\* The block at h has room for n bytes, and no tag lies in its payload.
Payload(H, h, n) ==
    /\ USABLE(H, h) >= n
    /\ \A a \in Addr : h + HDR_SIZE < a /\ a < NEXT_BLOCK(H, h) =>
           H.hdr[a] = Junk /\ H.ftr[a] = Junk

Payloads(H, L) == \A h \in Held(H) : Payload(H, h, L[h + HDR_SIZE])

\* The last pointer released lies in a free block, behind a header that is not
\* marked allocated.
Released(H, f) ==
    f = NULL \/ /\ f - HDR_SIZE \in Addr
                /\ ~IS_ALLOC(H, f - HDR_SIZE)
                /\ \E b \in Free(H) : b <= f - HDR_SIZE /\ f - HDR_SIZE < NEXT_BLOCK(H, b)

Sound(H, X, L, f) ==
    Tiles(H) /\ Listed(H, X) /\ Owned(H, L) /\ Payloads(H, L) /\ Released(H, f)

\* The inductive invariant.
IInv ==
    /\ Sound(heap, {}, live, freed)
    /\ status = "boot" => heap.curr = HEAP_BASE /\ heap.fl = <<>>
    /\ status # "boot" => HEAP_BASE \in heap.blocks

-----------------------------------------------------------------------------
(* Sizes and addresses.                                                    *)

\* What the assumptions say of the constants.
LEMMA Constants ==
    /\ Word \in Nat \ {0} /\ PAGE_SIZE \in Nat \ {0}
    /\ HEAP_BASE \in Nat \ {0} /\ HEAP_LIMIT \in Nat \ {0}
    /\ InitPages \in Nat \ {0} /\ GrowPages \in Nat \ {0}
    /\ PAGE_SIZE >= OVERHEAD /\ OVERHEAD = 40 /\ HDR_SIZE = 32 /\ ALIGNMENT = 16
    /\ HEAP_LIMIT < Word /\ HEAP_BASE + PAGE_SIZE * InitPages <= HEAP_LIMIT
    /\ NULL = 0
  BY HeapAssumption DEF OVERHEAD, HDR_SIZE, FTR_SIZE, ALIGNMENT, NULL

\* Quotient and remainder by a positive divisor.
LEMMA DivMod ==
    ASSUME NEW p \in Nat \ {0}, NEW x \in Nat
    PROVE  /\ x \div p \in Nat
           /\ x % p \in 0 .. p - 1
           /\ x = p * (x \div p) + (x % p)
  OBVIOUS

\* The multiples of a page are multiples of 16.
LEMMA PageIsAligned ==
    ASSUME NEW x \in Nat, x % PAGE_SIZE = 0
    PROVE  x % ALIGNMENT = 0 /\ (\E k \in Nat : x = PAGE_SIZE * k)
<1>1. PAGE_SIZE \in Nat \ {0} /\ PAGE_SIZE % 16 = 0
  BY HeapAssumption, Zenon DEF ALIGNMENT
<1>2. PICK k \in Nat : x = PAGE_SIZE * k
  <2> QED BY <1>1
<1>3. PICK j \in Nat : PAGE_SIZE = 16 * j
  BY <1>1
<1> QED BY <1>2, <1>3 DEF ALIGNMENT

\* A multiple of a page is what it is rounded up to.
LEMMA PageAligned ==
    ASSUME NEW x \in Nat, x % PAGE_SIZE = 0, x <= HEAP_LIMIT
    PROVE  ALIGN_UP(x, PAGE_SIZE) = x
<1>1. PICK k \in Nat : x = PAGE_SIZE * k
  BY PageIsAligned, Zenon
<1>2. PICK w \in Nat : Word = PAGE_SIZE * w
  BY PageIsAligned, HeapAssumption, Zenon
<1>3. k + 1 <= w
  BY <1>1, <1>2, Constants
<1> DEFINE y == x + (PAGE_SIZE - 1)
<1>6. y \in Nat /\ y < Word /\ y = PAGE_SIZE * k + (PAGE_SIZE - 1)
  BY <1>1, <1>2, <1>3, Constants
<1>7. y % Word = y /\ y \div PAGE_SIZE = k
  <2> HIDE DEF y
  <2> QED BY <1>6, Constants
<1> HIDE DEF y
<1> QED BY <1>1, <1>7, Constants DEF ALIGN_UP, y

\* Whatever is rounded up to pages is a whole number of pages below Word.
LEMMA PagesRounded ==
    ASSUME NEW x \in Nat
    PROVE  /\ ALIGN_UP(x, PAGE_SIZE) \in Nat /\ ALIGN_UP(x, PAGE_SIZE) < Word
           /\ \E k \in Nat : ALIGN_UP(x, PAGE_SIZE) = PAGE_SIZE * k
<1> DEFINE y == (x + (PAGE_SIZE - 1)) % Word
           k == y \div PAGE_SIZE
<1>1. y \in 0 .. Word - 1
  BY Constants
<1>2. k \in Nat /\ y % PAGE_SIZE \in 0 .. PAGE_SIZE - 1 /\ y = PAGE_SIZE * k + (y % PAGE_SIZE)
  <2> HIDE DEF y
  <2>1. y \in Nat
    BY <1>1
  <2> QED BY <2>1, DivMod, Constants, Zenon
<1>3. ALIGN_UP(x, PAGE_SIZE) = k * PAGE_SIZE
  BY Zenon DEF ALIGN_UP
<1> HIDE DEF y, k
<1>6. PAGE_SIZE * k < Word
  <2> DEFINE z == PAGE_SIZE * k
  <2> HIDE DEF z
  <2> QED BY <1>1, <1>2, Constants DEF z
<1> QED BY <1>2, <1>3, <1>6, Constants

\* Where the heap ends after it grew by bytes: a whole number of pages, at least
\* one, further on and inside the window.
LEMMA GrowthIs ==
    ASSUME NEW H, NEW bytes \in Nat, H.curr \in Addr, H.curr % PAGE_SIZE = 0,
           CanGrow(H, bytes)
    PROVE  /\ ALIGN_UP(H.curr, PAGE_SIZE) = H.curr
           /\ GrowthEnd(H, bytes) \in Addr
           /\ GrowthEnd(H, bytes) % PAGE_SIZE = 0
           /\ GrowthEnd(H, bytes) >= H.curr + PAGE_SIZE
<1> DEFINE c == H.curr
           A == ALIGN_UP(bytes, PAGE_SIZE)
           end == GrowthEnd(H, bytes)
<1>1. c \in Nat /\ c >= HEAP_BASE /\ c <= HEAP_LIMIT /\ c < Word
  BY Constants DEF Addr
<1>3. A \in Nat /\ A < Word /\ (\E k \in Nat : A = PAGE_SIZE * k)
  BY PagesRounded, Zenon
<1>4. end = (c + A) % Word /\ end \in c + 1 .. HEAP_LIMIT
  BY <1>1, PageAligned, Zenon DEF GrowthEnd, CanGrow
<1> HIDE DEF c, A, end
<1>5. end = c + A
  BY <1>4, <1>1, <1>3, Constants
<1>6. PICK j \in Nat : c = PAGE_SIZE * j
  BY <1>1, PageIsAligned, Zenon DEF c
<1>7. PICK k \in Nat : A = PAGE_SIZE * k
  BY <1>3, Zenon
<1>12. end \in Nat /\ end >= c + PAGE_SIZE /\ end <= HEAP_LIMIT
  BY <1>1, <1>3, <1>4, Constants
<1> QED BY <1>12, <1>5, <1>6, <1>7, Constants, PageIsAligned, PageAligned DEF c, end, Addr

\* kmalloc_init stays in the window.
LEMMA InitFits ==
    ASSUME NEW H, H.curr = HEAP_BASE
    PROVE  CanGrow(H, InitPages * PAGE_SIZE) /\ InitPages * PAGE_SIZE \in Nat
<1> DEFINE A == InitPages * PAGE_SIZE
<1>1. A \in Nat /\ A >= 1 /\ A = PAGE_SIZE * InitPages + 0
  BY Constants
<1> HIDE DEF A
<1>4. ALIGN_UP(A, PAGE_SIZE) = A
  BY <1>1, PageAligned, Constants
<1>5. ALIGN_UP(HEAP_BASE, PAGE_SIZE) = HEAP_BASE
  BY HeapAssumption, PageAligned
<1>6. (HEAP_BASE + A) % Word = HEAP_BASE + A
  <2>1. HEAP_BASE + A \in Nat /\ HEAP_BASE + A < Word
    BY <1>1, Constants
  <2> QED BY <2>1, Constants
<1> QED BY <1>5, <1>4, Constants DEF A, CanGrow, GrowthEnd

\* Rounding up to 16, below the end of size_t.
LEMMA AlignSmall ==
    ASSUME NEW x \in Nat, x + 15 < Word
    PROVE  /\ ALIGN_UP(x, ALIGNMENT) \in x .. x + 15
           /\ ALIGN_UP(x, ALIGNMENT) % 16 = 0
<1>3. PICK q \in Nat : q = (x + 15) \div 16 /\ 16 * q <= x + 15 /\ x + 15 <= 16 * q + 15
  OBVIOUS
<1> QED BY Constants DEF ALIGN_UP

\* The size of a block for a payload: aligned, with room for both tags.
LEMMA TotalIs ==
    ASSUME NEW n \in Nat, n + OVERHEAD + 2 * ALIGNMENT <= Word
    PROVE  /\ total_size_for_payload(n) \in Nat
           /\ total_size_for_payload(n) % 16 = 0
           /\ total_size_for_payload(n) >= n + OVERHEAD
<1> DEFINE x == ALIGN_UP(n, ALIGNMENT)
<1> HIDE DEF x
<1> QED BY Constants, AlignSmall DEF total_size_for_payload, x

-----------------------------------------------------------------------------
(* The free list.                                                          *)

\* fl_push puts a block in front, where it was not on the list.
LEMMA Pushed ==
    ASSUME NEW H \in HeapType, NEW b \in Addr, Distinct(H.fl), b \notin Members(H.fl)
    PROVE  /\ fl_push(H, b) \in HeapType
           /\ fl_push(H, b).hdr = H.hdr /\ fl_push(H, b).ftr = H.ftr
           /\ fl_push(H, b).curr = H.curr /\ fl_push(H, b).blocks = H.blocks
           /\ Distinct(fl_push(H, b).fl)
           /\ Members(fl_push(H, b).fl) = Members(H.fl) \cup {b}
<1> DEFINE s == H.fl
           t == <<b>> \o s
<1>1. s \in Seq(Addr) /\ fl_push(H, b) = [H EXCEPT !.fl = t]
  BY Zenon DEF HeapType, fl_push
<1>2. t \in Seq(Addr) /\ DOMAIN t = 1 .. Len(s) + 1 /\ t[1] = b
      /\ (\A i \in 1 .. Len(s) : t[i + 1] = s[i]) /\ Len(s) \in Nat /\ DOMAIN s = 1 .. Len(s)
  BY <1>1
<1> HIDE DEF t, s
<1>3. \A i \in DOMAIN t : i = 1 \/ (i - 1 \in DOMAIN s /\ t[i] = s[i - 1])
  BY <1>2
<1>4. Distinct(t)
  <2>1. Distinct(s) /\ \A i \in DOMAIN s : s[i] # b
    BY Zenon DEF Distinct, Members, s
  <2> QED BY <2>1, <1>2, <1>3, SMTT(60) DEF Distinct
<1>5. Members(t) = Members(s) \cup {b}
  <2>1. ASSUME NEW x \in Members(t) PROVE x \in Members(s) \cup {b}
    BY <1>2, <1>3 DEF Members
  <2>2. ASSUME NEW x \in Members(s) PROVE x \in Members(t)
    <3>1. PICK i \in DOMAIN s : x = s[i]
      BY Zenon DEF Members
    <3> QED BY <1>2, SMTT(60) DEF Members
  <2>3. b \in Members(t)
    BY <1>2 DEF Members
  <2> QED BY <2>1, <2>2, <2>3, Zenon
<1> QED BY <1>1, <1>4, <1>5, <1>2 DEF s, HeapType

\* fl_remove takes a block off the list and leaves the others on it.
LEMMA Removed ==
    ASSUME NEW H \in HeapType, NEW b, Distinct(H.fl)
    PROVE  /\ fl_remove(H, b) \in HeapType
           /\ fl_remove(H, b).hdr = H.hdr /\ fl_remove(H, b).ftr = H.ftr
           /\ fl_remove(H, b).curr = H.curr /\ fl_remove(H, b).blocks = H.blocks
           /\ Distinct(fl_remove(H, b).fl)
           /\ Members(fl_remove(H, b).fl) = Members(H.fl) \ {b}
<1> DEFINE s == H.fl
           at == {i \in DOMAIN s : s[i] = b}
           i == CHOOSE i \in at : TRUE
           t == SubSeq(s, 1, i - 1) \o SubSeq(s, i + 1, Len(s))
<1>1. s \in Seq(Addr) /\ Len(s) \in Nat /\ DOMAIN s = 1 .. Len(s)
  BY DEF HeapType
<1>2. CASE at = {}
  BY <1>2, Zenon DEF Members, fl_remove
<1>3. CASE at # {}
  <2>1. i \in 1 .. Len(s) /\ s[i] = b
    <3>1. i \in at
      BY <1>3, Zenon
    <3> HIDE DEF i
    <3> QED BY <3>1, <1>1, Zenon
  <2>2. fl_remove(H, b) = [H EXCEPT !.fl = t]
    BY <1>3, Zenon DEF fl_remove
  <2> HIDE DEF s, i
  <2>3. /\ t \in Seq(Addr) /\ Len(t) = Len(s) - 1
        /\ \A k \in 1 .. Len(s) - 1 : t[k] = IF k < i THEN s[k] ELSE s[k + 1]
    <3> DEFINE u == SubSeq(s, 1, i - 1)
               v == SubSeq(s, i + 1, Len(s))
    <3>1. u \in Seq(Addr) /\ Len(u) = i - 1 /\ \A k \in 1 .. i - 1 : u[k] = s[k]
      BY <1>1, <2>1
    <3>2. v \in Seq(Addr) /\ Len(v) = Len(s) - i /\ \A k \in 1 .. Len(s) - i : v[k] = s[i + k]
      <4>2. /\ v \in Seq(Addr)
            /\ Len(v) = IF i + 1 <= Len(s) THEN Len(s) - (i + 1) + 1 ELSE 0
            /\ \A k \in 1 .. Len(s) - (i + 1) + 1 : v[k] = s[(i + 1) + k - 1]
        BY <1>1, <2>1
      <4>3. \A k \in 1 .. Len(s) - i : k \in 1 .. Len(s) - (i + 1) + 1 /\ (i + 1) + k - 1 = i + k
        BY <2>1
      <4> HIDE DEF v
      <4>4. Len(v) = Len(s) - i
        <5>2. Len(s) \in Nat /\ i \in 1 .. Len(s)
          BY <2>1
        <5>3. CASE i + 1 <= Len(s)
          BY <5>2, <4>2
        <5>4. CASE i = Len(s)
          BY <5>4, <4>2
        <5> QED BY <5>2, <5>3, <5>4
      <4>5. ASSUME NEW k \in 1 .. Len(s) - i PROVE v[k] = s[i + k]
        BY <4>2, <4>3, Zenon
      <4> QED BY <4>2, <4>4, <4>5, Zenon
    <3> HIDE DEF u, v
    <3>3. /\ u \o v \in Seq(Addr) /\ Len(u \o v) = Len(s) - 1
          /\ \A k \in 1 .. Len(s) - 1 : (u \o v)[k] = IF k < i THEN u[k] ELSE v[k - (i - 1)]
      <4>1. /\ u \o v \in Seq(Addr) /\ Len(u \o v) = Len(u) + Len(v)
            /\ \A k \in 1 .. Len(u) + Len(v) :
                 (u \o v)[k] = IF k <= Len(u) THEN u[k] ELSE v[k - Len(u)]
        <5>1. u \in Seq(Addr) /\ v \in Seq(Addr)
          BY <3>1, <3>2, Zenon
        <5>3. ASSUME NEW k \in 1 .. Len(u) PROVE (u \o v)[k] = u[k]
          BY <5>1
        <5>4. ASSUME NEW k \in Len(u) + 1 .. Len(u) + Len(v) PROVE (u \o v)[k] = v[k - Len(u)]
          BY <5>1
        <5> QED BY <5>1
      <4>2. Len(u) + Len(v) = Len(s) - 1 /\ \A k \in Int : k <= Len(u) <=> k < i
        BY <2>1, <3>1, <3>2
      <4> QED BY <4>1, <4>2, <3>1, SMTT(60)
    <3>4. ASSUME NEW k \in 1 .. Len(s) - 1
          PROVE  (u \o v)[k] = IF k < i THEN s[k] ELSE s[k + 1]
      <4>1. CASE k < i
        BY <4>1, <3>1, <2>1
      <4>2. CASE ~(k < i)
        BY <4>2, <3>2, <3>3, <2>1, <1>1, SMTT(60)
      <4> QED BY <4>1, <4>2, Zenon
    <3> QED BY <3>3, <3>4, Zenon DEF u, v
  <2>4. DOMAIN t = 1 .. Len(s) - 1
    BY <2>3, SMTT(60)
  <2> HIDE DEF t
  <2> DEFINE from(k) == IF k < i THEN k ELSE k + 1
  <2>5. \A k \in DOMAIN t : from(k) \in DOMAIN s /\ from(k) # i /\ t[k] = s[from(k)]
    BY <2>3
  <2>6. \A k, l \in DOMAIN t : from(k) = from(l) => k = l
    BY <2>1, <2>4
  <2>7. \A m \in DOMAIN s : m # i => \E k \in DOMAIN t : from(k) = m
    <3> TAKE m \in DOMAIN s
    <3> HAVE m # i
    <3>1. CASE m < i
      BY <3>1, <2>1, <2>4
    <3>2. CASE ~(m < i)
      <4>1. m - 1 \in DOMAIN t /\ from(m - 1) = m
        BY <3>2, <2>1, <2>4
      <4> QED BY <4>1, Zenon
    <3> QED BY <3>1, <3>2, Zenon
  <2> HIDE DEF from
  <2>8. Distinct(s)
    BY Zenon DEF s
  <2>9. Distinct(t)
    BY <2>5, <2>6, <2>8, Zenon DEF Distinct
  <2>10. Members(t) = Members(s) \ {b}
    <3>1. ASSUME NEW x \in Members(t) PROVE x \in Members(s) /\ x # b
      <4>1. PICK k \in DOMAIN t : x = t[k]
        BY Zenon DEF Members
      <4> QED BY <2>1, <2>5, <2>8 DEF Distinct, Members
    <3>2. ASSUME NEW x \in Members(s), x # b PROVE x \in Members(t)
      <4>1. PICK m \in DOMAIN s : x = s[m]
        BY Zenon DEF Members
      <4>2. PICK k \in DOMAIN t : from(k) = m
        BY <4>1, <3>2, <2>1, <2>7, Zenon
      <4> QED BY <4>1, <4>2, <2>5, Zenon DEF Members
    <3> QED BY <3>1, <3>2, Zenon
  <2> QED BY <2>2, <2>9, <2>10, <2>3, SMTT(60) DEF s, HeapType
<1> QED BY <1>2, <1>3, Zenon

-----------------------------------------------------------------------------
(* Laying blocks over the heap.                                            *)

\* An address of the window is a number that NULL is not.
LEMMA AddrFacts ==
    ASSUME NEW a \in Addr
    PROVE  a \in Nat /\ HEAP_BASE <= a /\ a <= HEAP_LIMIT /\ a % 16 = 0 /\ a # NULL
  BY Constants DEF Addr

\* The fields of a heap, and the numbers read from its tags.
LEMMA TypeFacts ==
    ASSUME NEW H \in HeapType
    PROVE  /\ H.hdr \in [Addr -> TagSet] /\ H.ftr \in [Addr -> TagSet]
           /\ H.fl \in Seq(Addr) /\ H.curr \in Addr /\ H.blocks \subseteq Addr
           /\ \A a \in Addr : BLK_SIZE(H, a) \in Int /\ H.ftr[a].size \in Int
                              /\ NEXT_BLOCK(H, a) \in Int
<1>2. ASSUME NEW a \in Addr
      PROVE  BLK_SIZE(H, a) \in Int /\ H.ftr[a].size \in Int /\ NEXT_BLOCK(H, a) \in Int
  <2>1. H.hdr[a] \in TagSet /\ H.ftr[a] \in TagSet
    BY Zenon DEF HeapType
  <2> QED BY <2>1, AddrFacts DEF BLK_SIZE, NEXT_BLOCK, TagSet
<1> QED BY <1>2, Zenon DEF HeapType

\* K is H with the tag written as header at h and as footer at end.
TagsWritten(H, K, h, end, tag) ==
    /\ K \in HeapType
    /\ K.fl = H.fl /\ K.curr = H.curr /\ K.blocks = H.blocks
    /\ K.hdr[h] = tag /\ \A a \in Addr : a # h => K.hdr[a] = H.hdr[a]
    /\ K.ftr[end] = tag /\ \A a \in Addr : a # end => K.ftr[a] = H.ftr[a]

\* WriteTags changes one header and one footer.
LEMMA Written ==
    ASSUME NEW H \in HeapType, NEW h \in Addr, NEW size \in Int, h + size \in Addr,
           NEW alloc \in BOOLEAN
    PROVE  TagsWritten(H, WriteTags(H, h, size, alloc), h, h + size, Tag(size, alloc))
<1> DEFINE K == WriteTags(H, h, size, alloc)
           tag == Tag(size, alloc)
           hd == [H.hdr EXCEPT ![h] = tag]
           ft == [H.ftr EXCEPT ![h + size] = tag]
<1>1. tag \in TagSet
  BY Zenon DEF Tag, TagSet
<1> HIDE DEF tag
<1> HIDE DEF K, hd, ft
<1> QED BY <1>1, Zenon DEF K, tag, TagsWritten, WriteTags, HeapType

\* WriteTags, marking the block allocated.
LEMMA WrittenHeld ==
    ASSUME NEW H \in HeapType, NEW h \in Addr, NEW size \in Int, h + size \in Addr
    PROVE  TagsWritten(H, WriteTags(H, h, size, TRUE), h, h + size, Tag(size, TRUE))
<1> DEFINE flag == TRUE
<1> HIDE DEF flag
<1> QED BY Written, Zenon DEF flag

\* WriteTags, marking the block free.
LEMMA WrittenFree ==
    ASSUME NEW H \in HeapType, NEW h \in Addr, NEW size \in Int, h + size \in Addr
    PROVE  TagsWritten(H, WriteTags(H, h, size, FALSE), h, h + size, Tag(size, FALSE))
<1> DEFINE flag == FALSE
<1> HIDE DEF flag
<1> QED BY Written, Zenon DEF flag

\* Blocks do not overlap: a boundary beyond the start of a block lies at or
\* beyond its end.
LEMMA Apart ==
    ASSUME NEW H, Tiles(H), NEW h \in H.blocks
    PROVE  /\ h \in Addr /\ NEXT_BLOCK(H, h) \in Addr
           /\ h + OVERHEAD <= NEXT_BLOCK(H, h) /\ NEXT_BLOCK(H, h) <= H.curr
           /\ NEXT_BLOCK(H, h) = h + BLK_SIZE(H, h)
           /\ \A b \in Ends(H) : b \in Addr /\ (b <= h \/ NEXT_BLOCK(H, h) <= b)
<1>1. H \in HeapType /\ Block(H, h) /\ \A b \in H.blocks : Block(H, b)
  BY Zenon DEF Tiles
<1>2. h \in Addr /\ H.curr \in Addr /\ H.blocks \subseteq Addr
      /\ BLK_SIZE(H, h) \in Int /\ NEXT_BLOCK(H, h) \in Int
  BY <1>1, TypeFacts, Zenon
<1>6. \A b \in Ends(H) : b <= h \/ NEXT_BLOCK(H, h) <= b
  <2> TAKE b \in Ends(H)
  <2>1. CASE b \in H.blocks
    BY <1>2, <1>1, <2>1, AddrFacts DEF Block
  <2>2. CASE b = H.curr
    BY <1>1, <1>2, AddrFacts DEF Block, Ends
  <2> QED BY <2>1, <2>2, Zenon DEF Ends
<1> QED BY <1>2, <1>1, AddrFacts, Constants DEF NEXT_BLOCK, Block, Ends

\* K has the tags of H but for the headers in lo .. hi - 1 and the footers in
\* lo + 1 .. hi, those of the blocks from lo up to hi.
Outside(H, K, lo, hi) ==
    \A a \in Addr : /\ a < lo \/ hi <= a => K.hdr[a] = H.hdr[a]
                    /\ a <= lo \/ hi < a => K.ftr[a] = H.ftr[a]

\* K is H with one block laid over the blocks from lo up to hi.
Refit(H, K, lo, hi) ==
    /\ K \in HeapType /\ K.curr = H.curr
    /\ lo \in H.blocks /\ hi \in Ends(H) /\ lo + OVERHEAD <= hi
    /\ \A b \in Addr : b \in K.blocks <=> b \in H.blocks /\ (b <= lo \/ hi <= b)
    /\ BLK_SIZE(K, lo) = hi - lo /\ K.ftr[hi] = K.hdr[lo]
    /\ Outside(H, K, lo, hi)

\* K is H with the block at lo cut in two at t.
Split(H, K, lo, t) ==
    /\ K \in HeapType /\ K.curr = H.curr
    /\ lo \in H.blocks /\ t \in Addr
    /\ lo + OVERHEAD <= t /\ t + OVERHEAD <= NEXT_BLOCK(H, lo)
    /\ K.blocks = H.blocks \cup {t}
    /\ BLK_SIZE(K, lo) = t - lo /\ K.ftr[t] = K.hdr[lo]
    /\ BLK_SIZE(K, t) = NEXT_BLOCK(H, lo) - t /\ K.ftr[NEXT_BLOCK(H, lo)] = K.hdr[t]
    /\ Outside(H, K, lo, NEXT_BLOCK(H, lo))

\* K is H with a block appended that ends at end.
Extend(H, K, end) ==
    /\ K \in HeapType /\ K.curr = end
    /\ end \in Addr /\ end % PAGE_SIZE = 0 /\ H.curr + OVERHEAD <= end
    /\ K.blocks = H.blocks \cup {H.curr}
    /\ BLK_SIZE(K, H.curr) = end - H.curr /\ K.ftr[end] = K.hdr[H.curr]
    /\ Outside(H, K, H.curr, end)

\* A block elsewhere keeps its header, and so its size and its flag.
LEMMA SameBlock ==
    ASSUME NEW H, NEW K, NEW lo, NEW hi, Outside(H, K, lo, hi),
           NEW b \in Addr, b < lo \/ hi <= b
    PROVE  /\ K.hdr[b] = H.hdr[b] /\ BLK_SIZE(K, b) = BLK_SIZE(H, b)
           /\ NEXT_BLOCK(K, b) = NEXT_BLOCK(H, b) /\ (IS_ALLOC(K, b) <=> IS_ALLOC(H, b))
<1> QED BY Zenon DEF BLK_SIZE, NEXT_BLOCK, IS_ALLOC, Outside

\* One block laid over a run of blocks leaves a tiling.
LEMMA RefitTiles ==
    ASSUME NEW H, NEW K, NEW lo, NEW hi, Tiles(H), Refit(H, K, lo, hi)
    PROVE  Tiles(K) /\ lo \in K.blocks /\ NEXT_BLOCK(K, lo) = hi
<1>1. /\ K \in HeapType /\ K.curr = H.curr /\ K.blocks \subseteq Addr
      /\ lo \in H.blocks /\ hi \in Ends(H) /\ lo + OVERHEAD <= hi
      /\ \A b \in Addr : b \in K.blocks <=> b \in H.blocks /\ (b <= lo \/ hi <= b)
      /\ Outside(H, K, lo, hi)
  BY TypeFacts, Zenon DEF Refit
<1>2. H \in HeapType /\ H.blocks \subseteq Addr
  BY TypeFacts, Zenon DEF Tiles
<1>3. lo \in Addr /\ hi \in Addr /\ hi <= H.curr /\ lo < hi /\ NEXT_BLOCK(K, lo) = hi
      /\ lo \in Nat /\ hi \in Nat /\ H.curr \in Nat
  <2>1. lo \in Addr /\ hi \in Addr /\ H.curr \in Addr
    BY <1>1, Apart, Zenon DEF Ends
  <2>2. hi <= H.curr
    <3>1. hi \in H.blocks => hi < H.curr
      BY Zenon DEF Tiles, Block
    <3> QED BY <3>1, <1>1, <2>1, AddrFacts DEF Ends
  <2> QED BY <1>1, <2>1, <2>2, AddrFacts, Constants DEF NEXT_BLOCK, Refit
<1>4. lo \in K.blocks /\ hi \in Ends(K)
  BY <1>1, <1>3, SMTT(60) DEF Ends
<1>5. ASSUME NEW b \in K.blocks, b # lo
      PROVE  /\ b \in H.blocks /\ b \in Nat /\ b \in Addr /\ (b < lo \/ hi <= b)
             /\ K.hdr[b] = H.hdr[b] /\ BLK_SIZE(K, b) = BLK_SIZE(H, b)
             /\ NEXT_BLOCK(K, b) = NEXT_BLOCK(H, b)
             /\ NEXT_BLOCK(H, b) \in Addr /\ NEXT_BLOCK(H, b) \in Nat
             /\ b + OVERHEAD <= NEXT_BLOCK(H, b)
             /\ (NEXT_BLOCK(H, b) <= lo \/ hi < NEXT_BLOCK(H, b))
  <2>1. b \in Addr /\ b \in H.blocks /\ (b <= lo \/ hi <= b)
    BY <1>1, Zenon
  <2>2. b \in Nat /\ (b < lo \/ hi <= b)
    BY <2>1, <1>3, <1>5, AddrFacts
  <2>3. /\ NEXT_BLOCK(H, b) \in Addr /\ b + OVERHEAD <= NEXT_BLOCK(H, b)
        /\ (lo <= b \/ NEXT_BLOCK(H, b) <= lo)
    BY <2>1, <1>1, Apart, Zenon DEF Ends
  <2>4. NEXT_BLOCK(H, b) \in Nat
    BY <2>3, AddrFacts, Zenon
  <2> QED BY <2>1, <2>2, <2>3, <2>4, <1>1, <1>3, SameBlock, Constants, SMTT(60)
<1>6. ASSUME NEW b \in K.blocks PROVE Block(K, b)
  <2>1. CASE b = lo
    <3>1. lo < K.curr /\ BLK_SIZE(K, lo) >= OVERHEAD
      BY <1>1, <1>3, Constants, SMTT(60) DEF Refit
    <3>2. ASSUME NEW c \in K.blocks PROVE ~(lo < c /\ c < hi)
      <4>1. c \in Nat /\ (c <= lo \/ hi <= c)
        BY <1>1, AddrFacts, Zenon
      <4> QED BY <4>1, <1>3
    <3>3. K.ftr[hi] = K.hdr[lo]
      BY Zenon DEF Refit
    <3> QED BY <2>1, <3>1, <3>2, <3>3, <1>3, <1>4, ZenonT(60) DEF Block
  <2>2. CASE b # lo
    <3>1. Block(H, b)
      BY <2>2, <1>5, Zenon DEF Tiles
    <3>2. b < K.curr /\ BLK_SIZE(K, b) >= OVERHEAD
      BY <3>1, <2>2, <1>1, <1>5, ZenonT(60) DEF Block
    <3>3. NEXT_BLOCK(K, b) \in Ends(K)
      <4>1. NEXT_BLOCK(H, b) \in H.blocks \cup {H.curr}
        BY <3>1, Zenon DEF Block, Ends
      <4> QED BY <4>1, <2>2, <1>1, <1>3, <1>5, SMTT(60) DEF Ends
    <3>4. \A c \in K.blocks : ~(b < c /\ c < NEXT_BLOCK(K, b))
      <4>1. \A c \in H.blocks : ~(b < c /\ c < NEXT_BLOCK(H, b))
        BY <3>1, Zenon DEF Block
      <4> QED BY <4>1, <2>2, <1>1, <1>5, Zenon
    <3>5. K.ftr[NEXT_BLOCK(K, b)] = K.hdr[b]
      <4>1. K.ftr[NEXT_BLOCK(H, b)] = H.ftr[NEXT_BLOCK(H, b)]
        BY <2>2, <1>1, <1>5, Zenon DEF Outside
      <4> QED BY <4>1, <3>1, <2>2, <1>5, Zenon DEF Block
    <3> QED BY <3>2, <3>3, <3>4, <3>5, Zenon DEF Block
  <2> QED BY <2>1, <2>2, Zenon
<1>7. ASSUME NEW b \in Ends(K), b # HEAP_BASE
      PROVE  \E p \in K.blocks : NEXT_BLOCK(K, p) = b
  <2>1. b \in Ends(H)
    BY <1>1, Zenon DEF Ends
  <2>2. PICK p \in H.blocks : NEXT_BLOCK(H, p) = b
    BY <2>1, <1>7, Zenon DEF Tiles
  <2>3. p \in Addr /\ p \in Nat /\ b \in Nat /\ p < b /\ (hi <= p \/ b <= hi)
    <3>1. p \in Addr /\ p + OVERHEAD <= b /\ b \in Addr /\ (hi <= p \/ b <= hi)
      BY <2>1, <2>2, <1>1, Apart, Zenon
    <3> QED BY <3>1, AddrFacts, Constants
  <2>4. CASE p < lo \/ hi <= p
    <3>1. p \in K.blocks /\ NEXT_BLOCK(K, p) = b
      BY <2>2, <2>3, <2>4, <1>1, <1>3, SameBlock, SMTT(60)
    <3> QED BY <3>1, Zenon
  <2>5. CASE ~(p < lo \/ hi <= p)
    <3>1. lo < b /\ b <= hi
      BY <2>3, <2>5, <1>3
    <3>2. b = hi
      <4>1. CASE b \in K.blocks
        BY <4>1, <3>1, <2>3, <1>1, <1>3, SMTT(60)
      <4>2. CASE b = K.curr
        BY <4>2, <3>1, <2>3, <1>1, <1>3, SMTT(60)
      <4> QED BY <4>1, <4>2, Zenon DEF Ends
    <3> QED BY <3>2, <1>3, <1>4, Zenon
  <2> QED BY <2>4, <2>5, Zenon
<1>8. K.curr % PAGE_SIZE = 0 /\ (K.curr = HEAP_BASE \/ HEAP_BASE \in K.blocks)
  <2>1. H.curr % PAGE_SIZE = 0 /\ (H.curr = HEAP_BASE \/ HEAP_BASE \in H.blocks)
    BY Zenon DEF Tiles
  <2>2. HEAP_BASE <= lo
    BY <1>3, AddrFacts, Zenon
  <2> QED BY <2>1, <2>2, <1>1, <1>2, Zenon
<1> QED BY <1>1, <1>3, <1>4, <1>6, <1>7, <1>8, Zenon DEF Tiles

\* Cutting a block in two leaves a tiling.
LEMMA SplitTiles ==
    ASSUME NEW H, NEW K, NEW lo, NEW t, Tiles(H), Split(H, K, lo, t)
    PROVE  /\ Tiles(K) /\ lo \in K.blocks /\ t \in K.blocks /\ t \notin H.blocks
           /\ NEXT_BLOCK(K, lo) = t /\ NEXT_BLOCK(K, t) = NEXT_BLOCK(H, lo)
<1> DEFINE hi == NEXT_BLOCK(H, lo)
<1>1. /\ K \in HeapType /\ K.curr = H.curr
      /\ lo \in H.blocks /\ t \in Addr /\ lo + OVERHEAD <= t /\ t + OVERHEAD <= hi
      /\ K.blocks = H.blocks \cup {t}
      /\ BLK_SIZE(K, lo) = t - lo /\ K.ftr[t] = K.hdr[lo]
      /\ BLK_SIZE(K, t) = hi - t /\ K.ftr[hi] = K.hdr[t]
      /\ Outside(H, K, lo, hi)
  BY Zenon DEF Split
<1>2. /\ lo \in Addr /\ hi \in Addr /\ hi \in Ends(H) /\ hi <= H.curr
      /\ \A b \in Ends(H) : b <= lo \/ hi <= b
  BY <1>1, Apart, Zenon DEF Tiles, Block
<1> HIDE DEF hi
<1>3. /\ lo \in Nat /\ t \in Nat /\ hi \in Nat /\ H.curr \in Nat /\ lo < t /\ t < hi
      /\ NEXT_BLOCK(K, lo) = t /\ NEXT_BLOCK(K, t) = hi
  <2>1. H.curr \in Addr
    BY TypeFacts, Zenon DEF Tiles
  <2> QED BY <1>1, <2>1, <1>2, Constants, AddrFacts, SMTT(60) DEF NEXT_BLOCK
<1>4. t \notin H.blocks /\ hi \in Ends(K) /\ t \in Ends(K)
  BY <1>1, <1>2, <1>3, SMTT(60) DEF Ends
<1>5. ASSUME NEW b \in H.blocks, b # lo
      PROVE  /\ b \in Nat /\ (b < lo \/ hi <= b)
             /\ K.hdr[b] = H.hdr[b] /\ BLK_SIZE(K, b) = BLK_SIZE(H, b)
             /\ NEXT_BLOCK(K, b) = NEXT_BLOCK(H, b)
             /\ NEXT_BLOCK(H, b) \in Addr /\ NEXT_BLOCK(H, b) \in Nat
             /\ (NEXT_BLOCK(H, b) <= lo \/ (hi <= b /\ hi < NEXT_BLOCK(H, b)))
  <2>1. /\ b \in Addr /\ NEXT_BLOCK(H, b) \in Addr /\ b + OVERHEAD <= NEXT_BLOCK(H, b)
        /\ (lo <= b \/ NEXT_BLOCK(H, b) <= lo) /\ (b <= lo \/ hi <= b)
    BY <1>1, <1>2, Apart, Zenon DEF Ends
  <2>2. b \in Nat /\ NEXT_BLOCK(H, b) \in Nat
    BY <2>1, AddrFacts, Zenon
  <2> QED BY <2>1, <2>2, <1>1, <1>3, <1>5, SameBlock, Constants, SMTT(60)
<1>6. ASSUME NEW b \in K.blocks PROVE Block(K, b)
  <2>1. CASE b = lo
    BY <2>1, <1>1, <1>3, <1>4, <1>5, <1>2, Constants, SMTT(60) DEF Block
  <2>2. CASE b = t
    BY <2>2, <1>1, <1>3, <1>4, <1>5, <1>2, Constants, SMTT(60) DEF Block
  <2>3. CASE b # lo /\ b \in H.blocks
    BY <2>3, <1>5, <1>1, <1>3, SMTT(60) DEF Block, Outside, Ends, Tiles
  <2> QED BY <2>1, <2>2, <2>3, <1>1, ZenonT(60)
<1>7. ASSUME NEW b \in Ends(K), b # HEAP_BASE
      PROVE  \E p \in K.blocks : NEXT_BLOCK(K, p) = b
  <2>1. CASE b = t
    BY <2>1, <1>1, <1>3, Zenon
  <2>2. CASE b # t
    <3>2. PICK p \in H.blocks : NEXT_BLOCK(H, p) = b
      BY <1>7, <2>2, <1>1, Zenon DEF Tiles, Ends
    <3>3. CASE p = lo
      BY <3>2, <3>3, <1>1, <1>3, Zenon DEF hi
    <3>4. CASE p # lo
      BY <3>2, <3>4, <1>1, <1>5, ZenonT(60)
    <3> QED BY <3>3, <3>4, Zenon
  <2> QED BY <2>1, <2>2, Zenon
<1> QED BY <1>1, <1>3, <1>4, <1>6, <1>7, Zenon DEF Tiles, hi

\* A block behind the last one leaves a tiling.
LEMMA ExtendTiles ==
    ASSUME NEW H, NEW K, NEW end, Tiles(H), Extend(H, K, end)
    PROVE  /\ Tiles(K) /\ H.curr \notin H.blocks /\ HEAP_BASE \in K.blocks
           /\ NEXT_BLOCK(K, H.curr) = end
<1> DEFINE lo == H.curr
<1>1. /\ K \in HeapType /\ K.curr = end
      /\ end \in Addr /\ end % PAGE_SIZE = 0 /\ lo + OVERHEAD <= end
      /\ K.blocks = H.blocks \cup {lo}
      /\ BLK_SIZE(K, lo) = end - lo /\ K.ftr[end] = K.hdr[lo]
      /\ Outside(H, K, lo, end)
  BY Zenon DEF Extend
<1>2. lo \in Addr
  BY TypeFacts, Zenon DEF Tiles
<1>3. lo \in Nat /\ end \in Nat /\ lo < end /\ NEXT_BLOCK(K, lo) = end
  BY <1>1, <1>2, Constants, AddrFacts, SMTT(60) DEF NEXT_BLOCK
<1>4. ASSUME NEW b \in H.blocks
      PROVE  /\ b \in Nat /\ b < lo
             /\ K.hdr[b] = H.hdr[b] /\ BLK_SIZE(K, b) = BLK_SIZE(H, b)
             /\ NEXT_BLOCK(K, b) = NEXT_BLOCK(H, b)
             /\ NEXT_BLOCK(H, b) \in Addr /\ NEXT_BLOCK(H, b) \in Nat
             /\ NEXT_BLOCK(H, b) <= lo
  BY <1>1, SameBlock, AddrFacts, Apart DEF Tiles, Block
<1> HIDE DEF lo
<1>6. ASSUME NEW b \in K.blocks PROVE Block(K, b)
  <2>1. CASE b = lo
    BY <2>1, <1>1, <1>3, <1>4, Constants, SMTT(60) DEF Block, Ends
  <2>2. CASE b \in H.blocks
    BY <2>2, <1>4, <1>1, <1>3 DEF Block, Outside, Ends, lo, Tiles
  <2> QED BY <2>1, <2>2, <1>1, Zenon
<1>7. ASSUME NEW b \in Ends(K), b # HEAP_BASE
      PROVE  \E p \in K.blocks : NEXT_BLOCK(K, p) = b
  <2>1. CASE b = end
    BY <2>1, <1>1, <1>3, Zenon
  <2>2. CASE b # end
    <3>2. PICK p \in H.blocks : NEXT_BLOCK(H, p) = b
      BY <1>7, <2>2, <1>1, Zenon DEF Tiles, Ends, lo
    <3> QED BY <3>2, <1>1, <1>4, Zenon
  <2> QED BY <2>1, <2>2, Zenon
<1> QED BY <1>1, <1>3, <1>6, <1>7, <1>4 DEF Tiles, lo

\* F is H with another free list.
Relisted(H, F) ==
    /\ F \in HeapType
    /\ F.hdr = H.hdr /\ F.ftr = H.ftr /\ F.curr = H.curr /\ F.blocks = H.blocks

\* K is H with the block at h marked, and with F's free list.
Marked(H, F, K, h, alloc) ==
    /\ Refit(H, K, h, NEXT_BLOCK(H, h))
    /\ K.fl = F.fl /\ K.blocks = H.blocks /\ (IS_ALLOC(K, h) <=> alloc)
    /\ \A a \in Addr : a # h => K.hdr[a] = H.hdr[a]

\* Setting or clearing the flag of a block: one block laid over itself.
LEMMA Flagged ==
    ASSUME NEW H, Tiles(H), NEW F, Relisted(H, F), NEW h \in H.blocks, NEW alloc \in BOOLEAN
    PROVE  Marked(H, F, WriteTags(F, h, BLK_SIZE(H, h), alloc), h, alloc)
<1> DEFINE size == BLK_SIZE(H, h)
           hi == NEXT_BLOCK(H, h)
           K == WriteTags(F, h, size, alloc)
<1>1. /\ h \in Addr /\ hi \in Addr /\ h + OVERHEAD <= hi /\ hi = h + size
      /\ hi \in Ends(H) /\ \A b \in Ends(H) : b <= h \/ hi <= b
  BY Apart, Zenon DEF Tiles, Block
<1>2. size \in Int
  BY TypeFacts, Zenon DEF Tiles
<1> HIDE DEF size, hi
<1>4. TagsWritten(F, K, h, hi, Tag(size, alloc))
  BY <1>1, <1>2, Written, Zenon DEF Tiles, Relisted
<1> HIDE DEF K
<1>5. /\ K.hdr[h] = Tag(size, alloc) /\ K.ftr[hi] = Tag(size, alloc)
      /\ \A a \in Addr : a # h => K.hdr[a] = H.hdr[a]
      /\ \A a \in Addr : a # hi => K.ftr[a] = H.ftr[a]
      /\ K \in HeapType /\ K.fl = F.fl /\ K.curr = H.curr /\ K.blocks = H.blocks
  BY <1>4, Zenon DEF TagsWritten, Relisted
<1>6. h \in Nat /\ hi \in Nat /\ h < hi
  <2>1. h \in Nat /\ hi \in Nat
    BY <1>1, AddrFacts, Zenon
  <2> QED BY <2>1, <1>1, Constants
<1>7. Outside(H, K, h, hi)
  <2> SUFFICES ASSUME NEW a \in Addr
               PROVE  /\ a < h \/ hi <= a => K.hdr[a] = H.hdr[a]
                      /\ a <= h \/ hi < a => K.ftr[a] = H.ftr[a]
    BY Zenon DEF Outside
  <2>1. a \in Nat
    BY AddrFacts, Zenon
  <2>2. (a < h \/ hi <= a => a # h) /\ (a <= h \/ hi < a => a # hi)
    BY <2>1, <1>6
  <2> QED BY <2>2, <1>5, Zenon
<1>8. BLK_SIZE(K, h) = hi - h /\ (IS_ALLOC(K, h) <=> alloc)
  <2>1. K.hdr[h].size = size /\ K.hdr[h].alloc = alloc
    BY <1>5 DEF Tag
  <2>2. size = hi - h
    BY <1>1, <1>2, <1>6
  <2> QED BY <2>1, <2>2, Zenon DEF IS_ALLOC, BLK_SIZE
<1>9. \A b \in Addr : b \in K.blocks <=> b \in H.blocks /\ (b <= h \/ hi <= b)
  BY <1>1, <1>5, Zenon DEF Ends
<1> QED BY <1>5, <1>8, <1>1, <1>7, <1>9, Zenon DEF Marked, K, size, hi, Refit

\* K is H with the blocks at h and n made one, and with F's free list.
Joined(H, F, K, h, n) ==
    /\ Refit(H, K, h, NEXT_BLOCK(H, n))
    /\ K.fl = F.fl /\ K.blocks = H.blocks \ {n}
    /\ (IS_ALLOC(K, h) <=> IS_ALLOC(H, h))
    /\ \A a \in Addr : a # h => K.hdr[a] = H.hdr[a]

\* Merge lays the block at h over itself and its right neighbour n.
LEMMA Merged ==
    ASSUME NEW H, Tiles(H), NEW F, Relisted(H, F), NEW h \in H.blocks,
           NEW n \in H.blocks, n = NEXT_BLOCK(H, h)
    PROVE  Joined(H, F, Merge(F, h, n), h, n)
<1> DEFINE G == [F EXCEPT !.blocks = @ \ {n}]
           size == BLK_SIZE(F, h) + BLK_SIZE(F, n)
           alloc == IS_ALLOC(F, h)
           hi == NEXT_BLOCK(H, n)
           K == WriteTags(G, h, size, alloc)
<1>1. H \in HeapType /\ F \in HeapType /\ H.blocks \subseteq Addr
  BY TypeFacts, Zenon DEF Tiles, Relisted
<1>2. /\ G \in HeapType /\ G.hdr = H.hdr /\ G.ftr = H.ftr /\ G.curr = H.curr
      /\ G.fl = F.fl /\ G.blocks = H.blocks \ {n}
  BY <1>1, Zenon DEF HeapType, Relisted
<1>3. Merge(F, h, n) = K
  BY Zenon DEF Merge
<1>4. /\ h \in Addr /\ n \in Addr /\ hi \in Addr /\ hi \in Ends(H)
      /\ h + OVERHEAD <= n /\ n = h + BLK_SIZE(H, h)
      /\ n + OVERHEAD <= hi /\ hi = n + BLK_SIZE(H, n)
      /\ \A b \in Ends(H) : (b <= h \/ n <= b) /\ (b <= n \/ hi <= b)
  BY Apart, Zenon DEF Tiles, Block
<1>5. h \in Nat /\ n \in Nat /\ hi \in Nat /\ h < n /\ n < hi
  <2>1. h \in Nat /\ n \in Nat /\ hi \in Nat
    BY <1>4, AddrFacts, Zenon
  <2>2. h + OVERHEAD <= n /\ n + OVERHEAD <= hi /\ OVERHEAD = 40
    BY <1>4, Constants, Zenon
  <2> HIDE DEF hi
  <2> QED BY <2>1, <2>2
<1>6. size \in Int /\ h + size = hi
  <2>1. size = BLK_SIZE(H, h) + BLK_SIZE(H, n)
    BY Zenon DEF BLK_SIZE, Relisted
  <2>2. BLK_SIZE(H, h) \in Int /\ BLK_SIZE(H, n) \in Int
    BY <1>1, <1>4, TypeFacts, Zenon
  <2> QED BY <2>1, <2>2, <1>4, <1>5
<1>7. alloc \in BOOLEAN /\ alloc = IS_ALLOC(H, h)
  <2>1. F.hdr = H.hdr /\ H.hdr[h] \in TagSet
    BY <1>1, <1>4, TypeFacts, Zenon DEF Relisted
  <2>2. alloc = H.hdr[h].alloc
    BY <2>1, Zenon DEF IS_ALLOC
  <2>3. H.hdr[h].alloc \in BOOLEAN
    BY <2>1, Zenon DEF TagSet
  <2> QED BY <2>2, <2>3, Zenon DEF IS_ALLOC
<1> HIDE DEF G, size, alloc, hi
<1>8. TagsWritten(G, K, h, hi, Tag(size, alloc))
  BY <1>2, <1>4, <1>6, <1>7, Written, Zenon
<1> HIDE DEF K
<1>9. /\ K.hdr[h] = Tag(size, alloc) /\ K.ftr[hi] = Tag(size, alloc)
      /\ \A a \in Addr : a # h => K.hdr[a] = H.hdr[a]
      /\ \A a \in Addr : a # hi => K.ftr[a] = H.ftr[a]
      /\ K \in HeapType /\ K.fl = F.fl /\ K.curr = H.curr /\ K.blocks = H.blocks \ {n}
  BY <1>2, <1>8, ZenonT(60) DEF TagsWritten
<1>10. Outside(H, K, h, hi)
  BY <1>9, <1>5 DEF Outside
<1>11. BLK_SIZE(K, h) = hi - h /\ (IS_ALLOC(K, h) <=> IS_ALLOC(H, h))
  <2>1. K.hdr[h].size = size /\ K.hdr[h].alloc = alloc
    BY <1>9 DEF Tag
  <2>2. BLK_SIZE(K, h) = hi - h
    BY <2>1, <1>5, <1>6, SMTT(60) DEF BLK_SIZE
  <2> QED BY <2>1, <2>2, <1>7, Zenon DEF IS_ALLOC
<1>12. \A b \in Addr : b \in K.blocks <=> b \in H.blocks /\ (b <= h \/ hi <= b)
  <2> TAKE b \in Addr
  <2>1. b \in Nat
    BY AddrFacts, Zenon
  <2>2. b \in K.blocks <=> b \in H.blocks /\ b # n
    BY <1>9, Zenon
  <2>3. b \in H.blocks => (b <= h \/ n <= b) /\ (b <= n \/ hi <= b)
    BY <1>4, Zenon DEF Ends
  <2> QED BY <2>1, <2>2, <2>3, <1>5, SMTT(60)
<1>13. Refit(H, K, h, hi)
  <2>1. h + OVERHEAD <= hi
    BY <1>4, <1>5, Constants
  <2> QED BY <2>1, <1>4, <1>9, <1>10, <1>11, <1>12, ZenonT(60) DEF Refit
<1> QED BY <1>3, <1>9, <1>11, <1>13, Zenon DEF Joined, hi

\* K is H cut at t, the front handed out and the rest free.
CutTo(H, F, K, h, t) ==
    /\ Split(H, K, h, t)
    /\ K.fl = F.fl /\ IS_ALLOC(K, h) /\ ~IS_ALLOC(K, t)
    /\ \A a \in Addr : a # h /\ a # t => K.hdr[a] = H.hdr[a]

\* allocate_from_block cuts the block at h in two at t.
LEMMA Cut ==
    ASSUME NEW H, Tiles(H), NEW F, Relisted(H, F), NEW h \in H.blocks, NEW need \in Nat,
           need % 16 = 0, need >= OVERHEAD, h + need + OVERHEAD <= NEXT_BLOCK(H, h),
           NEW t, t = h + need, NEW rest, rest = BLK_SIZE(H, h) - need
    PROVE  LET front == WriteTags([F EXCEPT !.blocks = @ \cup {t}], h, need, TRUE)
           IN  CutTo(H, F, WriteTags(front, t, rest, FALSE), h, t)
<1> DEFINE hi == NEXT_BLOCK(H, h)
           G == [F EXCEPT !.blocks = @ \cup {t}]
           W == WriteTags(G, h, need, TRUE)
           K == WriteTags(W, t, rest, FALSE)
<1>2. h \in Addr /\ hi \in Addr /\ hi = h + BLK_SIZE(H, h) /\ BLK_SIZE(H, h) \in Int
  BY Apart, TypeFacts, Zenon DEF Tiles, Relisted
<1>3. h \in Nat /\ hi \in Nat /\ h % 16 = 0 /\ HEAP_BASE <= h /\ hi <= HEAP_LIMIT
  BY <1>2, AddrFacts, Zenon
<1>4. t \in Nat /\ h + OVERHEAD <= t /\ t + OVERHEAD <= hi /\ rest \in Int /\ t + rest = hi
      /\ need \in Int
  BY <1>2, <1>3, Constants, SMTT(60)
<1>5. t \in Addr
  BY <1>3, Constants DEF Addr
<1>6. /\ G \in HeapType /\ G.hdr = H.hdr /\ G.ftr = H.ftr /\ G.curr = H.curr
      /\ G.fl = F.fl /\ G.blocks = H.blocks \cup {t}
  BY <1>5, Zenon DEF HeapType, Relisted, Tiles
<1> HIDE DEF G, hi
<1>7. TagsWritten(G, W, h, t, Tag(need, TRUE))
  BY <1>2, <1>4, <1>5, <1>6, WrittenHeld, Zenon
<1> HIDE DEF W
<1>8. TagsWritten(W, K, t, hi, Tag(rest, FALSE))
  <2>1. W \in HeapType /\ t \in Addr /\ rest \in Int /\ t + rest = hi /\ hi \in Addr
    BY <1>2, <1>5, <1>7, SMTT(60) DEF TagsWritten
  <2> QED BY <2>1, WrittenFree, ZenonT(60)
<1> HIDE DEF K
<1>10. /\ K.hdr[h] = Tag(need, TRUE) /\ K.ftr[t] = Tag(need, TRUE)
       /\ K.hdr[t] = Tag(rest, FALSE) /\ K.ftr[hi] = Tag(rest, FALSE)
       /\ \A a \in Addr : a # h /\ a # t => K.hdr[a] = H.hdr[a]
       /\ \A a \in Addr : a # t /\ a # hi => K.ftr[a] = H.ftr[a]
       /\ K \in HeapType /\ K.fl = F.fl /\ K.curr = H.curr /\ K.blocks = H.blocks \cup {t}
  <2>1. h # t /\ t # hi
    BY <1>4, Constants
  <2> QED BY <2>1, <1>2, <1>5, <1>6, <1>7, <1>8, ZenonT(60) DEF TagsWritten
<1>13. IS_ALLOC(K, h) /\ ~IS_ALLOC(K, t)
  BY <1>10 DEF IS_ALLOC, Tag
<1>14. Split(H, K, h, t)
  BY <1>4, <1>5, <1>10, <1>3, Constants DEF Split, hi, BLK_SIZE, Tag, Outside
<1> QED BY <1>10, <1>13, <1>14, Zenon DEF CutTo, K, W, G

\* heap_map_more appends a block at the end of the heap, before it is listed.
LEMMA Appended ==
    ASSUME NEW H, Tiles(H), NEW bytes \in Nat, CanGrow(H, bytes)
    PROVE  LET end == GrowthEnd(H, bytes)
               mapped == [H EXCEPT !.curr = end, !.blocks = @ \cup {H.curr}]
               K == WriteTags(mapped, H.curr, end - H.curr, FALSE)
           IN  /\ Extend(H, K, end) /\ K.fl = H.fl /\ ~IS_ALLOC(K, H.curr)
               /\ heap_map_more(H, bytes) = fl_push(K, H.curr)
<1> DEFINE lo == H.curr
           end == GrowthEnd(H, bytes)
           G == [H EXCEPT !.curr = end, !.blocks = @ \cup {lo}]
           K == WriteTags(G, lo, end - lo, FALSE)
<1>1. H \in HeapType /\ lo \in Addr /\ lo % PAGE_SIZE = 0
  BY TypeFacts, Zenon DEF Tiles
<1>2. ALIGN_UP(lo, PAGE_SIZE) = lo /\ end \in Addr /\ end % PAGE_SIZE = 0 /\ end >= lo + PAGE_SIZE
  BY <1>1, GrowthIs, Zenon
<1>3. heap_map_more(H, bytes) = fl_push(K, lo)
  BY <1>2, Zenon DEF heap_map_more
<1>4. /\ G \in HeapType /\ G.hdr = H.hdr /\ G.ftr = H.ftr /\ G.curr = end
      /\ G.fl = H.fl /\ G.blocks = H.blocks \cup {lo}
  BY <1>1, <1>2, Zenon DEF HeapType
<1> HIDE DEF G, end, lo
<1>5. lo \in Nat /\ end \in Nat /\ lo + OVERHEAD <= end /\ lo < end /\ end - lo \in Int
      /\ lo + (end - lo) = end
  BY <1>1, <1>2, AddrFacts, Constants, SMTT(60)
<1>6. TagsWritten(G, K, lo, end, Tag(end - lo, FALSE))
  BY <1>1, <1>2, <1>4, <1>5, WrittenFree, Zenon
<1> HIDE DEF K
<1>7. /\ K.hdr[lo] = Tag(end - lo, FALSE) /\ K.ftr[end] = Tag(end - lo, FALSE)
      /\ \A a \in Addr : a # lo => K.hdr[a] = H.hdr[a]
      /\ \A a \in Addr : a # end => K.ftr[a] = H.ftr[a]
      /\ K \in HeapType /\ K.fl = H.fl /\ K.curr = end /\ K.blocks = H.blocks \cup {lo}
  BY <1>4, <1>6, ZenonT(60) DEF TagsWritten
<1>8. Outside(H, K, lo, end)
  BY <1>5, <1>7, SMTT(60) DEF Outside
<1>9. BLK_SIZE(K, lo) = end - lo /\ ~IS_ALLOC(K, lo)
  BY <1>7, SMTT(60) DEF Tag, BLK_SIZE, IS_ALLOC
<1> QED BY <1>3, <1>7, <1>9, <1>2, <1>5, <1>8, Zenon DEF K, G, end, lo, Extend

-----------------------------------------------------------------------------
(* What the operations keep.                                               *)

\* A block elsewhere keeps its size, its flag and its payload.
LEMMA Elsewhere ==
    ASSUME NEW H, NEW K, NEW lo, NEW hi, Tiles(H), Outside(H, K, lo, hi),
           lo \in Ends(H), hi \in Addr, lo < hi, NEW b \in H.blocks, b < lo \/ hi <= b
    PROVE  /\ K.hdr[b] = H.hdr[b] /\ NEXT_BLOCK(K, b) = NEXT_BLOCK(H, b)
           /\ (IS_ALLOC(K, b) <=> IS_ALLOC(H, b))
           /\ \A n : Payload(H, b, n) => Payload(K, b, n)
<1>1. /\ b \in Addr /\ NEXT_BLOCK(H, b) \in Addr /\ lo \in Addr
      /\ (lo <= b \/ NEXT_BLOCK(H, b) <= lo)
  BY Apart, Zenon
<1>4. ASSUME NEW a \in Addr, b + HDR_SIZE < a, a < NEXT_BLOCK(H, b)
      PROVE  K.hdr[a] = H.hdr[a] /\ K.ftr[a] = H.ftr[a]
  BY <1>1, <1>4, AddrFacts, Constants, SMTT(60) DEF Outside
<1>5. ASSUME NEW n, Payload(H, b, n) PROVE Payload(K, b, n)
  BY <1>4, <1>5, <1>1, SameBlock, SMTT(60) DEF Payload, USABLE
<1> QED BY <1>5, <1>1, SameBlock, SMTT(60)

\* Nothing but Listed depends on the free list.
LEMMA Relist ==
    ASSUME NEW H, NEW F, Tiles(H), Relisted(H, F), NEW L, NEW f
    PROVE  /\ Tiles(F) /\ Free(F) = Free(H) /\ Held(F) = Held(H)
           /\ (Owned(H, L) => Owned(F, L))
           /\ (Payloads(H, L) => Payloads(F, L))
           /\ (Released(H, f) => Released(F, f))
<1>1. F.hdr = H.hdr /\ F.ftr = H.ftr /\ F.curr = H.curr /\ F.blocks = H.blocks
  BY Zenon DEF Relisted
<1>2. \A a : /\ BLK_SIZE(F, a) = BLK_SIZE(H, a) /\ NEXT_BLOCK(F, a) = NEXT_BLOCK(H, a)
             /\ IS_ALLOC(F, a) = IS_ALLOC(H, a) /\ USABLE(F, a) = USABLE(H, a)
  BY <1>1, ZenonT(60) DEF BLK_SIZE, NEXT_BLOCK, IS_ALLOC, USABLE
<1>5. Tiles(F)
  BY <1>2 DEF Tiles, Relisted, Block, Ends
<1>6. Free(F) = Free(H) /\ Held(F) = Held(H)
  BY <1>1, <1>2, ZenonT(60) DEF Free, Held
<1> QED BY <1>5, <1>6, <1>2, <1>1, Zenon DEF Released, Payloads, Payload, Owned

\* fl_push ends an operation: the block that was off the list is on it again.
LEMMA PushSound ==
    ASSUME NEW H, NEW L, NEW f, NEW b \in Free(H), Sound(H, {b}, L, f)
    PROVE  Sound(fl_push(H, b), {}, L, f) /\ fl_push(H, b).blocks = H.blocks
<1> DEFINE F == fl_push(H, b)
<1>1. Tiles(H) /\ H \in HeapType /\ Distinct(H.fl) /\ Members(H.fl) = Free(H) \ {b}
  BY Zenon DEF Sound, Listed, Tiles
<1>2. b \in Addr /\ b \notin Members(H.fl)
  BY <1>1, TypeFacts, Zenon DEF Free
<1> HIDE DEF F
<1> QED BY <1>1, <1>2, Relist, Pushed, SMTT(60) DEF Sound, F, Relisted, Listed

\* Two free neighbours, one of them off the list, merge into one off the list.
LEMMA MergeSound ==
    ASSUME NEW H, NEW L, NEW f, NEW x, NEW y, NEW lo \in Free(H), NEW n \in Free(H),
           Sound(H, {x}, L, f), n = NEXT_BLOCK(H, lo), x # y, {x, y} = {lo, n}
    PROVE  LET K == Merge(fl_remove(H, y), lo, n) IN
           Sound(K, {lo}, L, f) /\ lo \in Free(K) /\ K.blocks = H.blocks \ {n}
<1> DEFINE F == fl_remove(H, y)
           K == Merge(F, lo, n)
           hi == NEXT_BLOCK(H, n)
<1>1. /\ Tiles(H) /\ H \in HeapType /\ Distinct(H.fl) /\ Members(H.fl) = Free(H) \ {x}
      /\ lo \in H.blocks /\ n \in H.blocks
  BY Zenon DEF Sound, Listed, Tiles, Free
<1>2. Relisted(H, F) /\ Distinct(F.fl) /\ Members(F.fl) = Members(H.fl) \ {y}
  BY <1>1, Removed, ZenonT(60) DEF Relisted
<1> HIDE DEF F
<1>3. /\ Refit(H, K, lo, hi) /\ K.fl = F.fl /\ K.blocks = H.blocks \ {n}
      /\ (IS_ALLOC(K, lo) <=> IS_ALLOC(H, lo))
      /\ \A a \in Addr : a # lo => K.hdr[a] = H.hdr[a]
  <2>1. Joined(H, F, K, lo, n)
    BY <1>1, <1>2, Merged, ZenonT(60)
  <2> HIDE DEF K
  <2> QED BY <2>1, Zenon DEF Joined
<1> HIDE DEF K
<1>4. Tiles(K) /\ lo \in K.blocks /\ NEXT_BLOCK(K, lo) = hi
  BY <1>1, <1>3, RefitTiles, Zenon
<1>5. /\ lo \in Addr /\ n \in Addr /\ hi \in Addr /\ lo \in Nat /\ n \in Nat /\ hi \in Nat
      /\ lo < n /\ n < hi /\ lo \in Ends(H) /\ Outside(H, K, lo, hi)
      /\ \A b \in H.blocks : b \in Nat /\ (b <= lo \/ n <= b) /\ (b <= n \/ hi <= b)
  <2>1. /\ lo \in Addr /\ n \in Addr /\ hi \in Addr /\ lo \in Ends(H)
        /\ lo + OVERHEAD <= n /\ n + OVERHEAD <= hi
        /\ \A b \in H.blocks : b \in Addr /\ (b <= lo \/ n <= b) /\ (b <= n \/ hi <= b)
    BY <1>1, Apart, Zenon DEF Ends
  <2>2. Outside(H, K, lo, hi)
    BY <1>3, Zenon DEF Refit
  <2>3. lo \in Nat /\ n \in Nat /\ hi \in Nat /\ \A b \in H.blocks : b \in Nat
    BY <2>1, AddrFacts, ZenonT(60)
  <2>4. lo < n /\ n < hi
    <3> HIDE DEF hi
    <3> QED BY <2>1, <2>3, Constants, SMTT(60)
  <2> QED BY <2>1, <2>2, <2>3, <2>4, Zenon
<1> HIDE DEF hi
<1>6. ASSUME NEW b \in H.blocks, b # lo, b # n
      PROVE  /\ b < lo \/ hi <= b
             /\ b \in K.blocks /\ NEXT_BLOCK(K, b) = NEXT_BLOCK(H, b)
             /\ (IS_ALLOC(K, b) <=> IS_ALLOC(H, b))
             /\ \A m : Payload(H, b, m) => Payload(K, b, m)
  <2>1. b < lo \/ hi <= b
    BY <1>5, <1>6
  <2>2. b \in K.blocks
    BY <1>3, <1>6, Zenon
  <2>3. lo < hi
    BY <1>5
  <2> QED BY <2>1, <2>2, <2>3, <1>1, <1>5, Elsewhere, SMTT(60)
<1>7. ~IS_ALLOC(H, lo) /\ ~IS_ALLOC(H, n) /\ ~IS_ALLOC(K, lo)
  BY <1>3, ZenonT(60) DEF Free
<1>8. Free(K) = Free(H) \ {n} /\ Held(K) = Held(H)
  BY <1>3, <1>6 DEF Free, Held
<1>9. Listed(K, {lo})
  BY <1>2, <1>3, <1>8, <1>1, ZenonT(60) DEF Listed
<1>11. Payloads(K, L)
  <2> SUFFICES ASSUME NEW b \in Held(K) PROVE Payload(K, b, L[b + HDR_SIZE])
    BY Zenon DEF Payloads
  <2> QED BY <1>6, <1>7, <1>8, Zenon DEF Held, Sound, Payloads
<1>12. Released(K, f)
  <2>1. CASE f = NULL
    BY <2>1, Zenon DEF Released
  <2>2. CASE f # NULL
    <3> DEFINE g == f - HDR_SIZE
    <3>1. /\ g \in Addr /\ ~IS_ALLOC(H, g)
          /\ \E b \in Free(H) : b <= g /\ g < NEXT_BLOCK(H, b)
      BY <2>2, Zenon DEF Sound, Released
    <3> HIDE DEF g
    <3>2. PICK b \in Free(H) : b <= g /\ g < NEXT_BLOCK(H, b)
      BY <3>1, Zenon
    <3>4. \E c \in Free(K) : c <= g /\ g < NEXT_BLOCK(K, c)
      <4>1. CASE b # lo /\ b # n
        BY <4>1, <3>2, <1>6, Zenon DEF Free
      <4>2. CASE b = lo \/ b = n
        <5>1. lo <= g /\ g < hi
          <6>2. CASE b = lo
            BY <1>5, <6>2, <3>2, <3>1, SMTT(60)
          <6>3. CASE b = n
            BY <1>5, <6>3, <3>2, <3>1, SMTT(60) DEF hi
          <6> QED BY <4>2, <6>2, <6>3, ZenonT(60)
        <5> QED BY <5>1, <1>4, <1>7, Zenon DEF Free
      <4> QED BY <4>1, <4>2, Zenon
    <3> QED BY <3>1, <3>4, <1>3, Zenon DEF Released, g, IS_ALLOC
  <2> QED BY <2>1, <2>2, Zenon
<1> QED BY <1>3, <1>4, <1>9, <1>11, <1>12, <1>8, ZenonT(60) DEF Sound, K, F, Free, Owned

\* A heap with a block has one at its base.
LEMMA Based ==
    ASSUME NEW H, Tiles(H), NEW h \in H.blocks
    PROVE  HEAP_BASE \in H.blocks
<1> QED BY AddrFacts, Constants, Apart, SMTT(60) DEF Tiles, Block

\* The block to the left is where PREV_BLOCK looks.
LEMMA LeftNeighbour ==
    ASSUME NEW H, Tiles(H), NEW h \in H.blocks, h # HEAP_BASE
    PROVE  PREV_BLOCK(H, h) \in H.blocks /\ NEXT_BLOCK(H, PREV_BLOCK(H, h)) = h
<1>1. PICK p \in H.blocks : NEXT_BLOCK(H, p) = h
  BY Zenon DEF Tiles, Ends
<1>4. p \in Nat /\ h \in Nat /\ BLK_SIZE(H, p) \in Int
  BY AddrFacts, TypeFacts, ZenonT(60) DEF Tiles
<1> QED BY <1>1, <1>4, Apart, SMTT(60) DEF PREV_BLOCK, BLK_SIZE, Tiles, Block

\* The block to the right is a free one exactly when coalesce takes it for one.
LEMMA RightNeighbour ==
    ASSUME NEW H, Tiles(H), NEW h \in H.blocks, RightIsFree(H, h)
    PROVE  NEXT_BLOCK(H, h) \in Free(H)
<1> QED BY TypeFacts DEF Free, Tiles, RightIsFree, Block, Ends

\* coalesce ends with the one free block that is off the list.
LEMMA CoalesceSound ==
    ASSUME NEW H, NEW L, NEW f, NEW h \in Free(H), Sound(H, {h}, L, f)
    PROVE  LET C == coalesce(H, h) IN Sound(C.heap, {C.at}, L, f) /\ C.at \in Free(C.heap)
<1> DEFINE n == NEXT_BLOCK(H, h)
           R == IF RightIsFree(H, h) THEN Merge(fl_remove(H, n), h, n) ELSE H
           p == PREV_BLOCK(R, h)
           C == coalesce(H, h)
<1>1. Sound(R, {h}, L, f) /\ h \in Free(R)
  <2>1. CASE RightIsFree(H, h)
    <3>3. h # n
      BY AddrFacts, Constants, Apart, SMTT(60) DEF Sound, Free
    <3> HIDE DEF n
    <3> DEFINE M == Merge(fl_remove(H, n), h, n)
    <3> QED BY <3>3, MergeSound, RightNeighbour, ZenonT(60) DEF n, Sound, Free
  <2>2. CASE ~RightIsFree(H, h)
    BY <2>2, Zenon
  <2> QED BY <2>1, Zenon
<1>2. C = IF LeftIsFree(R, h) THEN [heap |-> Merge(fl_remove(R, p), p, h), at |-> p]
          ELSE [heap |-> R, at |-> h]
  BY ZenonT(60) DEF coalesce
<1> HIDE DEF R, C, n
<1>3. CASE LeftIsFree(R, h)
  <2>1. Tiles(R) /\ h \in R.blocks /\ h # HEAP_BASE /\ ~IS_ALLOC(R, p)
    BY <1>1, <1>3, Constants, SMTT(60) DEF Sound, Free, LeftIsFree
  <2>2. p \in R.blocks /\ NEXT_BLOCK(R, p) = h
    BY <2>1, LeftNeighbour, Zenon
  <2>3. p \in Free(R)
    BY <2>1, <2>2, ZenonT(60) DEF Free
  <2>4. p # h
    BY <2>1, <2>2, AddrFacts, Constants, Apart, SMTT(60)
  <2> HIDE DEF p
  <2> DEFINE M == Merge(fl_remove(R, p), p, h)
  <2>5. {h, p} = {p, h}
    BY Zenon
  <2>6. Sound(M, {p}, L, f) /\ p \in Free(M)
    BY <1>1, <2>2, <2>3, <2>4, <2>5, MergeSound, ZenonT(60)
  <2> QED BY <2>6, <1>2, <1>3, SMTT(60) DEF C
<1>4. CASE ~LeftIsFree(R, h)
  BY <1>1, <1>2, <1>4, SMTT(60) DEF C
<1> QED BY <1>3, <1>4, Zenon

\* A pointer that is held is the payload of an allocated block.
LEMMA HolderIs ==
    ASSUME NEW H, NEW L, Tiles(H), Owned(H, L), NEW ptr \in DOMAIN L
    PROVE  ptr - HDR_SIZE \in Held(H) /\ (ptr - HDR_SIZE) + HDR_SIZE = ptr /\ ptr \in Nat
<1>1. PICK h \in Held(H) : ptr = h + HDR_SIZE
  BY Zenon DEF Owned
<1> QED BY <1>1, Constants, Apart, AddrFacts, SMTT(60) DEF Held

\* Clearing the flag takes a block from its holder.
LEMMA ClearSound ==
    ASSUME NEW H, NEW L, NEW f, Sound(H, {}, L, f), NEW ptr \in DOMAIN L
    PROVE  LET h == ptr - HDR_SIZE
               K == WriteTags(H, h, BLK_SIZE(H, h), FALSE)
           IN  Sound(K, {h}, Without(L, ptr), ptr) /\ h \in Free(K)
<1> DEFINE h == ptr - HDR_SIZE
           K == WriteTags(H, h, BLK_SIZE(H, h), FALSE)
           hi == NEXT_BLOCK(H, h)
           M == Without(L, ptr)
<1>1. /\ Tiles(H) /\ H \in HeapType /\ Distinct(H.fl) /\ Members(H.fl) = Free(H)
      /\ Owned(H, L) /\ Payloads(H, L)
  BY Zenon DEF Sound, Listed, Tiles
<1>2. h \in Held(H) /\ h + HDR_SIZE = ptr /\ ptr \in Nat
  BY <1>1, HolderIs, Zenon
<1> HIDE DEF h
<1>3. h \in H.blocks /\ IS_ALLOC(H, h) /\ h \notin Free(H)
  BY <1>2, Zenon DEF Held, Free
<1>5. /\ Refit(H, K, h, hi) /\ K.fl = H.fl /\ K.blocks = H.blocks /\ ~IS_ALLOC(K, h)
      /\ \A a \in Addr : a # h => K.hdr[a] = H.hdr[a]
  <2> DEFINE flag == FALSE
             W == WriteTags(H, h, BLK_SIZE(H, h), flag)
  <2>1. flag \in BOOLEAN
    BY Zenon
  <2> HIDE DEF flag
  <2>3. Marked(H, H, W, h, flag)
    BY <2>1, <1>1, <1>3, Flagged, Zenon DEF Relisted
  <2> QED BY <2>3, Zenon DEF Marked, flag
<1> HIDE DEF K
<1>6. Tiles(K) /\ h \in K.blocks /\ NEXT_BLOCK(K, h) = hi
  BY <1>1, <1>5, RefitTiles, ZenonT(60)
<1>7. /\ h \in Addr /\ hi \in Addr /\ h \in Nat /\ hi \in Nat /\ h < hi
      /\ h \in Ends(H) /\ Outside(H, K, h, hi)
      /\ \A b \in H.blocks : b \in Nat /\ (b <= h \/ hi <= b)
  BY <1>5, <1>1, Constants, AddrFacts, Apart, SMTT(60) DEF Ends, Refit
<1> HIDE DEF hi
<1>8. ASSUME NEW b \in H.blocks, b # h
      PROVE  /\ (IS_ALLOC(K, b) <=> IS_ALLOC(H, b))
             /\ \A m : Payload(H, b, m) => Payload(K, b, m)
  BY <1>1, <1>7, <1>8, Elsewhere, SMTT(60)
<1>9. Free(K) = Free(H) \cup {h} /\ Held(K) = Held(H) \ {h}
  BY <1>3, <1>5, <1>8, Zenon DEF Free, Held
<1>10. Listed(K, {h})
  BY <1>1, <1>3, <1>5, <1>9, ZenonT(60) DEF Listed
<1>11. ASSUME NEW b \in Held(K) PROVE b \in Held(H) /\ b # h /\ b + HDR_SIZE # ptr /\ b \in Nat
  BY <1>2, <1>7, <1>9, Constants, SMTT(60) DEF Held
<1>12. Owned(K, M)
  BY <1>9, <1>11, <1>1, Zenon DEF Owned, Without
<1>13. Payloads(K, M)
  <2> SUFFICES ASSUME NEW b \in Held(K) PROVE Payload(K, b, M[b + HDR_SIZE])
    BY ZenonT(60) DEF Payloads
  <2> QED BY <1>8, <1>1, <1>11, Zenon DEF Held, Payloads, Without, Owned
<1>14. Released(K, ptr)
  BY <1>5, <1>7, <1>6, <1>9, SMTT(60) DEF Released, h
<1> QED BY <1>6, <1>10, <1>12, <1>13, <1>14, <1>9, ZenonT(60) DEF Sound, K, h

\* kfree: the block goes back to the list, merged with its free neighbours.
LEMMA ReleaseSound ==
    ASSUME NEW H, NEW L, NEW f, Sound(H, {}, L, f), NEW ptr \in DOMAIN L
    PROVE  LET K == Release(H, ptr) IN
           Sound(K, {}, Without(L, ptr), ptr) /\ HEAP_BASE \in K.blocks
<1> DEFINE h == ptr - HDR_SIZE
           W == WriteTags(H, h, BLK_SIZE(H, h), FALSE)
           C == coalesce(W, h)
           M == Without(L, ptr)
           K == fl_push(C.heap, C.at)
<1>1. Sound(W, {h}, M, ptr) /\ h \in Free(W)
  BY ClearSound, Zenon
<1>2. Release(H, ptr) = K
  BY Zenon DEF Release
<1> HIDE DEF W, M, h
<1>3. Sound(C.heap, {C.at}, M, ptr) /\ C.at \in Free(C.heap)
  BY <1>1, CoalesceSound, Zenon
<1> HIDE DEF C
<1>4. Sound(K, {}, M, ptr) /\ K.blocks = C.heap.blocks
  BY <1>3, PushSound, ZenonT(60)
<1>5. HEAP_BASE \in K.blocks
  <2> HIDE DEF K
  <2> QED BY <1>3, <1>4, Based, Zenon DEF Free, Sound
<1> QED BY <1>2, <1>4, <1>5, Zenon DEF M

\* heap_map_more: the new block is free and on the list, the others are as before.
LEMMA GrowSound ==
    ASSUME NEW H, NEW L, NEW f, Sound(H, {}, L, f), NEW bytes \in Nat, CanGrow(H, bytes)
    PROVE  LET K == heap_map_more(H, bytes) IN Sound(K, {}, L, f) /\ HEAP_BASE \in K.blocks
<1> DEFINE lo == H.curr
           end == GrowthEnd(H, bytes)
           G == [H EXCEPT !.curr = end, !.blocks = @ \cup {H.curr}]
           K == WriteTags(G, lo, end - lo, FALSE)
<1>1. Tiles(H) /\ H \in HeapType /\ Distinct(H.fl) /\ Members(H.fl) = Free(H)
      /\ Owned(H, L) /\ Payloads(H, L) /\ Released(H, f)
  BY Zenon DEF Sound, Listed, Tiles
<1>2. /\ Extend(H, K, end) /\ K.fl = H.fl /\ ~IS_ALLOC(K, lo)
      /\ heap_map_more(H, bytes) = fl_push(K, lo)
  BY <1>1, Appended, Zenon
<1> HIDE DEF K, G, end
<1>3. /\ Tiles(K) /\ lo \notin H.blocks /\ HEAP_BASE \in K.blocks /\ NEXT_BLOCK(K, lo) = end
  BY <1>1, <1>2, ExtendTiles, ZenonT(60)
<1>4. /\ Outside(H, K, lo, end) /\ lo \in Ends(H) /\ lo \in Addr /\ end \in Addr
      /\ lo < end /\ K.blocks = H.blocks \cup {lo}
      /\ \A b \in H.blocks : b < lo
  <2>2. lo \in Addr
    BY <1>1, TypeFacts, Zenon
  <2> QED BY <2>2, <1>2, <1>1, AddrFacts, Constants, SMTT(60) DEF Ends, Extend, Tiles, Block
<1> HIDE DEF lo
<1>5. ASSUME NEW b \in H.blocks
      PROVE  /\ K.hdr[b] = H.hdr[b] /\ NEXT_BLOCK(K, b) = NEXT_BLOCK(H, b)
             /\ (IS_ALLOC(K, b) <=> IS_ALLOC(H, b))
             /\ \A m : Payload(H, b, m) => Payload(K, b, m)
  BY <1>1, <1>4, Elsewhere, Zenon
<1>6. Free(K) = Free(H) \cup {lo} /\ Held(K) = Held(H) /\ lo \notin Free(H)
  BY <1>2, <1>3, <1>4, <1>5, Zenon DEF Free, Held
<1>9. Released(K, f)
  <2>1. CASE f = NULL
    BY <2>1, Zenon DEF Released
  <2>2. CASE f # NULL
    <3> DEFINE g == f - HDR_SIZE
    <3>1. g \in Addr /\ ~IS_ALLOC(H, g)
      BY <1>1, <2>2, Zenon DEF Released
    <3>2. PICK b \in Free(H) : b <= g /\ g < NEXT_BLOCK(H, b)
      BY <1>1, <2>2, ZenonT(60) DEF Released
    <3> HIDE DEF g
    <3>4. g < lo
      BY <3>1, <3>2, <1>4, <1>1, AddrFacts, Apart, SMTT(60) DEF Free, lo
    <3> QED BY <3>1, <3>4, <1>4, <3>2, <1>5, Zenon DEF Released, g, IS_ALLOC, Outside, Free
  <2> QED BY <2>1, <2>2, Zenon
<1>10. Sound(K, {lo}, L, f) /\ lo \in Free(K)
  BY <1>3, <1>6, <1>9, <1>5, <1>2, ZenonT(60) DEF Sound, Owned, Payloads, Held, Listed
<1> QED BY <1>2, <1>3, <1>10, PushSound, SMTT(60)

\* First fit finds a free block that is large enough.
LEMMA FitIs ==
    ASSUME NEW H, Tiles(H), NEW X, Listed(H, X), NEW size, fl_find_fit(H, size) # NULL
    PROVE  /\ fl_find_fit(H, size) \in Free(H)
           /\ BLK_SIZE(H, fl_find_fit(H, size)) >= total_size_for_payload(size)
<1> DEFINE fits == {i \in DOMAIN H.fl : BLK_SIZE(H, H.fl[i]) >= total_size_for_payload(size)}
<1>1. PICK i \in fits : fl_find_fit(H, size) = H.fl[i]
  BY Zenon DEF fl_find_fit
<1>2. H.fl[i] \in Members(H.fl)
  BY Zenon DEF Members
<1> QED BY <1>1, <1>2, Zenon DEF Listed

\* Only the words at the boundaries matter to the tiling.
LEMMA SameTags ==
    ASSUME NEW H, NEW K, Tiles(H), K \in HeapType, K.curr = H.curr, K.blocks = H.blocks,
           \A b \in H.blocks : K.hdr[b] = H.hdr[b],
           \A e \in Ends(H) : K.ftr[e] = H.ftr[e]
    PROVE  /\ Tiles(K) /\ Free(K) = Free(H) /\ Held(K) = Held(H)
           /\ \A b \in H.blocks : /\ NEXT_BLOCK(K, b) = NEXT_BLOCK(H, b)
                                  /\ USABLE(K, b) = USABLE(H, b)
<1>1. \A b \in H.blocks : /\ BLK_SIZE(K, b) = BLK_SIZE(H, b) /\ NEXT_BLOCK(K, b) = NEXT_BLOCK(H, b)
                          /\ IS_ALLOC(K, b) = IS_ALLOC(H, b) /\ USABLE(K, b) = USABLE(H, b)
  BY ZenonT(60) DEF BLK_SIZE, NEXT_BLOCK, IS_ALLOC, USABLE
<1>3. \A b \in H.blocks : Block(K, b)
  <2> TAKE b \in H.blocks
  <2> QED BY <1>1, SMTT(60) DEF Block, Tiles, Ends
<1> QED BY <1>1, <1>3, Zenon DEF Free, Held, Tiles, Ends

\* The block at h has been handed out; what it holds is not the caller's yet.
Almost(H, X, h, L, f) ==
    /\ Tiles(H) /\ Listed(H, X) /\ Owned(H, L) /\ Released(H, f)
    /\ h \in Held(H) /\ USABLE(H, h) >= L[h + HDR_SIZE]
    /\ \A b \in Held(H) : b # h => Payload(H, b, L[b + HDR_SIZE])

\* The caller writes over its payload and over nothing else.
LEMMA ScribbleSound ==
    ASSUME NEW H, NEW h, NEW L, NEW f, Almost(H, {}, h, L, f)
    PROVE  LET K == Scribble(H, h) IN
           /\ Sound(K, {}, L, f) /\ K.blocks = H.blocks
           /\ NEXT_BLOCK(K, h) = NEXT_BLOCK(H, h)
<1> DEFINE end == NEXT_BLOCK(H, h)
           hd == [a \in Addr |-> IF h + HDR_SIZE <= a /\ a < end THEN Junk ELSE H.hdr[a]]
           ft == [a \in Addr |-> IF h + HDR_SIZE < a /\ a < end THEN Junk ELSE H.ftr[a]]
           K == Scribble(H, h)
<1>1. /\ Tiles(H) /\ H \in HeapType /\ h \in H.blocks /\ h \in Held(H) /\ Owned(H, L)
      /\ Listed(H, {}) /\ Released(H, f)
  BY Zenon DEF Almost, Tiles, Held
<1>2. /\ h \in Addr /\ end \in Addr /\ h + OVERHEAD <= end
      /\ \A b \in Ends(H) : b \in Addr /\ (b <= h \/ end <= b)
  BY <1>1, Apart, ZenonT(60)
<1>3. h \in Nat /\ end \in Nat /\ h < end
  BY <1>2, AddrFacts, Constants, SMTT(60)
<1> HIDE DEF end
<1>5. hd \in [Addr -> TagSet] /\ ft \in [Addr -> TagSet]
  BY <1>1, TypeFacts, SMTT(60) DEF Junk, Tag, TagSet
<1>6. K = [H EXCEPT !.hdr = hd, !.ftr = ft]
  BY Zenon DEF Scribble, end
<1>7. \A a \in Addr : /\ hd[a] = IF h + HDR_SIZE <= a /\ a < end THEN Junk ELSE H.hdr[a]
                      /\ ft[a] = IF h + HDR_SIZE < a /\ a < end THEN Junk ELSE H.ftr[a]
  BY Zenon
<1> HIDE DEF hd, ft, K
<1>8. /\ K \in HeapType /\ K.hdr = hd /\ K.ftr = ft /\ K.fl = H.fl
      /\ K.curr = H.curr /\ K.blocks = H.blocks
  BY <1>1, <1>5, <1>6, ZenonT(60) DEF HeapType
<1>9. ASSUME NEW a \in Addr, a <= h \/ end <= a
      PROVE  K.hdr[a] = H.hdr[a] /\ K.ftr[a] = H.ftr[a]
  BY <1>7, <1>8, <1>3, <1>9, Constants, AddrFacts, SMTT(60)
<1>11. /\ Tiles(K) /\ Free(K) = Free(H) /\ Held(K) = Held(H)
       /\ \A b \in H.blocks : NEXT_BLOCK(K, b) = NEXT_BLOCK(H, b) /\ USABLE(K, b) = USABLE(H, b)
  BY <1>1, <1>8, <1>2, <1>9, SameTags, SMTT(60) DEF Ends
<1>13. Payloads(K, L)
  <2> SUFFICES ASSUME NEW b \in Held(K) PROVE Payload(K, b, L[b + HDR_SIZE])
    BY Zenon DEF Payloads
  <2>1. CASE b = h
    <3>2. ASSUME NEW a \in Addr, h + HDR_SIZE < a, a < end
          PROVE  K.hdr[a] = Junk /\ K.ftr[a] = Junk
      BY <3>2, <1>7, <1>8, <1>3, AddrFacts, Constants, SMTT(60)
    <3> QED BY <2>1, <3>2, <1>1, <1>11, ZenonT(60) DEF Payload, end, Almost
  <2>2. CASE b # h
    <3>2. ASSUME NEW a \in Addr PROVE (K.hdr[a] = H.hdr[a] \/ K.hdr[a] = Junk)
                                      /\ (K.ftr[a] = H.ftr[a] \/ K.ftr[a] = Junk)
      BY <1>7, <1>8, Zenon
    <3> QED BY <3>2, <1>11, <2>2, Zenon DEF Payload, Held, Almost
  <2> QED BY <2>1, <2>2, Zenon
<1>14. Released(K, f)
  <2>1. CASE f = NULL
    BY <2>1, Zenon DEF Released
  <2>2. CASE f # NULL
    <3> DEFINE g == f - HDR_SIZE
    <3>1. g \in Addr /\ ~IS_ALLOC(H, g)
      BY <1>1, <2>2, Zenon DEF Released
    <3>2. PICK b \in Free(H) : b <= g /\ g < NEXT_BLOCK(H, b)
      BY <1>1, <2>2, Zenon DEF Released
    <3> HIDE DEF g
    <3>3. b \in H.blocks /\ b # h /\ b \in Addr /\ NEXT_BLOCK(H, b) \in Addr
      BY <1>1, Apart, Zenon DEF Free, Held
    <3>4. (b <= h \/ end <= b) /\ (h <= b \/ NEXT_BLOCK(H, b) <= h)
      BY <3>3, <1>1, <1>2, Apart, ZenonT(60) DEF Ends
    <3>5. g <= h \/ end <= g
      BY <3>2, <3>3, <3>4, <1>3, <3>1, AddrFacts, SMTT(60)
    <3> QED BY <3>1, <3>5, <1>9, <3>2, <3>3, <1>11, ZenonT(60) DEF Released, g, IS_ALLOC
  <2> QED BY <2>1, <2>2, Zenon
<1> QED BY <1>1, <1>8, <1>11, <1>13, <1>14, ZenonT(60) DEF Sound, K, end, Listed, Owned

\* What lies inside free blocks can be anything, but for the header in question.
LEMMA ForgetSound ==
    ASSUME NEW H, NEW L, NEW f, Sound(H, {}, L, f)
    PROVE  LET K == Forget(H, f) IN
           /\ Sound(K, {}, L, f) /\ K.blocks = H.blocks
<1> DEFINE inside == {a \in Addr : \E h \in Free(H) : h < a /\ a < NEXT_BLOCK(H, h)}
           hd == [a \in Addr |-> IF a \in inside \ {f - HDR_SIZE} THEN Junk ELSE H.hdr[a]]
           ft == [a \in Addr |-> IF a \in inside THEN Junk ELSE H.ftr[a]]
           K == Forget(H, f)
<1>1. /\ Tiles(H) /\ H \in HeapType /\ Owned(H, L) /\ Listed(H, {}) /\ Payloads(H, L)
      /\ Released(H, f)
  BY Zenon DEF Sound, Tiles
<1>3. K = [H EXCEPT !.hdr = hd, !.ftr = ft]
  BY Zenon DEF Forget, Free
<1>4. \A e \in Ends(H) : e \in Addr /\ e \notin inside
  <2> TAKE e \in Ends(H)
  <2>1. e \in Addr
    BY <1>1, TypeFacts, ZenonT(60) DEF Ends
  <2>2. ASSUME NEW h \in Free(H), h < e, e < NEXT_BLOCK(H, h) PROVE FALSE
    BY <2>2, <1>1, AddrFacts, Apart, SMTT(60) DEF Free
  <2> QED BY <2>1, <2>2, Zenon
<1> HIDE DEF inside
<1>5. hd \in [Addr -> TagSet] /\ ft \in [Addr -> TagSet]
  BY <1>1, TypeFacts, SMTT(60) DEF Junk, Tag, TagSet
<1>6. \A a \in Addr : /\ hd[a] = IF a \in inside \ {f - HDR_SIZE} THEN Junk ELSE H.hdr[a]
                      /\ ft[a] = IF a \in inside THEN Junk ELSE H.ftr[a]
  BY Zenon
<1> HIDE DEF hd, ft, K
<1>7. /\ K \in HeapType /\ K.hdr = hd /\ K.ftr = ft /\ K.fl = H.fl
      /\ K.curr = H.curr /\ K.blocks = H.blocks
  BY <1>1, <1>3, <1>5, ZenonT(60) DEF HeapType
<1>9. /\ Tiles(K) /\ Free(K) = Free(H) /\ Held(K) = Held(H)
      /\ \A b \in H.blocks : NEXT_BLOCK(K, b) = NEXT_BLOCK(H, b) /\ USABLE(K, b) = USABLE(H, b)
  BY <1>1, <1>7, <1>4, <1>6, SameTags, SMTT(60) DEF Ends
<1>11. Payloads(K, L)
  <2> SUFFICES ASSUME NEW b \in Held(K) PROVE Payload(K, b, L[b + HDR_SIZE])
    BY Zenon DEF Payloads
  <2>2. ASSUME NEW a \in Addr PROVE (K.hdr[a] = H.hdr[a] \/ K.hdr[a] = Junk)
                                    /\ (K.ftr[a] = H.ftr[a] \/ K.ftr[a] = Junk)
    BY <1>6, <1>7, Zenon
  <2> QED BY <2>2, <1>9, <1>1, Zenon DEF Payload, Held, Payloads
<1>12. Released(K, f)
  <2>1. CASE f = NULL
    BY <2>1, Zenon DEF Released
  <2>2. CASE f # NULL
    <3> DEFINE g == f - HDR_SIZE
    <3>2. PICK b \in Free(H) : b <= g /\ g < NEXT_BLOCK(H, b)
      BY <1>1, <2>2, Zenon DEF Released
    <3> HIDE DEF g
    <3> QED BY <1>9, <1>6, <1>7, <1>1, Zenon DEF Released, g, Free, IS_ALLOC
  <2> QED BY <2>1, <2>2, Zenon
<1> QED BY <1>7, <1>9, <1>11, <1>12, ZenonT(60) DEF Sound, K, Listed, Owned

\* The last pointer released is forgotten when its header lies in lo .. hi - 1.
Unless(f, lo, hi) == IF f # NULL /\ f - HDR_SIZE \in lo .. hi - 1 THEN NULL ELSE f

\* The pointers held once ptr is handed out for n bytes.
With(L, ptr, n) == [p \in DOMAIN L \cup {ptr} |-> IF p = ptr THEN n ELSE L[p]]

\* M holds the block at h for n bytes and the others as L does.
HandedOut(H, K, L, M, h, n) ==
    /\ Owned(K, M) /\ M[h + HDR_SIZE] = n
    /\ \A b \in Held(H) : M[b + HDR_SIZE] = L[b + HDR_SIZE]

\* Who holds what once the block at h is handed out.
LEMMA WithIs ==
    ASSUME NEW H, NEW K, NEW L, NEW h, NEW n, Tiles(H), Owned(H, L), h \in Addr,
           h \notin Held(H), Held(K) = Held(H) \cup {h}, NEW ptr, ptr = h + HDR_SIZE
    PROVE  HandedOut(H, K, L, With(L, ptr, n), h, n)
<1> DEFINE M == With(L, h + HDR_SIZE, n)
<1>3. \A b \in Held(H) : b + HDR_SIZE # h + HDR_SIZE /\ b + HDR_SIZE \in DOMAIN L
  <2> TAKE b \in Held(H)
  <2>1. b \in Nat /\ h \in Nat /\ b # h
    BY TypeFacts, AddrFacts, Zenon DEF Tiles, Held
  <2> QED BY <2>1, Constants, SMTT(60) DEF Owned
<1> QED BY <1>3, Zenon DEF Owned, HandedOut, With

\* A free block is handed out whole.
LEMMA TakeWhole ==
    ASSUME NEW H, NEW L, NEW f, NEW n, Sound(H, {}, L, f), NEW h \in Free(H), USABLE(H, h) >= n
    PROVE  LET K == WriteTags(fl_remove(H, h), h, BLK_SIZE(H, h), TRUE) IN
           /\ Almost(K, {}, h, With(L, h + HDR_SIZE, n), Unless(f, h, NEXT_BLOCK(K, h)))
<1> DEFINE F == fl_remove(H, h)
           K == WriteTags(F, h, BLK_SIZE(H, h), TRUE)
           hi == NEXT_BLOCK(H, h)
           M == With(L, h + HDR_SIZE, n)
           e == Unless(f, h, hi)
<1>1. /\ Tiles(H) /\ H \in HeapType /\ Distinct(H.fl) /\ Members(H.fl) = Free(H)
      /\ Owned(H, L) /\ Payloads(H, L) /\ Released(H, f)
      /\ h \in H.blocks /\ h \notin Held(H)
  BY Zenon DEF Sound, Listed, Tiles, Free, Held
<1>2. Relisted(H, F) /\ Distinct(F.fl) /\ Members(F.fl) = Members(H.fl) \ {h}
  BY <1>1, Removed, Zenon DEF Relisted
<1> HIDE DEF F
<1>3. /\ Refit(H, K, h, hi) /\ K.fl = F.fl /\ K.blocks = H.blocks /\ IS_ALLOC(K, h)
      /\ \A a \in Addr : a # h => K.hdr[a] = H.hdr[a]
  <2> DEFINE flag == TRUE
             W == WriteTags(F, h, BLK_SIZE(H, h), flag)
  <2>1. flag \in BOOLEAN
    BY ZenonT(60)
  <2> HIDE DEF flag
  <2>3. Marked(H, F, W, h, flag)
    BY <2>1, <1>1, <1>2, Flagged, SMTT(60)
  <2> QED BY <2>3, Zenon DEF Marked, flag
<1> HIDE DEF K
<1>4. Tiles(K) /\ h \in K.blocks /\ NEXT_BLOCK(K, h) = hi
  BY <1>1, <1>3, RefitTiles, ZenonT(60)
<1>5. /\ h \in Addr /\ hi \in Addr /\ h \in Nat /\ hi \in Nat /\ h < hi
      /\ h \in Ends(H) /\ Outside(H, K, h, hi) /\ BLK_SIZE(K, h) = hi - h
      /\ hi = h + BLK_SIZE(H, h) /\ BLK_SIZE(H, h) \in Int
      /\ \A b \in H.blocks : b \in Nat /\ (b <= h \/ hi <= b)
  <2>1. /\ h \in Addr /\ hi \in Addr /\ h + OVERHEAD <= hi /\ hi = h + BLK_SIZE(H, h)
        /\ \A b \in Ends(H) : b \in Addr /\ (b <= h \/ hi <= b)
    BY <1>1, Apart, Zenon
  <2>2. h \in Nat /\ hi \in Nat /\ BLK_SIZE(H, h) \in Int
    BY <2>1, <1>1, AddrFacts, TypeFacts, ZenonT(60)
  <2>5. \A b \in H.blocks : b \in Nat
    BY <2>1, AddrFacts, ZenonT(60) DEF Ends
  <2> QED BY <2>1, <2>2, <2>5, <1>3, Constants, SMTT(60) DEF Ends, Refit
<1> HIDE DEF hi
<1>6. ASSUME NEW b \in H.blocks, b # h
      PROVE  /\ NEXT_BLOCK(K, b) = NEXT_BLOCK(H, b) /\ (IS_ALLOC(K, b) <=> IS_ALLOC(H, b))
             /\ \A m : Payload(H, b, m) => Payload(K, b, m)
  BY <1>1, <1>5, <1>6, Elsewhere, SMTT(60)
<1>7. Free(K) = Free(H) \ {h} /\ Held(K) = Held(H) \cup {h}
  BY <1>3, <1>6, Zenon DEF Free, Held
<1>8. Listed(K, {})
  BY <1>1, <1>2, <1>3, <1>7, ZenonT(60) DEF Listed
<1>9. /\ Owned(K, M) /\ M[h + HDR_SIZE] = n
      /\ \A b \in Held(H) : M[b + HDR_SIZE] = L[b + HDR_SIZE]
  <2>2. HandedOut(H, K, L, M, h, n)
    <3> DEFINE ptr == h + HDR_SIZE
    <3>1. ptr = h + HDR_SIZE /\ M = With(L, ptr, n)
      BY ZenonT(60)
    <3> HIDE DEF ptr, M
    <3> QED BY <3>1, <1>1, <1>5, <1>7, WithIs, ZenonT(60)
  <2> QED BY <2>2, Zenon DEF HandedOut
<1> HIDE DEF M
<1>10. USABLE(K, h) >= M[h + HDR_SIZE]
  BY <1>9, <1>5, SMTT(60) DEF USABLE
<1>11. ASSUME NEW b \in Held(K), b # h PROVE Payload(K, b, M[b + HDR_SIZE])
  BY <1>1, <1>6, <1>7, <1>9, <1>11, ZenonT(60) DEF Held, Payloads
<1>12. Released(K, e)
  <2>1. CASE e = NULL
    BY <2>1, Zenon DEF Released
  <2>2. CASE e # NULL
    <3> DEFINE g == f - HDR_SIZE
    <3>1. f # NULL /\ e = f /\ g \notin h .. hi - 1
      BY <2>2, Zenon DEF Unless
    <3>2. g \in Addr /\ ~IS_ALLOC(H, g)
      BY <1>1, <3>1, Zenon DEF Released
    <3>3. PICK b \in Free(H) : b <= g /\ g < NEXT_BLOCK(H, b)
      BY <1>1, <3>1, ZenonT(60) DEF Released
    <3> HIDE DEF g, e
    <3>5. g # h /\ b # h
      BY <3>3, <1>5, <3>1, <3>2, SMTT(60) DEF hi
    <3> QED BY <3>1, <3>2, <3>3, <3>5, <1>6, <1>3, ZenonT(60) DEF Released, g, Free, IS_ALLOC
  <2> QED BY <2>1, <2>2, Zenon
<1> QED BY <1>4, <1>8, <1>9, <1>10, <1>11, <1>12, <1>7, ZenonT(60) DEF Almost, K, F, M

\* The front of a free block is handed out; the rest is a free block.
LEMMA TakeFront ==
    ASSUME NEW H, NEW L, NEW f, NEW n \in Nat, NEW need \in Nat, Sound(H, {}, L, f),
           NEW h \in Free(H), need % 16 = 0, need >= n + OVERHEAD,
           need + OVERHEAD <= BLK_SIZE(H, h)
    PROVE  LET t == h + need
               front == WriteTags([fl_remove(H, h) EXCEPT !.blocks = @ \cup {t}], h, need, TRUE)
               K == WriteTags(front, t, BLK_SIZE(H, h) - need, FALSE)
           IN  /\ Almost(K, {t}, h, With(L, h + HDR_SIZE, n), Unless(f, h, NEXT_BLOCK(K, h)))
               /\ t \in Free(K)
<1> DEFINE F == fl_remove(H, h)
           t == h + need
           W == WriteTags([F EXCEPT !.blocks = @ \cup {t}], h, need, TRUE)
           K == WriteTags(W, t, BLK_SIZE(H, h) - need, FALSE)
           hi == NEXT_BLOCK(H, h)
           M == With(L, h + HDR_SIZE, n)
           e == Unless(f, h, t)
<1>1. /\ Tiles(H) /\ H \in HeapType /\ Distinct(H.fl) /\ Members(H.fl) = Free(H)
      /\ Owned(H, L) /\ Payloads(H, L) /\ Released(H, f)
      /\ h \in H.blocks /\ h \notin Held(H)
  BY Zenon DEF Sound, Listed, Tiles, Free, Held
<1>2. Relisted(H, F) /\ Distinct(F.fl) /\ Members(F.fl) = Members(H.fl) \ {h}
  BY <1>1, Removed, ZenonT(60) DEF Relisted
<1> HIDE DEF F
<1>3. /\ h \in Addr /\ hi \in Addr /\ h \in Nat /\ hi \in Nat /\ h < hi /\ h \in Ends(H)
      /\ hi = h + BLK_SIZE(H, h) /\ BLK_SIZE(H, h) \in Int
      /\ \A b \in H.blocks : b \in Nat /\ (b <= h \/ hi <= b)
  <2>1. /\ h \in Addr /\ hi \in Addr /\ h + OVERHEAD <= hi /\ hi = h + BLK_SIZE(H, h)
        /\ \A b \in Ends(H) : b \in Addr /\ (b <= h \/ hi <= b)
    BY <1>1, Apart, Zenon
  <2>2. h \in Nat /\ hi \in Nat /\ BLK_SIZE(H, h) \in Int
    BY <2>1, <1>1, AddrFacts, TypeFacts, ZenonT(60)
  <2>4. \A b \in H.blocks : b \in Nat
    BY <2>1, AddrFacts, ZenonT(60) DEF Ends
  <2> QED BY <2>1, <2>2, <2>4, <1>1, Constants, SMTT(60) DEF Ends
<1>4. need >= OVERHEAD /\ h + need + OVERHEAD <= hi
  BY <1>3, Constants, SMTT(60)
<1>5. /\ Split(H, K, h, t) /\ K.fl = F.fl /\ IS_ALLOC(K, h) /\ ~IS_ALLOC(K, t)
      /\ \A a \in Addr : a # h /\ a # t => K.hdr[a] = H.hdr[a]
  <2>2. CutTo(H, F, K, h, t)
    <3> DEFINE rest == BLK_SIZE(H, h) - need
    <3>1. t = h + need /\ rest = BLK_SIZE(H, h) - need
          /\ K = WriteTags(WriteTags([F EXCEPT !.blocks = @ \cup {t}], h, need, TRUE), t, rest, FALSE)
      BY Zenon
    <3> HIDE DEF rest, K, W, t
    <3> QED BY <1>4, <3>1, <1>1, <1>2, Cut, ZenonT(60)
  <2> QED BY <2>2, Zenon DEF CutTo
<1> HIDE DEF K, W
<1>6. /\ Tiles(K) /\ h \in K.blocks /\ t \in K.blocks /\ t \notin H.blocks
      /\ NEXT_BLOCK(K, h) = t /\ NEXT_BLOCK(K, t) = hi
  BY <1>1, <1>5, SplitTiles, ZenonT(60)
<1>7. /\ K.blocks = H.blocks \cup {t} /\ Outside(H, K, h, hi) /\ t \in Addr
      /\ h < t /\ t < hi /\ t \in Nat /\ BLK_SIZE(K, h) = t - h
  BY <1>3, <1>5, Constants, SMTT(60) DEF Split
<1> HIDE DEF hi
<1>8. ASSUME NEW b \in H.blocks, b # h
      PROVE  /\ NEXT_BLOCK(K, b) = NEXT_BLOCK(H, b) /\ (IS_ALLOC(K, b) <=> IS_ALLOC(H, b))
             /\ \A m : Payload(H, b, m) => Payload(K, b, m)
  BY <1>1, <1>3, <1>7, <1>8, Elsewhere, SMTT(60)
<1>9. USABLE(K, h) >= n
  BY <1>3, <1>7, Constants, SMTT(60) DEF USABLE
<1> HIDE DEF t
<1>10. Free(K) = (Free(H) \ {h}) \cup {t} /\ Held(K) = Held(H) \cup {h} /\ t \notin Free(H)
  BY <1>5, <1>6, <1>7, <1>8, Zenon DEF Free, Held
<1>11. Listed(K, {t})
  BY <1>1, <1>2, <1>5, <1>10, Zenon DEF Listed
<1>12. /\ Owned(K, M) /\ M[h + HDR_SIZE] = n
       /\ \A b \in Held(H) : M[b + HDR_SIZE] = L[b + HDR_SIZE]
  <2>2. HandedOut(H, K, L, M, h, n)
    <3> DEFINE ptr == h + HDR_SIZE
    <3>1. ptr = h + HDR_SIZE /\ M = With(L, ptr, n)
      BY Zenon
    <3> HIDE DEF ptr, M
    <3> QED BY <3>1, <1>1, <1>3, <1>10, WithIs, ZenonT(60)
  <2> QED BY <2>2, Zenon DEF HandedOut
<1> HIDE DEF M
<1>13. ASSUME NEW b \in Held(K), b # h PROVE Payload(K, b, M[b + HDR_SIZE])
  BY <1>1, <1>8, <1>10, <1>12, <1>13, ZenonT(60) DEF Held, Payloads
<1>14. Released(K, e)
  <2>1. CASE e = NULL
    BY <2>1, Zenon DEF Released
  <2>2. CASE e # NULL
    <3> DEFINE g == f - HDR_SIZE
    <3>1. f # NULL /\ e = f /\ g \notin h .. t - 1
      BY <2>2, Zenon DEF Unless
    <3>2. g \in Addr /\ ~IS_ALLOC(H, g)
      BY <1>1, <3>1, Zenon DEF Released
    <3>3. PICK b \in Free(H) : b <= g /\ g < NEXT_BLOCK(H, b)
      BY <1>1, <3>1, ZenonT(60) DEF Released
    <3> HIDE DEF g, e
    <3>4. g \in Nat /\ ~(h <= g /\ g < t)
      BY <3>1, <3>2, <1>7, AddrFacts, SMTT(60)
    <3>6. ~IS_ALLOC(K, g)
      <4>1. CASE g = t
        BY <4>1, <1>5, ZenonT(60)
      <4>2. CASE g # t
        BY <3>2, <1>5, <3>4, <1>7, SMTT(60) DEF IS_ALLOC
      <4> QED BY <4>1, <4>2, Zenon
    <3>7. \E c \in Free(K) : c <= g /\ g < NEXT_BLOCK(K, c)
      <4>1. CASE b = h
        BY <1>6, <4>1, <3>3, <3>4, <1>7, <1>10, SMTT(60) DEF hi
      <4>2. CASE b # h
        BY <4>2, <3>3, <1>8, <1>10, Zenon DEF Free
      <4> QED BY <4>1, <4>2, ZenonT(60)
    <3> QED BY <3>1, <3>2, <3>6, <3>7, ZenonT(60) DEF Released, g
  <2> QED BY <2>1, <2>2, Zenon
<1>16. Almost(K, {t}, h, M, Unless(f, h, NEXT_BLOCK(K, h)))
  BY <1>6, <1>9, <1>11, <1>12, <1>13, <1>14, <1>10, ZenonT(60) DEF Almost
<1> QED BY <1>16, <1>10, Zenon DEF K, W, F, M, t

\* The smallest remainder of a split has room for its tags.
LEMMA MinSplit ==
    /\ total_size_for_payload(MIN_SPLIT_SIZE) \in Nat
    /\ total_size_for_payload(MIN_SPLIT_SIZE) >= OVERHEAD
<1>1. HEAP_BASE >= PAGE_SIZE
  <2>2. PICK k \in Nat : HEAP_BASE = PAGE_SIZE * k
    BY PageIsAligned, HeapAssumption, Zenon
  <2> QED BY HeapAssumption
<1>4. Word > 96
  <2> DEFINE x == PAGE_SIZE * InitPages
  <2> HIDE DEF x
  <2> QED BY Constants, HeapAssumption DEF ALIGNMENT
<1> DEFINE y == ALIGN_UP(32, ALIGNMENT)
           z == ALIGN_UP(y + OVERHEAD, ALIGNMENT)
<1>5. y \in 32 .. 32 + 15 /\ y % 16 = 0
  <2>1. 32 \in Nat /\ 32 + 15 < Word
    BY <1>4, Constants, SMTT(60)
  <2> QED BY <2>1, AlignSmall, Zenon
<1> HIDE DEF y
<1>7. z >= OVERHEAD /\ z \in Nat
  <2> DEFINE x == y + OVERHEAD
  <2>1. x \in Nat /\ x + 15 < Word /\ x >= OVERHEAD
    BY <1>4, <1>5, Constants, SMTT(60)
  <2> HIDE DEF x
  <2>3. ALIGN_UP(x, ALIGNMENT) >= OVERHEAD /\ ALIGN_UP(x, ALIGNMENT) \in Nat
    <3> DEFINE v == ALIGN_UP(x, ALIGNMENT)
    <3> HIDE DEF v
    <3> QED BY <2>1, Constants, AlignSmall, SMTT(60) DEF v
  <2> QED BY <2>3, Zenon DEF x
<1>8. total_size_for_payload(MIN_SPLIT_SIZE) = z
  BY ZenonT(60) DEF total_size_for_payload, MIN_SPLIT_SIZE, y
<1> HIDE DEF z
<1> QED BY <1>7, <1>8, Zenon

\* fl_push puts the rest of a split on the list.
LEMMA PushAlmost ==
    ASSUME NEW H, NEW h, NEW L, NEW f, NEW b \in Free(H), Almost(H, {b}, h, L, f)
    PROVE  LET F == fl_push(H, b) IN
           Almost(F, {}, h, L, f) /\ NEXT_BLOCK(F, h) = NEXT_BLOCK(H, h)
<1> DEFINE F == fl_push(H, b)
<1>1. Tiles(H) /\ H \in HeapType /\ Distinct(H.fl) /\ Members(H.fl) = Free(H) \ {b}
  BY Zenon DEF Almost, Listed, Tiles
<1>2. b \in Addr /\ b \notin Members(H.fl)
  BY <1>1, TypeFacts, Zenon DEF Free
<1>3. Relisted(H, F) /\ Distinct(F.fl) /\ Members(F.fl) = Members(H.fl) \cup {b}
  BY <1>1, <1>2, Pushed, Zenon DEF Relisted
<1> HIDE DEF F
<1>6. /\ NEXT_BLOCK(F, h) = NEXT_BLOCK(H, h) /\ USABLE(F, h) = USABLE(H, h)
      /\ \A c, n : Payload(H, c, n) => Payload(F, c, n)
  BY <1>3, Zenon DEF Relisted, NEXT_BLOCK, USABLE, BLK_SIZE, Payload
<1> QED BY <1>6, <1>3, Relist, SMTT(60) DEF Almost, F, Listed

\* allocate_from_block hands out a block with room for n bytes.
LEMMA TakeSound ==
    ASSUME NEW H, NEW L, NEW f, Sound(H, {}, L, f), NEW n \in Nat,
           n + OVERHEAD + 2 * ALIGNMENT <= Word,
           NEW h \in Free(H), BLK_SIZE(H, h) >= total_size_for_payload(n)
    PROVE  LET A == allocate_from_block(H, h, n) IN
           Almost(A, {}, h, With(L, h + HDR_SIZE, n), Unless(f, h, NEXT_BLOCK(A, h)))
<1> DEFINE need == total_size_for_payload(n)
           least == total_size_for_payload(MIN_SPLIT_SIZE)
           t == h + need
           front == WriteTags([fl_remove(H, h) EXCEPT !.blocks = @ \cup {t}], h, need, TRUE)
           K == WriteTags(front, t, BLK_SIZE(H, h) - need, FALSE)
           W == WriteTags(fl_remove(H, h), h, BLK_SIZE(H, h), TRUE)
           A == allocate_from_block(H, h, n)
           M == With(L, h + HDR_SIZE, n)
<1>0. BLK_SIZE(H, h) \in Int
  <2>1. H \in HeapType /\ h \in H.blocks
    BY Zenon DEF Tiles, Sound, Free
  <2> QED BY <2>1, TypeFacts, Zenon
<1>1. need \in Nat /\ need % 16 = 0 /\ need >= n + OVERHEAD
  BY TotalIs, Zenon
<1>2. least \in Nat /\ least >= OVERHEAD
  BY MinSplit, Zenon
<1>4. A = IF BLK_SIZE(H, h) >= need + least THEN fl_push(K, t) ELSE W
  BY Zenon DEF allocate_from_block
<1>7. BLK_SIZE(H, h) >= need
  BY Zenon
<1> HIDE DEF A, need, least
<1>5. CASE BLK_SIZE(H, h) >= need + least
  <2>1. need + OVERHEAD <= BLK_SIZE(H, h)
    BY <1>0, <1>1, <1>2, <1>5, Constants, SMTT(60)
  <2>2. Almost(K, {t}, h, M, Unless(f, h, NEXT_BLOCK(K, h))) /\ t \in Free(K)
    BY <1>1, <2>1, TakeFront, Zenon
  <2> HIDE DEF K, t, M
  <2> DEFINE P == fl_push(K, t)
  <2>3. Almost(P, {}, h, M, Unless(f, h, NEXT_BLOCK(K, h))) /\ NEXT_BLOCK(P, h) = NEXT_BLOCK(K, h)
    BY <2>2, PushAlmost, Zenon
  <2>4. A = P
    BY <1>4, <1>5, Zenon
  <2> HIDE DEF P
  <2> QED BY <2>3, <2>4, ZenonT(60) DEF A, M
<1>6. CASE ~(BLK_SIZE(H, h) >= need + least)
  <2>1. USABLE(H, h) >= n
    BY <1>0, <1>1, <1>7, Constants, SMTT(60) DEF USABLE
  <2>2. Almost(W, {}, h, M, Unless(f, h, NEXT_BLOCK(W, h)))
    BY <2>1, TakeWhole, ZenonT(60)
  <2> HIDE DEF W, M
  <2> QED BY <2>2, <1>4, <1>6, ZenonT(60) DEF A, M
<1> QED BY <1>5, <1>6, Zenon

-----------------------------------------------------------------------------
(* The calls.                                                              *)

\* What a kmalloc of n bytes leaves when it returns: NULL, or a block no caller
\* held.
Served(r, L, f, n) ==
    /\ HEAP_BASE \in r.heap.blocks
    /\ \/ r.ptr = NULL /\ Sound(r.heap, {}, L, f)
       \/ /\ r.ptr \in Nat /\ r.ptr # NULL /\ r.ptr \notin DOMAIN L
          /\ Sound(r.heap, {}, With(L, r.ptr, n),
                   Unless(f, r.ptr - HDR_SIZE, NEXT_BLOCK(r.heap, r.ptr - HDR_SIZE)))

\* kmalloc takes the first block that fits, after growing the heap where none does.
LEMMA AllocateSound ==
    ASSUME NEW H, NEW L, NEW f, Sound(H, {}, L, f), HEAP_BASE \in H.blocks, NEW n \in Nat,
           n + OVERHEAD + 2 * ALIGNMENT <= Word, CanServe(H, n)
    PROVE  Served(Allocate(H, n), L, f, n)
<1> DEFINE G == Grown(H, n)
           h == fl_find_fit(G, n)
           A == allocate_from_block(G, h, n)
           S == Scribble(A, h)
           r == Allocate(H, n)
<1>1. Sound(G, {}, L, f) /\ HEAP_BASE \in G.blocks
  <2>1. CASE fl_find_fit(H, n) # NULL
    BY <2>1, Zenon DEF Grown
  <2>2. CASE fl_find_fit(H, n) = NULL
    <3> DEFINE bytes == Growth(n)
    <3>1. bytes \in Nat
      <4> DEFINE x == total_size_for_payload(n)
                 y == GrowPages * PAGE_SIZE
      <4> HIDE DEF x, y
      <4> QED BY TotalIs, Constants, SMTT(60) DEF Growth, x, y
    <3>2. CanGrow(H, bytes) /\ G = heap_map_more(H, bytes)
      BY <2>2, Zenon DEF CanServe, Grown
    <3> HIDE DEF bytes, G
    <3> QED BY <3>1, <3>2, GrowSound, ZenonT(60)
  <2> QED BY <2>1, <2>2, Zenon
<1>2. r = IF h = NULL THEN [heap |-> G, ptr |-> NULL] ELSE [heap |-> S, ptr |-> h + HDR_SIZE]
  BY Zenon DEF Allocate
<1> SUFFICES Served(r, L, f, n)
  BY Zenon
<1> HIDE DEF r, G
<1>3. CASE h = NULL
  BY <1>1, <1>2, <1>3, ZenonT(60) DEF Served
<1>4. CASE h # NULL
  <2> DEFINE ptr == h + HDR_SIZE
             M == With(L, ptr, n)
             e == Unless(f, h, NEXT_BLOCK(A, h))
  <2>1. Tiles(G) /\ Listed(G, {}) /\ Owned(G, L)
    BY <1>1, Zenon DEF Sound
  <2>2. h \in Free(G) /\ BLK_SIZE(G, h) >= total_size_for_payload(n)
    BY <2>1, <1>4, FitIs, ZenonT(60)
  <2> HIDE DEF h
  <2>3. Almost(A, {}, h, M, e)
    BY <1>1, <2>2, TakeSound, ZenonT(60)
  <2>5. ptr \in Nat /\ ptr # NULL /\ ptr - HDR_SIZE = h
    BY <2>1, <2>2, Constants, AddrFacts, Apart, SMTT(60) DEF Free
  <2>6. ptr \notin DOMAIN L
    <3> SUFFICES ASSUME ptr \in DOMAIN L PROVE FALSE
      BY Zenon
    <3> HIDE DEF ptr
    <3> QED BY <2>2, <2>5, <2>1, HolderIs, ZenonT(60) DEF Free, Held
  <2> HIDE DEF ptr, M, A
  <2>7. Sound(S, {}, M, e) /\ S.blocks = A.blocks /\ NEXT_BLOCK(S, h) = NEXT_BLOCK(A, h)
    BY <2>3, ScribbleSound, Zenon
  <2>9. r.heap = S /\ r.ptr = ptr
    BY <1>2, <1>4, Zenon DEF ptr, S, A, h
  <2> HIDE DEF S
  <2>10. Unless(f, r.ptr - HDR_SIZE, NEXT_BLOCK(r.heap, r.ptr - HDR_SIZE)) = e
    BY <2>5, <2>7, <2>9, Zenon
  <2> HIDE DEF e
  <2> QED BY <2>9, <2>10, <2>7, <2>5, <2>6, <2>3, Based, ZenonT(60) DEF Served, M, Almost, Held
<1> QED BY <1>3, <1>4, Zenon

\* krealloc takes in the free block to the right of the one it was given.
LEMMA InPlaceSound ==
    ASSUME NEW H, NEW L, NEW f, Sound(H, {}, L, f), NEW ptr \in DOMAIN L, NEW size \in Nat,
           FitsInPlace(H, ptr - HDR_SIZE, size)
    PROVE  LET h == ptr - HDR_SIZE
               n == NEXT_BLOCK(H, h)
               K == Merge(fl_remove(H, n), h, n)
           IN  Almost(K, {}, h, [L EXCEPT ![ptr] = size], Unless(f, h, NEXT_BLOCK(K, h)))
<1> DEFINE h == ptr - HDR_SIZE
           n == NEXT_BLOCK(H, h)
           F == fl_remove(H, n)
           K == Merge(F, h, n)
           hi == NEXT_BLOCK(H, n)
           M == [L EXCEPT ![ptr] = size]
           e == Unless(f, h, hi)
<1>1. /\ Tiles(H) /\ H \in HeapType /\ Distinct(H.fl) /\ Members(H.fl) = Free(H)
      /\ Owned(H, L) /\ Payloads(H, L) /\ Released(H, f)
  BY Zenon DEF Sound, Listed, Tiles
<1>2. h \in Held(H) /\ h + HDR_SIZE = ptr /\ h \in H.blocks
  BY <1>1, HolderIs, Zenon DEF Held
<1>3. /\ RightIsFree(H, h) /\ USABLE(H, h) + OVERHEAD + USABLE(H, n) >= size
  BY Zenon DEF FitsInPlace
<1> HIDE DEF h
<1>4. n \in Free(H) /\ n \in H.blocks
  BY <1>1, <1>2, <1>3, RightNeighbour, ZenonT(60) DEF Free
<1>5. Relisted(H, F) /\ Distinct(F.fl) /\ Members(F.fl) = Members(H.fl) \ {n}
  BY <1>1, Removed, ZenonT(60) DEF Relisted
<1> HIDE DEF F
<1>6. /\ Refit(H, K, h, hi) /\ K.fl = F.fl /\ K.blocks = H.blocks \ {n}
      /\ (IS_ALLOC(K, h) <=> IS_ALLOC(H, h))
      /\ \A a \in Addr : a # h => K.hdr[a] = H.hdr[a]
  <2>1. Joined(H, F, K, h, n)
    BY <1>1, <1>2, <1>4, <1>5, Merged, ZenonT(60)
  <2> HIDE DEF K
  <2> QED BY <2>1, Zenon DEF Joined
<1> HIDE DEF K
<1>7. Tiles(K) /\ h \in K.blocks /\ NEXT_BLOCK(K, h) = hi
  BY <1>1, <1>6, RefitTiles, Zenon
<1>8. /\ h \in Addr /\ n \in Addr /\ hi \in Addr /\ h \in Nat /\ n \in Nat /\ hi \in Nat
      /\ h < n /\ n < hi /\ h \in Ends(H) /\ Outside(H, K, h, hi) /\ BLK_SIZE(K, h) = hi - h
      /\ \A b \in H.blocks : b \in Nat /\ (b <= h \/ n <= b) /\ (b <= n \/ hi <= b)
  <2>1. /\ h \in Addr /\ n \in Addr /\ hi \in Addr /\ h \in Ends(H)
        /\ h + OVERHEAD <= n /\ n + OVERHEAD <= hi
        /\ \A b \in H.blocks : b \in Addr /\ (b <= h \/ n <= b) /\ (b <= n \/ hi <= b)
    BY <1>1, <1>2, <1>4, Apart, ZenonT(60) DEF Ends
  <2>2. Outside(H, K, h, hi) /\ BLK_SIZE(K, h) = hi - h
    BY <1>6, Zenon DEF Refit
  <2>3. h \in Nat /\ n \in Nat /\ hi \in Nat /\ \A b \in H.blocks : b \in Nat
    BY <2>1, AddrFacts, ZenonT(60)
  <2>4. h < n /\ n < hi
    <3> HIDE DEF n, hi
    <3> QED BY <2>1, <2>3, Constants, SMTT(60)
  <2> QED BY <2>1, <2>2, <2>3, <2>4, ZenonT(60)
<1>9. USABLE(K, h) >= size
  <2>1. n = h + BLK_SIZE(H, h) /\ hi = n + BLK_SIZE(H, n)
    BY <1>1, <1>2, <1>4, Apart, ZenonT(60)
  <2>2. BLK_SIZE(H, h) \in Int /\ BLK_SIZE(H, n) \in Int
    BY <1>1, <1>8, TypeFacts, ZenonT(60)
  <2> HIDE DEF hi, n
  <2> QED BY <2>1, <2>2, <1>3, <1>8, Constants, SMTT(60) DEF USABLE
<1>10. ASSUME NEW b \in H.blocks, b # h, b # n
       PROVE  /\ b < h \/ hi <= b
              /\ b \in K.blocks /\ NEXT_BLOCK(K, b) = NEXT_BLOCK(H, b)
              /\ (IS_ALLOC(K, b) <=> IS_ALLOC(H, b))
              /\ \A m : Payload(H, b, m) => Payload(K, b, m)
  <2> HIDE DEF hi, n
  <2>1. b < h \/ hi <= b
    BY <1>8, <1>10
  <2>2. b \in K.blocks
    BY <1>6, <1>10, Zenon
  <2>3. h < hi
    BY <1>8
  <2> QED BY <2>1, <2>2, <2>3, <1>1, <1>8, Elsewhere, ZenonT(60)
<1>11. IS_ALLOC(H, h) /\ ~IS_ALLOC(H, n) /\ IS_ALLOC(K, h)
  BY <1>2, <1>4, <1>6, Zenon DEF Free, Held
<1>12. Free(K) = Free(H) \ {n} /\ Held(K) = Held(H)
  BY <1>6, <1>10, <1>11 DEF Free, Held
<1>13. Listed(K, {})
  BY <1>1, <1>5, <1>6, <1>12, Zenon DEF Listed
<1>14. Owned(K, M) /\ M[ptr] = size /\ \A b \in Held(H) : b # h => M[b + HDR_SIZE] = L[b + HDR_SIZE]
  <2>1. DOMAIN M = DOMAIN L /\ M[ptr] = size /\ \A p \in DOMAIN L : p # ptr => M[p] = L[p]
    BY ZenonT(60)
  <2> HIDE DEF M
  <2>2. \A b \in Held(H) : b # h => b + HDR_SIZE \in DOMAIN L /\ b + HDR_SIZE # ptr
    <3> TAKE b \in Held(H)
    <3> QED BY <1>2, <1>1, <1>8, Constants, SMTT(60) DEF Owned, Held
  <2> QED BY <2>1, <2>2, <1>1, <1>12, Zenon DEF Owned
<1> HIDE DEF M
<1>15. ASSUME NEW b \in Held(K), b # h PROVE Payload(K, b, M[b + HDR_SIZE])
  BY <1>10, <1>14, <1>15, <1>1, <1>11, <1>12, ZenonT(60) DEF Held, Payloads
<1>16. Released(K, e)
  <2>1. CASE e = NULL
    BY <2>1, Zenon DEF Released
  <2>2. CASE e # NULL
    <3> DEFINE g == f - HDR_SIZE
    <3>1. f # NULL /\ e = f /\ g \notin h .. hi - 1
      BY <2>2, Zenon DEF Unless
    <3>2. g \in Addr /\ ~IS_ALLOC(H, g)
      BY <1>1, <3>1, ZenonT(60) DEF Released
    <3>3. PICK b \in Free(H) : b <= g /\ g < NEXT_BLOCK(H, b)
      BY <1>1, <3>1, ZenonT(60) DEF Released
    <3> HIDE DEF g, e
    <3>5. g # h /\ b # h /\ b # n
      <4>2. ASSUME b = n PROVE FALSE
        <5>1. n <= g /\ g < hi
          BY <4>2, <3>3, ZenonT(60)
        <5>2. g \in Nat
          BY <3>2, AddrFacts, ZenonT(60)
        <5> HIDE DEF n, hi
        <5>3. g \in h .. hi - 1
          BY <5>1, <5>2, <1>8, SMTT(60)
        <5> QED BY <5>3, <3>1, ZenonT(60)
      <4>3. g # h
        <5> HIDE DEF n, hi
        <5>1. h \in h .. hi - 1
          BY <1>8, SMTT(60)
        <5> QED BY <5>1, <3>1, ZenonT(60)
      <4> QED BY <4>2, <4>3, <1>11, ZenonT(60) DEF Free
    <3> QED BY <3>1, <3>2, <3>3, <3>5, <1>10, <1>6, ZenonT(60) DEF Released, g, Free, IS_ALLOC
  <2> QED BY <2>1, <2>2, ZenonT(60)
<1>17. h \in Held(K) /\ USABLE(K, h) >= M[h + HDR_SIZE]
  BY <1>2, <1>9, <1>12, <1>14, ZenonT(60)
<1>18. Almost(K, {}, h, M, e) /\ e = Unless(f, h, NEXT_BLOCK(K, h))
  <2>1. e = Unless(f, h, NEXT_BLOCK(K, h))
    BY <1>7, Zenon
  <2> HIDE DEF e
  <2> QED BY <2>1, <1>7, <1>13, <1>14, <1>15, <1>16, <1>17, ZenonT(60) DEF Almost
<1> QED BY <1>18, Zenon DEF K, F, M, h

\* StillFreed is Unless about the block that was handed out.
LEMMA StillFreedIs ==
    ASSUME NEW H, NEW ptr, ptr # NULL
    PROVE  StillFreed(H, ptr) = Unless(freed, ptr - HDR_SIZE, NEXT_BLOCK(H, ptr - HDR_SIZE))
  BY Zenon DEF StillFreed, Unless

\* Before kmalloc_init the heap is empty.
LEMMA InitSound == Init => IInv
<1> SUFFICES ASSUME Init PROVE IInv
  BY Zenon
<1>1. /\ heap.hdr = [a \in Addr |-> Unmapped] /\ heap.ftr = [a \in Addr |-> Unmapped]
      /\ heap.fl = <<>> /\ heap.curr = HEAP_BASE /\ heap.blocks = {}
      /\ status = "boot" /\ live = [p \in {} |-> 0] /\ freed = NULL
  BY Zenon DEF Init
<1>2. HEAP_BASE \in Addr /\ HEAP_BASE % PAGE_SIZE = 0
  <2>2. HEAP_BASE % ALIGNMENT = 0
    BY PageIsAligned, HeapAssumption, ZenonT(60)
  <2>3. HEAP_BASE <= HEAP_LIMIT
    <3> DEFINE x == PAGE_SIZE * InitPages
    <3> HIDE DEF x
    <3> QED BY Constants, SMTT(60)
  <2> QED BY <2>2, HeapAssumption, SMTT(60) DEF Addr
<1>3. heap \in HeapType
  <2> HIDE DEF Unmapped
  <2> QED BY <1>2, SMTT(60) DEF HeapType, Init, Unmapped, Tag, TagSet
<1>6. Listed(heap, {})
  BY <1>1, SMTT(60) DEF Listed, Distinct, Members, Free, Held
<1>7. Owned(heap, live) /\ Payloads(heap, live) /\ Released(heap, freed)
  BY <1>1, ZenonT(60) DEF Owned, Payloads, Released, Free, Held
<1> QED BY <1>1, <1>6, <1>7, <1>2, <1>3, ZenonT(60) DEF IInv, Sound, Tiles, Ends

\* A call that leaves a sound heap keeps the invariant.
LEMMA Settled ==
    ASSUME Sound(heap', {}, live', freed'), HEAP_BASE \in heap'.blocks, status' # "boot"
    PROVE  IInv'
  BY Zenon DEF IInv

\* kmalloc_init maps the first pages as one free block.
LEMMA InitStep == ASSUME IInv, kmalloc_init PROVE IInv'
<1> DEFINE B == [heap EXCEPT !.curr = HEAP_BASE, !.fl = <<>>]
           bytes == InitPages * PAGE_SIZE
           G == heap_map_more(B, bytes)
<1>1. Sound(heap, {}, live, freed) /\ heap.curr = HEAP_BASE /\ heap.fl = <<>> /\ status' = "up"
  BY Zenon DEF IInv, kmalloc_init
<1>2. heap' = Forget(G, NULL) /\ live' = live /\ freed' = freed
  BY Zenon DEF kmalloc_init
<1>3. B = heap
  BY <1>1, Zenon DEF HeapType, Sound, Tiles
<1> HIDE DEF B
<1>4. Sound(G, {}, live, freed) /\ HEAP_BASE \in G.blocks
  <2>1. CanGrow(heap, bytes) /\ bytes \in Nat
    BY <1>1, InitFits, Zenon
  <2> HIDE DEF bytes
  <2> QED BY <2>1, <1>1, <1>3, GrowSound, ZenonT(60)
<1> HIDE DEF G
<1> QED BY <1>1, <1>2, <1>4, Settled, ForgetSound, SMTT(60) DEF Sound, Released, Listed, Members

\* A panic leaves everything as it was.
LEMMA HaltStep ==
    ASSUME IInv, status = "up", Halt
    PROVE  IInv'
<1> QED BY Settled, Zenon DEF IInv, Halt

\* kmalloc, from the search to the return.
LEMMA MallocStep ==
    ASSUME SizesFit, IInv, NEW size \in Requests, kmalloc(size)
    PROVE  IInv'
<1> DEFINE r == Allocate(heap, size)
<1>3. CASE size = 0
  BY <1>3, Zenon DEF kmalloc, vars, IInv
<1>4. CASE size # 0 /\ ~CanServe(heap, size)
  BY <1>4, HaltStep, ZenonT(60) DEF kmalloc
<1>5. CASE size # 0 /\ CanServe(heap, size)
  <2>1. /\ freed' = StillFreed(r.heap, r.ptr) /\ heap' = Forget(r.heap, freed')
        /\ live' = (IF r.ptr = NULL THEN live ELSE With(live, r.ptr, size)) /\ status' = "up"
    BY <1>5, ZenonT(60) DEF kmalloc, With
  <2>2. Served(r, live, freed, size)
    BY <1>5, AllocateSound, HeapAssumption, SMTT(60) DEF SizesFit, IInv, kmalloc
  <2> HIDE DEF r
  <2>3. Sound(r.heap, {}, live', freed') /\ HEAP_BASE \in r.heap.blocks
    <3>1. CASE r.ptr = NULL
      BY <3>1, <2>2, <2>1, ZenonT(60) DEF Served, StillFreed
    <3>2. CASE r.ptr # NULL
      BY <3>2, <2>2, <2>1, StillFreedIs, ZenonT(60) DEF Served
    <3> QED BY <3>1, <3>2, Zenon
  <2> QED BY <2>1, <2>3, Settled, ForgetSound, ZenonT(60)
<1> QED BY <1>3, <1>4, <1>5, ZenonT(60)

\* kfree of a pointer that is held, or that was released before.
LEMMA FreeStep ==
    ASSUME IInv, NEW ptr \in DOMAIN live \cup ({freed} \ {NULL}), kfree(ptr)
    PROVE  IInv'
<1>1. Sound(heap, {}, live, freed) /\ HEAP_BASE \in heap.blocks /\ status = "up"
  BY Zenon DEF IInv, kfree
<1>2. CASE ~IS_ALLOC(heap, ptr - HDR_SIZE)
  BY <1>2, HaltStep, Zenon DEF kfree
<1>3. CASE IS_ALLOC(heap, ptr - HDR_SIZE)
  <2> DEFINE R == Release(heap, ptr)
  <2>1. /\ heap' = Forget(R, ptr) /\ live' = Without(live, ptr) /\ freed' = ptr
        /\ status' = status
    BY <1>3, Zenon DEF kfree
  <2>3. Sound(R, {}, live', ptr) /\ HEAP_BASE \in R.blocks
    BY <2>1, <1>1, <1>3, ReleaseSound, ZenonT(60) DEF Sound, Released
  <2> HIDE DEF R
  <2> QED BY <1>1, <2>1, <2>3, Settled, ForgetSound, ZenonT(60)
<1> QED BY <1>2, <1>3, Zenon

\* krealloc: in the block itself, in the block and its neighbour, or by a move.
LEMMA ReallocStep ==
    ASSUME SizesFit, IInv, NEW ptr \in DOMAIN live, NEW size \in Requests, krealloc(ptr, size)
    PROVE  IInv'
<1> DEFINE h == ptr - HDR_SIZE
           n == NEXT_BLOCK(heap, h)
           K == Merge(fl_remove(heap, n), h, n)
           S == Scribble(K, h)
           r == Allocate(heap, size)
           M == [live EXCEPT ![ptr] = size]
<1>1. /\ Sound(heap, {}, live, freed) /\ HEAP_BASE \in heap.blocks /\ status = "up"
  BY ZenonT(60) DEF IInv, krealloc
<1>3. h \in Held(heap) /\ h + HDR_SIZE = ptr /\ ptr \in Nat /\ ptr # NULL
  BY <1>1, Constants, HolderIs, AddrFacts, Apart, SMTT(60) DEF Sound, Held
<1>4. CASE USABLE(heap, h) >= size
  <2>1. live' = M /\ heap' = heap /\ freed' = freed /\ status' = status
    BY <1>4, Zenon DEF krealloc
  <2>2. Owned(heap, M) /\ Payloads(heap, M)
    <3>1. Owned(heap, live) /\ Payloads(heap, live) /\ Tiles(heap)
      BY <1>1, Zenon DEF Sound
    <3>2. DOMAIN M = DOMAIN live /\ M[ptr] = size /\ \A p \in DOMAIN live : p # ptr => M[p] = live[p]
      BY Zenon
    <3> HIDE DEF M
    <3>4. ASSUME NEW b \in Held(heap) PROVE Payload(heap, b, M[b + HDR_SIZE])
      <4>2. CASE b = h
        BY <4>2, <1>4, <3>2, <1>3, <3>1, ZenonT(60) DEF Payload, Payloads
      <4>3. CASE b # h
        <5>4. b + HDR_SIZE # ptr
          <6> HIDE DEF h
          <6> QED BY <4>3, <1>3, <3>1, Constants, AddrFacts, Apart, SMTT(60) DEF Held
        <5> QED BY <5>4, <3>2, <3>1, ZenonT(60) DEF Owned, Payloads
      <4> QED BY <4>2, <4>3, Zenon
    <3> QED BY <3>4, <3>1, <3>2, ZenonT(60) DEF Payloads, Owned
  <2> HIDE DEF M
  <2> QED BY <2>1, <1>1, <2>2, Settled, ZenonT(60) DEF Sound
<1>5. CASE ~(USABLE(heap, h) >= size) /\ FitsInPlace(heap, h, size)
  <2> DEFINE e == Unless(freed, h, NEXT_BLOCK(K, h))
  <2>1. /\ freed' = StillFreed(S, ptr) /\ heap' = Forget(S, freed') /\ live' = M
        /\ status' = status
    BY <1>5, ZenonT(60) DEF krealloc
  <2>2. Almost(K, {}, h, M, e)
    BY <1>1, <1>5, InPlaceSound, HeapAssumption, SMTT(60) DEF SizesFit
  <2> HIDE DEF K, M
  <2>3. Sound(S, {}, M, e) /\ S.blocks = K.blocks /\ NEXT_BLOCK(S, h) = NEXT_BLOCK(K, h)
    BY <2>2, ScribbleSound, Zenon
  <2>4. HEAP_BASE \in S.blocks
    BY <2>3, <2>2, Based, Zenon DEF Almost, Held
  <2>5. freed' = e
    BY <2>1, <2>3, <1>3, StillFreedIs, ZenonT(60)
  <2> HIDE DEF S, e
  <2> QED BY <2>1, <2>4, <1>1, <2>3, <2>5, Settled, ForgetSound, ZenonT(60)
<1>6. CASE ~(USABLE(heap, h) >= size) /\ ~FitsInPlace(heap, h, size) /\ ~CanServe(heap, size)
  BY <1>6, HaltStep, Zenon DEF krealloc
<1>7. CASE ~(USABLE(heap, h) >= size) /\ ~FitsInPlace(heap, h, size) /\ CanServe(heap, size)
  <2> DEFINE q == r.ptr
             W == With(live, q, size)
             R == Release(r.heap, ptr)
  <2>1. Served(r, live, freed, size)
    BY <1>1, <1>7, AllocateSound, HeapAssumption, SMTT(60) DEF SizesFit
  <2>2. CASE q = NULL
    <3>1. heap' = Forget(r.heap, freed) /\ status' = status /\ live' = live /\ freed' = freed
      BY <1>7, <2>2, Zenon DEF krealloc
    <3> HIDE DEF r
    <3> QED BY <3>1, <1>1, <2>1, <2>2, Settled, ForgetSound, ZenonT(60) DEF Served
  <2>3. CASE q # NULL
    <3>1. /\ heap' = Forget(R, ptr) /\ freed' = ptr /\ status' = status
          /\ live' = [p \in (DOMAIN live \ {ptr}) \cup {q} |-> IF p = q THEN size ELSE live[p]]
      BY <1>7, <2>3, Zenon DEF krealloc
    <3> HIDE DEF r
    <3>2. q \notin DOMAIN live /\ Sound(r.heap, {}, W, Unless(freed, q - HDR_SIZE, NEXT_BLOCK(r.heap, q - HDR_SIZE)))
      BY <2>1, <2>3, Zenon DEF Served
    <3> HIDE DEF q
    <3>3. DOMAIN W = DOMAIN live \cup {q} /\ \A p \in DOMAIN W : W[p] = IF p = q THEN size ELSE live[p]
      BY ZenonT(60) DEF With
    <3> HIDE DEF W
    <3>6. Sound(R, {}, live', ptr) /\ HEAP_BASE \in R.blocks
      BY <3>2, <3>3, <3>1, ReleaseSound, SMTT(60) DEF Without
    <3> HIDE DEF R
    <3> QED BY <3>1, <3>6, <1>1, Settled, ForgetSound, ZenonT(60)
  <2> QED BY <2>2, <2>3, ZenonT(60)
<1> QED BY <1>4, <1>5, <1>6, <1>7, ZenonT(60)

-----------------------------------------------------------------------------
(* The theorems.                                                           *)

\* Every call of kmalloc, kfree and krealloc leaves the heap sound: the tags tile
\* the window, the list holds the free blocks, the callers hold the others.
THEOREM Inductive == SizesFit => (Spec => []IInv)
<1> SUFFICES ASSUME SizesFit PROVE Spec => []IInv
  BY Zenon
<1>1. Init => IInv
  BY InitSound, Zenon
<1>2. IInv /\ [Next]_vars => IInv'
  <2> SUFFICES ASSUME IInv, [Next]_vars PROVE IInv'
    BY Zenon
  <2>1. CASE kmalloc_init
    BY <2>1, InitStep, Zenon
  <2>2. CASE \E size \in Requests : kmalloc(size) \/ out_of_frames(size)
    <3>1. PICK size \in Requests : kmalloc(size) \/ out_of_frames(size)
      BY <2>2, Zenon
    <3>2. CASE kmalloc(size)
      BY <3>2, MallocStep, Zenon
    <3>3. CASE out_of_frames(size)
      BY <3>3, HaltStep, Zenon DEF out_of_frames
    <3> QED BY <3>1, <3>2, <3>3, Zenon
  <2>3. CASE \E ptr \in DOMAIN live \cup ({freed} \ {NULL}) : kfree(ptr)
    BY <2>3, FreeStep, Zenon
  <2>4. CASE \E ptr \in DOMAIN live, size \in Requests : krealloc(ptr, size)
    BY <2>4, ReallocStep, Zenon
  <2>5. CASE UNCHANGED vars
    BY <2>5, Zenon DEF IInv, vars
  <2> QED BY <2>1, <2>2, <2>3, <2>4, <2>5, ZenonT(60) DEF Next
<1> QED BY <1>1, <1>2, PTL DEF Spec

\* The blocks of kmalloc.c tile the mapped heap and every footer mirrors its
\* header, for any window, page size and sequence of calls.
THEOREM HeapIsTiled == SizesFit => (Spec => []BlocksTileHeap)
<1> SUFFICES ASSUME SizesFit PROVE Spec => []BlocksTileHeap
  BY Zenon
<1>1. IInv => BlocksTileHeap
  <2> SUFFICES ASSUME IInv, status = "up" PROVE BlocksTileHeap
    BY Zenon DEF BlocksTileHeap
  <2>1. Tiles(heap) /\ HEAP_BASE \in heap.blocks
    BY ZenonT(60) DEF IInv, Sound
  <2>2. ASSUME NEW h \in heap.blocks
        PROVE  /\ BLK_SIZE(heap, h) >= OVERHEAD
               /\ NEXT_BLOCK(heap, h) = heap.curr \/ NEXT_BLOCK(heap, h) \in heap.blocks
               /\ heap.blocks \cap (h + 1 .. NEXT_BLOCK(heap, h) - 1) = {}
               /\ heap.ftr[NEXT_BLOCK(heap, h)] = heap.hdr[h]
    <3> DEFINE n == NEXT_BLOCK(heap, h)
    <3> HIDE DEF n
    <3> QED BY <2>1, AddrFacts, Apart, SMTT(60) DEF Block, Ends, n, Tiles
  <2> QED BY <2>1, <2>2, Zenon DEF BlocksTileHeap
<1> QED BY <1>1, Inductive, PTL

\* A block is on the free list of kmalloc.c once, or held by one caller: splits,
\* merges and moves neither leak a block nor give it a second owner.
THEOREM OneOwner == SizesFit => (Spec => []BlocksHaveOneOwner)
<1> SUFFICES ASSUME SizesFit PROVE Spec => []BlocksHaveOneOwner
  BY Zenon
<1>1. IInv => BlocksHaveOneOwner
  <2> SUFFICES ASSUME IInv PROVE BlocksHaveOneOwner
    BY Zenon
  <2>1. Tiles(heap) /\ Listed(heap, {}) /\ Owned(heap, live)
    BY Zenon DEF IInv, Sound
  <2>2. {p - HDR_SIZE : p \in DOMAIN live} = Held(heap)
    <3>1. ASSUME NEW p \in DOMAIN live PROVE p - HDR_SIZE \in Held(heap)
      BY <2>1, HolderIs, ZenonT(60)
    <3>2. ASSUME NEW h \in Held(heap) PROVE \E p \in DOMAIN live : h = p - HDR_SIZE
      <4>3. h + HDR_SIZE \in DOMAIN live
        BY <2>1, ZenonT(60) DEF Owned
      <4> QED BY <4>3, <2>1, Constants, AddrFacts, Apart, SMTT(60) DEF Held
    <3> QED BY <3>1, <3>2, Zenon
  <2> QED BY <2>1, <2>2, Zenon DEF BlocksHaveOneOwner, Listed, Distinct, Members, Free, Held
<1> QED BY <1>1, Inductive, PTL

\* What kmalloc returned stays aligned, large enough and free of the heap's own
\* tags until it is released.
THEOREM HeldPayloads == SizesFit => (Spec => []HeldPayloadsAreSound)
<1> SUFFICES ASSUME SizesFit PROVE Spec => []HeldPayloadsAreSound
  BY Zenon
<1>1. IInv => HeldPayloadsAreSound
  <2> SUFFICES ASSUME IInv, NEW p \in DOMAIN live
               PROVE  /\ p % ALIGNMENT = 0 /\ USABLE(heap, p - HDR_SIZE) >= live[p]
                      /\ \A a \in Addr : p < a /\ a < NEXT_BLOCK(heap, p - HDR_SIZE) =>
                             heap.hdr[a] = Junk /\ heap.ftr[a] = Junk
    BY Zenon DEF HeldPayloadsAreSound
  <2> DEFINE h == p - HDR_SIZE
  <2>1. Tiles(heap) /\ Owned(heap, live) /\ Payloads(heap, live)
    BY Zenon DEF IInv, Sound
  <2>2. h \in Held(heap) /\ h + HDR_SIZE = p
    BY <2>1, HolderIs, Zenon
  <2>4. p % ALIGNMENT = 0
    <3> HIDE DEF h
    <3>3. PICK k \in Nat : h = 16 * k
      BY <2>1, <2>2, AddrFacts, Apart, SMTT(60) DEF Held
    <3> QED BY <3>3, <2>2, Constants, SMTT(60)
  <2> HIDE DEF h
  <2> QED BY <2>4, <2>2, <2>1, Zenon DEF h, Payload, Payloads
<1> QED BY <1>1, Inductive, PTL

\* kfree finds the header of a block that was released and not handed out since
\* unmarked, however often the block was merged or split: a second kfree panics.
THEOREM SecondFreeIsNoticed == SizesFit => (Spec => []DoubleFreeNoticed)
<1> SUFFICES ASSUME SizesFit PROVE Spec => []DoubleFreeNoticed
  BY Zenon
<1>1. IInv => DoubleFreeNoticed
  BY Zenon DEF IInv, Sound, Released, DoubleFreeNoticed
<1> QED BY <1>1, Inductive, PTL

=============================================================================
