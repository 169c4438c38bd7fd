-------------------------- MODULE MCFrameAllocator --------------------------
(* Memory maps small enough for TLC, in pages of two bytes. *)
EXTENDS FrameAllocator

Entry(b, n, u) == [base |-> b, length |-> n, usable |-> u]
Span(b, e) == [base |-> b, end |-> e]

\* Page 0 reserved, low memory, the kernel image, high memory, one module.
Usual == [memmap  |-> << Entry(0, 2, FALSE), Entry(2, 12, TRUE), Entry(14, 4, FALSE),
                         Entry(18, 6, TRUE), Entry(24, 2, FALSE) >>,
          kernel  |-> Span(14, 18),
          modules |-> << Span(24, 26) >>]

\* Entries that are not page aligned, a kernel and a module that overlap
\* usable memory, and a module given by an address beyond physical memory.
Ragged == [memmap  |-> << Entry(1, 4, TRUE), Entry(5, 2, FALSE), Entry(7, 14, TRUE) >>,
           kernel  |-> Span(3, 5),
           modules |-> << Span(17, 18), Span(60, 64) >>]

\* The largest region lies above 4 GiB: the early allocator takes the low one.
High == [memmap  |-> << Entry(2, 6, TRUE), Entry(14, 10, TRUE) >>,
         kernel  |-> Span(8, 12), modules |-> << >>]

\* Everything usable lies above 4 GiB, and the bitmaps take two pages each.
AllHigh == [memmap  |-> << Entry(2, 2, FALSE), Entry(24, 14, TRUE) >>,
            kernel  |-> Span(2, 4), modules |-> << >>]

\* No room for the bitmaps, only page 0, and nothing usable at all.
Tiny  == [memmap |-> << Entry(2, 2, TRUE) >>, kernel |-> Span(0, 0), modules |-> << >>]
Page0 == [memmap |-> << Entry(0, 8, TRUE) >>, kernel |-> Span(8, 9), modules |-> << >>]
Empty == [memmap |-> << Entry(2, 1, TRUE) >>, kernel |-> Span(0, 1), modules |-> << >>]

MCBootInfos == {Usual, Ragged, High, AllHigh, Tiny, Page0, Empty}
MCAddresses == 0 .. 40
=============================================================================
