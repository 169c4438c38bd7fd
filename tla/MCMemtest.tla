----------------------------- MODULE MCMemtest -----------------------------
(* The suite on pages of 128 bytes and four slots.  The numbers drawn free,  *)
(* reallocate and verify; the smaller pools stop the suite for want of       *)
(* frames before it starts, and while the heap grows.                        *)
EXTENDS Memtest

MCBasicSizes == << 1, 15, 16, 17, 90 >>
MCReallocSizes == << 10, 20, 100, 30 >>
MCAdjacentSizes == << 40, 120, 100 >>
=============================================================================
