---------------------------- MODULE MCKernelHeap ----------------------------
(* A window of four pages of 128 bytes mapped one at a time; payloads for     *)
(* the smallest block, and one that needs two pages.                         *)
EXTENDS KernelHeap
=============================================================================
