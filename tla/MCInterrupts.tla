---------------------------- MODULE MCInterrupts ----------------------------
(* The PIT, the keyboard, a line of the slave (the RTC), and the last line    *)
(* of the master.                                                             *)
EXTENDS Interrupts
=============================================================================
