------------------------------ MODULE MCInput ------------------------------
(* Two letters ("h" halts, "s" creates a process), Backspace, Enter, a key   *)
(* without a character (Shift) and a break code.  A buffer of two characters *)
(* grows, and a ring of three slots wraps and fills, within MaxKeys keys.    *)
EXTENDS Input

Letters == {"h", "s"}
Halting == {<<"h">>}
Soaking == <<"s">>
MakeCodes == Letters \cup {"back", "enter", "shift"}
BreakCodes == {"release"}
Chars == Letters \cup {"backspace", "newline", "plus", "nul"}
MapTable == [k \in MakeCodes |-> IF k \in Letters THEN k
                                 ELSE IF k = "back" THEN "backspace" ELSE "nul"]
=============================================================================
