------------------------------- MODULE MCRtc --------------------------------
(***************************************************************************)
(* Calls of read_rtc that begin shortly before every hour of a day, every  *)
(* end of a month (and of February 28th) in ordinary, leap and century     *)
(* years, and the last second of the century that two digits can tell.     *)
(***************************************************************************)
EXTENDS Rtc

Hours == {<<58, 59, h, 9, 8, 2031>> : h \in 0 .. 23}
MonthEnds ==
    {<<59, 59, 23, DaysIn(y, m), m, y>> : y \in {2026, 2028, 2099, 2100}, m \in 1 .. 12}
February == {<<59, 59, 23, 28, 2, y>> : y \in {2028, 2100, 2124}}
EveryBoundary == Hours \cup MonthEnds \cup February \cup {<<58, 59, 23, 31, 12, 2124>>}
=============================================================================
