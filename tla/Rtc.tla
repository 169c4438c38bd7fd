-------------------------------- MODULE Rtc ---------------------------------
(***************************************************************************)
(* read_rtc and dayofweek (src/time.c) against a clock chip that keeps     *)
(* running.  Six registers are read one by one, twice or more, until two   *)
(* passes agree; then the digits, the hour and the year are converted.     *)
(*                                                                         *)
(* The chip is external: it holds the true time in binary or BCD, with a   *)
(* 12-hour or a 24-hour clock, and two digits of the year (there is no     *)
(* century register: century_register is 0).  It raises its update flag,   *)
(* advances all registers at once, and clears the flag.  The reader may be *)
(* delayed between any two reads, by the flag or by interrupts, but a call *)
(* spans at most MaxTicks updates.                                         *)
(***************************************************************************)
EXTENDS Integers, Sequences, FiniteSets

CONSTANTS
    CURRENT_YEAR,
    Instants,      \* times, <<second, minute, hour, day, month, year>>, a call begins at
    TwelveHour,    \* the clock formats the chip may be in, a set of BOOLEANs
    MaxTicks

Reg == 1 .. 6

Leap(y) == (y % 4 = 0 /\ y % 100 # 0) \/ y % 400 = 0
DaysIn(y, m) == IF m = 2 THEN IF Leap(y) THEN 29 ELSE 28
                ELSE IF m \in {4, 6, 9, 11} THEN 30 ELSE 31

IsTime(t) ==
    /\ t \in [Reg -> Nat]
    /\ t[1] \in 0 .. 59 /\ t[2] \in 0 .. 59 /\ t[3] \in 0 .. 23
    /\ t[4] \in 1 .. DaysIn(t[6], t[5]) /\ t[5] \in 1 .. 12

\* Two digits tell a hundred years apart: the call ends before they are over.
ASSUME RtcAssumption ==
    /\ CURRENT_YEAR \in Nat /\ CURRENT_YEAR >= 2026 /\ TwelveHour \subseteq BOOLEAN
    /\ MaxTicks \in 0 .. 59
    /\ \A t \in Instants : IsTime(t) /\ t[6] \in CURRENT_YEAR .. CURRENT_YEAR + 98

VARIABLES
    bcd, twelve,    \* the chip's format (register B), which never changes
    time, updating, \* the chip: the true time, and the update flag
    seen,           \* ghost: the times the chip showed since the call began
    pc, reg,        \* read_rtc: "wait", "read" or "done"; the next register
    now, last       \* read_rtc: the fields being filled, and the last_ fields

chip == <<bcd, twelve, time, updating, seen>>
vars == <<chip, pc, reg, now, last>>

Init ==
    /\ bcd \in BOOLEAN /\ twelve \in TwelveHour
    /\ time \in Instants /\ updating = FALSE /\ seen = {time}
    /\ pc = "wait" /\ reg = 1 /\ now = [r \in Reg |-> 0] /\ last = <<>>

-----------------------------------------------------------------------------
(* The chip.                                                               *)

\* The first and last value of each field of a time.
First == <<0, 0, 0, 1, 1, 0>>
Final(t) == <<59, 59, 23, DaysIn(t[6], t[5]), 12>>

\* One second later: a field advances when all before it are at their last value.
Later(t) ==
    [r \in Reg |->
        IF \E k \in 1 .. r - 1 : t[k] # Final(t)[k] THEN t[r]
        ELSE IF r < 6 /\ t[r] = Final(t)[r] THEN First[r] ELSE t[r] + 1]

Pm == 128
Encode(n) == IF bcd THEN (n \div 10) * 16 + (n % 10) ELSE n

\* Noon and midnight are 12 on a 12-hour clock.
Register(r) ==
    IF r = 6 THEN Encode(time[6] % 100)
    ELSE IF r = 3 /\ twelve
    THEN Encode(IF time[3] % 12 = 0 THEN 12 ELSE time[3] % 12) + (IF time[3] >= 12 THEN Pm ELSE 0)
    ELSE Encode(time[r])

update_begins ==
    /\ ~updating /\ pc # "done" /\ Cardinality(seen) <= MaxTicks
    /\ updating' = TRUE
    /\ UNCHANGED <<bcd, twelve, time, seen, pc, reg, now, last>>

update_ends ==
    /\ updating
    /\ updating' = FALSE
    /\ time' = Later(time) /\ seen' = seen \cup {Later(time)}
    /\ UNCHANGED <<bcd, twelve, pc, reg, now, last>>

-----------------------------------------------------------------------------
(* read_rtc.                                                               *)

\* The BCD conversion, and the hour's, which keeps bit 7, the PM flag.
Decode(x) == IF bcd THEN (x % 16) + (x \div 16) * 10 ELSE x
DecodeHour(x) ==
    LET flag == IF x >= Pm THEN Pm ELSE 0
        h == Decode(x - flag) + flag
    IN  IF twelve /\ h >= Pm THEN ((h - Pm) + 12) % 24 ELSE h
FullYear(y) ==
    LET full == y + (CURRENT_YEAR \div 100) * 100
    IN  IF full < CURRENT_YEAR THEN full + 100 ELSE full

Converted(f) ==
    [r \in Reg |-> IF r = 3 THEN DecodeHour(f[3])
                   ELSE IF r = 6 THEN FullYear(Decode(f[6])) ELSE Decode(f[r])]

\* while (get_update_flag());
get_update_flag ==
    /\ pc = "wait" /\ ~updating
    /\ pc' = "read" /\ reg' = 1
    /\ UNCHANGED <<chip, now, last>>

\* The pass just read agrees with the one before it in every field.
\* Mutant: only the seconds are compared.
Agrees_on_seconds(f) == last # <<>> /\ last[1] = f[1]
Agrees(f) == last # <<>> /\ \A r \in Reg : last[r] = f[r]

\* Mutant: the last_ fields keep the first pass.
NextPass_keeps_first(f) == pc' = "wait" /\ last' = IF last = <<>> THEN f ELSE last
\* Another pass.
NextPass(f) == pc' = "wait" /\ last' = f

\* One register; after the last, another pass or the conversions.
get_RTC_register ==
    /\ pc = "read"
    /\ LET f == [now EXCEPT ![reg] = Register(reg)]
       IN  IF reg < 6 THEN now' = f /\ reg' = reg + 1 /\ UNCHANGED <<pc, last>>
           ELSE /\ reg' = 1
                /\ IF Agrees(f) THEN pc' = "done" /\ now' = Converted(f) /\ UNCHANGED last
                   ELSE NextPass(f) /\ now' = f
    /\ UNCHANGED chip

Next == update_begins \/ update_ends \/ get_update_flag \/ get_RTC_register

\* The chip finishes its updates; the reader keeps reading.
Spec ==
    /\ Init /\ [][Next]_vars
    /\ WF_vars(update_ends) /\ WF_vars(get_update_flag) /\ WF_vars(get_RTC_register)

-----------------------------------------------------------------------------
(* dayofweek, and the weekday by counting days (January 1st, 2026 was a    *)
(* Thursday, day 4).                                                       *)

dayofweek(y, m, d) ==
    LET t == <<0, 3, 2, 5, 0, 3, 5, 1, 4, 6, 2, 4>>
        z == IF m < 3 THEN y - 1 ELSE y
    IN  (z + z \div 4 - z \div 100 + z \div 400 + t[m] + d) % 7

Total(days, n) ==
    LET upto[i \in 0 .. n] == IF i = 0 THEN 0 ELSE upto[i - 1] + days[i]
    IN  upto[n]

Weekday(y, m, d) ==
    LET years == [i \in 1 .. y - 2026 |-> IF Leap(2025 + i) THEN 366 ELSE 365]
        months == [i \in 1 .. m - 1 |-> DaysIn(y, i)]
    IN  (4 + Total(years, y - 2026) + Total(months, m - 1) + (d - 1)) % 7

-----------------------------------------------------------------------------
(* Correctness.                                                            *)

\* time.h: "Read a stable calendar/time snapshot": what read_rtc leaves in second,
\* minute, hour, day, month and year is a time the chip showed during the call,
\* never parts of two times, whatever the encoding, across the ends of minutes,
\* hours, days, months, years and the century; and the weekday print_date adds
\* is the true one.  One exception: a 12-hour clock's noon and midnight are
\* stored as each other, since read_rtc adds 12 to every PM hour modulo 24.
ReadIsATime ==
    pc = "done" =>
        /\ \E t \in seen :
               now = [t EXCEPT ![3] = IF twelve /\ @ % 12 = 0 THEN (@ + 12) % 24 ELSE @]
        /\ dayofweek(now[6], now[5], now[4]) = Weekday(now[6], now[5], now[4])

\* read_rtc returns: it neither hangs on the update flag nor loops for ever.
ReadReturns == <>(pc = "done")
=============================================================================
