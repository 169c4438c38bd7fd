----------------------------- MODULE Rtc_proofs -----------------------------
(***************************************************************************)
(* What read_rtc returns is a time the chip showed, for every time a call  *)
(* may begin at, both encodings, both clocks, and calls of up to a minute. *)
(*                                                                         *)
(* The argument is about seconds.  The times of one call differ in their   *)
(* seconds, so two passes that agree in their first register read it at    *)
(* the same time.  Everything the first of them read lies in between, so   *)
(* that pass is whole, and the second equals it.                           *)
(***************************************************************************)
EXTENDS Rtc, ArithFacts, FiniteSetTheorems

-----------------------------------------------------------------------------
(* Encodings.                                                              *)

\* The two digits of a BCD byte.
LEMMA Digits ==
    ASSUME NEW n \in 0 .. 99
    PROVE  /\ (n \div 10) * 16 + (n % 10) \in 0 .. 153
           /\ ((n \div 10) * 16 + (n % 10)) % 16 = n % 10
           /\ ((n \div 10) * 16 + (n % 10)) \div 16 = n \div 10
           /\ n = (n % 10) + (n \div 10) * 10
  OBVIOUS

\* The conversion read_rtc applies undoes the chip's encoding.
LEMMA Decoded ==
    ASSUME NEW n \in 0 .. 99
    PROVE  Encode(n) \in 0 .. 153 /\ Decode(Encode(n)) = n
<1>1. CASE bcd
  BY <1>1, Digits, ZenonT(60) DEF Encode, Decode
<1>2. CASE ~bcd
  BY <1>2 DEF Encode, Decode
<1> QED BY <1>1, <1>2, Zenon

\* An hour's encoding leaves bit 7, the PM flag, alone.
LEMMA SmallCode ==
    ASSUME NEW n \in 0 .. 23
    PROVE  Encode(n) \in 0 .. 127
  BY DEF Encode

\* What register r holds at time t.
Code(t, r) ==
    IF r = 6 THEN Encode(t[6] % 100)
    ELSE IF r = 3 /\ twelve
    THEN Encode(IF t[3] % 12 = 0 THEN 12 ELSE t[3] % 12) + (IF t[3] >= 12 THEN Pm ELSE 0)
    ELSE Encode(t[r])

\* The time read_rtc stores for t: noon and midnight change places on a 12-hour
\* clock.
Stored(t) == [t EXCEPT ![3] = IF twelve /\ @ % 12 = 0 THEN (@ + 12) % 24 ELSE @]

\* The times that fit the two digits of the year.
Near(t) == IsTime(t) /\ t[6] \in CURRENT_YEAR .. CURRENT_YEAR + 99

\* DecodeHour gives back the hour that the chip encoded, in both of its hour
\* modes: midnight, coded 12 with the PM bit clear, is read as 12.
LEMMA HourDecoded ==
    ASSUME NEW t, IsTime(t)
    PROVE  DecodeHour(Code(t, 3)) = Stored(t)[3]
<1> DEFINE h == t[3]
           k == IF h % 12 = 0 THEN 12 ELSE h % 12
<1>1. h \in 0 .. 23 /\ k \in 1 .. 12 /\ Stored(t)[3] = IF twelve /\ h % 12 = 0 THEN (h + 12) % 24 ELSE h
  BY DEF IsTime, Stored, Reg
<1>2. CASE ~twelve
  <2> DEFINE x == Encode(h)
  <2>1. Code(t, 3) = x
    <3>1. 3 # 6
      OBVIOUS
    <3> QED BY <1>2, <3>1, Zenon DEF Code
  <2>2. x \in 0 .. 127 /\ Decode(x) = h
    <3>1. h \in 0 .. 23 /\ h \in 0 .. 99
      BY <1>1
    <3> HIDE DEF h
    <3> QED BY <3>1, SmallCode, Decoded, ZenonT(60)
  <2> HIDE DEF x
  <2>3. Decode(x - 0) = h
    BY <2>2
  <2>4. DecodeHour(x) = h
    BY <1>1, <1>2, <2>2, <2>3 DEF DecodeHour, Pm
  <2> QED BY <1>1, <1>2, <2>1, <2>4, Zenon
<1>3. CASE twelve
  <2> DEFINE x == Encode(k)
  <2>1. Code(t, 3) = x + (IF h >= 12 THEN Pm ELSE 0)
    <3>1. 3 # 6
      OBVIOUS
    <3> QED BY <1>3, <3>1, Zenon DEF Code
  <2>2. x \in 0 .. 127 /\ Decode(x) = k
    <3>1. k \in 0 .. 23 /\ k \in 0 .. 99
      BY <1>1
    <3> HIDE DEF k
    <3> QED BY <3>1, SmallCode, Decoded, ZenonT(60)
  <2> HIDE DEF x
  <2>3. CASE h < 12
    <3>1. Code(t, 3) = x /\ x - 0 = x
      BY <1>1, <2>1, <2>2, <2>3, SMTT(60)
    <3>2. DecodeHour(x) = k
      BY <1>1, <2>2, <2>3, <3>1, SMTT(60) DEF DecodeHour, Pm
    <3>3. k = IF h % 12 = 0 THEN (h + 12) % 24 ELSE h
      BY <1>1, <2>3, SMTT(60)
    <3> QED BY <1>1, <1>3, <3>1, <3>2, <3>3, Zenon
  <2>4. CASE h >= 12
    <3>1. Code(t, 3) = x + 128 /\ (x + 128) - 128 = x
      BY <1>1, <2>1, <2>2, <2>4, SMTT(60) DEF Pm
    <3>2. DecodeHour(x + 128) = (((k + 128) - 128) + 12) % 24
      BY <1>1, <1>3, <2>2, <3>1, SMTT(60) DEF DecodeHour, Pm
    <3>3. (((k + 128) - 128) + 12) % 24 = IF h % 12 = 0 THEN (h + 12) % 24 ELSE h
      BY <1>1, <2>4
    <3> QED BY <1>1, <1>3, <3>1, <3>2, <3>3, SMTT(60)
  <2> QED BY <1>1, <2>3, <2>4
<1> QED BY <1>2, <1>3, Zenon

\* FullYear finds the century of every year within 99 years of CURRENT_YEAR.
LEMMA YearDecoded ==
    ASSUME NEW y \in CURRENT_YEAR .. CURRENT_YEAR + 99
    PROVE  FullYear(Decode(Encode(y % 100))) = y
<1>1. y \in Nat /\ CURRENT_YEAR \in Nat /\ y % 100 \in 0 .. 99
  BY RtcAssumption
<1>2. Decode(Encode(y % 100)) = y % 100
  BY <1>1, Decoded, ZenonT(60)
<1>3. FullYear(y % 100) = y
  BY <1>1 DEF FullYear
<1> QED BY <1>2, <1>3, Zenon

\* The conversions turn the registers of one time into that time.
LEMMA WholePassConverts ==
    ASSUME NEW t, Near(t)
    PROVE  Converted([r \in Reg |-> Code(t, r)]) = Stored(t)
<1> DEFINE f == [r \in Reg |-> Code(t, r)]
<1>1. /\ t \in [Reg -> Nat] /\ t[1] \in 0 .. 99 /\ t[2] \in 0 .. 99
      /\ t[4] \in 0 .. 99 /\ t[5] \in 0 .. 99
  BY DEF Near, IsTime, DaysIn
<1>2. ASSUME NEW r \in {1, 2, 4, 5} PROVE Decode(f[r]) = t[r]
  <2>1. f[r] = Encode(t[r]) /\ t[r] \in 0 .. 99
    BY <1>1 DEF Code, Reg
  <2> QED BY <2>1, Decoded, Zenon
<1>3. DecodeHour(f[3]) = Stored(t)[3]
  BY HourDecoded DEF Near, Reg
<1>4. FullYear(Decode(f[6])) = t[6]
  <2>1. f[6] = Encode(t[6] % 100)
    BY DEF Code, Reg
  <2> QED BY <2>1, YearDecoded, Zenon DEF Near
<1>5. Stored(t) \in [Reg -> Nat] /\ \A r \in {1, 2, 4, 5, 6} : Stored(t)[r] = t[r]
  <2>1. t[3] \in Nat /\ (t[3] + 12) % 24 \in Nat
    BY DEF Near, IsTime
  <2> QED BY <1>1, <2>1, SMTT(60) DEF Stored, Reg
<1> HIDE DEF f
<1>6. ASSUME NEW r \in Reg PROVE Converted(f)[r] = Stored(t)[r]
  <2>1. r \in {1, 2, 4, 5} \/ r = 3 \/ r = 6
    BY DEF Reg
  <2> QED BY <1>2, <1>3, <1>4, <1>5, <2>1, Zenon DEF Converted
<1>7. Converted(f) = [r \in Reg |-> Converted(f)[r]] /\ Stored(t) = [r \in Reg |-> Stored(t)[r]]
  BY <1>5, Zenon DEF Converted
<1>8. Converted(f) = Stored(t)
  BY <1>6, <1>7, Zenon
<1> QED BY <1>8, Zenon DEF f


-----------------------------------------------------------------------------
(* The calendar.                                                           *)

\* One second later, field by field.
LEMMA LaterIs ==
    ASSUME NEW t, IsTime(t)
    PROVE  LET u == Later(t)
               d == t[1] = 59 /\ t[2] = 59 /\ t[3] = 23
               m == d /\ t[4] = DaysIn(t[6], t[5])
           IN  /\ u \in [Reg -> Nat]
               /\ u[1] = (IF t[1] = 59 THEN 0 ELSE t[1] + 1)
               /\ u[2] = (IF t[1] # 59 THEN t[2] ELSE IF t[2] = 59 THEN 0 ELSE t[2] + 1)
               /\ u[3] = (IF t[1] # 59 \/ t[2] # 59 THEN t[3] ELSE IF t[3] = 23 THEN 0 ELSE t[3] + 1)
               /\ u[4] = (IF ~d THEN t[4] ELSE IF m THEN 1 ELSE t[4] + 1)
               /\ u[5] = (IF ~m THEN t[5] ELSE IF t[5] = 12 THEN 1 ELSE t[5] + 1)
               /\ u[6] = (IF m /\ t[5] = 12 THEN t[6] + 1 ELSE t[6])
<1> DEFINE F == Final(t)
           D == DaysIn(t[6], t[5])
<1>1. F[1] = 59 /\ F[2] = 59 /\ F[3] = 23 /\ F[4] = D /\ F[5] = 12
  BY Zenon DEF Final
<1>2. /\ First[1] = 0 /\ First[2] = 0 /\ First[3] = 0 /\ First[4] = 1
      /\ First[5] = 1 /\ First[6] = 0
  BY Zenon DEF First
<1>3. t \in [Reg -> Nat] /\ \A r \in Reg : t[r] \in Nat
  BY Zenon DEF IsTime
<1> DEFINE U(r) == IF \E k \in 1 .. r - 1 : t[k] # F[k] THEN t[r]
                   ELSE IF r < 6 /\ t[r] = F[r] THEN First[r] ELSE t[r] + 1
<1>4. Later(t) = [r \in Reg |-> U(r)]
  BY Zenon DEF Later
<1> HIDE DEF F, D
<1>5. U(1) = IF t[1] = 59 THEN 0 ELSE t[1] + 1
  BY <1>1, <1>2
<1>6. U(2) = IF t[1] # 59 THEN t[2] ELSE IF t[2] = 59 THEN 0 ELSE t[2] + 1
  <2>1. \A k \in 1 .. 2 - 1 : k = 1
    OBVIOUS
  <2> QED BY <1>1, <1>2, <2>1
<1>7. U(3) = IF t[1] # 59 \/ t[2] # 59 THEN t[3] ELSE IF t[3] = 23 THEN 0 ELSE t[3] + 1
  <2>1. \A k \in 1 .. 3 - 1 : k = 1 \/ k = 2
    OBVIOUS
  <2> QED BY <1>1, <1>2, <2>1
<1>8. U(4) = IF ~(t[1] = 59 /\ t[2] = 59 /\ t[3] = 23) THEN t[4] ELSE IF t[4] = D THEN 1 ELSE t[4] + 1
  <2>1. \A k \in 1 .. 4 - 1 : k = 1 \/ k = 2 \/ k = 3
    OBVIOUS
  <2> QED BY <1>1, <1>2, <2>1, SMTT(60)
<1>9. U(5) = IF ~(t[1] = 59 /\ t[2] = 59 /\ t[3] = 23 /\ t[4] = D) THEN t[5] ELSE IF t[5] = 12 THEN 1 ELSE t[5] + 1
  <2>1. \A k \in 1 .. 5 - 1 : k = 1 \/ k = 2 \/ k = 3 \/ k = 4
    OBVIOUS
  <2> QED BY <1>1, <1>2, <2>1, SMTT(60)
<1>10. U(6) = IF t[1] = 59 /\ t[2] = 59 /\ t[3] = 23 /\ t[4] = D /\ t[5] = 12 THEN t[6] + 1 ELSE t[6]
  <2>1. \A k \in 1 .. 6 - 1 : k = 1 \/ k = 2 \/ k = 3 \/ k = 4 \/ k = 5
    OBVIOUS
  <2> QED BY <1>1, <1>2, <2>1, SMTT(60)
<1>11. ASSUME NEW r \in Reg PROVE U(r) \in Nat
  <2>1. r \in {1, 2, 3, 4, 5, 6} /\ First[r] \in Nat /\ t[r] \in Nat
    BY <1>2, <1>3, SMTT(60) DEF Reg
  <2> QED BY <2>1
<1> HIDE DEF U
<1>12. /\ Later(t) \in [Reg -> Nat]
       /\ Later(t)[1] = U(1) /\ Later(t)[2] = U(2) /\ Later(t)[3] = U(3)
       /\ Later(t)[4] = U(4) /\ Later(t)[5] = U(5) /\ Later(t)[6] = U(6)
  BY <1>4, <1>11 DEF Reg
<1> QED BY <1>5, <1>6, <1>7, <1>8, <1>9, <1>10, <1>12, ZenonT(60) DEF D

\* A second after a time of the calendar is a time of the calendar.
LEMMA LaterIsTime ==
    ASSUME NEW t, IsTime(t)
    PROVE  IsTime(Later(t))
<1> DEFINE u == Later(t)
<1>1. /\ t[1] \in 0 .. 59 /\ t[2] \in 0 .. 59 /\ t[3] \in 0 .. 23 /\ t[6] \in Nat
      /\ t[4] \in 1 .. DaysIn(t[6], t[5]) /\ t[5] \in 1 .. 12
  BY DEF IsTime, Reg
<1>2. \A y, m : DaysIn(y, m) \in 28 .. 31
  BY SMTT(60) DEF DaysIn
<1>3. u \in [Reg -> Nat] /\ u[1] \in 0 .. 59 /\ u[2] \in 0 .. 59 /\ u[3] \in 0 .. 23
  BY <1>1, LaterIs, SMTT(60)
<1>4. u[5] \in 1 .. 12
  BY <1>1, LaterIs
<1>5. u[4] \in 1 .. DaysIn(u[6], u[5])
  <2>1. CASE t[1] = 59 /\ t[2] = 59 /\ t[3] = 23 /\ t[4] = DaysIn(t[6], t[5])
    <3>1. u[4] = 1
      BY <2>1, LaterIs, ZenonT(60)
    <3>2. DaysIn(u[6], u[5]) \in 28 .. 31
      BY <1>2, Zenon
    <3> QED BY <3>1, <3>2
  <2>2. CASE ~(t[1] = 59 /\ t[2] = 59 /\ t[3] = 23 /\ t[4] = DaysIn(t[6], t[5]))
    <3>1. u[6] = t[6] /\ u[5] = t[5]
      BY <2>2, LaterIs, ZenonT(60)
    <3>2. u[4] = t[4] \/ (u[4] = t[4] + 1 /\ t[4] # DaysIn(t[6], t[5]))
      BY <2>2, LaterIs
    <3>3. DaysIn(t[6], t[5]) \in 28 .. 31
      BY <1>2, Zenon
    <3> QED BY <1>1, <3>1, <3>2, <3>3, SMTT(60)
  <2> QED BY <2>1, <2>2, Zenon
<1> QED BY <1>3, <1>4, <1>5, ZenonT(60) DEF IsTime


-----------------------------------------------------------------------------
(* The weekday.                                                            *)

\* f gives the sum of the first i days.
Sums(days, n, f) == f = [i \in 0 .. n |-> IF i = 0 THEN 0 ELSE f[i - 1] + days[i]]

\* The sums that Total chooses exist, for every number of days: by induction.
LEMMA SumsExist ==
    ASSUME NEW days
    PROVE  \A n \in Nat : \E f : Sums(days, n, f)
<1> DEFINE Ok == {n \in Nat : \E f : Sums(days, n, f)}
<1>1. 0 \in Ok
  <2>1. Sums(days, 0, [i \in 0 .. 0 |-> 0])
    BY DEF Sums
  <2> QED BY <2>1, Zenon
<1>2. ASSUME NEW n \in Ok PROVE n + 1 \in Ok
  <2>1. n \in Nat /\ \E f : Sums(days, n, f)
    BY <1>2, Zenon
  <2>2. PICK f : Sums(days, n, f)
    BY <2>1, Zenon
  <2>3. \A i \in 0 .. n : f[i] = IF i = 0 THEN 0 ELSE f[i - 1] + days[i]
    BY <2>2, Zenon DEF Sums
  <2> DEFINE g == [i \in 0 .. n + 1 |-> IF i = n + 1 THEN f[n] + days[n + 1] ELSE f[i]]
  <2>4. ASSUME NEW i \in 0 .. n + 1
        PROVE  g[i] = IF i = 0 THEN 0 ELSE g[i - 1] + days[i]
    <3>1. CASE i = n + 1
      BY <2>1, <3>1
    <3>2. CASE i \in 0 .. n
      <4>1. g[i] = f[i] /\ (i # 0 => i - 1 \in 0 .. n + 1 /\ g[i - 1] = f[i - 1])
        BY <2>1, <3>2
      <4> QED BY <2>3, <3>2, <4>1, Zenon
    <3>3. i = n + 1 \/ i \in 0 .. n
      BY <2>1
    <3> QED BY <3>1, <3>2, <3>3, Zenon
  <2>5. Sums(days, n + 1, g)
    BY <2>4, Zenon DEF Sums
  <2> QED BY <2>1, <2>5
<1>3. Ok \in SUBSET Nat
  BY Zenon
<1> HIDE DEF Ok
<1>4. Ok = Nat
  BY <1>1, <1>2, <1>3, SetInduction, ZenonT(60)
<1> QED BY <1>4, Zenon DEF Ok

\* Total is the last of the partial sums, each a day more than the one before.
LEMMA TotalIs ==
    ASSUME NEW days, NEW n \in Nat
    PROVE  \E f : /\ Total(days, n) = f[n] /\ f[0] = 0
                  /\ \A i \in 1 .. n : f[i] = f[i - 1] + days[i]
<1> DEFINE f == CHOOSE upto : Sums(days, n, upto)
<1>1. Sums(days, n, f)
  BY SumsExist, Zenon
<1>2. Total(days, n) = f[n]
  BY Zenon DEF Total, Sums
<1> HIDE DEF f
<1>3. f[0] = 0 /\ \A i \in 1 .. n : f[i] = f[i - 1] + days[i]
  BY <1>1 DEF Sums
<1> QED BY <1>2, <1>3, Zenon

\* The days of the years before y, counted from the year 1.
Past(y) == 365 * (y - 1) + (y - 1) \div 4 - (y - 1) \div 100 + (y - 1) \div 400

\* A year adds its own days to Past: the leap days follow the three divisions.
LEMMA YearGrows ==
    ASSUME NEW y \in Nat, y >= 1
    PROVE  Past(y + 1) = Past(y) + (IF Leap(y) THEN 366 ELSE 365)
<1>1. y \div 4 = (y - 1) \div 4 + (IF y % 4 = 0 THEN 1 ELSE 0)
  OBVIOUS
<1>2. y \div 100 = (y - 1) \div 100 + (IF y % 100 = 0 THEN 1 ELSE 0)
  OBVIOUS
<1>3. y \div 400 = (y - 1) \div 400 + (IF y % 400 = 0 THEN 1 ELSE 0)
  OBVIOUS
<1>4. (y % 400 = 0 => y % 100 = 0) /\ (y % 100 = 0 => y % 4 = 0)
  OBVIOUS
<1>5. (y + 1) - 1 = y
  OBVIOUS
<1> QED BY <1>1, <1>2, <1>3, <1>4, <1>5, SMTT(60) DEF Past, Leap

\* The days of each year from 2026 up to y, and of each month before m.
YearDays(y) == [i \in 1 .. y - 2026 |-> IF Leap(2025 + i) THEN 366 ELSE 365]
MonthDays(y, m) == [i \in 1 .. m - 1 |-> DaysIn(y, i)]

\* The days of the years since 2026 in closed form, by induction over the years.
LEMMA YearsTotal ==
    ASSUME NEW y \in Nat, y >= 2026
    PROVE  Total(YearDays(y), y - 2026) = Past(y) - Past(2026)
<1> DEFINE n == y - 2026
           days == YearDays(y)
<1>1. n \in Nat
  OBVIOUS
<1>2. PICK f : /\ Total(days, n) = f[n] /\ f[0] = 0
               /\ \A i \in 1 .. n : f[i] = f[i - 1] + days[i]
  <2> HIDE DEF days, n
  <2> QED BY <1>1, TotalIs
<1>3. \A i \in Nat : Past(2026 + i) \in Int
  BY DEF Past
<1> DEFINE Ok == {i \in Nat : i <= n => f[i] = Past(2026 + i) - Past(2026)}
<1>4. 0 \in Ok
  <2>1. 2026 + 0 = 2026 /\ Past(2026) \in Int
    BY <1>3
  <2> QED BY <1>2, <2>1
<1>5. ASSUME NEW i \in Ok PROVE i + 1 \in Ok
  <2> SUFFICES ASSUME i + 1 <= n PROVE f[i + 1] = Past(2026 + (i + 1)) - Past(2026)
    OBVIOUS
  <2>1. i \in Nat /\ i + 1 \in 1 .. n /\ f[i] = Past(2026 + i) - Past(2026)
    BY <1>1
  <2>2. f[i + 1] = f[i] + (IF Leap(2026 + i) THEN 366 ELSE 365)
    <3>1. (i + 1) - 1 = i /\ 2025 + (i + 1) = 2026 + i
      BY <2>1
    <3> QED BY <1>2, <2>1, <3>1, SMTT(60) DEF YearDays
  <2>3. Past((2026 + i) + 1) = Past(2026 + i) + (IF Leap(2026 + i) THEN 366 ELSE 365)
    <3>1. 2026 + i \in Nat /\ 2026 + i >= 1
      BY <2>1
    <3> QED BY <3>1, YearGrows
  <2>4. (2026 + i) + 1 = 2026 + (i + 1)
    BY <2>1
  <2>5. Past(2026 + i) \in Int /\ Past(2026) \in Int
    <3>1. 2026 + 0 = 2026 /\ 0 \in Nat
      OBVIOUS
    <3> QED BY <1>3, <2>1, <3>1, SMTT(60)
  <2> QED BY <2>1, <2>2, <2>3, <2>4, <2>5, SMTT(60)
<1>6. Ok \in SUBSET Nat
  OBVIOUS
<1> HIDE DEF Ok
<1>7. n \in Ok
  BY <1>1, <1>4, <1>5, <1>6, SetInduction, SMTT(60)
<1>8. f[n] = Past(2026 + n) - Past(2026) /\ 2026 + n = y
  BY <1>1, <1>7 DEF Ok
<1> QED BY <1>2, <1>8

\* The days of the months before each month of an ordinary year.
Cumulative == <<0, 31, 59, 90, 120, 151, 181, 212, 243, 273, 304, 334>>

\* The days of the months before m.
LEMMA MonthsTotal ==
    ASSUME NEW y \in Nat, NEW m \in 1 .. 12
    PROVE  Total(MonthDays(y, m), m - 1)
               = Cumulative[m] + (IF m > 2 /\ Leap(y) THEN 1 ELSE 0)
<1> DEFINE n == m - 1
           days == MonthDays(y, m)
           leap == IF Leap(y) THEN 1 ELSE 0
<1>1. n \in 0 .. 11 /\ n \in Nat
  OBVIOUS
<1>2. PICK f : /\ Total(days, n) = f[n] /\ f[0] = 0
               /\ \A i \in 1 .. n : f[i] = f[i - 1] + days[i]
  <2> HIDE DEF days, n
  <2> QED BY <1>1, TotalIs, Zenon
<1>3. ASSUME NEW i \in 1 .. 11, i <= n
      PROVE  f[i] = f[i - 1] + DaysIn(y, i)
  BY <1>1, <1>2, <1>3, SMTT(60) DEF MonthDays
<1>4. \A i \in {1, 3, 5, 7, 8, 10, 12} : DaysIn(y, i) = 31
  BY DEF DaysIn
<1>5. \A i \in {4, 6, 9, 11} : DaysIn(y, i) = 30
  BY DEF DaysIn
<1>6. DaysIn(y, 2) = 28 + leap /\ leap \in {0, 1}
  BY DEF DaysIn
<1> HIDE DEF n, leap, days
<1>7. 1 <= n => f[1] = 31
  BY <1>2, <1>3, <1>4, SMTT(60)
<1>8. 2 <= n => f[2] = 59 + leap
  BY <1>1, <1>3, <1>6, <1>7, SMTT(60)
<1>9. 3 <= n => f[3] = 90 + leap
  BY <1>1, <1>3, <1>4, <1>6, <1>8, SMTT(60)
<1>10. 4 <= n => f[4] = 120 + leap
  BY <1>1, <1>3, <1>5, <1>6, <1>9, SMTT(60)
<1>11. 5 <= n => f[5] = 151 + leap
  BY <1>1, <1>3, <1>4, <1>6, <1>10, SMTT(60)
<1>12. 6 <= n => f[6] = 181 + leap
  BY <1>1, <1>3, <1>5, <1>6, <1>11, SMTT(60)
<1>13. 7 <= n => f[7] = 212 + leap
  BY <1>1, <1>3, <1>4, <1>6, <1>12, SMTT(60)
<1>14. 8 <= n => f[8] = 243 + leap
  BY <1>1, <1>3, <1>4, <1>6, <1>13, SMTT(60)
<1>15. 9 <= n => f[9] = 273 + leap
  BY <1>1, <1>3, <1>5, <1>6, <1>14, SMTT(60)
<1>16. 10 <= n => f[10] = 304 + leap
  BY <1>1, <1>3, <1>4, <1>6, <1>15, SMTT(60)
<1>17. 11 <= n => f[11] = 334 + leap
  BY <1>1, <1>3, <1>5, <1>6, <1>16, SMTT(60)
<1>18. f[n] = Cumulative[m] + (IF m > 2 /\ Leap(y) THEN 1 ELSE 0)
  <2>1. m = n + 1 /\ (leap = IF Leap(y) THEN 1 ELSE 0)
    BY DEF n, leap
  <2>2. n \in {0, 1, 2, 3, 4, 5, 6, 7, 8, 9, 10, 11}
    BY <1>1
  <2> QED BY <1>2, <1>6, <1>7, <1>8, <1>9, <1>10, <1>11, <1>12, <1>13, <1>14,
             <1>15, <1>16, <1>17, <2>1, <2>2, SMTT(60) DEF Cumulative
<1> QED BY <1>2, <1>18, Zenon DEF n, days


\* Whole weeks do not change the weekday.
LEMMA SameWeekday ==
    ASSUME NEW a \in Int, NEW b \in Int, NEW k \in Int, a = b + 7 * k
    PROVE  a % 7 = b % 7
  OBVIOUS

\* dayofweek's table against the days of the months before: it counts the year
\* from March, so that the leap day of a year is its last.
Table == <<0, 3, 2, 5, 0, 3, 5, 1, 4, 6, 2, 4>>

\* The two differ by weeks, and by the day that the count from March leaves out.
Apart(m, w) == Cumulative[m] = Table[m] + 7 * w + (IF m < 3 THEN 0 ELSE 1)

\* The two tables agree up to whole weeks in each of the twelve months.
LEMMA TablesAgree ==
    ASSUME NEW m \in 1 .. 12
    PROVE  /\ Table[m] \in Nat /\ Cumulative[m] \in Nat
           /\ \E w \in Nat : Apart(m, w)
<1>1. m \in {1, 2, 3, 4, 5, 6, 7, 8, 9, 10, 11, 12}
  OBVIOUS
<1>2. Table[m] \in Nat /\ Cumulative[m] \in Nat
  BY <1>1 DEF Table, Cumulative
<1> DEFINE v == <<0, 4, 8, 12, 17, 21, 25, 30, 34, 38, 43, 47>>
<1>3. v[m] \in Nat
  BY <1>1
<1>4. Apart(m, v[m])
  BY <1>1 DEF Table, Cumulative, Apart
<1> HIDE DEF v
<1> QED BY <1>2, <1>3, <1>4, Zenon

\* The formula of dayofweek gives the weekday that counting days gives, for every
\* date from 2026 on.
LEMMA WeekdayIsRight ==
    ASSUME NEW y \in Nat, y >= 2026, NEW m \in 1 .. 12, NEW d \in Nat
    PROVE  dayofweek(y, m, d) = Weekday(y, m, d)
<1> DEFINE T == Table[m]
           C == Cumulative[m]
           L(x) == x \div 4 - x \div 100 + x \div 400
           A == 4 + (Past(y) - Past(2026)) + (C + (IF m > 2 /\ Leap(y) THEN 1 ELSE 0)) + (d - 1)
           z == IF m < 3 THEN y - 1 ELSE y
           B == z + z \div 4 - z \div 100 + z \div 400 + T + d
<1>1. Weekday(y, m, d) = A % 7
  <2>1. Total(YearDays(y), y - 2026) = Past(y) - Past(2026)
    BY YearsTotal
  <2>2. Total(MonthDays(y, m), m - 1) = C + (IF m > 2 /\ Leap(y) THEN 1 ELSE 0)
    BY MonthsTotal
  <2>3. Weekday(y, m, d) = (4 + Total(YearDays(y), y - 2026) + Total(MonthDays(y, m), m - 1) + (d - 1)) % 7
    BY DEF Weekday, YearDays, MonthDays
  <2> HIDE DEF C
  <2> QED BY <2>1, <2>2, <2>3, SMTT(60)
<1>2. dayofweek(y, m, d) = B % 7
  BY DEF dayofweek, Table
<1>3. T \in Nat /\ C \in Nat
  BY TablesAgree
<1>4. PICK w \in Nat : Apart(m, w)
  BY TablesAgree
<1>5. Past(2026) = 739616
  BY DEF Past
<1>6. L(y) \in Int /\ L(y - 1) \in Int
  OBVIOUS
<1>7. Past(y) = 365 * (y - 1) + L(y - 1)
  BY DEF Past
<1>8. L(y) = L(y - 1) + (IF Leap(y) THEN 1 ELSE 0)
  <2>1. (y + 1) - 1 = y /\ y >= 1
    OBVIOUS
  <2>2. Past(y + 1) = 365 * y + L(y)
    BY <2>1 DEF Past
  <2>3. Past(y + 1) = Past(y) + (IF Leap(y) THEN 366 ELSE 365)
    BY <2>1, YearGrows, SMTT(60)
  <2> HIDE DEF L
  <2> QED BY <1>6, <1>7, <2>2, <2>3, SMTT(60)
<1>9. B = z + L(z) + T + d
  OBVIOUS
<1>10. C = T + 7 * w + (IF m < 3 THEN 0 ELSE 1)
  BY <1>4 DEF Apart
<1> HIDE DEF L, T, C
<1>11. CASE m < 3
  <2>1. /\ A = 4 + (365 * (y - 1) + L(y - 1) - 739616) + (T + 7 * w) + (d - 1)
        /\ B = (y - 1) + L(y - 1) + T + d
    BY <1>3, <1>10, <1>5, <1>6, <1>7, <1>9, <1>11, SMTT(60)
  <2>2. A = B + 7 * (52 * (y - 1) + w - 105659) /\ A \in Int /\ B \in Int
    BY <1>3, <1>6, <2>1, SMTT(60)
  <2> HIDE DEF A, B
  <2> QED BY <1>1, <1>2, <2>2, SameWeekday, SMTT(60)
<1>12. CASE m >= 3
  <2>1. /\ A = 4 + (365 * (y - 1) + L(y - 1) - 739616) + (T + 7 * w + 1 + (L(y) - L(y - 1))) + (d - 1)
        /\ B = y + L(y) + T + d
    BY <1>3, <1>10, <1>5, <1>6, <1>7, <1>8, <1>9, <1>12, SMTT(60)
  <2>2. A = B + 7 * (52 * y + w - 105711) /\ A \in Int /\ B \in Int
    BY <1>3, <1>6, <2>1, SMTT(60)
  <2> HIDE DEF A, B
  <2> QED BY <1>1, <1>2, <2>2, SameWeekday, SMTT(60)
<1> QED BY <1>11, <1>12, SMTT(60)

-----------------------------------------------------------------------------
(* The call.                                                               *)

\* The registers at time t, as one pass would read them.
Registers(t) == [r \in Reg |-> Code(t, r)]

\* Seconds the chip took from second s to second x, in less than a minute.
Age(s, x) == IF x >= s THEN x - s ELSE x - s + 60

\* The times of the call differ in their seconds, and the present one is the
\* latest.  Only one new year falls into a call.
ChipInv ==
    /\ bcd \in BOOLEAN /\ twelve \in BOOLEAN /\ updating \in BOOLEAN
    /\ time \in seen /\ IsFiniteSet(seen) /\ Cardinality(seen) \in 1 .. 60
    /\ updating => Cardinality(seen) <= MaxTicks
    /\ \A t \in seen : Near(t)
    /\ \A t, u \in seen : t[1] = u[1] => t = u
    /\ \E s \in 0 .. 59 :
           /\ \A t \in seen : Age(s, t[1]) < Cardinality(seen)
           /\ Age(s, time[1]) + 1 = Cardinality(seen)
    /\ time[6] = CURRENT_YEAR + 99 =>
           /\ time[5] = 1 /\ time[4] = 1 /\ time[3] = 0 /\ time[2] = 0
           /\ time[1] + 1 < Cardinality(seen)

\* A pass is whole unless the time changed since it read its first register;
\* once the next pass reads the same second, the last one is known to be whole.
PassInv ==
    /\ pc \in {"wait", "read", "done"} /\ reg \in Reg
    /\ pc # "done" => now \in [Reg -> Int]
    /\ last # <<>> =>
           /\ last \in [Reg -> Int]
           /\ \E t \in seen : last[1] = Code(t, 1) /\ (time = t => last = Registers(t))
    /\ pc = "read" /\ reg > 1 =>
           /\ \E t \in seen : /\ now[1] = Code(t, 1)
                              /\ time = t => \A r \in 1 .. reg - 1 : now[r] = Code(t, r)
           /\ last # <<>> /\ last[1] = now[1] => \E t \in seen : last = Registers(t)
    /\ pc = "done" => \E t \in seen : now = Stored(t)

IInv == ChipInv /\ PassInv


\* A register holds the code of its field of the time.
LEMMA RegisterIs ==
    ASSUME NEW r \in Reg
    PROVE  Register(r) = Code(time, r)
  BY Zenon DEF Register, Code

\* What the registers hold is a number, so that two passes can be compared.
LEMMA CodesAreNumbers ==
    ASSUME NEW t, IsTime(t), NEW r \in Reg
    PROVE  Code(t, r) \in Int
<1>1. \A k \in Reg : t[k] \in Nat
  BY Zenon DEF IsTime
<1>2. \A n \in Nat : Encode(n) \in Int
  BY DEF Encode
<1>3. t[6] % 100 \in Nat /\ (IF t[3] % 12 = 0 THEN 12 ELSE t[3] % 12) \in Nat
  BY <1>1 DEF Reg
<1>4. /\ Encode(t[6] % 100) \in Int /\ Encode(t[r]) \in Int
      /\ Encode(IF t[3] % 12 = 0 THEN 12 ELSE t[3] % 12) \in Int
  BY <1>1, <1>2, <1>3, ZenonT(60)
<1> QED BY <1>4 DEF Code, Pm

\* Two times of the call with the same seconds register are the same time.
LEMMA SecondsTell ==
    ASSUME ChipInv, NEW t \in seen, NEW u \in seen, Code(t, 1) = Code(u, 1)
    PROVE  t = u
<1>1. t[1] \in 0 .. 99 /\ u[1] \in 0 .. 99
  BY SMTT(60) DEF ChipInv, Near, IsTime
<1>2. Code(t, 1) = Encode(t[1]) /\ Code(u, 1) = Encode(u[1])
  BY DEF Code
<1>3. Decode(Encode(t[1])) = t[1] /\ Decode(Encode(u[1])) = u[1]
  BY <1>1, Decoded, Zenon
<1> QED BY <1>2, <1>3, SMTT(60) DEF ChipInv

\* The chip starts at a time of the calendar, before the first pass.
LEMMA InitOk == Init => IInv
<1> SUFFICES ASSUME Init PROVE IInv
  BY Zenon
<1>1. IsFiniteSet(seen) /\ Cardinality(seen) = 1 /\ seen = {time}
  BY FS_Singleton, Zenon DEF Init
<1>2. IsTime(time) /\ time[6] \in CURRENT_YEAR .. CURRENT_YEAR + 98 /\ CURRENT_YEAR \in Nat
  BY RtcAssumption, SMTT(60) DEF Init
<1>3. Near(time) /\ time[6] # CURRENT_YEAR + 99 /\ time[1] \in 0 .. 59
  BY <1>2, SMTT(60) DEF Near, IsTime
<1>4. bcd \in BOOLEAN /\ twelve \in BOOLEAN /\ updating = FALSE
  BY RtcAssumption, SMTT(60) DEF Init
<1>5. Age(time[1], time[1]) = 0
  BY <1>3 DEF Age
<1>6. ChipInv
  <2>1. \E s \in 0 .. 59 :
           /\ \A t \in seen : Age(s, t[1]) < Cardinality(seen)
           /\ Age(s, time[1]) + 1 = Cardinality(seen)
    BY <1>1, <1>3, <1>5, SMTT(60)
  <2>2. /\ time \in seen /\ \A t \in seen : Near(t)
        /\ \A t, u \in seen : t[1] = u[1] => t = u
    BY <1>1, <1>3, Zenon
  <2>3. Cardinality(seen) \in 1 .. 60
    BY <1>1
  <2>4. updating \in BOOLEAN /\ ~updating
    BY <1>4, Zenon
  <2> QED BY <1>1, <1>3, <1>4, <2>1, <2>2, <2>3, <2>4, ZenonT(60) DEF ChipInv
<1>7. PassInv
  BY DEF Init, PassInv, Reg
<1> QED BY <1>6, <1>7, Zenon DEF IInv

\* What a pass reads depends on the chip's format and the time alone.
Quiet == bcd' = bcd /\ twelve' = twelve


\* A step that leaves the chip's two modes alone leaves every encoding alone.
LEMMA SameCodes ==
    ASSUME Quiet
    PROVE  /\ \A t, r : (Code(t, r))' = Code(t, r)
           /\ \A t : (Registers(t))' = Registers(t) /\ (Stored(t))' = Stored(t)
<1>1. \A n : (Encode(n))' = Encode(n)
  BY Zenon DEF Quiet, Encode
<1>2. \A t, r : (Code(t, r))' = Code(t, r)
  BY <1>1, ZenonT(60) DEF Quiet, Code
<1>3. \A t : (Registers(t))' = Registers(t)
  BY <1>2, Zenon DEF Registers
<1>4. \A t : (Stored(t))' = Stored(t)
  BY Zenon DEF Quiet, Stored
<1> QED BY <1>2, <1>3, <1>4, Zenon

\* An update: the new time is not one the chip showed before.
LEMMA TimeAdvances ==
    ASSUME ChipInv, update_ends
    PROVE  /\ time' \notin seen /\ seen' = seen \cup {time'}
           /\ ChipInv'
<1> DEFINE u == Later(time)
           n == Cardinality(seen)
<1>1. /\ bcd' = bcd /\ twelve' = twelve /\ time' = u /\ seen' = seen \cup {u}
      /\ updating = TRUE /\ updating' = FALSE
  BY Zenon DEF update_ends, ChipInv
<1>2. n \in 1 .. 59 /\ IsFiniteSet(seen)
  <2>1. MaxTicks \in 0 .. 59 /\ n \in 1 .. 60 /\ n <= MaxTicks
    BY <1>1, RtcAssumption, SMTT(60) DEF ChipInv
  <2> QED BY <2>1, SMTT(60) DEF ChipInv
<1>3. Near(time) /\ IsTime(time) /\ IsTime(u) /\ time[1] \in 0 .. 59 /\ u[1] \in 0 .. 59
  <2>1. Near(time) /\ IsTime(time)
    BY Zenon DEF ChipInv, Near
  <2>2. IsTime(u)
    BY <2>1, LaterIsTime, Zenon
  <2> QED BY <2>1, <2>2, Zenon DEF IsTime
<1>4. u[1] = IF time[1] = 59 THEN 0 ELSE time[1] + 1
  BY <1>3, LaterIs, ZenonT(60)
<1>5. PICK s \in 0 .. 59 : /\ \A t \in seen : Age(s, t[1]) < n
                           /\ Age(s, time[1]) + 1 = n
  BY Zenon DEF ChipInv
<1> HIDE DEF u, n
<1>6. Age(s, u[1]) = n
  BY <1>2, <1>3, <1>4, <1>5, SMTT(60) DEF Age
<1>7. u \notin seen /\ \A t \in seen : t[1] # u[1]
  BY <1>2, <1>5, <1>6, SMTT(60)
<1>8. Cardinality(seen') = n + 1 /\ IsFiniteSet(seen')
  BY <1>1, <1>2, <1>7, FS_AddElement, ZenonT(60) DEF n
<1>9. CURRENT_YEAR \in Nat /\ time[6] \in CURRENT_YEAR .. CURRENT_YEAR + 99 /\ time[5] \in 1 .. 12
  BY <1>3, RtcAssumption, SMTT(60) DEF Near, IsTime
<1>10. time[6] = CURRENT_YEAR + 99 =>
           /\ u[6] = time[6] /\ u[5] = 1 /\ u[4] = 1 /\ u[3] = 0 /\ u[2] = 0
           /\ u[1] = time[1] + 1 /\ time[1] + 1 < n
  <2> SUFFICES ASSUME time[6] = CURRENT_YEAR + 99
               PROVE  /\ u[6] = time[6] /\ u[5] = 1 /\ u[4] = 1 /\ u[3] = 0 /\ u[2] = 0
                      /\ u[1] = time[1] + 1 /\ time[1] + 1 < n
    BY Zenon
  <2>1. /\ time[5] = 1 /\ time[4] = 1 /\ time[3] = 0 /\ time[2] = 0 /\ time[1] + 1 < n
    BY Zenon DEF ChipInv, n
  <2>2. time[1] # 59
    BY <1>2, <1>3, <2>1, SMTT(60)
  <2> QED BY <1>3, <2>1, <2>2, LaterIs, SMTT(60) DEF u
<1>11. time[6] # CURRENT_YEAR + 99 =>
           \/ u[6] = time[6]
           \/ /\ u[6] = time[6] + 1 /\ u[5] = 1 /\ u[4] = 1 /\ u[3] = 0 /\ u[2] = 0
              /\ u[1] = 0
  BY <1>3, LaterIs, SMTT(60) DEF u
<1>12. u[6] \in CURRENT_YEAR .. CURRENT_YEAR + 99
  BY <1>9, <1>10, <1>11, SMTT(60)
<1>13. u[6] = CURRENT_YEAR + 99 =>
           /\ u[5] = 1 /\ u[4] = 1 /\ u[3] = 0 /\ u[2] = 0 /\ u[1] + 1 < n + 1
  BY <1>2, <1>3, <1>9, <1>10, <1>11, SMTT(60)
<1>14. Near(u)
  BY <1>3, <1>12, Zenon DEF Near
<1>15. ChipInv'
  <2>1. (bcd \in BOOLEAN /\ twelve \in BOOLEAN)' /\ updating' \in BOOLEAN /\ ~updating'
    BY <1>1, Zenon DEF ChipInv
  <2>2. time' \in seen' /\ IsFiniteSet(seen') /\ Cardinality(seen') \in 1 .. 60
    BY <1>1, <1>2, <1>8, SMTT(60)
  <2>3. /\ \A t \in seen' : Near(t)
        /\ \A t, v \in seen' : t[1] = v[1] => t = v
    BY <1>1, <1>7, <1>14, ZenonT(60) DEF ChipInv
  <2>4. \A t \in seen : t[1] \in 0 .. 59 /\ Age(s, t[1]) \in Nat
    BY SMTT(60) DEF ChipInv, Near, IsTime, Age
  <2>5. /\ \A t \in seen' : Age(s, t[1]) < Cardinality(seen')
        /\ Age(s, time'[1]) + 1 = Cardinality(seen')
    BY <1>1, <1>2, <1>5, <1>6, <1>8, <2>4, SMTT(60)
  <2>6. \A t : (Near(t))' <=> Near(t)
    BY Zenon DEF Near, IsTime
  <2>7. time'[6] = CURRENT_YEAR + 99 =>
           /\ time'[5] = 1 /\ time'[4] = 1 /\ time'[3] = 0 /\ time'[2] = 0
           /\ time'[1] + 1 < Cardinality(seen')
    BY <1>1, <1>8, <1>13, ZenonT(60)
  <2> QED BY <2>1, <2>2, <2>3, <2>5, <2>6, <2>7, ZenonT(60) DEF ChipInv, Age
<1> QED BY <1>1, <1>7, <1>15, Zenon

\* The reader's inductive facts outlast an update: no pass under way, nor the last
\* one, began at the new time.
LEMMA UpdateSteps ==
    ASSUME IInv, update_begins \/ update_ends
    PROVE  IInv'
<1>1. CASE update_begins
  <2>1. UNCHANGED <<bcd, twelve, time, seen, pc, reg, now, last>> /\ updating' = TRUE
    BY <1>1, Zenon DEF update_begins
  <2>2. Cardinality(seen) <= MaxTicks
    BY <1>1, Zenon DEF update_begins
  <2>3. ChipInv'
    BY <2>1, <2>2, ZenonT(60) DEF IInv, ChipInv, Near, IsTime, Age
  <2>4. PassInv'
    BY <2>1 DEF IInv, PassInv, Registers, Code, Encode, Stored
  <2> QED BY <2>3, <2>4, Zenon DEF IInv
<1>2. CASE update_ends
  <2>1. time' \notin seen /\ seen' = seen \cup {time'} /\ ChipInv'
    BY <1>2, TimeAdvances, Zenon DEF IInv
  <2>2. UNCHANGED <<bcd, twelve, pc, reg, now, last>> /\ Quiet
    BY <1>2, ZenonT(60) DEF update_ends, Quiet
  <2>3. PassInv'
    <3>1. last # <<>> => \E t \in seen' : last[1] = Code(t, 1) /\ (time' = t => last = Registers(t))
      BY <2>1, Zenon DEF IInv, PassInv
    <3>2. pc = "read" /\ reg > 1 =>
           /\ \E t \in seen' : /\ now[1] = Code(t, 1)
                               /\ time' = t => \A r \in 1 .. reg - 1 : now[r] = Code(t, r)
           /\ last # <<>> /\ last[1] = now[1] => \E t \in seen' : last = Registers(t)
      BY <2>1, Zenon DEF IInv, PassInv
    <3>3. pc = "done" => \E t \in seen' : now = Stored(t)
      BY <2>1, Zenon DEF IInv, PassInv
    <3>4. /\ pc \in {"wait", "read", "done"} /\ reg \in Reg
          /\ pc # "done" => now \in [Reg -> Int]
          /\ last # <<>> => last \in [Reg -> Int]
      BY Zenon DEF IInv, PassInv
    <3> QED BY <2>2, <3>1, <3>2, <3>3, <3>4, SameCodes, SMTT(60) DEF PassInv
  <2> QED BY <2>1, <2>3, Zenon DEF IInv
<1> QED BY <1>1, <1>2, Zenon


\* A pass begins.
LEMMA WaitSteps ==
    ASSUME IInv, get_update_flag
    PROVE  IInv'
<1>1. UNCHANGED <<bcd, twelve, time, updating, seen, now, last>> /\ pc' = "read" /\ reg' = 1
  BY Zenon DEF get_update_flag, chip
<1>2. pc # "done" /\ 1 \in Reg
  BY DEF get_update_flag, Reg
<1>3. ChipInv'
  BY <1>1, ZenonT(60) DEF IInv, ChipInv, Near, IsTime, Age
<1>4. PassInv'
  BY <1>1, <1>2, SMTT(60) DEF IInv, PassInv, Registers, Code, Encode
<1> QED BY <1>3, <1>4, Zenon DEF IInv

\* A register is read: the first of a pass settles whether the last pass was
\* whole, and the sixth settles what the call returns.
LEMMA ReadSteps ==
    ASSUME IInv, get_RTC_register
    PROVE  IInv'
<1> DEFINE f == [now EXCEPT ![reg] = Register(reg)]
<1>1. /\ UNCHANGED <<bcd, twelve, time, updating, seen>> /\ Quiet /\ pc = "read"
      /\ reg \in Reg /\ reg \in Nat /\ now \in [Reg -> Int]
  BY DEF get_RTC_register, chip, Quiet, IInv, PassInv, Reg
<1>2. ChipInv /\ ChipInv' /\ time \in seen /\ IsTime(time)
  BY <1>1, ZenonT(60) DEF IInv, ChipInv, Near, IsTime, Age
<1>3. /\ f \in [Reg -> Int] /\ f[reg] = Code(time, reg)
      /\ \A r \in Reg \ {reg} : f[r] = now[r]
  <2>1. Register(reg) = Code(time, reg) /\ Code(time, reg) \in Int
    BY <1>1, <1>2, RegisterIs, CodesAreNumbers, Zenon
  <2> QED BY <1>1, <2>1, Zenon
<1>4. 1 \in Reg /\ \A r \in 1 .. reg : r \in Reg
  BY <1>1 DEF Reg
<1>5. last # <<>> =>
         /\ last \in [Reg -> Int]
         /\ \E t \in seen : last[1] = Code(t, 1) /\ (time = t => last = Registers(t))
  BY Zenon DEF IInv, PassInv
<1> HIDE DEF f
<1>6. \E t \in seen : f[1] = Code(t, 1) /\ (time = t => \A r \in 1 .. reg : f[r] = Code(t, r))
  <2>1. CASE reg = 1
    <3>1. \A r \in 1 .. reg : r = 1
      BY <2>1
    <3> QED BY <1>2, <1>3, <2>1, <3>1, Zenon
  <2>2. CASE reg > 1
    <3>1. PICK t \in seen : /\ now[1] = Code(t, 1)
                            /\ time = t => \A r \in 1 .. reg - 1 : now[r] = Code(t, r)
      BY <1>1, <2>2, Zenon DEF IInv, PassInv
    <3>2. f[1] = now[1]
      BY <1>1, <1>3, <1>4, <2>2, SMTT(60)
    <3>3. ASSUME time = t, NEW r \in 1 .. reg PROVE f[r] = Code(t, r)
      <4>1. r = reg \/ (r \in 1 .. reg - 1 /\ r # reg /\ r \in Reg)
        BY <1>1, <1>4, SMTT(60)
      <4> QED BY <1>3, <3>1, <3>3, <4>1, ZenonT(60)
    <3> QED BY <3>1, <3>2, <3>3, Zenon
  <2> QED BY <1>1, <2>1, <2>2 DEF Reg
<1>7. last # <<>> /\ last[1] = f[1] => \E t \in seen : last = Registers(t)
  <2> SUFFICES ASSUME last # <<>>, last[1] = f[1]
               PROVE  \E t \in seen : last = Registers(t)
    BY Zenon
  <2>1. CASE reg = 1
    <3>1. PICK t \in seen : last[1] = Code(t, 1) /\ (time = t => last = Registers(t))
      BY <1>5, Zenon
    <3>2. Code(t, 1) = Code(time, 1)
      BY <1>3, <2>1, <3>1, Zenon
    <3>3. t = time
      BY <1>2, <3>2, SecondsTell, Zenon
    <3> QED BY <3>1, <3>3, Zenon
  <2>2. CASE reg > 1
    <3>1. f[1] = now[1]
      BY <1>1, <1>3, <1>4, <2>2, SMTT(60)
    <3> QED BY <1>1, <2>2, <3>1, Zenon DEF IInv, PassInv
  <2> QED BY <1>1, <2>1, <2>2, SMTT(60) DEF Reg
<1>8. CASE reg < 6
  <2>1. now' = f /\ reg' = reg + 1 /\ pc' = pc /\ last' = last
    BY <1>8, Zenon DEF get_RTC_register, f
  <2>2. reg' \in Reg /\ reg' - 1 = reg
    BY <1>1, <1>8, <2>1, SMTT(60) DEF Reg
  <2>3. PassInv'
    BY <1>1, <1>3, <1>5, <1>6, <1>7, <2>1, <2>2, SameCodes, SMTT(60) DEF PassInv
  <2> QED BY <1>2, <2>3, Zenon DEF IInv
<1>9. CASE ~(reg < 6)
  <2>1. reg = 6 /\ reg' = 1 /\ reg' \in Reg /\ ~(reg' > 1)
    BY <1>1, <1>9, SMTT(60) DEF get_RTC_register, Reg
  <2>2. CASE Agrees(f)
    <3>1. pc' = "done" /\ now' = Converted(f) /\ last' = last
      BY <1>9, <2>2, Zenon DEF get_RTC_register, f
    <3>2. last # <<>> /\ last \in [Reg -> Int] /\ \A r \in Reg : last[r] = f[r]
      BY <1>5, <2>2, Zenon DEF Agrees
    <3>3. f = last
      BY <1>3, <3>2, SMTT(60)
    <3>4. PICK t \in seen : f = Registers(t)
      BY <1>7, <3>2, <3>3, Zenon
    <3>5. Converted(f) = Stored(t)
      BY <1>2, <3>4, WholePassConverts, ZenonT(60) DEF ChipInv, Registers
    <3>6. \E v \in seen : now' = Stored(v)
      BY <3>1, <3>5, Zenon
    <3>7. PassInv'
      BY <1>1, <1>5, <2>1, <3>1, <3>6, SameCodes, ZenonT(60) DEF PassInv
    <3> QED BY <1>2, <3>7, Zenon DEF IInv
  <2>3. CASE ~Agrees(f)
    <3>1. pc' = "wait" /\ now' = f /\ last' = f
      BY <1>9, <2>3, Zenon DEF get_RTC_register, NextPass, f
    <3>2. \E t \in seen : f[1] = Code(t, 1) /\ (time = t => f = Registers(t))
      <4>1. PICK t \in seen : f[1] = Code(t, 1) /\ (time = t => \A r \in 1 .. reg : f[r] = Code(t, r))
        BY <1>6, Zenon
      <4>2. ASSUME time = t PROVE f = Registers(t)
        <5>1. \A r \in Reg : f[r] = Code(t, r)
          BY <2>1, <4>1, <4>2, Zenon DEF Reg
        <5> QED BY <1>3, <5>1, Zenon DEF Registers
      <4> QED BY <4>1, <4>2, Zenon
    <3>3. PassInv'
      BY <1>1, <1>3, <2>1, <3>1, <3>2, SameCodes, ZenonT(60) DEF PassInv
    <3> QED BY <1>2, <3>3, Zenon DEF IInv
  <2> QED BY <2>2, <2>3, ZenonT(60)
<1> QED BY <1>8, <1>9, ZenonT(60)

\* Every step keeps the invariant: one case for each action of the chip and of
\* read_rtc.
LEMMA NextKeeps == IInv /\ [Next]_vars => IInv'
<1> SUFFICES ASSUME IInv, [Next]_vars PROVE IInv'
  BY Zenon
<1>1. CASE UNCHANGED vars
  <2>1. UNCHANGED <<bcd, twelve, time, updating, seen, pc, reg, now, last>>
    BY <1>1, Zenon DEF vars, chip
  <2>2. ChipInv'
    BY <2>1, ZenonT(60) DEF IInv, ChipInv, Near, IsTime, Age
  <2>3. /\ \A t, r : (Code(t, r))' = Code(t, r)
        /\ \A t : (Registers(t))' = Registers(t) /\ (Stored(t))' = Stored(t)
    BY <2>1, SameCodes, Zenon DEF Quiet
  <2>4. PassInv'
    BY <2>1, <2>3, Zenon DEF IInv, PassInv
  <2> QED BY <2>2, <2>4, Zenon DEF IInv
<1>2. CASE update_begins \/ update_ends
  BY <1>2, UpdateSteps, Zenon
<1>3. CASE get_update_flag
  BY <1>3, WaitSteps, Zenon
<1>4. CASE get_RTC_register
  BY <1>4, ReadSteps, Zenon
<1> QED BY <1>1, <1>2, <1>3, <1>4, ZenonT(60) DEF Next

\* What read_rtc leaves in its fields follows from the inductive invariant.
LEMMA InvReads == IInv => ReadIsATime
<1> SUFFICES ASSUME IInv, pc = "done" PROVE ReadIsATime
  BY Zenon DEF ReadIsATime
<1>1. PICK t \in seen : now = Stored(t)
  BY Zenon DEF IInv, PassInv
<1>2. Near(t)
  BY Zenon DEF IInv, ChipInv
<1>3. now[6] = t[6] /\ now[5] = t[5] /\ now[4] = t[4]
  BY <1>1, <1>2, SMTT(60) DEF Stored, Near, IsTime, Reg
<1>4. /\ t[6] \in Nat /\ t[6] >= 2026 /\ t[5] \in 1 .. 12 /\ t[4] \in Nat
  BY <1>2, RtcAssumption, SMTT(60) DEF Near, IsTime, Reg
<1>5. dayofweek(now[6], now[5], now[4]) = Weekday(now[6], now[5], now[4])
  BY <1>3, <1>4, WeekdayIsRight, SMTT(60)
<1> QED BY <1>1, <1>5, Zenon DEF ReadIsATime, Stored

\* Passes are whole unless the time changed under them, and the times of a call
\* differ in their seconds.
THEOREM Inductive == Spec => []IInv
  BY InitOk, NextKeeps, PTL DEF Spec

\* read_rtc returns a time the chip showed during the call, and dayofweek its
\* weekday, for every instant a call begins at, both encodings and both clocks,
\* as long as the call takes less than a minute.
THEOREM SnapshotIsATime == Spec => []ReadIsATime
  BY Inductive, InvReads, PTL

=============================================================================
