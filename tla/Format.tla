------------------------------- MODULE Format -------------------------------
(***************************************************************************)
(* Formatted output, src/printf.c: one call of printf_ or of snprintf_     *)
(* (panic uses vsnprintf_), conversion by conversion.  The buffer sizes    *)
(* and the integer widths are parameters.  A real argument is a decimal    *)
(* with three places, or one of the special values; the arithmetic on it   *)
(* is exact, which rounding makes it for the doubles next to the decimals  *)
(* of the instance (0.95 is not a double, but 0.95 * 10 gives 9.5).        *)
(*                                                                         *)
(* An argument is [n, s]: a number (in thousandths for the real            *)
(* conversions) and a string.  Characters are strings of length one, "NUL" *)
(* is 0.                                                                   *)
(***************************************************************************)
EXTENDS Integers, SequencesExt, FiniteSetsExt

CONSTANTS
    Calls,                           \* the calls: see Init
    PRINTF_NTOA_BUFFER_SIZE, PRINTF_FTOA_BUFFER_SIZE,
    PRINTF_DEFAULT_FLOAT_PRECISION,
    MaxPrecision,                    \* the 9 that _ftoa limits the precision to
    PRINTF_MAX_FLOAT,                \* %f of more than that is %e
    AdaptLimit,                      \* the 1e6 below which %g is %f
    CharBits, ShortBits, IntBits, LongBits

ASSUME FormatAssumption ==
    /\ {PRINTF_NTOA_BUFFER_SIZE, PRINTF_FTOA_BUFFER_SIZE} \subseteq Nat \ {0}
    /\ PRINTF_DEFAULT_FLOAT_PRECISION \in Nat /\ MaxPrecision \in Nat /\ AdaptLimit \in Nat
    /\ PRINTF_MAX_FLOAT \in Nat /\ AdaptLimit <= PRINTF_MAX_FLOAT
    /\ 1 < CharBits /\ CharBits <= ShortBits /\ ShortBits <= IntBits /\ IntBits <= LongBits

VARIABLES
    call,    \* the call: output function, NULL buffer or not, maxlen, format, arguments
    format,  \* what is left of the format
    va,      \* the arguments that are left
    idx,
    buffer,  \* the caller's buffer, 0 .. maxlen - 1
    sent,    \* what _putchar got
    pieces,  \* ghost: the text of every literal character and conversion
    ret      \* the result, -1 while the call runs

vars == <<call, format, va, idx, buffer, sent, pieces, ret>>

Junk == "junk"

-----------------------------------------------------------------------------
(* Integers.                                                               *)

Signed(n, bits) ==
    LET m == n % 2 ^ bits IN IF m >= 2 ^ (bits - 1) THEN m - 2 ^ bits ELSE m
Unsigned(n, bits) == n % 2 ^ bits

Repeat(c, n) == [k \in 1 .. n |-> c]

\* Zeros at the end of the reversed text, up to n characters or a full buffer.
ZerosUpTo(buf, n, size) == buf \o Repeat("0", Min({n, size}) - Len(buf))
\* A character at the end of it, if there is room.
Put(buf, c, size) == IF Len(buf) < size THEN Append(buf, c) ELSE buf

Digits == <<"0", "1", "2", "3", "4", "5", "6", "7", "8", "9", "a", "b", "c", "d", "e", "f">>
DIGITS == <<"0", "1", "2", "3", "4", "5", "6", "7", "8", "9", "A", "B", "C", "D", "E", "F">>
DigitOf(n, upper) == IF upper THEN DIGITS[n + 1] ELSE Digits[n + 1]

\* The digits of value, last first, as many as fit; at least one.
Reversed(value, base, upper, buf, size) ==
    LET step(s, k) == IF s.more /\ Len(s.buf) < size
                      THEN [buf |-> Append(s.buf, DigitOf(s.v % base, upper)), v |-> s.v \div base,
                            more |-> s.v \div base # 0]
                      ELSE s
    IN  FoldLeft(step, [buf |-> buf, v |-> value, more |-> TRUE], Repeat(0, size)).buf

\* Spaces before or after the text, whose reverse is buf.
_out_rev(buf, width, flags) ==
    LET pad == Repeat(" ", width - Len(buf))
    IN  IF "LEFT" \in flags THEN Reverse(buf) \o pad
        ELSE IF "ZEROPAD" \in flags THEN Reverse(buf) ELSE pad \o Reverse(buf)

\* Room for the sign that follows the zeros.
ZeroWidth(width, negative, flags) ==
    IF width > 0 /\ "ZEROPAD" \in flags /\ (negative \/ flags \cap {"PLUS", "SPACE"} # {})
    THEN width - 1 ELSE width

\* Mutant: one zero too many in front.
pad_zeros_late(buf, prec, width, flags) ==
    IF "LEFT" \in flags THEN buf
    ELSE LET b == ZerosUpTo(buf, prec, PRINTF_NTOA_BUFFER_SIZE)
         IN  IF "ZEROPAD" \in flags THEN ZerosUpTo(b, width + 1, PRINTF_NTOA_BUFFER_SIZE) ELSE b
pad_zeros(buf, prec, width, flags) ==
    IF "LEFT" \in flags THEN buf
    ELSE LET b == ZerosUpTo(buf, prec, PRINTF_NTOA_BUFFER_SIZE)
         IN  IF "ZEROPAD" \in flags THEN ZerosUpTo(b, width, PRINTF_NTOA_BUFFER_SIZE) ELSE b

\* 0, 0x, 0X or 0b; it takes the place of one or two characters when the
\* text is as long as the field.
hash_prefix(buf, base, prec, width, flags) ==
    LET n == Len(buf)
        full == "PRECISION" \notin flags /\ n > 0 /\ n \in {prec, width}
        kept == IF ~full THEN n ELSE IF n > 1 /\ base = 16 THEN n - 2 ELSE n - 1
        b == SubSeq(buf, 1, kept)
        letter == IF base = 16 THEN IF "UPPERCASE" \in flags THEN "X" ELSE "x" ELSE "b"
    IN  Put(IF base \in {2, 16} THEN Put(b, letter, PRINTF_NTOA_BUFFER_SIZE) ELSE b,
            "0", PRINTF_NTOA_BUFFER_SIZE)

put_sign(buf, negative, flags, size) ==
    IF negative THEN Put(buf, "-", size)
    ELSE IF "PLUS" \in flags THEN Put(buf, "+", size)
    ELSE IF "SPACE" \in flags THEN Put(buf, " ", size) ELSE buf

_ntoa_format(buf, negative, base, prec, width, flags) ==
    LET w == IF "LEFT" \in flags THEN width ELSE ZeroWidth(width, negative, flags)
        zeros == pad_zeros(buf, prec, w, flags)
        hashed == IF "HASH" \in flags THEN hash_prefix(zeros, base, prec, w, flags) ELSE zeros
    IN  _out_rev(put_sign(hashed, negative, flags, PRINTF_NTOA_BUFFER_SIZE), w, flags)

_ntoa_long(value, negative, base, prec, width, flags) ==
    LET f == IF value = 0 THEN flags \ {"HASH"} ELSE flags
        digits == IF "PRECISION" \in f /\ value = 0 THEN <<>>
                  ELSE Reversed(value, base, "UPPERCASE" \in f, <<>>, PRINTF_NTOA_BUFFER_SIZE)
    IN  _ntoa_format(digits, negative, base, prec, width, f)
\* The same for a type that is no wider.
_ntoa_long_long(value, negative, base, prec, width, flags) ==
    _ntoa_long(value, negative, base, prec, width, flags)

-----------------------------------------------------------------------------
(* Reals: num / den, both exact.                                           *)

\* The part of the precision beyond MaxPrecision is zeros.
ExcessZeros(prec) == Min({Max({prec - MaxPrecision, 0}), PRINTF_FTOA_BUFFER_SIZE})

\* Mutant: 0.99 to one place does not carry.
rounded_without_rollover(num, den, prec) ==
    LET whole == num \div den
        tmp == (num % den) * 10 ^ prec
        frac == tmp \div den
        diff == 2 * (tmp % den)
        up == diff > den \/ (diff = den /\ (frac = 0 \/ frac % 2 = 1))
        odd == prec = 0 /\ 2 * (num - whole * den) >= den /\ whole % 2 = 1
    IN  [whole |-> IF odd THEN whole + 1 ELSE whole, frac |-> IF up THEN frac + 1 ELSE frac]
\* The whole part and the decimals as a number, rounded; halfway to even, or up
\* from 0.  Only what lies beyond halfway carries into the whole part.
rounded(num, den, prec) ==
    LET whole == num \div den
        tmp == (num % den) * 10 ^ prec
        frac == tmp \div den
        diff == 2 * (tmp % den)     \* against den: the 0.5 of the code
        up == diff > den \/ (diff = den /\ (frac = 0 \/ frac % 2 = 1))
        rolls == diff > den /\ frac + 1 >= 10 ^ prec
        w == IF rolls THEN whole + 1 ELSE whole
        odd == prec = 0 /\ 2 * (num - w * den) >= den /\ w % 2 = 1
    IN  [whole |-> IF odd THEN w + 1 ELSE w,
         frac |-> IF rolls THEN 0 ELSE IF up THEN frac + 1 ELSE frac]

\* The decimals, last first, then the point.  One digit more than prec, and the
\* unsigned count of the zeros to add has wrapped: they fill the buffer.
put_decimals(buf, frac, prec) ==
    LET b == Reversed(frac, 10, FALSE, buf, PRINTF_FTOA_BUFFER_SIZE)
        end == IF Len(b) > Len(buf) + prec THEN PRINTF_FTOA_BUFFER_SIZE ELSE Len(buf) + prec
    IN  Put(ZerosUpTo(b, end, PRINTF_FTOA_BUFFER_SIZE), ".", PRINTF_FTOA_BUFFER_SIZE)

\* nan, inf and -inf.
special_value(text, width, flags) ==
    _out_rev(Reverse(IF text = <<"i", "n", "f">> /\ "PLUS" \in flags THEN <<"+">> \o text ELSE text),
             width, flags)

_ftoa(num, den, prec0, width, flags) ==
    LET negative == num < 0
        n == IF negative THEN 0 - num ELSE num
        given == IF "PRECISION" \in flags THEN prec0 ELSE PRINTF_DEFAULT_FLOAT_PRECISION
        zeros == Repeat("0", ExcessZeros(given))
        prec == given - Len(zeros)
        r == rounded(n, den, prec)
        decimals == IF prec = 0 THEN zeros ELSE put_decimals(zeros, r.frac, prec)
        number == IF Len(decimals) < PRINTF_FTOA_BUFFER_SIZE
                  THEN Reversed(r.whole, 10, FALSE, decimals, PRINTF_FTOA_BUFFER_SIZE) ELSE decimals
        pads == "LEFT" \notin flags /\ "ZEROPAD" \in flags
        w == IF pads THEN ZeroWidth(width, negative, flags) ELSE width
        padded == IF pads THEN ZerosUpTo(number, w, PRINTF_FTOA_BUFFER_SIZE) ELSE number
    IN  _out_rev(put_sign(padded, negative, flags, PRINTF_FTOA_BUFFER_SIZE), w, flags)

\* The decimal exponent of n thousandths; the exponent bits of 0.0 yield -308.
DecimalExponent(n) ==
    IF n = 0 THEN 0 - 308 ELSE Max({k \in 0 .. 8 : 10 ^ k <= n}) - 3

\* What %e and %g print of n thousandths: whether as %f does, the exponent, and
\* the number that _ftoa gets, with its precision.
etoa_form(n, prec0, flags) ==
    LET given == IF "PRECISION" \in flags THEN prec0 ELSE PRINTF_DEFAULT_FLOAT_PRECISION
        exp10 == DecimalExponent(n)
        adapts == "ADAPT_EXP" \in flags
        fixed == adapts /\ n > 0 /\ n < 1000 * AdaptLimit
        expval == IF fixed THEN 0 ELSE exp10
    IN  [fixed |-> fixed, expval |-> expval,
         minwidth |-> IF fixed THEN 0 ELSE IF exp10 \in -99 .. 99 THEN 4 ELSE 5,
         prec |-> IF fixed THEN IF given > exp10 THEN given - exp10 - 1 ELSE 0
                  ELSE IF adapts /\ given > 0 /\ "PRECISION" \in flags THEN given - 1 ELSE given,
         num |-> IF n = 0 \/ expval >= 0 THEN n ELSE n * 10 ^ (0 - expval),
         den |-> IF expval > 0 THEN 1000 * 10 ^ expval ELSE 1000]

\* %e and %g of num thousandths.
_etoa(num, prec0, width, flags) ==
    LET negative == num < 0
        form == etoa_form(IF negative THEN 0 - num ELSE num, prec0, flags)
        f == (flags \ {"ADAPT_EXP"}) \cup (IF form.fixed THEN {"PRECISION"} ELSE {})
        fwidth == IF width > form.minwidth /\ ("LEFT" \notin flags \/ form.fixed)
                  THEN width - form.minwidth ELSE 0
        mantissa == _ftoa(IF negative THEN 0 - form.num ELSE form.num, form.den, form.prec, fwidth, f)
        exponent == <<IF "UPPERCASE" \in flags THEN "E" ELSE "e">>
                    \o _ntoa_long(IF form.expval < 0 THEN 0 - form.expval ELSE form.expval,
                                  form.expval < 0, 10, 0, form.minwidth - 1, {"ZEROPAD", "PLUS"})
        text == mantissa \o exponent
    IN  IF form.fixed THEN mantissa
        ELSE IF "LEFT" \in flags THEN text \o Repeat(" ", width - Len(text)) ELSE text

-----------------------------------------------------------------------------
(* The format: flags, width, precision, length and specifier.  p holds    *)
(* what is left of the format and of the arguments, and what was found.    *)

PrefixIn(s, S) == SubSeq(s, 1, Min({k \in 1 .. Len(s) + 1 : k > Len(s) \/ s[k] \notin S}) - 1)
Skip(p, n) == [p EXCEPT !.rest = SubSeq(@, n + 1, Len(@))]
Starts(p, c) == p.rest # <<>> /\ Head(p.rest) = c

_atoi(ds) == FoldLeft(LAMBDA n, d : n * 10 + (CHOOSE k \in 1 .. 10 : Digits[k] = d) - 1, 0, ds)
DecimalDigit == {Digits[k] : k \in 1 .. 10}

FlagOf == [c \in {"0", "-", "+", " ", "#"} |->
              CASE c = "0" -> "ZEROPAD" [] c = "-" -> "LEFT" [] c = "+" -> "PLUS"
                [] c = " " -> "SPACE" [] c = "#" -> "HASH"]
parse_flags(p) ==
    LET fs == PrefixIn(p.rest, DOMAIN FlagOf)
    IN  Skip([p EXCEPT !.flags = {FlagOf[fs[k]] : k \in DOMAIN fs}], Len(fs))

\* Mutant: a negative width is not taken as a left-adjusted one.
parse_width_unsigned(p) ==
    LET ds == PrefixIn(p.rest, DecimalDigit)
    IN  IF Starts(p, "*") THEN Skip([p EXCEPT !.va = Tail(@), !.width = Max({0, Head(p.va).n})], 1)
        ELSE Skip([p EXCEPT !.width = _atoi(ds)], Len(ds))
parse_width(p) ==
    LET ds == PrefixIn(p.rest, DecimalDigit)
        w == Head(p.va).n
    IN  IF Starts(p, "*")
        THEN Skip([p EXCEPT !.va = Tail(@), !.width = IF w < 0 THEN 0 - w ELSE w,
                            !.flags = IF w < 0 THEN @ \cup {"LEFT"} ELSE @], 1)
        ELSE Skip([p EXCEPT !.width = _atoi(ds)], Len(ds))

parse_precision(p) ==
    LET q == Skip([p EXCEPT !.flags = @ \cup {"PRECISION"}], 1)
        ds == PrefixIn(q.rest, DecimalDigit)
    IN  IF ~Starts(p, ".") THEN p
        ELSE IF Starts(q, "*") THEN Skip([q EXCEPT !.va = Tail(@), !.precision = Max({0, Head(q.va).n})], 1)
        ELSE Skip([q EXCEPT !.precision = _atoi(ds)], Len(ds))

\* t, j and z are long.
parse_length(p) ==
    LET one == Skip(p, 1)
        twice(c) == Starts(one, c)
    IN  IF Starts(p, "l")
        THEN Skip([p EXCEPT !.flags = @ \cup (IF twice("l") THEN {"LONG", "LONG_LONG"} ELSE {"LONG"})],
                  IF twice("l") THEN 2 ELSE 1)
        ELSE IF Starts(p, "h")
        THEN Skip([p EXCEPT !.flags = @ \cup (IF twice("h") THEN {"SHORT", "CHAR"} ELSE {"SHORT"})],
                  IF twice("h") THEN 2 ELSE 1)
        ELSE IF p.rest # <<>> /\ Head(p.rest) \in {"t", "j", "z"}
        THEN Skip([p EXCEPT !.flags = @ \cup {"LONG"}], 1)
        ELSE p

-----------------------------------------------------------------------------
(* The conversions: the text each produces.                                *)

BaseOf(c) == CASE c \in {"x", "X"} -> 16 [] c = "o" -> 8 [] c = "b" -> 2 [] OTHER -> 10

Bits(flags) ==
    IF "LONG" \in flags THEN LongBits
    ELSE IF "CHAR" \in flags THEN CharBits
    ELSE IF "SHORT" \in flags THEN ShortBits ELSE IntBits

convert_integer(p, c, n) ==
    LET signed == c \in {"i", "d"}
        base == BaseOf(c)
        flags == (p.flags \cup (IF c = "X" THEN {"UPPERCASE"} ELSE {}))
                 \ ((IF base = 10 THEN {"HASH"} ELSE {})
                    \cup (IF signed THEN {} ELSE {"PLUS", "SPACE"})
                    \cup (IF "PRECISION" \in p.flags THEN {"ZEROPAD"} ELSE {}))
        value == Signed(n, Bits(flags))
        \* 0 - value of the smallest value is that value again, read as unsigned
        size == IF value > 0 THEN value ELSE Unsigned(0 - value, IF "LONG" \in flags THEN LongBits ELSE IntBits)
        ntoa(v, negative) == IF "LONG_LONG" \in flags
                             THEN _ntoa_long_long(v, negative, base, p.precision, p.width, flags)
                             ELSE _ntoa_long(v, negative, base, p.precision, p.width, flags)
    IN  IF signed THEN ntoa(size, value < 0) ELSE ntoa(Unsigned(n, Bits(flags)), FALSE)

Padded(text, l, p) ==
    LET pad == Repeat(" ", p.width - l) IN IF "LEFT" \in p.flags THEN text \o pad ELSE pad \o text

convert_char(p, c) == Padded(<<c>>, 1, p)

\* Mutant: the padding is counted from the whole string.
convert_string_uncut(p, s) ==
    LET text == IF "PRECISION" \in p.flags THEN SubSeq(s, 1, Min({Len(s), p.precision})) ELSE s
    IN  Padded(text, Len(s), p)
convert_string(p, s) ==
    LET strnlen == IF p.precision > 0 THEN Min({Len(s), p.precision}) ELSE Len(s)
        l == IF "PRECISION" \in p.flags THEN Min({strnlen, p.precision}) ELSE strnlen
        text == IF "PRECISION" \in p.flags THEN SubSeq(s, 1, Min({Len(s), p.precision})) ELSE s
    IN  Padded(text, l, p)

PointerDigits == (LongBits + 3) \div 4
convert_pointer(p, n) ==
    _ntoa_long_long(Unsigned(n, LongBits), FALSE, 16, p.precision, PointerDigits,
                    p.flags \cup {"ZEROPAD", "UPPERCASE"})

\* Beyond PRINTF_MAX_FLOAT %f is %e.
convert_fixed(p, c, a) ==
    LET flags == p.flags \cup (IF c = "F" THEN {"UPPERCASE"} ELSE {})
        large == a.n > 1000 * PRINTF_MAX_FLOAT \/ a.n < -1000 * PRINTF_MAX_FLOAT
    IN  IF a.s # <<>> THEN special_value(a.s, p.width, flags)
        ELSE IF large THEN _etoa(a.n, p.precision, p.width, flags)
        ELSE _ftoa(a.n, 1000, p.precision, p.width, flags)

convert_exponential(p, c, a) ==
    LET flags == p.flags \cup (IF c \in {"g", "G"} THEN {"ADAPT_EXP"} ELSE {})
                 \cup (IF c \in {"E", "G"} THEN {"UPPERCASE"} ELSE {})
    IN  IF a.s # <<>> THEN special_value(a.s, p.width, flags) ELSE _etoa(a.n, p.precision, p.width, flags)

\* % and unknown specifiers print themselves and use no argument.
UsesArgument == {"d", "i", "u", "x", "X", "o", "b", "f", "F", "e", "E", "g", "G", "c", "s", "p"}
converted(p, c, a) ==
    IF c \in {"d", "i", "u", "x", "X", "o", "b"} THEN convert_integer(p, c, a.n)
    ELSE IF c \in {"f", "F"} THEN convert_fixed(p, c, a)
    ELSE IF c \in {"e", "E", "g", "G"} THEN convert_exponential(p, c, a)
    ELSE IF c = "c" THEN convert_char(p, Head(a.s))
    ELSE IF c = "s" THEN convert_string(p, a.s)
    ELSE IF c = "p" THEN convert_pointer(p, a.n)
    ELSE <<c>>

-----------------------------------------------------------------------------
(* The call.                                                               *)

\* printf_ and vprintf_ send to _out_char, snprintf_ and vsnprintf_ to
\* _out_buffer; sprintf_ too, with a maxlen that no text reaches.
Init ==
    /\ call \in Calls
    /\ format = call.format /\ va = call.va
    /\ idx = 0 /\ sent = <<>> /\ pieces = <<>> /\ ret = -1
    /\ buffer = [i \in 0 .. call.maxlen - 1 |-> Junk]

\* Without a buffer nothing is stored, whatever the caller's function is.
out == IF call.null THEN "_out_null" ELSE call.out

\* out for every character of the text: _out_buffer drops those that do not
\* fit, _out_char the NULs, _out_null all.
Out(text) ==
    /\ idx' = idx + Len(text)
    /\ buffer' = IF out # "_out_buffer" THEN buffer
                 ELSE [i \in DOMAIN buffer |->
                          IF i \in idx .. idx + Len(text) - 1 THEN text[i - idx + 1] ELSE buffer[i]]
    /\ sent' = IF out # "_out_char" THEN sent ELSE sent \o SelectSeq(text, LAMBDA c : c # "NUL")
    /\ pieces' = Append(pieces, text)

literal ==
    /\ format # <<>> /\ Head(format) # "%"
    /\ Out(<<Head(format)>>)
    /\ format' = Tail(format)
    /\ UNCHANGED <<call, va, ret>>

conversion ==
    /\ format # <<>> /\ Head(format) = "%"
    /\ \E p \in {parse_length(parse_precision(parse_width(parse_flags(
                    [rest |-> Tail(format), va |-> va, flags |-> {}, width |-> 0, precision |-> 0]))))} :
           LET c == Head(p.rest)
               uses == c \in UsesArgument
           IN  /\ Out(converted(p, c, IF uses THEN Head(p.va) ELSE [n |-> 0, s |-> <<>>]))
               /\ format' = Tail(p.rest)
               /\ va' = IF uses THEN Tail(p.va) ELSE p.va
    /\ UNCHANGED <<call, ret>>

\* Mutant: the terminator is stored at idx, as if the text had fitted.
terminate_at_idx ==
    /\ format = <<>> /\ ret = -1
    /\ buffer' = [i \in DOMAIN buffer |-> IF i = idx THEN "NUL" ELSE buffer[i]]
    /\ ret' = idx
    /\ UNCHANGED <<call, format, va, idx, sent, pieces>>
\* The terminator goes behind the text or into the last place; _out_char
\* drops it.
terminate ==
    /\ format = <<>> /\ ret = -1
    /\ buffer' = IF out = "_out_buffer"
                 THEN [i \in DOMAIN buffer |-> IF i = Min({idx, call.maxlen - 1}) THEN "NUL" ELSE buffer[i]]
                 ELSE buffer
    /\ ret' = idx
    /\ UNCHANGED <<call, format, va, idx, sent, pieces>>

Next == literal \/ conversion \/ terminate

Spec == Init /\ [][Next]_vars

-----------------------------------------------------------------------------
(* Properties.  call.spec says, apart from the format's characters, what   *)
(* conversion the call asks for, and call.piece which piece is its text.   *)

Done == ret # -1
Text == pieces[call.piece]
Asked == call.spec

\* The result is the number of characters the whole text has, whatever fits; a
\* buffer holds as much of the text as fits before a terminator that is
\* always there, and nothing else was stored (_out_buffer, the end of
\* _vsnprintf; panic prints such a buffer); with a NULL buffer nothing was, and
\* the result is the same; printf has sent all but the NULs.
OutputIsDelivered ==
    Done =>
        LET all == FlattenSeq(pieces)
            n == Min({Len(all), call.maxlen - 1})
        IN  /\ ret = Len(all) /\ va = <<>>
            /\ call.out = "_out_char" => sent = SelectSeq(all, LAMBDA c : c # "NUL")
            /\ call.out = "_out_buffer" => \A i \in DOMAIN buffer :
                   buffer[i] = IF i > n \/ call.null THEN Junk ELSE IF i < n THEN all[i + 1] ELSE "NUL"

Has(f) == f \in Asked.flags
NoSpaces(s) == SelectSeq(s, LAMBDA c : c # " ")
ValueOf(ds, base) ==
    FoldLeft(LAMBDA n, d : n * base + (CHOOSE k \in 1 .. 16 : d \in {Digits[k], DIGITS[k]}) - 1, 0, ds)

\* How many digits the number has in the base.
Length(n, base) == Min({k \in 1 .. LongBits : n < base ^ k})

Prefix(base) ==
    CASE base = 16 -> <<"0", Asked.conv>> [] base = 8 -> <<"0">> [] base = 2 -> <<"0", "b">> [] OTHER -> <<>>

\* # makes room for its prefix in a text as long as the field, even where that
\* text is not zeros: the field is less than a prefix wider than the digits.
PrefixEatsDigits(base, len) ==
    LET n == IF Has("ZEROPAD") /\ ~Has("LEFT") THEN Max({len, Asked.width}) ELSE len
        strip == IF base = 16 THEN 2 ELSE 1
    IN  Has("HASH") /\ base # 10 /\ Asked.precision = -1 /\ n = Asked.width /\ n - strip < len

\* An integer can be read back from its text: the sign, the prefix asked for
\* with #, and digits that denote the value the argument has in its type,
\* padded to the width and no further (_ntoa_format of printf.c: all flags, *
\* arguments and lengths, the smallest value of each type included).  Not so
\* where the text outgrows the 32 characters of buf or the prefix takes the
\* place of digits.  (0 with a precision of 0, or with any when left-adjusted,
\* has no digits at all.)
IntegersReadBack ==
    Done /\ Asked.kind = "integer" =>
        LET signed == Asked.conv \in {"d", "i"}
            v == IF signed THEN Signed(Asked.n, Asked.bits) ELSE Unsigned(Asked.n, Asked.bits)
            abs == IF v < 0 THEN 0 - v ELSE v
            base == BaseOf(Asked.conv)
            len == Length(abs, base)
            sign == IF v < 0 THEN <<"-">> ELSE IF signed /\ Has("PLUS") THEN <<"+">> ELSE <<>>
            space == IF signed /\ Has("SPACE") /\ sign = <<>> THEN 1 ELSE 0
            head == sign \o (IF Has("HASH") /\ v # 0 THEN Prefix(base) ELSE <<>>)
            zeros == IF Has("ZEROPAD") /\ ~Has("LEFT") /\ Asked.precision = -1 THEN Asked.width ELSE 0
            fits == Max({len + Len(head) + space, Asked.precision + Len(head) + space, zeros})
                        <= PRINTF_NTOA_BUFFER_SIZE
            t == NoSpaces(Text)
        IN  fits /\ ~PrefixEatsDigits(base, len) =>
                /\ IsPrefix(head, t)
                /\ ValueOf(SubSeq(t, Len(head) + 1, Len(t)), base) = abs
                /\ Len(t) = Len(head) => v = 0 /\ Asked.precision \in (IF Has("LEFT") THEN Nat ELSE {0})
                /\ Len(Text) >= Asked.width
                /\ Len(Text) > Len(t) + space => Len(Text) = Asked.width
                /\ Len(Text) <= Max({Asked.width, Max({len, Asked.precision}) + Len(head) + space})

\* %s and %c print the argument, cut at the precision, on the side of the field
\* that the - flag or a negative * width asks for.
TextIsExact ==
    Done /\ Asked.kind = "text" =>
        LET cut == IF Asked.precision = -1 THEN Asked.s ELSE SubSeq(Asked.s, 1, Min({Asked.precision, Len(Asked.s)}))
            blanks == Max({Asked.width - Len(cut), 0})
            from == IF Has("LEFT") THEN 1 ELSE blanks + 1
        IN  /\ Len(Text) = Len(cut) + blanks
            /\ SubSeq(Text, from, from + Len(cut) - 1) = cut
            /\ \A k \in DOMAIN Text : k \notin from .. from + Len(cut) - 1 => Text[k] = " "

Find(s, c) == Min({Len(s) + 1} \cup {k \in DOMAIN s : s[k] = c})
Without(s, cs) == SelectSeq(s, LAMBDA c : c \notin cs)

\* The number to be printed, and to how many places, before the exponent.
FormOf(n) ==
    LET flags == (IF Asked.precision = -1 THEN {} ELSE {"PRECISION"})
                 \cup (IF Asked.conv = "g" THEN {"ADAPT_EXP"} ELSE {})
        asked == IF Asked.precision = -1 THEN PRINTF_DEFAULT_FLOAT_PRECISION ELSE Asked.precision
    IN  IF Asked.conv = "f" /\ n <= 1000 * PRINTF_MAX_FLOAT THEN [num |-> n, den |-> 1000, prec |-> asked]
        ELSE etoa_form(n, Asked.precision, flags)

\* The decimals are nines up to the last place and a half beyond it.
HalfwayToWhole(form) ==
    LET unit == 10 ^ Min({form.prec, MaxPrecision})
    IN  unit > 1 /\ 2 * unit * (form.num % form.den) = (2 * unit - 1) * form.den

\* A real number is printed rounded to the number of decimals asked for, or to
\* MaxPrecision of them and zeros: the text is within half a unit of that place,
\* and with %f the even one of two equally near ones, or the one above 0
\* (_ftoa's rollover, 0.99 to one place is 1.0, and its halfway cases, the
\* scaling of _etoa, the change from %f to %e and from %g to %f).  Not so for
\* 0.95 to one place or 0.995 to two: the halfway case does not carry into the
\* whole part, and zeros take the place of it and of the point.
RealsAreRounded ==
    Done /\ Asked.kind = "real" =>
        LET abs == IF Asked.n < 0 THEN 0 - Asked.n ELSE Asked.n
            t == NoSpaces(Text)
            mark == Min({Find(t, "e"), Find(t, "E")})
            mantissa == Without(SubSeq(t, 1, mark - 1), {"+", "-"})
            decimals == Max({Len(mantissa) - Find(mantissa, "."), 0})
            m == ValueOf(Without(mantissa, {"."}), 10)
            e == SubSeq(t, mark + 1, Len(t))
            exp == IF e = <<>> THEN 0
                   ELSE (IF e[1] = "-" THEN -1 ELSE 1) * ValueOf(Without(e, {"+", "-"}), 10)
            unit == 1000 * 10 ^ Max({exp, 0})
            exact == abs * 10 ^ (decimals + Max({0 - exp, 0}))
            error == 2 * (exact - m * unit)
            half == unit * 10 ^ Max({decimals - MaxPrecision, 0})
            asked == IF Asked.precision = -1 THEN PRINTF_DEFAULT_FLOAT_PRECISION ELSE Asked.precision
        IN  ~HalfwayToWhole(FormOf(abs)) =>
            /\ (t[1] = "-") <=> (Asked.n < 0)
            /\ abs = 0 => m = 0
            /\ abs > 0 => /\ -half <= error /\ error <= half
                          /\ exp = 0 /\ half = unit /\ error \in {-unit, unit}
                                => m % 2 = 0 \/ (error < 0 /\ (m - 1) % 10 ^ decimals = 0)
            /\ Asked.conv \in {"f", "e"} => decimals = asked
            /\ Len(Text) >= Asked.width
=============================================================================
