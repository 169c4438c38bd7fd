------------------------------ MODULE MCFormat ------------------------------
(***************************************************************************)
(* Format for TLC: every combination of a few flags, widths, precisions,   *)
(* lengths, specifiers and values, written out as a format between two     *)
(* literal characters and followed by %%, into buffers of several sizes.   *)
(***************************************************************************)
EXTENDS Format

\* Characters of the width or precision n; -1 means that it is not given.
Number(n, star) == IF n = -1 THEN <<>> ELSE IF star THEN <<"*">> ELSE <<Digits[n + 1]>>
StarArg(n, star) == IF n # -1 /\ star THEN <<[n |-> n, s |-> <<>>]>> ELSE <<>>

Written(fs, w, p, star, length, c) ==
    <<"a", "%">> \o fs \o Number(w, star) \o (IF p = -1 THEN <<>> ELSE <<".">> \o Number(p, star))
    \o length \o <<c, "q", "%", "%">>

Call(kind, fs, w, p, star, length, bits, c, n, s, fct, maxlen) ==
    [format |-> Written(fs, w, p, star, length, c),
     va |-> StarArg(w, star) \o StarArg(p, star) \o <<[n |-> n, s |-> s]>>,
     out |-> fct, null |-> FALSE, maxlen |-> maxlen, piece |-> 2,
     spec |-> [kind |-> kind, flags |-> {FlagOf[fs[k]] : k \in DOMAIN fs}, width |-> Max({w, 0}),
               precision |-> p, bits |-> bits, conv |-> c, n |-> n, s |-> s]]

FlagSets == {<<>>, <<"0">>, <<"-">>, <<"+">>, <<" ">>, <<"#">>, <<"#", "0">>, <<"0", "+">>, <<"-", "+">>}

IntegerCalls ==
    {Call("integer", fs, w, p, star, <<>>, IntBits, c, n, <<>>, "_out_buffer", 12) :
        fs \in FlagSets, w \in {-1, 3, 9}, p \in {-1, 0, 2}, star \in BOOLEAN,
        c \in {"d", "u", "x", "o", "b"}, n \in {0, 5, -7, 0 - 2 ^ (IntBits - 1), 2 ^ IntBits - 1}}
LengthCalls ==
    {Call("integer", fs, w, -1, FALSE, lb[1], lb[2], c, n, <<>>, "_out_char", 1) :
        fs \in {<<>>, <<"0">>, <<"#">>}, w \in {-1, 4},
        lb \in {<<<<"h", "h">>, CharBits>>, <<<<"h">>, ShortBits>>, <<<<"l">>, LongBits>>,
                <<<<"l", "l">>, LongBits>>, <<<<"z">>, LongBits>>},
        c \in {"i", "u", "X"}, n \in {0, 9, -1, 2 ^ (LongBits - 1), 0 - 2 ^ (LongBits - 1)}}
TextCalls ==
    {Call("text", fs, w, p, star, <<>>, IntBits, "s", 0, s, "_out_buffer", maxlen) :
        fs \in {<<>>, <<"-">>, <<"0">>}, w \in {-1, 0, 2, 5}, p \in {-1, 0, 1, 3}, star \in BOOLEAN,
        s \in {<<>>, <<"x">>, <<"x", "y", "z", "y">>}, maxlen \in {0, 1, 4, 7, 8, 12}}
    \cup {Call("text", fs, w, -1, FALSE, <<>>, IntBits, "c", 0, <<c>>, fct, 4) :
             fs \in {<<>>, <<"-">>}, w \in {-1, 3}, c \in {"x", "NUL"}, fct \in {"_out_buffer", "_out_char"}}
\* The last two lie halfway between two numbers of one and of two decimals; _etoa
\* divides them by a power of ten, which is not exact for them.
RealArguments ==
    {0, 50, 125, 500, 625, 875, 990, 999, 1000, 1500, 2500, 9625, 9875, -990, -1500, 99900, 124875, 125125}
Halfway == {950, 995}
RealCalls ==
    {Call("real", fs, w, p, FALSE, <<>>, IntBits, cn[1], cn[2], <<>>, "_out_buffer", 12) :
        fs \in {<<>>, <<"0">>, <<"-">>, <<"+">>}, w \in {-1, 7}, p \in {-1, 0, 1, 3},
        cn \in {"f", "e", "g"} \X RealArguments \cup {"f", "g"} \X Halfway}
OtherCalls ==
    {[Call("other", fs, 4, -1, FALSE, <<>>, IntBits, c, n, s, "_out_buffer", 6) EXCEPT
         !.va = IF c = "!" THEN <<>> ELSE @] :
        fs \in {<<>>, <<"+">>}, c \in {"p", "F", "G", "!"}, n \in {0, 9625}, s \in {<<>>, <<"i", "n", "f">>}}
NegativeStar ==
    {[Call("text", <<"-">>, 3, -1, TRUE, <<>>, IntBits, "s", 0, <<"x">>, "_out_buffer", 9) EXCEPT
         !.format = <<"a", "%", "*", "s">>, !.va[1].n = -3]}
NullBuffer ==
    {[Call("text", <<>>, w, -1, FALSE, <<>>, IntBits, "s", 0, <<"x", "y">>, "_out_buffer", maxlen) EXCEPT
         !.null = TRUE] : w \in {-1, 5}, maxlen \in {0, 4, 12}}

MCCalls == IntegerCalls \cup LengthCalls \cup TextCalls \cup RealCalls \cup OtherCalls \cup NegativeStar
           \cup NullBuffer
=============================================================================
