----------------------------- MODULE MCTerminal -----------------------------
(***************************************************************************)
(* Terminal for TLC: three lines of two columns, glyphs of two columns and *)
(* one of spacing, and messages with text, line ends and one sequence of   *)
(* each family.                                                            *)
(***************************************************************************)
EXTENDS Terminal

MCFont == [a |-> {1}, b |-> {1, 2}, c4 |-> {2}] @@ ("!" :> {2})
MCLineGraphics == {"c4"}

CSI(s) == <<"ESC", "[">> \o s

MCMessages ==
    {<<"a", "b", "a">>, <<"b", "LF">>, <<"LF", "LF", "a">>, <<"a", "BS", "b">>, <<"CR", "TAB", "VT">>,
     CSI(<<"7", "m", "a">>), CSI(<<"m", "a">>), CSI(<<"1", ";", "3", "1", "m", "b">>),
     CSI(<<"4", "8", ";", "5", ";", "2", "0", "m">>), CSI(<<"3", "8", ";", "5", ";", "3", "0", "0", "m">>),
     CSI(<<"3", "8", ";", "2", ";", "9", "m">>),
     CSI(<<";", ";", ";", ";", "1", "H">>), CSI(<<"2", ";", "2", "H">>), CSI(<<"J">>), CSI(<<"1", "J">>), CSI(<<"2", "J">>),
     CSI(<<"K">>), CSI(<<"@">>), CSI(<<"P">>), CSI(<<"2", "A">>), CSI(<<"B">>),
     CSI(<<"1", ";", "2", "r">>), CSI(<<"4", "h", "b">>), CSI(<<"?", "2", "5", "l">>),
     CSI(<<"[", "a">>), <<"CSI", "a", "X">>, <<"ESC", "7", "a", "ESC", "8">>, <<"ESC", "c">>,
     <<"ESC", "M", "ESC", "D">>, <<"ESC", "(", "0", "a">>, <<"SO", "q", "SI">>,
     CSI(<<"1", "CAN">>), CSI(<<"3", "9", ";", "4", "9", ";", "2", "7", "m", "a">>),
     CSI(<<"2", "2", ";", "9", "1", ";", "1", "0", "4", "m", "b">>), CSI(<<"4", "2", "m">>) \o CSI(<<"2", "K">>),
     CSI(<<"s">>) \o CSI(<<"2", "d">>) \o CSI(<<"2", "G">>) \o CSI(<<"u">>),
     CSI(<<"C">>) \o CSI(<<"E">>) \o CSI(<<"D">>) \o CSI(<<"F">>), <<"ESC", "E", "ESC", "x", "a">>}

MCOverflow == <<"!", "LF">>
=============================================================================
