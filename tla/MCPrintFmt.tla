----------------------------- MODULE MCPrintFmt ----------------------------
(* PrintFmt with an int of 6 bits and a long long of 8, and formats of one *)
(* conversion with all its fields or of two with few, and formats that end *)
(* inside a conversion.  A precision does not begin with 0, which the code *)
(* takes for the flag.                                                     *)
EXTENDS ReadBack

Pad == {Blank, "-", "0"}
Number == {<< >>, <<"3">>, <<"*">>}
Full ==
  {Conversion(c, FALSE, w, << >>, l, d) :
     c \in Pad, w \in {<< >>, <<"4">>, <<"1", "0">>, <<"*">>}, l \in 0 .. 2,
     d \in {"d", "x"}}
  \cup {Conversion(c, a, w, p, 0, "s") :
          c \in Pad, a \in BOOLEAN, w \in Number, p \in {<< >>, <<"2">>, <<"*">>}}
Few ==
  {Conversion(Blank, FALSE, <<"2">>, <<"1">>, 1, d) :
     d \in {"d", "u", "o", "p", "s", "c", "e", "%"}}
  \cup {Unknown(<<"0", "2", "l", "z">>), Unknown(<<"*", "z">>)}

Padded == {Conversion("0", FALSE, <<"4">>, << >>, 0, d) : d \in {"u", "o", "p"}}

MCChar == {"a", "b", "t", "z", "NP", "(null)"}
MCFormats ==
  {<<p>> : p \in Full \cup Few \cup Padded} \cup {<<Text(<<"t">>), p, q>> : p, q \in Few}
    \cup {<<p, Unknown(cs)>> : p \in Few, cs \in {<< >>, <<"3", "l">>}}

\* -1, the least and the greatest of both sizes, and some between.
MCIntArg == {0, 9, 31, 32, 63}
MCLongLongArg == {10, 127, 128, 255}
MCStarArg == {-2, 1, 5}
MCStrArg == {NullString, << >>, <<"a", "NP", "b">>}
MCErrArg == {-3, -1, 0, 2}
=============================================================================
