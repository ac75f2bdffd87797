------------------------------ MODULE ReadBack ------------------------------
(***************************************************************************)
(* What printfmt.c prints, read by strtol: the two translate between       *)
(* numbers and digits in opposite directions and share no code.            *)
(***************************************************************************)
EXTENDS PrintFmt

Lib == INSTANCE StrTol WITH LongSize <- Pow(2, IntBits)

\* The bases in which strtol should read a conversion.  A decimal padded with
\* zeros would be taken for octal when no base is given.
BasesOf(p) ==
  CASE p.conv = "p" -> {0, 16}
    [] p.conv = "d" -> IF p.pad = "0" THEN {10} ELSE {0, 10}
    [] OTHER -> {Base[p.conv]}

\* A number that is not padded between its sign or 0x and its digits.
Unbroken(p) == p.pad = "0" \/ p.width = << >> \/ p.conv \in DOMAIN Base

\* A number reads back as itself, as far as a long holds it, and all of it is
\* read, whatever its size, sign and width, and with the prefix of %p also
\* when no base is given.
ReadsBack ==
  /\ Returned
  /\ Len(format) = 1
  /\ Numeric(format[1]) /\ Unbroken(format[1]) /\ format[1].pad # "-"
  => \A base \in BasesOf(format[1]) :
       Lib!strtol(out, base) =
         [val |-> args[Len(args)] % Pow(2, IntBits), end |-> Len(out) + 1]
=============================================================================
