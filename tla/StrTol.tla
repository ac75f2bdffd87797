------------------------------- MODULE StrTol -------------------------------
(***************************************************************************)
(* strtol of lib/string.c.  Of the letters, a to f are modelled.           *)
(***************************************************************************)
EXTENDS Integers, SequencesExt, FiniteSetsExt

CONSTANT LongSize   \* how many values a long has, 2^32 in the code

NUL == "NUL"
Digits == <<"0", "1", "2", "3", "4", "5", "6", "7", "8", "9",
            "a", "b", "c", "d", "e", "f">>
dig(c) == CHOOSE v \in 0 .. 15 : Digits[v + 1] = c
IsDigit(c, base) == \E v \in 0 .. 15 : Digits[v + 1] = c /\ v < base

\* The character at p, and the first place from p on without one of cs.
At(s, p) == IF p <= Len(s) THEN s[p] ELSE NUL
After(s, p, cs) == Min({q \in p .. Len(s) + 1 : At(s, q) \notin cs})

\* Mutant: the prefix is only expected when the base is to be found out.
HexPrefix_0(s, p, base) == base = 0 /\ At(s, p) = "0" /\ At(s, p + 1) = "x"

HexPrefix(s, p, base) == base \in {0, 16} /\ At(s, p) = "0" /\ At(s, p + 1) = "x"
OctalPrefix(s, p, base) == base = 0 /\ At(s, p) = "0"

\* The number that digits write, as the bits of a long: overflow goes unnoticed.
Read(cs, radix) ==
  LET val[k \in 0 .. Len(cs)] ==
        IF k = 0 THEN 0 ELSE (val[k - 1] * radix + dig(cs[k])) % LongSize
  IN  val[Len(cs)]

\* The value, and where the digits end.
strtol(s, base) ==
  LET sign  == After(s, 1, {" ", "TAB"})
      first == IF At(s, sign) \in {"+", "-"} THEN sign + 1 ELSE sign
      hex   == HexPrefix(s, first, base)
      octal == ~hex /\ OctalPrefix(s, first, base)
      radix == CASE hex -> 16 [] octal -> 8 [] base # 0 /\ ~hex -> base [] OTHER -> 10
      start == CASE hex -> first + 2 [] octal -> first + 1 [] OTHER -> first
      end   == After(s, start, {c \in ToSet(Digits) : IsDigit(c, radix)})
      val   == Read(SubSeq(s, start, end - 1), radix)
  IN  [val |-> IF At(s, sign) = "-" THEN (-val) % LongSize ELSE val,
       end |-> end]
=============================================================================
