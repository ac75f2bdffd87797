------------------------------ MODULE MCStrLib ------------------------------
(* StrLib with the words of the code in 12 bytes, so that regions of two   *)
(* words overlap by one or by some bytes, in both directions.              *)
EXTENDS StrLib

Call(f, dst, src, n, c, m) ==
  [f |-> f, dst |-> dst, src |-> src, n |-> n, c |-> c, mem |-> m]

\* Every byte is different, so a property can tell where each comes from.
Distinct == [a \in 0 .. 11 |-> 101 + a]

Moves ==
  {Call(f, e, t, n, 0, Distinct) :
     f \in {"memmove", "memcpy"}, e \in 0 .. 11, t \in 0 .. 11, n \in 0 .. 12}
Sets == {Call("memset", e, 0, n, c, Distinct) : e \in 0 .. 11, n \in 0 .. 12, c \in {7, 258}}

\* A string that ends at z, copied to where it is not.
Copies ==
  {Call(f, e, t, n, 0, [Distinct EXCEPT ![z] = 0]) :
     f \in {"strcpy", "strncpy", "strlcpy"}, e \in 0 .. 11, t \in 0 .. 11,
     n \in 0 .. 4, z \in 0 .. 11}
Extent(x) == IF x.f = "strcpy" THEN Min({j \in 0 .. 11 : x.mem[j] = 0}) - x.src + 1 ELSE x.n
Apart(x) ==
  \E z \in x.src .. 11 :
    x.mem[z] = 0 /\ (x.dst + Extent(x) <= x.src \/ z < x.dst)

\* Any contents of three bytes, one of them above 127, and zeros behind.
Contents == {[a \in 0 .. 11 |-> IF a < 3 THEN m[a] ELSE 0] : m \in [0 .. 2 -> {0, 97, 200}]}
Compares ==
  {Call(f, e, t, n, 0, m) :
     f \in {"strncmp", "memcmp"}, e \in 0 .. 3, t \in 0 .. 3, n \in 0 .. 3, m \in Contents}
  \cup {Call("strcmp", e, t, 0, 0, m) : e \in 0 .. 3, t \in 0 .. 3, m \in Contents}
Searches ==
  {Call(f, e, 0, n, c, m) :
     f \in {"strchr", "strfind", "memfind", "strlen", "strnlen"}, e \in 0 .. 3,
     n \in 0 .. 3, c \in {0, 97, -56}, m \in Contents}   \* -56: a char of 200

MCCalls ==
  {x \in Moves : x.dst + x.n <= 12 /\ x.src + x.n <= 12}
  \cup {x \in Sets : x.dst + x.n <= 12}
  \cup {x \in Copies : x.dst + Extent(x) <= 12 /\ Apart(x)}
  \cup Compares \cup Searches
=============================================================================
