---------------------------- MODULE StrLibProofs ----------------------------
(***************************************************************************)
(* The functions of lib/string.c do what they say, for memories and words  *)
(* of every size, whatever the overlap and the alignment of the regions.   *)
(*                                                                         *)
(* Each function is a loop, and its invariant says how far it has come:    *)
(* what is filled up to there, or what has been compared or passed over.   *)
(***************************************************************************)
EXTENDS StrLib, FiniteSetTheorems, WellFoundedInduction, TLAPS

Moves == {"memmove", "memcpy"}

Copies == {"strcpy", "strncpy", "strlcpy"}
Readers == {"strlen", "strnlen", "strcmp", "strncmp", "memcmp",
            "strchr", "strfind", "memfind"}

\* In memory m the destination is filled from lo to before hi, and nothing
\* else is changed.
Partly(m, lo, hi) ==
  \A a \in Addr :
    m[a] = IF a - call.dst \in lo .. hi - 1 THEN Filled[a - call.dst] ELSE Old[a]

\* r bytes are left to move, the first ones of the regions if the direction
\* flag is set and the last ones if not.
Moved(m, down, r) ==
  IF down
    THEN call.src < call.dst /\ Partly(m, r, call.n)
    ELSE /\ call.dst <= call.src \/ call.src + call.n <= call.dst
         /\ Partly(m, 0, call.n - r)

\* The place of a region where the next unit is, with r bytes left.
PlaceOf(p, down, r, u) == IF down THEN p + r - u ELSE p + call.n - r
-----------------------------------------------------------------------------
(* Arithmetic.                                                             *)

\* The least of some numbers.
LEMMA MinIs ==
  ASSUME NEW S \in SUBSET Nat, S # {}
  PROVE  Min(S) \in S /\ \A x \in S : Min(S) <= x
<1> DEFINE R == OpToRel(<, Nat)
<1>1. IsWellFoundedOn(R, Nat)
  BY NatLessThanWellFounded
<1>2. \A x, y \in Nat : <<x, y>> \in R <=> x < y
  BY DEF OpToRel
<1> HIDE DEF R
<1>3. IsWellFoundedOn(R, S)
  BY <1>1, IsWellFoundedOnSubset
<1>4. PICK m \in S : \A x \in S : ~(<<x, m>> \in R)
  BY <1>3, WFMin
<1>5. ASSUME NEW x \in S PROVE m <= x
  <2>1. x \in Nat /\ m \in Nat /\ ~(x < m)
    BY <1>2, <1>4
  <2> QED  BY <2>1
<1> QED  BY <1>5 DEF Min

\* A size of whole units is their number times the unit.
LEMMA WholeUnits ==
  ASSUME NEW n \in Nat, NEW u, u = 1 \/ (u = WORD /\ n % WORD = 0)
  PROVE  /\ u \in Nat \ {0} /\ n \div u \in Nat /\ (n \div u) * u = n
<1>1. WORD \in Nat \ {0}
  BY StrLibAssumption
<1>2. CASE u = 1
  <2>1. n \div 1 = n /\ n * 1 = n
    OBVIOUS
  <2> QED  BY <1>2, <2>1
<1>3. CASE u = WORD /\ n % WORD = 0
  <2>1. \A w \in Nat \ {0} : n \div w \in Nat /\ n = w * (n \div w) + (n % w)
    OBVIOUS
  <2>2. n \div WORD \in Nat /\ n = WORD * (n \div WORD) + (n % WORD)
    BY <1>1, <2>1
  <2> DEFINE q == n \div WORD
  <2> HIDE DEF q
  <2>3. q \in Nat /\ n = WORD * q + 0
    BY <1>3, <2>2 DEF q
  <2>4. n = q * WORD
    BY <1>1, <2>3
  <2> QED  BY <1>1, <1>3, <2>3, <2>4 DEF q
<1> QED  BY <1>2, <1>3

\* One round takes one unit of what is left.
LEMMA OneRound ==
  ASSUME NEW u \in Nat \ {0}, NEW m \in Nat, m > 0
  PROVE  /\ m - 1 \in Nat /\ (m - 1) * u = m * u - u /\ m * u - u \in Nat /\ m * u \in Nat
<1>1. PICK j \in Nat : m = j + 1
  <2>1. m - 1 \in Nat /\ m = (m - 1) + 1
    OBVIOUS
  <2> QED  BY <2>1
<1>2. (j + 1) * u = j * u + u /\ j * u \in Nat
  OBVIOUS
<1> QED  BY <1>1, <1>2
-----------------------------------------------------------------------------
(* What a legal call fills.                                                *)
LEMMA CallTyped ==
  ASSUME call \in Calls
  PROVE  /\ Old \in [Addr -> Byte] /\ SIZE \in Nat /\ Addr = 0 .. SIZE - 1
         /\ call.dst \in Addr /\ call.src \in Addr /\ call.n \in Nat /\ call.c \in Int
         /\ call.f \in Moves => call.dst + call.n <= SIZE /\ call.src + call.n <= SIZE
         /\ call.f \in {"memset", "memfind"} => call.dst + call.n <= SIZE
         /\ call.f = "memcmp" => call.dst + call.n <= SIZE /\ call.src + call.n <= SIZE
BY StrLibAssumption DEF Legal, Old, Addr, Moves

LEMMA MovesFill ==
  ASSUME call.f \in Moves
  PROVE  DOMAIN Filled = 0 .. call.n - 1
         /\ \A j \in 0 .. call.n - 1 : Filled[j] = Old[call.src + j]
BY DEF Filled, Moves

LEMMA SetsFill ==
  ASSUME call.f = "memset"
  PROVE  DOMAIN Filled = 0 .. call.n - 1
         /\ \A j \in 0 .. call.n - 1 : Filled[j] = Char
BY DEF Filled

LEMMA FilledStays ==
  ASSUME call' = call
  PROVE  Filled' = Filled /\ Old' = Old
BY DEF Filled, Old, Length

-----------------------------------------------------------------------------
(* memmove, memcpy and memset.                                             *)

\* The memory after one round of movs.
Copied(m, e, t, u) ==
  [a \in Addr |-> IF a - e \in 0 .. u - 1 THEN m[t + a - e] ELSE m[a]]

\* A round reads nothing that a round has written.
LEMMA MovesRound ==
  ASSUME call \in Calls, call.f \in Moves, NEW m \in [Addr -> Byte],
         NEW down \in BOOLEAN, NEW r \in Nat, r <= call.n,
         NEW u \in Nat \ {0}, u <= r, Moved(m, down, r),
         NEW e, e = PlaceOf(call.dst, down, r, u),
         NEW t, t = PlaceOf(call.src, down, r, u)
  PROVE  Moved(Copied(m, e, t, u), down, r - u) /\ Copied(m, e, t, u) \in [Addr -> Byte]
<1> DEFINE n == call.n
           D == call.dst
           S == call.src
           lo == IF down THEN r ELSE 0
           hi == IF down THEN n ELSE n - r
           m2 == Copied(m, e, t, u)
<1>1. /\ Old \in [Addr -> Byte] /\ SIZE \in Nat /\ Addr = 0 .. SIZE - 1
      /\ D \in Nat /\ S \in Nat /\ n \in Nat /\ D + n <= SIZE /\ S + n <= SIZE
      /\ r <= n
  BY CallTyped
<1>2. \A a \in Addr : m[a] = IF a - D \in lo .. hi - 1 THEN Filled[a - D] ELSE Old[a]
  BY DEF Moved, Partly
<1>3. \A j \in 0 .. n - 1 : Filled[j] = Old[S + j]
  BY MovesFill
<1>4. /\ down => S < D /\ e = D + r - u /\ t = S + r - u
      /\ ~down => (D <= S \/ S + n <= D) /\ e = D + n - r /\ t = S + n - r
  BY DEF Moved, PlaceOf
<1> HIDE DEF n, D, S
<1>5. ASSUME NEW a \in Addr, a - e \in 0 .. u - 1
      PROVE  /\ t + a - e \in Addr /\ m[t + a - e] = Old[S + (a - D)]
             /\ a - D \in 0 .. n - 1
             /\ a - D \in (IF down THEN r - u ELSE n - r) .. (IF down THEN r ELSE n - r + u) - 1
  <2> DEFINE b == t + a - e
  <2>1. /\ b = S + (a - D) /\ a - D \in 0 .. n - 1
        /\ a - D \in (IF down THEN r - u ELSE n - r) .. (IF down THEN r ELSE n - r + u) - 1
    BY <1>1, <1>4, <1>5
  <2>2. b \in Addr /\ b - D \notin lo .. hi - 1
    BY <1>1, <1>4, <2>1
  <2>3. m[b] = Old[b]
    BY <1>2, <2>2
  <2> QED  BY <2>1, <2>2, <2>3
<1> DEFINE lo2 == IF down THEN r - u ELSE 0
           hi2 == IF down THEN n ELSE n - (r - u)
<1>6. ASSUME NEW a \in Addr
      PROVE  m2[a] = IF a - D \in lo2 .. hi2 - 1 THEN Filled[a - D] ELSE Old[a]
  <2>1. CASE a - e \in 0 .. u - 1
    <3>1. m2[a] = m[t + a - e]
      BY <2>1 DEF Copied
    <3>2. a - D \in lo2 .. hi2 - 1
      BY <1>1, <1>5, <2>1
    <3> QED  BY <1>3, <1>5, <2>1, <3>1, <3>2
  <2>2. CASE a - e \notin 0 .. u - 1
    <3>1. m2[a] = m[a]
      BY <2>2 DEF Copied
    <3>2. a - D \in lo2 .. hi2 - 1 <=> a - D \in lo .. hi - 1
      BY <1>1, <1>4, <2>2
    <3> QED  BY <1>2, <3>1, <3>2
  <2> QED  BY <2>1, <2>2
<1>7. Moved(m2, down, r - u)
  BY <1>4, <1>6 DEF Moved, Partly, n, D, S
<1>8. m2 \in [Addr -> Byte]
  <2>1. \A a \in Addr : a - e \in 0 .. u - 1 => t + a - e \in Addr
    BY <1>5
  <2> QED  BY <2>1 DEF Copied
<1> QED  BY <1>7, <1>8

\* The bytes that are left are as the call found them.
LEMMA MovesReadOld ==
  ASSUME call \in Calls, call.f \in Moves, NEW m, NEW down \in BOOLEAN,
         NEW r \in Nat, r <= call.n, NEW u \in Nat, Moved(m, down, r), NEW j \in 0 .. r - 1,
         NEW t, t = PlaceOf(call.src, down, r, u)
  PROVE  /\ down => m[t + u - 1 - j] = Old[t + u - 1 - j]
         /\ ~down => m[t + j] = Old[t + j]
<1> DEFINE n == call.n
           D == call.dst
           S == call.src
           a == IF down THEN S + r - 1 - j ELSE S + n - r + j
<1>1. /\ SIZE \in Nat /\ Addr = 0 .. SIZE - 1
      /\ D \in Nat /\ S \in Nat /\ n \in Nat /\ S + n <= SIZE /\ r <= n
  BY CallTyped
<1>2. /\ \A b \in Addr : b - D \notin (IF down THEN r ELSE 0) .. (IF down THEN n ELSE n - r) - 1
                         => m[b] = Old[b]
      /\ IF down THEN S < D ELSE D <= S \/ S + n <= D
  BY DEF Moved, Partly
<1> HIDE DEF n, D, S
<1>3. a \in Addr /\ a - D \notin (IF down THEN r ELSE 0) .. (IF down THEN n ELSE n - r) - 1
  <2>1. r \in Nat /\ j \in 0 .. r - 1
    OBVIOUS
  <2>2. CASE down
    <3>1. a = S + r - 1 - j /\ S < D
      BY <1>2, <2>2
    <3>2. a \in Addr /\ a - D \notin r .. n - 1
      BY ONLY <1>1, <2>1, <3>1
    <3> QED  BY <2>2, <3>2
  <2>3. CASE ~down
    <3>1. a = S + n - r + j /\ (D <= S \/ S + n <= D)
      BY <1>2, <2>3
    <3>2. a \in Addr /\ a - D \notin 0 .. (n - r) - 1
      BY ONLY <1>1, <2>1, <3>1
    <3> QED  BY <2>3, <3>2
  <2> QED  BY <2>2, <2>3
<1>4. m[a] = Old[a]
  BY <1>2, <1>3
<1>5. (down => t + u - 1 - j = a) /\ (~down => t + j = a)
  BY <1>1 DEF PlaceOf, n, S
<1> QED  BY <1>4, <1>5

\* The memory after one round of stos.
Spread(m, e, u, b) == [a \in Addr |-> IF a - e \in 0 .. u - 1 THEN b ELSE m[a]]

LEMMA SetsRound ==
  ASSUME call \in Calls, call.f = "memset", NEW m \in [Addr -> Byte],
         NEW r \in Nat, r <= call.n, NEW u \in Nat \ {0}, u <= r,
         Partly(m, 0, call.n - r), NEW e, e = call.dst + call.n - r
  PROVE  /\ Partly(Spread(m, e, u, Char), 0, call.n - (r - u))
         /\ Spread(m, e, u, Char) \in [Addr -> Byte]
<1> DEFINE n == call.n
           D == call.dst
           b == Char
           m2 == Spread(m, e, u, b)
<1>1. /\ D \in Nat /\ n \in Nat /\ b \in Byte /\ SIZE \in Nat /\ Addr = 0 .. SIZE - 1 /\ r <= n
  <2>1. \A c \in Int : c % 256 \in 0 .. 255
    OBVIOUS
  <2>2. b \in Byte
    BY <2>1, CallTyped DEF Byte, Char
  <2> HIDE DEF b
  <2> QED  BY <2>2, CallTyped
<1>2. \A a \in Addr : m[a] = IF a - D \in 0 .. n - r - 1 THEN Filled[a - D] ELSE Old[a]
  BY DEF Partly
<1>3. \A j \in 0 .. n - 1 : Filled[j] = b
  BY SetsFill
<1>4. e = D + n - r
  OBVIOUS
<1> HIDE DEF n, D, b
<1>5. ASSUME NEW a \in Addr
      PROVE  m2[a] = IF a - D \in 0 .. n - (r - u) - 1 THEN Filled[a - D] ELSE Old[a]
  <2>1. CASE a - e \in 0 .. u - 1
    <3>1. a - D \in 0 .. n - (r - u) - 1 /\ a - D \in 0 .. n - 1
      BY <1>1, <1>4, <2>1
    <3> QED  BY <1>3, <2>1, <3>1 DEF Spread
  <2>2. CASE a - e \notin 0 .. u - 1
    <3>1. m2[a] = m[a]
      BY <2>2 DEF Spread
    <3>2. a - D \in 0 .. n - (r - u) - 1 <=> a - D \in 0 .. n - r - 1
      BY <1>1, <1>4, <2>2
    <3> QED  BY <1>2, <3>1, <3>2
  <2> QED  BY <2>1, <2>2
<1>6. Partly(m2, 0, n - (r - u))
  BY <1>5 DEF Partly, D
<1>7. m2 \in [Addr -> Byte]
  BY <1>1 DEF Spread
<1> QED  BY <1>6, <1>7 DEF n, b
-----------------------------------------------------------------------------
(* Copies of strings.                                                      *)

\* The terminator of a string is the first zero byte.
LEMMA LengthIs ==
  ASSUME call \in Calls, NEW p \in Addr, NEW z \in Addr, z >= p, Old[z] = 0
  PROVE  /\ Length(p) \in Nat /\ p + Length(p) <= z /\ p + Length(p) \in Addr
         /\ Old[p + Length(p)] = 0
         /\ \A j \in Nat : j < Length(p) => Old[p + j] # 0
<1> DEFINE N == {j \in 0 .. SIZE - 1 - p : Old[p + j] = 0}
<1>1. SIZE \in Nat /\ Addr = 0 .. SIZE - 1
  BY CallTyped
<1>2. z - p \in N /\ N \in SUBSET Nat
  <2>1. z - p \in 0 .. SIZE - 1 - p /\ p + (z - p) = z /\ z - p \in Nat
    BY <1>1
  <2> QED  BY <2>1
<1>3. Min(N) \in N /\ \A x \in N : Min(N) <= x
  BY <1>2, MinIs
<1>4. Length(p) = Min(N)
  BY DEF Length
<1> DEFINE l == Length(p)
<1>5. l \in 0 .. SIZE - 1 - p /\ Old[p + l] = 0 /\ l <= z - p
  BY <1>2, <1>3, <1>4
<1>6. ASSUME NEW j \in Nat, j < l, Old[p + j] = 0 PROVE FALSE
  <2>1. j \in 0 .. SIZE - 1 - p
    BY <1>1, <1>5, <1>6
  <2>2. l <= j
    BY <1>3, <1>4, <1>6, <2>1
  <2> QED  BY <1>5, <1>6, <2>2
<1> HIDE DEF l
<1>7. l \in Nat /\ p + l <= z /\ p + l \in Addr
  BY <1>1, <1>5
<1> QED  BY <1>5, <1>6, <1>7 DEF l

\* A copied string ends, and lies where nothing is written.
LEMMA CopyLegal ==
  ASSUME call \in Calls, call.f \in Copies
  PROVE  LET len  == Length(call.src)
             size == IF call.f = "strcpy" THEN len + 1 ELSE call.n
         IN  /\ len \in Nat /\ call.src + len \in Addr /\ Old[call.src + len] = 0
             /\ \A j \in Nat : j < len => Old[call.src + j] # 0
             /\ call.dst + size <= SIZE
             /\ call.dst + size <= call.src \/ call.src + len < call.dst
<1> DEFINE len == Length(call.src)
           D == call.dst
           S == call.src
           n == call.n
<1>1. PICK z \in Addr :
        /\ z >= S /\ Old[z] = 0
        /\ LET end == D + IF call.f = "strcpy" THEN z - S + 1 ELSE n
           IN  end <= SIZE /\ (end <= S \/ z < D)
  BY StrLibAssumption DEF Legal, Zeros, Old, Copies
<1>2. SIZE \in Nat /\ Addr = 0 .. SIZE - 1 /\ D \in Nat /\ S \in Addr /\ S \in Nat /\ n \in Nat
  BY CallTyped
<1>3. /\ len \in Nat /\ S + len <= z /\ S + len \in Addr /\ Old[S + len] = 0
      /\ \A j \in Nat : j < len => Old[S + j] # 0
  BY <1>1, <1>2, LengthIs
<1> HIDE DEF len, D, S, n
<1>4. LET size == IF call.f = "strcpy" THEN len + 1 ELSE n
      IN  D + size <= SIZE /\ (D + size <= S \/ S + len < D)
  BY <1>1, <1>2, <1>3
<1> QED  BY <1>3, <1>4 DEF len, D, S, n

LEMMA CopiesFill ==
  ASSUME call.f \in Copies
  PROVE  LET len == Length(call.src)
             n   == call.n
         IN  /\ call.f = "strcpy" => Filled = [j \in 0 .. len |-> Old[call.src + j]]
             /\ call.f = "strncpy" =>
                  Filled = [j \in 0 .. n - 1 |-> IF j < len THEN Old[call.src + j] ELSE 0]
             /\ call.f = "strlcpy" =>
                  Filled = [j \in 0 .. Min({len, n - 1}) |->
                              IF j < n - 1 THEN Old[call.src + j] ELSE 0]
BY DEF Filled, Copies

\* The byte that is read is as the call found it.
LEMMA CopyReadsOld ==
  ASSUME call \in Calls, call.f \in Copies, NEW m, NEW q \in Nat, NEW j \in Nat,
         Partly(m, 0, q), j <= Length(call.src),
         q <= IF call.f = "strcpy" THEN Length(call.src) + 1 ELSE call.n
  PROVE  call.src + j \in Addr /\ m[call.src + j] = Old[call.src + j]
<1> DEFINE len == Length(call.src)
           D == call.dst
           S == call.src
           size == IF call.f = "strcpy" THEN len + 1 ELSE call.n
<1>1. /\ SIZE \in Nat /\ Addr = 0 .. SIZE - 1 /\ D \in Nat /\ S \in Nat
      /\ len \in Nat /\ S + len \in Addr /\ (D + size <= S \/ S + len < D)
      /\ j <= len /\ q <= size
  BY CallTyped, CopyLegal
<1>2. \A a \in Addr : a - D \notin 0 .. q - 1 => m[a] = Old[a]
  BY DEF Partly
<1>3. size \in Nat
  <2>1. call.n \in Nat /\ len \in Nat
    BY <1>1, CallTyped
  <2> HIDE DEF len
  <2> QED  BY <2>1
<1> HIDE DEF len, D, S, size
<1>4. S + j \in Addr /\ (S + j) - D \notin 0 .. q - 1
  BY <1>1, <1>3
<1> QED  BY <1>2, <1>4 DEF S

\* Writing one byte more.
LEMMA OneMore ==
  ASSUME call \in Calls, NEW m \in [Addr -> Byte], NEW q \in Nat, Partly(m, 0, q),
         NEW b, b = Filled[q], b \in Byte
  PROVE  LET m2 == [m EXCEPT ![call.dst + q] = b]
         IN  Partly(m2, 0, q + 1) /\ m2 \in [Addr -> Byte]
<1> DEFINE D == call.dst
           m2 == [m EXCEPT ![D + q] = b]
<1>1. D \in Nat /\ SIZE \in Nat /\ Addr = 0 .. SIZE - 1
  BY CallTyped
<1>2. \A a \in Addr : m[a] = IF a - D \in 0 .. q - 1 THEN Filled[a - D] ELSE Old[a]
  BY DEF Partly
<1> HIDE DEF D
<1>3. ASSUME NEW a \in Addr
      PROVE  m2[a] = IF a - D \in 0 .. q THEN Filled[a - D] ELSE Old[a]
  <2>1. CASE a = D + q
    <3>1. m2[a] = b /\ a - D = q
      BY <1>1, <2>1
    <3> QED  BY <3>1
  <2>2. CASE a # D + q
    <3>1. m2[a] = m[a]
      BY <2>2
    <3>2. a - D \in 0 .. q <=> a - D \in 0 .. q - 1
      BY <1>1, <2>2
    <3> QED  BY <1>2, <3>1, <3>2
  <2> QED  BY <2>1, <2>2
<1>4. m2 \in [Addr -> Byte]
  OBVIOUS
<1>5. (q + 1) - 1 = q
  OBVIOUS
<1>6. Partly(m2, 0, q + 1)
  BY <1>3, <1>5 DEF Partly, D
<1> QED  BY <1>4, <1>6 DEF D

LEMMA MinTwo ==
  ASSUME NEW x \in Int, NEW y \in Int
  PROVE  Min({x, y}) = IF x <= y THEN x ELSE y
<1> DEFINE m == IF x <= y THEN x ELSE y
<1>1. m \in {x, y} /\ \A z \in {x, y} : m <= z
  OBVIOUS
<1>2. \A w \in {x, y} : (\A z \in {x, y} : w <= z) => w = m
  OBVIOUS
<1>3. Min({x, y}) \in {x, y} /\ \A z \in {x, y} : Min({x, y}) <= z
  BY <1>1 DEF Min
<1> QED  BY <1>2, <1>3

\* Whether the memory is as the call should leave it.
AsFilled(m) ==
  \A a \in Addr :
    m[a] = IF a - call.dst \in DOMAIN Filled THEN Filled[a - call.dst] ELSE Old[a]

\* A turn of strcpy.
LEMMA StrcpyTurn ==
  ASSUME call \in Calls, call.f = "strcpy", NEW m \in [Addr -> Byte],
         NEW q \in Nat, q <= Length(call.src), Partly(m, 0, q)
  PROVE  LET m2 == [m EXCEPT ![call.dst + q] = m[call.src + q]]
         IN  /\ m2 \in [Addr -> Byte]
             /\ m[call.src + q] = 0 => AsFilled(m2)
             /\ m[call.src + q] # 0 => q + 1 <= Length(call.src) /\ Partly(m2, 0, q + 1)
<1> DEFINE len == Length(call.src)
           S == call.src
           b == m[S + q]
           m2 == [m EXCEPT ![call.dst + q] = b]
<1>1. /\ call.f \in Copies /\ len \in Nat /\ S \in Nat /\ Old[S + len] = 0
      /\ \A j \in Nat : j < len => Old[S + j] # 0
  BY CallTyped, CopyLegal DEF Copies
<1>2. Filled = [j \in 0 .. len |-> Old[S + j]]
  BY <1>1, CopiesFill
<1>3. S + q \in Addr /\ b = Old[S + q] /\ q <= len
  <2>1. q <= len + 1
    BY <1>1
  <2> QED  BY <1>1, <2>1, CopyReadsOld
<1> HIDE DEF len, S
<1>4. b \in Byte
  BY <1>3
<1>5. b = Filled[q]
  BY <1>1, <1>2, <1>3 DEF len
<1> HIDE DEF b
<1>6. Partly(m2, 0, q + 1) /\ m2 \in [Addr -> Byte]
  BY <1>4, <1>5, OneMore
<1> HIDE DEF m2
<1>7. ASSUME b = 0 PROVE AsFilled(m2)
  <2>1. ~(q < len)
    BY <1>1, <1>3, <1>7
  <2>2. DOMAIN Filled = 0 .. (q + 1) - 1
    BY <1>1, <1>2, <1>3, <2>1
  <2> QED  BY <1>6, <2>2 DEF AsFilled, Partly
<1>8. ASSUME b # 0 PROVE q + 1 <= len
  <2>1. q # len
    BY <1>1, <1>3, <1>8
  <2> QED  BY <1>1, <2>1 DEF len
<1> QED  BY <1>6, <1>7, <1>8 DEF len, S, b, m2

\* A turn of strncpy, which goes on with zeros behind the terminator.
LEMMA StrncpyTurn ==
  ASSUME call \in Calls, call.f = "strncpy", NEW m \in [Addr -> Byte],
         NEW q \in Nat, q < call.n, Partly(m, 0, q)
  PROVE  LET t  == call.src + Min({q, Length(call.src)})
             m2 == [m EXCEPT ![call.dst + q] = m[t]]
         IN  /\ m2 \in [Addr -> Byte] /\ Partly(m2, 0, q + 1)
             /\ call.src + Min({q + 1, Length(call.src)}) = IF m[t] # 0 THEN t + 1 ELSE t
<1> DEFINE len == Length(call.src)
           S == call.src
           n == call.n
           j == Min({q, len})
           t == S + j
           b == m[t]
           m2 == [m EXCEPT ![call.dst + q] = b]
<1>1. /\ call.f \in Copies /\ len \in Nat /\ Old[S + len] = 0
      /\ \A i \in Nat : i < len => Old[S + i] # 0
  BY CopyLegal DEF Copies
<1>2. n \in Nat /\ S \in Int /\ q < n
  BY CallTyped
<1>3. Filled = [i \in 0 .. n - 1 |-> IF i < len THEN Old[S + i] ELSE 0]
  BY <1>1, CopiesFill
<1>4. /\ j = IF q <= len THEN q ELSE len
      /\ Min({q + 1, len}) = IF q + 1 <= len THEN q + 1 ELSE len
  BY <1>1, MinTwo
<1>5. S + j \in Addr /\ b = Old[S + j]
  <2>1. j \in Nat /\ j <= len /\ q <= n
    BY <1>1, <1>2, <1>4
  <2> QED  BY <1>1, <2>1, CopyReadsOld
<1>6. b \in Byte
  BY <1>5
<1>7. t = S + j
  OBVIOUS
<1> HIDE DEF len, S, j, t, n, b
<1>8. b = Filled[q] /\ (b # 0 <=> q < len)
  <2>1. q \in 0 .. n - 1
    BY <1>2
  <2>2. Filled[q] = IF q < len THEN Old[S + q] ELSE 0
    BY <1>3, <2>1
  <2>3. CASE q < len
    <3>1. j = q /\ Old[S + q] # 0
      BY <1>1, <1>4, <2>3
    <3> QED  BY <1>5, <2>2, <2>3, <3>1
  <2>4. CASE ~(q < len)
    <3>1. j = len
      BY <1>1, <1>4, <2>4
    <3> QED  BY <1>1, <1>5, <2>2, <2>4, <3>1
  <2> QED  BY <2>3, <2>4
<1>9. Partly(m2, 0, q + 1) /\ m2 \in [Addr -> Byte]
  BY <1>6, <1>8, OneMore
<1>10. S + Min({q + 1, len}) = IF b # 0 THEN t + 1 ELSE t
  BY <1>1, <1>2, <1>4, <1>7, <1>8
<1> QED  BY <1>9, <1>10 DEF b, t, j, len, S

\* A turn of strlcpy, which keeps a place for the terminator.
LEMMA StrlcpyTurn ==
  ASSUME call \in Calls, call.f = "strlcpy", NEW m \in [Addr -> Byte],
         NEW q \in Nat, q < call.n, q <= Length(call.src), Partly(m, 0, q)
  PROVE  LET b    == m[call.src + q]
             goes == call.n - q > 1 /\ b # 0
             m2   == [m EXCEPT ![call.dst + q] = IF goes THEN b ELSE 0]
         IN  /\ m2 \in [Addr -> Byte]
             /\ goes => q + 1 <= Length(call.src) /\ Partly(m2, 0, q + 1)
             /\ ~goes => AsFilled(m2) /\ q = Min({Length(call.src), call.n - 1})
<1> DEFINE len == Length(call.src)
           S == call.src
           n == call.n
           last == Min({len, n - 1})
           b == m[S + q]
           goes == n - q > 1 /\ b # 0
           c == IF goes THEN b ELSE 0
           m2 == [m EXCEPT ![call.dst + q] = c]
<1>1. /\ call.f \in Copies /\ len \in Nat /\ Old[S + len] = 0
      /\ \A i \in Nat : i < len => Old[S + i] # 0
  BY CopyLegal DEF Copies
<1>2. n \in Nat /\ q < n /\ q <= len
  BY CallTyped
<1>3. Filled = [i \in 0 .. last |-> IF i < n - 1 THEN Old[S + i] ELSE 0]
  BY <1>1, CopiesFill
<1>4. last = IF len <= n - 1 THEN len ELSE n - 1
  BY <1>1, <1>2, MinTwo
<1>5. S + q \in Addr /\ b = Old[S + q]
  <2>1. q <= n
    BY <1>2
  <2> QED  BY <1>1, <1>2, <2>1, CopyReadsOld
<1>6. b \in Byte
  BY <1>5
<1> HIDE DEF len, S, last, n, b
<1>7. b # 0 <=> q < len
  BY <1>1, <1>2, <1>5
<1>8. goes <=> q < last
  BY <1>1, <1>2, <1>4, <1>7
<1>9. ~goes => q = last
  BY <1>1, <1>2, <1>4, <1>8
<1>10. c \in Byte
  BY <1>6 DEF Byte
<1>11. c = Filled[q]
  <2>1. q \in 0 .. last
    BY <1>1, <1>2, <1>4
  <2>2. Filled[q] = IF q < n - 1 THEN Old[S + q] ELSE 0
    BY <1>3, <2>1
  <2>3. CASE goes
    <3>1. q < n - 1
      BY <1>2, <2>3
    <3> QED  BY <1>5, <2>2, <2>3, <3>1
  <2>4. CASE ~goes
    <3>1. ~(q < n - 1) \/ b = 0
      BY <1>2, <2>4
    <3> QED  BY <1>5, <2>2, <2>4, <3>1
  <2> QED  BY <2>3, <2>4
<1> HIDE DEF c, goes
<1>12. Partly(m2, 0, q + 1) /\ m2 \in [Addr -> Byte]
  BY <1>10, <1>11, OneMore
<1> HIDE DEF m2
<1>13. ASSUME ~goes PROVE AsFilled(m2)
  <2>1. DOMAIN Filled = 0 .. (q + 1) - 1
    BY <1>3, <1>9, <1>13
  <2> QED  BY <1>12, <2>1 DEF AsFilled, Partly
<1>14. goes => q + 1 <= len
  BY <1>1, <1>2, <1>4, <1>8
<1> QED  BY <1>9, <1>12, <1>13, <1>14 DEF len, S, last, n, b, goes, c, m2
-----------------------------------------------------------------------------
(* The loops that only read.                                               *)

\* Whether a loop goes on at the j-th byte.
Goes(j) ==
  LET a == Old[call.dst + j]
      b == Old[call.src + j]
  IN  /\ call.f \in {"strnlen", "strncmp", "memcmp", "memfind"} => j < call.n
      /\ call.f \in {"strlen", "strnlen", "strcmp", "strncmp", "strchr", "strfind"} => a # 0
      /\ call.f \in {"strcmp", "strncmp", "memcmp"} => a = b
      /\ call.f \in {"strchr", "strfind", "memfind"} => a # Char

\* What it returns if it stops there.
Result(j) ==
  LET a == Old[call.dst + j]
      b == Old[call.src + j]
  IN  CASE call.f \in {"strlen", "strnlen"} -> j
        [] call.f = "strcmp" -> a - b
        [] call.f \in {"strncmp", "memcmp"} -> IF j = call.n THEN 0 ELSE a - b
        [] call.f = "strchr" -> IF a = 0 THEN NULL ELSE call.dst + j
        [] call.f \in {"strfind", "memfind"} -> call.dst + j

\* The loop has gone on for j bytes.
Read(j) == \A i \in Nat : i < j => Goes(i)

Strings(p) == \E z \in Addr : z >= p /\ Old[z] = 0

LEMMA ReaderLegal ==
  ASSUME call \in Calls
  PROVE  /\ call.f \in {"strlen", "strnlen", "strchr", "strfind", "strcmp", "strncmp"} =>
              Strings(call.dst)
         /\ call.f \in {"strcmp", "strncmp"} => Strings(call.src)
         /\ call.f = "memcmp" => call.dst + call.n <= SIZE /\ call.src + call.n <= SIZE
         /\ call.f = "memfind" => call.dst + call.n <= SIZE
BY StrLibAssumption DEF Legal, Zeros, Old, Strings

\* A loop over a string stays inside it.
LEMMA InsideString ==
  ASSUME call \in Calls, NEW p \in Addr, Strings(p), NEW q \in Nat,
         \A i \in Nat : i < q => Old[p + i] # 0
  PROVE  /\ q <= Length(p) /\ p + q \in Addr /\ Length(p) \in Nat
         /\ Old[p + Length(p)] = 0
         /\ Old[p + q] = 0 => q = Length(p)
<1>1. PICK z \in Addr : z >= p /\ Old[z] = 0
  BY DEF Strings
<1> DEFINE len == Length(p)
<1>2. /\ len \in Nat /\ p + len <= z /\ p + len \in Addr /\ Old[p + len] = 0
      /\ \A j \in Nat : j < len => Old[p + j] # 0
  BY <1>1, LengthIs
<1>3. SIZE \in Nat /\ Addr = 0 .. SIZE - 1
  BY CallTyped
<1> HIDE DEF len
<1>4. ~(len < q)
  BY <1>2
<1>5. p \in Nat
  BY <1>3
<1>6. q <= len /\ p + q \in Addr
  BY <1>2, <1>3, <1>4, <1>5
<1>7. ASSUME Old[p + q] = 0 PROVE q = len
  <2>1. ~(q < len)
    BY <1>2, <1>5, <1>7
  <2> QED  BY <1>2, <1>6, <2>1
<1> QED  BY <1>2, <1>6, <1>7 DEF len

\* The first place that stops a search.
LEMMA FoundIs ==
  ASSUME call \in Calls, NEW stops, NEW q \in Nat,
         NEW e \in Nat, e = IF call.f \in {"memfind", "strnlen"} THEN call.dst + call.n ELSE SIZE,
         call.dst + q <= e,
         \/ call.dst + q = e
         \/ call.dst + q \in Addr /\ Old[call.dst + q] \in stops,
         \A i \in Nat : i < q => Old[call.dst + i] \notin stops
  PROVE  Found(stops) = call.dst + q
<1> DEFINE D == call.dst
           F == {e} \cup {p \in Addr : p >= D /\ Old[p] \in stops}
<1>1. SIZE \in Nat /\ Addr = 0 .. SIZE - 1 /\ D \in Nat /\ D + q <= e
  BY CallTyped
<1>2. F \in SUBSET Nat /\ e \in F
  BY <1>1
<1>3. Min(F) \in F /\ \A x \in F : Min(F) <= x
  BY <1>2, MinIs
<1>4. Found(stops) = Min(F)
  BY DEF Found
<1>5. D + q \in F
  BY <1>1
<1>6. ASSUME NEW x \in F PROVE ~(x < D + q)
  <2> SUFFICES ASSUME x < D + q PROVE FALSE
    OBVIOUS
  <2>1. x \in Addr /\ x >= D /\ Old[x] \in stops
    BY <1>1
  <2>2. x - D \in Nat /\ x - D < q /\ D + (x - D) = x
    BY <1>1, <2>1
  <2>3. Old[D + (x - D)] \notin stops
    BY <2>2
  <2> QED  BY <2>1, <2>2, <2>3
<1>7. \A m \in Nat : ~(m < D + q) /\ m <= D + q => m = D + q
  BY <1>1
<1>8. Min(F) = D + q
  BY <1>2, <1>3, <1>5, <1>6, <1>7
<1> QED  BY <1>4, <1>8

LEMMA SearchesAreRight ==
  ASSUME call \in Calls, call.f \in {"strlen", "strnlen", "strchr", "strfind", "memfind"},
         NEW q \in Nat, Read(q), ~Goes(q)
  PROVE  RightResult(Result(q))
<1> DEFINE D == call.dst
           n == call.n
           a == Old[D + q]
<1>1. /\ SIZE \in Nat /\ Addr = 0 .. SIZE - 1 /\ D \in Nat /\ D \in Addr /\ n \in Nat
      /\ call.f = "memfind" => D + n <= SIZE
  BY CallTyped
<1>2. call.f \in {"strlen", "strnlen", "strchr", "strfind"} => D + q \in Addr
  <2>1. ASSUME call.f \in {"strlen", "strnlen", "strchr", "strfind"} PROVE D + q \in Addr
    <3>1. Strings(D)
      BY <2>1, ReaderLegal
    <3>2. \A i \in Nat : i < q => Old[D + i] # 0
      BY <2>1 DEF Read, Goes
    <3> QED  BY <1>1, <3>1, <3>2, InsideString
  <2> QED  BY <2>1
<1>3. call.f \in {"strnlen", "memfind"} => q <= n
  <2>1. ASSUME call.f \in {"strnlen", "memfind"}, ~(q <= n) PROVE FALSE
    <3>1. n < q
      BY <1>1, <2>1
    <3>2. n < n
      BY <1>1, <2>1, <3>1 DEF Read, Goes
    <3> QED  BY <1>1, <3>2
  <2> QED  BY <2>1
<1>4. CASE call.f \in {"strlen", "strnlen"}
  <2>1. \A i \in Nat : i < q => Old[D + i] \notin {0}
    BY <1>4 DEF Read, Goes
  <2>2. (call.f = "strnlen" /\ q = n) \/ a = 0
    <3>1. a = 0 \/ (call.f = "strnlen" /\ ~(q < n))
      BY <1>4 DEF Goes
    <3> QED  BY <1>1, <1>3, <3>1
  <2>3. Found({0}) = D + q
    <3> DEFINE e == IF call.f = "strnlen" THEN D + n ELSE SIZE
    <3>1. e \in Nat /\ D + q <= e /\ (D + q = e \/ (D + q \in Addr /\ a \in {0}))
      BY <1>1, <1>2, <1>3, <1>4, <2>2
    <3> HIDE DEF a
    <3>2. e = IF call.f \in {"memfind", "strnlen"} THEN D + n ELSE SIZE
      BY <1>4
    <3> HIDE DEF e
    <3> QED  BY <2>1, <3>1, <3>2, FoundIs DEF a
  <2>4. Result(q) = q
    BY <1>4 DEF Result
  <2>5. q = (D + q) - D
    BY <1>1
  <2> QED  BY <1>4, <2>3, <2>4, <2>5 DEF RightResult
<1>5. CASE call.f \in {"strchr", "strfind"}
  <2>1. \A i \in Nat : i < q => Old[D + i] \notin {Char, 0}
    BY <1>5 DEF Read, Goes
  <2>2. a \in {Char, 0}
    BY <1>5 DEF Goes
  <2>3. Found({Char, 0}) = D + q
    <3>1. D + q \in Addr
      BY <1>2, <1>5
    <3>2. D + q <= SIZE
      BY <1>1, <3>1
    <3>3. SIZE = IF call.f \in {"memfind", "strnlen"} THEN D + n ELSE SIZE
      BY <1>5
    <3> QED  BY <1>1, <2>1, <2>2, <3>1, <3>2, <3>3, FoundIs
  <2> HIDE DEF a
  <2>4. Result(q) = IF call.f = "strchr" /\ a = 0 THEN NULL ELSE D + q
    BY <1>5 DEF Result, a
  <2>5. (Char # 0 /\ a = Char) <=> a # 0
    BY <2>2
  <2>6. CASE call.f = "strchr"
    <3>1. RightResult(Result(q)) <=>
            (Result(q) = IF Char # 0 /\ a = Char THEN D + q ELSE NULL)
      BY <2>3, <2>6 DEF RightResult, a
    <3> QED  BY <2>4, <2>5, <2>6, <3>1
  <2>7. CASE call.f = "strfind"
    BY <2>3, <2>4, <2>7 DEF RightResult
  <2> QED  BY <1>5, <2>6, <2>7
<1>6. CASE call.f = "memfind"
  <2>1. \A i \in Nat : i < q => Old[D + i] \notin {Char}
    BY <1>6 DEF Read, Goes
  <2>2. q = n \/ (q < n /\ a \in {Char})
    <3>1. a = Char \/ ~(q < n)
      BY <1>6 DEF Goes
    <3> QED  BY <1>1, <1>3, <1>6, <3>1
  <2>3. Found({Char}) = D + q
    <3>1. D + n \in Nat /\ D + q <= D + n /\ (D + q = D + n \/ (D + q \in Addr /\ a \in {Char}))
      BY <1>1, <1>3, <1>6, <2>2
    <3>2. D + n = IF call.f \in {"memfind", "strnlen"} THEN D + n ELSE SIZE
      BY <1>6
    <3> QED  BY <2>1, <3>1, <3>2, FoundIs
  <2>4. Result(q) = D + q
    BY <1>6 DEF Result
  <2> QED  BY <1>6, <2>3, <2>4 DEF RightResult
<1> QED  BY <1>4, <1>5, <1>6

\* m bytes of the memory from p.
Bytes(p, m) == [j \in 1 .. m |-> Old[p + j - 1]]

Ordered(a, b, r) == (r = 0 <=> a = b) /\ (r < 0 <=> Less(a, b)) /\ (r > 0 <=> Less(b, a))

\* The first byte that differs decides.
LEMMA FirstDifference ==
  ASSUME call \in Calls, NEW x \in Nat, NEW y \in Nat, NEW l \in Nat, NEW m \in Nat,
         NEW q \in Nat, q < l, q < m, x + q \in Addr, y + q \in Addr,
         \A i \in Nat : i < q => Old[x + i] = Old[y + i],
         Old[x + q] # Old[y + q]
  PROVE  Ordered(Bytes(x, l), Bytes(y, m), Old[x + q] - Old[y + q])
<1> DEFINE a == Bytes(x, l)
           b == Bytes(y, m)
<1>1. SIZE \in Nat /\ Addr = 0 .. SIZE - 1 /\ Old \in [Addr -> Byte]
  BY CallTyped
<1>2. DOMAIN a = 1 .. l /\ DOMAIN b = 1 .. m
  BY DEF Bytes
<1>3. ASSUME NEW i \in Nat, i <= q
      PROVE  /\ i + 1 \in 1 .. l /\ i + 1 \in 1 .. m
             /\ a[i + 1] = Old[x + i] /\ b[i + 1] = Old[y + i]
             /\ Old[x + i] \in Int /\ Old[y + i] \in Int
  <2>1. i + 1 \in 1 .. l /\ i + 1 \in 1 .. m /\ x + (i + 1) - 1 = x + i /\ y + (i + 1) - 1 = y + i
    BY <1>3
  <2>2. x + i \in Addr /\ y + i \in Addr
    BY <1>1, <1>3
  <2>3. Old[x + i] \in Byte /\ Old[y + i] \in Byte
    BY <1>1, <2>2
  <2> QED  BY <2>1, <2>3 DEF Bytes, Byte
<1> HIDE DEF a, b
<1>4. q + 1 \in 1 .. l /\ q + 1 \in 1 .. m /\ a[q + 1] = Old[x + q] /\ b[q + 1] = Old[y + q]
      /\ Old[x + q] \in Int /\ Old[y + q] \in Int /\ a[q + 1] # b[q + 1]
  BY <1>3
<1>5. ASSUME NEW j \in 1 .. q PROVE a[j] = b[j] /\ a[j] \in Int
  <2>1. j - 1 \in Nat /\ j - 1 <= q /\ j - 1 < q /\ (j - 1) + 1 = j
    OBVIOUS
  <2>2. a[j] = Old[x + (j - 1)] /\ b[j] = Old[y + (j - 1)] /\ Old[x + (j - 1)] \in Int
    BY <1>3, <2>1
  <2> QED  BY <2>1, <2>2
<1>6. a # b
  BY <1>4
<1>7. Less(a, b) <=> a[q + 1] < b[q + 1]
  <2>1. ASSUME a[q + 1] < b[q + 1] PROVE Less(a, b)
    <3>1. \A i \in 1 .. (q + 1) - 1 : a[i] = b[i]
      BY <1>5
    <3> QED  BY <1>2, <1>4, <2>1, <3>1 DEF Less
  <2>2. ASSUME Less(a, b) PROVE a[q + 1] < b[q + 1]
    <3>1. PICK j \in DOMAIN a \cap DOMAIN b : a[j] < b[j] /\ \A i \in 1 .. j - 1 : a[i] = b[i]
      BY <2>2 DEF Less
    <3>2. j \in 1 .. l
      BY <1>2
    <3>3. ~(j < q + 1)
      <4>1. ASSUME j < q + 1 PROVE FALSE
        <5>1. j \in 1 .. q
          BY <3>2, <4>1
        <5> QED  BY <1>5, <3>1, <5>1
      <4> QED  BY <4>1
    <3>4. ~(q + 1 < j)
      <4>1. ASSUME q + 1 < j PROVE FALSE
        <5>1. q + 1 \in 1 .. j - 1
          BY <3>2, <4>1
        <5> QED  BY <1>4, <3>1, <5>1
      <4> QED  BY <4>1
    <3>5. j = q + 1
      BY <3>2, <3>3, <3>4
    <3> QED  BY <3>1, <3>5
  <2> QED  BY <2>1, <2>2
<1>8. Less(b, a) <=> b[q + 1] < a[q + 1]
  <2>1. ASSUME b[q + 1] < a[q + 1] PROVE Less(b, a)
    <3>1. \A i \in 1 .. (q + 1) - 1 : b[i] = a[i]
      BY <1>5
    <3> QED  BY <1>2, <1>4, <2>1, <3>1 DEF Less
  <2>2. ASSUME Less(b, a) PROVE b[q + 1] < a[q + 1]
    <3>1. PICK j \in DOMAIN b \cap DOMAIN a : b[j] < a[j] /\ \A i \in 1 .. j - 1 : b[i] = a[i]
      BY <2>2 DEF Less
    <3>2. j \in 1 .. l
      BY <1>2
    <3>3. ~(j < q + 1)
      <4>1. ASSUME j < q + 1 PROVE FALSE
        <5>1. j \in 1 .. q
          BY <3>2, <4>1
        <5> QED  BY <1>5, <3>1, <5>1
      <4> QED  BY <4>1
    <3>4. ~(q + 1 < j)
      <4>1. ASSUME q + 1 < j PROVE FALSE
        <5>1. q + 1 \in 1 .. j - 1
          BY <3>2, <4>1
        <5> QED  BY <1>4, <3>1, <5>1
      <4> QED  BY <4>1
    <3>5. j = q + 1
      BY <3>2, <3>3, <3>4
    <3> QED  BY <3>1, <3>5
  <2> QED  BY <2>1, <2>2
<1> DEFINE u == Old[x + q]
           v == Old[y + q]
<1>9. u \in Int /\ v \in Int /\ u # v /\ a[q + 1] = u /\ b[q + 1] = v
  BY <1>4
<1> HIDE DEF u, v
<1>10. ~(u - v = 0) /\ (u - v < 0 <=> u < v) /\ (u - v > 0 <=> v < u)
  BY <1>9
<1>11. Ordered(a, b, u - v)
  BY <1>6, <1>7, <1>8, <1>9, <1>10 DEF Ordered
<1> QED  BY <1>11 DEF a, b, u, v

\* Without a difference the result is 0.
LEMMA NoDifference ==
  ASSUME call \in Calls, NEW x \in Nat, NEW y \in Nat, NEW m \in Nat, x + m <= SIZE,
         \A i \in Nat : i < m => Old[x + i] = Old[y + i]
  PROVE  Ordered(Bytes(x, m), Bytes(y, m), 0)
<1> DEFINE a == Bytes(x, m)
           b == Bytes(y, m)
<1>1. SIZE \in Nat /\ Addr = 0 .. SIZE - 1 /\ Old \in [Addr -> Byte]
  BY CallTyped
<1>2. ASSUME NEW j \in 1 .. m
      PROVE  Old[x + j - 1] = Old[y + j - 1] /\ Old[x + j - 1] \in Int
  <2>1. j - 1 \in Nat /\ j - 1 < m /\ x + (j - 1) = x + j - 1 /\ y + (j - 1) = y + j - 1
        /\ x + j - 1 \in Addr
    BY <1>1
  <2>2. Old[x + (j - 1)] = Old[y + (j - 1)]
    BY <2>1
  <2>3. Old[x + j - 1] \in Byte
    BY <1>1, <2>1
  <2>4. Old[x + j - 1] = Old[y + j - 1]
    BY <2>1, <2>2
  <2> QED  BY <2>3, <2>4 DEF Byte
<1>3. a = b
  BY <1>2 DEF Bytes
<1>4. DOMAIN a = 1 .. m /\ \A j \in 1 .. m : a[j] \in Int
  BY <1>2 DEF Bytes
<1> HIDE DEF a, b
<1>5. ~Less(a, a)
  <2>1. ASSUME NEW j \in DOMAIN a PROVE ~(a[j] < a[j])
    BY <1>4
  <2> QED  BY <2>1 DEF Less
<1>6. Ordered(a, b, 0)
  BY <1>3, <1>5 DEF Ordered
<1> QED  BY <1>6 DEF a, b

LEMMA ComparesAreRight ==
  ASSUME call \in Calls, call.f \in {"strcmp", "strncmp", "memcmp"},
         NEW q \in Nat, Read(q), ~Goes(q)
  PROVE  RightResult(Result(q))
<1> DEFINE D == call.dst
           S == call.src
           n == call.n
           lD == Length(D)
           lS == Length(S)
           u == Old[D + q]
           v == Old[S + q]
           r == Result(q)
<1>1. /\ SIZE \in Nat /\ Addr = 0 .. SIZE - 1 /\ n \in Nat
      /\ D \in Nat /\ D \in Addr /\ S \in Nat /\ S \in Addr
  BY CallTyped
<1>2. \A i \in Nat : i < q => Old[D + i] = Old[S + i]
  BY DEF Read, Goes
<1>3. call.f \in {"strncmp", "memcmp"} => q <= n
  <2>1. ASSUME call.f \in {"strncmp", "memcmp"}, ~(q <= n) PROVE FALSE
    <3>1. n < q
      BY <1>1, <2>1
    <3>2. n < n
      BY <1>1, <2>1, <3>1 DEF Read, Goes
    <3> QED  BY <1>1, <3>2
  <2> QED  BY <2>1
<1>4. SUFFICES ASSUME NEW a, a = Compared(D), NEW b, b = Compared(S)
               PROVE  Ordered(a, b, r)
  <2>1. Ordered(Compared(D), Compared(S), r)
    BY <1>4
  <2> QED  BY <2>1 DEF RightResult, Ordered
<1>5. CASE call.f \in {"strcmp", "strncmp"}
  <2>1. \A i \in Nat : i < q => Old[D + i] # 0 /\ Old[S + i] # 0
    BY <1>5 DEF Read, Goes
  <2>2. /\ q <= lD /\ D + q \in Addr /\ lD \in Nat /\ Old[D + lD] = 0
        /\ u = 0 => q = lD
    BY <1>1, <1>5, <2>1, ReaderLegal, InsideString
  <2>3. /\ q <= lS /\ S + q \in Addr /\ lS \in Nat /\ Old[S + lS] = 0
        /\ v = 0 => q = lS
    BY <1>1, <1>5, <2>1, ReaderLegal, InsideString
  <2> DEFINE m1 == IF call.f = "strcmp" THEN lD + 1 ELSE Min({lD + 1, n})
             m2 == IF call.f = "strcmp" THEN lS + 1 ELSE Min({lS + 1, n})
  <2>4. a = Bytes(D, m1) /\ b = Bytes(S, m2)
    BY <1>4, <1>5 DEF Compared, Bytes
  <2> HIDE DEF lD, lS
  <2>5. /\ m1 = IF call.f = "strcmp" \/ lD + 1 <= n THEN lD + 1 ELSE n
        /\ m2 = IF call.f = "strcmp" \/ lS + 1 <= n THEN lS + 1 ELSE n
    <3>1. lD + 1 \in Int /\ lS + 1 \in Int /\ n \in Int
      BY <1>1, <2>2, <2>3
    <3>2. /\ Min({lD + 1, n}) = IF lD + 1 <= n THEN lD + 1 ELSE n
          /\ Min({lS + 1, n}) = IF lS + 1 <= n THEN lS + 1 ELSE n
      BY <3>1, MinTwo
    <3> QED  BY <3>2
  <2> HIDE DEF m1, m2
  <2>6. CASE call.f = "strncmp" /\ q = n
    <3>1. m1 = n /\ m2 = n /\ D + n <= SIZE
      BY <1>1, <2>2, <2>3, <2>5, <2>6
    <3>2. r = 0
      BY <2>6 DEF Result
    <3> QED  BY <1>1, <1>2, <2>4, <2>6, <3>1, <3>2, NoDifference
  <2>7. CASE ~(call.f = "strncmp" /\ q = n)
    <3>1. q < m1 /\ q < m2
      BY <1>1, <1>3, <1>5, <2>2, <2>3, <2>5, <2>7
    <3>2. r = u - v
      BY <1>5, <2>7 DEF Result
    <3>3. CASE u # v
      <4>1. m1 \in Nat /\ m2 \in Nat
        BY <1>1, <2>2, <2>3, <2>5
      <4>2. Ordered(Bytes(D, m1), Bytes(S, m2), u - v)
        BY <1>1, <1>2, <2>2, <2>3, <3>1, <3>3, <4>1, FirstDifference
      <4> QED  BY <2>4, <3>2, <4>2
    <3>4. CASE u = v
      <4>1. u = 0
        <5>1. u = 0 \/ (call.f = "strncmp" /\ ~(q < n))
          BY <1>5, <3>4 DEF Goes
        <5> QED  BY <1>1, <1>3, <2>7, <5>1
      <4>2. q = lD /\ q = lS
        BY <2>2, <2>3, <3>4, <4>1
      <4>3. m1 = q + 1 /\ m2 = q + 1 /\ D + (q + 1) <= SIZE
        BY <1>1, <1>3, <1>5, <2>2, <2>5, <2>7, <4>2
      <4>4. \A i \in Nat : i < q + 1 => Old[D + i] = Old[S + i]
        <5>1. \A i \in Nat : i < q + 1 => i < q \/ i = q
          OBVIOUS
        <5> QED  BY <1>2, <3>4, <5>1
      <4>5. r = 0
        BY <3>2, <3>4, <4>1
      <4>6. Ordered(Bytes(D, q + 1), Bytes(S, q + 1), 0)
        <5>1. q + 1 \in Nat
          OBVIOUS
        <5> QED  BY <1>1, <4>3, <4>4, <5>1, NoDifference
      <4> QED  BY <2>4, <4>3, <4>5, <4>6
    <3> QED  BY <3>3, <3>4
  <2> QED  BY <2>6, <2>7
<1>6. CASE call.f = "memcmp"
  <2>1. a = Bytes(D, n) /\ b = Bytes(S, n) /\ D + n <= SIZE /\ S + n <= SIZE
    BY <1>4, <1>6, ReaderLegal DEF Compared, Bytes
  <2>2. CASE q = n
    <3>1. r = 0
      BY <1>6, <2>2 DEF Result
    <3> QED  BY <1>1, <1>2, <2>1, <2>2, <3>1, NoDifference
  <2>3. CASE q # n
    <3>1. r = u - v
      BY <1>6, <2>3 DEF Result
    <3>2. q < n /\ D + q \in Addr /\ S + q \in Addr
      BY <1>1, <1>3, <1>6, <2>1, <2>3
    <3>3. u # v
      BY <1>6, <3>2 DEF Goes
    <3>4. Ordered(Bytes(D, n), Bytes(S, n), u - v)
      BY <1>1, <1>2, <3>2, <3>3, FirstDifference
    <3> QED  BY <2>1, <3>1, <3>4
  <2> QED  BY <2>2, <2>3
<1> QED  BY <1>5, <1>6
-----------------------------------------------------------------------------
(* The invariant.                                                          *)

\* Before turn q of a loop over bytes, and before memmove and memset start:
\* the memory, the pointers and what is left of the size.
Turn(m, e, t, j, q) ==
  LET len == Length(call.src)
  IN  /\ e = call.dst + q
      /\ call.f \in Moves \cup {"memset"} => q = 0 /\ t = call.src /\ j = call.n /\ m = Old
      /\ call.f = "strcpy" => t = call.src + q /\ q <= len /\ Partly(m, 0, q)
      /\ call.f = "strncpy" =>
           t = call.src + Min({q, len}) /\ j = call.n - q /\ q <= call.n /\ Partly(m, 0, q)
      /\ call.f = "strlcpy" =>
           /\ t = call.src + q /\ j = call.n - q /\ q <= len /\ Partly(m, 0, q)
           /\ q = 0 \/ q < call.n
      /\ call.f \in Readers =>
           t = call.src + q /\ j = call.n - q /\ m = Old /\ Read(q)

\* With j rounds of movs left, and of stos.
Moving(m, e, t, j, u, down) ==
  /\ call.f \in Moves /\ j \in Nat /\ u \in Nat \ {0} /\ down \in BOOLEAN
  /\ j * u <= call.n /\ Moved(m, down, j * u)
  /\ e = PlaceOf(call.dst, down, j * u, u) /\ t = PlaceOf(call.src, down, j * u, u)

Storing(m, e, j, u) ==
  /\ call.f = "memset" /\ j \in Nat /\ u \in Nat \ {0}
  /\ j * u <= call.n /\ Partly(m, 0, call.n - j * u) /\ e = call.dst + call.n - j * u

SInv ==
  /\ call \in Calls
  /\ mem \in [Addr -> Byte]
  /\ pc \in {"call", "movs", "stos", "done"}
  /\ pc = "call" => ~df /\ unit = 1 /\ \E q \in Nat : Turn(mem, d, s, k, q)
  /\ pc = "movs" => Moving(mem, d, s, k, unit, df)
  /\ pc = "stos" => ~df /\ Storing(mem, d, k, unit)
  /\ pc = "done" => ~df /\ AsFilled(mem) /\ RightResult(ret)

\* Everything that is said of a memory depends on the call only.
LEMMA CallStays ==
  ASSUME call' = call
  PROVE  /\ \A q : Turn(mem, d, s, k, q)' <=> Turn(mem', d', s', k', q)
         /\ Moving(mem, d, s, k, unit, df)' <=> Moving(mem', d', s', k', unit', df')
         /\ Storing(mem, d, k, unit)' <=> Storing(mem', d', k', unit')
         /\ AsFilled(mem)' <=> AsFilled(mem')
         /\ RightResult(ret)' <=> RightResult(ret')
<1>1. Filled' = Filled /\ Old' = Old /\ Length(call.src)' = Length(call.src)
  BY FilledStays DEF Length
<1>2. \A lo, hi : Partly(mem, lo, hi)' <=> Partly(mem', lo, hi)
  BY <1>1 DEF Partly
<1>3. \A q : Read(q)' <=> Read(q)
  BY <1>1 DEF Read, Goes, Char
<1>4. AsFilled(mem)' <=> AsFilled(mem')
  BY <1>1 DEF AsFilled
<1>5. \A q : Turn(mem, d, s, k, q)' <=> Turn(mem', d', s', k', q)
  BY <1>1, <1>2, <1>3 DEF Turn
<1>6. Storing(mem, d, k, unit)' <=> Storing(mem', d', k', unit')
  BY <1>2 DEF Storing
<1>7. \A r : Moved(mem, df, r)' <=> Moved(mem', df', r)
  BY <1>2 DEF Moved
<1>8. Moving(mem, d, s, k, unit, df)' <=> Moving(mem', d', s', k', unit', df')
  BY <1>7 DEF Moving, PlaceOf
<1>9. RightResult(ret)' <=> RightResult(ret')
  BY DEF RightResult, Compared, Found, Length, Old, Char
<1> QED  BY <1>4, <1>5, <1>6, <1>8, <1>9

LEMMA SInvNext ==
  ASSUME call' = call, call \in Calls, mem' \in [Addr -> Byte],
         pc' \in {"call", "movs", "stos", "done"},
         pc' = "call" => ~df' /\ unit' = 1 /\ \E q \in Nat : Turn(mem', d', s', k', q),
         pc' = "movs" => Moving(mem', d', s', k', unit', df'),
         pc' = "stos" => ~df' /\ Storing(mem', d', k', unit'),
         pc' = "done" => ~df' /\ AsFilled(mem') /\ RightResult(ret')
  PROVE  SInv'
BY CallStays DEF SInv

\* Nothing is filled before the first turn.
LEMMA FirstTurn ==
  ASSUME call \in Calls
  PROVE  Old \in [Addr -> Byte] /\ Turn(Old, call.dst, call.src, call.n, 0)
<1>1. /\ Old \in [Addr -> Byte] /\ SIZE \in Nat /\ Addr = 0 .. SIZE - 1
      /\ call.dst \in Nat /\ call.src \in Nat /\ call.n \in Nat
  BY CallTyped
<1>2. Partly(Old, 0, 0)
  <2>1. \A i \in Int : i \notin 0 .. 0 - 1
    OBVIOUS
  <2> QED  BY <1>1, <2>1 DEF Partly
<1>3. Read(0)
  BY DEF Read
<1>4. call.f \in Copies => Length(call.src) \in Nat
  BY CopyLegal
<1>5. call.f \in Copies => Min({0, Length(call.src)}) = 0
  BY <1>4, MinTwo
<1>6. call.dst + 0 = call.dst /\ call.src + 0 = call.src /\ call.n - 0 = call.n
  BY <1>1
<1> HIDE DEF Old
<1> QED  BY <1>1, <1>2, <1>3, <1>4, <1>5, <1>6 DEF Turn, Copies

LEMMA InitSInv ==
  ASSUME Init
  PROVE  SInv
<1>1. /\ call \in Calls /\ mem = Old /\ d = call.dst /\ s = call.src /\ k = call.n
      /\ unit = 1 /\ ~df /\ pc = "call"
  BY DEF Init, Old
<1>2. Old \in [Addr -> Byte] /\ Turn(Old, d, s, k, 0)
  BY <1>1, FirstTurn
<1>3. \E q \in Nat : Turn(mem, d, s, k, q)
  BY <1>1, <1>2
<1> QED  BY <1>1, <1>2, <1>3 DEF SInv

\* memmove and memcpy choose where they start and what they move.
LEMMA MoveStarts ==
  ASSUME SInv, Calling("memmove") \/ Calling("memcpy"), move
  PROVE  SInv'
<1> DEFINE n == call.n
           D == call.dst
           S == call.src
<1>1. /\ call.f \in Moves /\ call \in Calls /\ call' = call /\ pc = "call" /\ pc' = "movs"
      /\ mem' = mem /\ mem \in [Addr -> Byte]
  BY DEF Calling, move, Moves, SInv
<1>2. d = D + 0 /\ s = S /\ k = n /\ mem = Old
  <2>1. PICK q \in Nat : Turn(mem, d, s, k, q)
    BY <1>1 DEF SInv
  <2> QED  BY <1>1, <2>1 DEF Turn
<1>3. D \in Nat /\ S \in Nat /\ n \in Nat /\ d = D
  BY <1>1, <1>2, CallTyped DEF Addr
<1>4. /\ df' = (S < D /\ S + n > D)
      /\ unit' = 1 \/ (unit' = WORD /\ n % WORD = 0)
      /\ s' = IF df' THEN S + n - unit' ELSE S
      /\ d' = IF df' THEN D + n - unit' ELSE D
      /\ k' = n \div unit'
  BY <1>2, <1>3 DEF move, overlaps, unit_of, Aligned
<1>5. unit' \in Nat \ {0} /\ k' \in Nat /\ k' * unit' = n
  BY <1>3, <1>4, WholeUnits
<1>6. Moved(mem', df', n)
  <2>1. \A i \in Int : i \notin n .. n - 1 /\ i \notin 0 .. (n - n) - 1
    BY <1>3
  <2>2. Partly(mem', n, n) /\ Partly(mem', 0, n - n)
    <3>1. \A a \in Addr : a - D \in Int
      BY <1>1, <1>3, CallTyped
    <3> QED  BY <1>1, <1>2, <2>1, <3>1 DEF Partly
  <2>3. df' \/ D <= S \/ S + n <= D
    <3> HIDE DEF n, D, S
    <3>1. (S < D /\ S + n > D) \/ D <= S \/ S + n <= D
      BY <1>3
    <3> QED  BY <1>4, <3>1
  <2> QED  BY <1>4, <2>2, <2>3 DEF Moved
<1>7. d' = PlaceOf(D, df', n, unit') /\ s' = PlaceOf(S, df', n, unit')
  <2>1. D + n - n = D /\ S + n - n = S
    BY <1>3
  <2> QED  BY <1>4, <2>1 DEF PlaceOf
<1>8. df' \in BOOLEAN /\ n <= n
  BY <1>3, <1>4
<1>9. Moving(mem', d', s', k', unit', df')
  BY <1>1, <1>5, <1>6, <1>7, <1>8 DEF Moving
<1> QED  BY <1>1, <1>9, SInvNext

LEMMA MoveGoesOn ==
  ASSUME SInv, movs
  PROVE  SInv'
<1> DEFINE r == k * unit
<1>1. /\ pc = "movs" /\ pc' = "movs" /\ k > 0 /\ k' = k - 1 /\ call' = call
      /\ unit' = unit /\ df' = df
      /\ d' = (IF df THEN d - unit ELSE d + unit) /\ s' = (IF df THEN s - unit ELSE s + unit)
      /\ mem' = Copied(mem, d, s, unit)
  BY DEF movs, Next1, Copied
<1>2. /\ call \in Calls /\ mem \in [Addr -> Byte] /\ call.f \in Moves
      /\ k \in Nat /\ unit \in Nat \ {0} /\ df \in BOOLEAN
      /\ r <= call.n /\ Moved(mem, df, r)
      /\ d = PlaceOf(call.dst, df, r, unit) /\ s = PlaceOf(call.src, df, r, unit)
  BY <1>1 DEF SInv, Moving
<1>3. k' \in Nat /\ k' * unit = r - unit /\ r - unit \in Nat /\ r \in Nat
  BY <1>1, <1>2, OneRound
<1> HIDE DEF r
<1>4. unit <= r
  BY <1>2, <1>3
<1>5. Moved(mem', df, r - unit) /\ mem' \in [Addr -> Byte]
  BY <1>1, <1>2, <1>3, <1>4, MovesRound
<1>6. /\ d' = PlaceOf(call.dst, df, r - unit, unit) /\ s' = PlaceOf(call.src, df, r - unit, unit)
      /\ r - unit <= call.n
  <2>1. call.n \in Nat /\ call.dst \in Nat /\ call.src \in Nat
    BY <1>2, CallTyped DEF Addr
  <2> DEFINE n == call.n
             D == call.dst
             S == call.src
  <2>2. n \in Nat /\ D \in Nat /\ S \in Nat /\ unit \in Nat /\ r \in Nat /\ r <= n
    BY <1>2, <1>3, <2>1
  <2>3. /\ d = IF df THEN D + r - unit ELSE D + n - r
        /\ s = IF df THEN S + r - unit ELSE S + n - r
    BY <1>2 DEF PlaceOf
  <2> HIDE DEF n, D, S
  <2>4. /\ d' = IF df THEN D + (r - unit) - unit ELSE D + n - (r - unit)
        /\ s' = IF df THEN S + (r - unit) - unit ELSE S + n - (r - unit)
        /\ r - unit <= n
    BY <1>1, <2>2, <2>3
  <2> QED  BY <2>4 DEF PlaceOf, n, D, S
<1>7. Moving(mem', d', s', k', unit', df')
  BY <1>1, <1>2, <1>3, <1>5, <1>6 DEF Moving
<1> QED  BY <1>1, <1>2, <1>5, <1>7, SInvNext

LEMMA MoveEnds ==
  ASSUME SInv, move_end
  PROVE  SInv'
<1>1. /\ pc = "movs" /\ pc' = "done" /\ k = 0 /\ call' = call /\ ~df' /\ mem' = mem
      /\ ret' = call.dst
  BY DEF move_end, Return
<1>2. /\ call \in Calls /\ mem \in [Addr -> Byte] /\ call.f \in Moves
      /\ unit \in Nat /\ Moved(mem, df, k * unit)
  BY <1>1 DEF SInv, Moving
<1>3. Moved(mem, df, 0) /\ call.n \in Nat
  BY <1>1, <1>2, CallTyped
<1>4. Partly(mem, 0, call.n)
  <2>1. call.n - 0 = call.n
    BY <1>3
  <2> QED  BY <1>3, <2>1 DEF Moved
<1>5. AsFilled(mem')
  BY <1>1, <1>2, <1>4, MovesFill DEF AsFilled, Partly
<1>6. RightResult(ret')
  BY <1>1, <1>2 DEF RightResult, Moves
<1> QED  BY <1>1, <1>2, <1>5, <1>6, SInvNext

LEMMA SetStarts ==
  ASSUME SInv, memset
  PROVE  SInv'
<1> DEFINE n == call.n
<1>1. /\ call.f = "memset" /\ call \in Calls /\ call' = call /\ pc = "call" /\ pc' = "stos"
      /\ mem' = mem /\ mem \in [Addr -> Byte] /\ ~df' /\ d' = d
  BY DEF Calling, memset, SInv
<1>2. d = call.dst + 0 /\ k = n /\ mem = Old
  <2>1. PICK q \in Nat : Turn(mem, d, s, k, q)
    BY <1>1 DEF SInv
  <2> QED  BY <1>1, <2>1 DEF Turn
<1>3. n \in Nat /\ call.dst \in Nat
  BY <1>1, CallTyped DEF Addr
<1>4. (unit' = 1 \/ (unit' = WORD /\ n % WORD = 0)) /\ k' = n \div unit'
  BY <1>2 DEF memset, Aligned
<1>5. unit' \in Nat \ {0} /\ k' \in Nat /\ k' * unit' = n
  BY <1>3, <1>4, WholeUnits
<1>6. Partly(mem', 0, n - n) /\ d' = call.dst + n - n /\ n <= n
  <2>1. \A i \in Int : i \notin 0 .. (n - n) - 1
    BY <1>3
  <2>2. \A a \in Addr : a - call.dst \in Int
    BY <1>1, <1>3, CallTyped
  <2>3. Partly(mem', 0, n - n)
    BY <1>1, <1>2, <2>1, <2>2 DEF Partly
  <2>4. call.dst + 0 = call.dst + n - n
    BY <1>3
  <2> QED  BY <1>1, <1>2, <1>3, <2>3, <2>4
<1>7. Storing(mem', d', k', unit')
  BY <1>1, <1>5, <1>6 DEF Storing
<1> QED  BY <1>1, <1>7, SInvNext

LEMMA SetGoesOn ==
  ASSUME SInv, stos
  PROVE  SInv'
<1> DEFINE r == k * unit
<1>1. /\ pc = "stos" /\ pc' = "stos" /\ k > 0 /\ k' = k - 1 /\ call' = call
      /\ unit' = unit /\ df' = df /\ ~df
  BY DEF stos, SInv
<1>2. d' = d + unit /\ mem' = Spread(mem, d, unit, Char)
  BY <1>1 DEF stos, Next1, Spread
<1>3. /\ call \in Calls /\ mem \in [Addr -> Byte] /\ call.f = "memset"
      /\ k \in Nat /\ unit \in Nat \ {0}
      /\ r <= call.n /\ Partly(mem, 0, call.n - r) /\ d = call.dst + call.n - r
  BY <1>1 DEF SInv, Storing
<1>4. k' \in Nat /\ k' * unit = r - unit /\ r - unit \in Nat /\ r \in Nat
  BY <1>1, <1>3, OneRound
<1> HIDE DEF r
<1>5. unit <= r
  BY <1>3, <1>4
<1>6. Partly(mem', 0, call.n - (r - unit)) /\ mem' \in [Addr -> Byte]
  BY <1>2, <1>3, <1>4, <1>5, SetsRound
<1>7. d' = call.dst + call.n - (r - unit) /\ r - unit <= call.n
  <2> DEFINE n == call.n
             D == call.dst
  <2>1. n \in Nat /\ D \in Nat /\ d = D + n - r /\ r <= n
    BY <1>3, CallTyped DEF Addr
  <2> HIDE DEF n, D
  <2>2. d' = D + n - (r - unit) /\ r - unit <= n
    BY <1>2, <1>3, <1>4, <2>1
  <2> QED  BY <2>2 DEF n, D
<1>8. Storing(mem', d', k', unit')
  BY <1>1, <1>3, <1>4, <1>6, <1>7 DEF Storing
<1> QED  BY <1>1, <1>3, <1>6, <1>8, SInvNext

LEMMA SetEnds ==
  ASSUME SInv, set_end
  PROVE  SInv'
<1>1. /\ pc = "stos" /\ pc' = "done" /\ k = 0 /\ call' = call /\ df' = df /\ mem' = mem
      /\ ret' = call.dst
  BY DEF set_end, Return, regs
<1>2. /\ call \in Calls /\ mem \in [Addr -> Byte] /\ call.f = "memset" /\ ~df
      /\ unit \in Nat /\ Partly(mem, 0, call.n - k * unit)
  BY <1>1 DEF SInv, Storing
<1>3. Partly(mem, 0, call.n)
  <2>1. k * unit = 0
    BY <1>1, <1>2
  <2>2. call.n - k * unit = call.n
    BY <1>2, <2>1, CallTyped
  <2> QED  BY <1>2, <2>2
<1>4. AsFilled(mem')
  BY <1>1, <1>2, <1>3, SetsFill DEF AsFilled, Partly
<1>5. RightResult(ret')
  BY <1>1, <1>2 DEF RightResult
<1> QED  BY <1>1, <1>2, <1>4, <1>5, SInvNext

LEMMA StrcpyGoesOn ==
  ASSUME SInv, strcpy
  PROVE  SInv'
<1>1. /\ call.f = "strcpy" /\ call' = call /\ call \in Calls /\ pc = "call"
      /\ mem \in [Addr -> Byte] /\ ~df /\ unit = 1 /\ df' = df /\ unit' = unit
      /\ d' = d + 1 /\ s' = s + 1 /\ k' = k
  BY DEF SInv, strcpy, Calling, Stay
<1>2. PICK q \in Nat : Turn(mem, d, s, k, q)
  BY <1>1 DEF SInv
<1>3. d = call.dst + q /\ s = call.src + q /\ q <= Length(call.src) /\ Partly(mem, 0, q)
  BY <1>1, <1>2 DEF Turn
<1> DEFINE m2 == [mem EXCEPT ![call.dst + q] = mem[call.src + q]]
<1>4. /\ m2 \in [Addr -> Byte]
      /\ mem[call.src + q] = 0 => AsFilled(m2)
      /\ mem[call.src + q] # 0 => q + 1 <= Length(call.src) /\ Partly(m2, 0, q + 1)
  BY <1>1, <1>3, StrcpyTurn
<1>5. mem' = m2
  BY <1>3 DEF strcpy
<1> HIDE DEF m2
<1>6. CASE mem[s] = 0
  <2>1. ret' = call.dst /\ pc' = "done"
    BY <1>6 DEF strcpy, Return
  <2>2. RightResult(ret')
    BY <1>1, <2>1 DEF RightResult
  <2>3. AsFilled(mem')
    BY <1>3, <1>4, <1>5, <1>6
  <2> QED  BY <1>1, <1>4, <1>5, <2>1, <2>2, <2>3, SInvNext
<1>7. CASE mem[s] # 0
  <2>1. pc' = "call"
    BY <1>1, <1>7 DEF strcpy
  <2>2. q + 1 <= Length(call.src) /\ Partly(mem', 0, q + 1)
    BY <1>3, <1>4, <1>5, <1>7
  <2>3. d' = call.dst + (q + 1) /\ s' = call.src + (q + 1)
    <3>1. call.dst \in Nat /\ call.src \in Nat
      BY <1>1, CallTyped DEF Addr
    <3> QED  BY <1>1, <1>3, <3>1
  <2>4. Turn(mem', d', s', k', q + 1)
    BY <1>1, <2>2, <2>3 DEF Turn, Moves, Readers
  <2>5. q + 1 \in Nat
    OBVIOUS
  <2> QED  BY <1>1, <1>4, <1>5, <2>1, <2>4, <2>5, SInvNext
<1> QED  BY <1>6, <1>7

LEMMA StrncpyGoesOn ==
  ASSUME SInv, strncpy
  PROVE  SInv'
<1> DEFINE n == call.n
           D == call.dst
           len == Length(call.src)
<1>1. /\ call.f = "strncpy" /\ call' = call /\ call \in Calls /\ pc = "call"
      /\ mem \in [Addr -> Byte] /\ ~df /\ unit = 1 /\ df' = df
  BY DEF SInv, strncpy, Calling, Stay, ToNext, regs
<1>2. PICK q \in Nat : Turn(mem, d, s, k, q)
  BY <1>1 DEF SInv
<1>3. /\ d = D + q /\ s = call.src + Min({q, len}) /\ k = n - q /\ q <= n
      /\ Partly(mem, 0, q)
  BY <1>1, <1>2 DEF Turn
<1>4. n \in Nat /\ D \in Nat
  BY <1>1, CallTyped DEF Addr
<1>5. CASE k = 0
  <2>1. ret' = D /\ pc' = "done" /\ mem' = mem
    BY <1>5 DEF strncpy, Return
  <2>2. RightResult(ret')
    BY <1>1, <2>1 DEF RightResult
  <2>3. q = n
    <3> HIDE DEF n
    <3> QED  BY <1>3, <1>4, <1>5
  <2>4. DOMAIN Filled = 0 .. n - 1
    BY <1>1, CopiesFill DEF Copies
  <2>5. AsFilled(mem')
    BY <1>3, <2>1, <2>3, <2>4 DEF AsFilled, Partly
  <2> QED  BY <1>1, <2>1, <2>2, <2>5, SInvNext
<1>6. CASE k # 0
  <2>1. /\ mem' = [mem EXCEPT ![d] = mem[s]] /\ s' = (IF mem[s] # 0 THEN s + 1 ELSE s)
        /\ k' = k - 1 /\ d' = d + 1 /\ pc' = "call" /\ unit' = 1
    BY <1>1, <1>6 DEF strncpy, ToNext, Stay
  <2>2. q < n /\ d' = D + (q + 1) /\ k' = n - (q + 1) /\ q + 1 <= n /\ q + 1 \in Nat
    <3> HIDE DEF n, D
    <3> QED  BY <1>3, <1>4, <1>6, <2>1
  <2> DEFINE m2 == [mem EXCEPT ![D + q] = mem[s]]
  <2>3. /\ m2 \in [Addr -> Byte] /\ Partly(m2, 0, q + 1)
        /\ call.src + Min({q + 1, len}) = IF mem[s] # 0 THEN s + 1 ELSE s
    <3>1. /\ call \in Calls /\ call.f = "strncpy" /\ mem \in [Addr -> Byte] /\ q \in Nat
          /\ q < call.n /\ Partly(mem, 0, q) /\ s = call.src + Min({q, Length(call.src)})
      BY <1>1, <1>3, <2>2
    <3> QED  BY <3>1, StrncpyTurn
  <2>4. mem' = m2
    BY <1>3, <2>1
  <2> HIDE DEF m2
  <2>5. s' = call.src + Min({q + 1, len})
    BY <2>1, <2>3
  <2>6. Turn(mem', d', s', k', q + 1)
    BY <1>1, <2>2, <2>3, <2>4, <2>5 DEF Turn, Moves, Readers
  <2> QED  BY <1>1, <2>1, <2>2, <2>3, <2>4, <2>6, SInvNext
<1> QED  BY <1>5, <1>6

LEMMA StrlcpyGoesOn ==
  ASSUME SInv, strlcpy
  PROVE  SInv'
<1> DEFINE n == call.n
           D == call.dst
           S == call.src
           len == Length(S)
<1>1. /\ call.f = "strlcpy" /\ call' = call /\ call \in Calls /\ pc = "call"
      /\ mem \in [Addr -> Byte] /\ ~df /\ unit = 1
  BY DEF SInv, strlcpy, Calling
<1>2. PICK q \in Nat : Turn(mem, d, s, k, q)
  BY <1>1 DEF SInv
<1>3. /\ d = D + q /\ s = S + q /\ k = n - q /\ q <= len /\ Partly(mem, 0, q)
      /\ q = 0 \/ q < n
  BY <1>1, <1>2 DEF Turn
<1>4. n \in Nat /\ D \in Nat /\ S \in Nat /\ k \in Int
  BY <1>1, <1>3, CallTyped DEF Addr
<1>5. CASE k = 0
  <2>1. ret' = 0 /\ pc' = "done" /\ mem' = mem /\ df' = df
    BY <1>5 DEF strlcpy, Return, regs
  <2>2. q = 0 /\ n = 0
    <3> HIDE DEF n
    <3> QED  BY <1>3, <1>4, <1>5
  <2>3. RightResult(ret')
    BY <1>1, <2>1, <2>2 DEF RightResult
  <2>4. DOMAIN Filled = 0 .. n - 1
    <3>1. DOMAIN Filled = 0 .. Min({len, n - 1}) /\ len \in Nat
      BY <1>1, CopiesFill, CopyLegal DEF Copies
    <3> HIDE DEF len, n
    <3>2. Min({len, n - 1}) = n - 1
      BY <2>2, <3>1, MinTwo
    <3> QED  BY <3>1, <3>2
  <2>5. AsFilled(mem')
    BY <1>3, <2>1, <2>2, <2>4 DEF AsFilled, Partly
  <2> QED  BY <1>1, <2>1, <2>3, <2>5, SInvNext
<1>6. CASE k # 0
  <2> DEFINE goes == k > 1 /\ mem[s] # 0
             m2 == [mem EXCEPT ![D + q] = IF goes THEN mem[S + q] ELSE 0]
  <2>1. q < n
    <3> HIDE DEF n
    <3> QED  BY <1>3, <1>4, <1>6
  <2>2. /\ m2 \in [Addr -> Byte]
        /\ goes => q + 1 <= len /\ Partly(m2, 0, q + 1)
        /\ ~goes => AsFilled(m2) /\ q = Min({len, n - 1})
    BY <1>1, <1>3, <2>1, StrlcpyTurn
  <2>3. CASE goes
    <3>1. mem' = m2 /\ s' = s + 1 /\ k' = k - 1 /\ d' = d + 1 /\ pc' = "call" /\ unit' = 1 /\ ~df'
      BY <1>1, <1>3, <1>6, <2>3 DEF strlcpy, ToNext, Stay
    <3>2. /\ d' = D + (q + 1) /\ s' = S + (q + 1) /\ k' = n - (q + 1) /\ q + 1 < n
          /\ q + 1 \in Nat
      <4> HIDE DEF n, D, S
      <4> QED  BY <1>3, <1>4, <2>3, <3>1
    <3> HIDE DEF m2
    <3>3. q + 1 <= len /\ Partly(mem', 0, q + 1)
      BY <2>2, <2>3, <3>1
    <3>4. Turn(mem', d', s', k', q + 1)
      BY <1>1, <3>2, <3>3 DEF Turn, Moves, Readers
    <3> QED  BY <1>1, <2>2, <3>1, <3>2, <3>4, SInvNext
  <2>4. CASE ~goes
    <3>1. mem' = m2 /\ ret' = d - D /\ pc' = "done" /\ df' = df
      BY <1>3, <1>6, <2>4 DEF strlcpy, Return, regs
    <3> HIDE DEF m2
    <3>2. ret' = Min({len, n - 1}) /\ n # 0
      <4>1. d - D = q
        BY <1>3, <1>4
      <4>2. n # 0
        BY <1>4, <2>1
      <4> HIDE DEF goes, n
      <4> QED  BY <2>2, <2>4, <3>1, <4>1, <4>2
    <3>3. RightResult(ret')
      BY <1>1, <3>2 DEF RightResult
    <3> QED  BY <1>1, <2>2, <2>4, <3>1, <3>3, SInvNext
  <2> QED  BY <2>3, <2>4
<1> QED  BY <1>5, <1>6

\* A loop that reads goes on, or stops at a byte and returns what it is for.
LEMMA ReaderGoesOn ==
  ASSUME SInv, pc = "call", call.f \in Readers, call' = call, mem' = mem,
         NEW q \in Nat, Turn(mem, d, s, k, q),
         \/ /\ Goes(q) /\ d' = d + 1 /\ s' = s + 1 /\ k' = k - 1
            /\ UNCHANGED <<ret, pc, unit, df>>
         \/ ~Goes(q) /\ Return(Result(q)) /\ UNCHANGED regs
  PROVE  SInv'
<1>1. call \in Calls /\ mem \in [Addr -> Byte] /\ ~df /\ unit = 1
  BY DEF SInv
<1>2. d = call.dst + q /\ s = call.src + q /\ k = call.n - q /\ mem = Old /\ Read(q)
  BY DEF Turn
<1>3. CASE /\ Goes(q) /\ d' = d + 1 /\ s' = s + 1 /\ k' = k - 1
           /\ UNCHANGED <<ret, pc, unit, df>>
  <2>1. d' = call.dst + (q + 1) /\ s' = call.src + (q + 1) /\ k' = call.n - (q + 1)
    <3> DEFINE n == call.n
               D == call.dst
               S == call.src
    <3>1. n \in Nat /\ D \in Nat /\ S \in Nat /\ d = D + q /\ s = S + q /\ k = n - q
      BY <1>1, <1>2, CallTyped DEF Addr
    <3> HIDE DEF n, D, S
    <3>2. d' = D + (q + 1) /\ s' = S + (q + 1) /\ k' = n - (q + 1)
      BY <1>3, <3>1
    <3> QED  BY <3>2 DEF n, D, S
  <2>2. Read(q + 1)
    <3>1. \A i \in Nat : i < q + 1 => i < q \/ i = q
      OBVIOUS
    <3> QED  BY <1>2, <1>3, <3>1 DEF Read
  <2>3. mem' = Old
    BY <1>2
  <2>4. Turn(mem', d', s', k', q + 1)
    BY <2>1, <2>2, <2>3 DEF Turn, Moves, Readers
  <2>5. q + 1 \in Nat
    OBVIOUS
  <2> QED  BY <1>1, <1>3, <2>4, <2>5, SInvNext
<1>4. CASE ~Goes(q) /\ Return(Result(q)) /\ UNCHANGED regs
  <2>1. ret' = Result(q) /\ pc' = "done" /\ df' = df
    BY <1>4 DEF Return, regs
  <2>2. RightResult(ret')
    <3>1. RightResult(Result(q))
      BY <1>1, <1>2, <1>4, SearchesAreRight, ComparesAreRight DEF Readers
    <3> QED  BY <2>1, <3>1
  <2>3. AsFilled(mem')
    <3>1. Filled = << >>
      BY DEF Filled, Readers
    <3> QED  BY <1>2, <3>1 DEF AsFilled
  <2> QED  BY <1>1, <2>1, <2>2, <2>3, SInvNext
<1> QED  BY <1>3, <1>4

LEMMA ReadersGoOn ==
  ASSUME SInv, strlen \/ strnlen \/ strcmp \/ strncmp \/ memcmp \/ strchr \/ strfind \/ memfind
  PROVE  SInv'
<1>1. /\ call.f \in Readers /\ call' = call /\ pc = "call" /\ mem' = mem /\ call \in Calls
  BY DEF SInv, strlen, strnlen, strcmp, strncmp, memcmp, strchr, strfind, memfind,
         Calling, Loop, Readers
<1>2. PICK q \in Nat : Turn(mem, d, s, k, q)
  BY <1>1 DEF SInv
<1> DEFINE n == call.n
           D == call.dst
           a == mem[d]
           b == mem[s]
           Goer == /\ d' = d + 1 /\ s' = s + 1 /\ k' = k - 1
                   /\ UNCHANGED <<ret, pc, unit, df>>
           Ender(r) == Return(r) /\ UNCHANGED regs
<1>3. /\ d = D + q /\ s = call.src + q /\ k = n - q /\ mem = Old /\ n \in Nat /\ D \in Nat
      /\ Read(q)
  BY <1>1, <1>2, CallTyped DEF Turn, Addr
<1>4. /\ (k > 0 <=> q < n) /\ (k = 0 <=> q = n) /\ d - D = q
  <2> HIDE DEF n, D
  <2> QED  BY <1>3
<1>5. a = Old[D + q] /\ b = Old[call.src + q]
  BY <1>3
<1> SUFFICES (Goes(q) /\ Goer) \/ (~Goes(q) /\ Ender(Result(q)))
  BY <1>1, <1>2, ReaderGoesOn
<1> USE DEF Loop, Calling, Stay, Goes, Result, Minus
<1>6. CASE strlen
  BY <1>4, <1>5, <1>6 DEF strlen
<1>7. CASE strnlen
  BY <1>4, <1>5, <1>7 DEF strnlen
<1>8. CASE strcmp
  BY <1>5, <1>8 DEF strcmp
<1>9. CASE strncmp
  BY <1>4, <1>5, <1>9 DEF strncmp
<1>10. CASE memcmp
  BY <1>4, <1>5, <1>10 DEF memcmp
<1>11. CASE strchr
  BY <1>3, <1>5, <1>11 DEF strchr
<1>12. CASE strfind
  BY <1>3, <1>5, <1>12 DEF strfind
<1>13. CASE memfind
  BY <1>3, <1>4, <1>5, <1>13 DEF memfind
<1> QED  BY <1>6, <1>7, <1>8, <1>9, <1>10, <1>11, <1>12, <1>13

LEMMA NextSInv ==
  ASSUME SInv, [Next]_vars
  PROVE  SInv'
<1>1. CASE memmove \/ memcpy
  BY <1>1, MoveStarts DEF memmove, memcpy
<1>2. CASE UNCHANGED vars
  <2>1. call' = call /\ mem' = mem /\ d' = d /\ s' = s /\ k' = k /\ unit' = unit /\ df' = df
        /\ ret' = ret /\ pc' = pc
    BY <1>2 DEF vars, regs
  <2> QED  BY <2>1, CallStays DEF SInv
<1> QED
  BY <1>1, <1>2, MoveGoesOn, MoveEnds, SetStarts, SetGoesOn, SetEnds, StrcpyGoesOn,
     StrncpyGoesOn, StrlcpyGoesOn, ReadersGoOn DEF Next

LEMMA Invariance == Spec => []SInv
<1>1. Init => SInv
  BY InitSInv
<1>2. SInv /\ [Next]_vars => SInv'
  BY NextSInv
<1> QED  BY <1>1, <1>2, PTL DEF Spec

\* What has been filled so far is part of what the call fills.
LEMMA PartOfIt ==
  ASSUME NEW m, NEW lo \in Int, NEW hi \in Int, Partly(m, lo, hi),
         lo .. hi - 1 \subseteq DOMAIN Filled,
         NEW a \in Addr, a - call.dst \notin DOMAIN Filled
  PROVE  m[a] = Old[a]
BY DEF Partly

LEMMA NothingStrays ==
  ASSUME SInv
  PROVE  NeverStrays
<1> DEFINE n == call.n
           len == Length(call.src)
<1>1. call \in Calls /\ pc \in {"call", "movs", "stos", "done"} /\ n \in Nat
  BY CallTyped DEF SInv
<1>2. call.f \in Moves \cup {"memset"} \cup Copies \cup Readers
  BY <1>1, StrLibAssumption DEF Legal, Moves, Copies, Readers
<1>3. CASE pc = "call"
  <2>1. PICK q \in Nat : Turn(mem, d, s, k, q)
    BY <1>3 DEF SInv
  <2>2. CASE call.f \in Moves \cup {"memset"} \cup Readers
    <3>1. mem = Old
      BY <2>1, <2>2 DEF Turn
    <3> QED  BY <1>3, <3>1 DEF NeverStrays
  <2>3. CASE call.f \in Copies
    <3>1. len \in Nat
      BY <1>1, <2>3, CopyLegal
    <3>2. Partly(mem, 0, q)
      BY <2>1, <2>3 DEF Turn, Copies
    <3>3. 0 .. q - 1 \subseteq DOMAIN Filled
      <4>1. CASE call.f = "strcpy"
        <5>1. q <= len /\ DOMAIN Filled = 0 .. len
          BY <2>1, <2>3, <4>1, CopiesFill DEF Turn
        <5> QED  BY <3>1, <5>1
      <4>2. CASE call.f = "strncpy"
        <5>1. q <= n /\ DOMAIN Filled = 0 .. n - 1
          BY <2>1, <2>3, <4>2, CopiesFill DEF Turn
        <5> HIDE DEF n
        <5> QED  BY <1>1, <5>1
      <4>3. CASE call.f = "strlcpy"
        <5>1. /\ q <= len /\ (q = 0 \/ q < n)
              /\ DOMAIN Filled = 0 .. Min({len, n - 1})
          BY <2>1, <2>3, <4>3, CopiesFill DEF Turn
        <5> HIDE DEF n, len
        <5>2. Min({len, n - 1}) = IF len <= n - 1 THEN len ELSE n - 1
          BY <1>1, <3>1, MinTwo
        <5> QED  BY <1>1, <3>1, <5>1, <5>2
      <4> QED  BY <2>3, <4>1, <4>2, <4>3 DEF Copies
    <3>4. \A a \in Addr : a - call.dst \notin DOMAIN Filled => mem[a] = Old[a]
      BY <3>2, <3>3, PartOfIt
    <3> QED  BY <1>3, <3>4 DEF NeverStrays
  <2> QED  BY <1>2, <2>2, <2>3
<1>4. CASE pc = "movs"
  <2> DEFINE r == k * unit
  <2>1. /\ call.f \in Moves /\ df \in BOOLEAN /\ unit \in Nat /\ k \in Nat
        /\ r <= n /\ Moved(mem, df, r) /\ s = PlaceOf(call.src, df, r, unit)
    BY <1>4 DEF SInv, Moving
  <2>2. r \in Nat
    BY <2>1
  <2>3. DOMAIN Filled = 0 .. n - 1
    BY <2>1, MovesFill
  <2> HIDE DEF r
  <2>4. \A a \in Addr : a - call.dst \notin DOMAIN Filled => mem[a] = Old[a]
    <3>1. CASE df
      <4>1. Partly(mem, r, n)
        BY <2>1, <3>1 DEF Moved
      <4>2. r .. n - 1 \subseteq DOMAIN Filled
        BY <1>1, <2>2, <2>3
      <4> QED  BY <1>1, <2>2, <4>1, <4>2, PartOfIt
    <3>2. CASE ~df
      <4>1. Partly(mem, 0, n - r)
        BY <2>1, <3>2 DEF Moved
      <4>2. 0 .. (n - r) - 1 \subseteq DOMAIN Filled /\ n - r \in Int
        BY <1>1, <2>2, <2>3
      <4> QED  BY <4>1, <4>2, PartOfIt
    <3> QED  BY <3>1, <3>2
  <2>5. \A j \in 0 .. r - 1 :
          LET a == IF df THEN s + unit - 1 - j ELSE s + j IN mem[a] = Old[a]
    <3>1. \A j \in 0 .. r - 1 :
            /\ df => mem[s + unit - 1 - j] = Old[s + unit - 1 - j]
            /\ ~df => mem[s + j] = Old[s + j]
      BY <1>1, <2>1, <2>2, MovesReadOld
    <3> HIDE DEF n, len
    <3> QED  BY <2>1, <3>1
  <2> QED  BY <2>4, <2>5 DEF NeverStrays, r
<1>5. CASE pc = "stos"
  <2> DEFINE r == k * unit
  <2>1. call.f = "memset" /\ k \in Nat /\ unit \in Nat /\ Partly(mem, 0, n - r)
    BY <1>5 DEF SInv, Storing
  <2>2. r \in Nat
    BY <2>1
  <2>3. DOMAIN Filled = 0 .. n - 1
    BY <2>1, SetsFill
  <2> HIDE DEF r
  <2>4. 0 .. (n - r) - 1 \subseteq DOMAIN Filled /\ n - r \in Int
    BY <1>1, <2>2, <2>3
  <2>5. \A a \in Addr : a - call.dst \notin DOMAIN Filled => mem[a] = Old[a]
    BY <2>1, <2>4, PartOfIt
  <2> QED  BY <1>5, <2>5 DEF NeverStrays
<1>6. CASE pc = "done"
  <2>1. AsFilled(mem)
    BY <1>6 DEF SInv
  <2> QED  BY <1>6, <2>1 DEF NeverStrays, AsFilled
<1> QED  BY <1>1, <1>3, <1>4, <1>5, <1>6

\* Whatever the overlap and the alignment, memmove and memset, a word or a byte
\* at a time, up or down, and the copies of strings leave in the destination what
\* was to be copied and in the rest of the memory what was there.
THEOREM RegionsAreFilled == Spec => []FillsItsRegion
<1>1. SInv => FillsItsRegion
  BY DEF SInv, AsFilled, FillsItsRegion
<1> QED  BY <1>1, Invariance, PTL

\* No round of a string instruction and no turn of a loop writes outside the
\* destination, nor over a byte of the source that is still to be moved.
THEOREM NothingIsOverwritten == Spec => []NeverStrays
<1>1. SInv => NeverStrays
  BY NothingStrays
<1> QED  BY <1>1, Invariance, PTL

\* Comparisons return the order of the first bytes that differ, as unsigned
\* numbers; searches return the first place that stops them; copies return the
\* destination or, strlcpy, the length that fitted.
THEOREM ResultsAreRight == Spec => []ReturnsRight
<1>1. SInv => ReturnsRight
  BY DEF SInv, ReturnsRight
<1> QED  BY <1>1, Invariance, PTL
=============================================================================
