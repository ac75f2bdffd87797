--------------------------- MODULE PrintFmtProofs ---------------------------
(***************************************************************************)
(* vsnprintf (PrintFmt), for every set of formats of whatever length, all  *)
(* arguments, buffers and sizes of an int: what is printed is what the     *)
(* format means, and the buffer holds as much of it as there is room for.  *)
(*                                                                         *)
(* The buffer is a function of what was printed so far and of its size     *)
(* (Buffered).  What was printed is what the pieces before the one under   *)
(* the pointer say, with a part of that one while it is copied (TextAt);   *)
(* between a `%' and the end of the conversion the locals of vprintfmt are *)
(* the fields of the piece that the pointer has passed, and the arguments  *)
(* taken are those of the pieces before and of the stars passed (PieceAt). *)
(* So whatever character is met is the one that the piece has at its place *)
(* (Meets), which leaves no case of the switch but that of the field.      *)
(*                                                                         *)
(* A sequence writes a number when each digit is that of its place, and    *)
(* printnum puts one that does; strtol has read, digit by digit, what is   *)
(* above the places still to come (Writes, ReadWritten).                   *)
(*                                                                         *)
(* The recursion of printnum, the numeral by its positional values and the *)
(* concatenation of the pieces are functions defined by recursion; the     *)
(* first sections give them, and what follows by induction, as lemmas.     *)
(***************************************************************************)
EXTENDS ReadBack, FiniteSetTheorems, SequenceTheorems, WellFoundedInduction, TLAPS

(* Induction.                                                              *)

\* Any set of naturals but the empty one has a least element.
LEMMA LeastElement ==
  ASSUME NEW T, T \subseteq Nat, T # {}
  PROVE  \E m \in T : \A j \in T : m <= j
<1> DEFINE R == OpToRel(<, Nat)
<1>1. IsWellFoundedOn(R, Nat)
  BY NatLessThanWellFounded
<1>2. \A i, j \in Nat : i < j => <<i, j>> \in R
  BY DEF OpToRel
<1> HIDE DEF R
<1>3. PICK m \in T : \A j \in T : ~(<<j, m>> \in R)
  BY <1>1, WFMin
<1>4. m \in Nat /\ \A j \in T : j \in Nat
  BY <1>3
<1>5. \A j \in T : ~(j < m)
  BY <1>2, <1>3, <1>4
<1> QED  BY <1>3, <1>4, <1>5

\* Induction, for a set in the place of a predicate.
LEMMA Induction ==
  ASSUME NEW S, 0 \in S, \A j \in Nat : j \in S => j + 1 \in S
  PROVE  Nat \subseteq S
<1> SUFFICES ASSUME Nat \ S # {} PROVE FALSE
  OBVIOUS
<1>1. PICK m \in Nat \ S : \A j \in Nat \ S : m <= j
  BY LeastElement
<1>2. m - 1 \in Nat /\ m - 1 \notin Nat \ S
  BY <1>1
<1> QED  BY <1>1, <1>2

\* A function that starts with a and continues with step, a family of
\* functions on T, exists ...
Continues(T, a, step, m, g) ==
  g[0] = a /\ \A j \in 1 .. m : g[j - 1] \in T => g[j] = step[j][g[j - 1]]

LEMMA ContinuesUnique ==
  ASSUME NEW T, NEW a \in T, NEW step \in [Nat -> [T -> T]],
         NEW m \in Nat, NEW g, Continues(T, a, step, m, g),
         NEW k \in Nat, NEW h, Continues(T, a, step, k, h), m <= k
  PROVE  \A j \in 0 .. m : g[j] = h[j] /\ g[j] \in T
<1> DEFINE S == {j \in Nat : j <= m => g[j] = h[j] /\ g[j] \in T}
<1>1. 0 \in S
  BY DEF Continues
<1>2. ASSUME NEW j \in Nat, j \in S PROVE j + 1 \in S
  <2>1. CASE j + 1 <= m
    <3>1. j + 1 \in 1 .. m /\ j + 1 \in 1 .. k /\ (j + 1) - 1 = j /\ j + 1 \in Nat
      BY <2>1
    <3>2. g[j] = h[j] /\ g[j] \in T
      BY <1>2, <2>1
    <3>3. g[j + 1] = step[j + 1][g[j]] /\ h[j + 1] = step[j + 1][h[j]]
      BY <3>1, <3>2 DEF Continues
    <3>4. step[j + 1][g[j]] \in T
      BY <3>1, <3>2
    <3> QED  BY <3>1, <3>2, <3>3, <3>4
  <2>2. CASE ~(j + 1 <= m)
    BY <2>2
  <2> QED  BY <2>1, <2>2
<1>3. Nat \subseteq S
  <2> HIDE DEF S
  <2> QED  BY <1>1, <1>2, Induction
<1> QED  BY <1>3

LEMMA ContinuesExists ==
  ASSUME NEW T, NEW a \in T, NEW step \in [Nat -> [T -> T]]
  PROVE  \A m \in Nat : \E g \in [0 .. m -> T] : Continues(T, a, step, m, g)
<1> DEFINE S == {m \in Nat : \E g \in [0 .. m -> T] : Continues(T, a, step, m, g)}
<1>1. 0 \in S
  <2> DEFINE g == [j \in 0 .. 0 |-> a]
  <2>1. g \in [0 .. 0 -> T] /\ Continues(T, a, step, 0, g)
    BY DEF Continues
  <2> QED  BY <2>1
<1>2. ASSUME NEW m \in Nat, m \in S PROVE m + 1 \in S
  <2>1. PICK g \in [0 .. m -> T] : Continues(T, a, step, m, g)
    BY <1>2
  <2> DEFINE h == [j \in 0 .. m + 1 |-> IF j = m + 1 THEN step[m + 1][g[m]] ELSE g[j]]
  <2>2. h \in [0 .. m + 1 -> T]
    BY <2>1
  <2>3. h[0] = a
    BY <2>1 DEF Continues
  <2>4. ASSUME NEW j \in 1 .. m + 1 PROVE h[j] = step[j][h[j - 1]]
    <3>1. CASE j = m + 1
      <4>1. h[j - 1] = g[m]
        BY <3>1
      <4> QED  BY <3>1, <4>1
    <3>2. CASE j \in 1 .. m
      <4>1. h[j] = g[j] /\ h[j - 1] = g[j - 1] /\ g[j - 1] \in T
        BY <3>2
      <4> HIDE DEF h
      <4> QED  BY <2>1, <3>2, <4>1 DEF Continues
    <3> QED  BY <3>1, <3>2
  <2> HIDE DEF h
  <2>5. Continues(T, a, step, m + 1, h)
    BY <2>3, <2>4 DEF Continues
  <2> QED  BY <2>2, <2>5
<1>3. Nat \subseteq S
  <2> HIDE DEF S
  <2> QED  BY <1>1, <1>2, Induction
<1> QED  BY <1>3

\* ... and is the same however far it is continued.
Solves(T, a, step, g) ==
  /\ g \in [Nat -> T]
  /\ g[0] = a
  /\ \A j \in Nat : g[j + 1] = step[j + 1][g[j]]
  /\ \A m \in Nat : \A h :
       Continues(T, a, step, m, h) => \A j \in 0 .. m : h[j] = g[j]

LEMMA Recursion ==
  ASSUME NEW T, NEW a \in T, NEW step \in [Nat -> [T -> T]]
  PROVE  \E g : Solves(T, a, step, g)
<1> DEFINE F(m) == CHOOSE h \in [0 .. m -> T] : Continues(T, a, step, m, h)
           g == [m \in Nat |-> F(m)[m]]
<1>1. ASSUME NEW m \in Nat PROVE F(m) \in [0 .. m -> T] /\ Continues(T, a, step, m, F(m))
  BY ContinuesExists
<1> HIDE DEF F
<1>2. ASSUME NEW m \in Nat, NEW h, Continues(T, a, step, m, h), NEW j \in 0 .. m
      PROVE  h[j] = g[j]
  <2>1. Continues(T, a, step, j, F(j)) /\ j \in Nat /\ j <= m
    BY <1>1
  <2>2. F(j)[j] = h[j]
    BY <2>1, <1>2, ContinuesUnique
  <2> QED  BY <2>2, <2>1
<1>3. g \in [Nat -> T]
  BY <1>1
<1>4. g[0] = a
  BY <1>1 DEF Continues
<1>5. ASSUME NEW j \in Nat PROVE g[j + 1] = step[j + 1][g[j]]
  <2>1. F(j + 1)[j] = g[j] /\ F(j + 1)[j + 1] = g[j + 1]
    BY <1>1, <1>2
  <2>2. j + 1 \in 1 .. j + 1 /\ (j + 1) - 1 = j /\ j \in 0 .. j + 1 /\ j + 1 \in Nat
    OBVIOUS
  <2>3. F(j + 1)[j] \in T
    BY <1>1, <2>2
  <2>4. F(j + 1)[j + 1] = step[j + 1][F(j + 1)[j]]
    BY <1>1, <2>2, <2>3 DEF Continues
  <2> QED  BY <2>1, <2>4
<1> HIDE DEF g
<1>6. Solves(T, a, step, g)
  BY <1>2, <1>3, <1>4, <1>5 DEF Solves
<1> QED  BY <1>6
-----------------------------------------------------------------------------
(* Numbers.                                                                *)

LEMMA MinTwo == ASSUME NEW i \in Int, NEW j \in Int
                PROVE  Min({i, j}) = IF i <= j THEN i ELSE j
  BY DEF Min

LEMMA MaxTwo == ASSUME NEW i \in Int, NEW j \in Int
                PROVE  Max({i, j}) = IF i >= j THEN i ELSE j
  BY DEF Max

LEMMA MinIs ==
  ASSUME NEW T, T \subseteq Int, NEW m \in T, \A j \in T : m <= j
  PROVE  Min(T) = m
<1>1. Min(T) \in T /\ \A j \in T : Min(T) <= j
  BY DEF Min
<1>2. Min(T) \in Int /\ m \in Int /\ Min(T) <= m /\ m <= Min(T)
  BY <1>1
<1> QED  BY <1>2

LEMMA MaxIs ==
  ASSUME NEW T, T \subseteq Int, NEW m \in T, \A j \in T : m >= j
  PROVE  Max(T) = m
<1>1. Max(T) \in T /\ \A j \in T : Max(T) >= j
  BY DEF Max
<1>2. Max(T) \in Int /\ m \in Int /\ Max(T) >= m /\ m >= Max(T)
  BY <1>1
<1> QED  BY <1>2

LEMMA PowStep ==
  ASSUME NEW x \in Nat
  PROVE  /\ Pow(x, 0) = 1
         /\ \A k \in Nat : Pow(x, k) \in Nat /\ Pow(x, k + 1) = x * Pow(x, k)
<1>1. \E step \in [Nat -> [Nat -> Nat]] : step = [j \in Nat |-> [v \in Nat |-> x * v]]
  <2> DEFINE s == [j \in Nat |-> [v \in Nat |-> x * v]]
  <2>1. s \in [Nat -> [Nat -> Nat]]
    OBVIOUS
  <2> QED  BY <2>1
<1>2. PICK step \in [Nat -> [Nat -> Nat]] : step = [j \in Nat |-> [v \in Nat |-> x * v]]
  BY <1>1
<1>3. PICK g : Solves(Nat, 1, step, g)
  <2>1. 1 \in Nat
    OBVIOUS
  <2> QED  BY <2>1, Recursion
<1>4. ASSUME NEW j \in Nat PROVE g[j + 1] = x * g[j]
  <2>1. g[j + 1] = step[j + 1][g[j]] /\ j + 1 \in Nat
    BY <1>3 DEF Solves
  <2>2. step[j + 1] = [v \in Nat |-> x * v]
    BY <2>1, <1>2
  <2>3. g[j] \in Nat
    BY <1>3 DEF Solves
  <2> QED  BY <2>1, <2>2, <2>3
<1>5. ASSUME NEW k \in Nat PROVE Pow(x, k) = g[k]
  <2> DEFINE pow == CHOOSE h : h = [j \in 0 .. k |-> IF j = 0 THEN 1 ELSE x * h[j - 1]]
             h0 == [j \in 0 .. k |-> g[j]]
  <2>1. h0 = [j \in 0 .. k |-> IF j = 0 THEN 1 ELSE x * h0[j - 1]]
    <3>1. ASSUME NEW j \in 0 .. k PROVE g[j] = IF j = 0 THEN 1 ELSE x * h0[j - 1]
      <4>1. CASE j = 0
        BY <4>1, <1>3 DEF Solves
      <4>2. CASE j # 0
        <5>1. j - 1 \in Nat /\ j - 1 \in 0 .. k /\ (j - 1) + 1 = j
          BY <4>2
        <5>2. h0[j - 1] = g[j - 1]
          BY <5>1
        <5>3. g[j] = x * g[j - 1]
          BY <5>1, <1>4
        <5> QED  BY <4>2, <5>2, <5>3
      <4> QED  BY <4>1, <4>2
    <3> QED  BY <3>1
  <2> HIDE DEF h0
  <2>2. pow = [j \in 0 .. k |-> IF j = 0 THEN 1 ELSE x * pow[j - 1]]
    BY <2>1
  <2>3. Pow(x, k) = pow[k]
    BY DEF Pow
  <2> HIDE DEF pow
  <2>4. Continues(Nat, 1, step, k, pow)
    <3>1. pow[0] = 1
      BY <2>2
    <3>2. ASSUME NEW j \in 1 .. k, pow[j - 1] \in Nat PROVE pow[j] = step[j][pow[j - 1]]
      <4>1. j \in Nat /\ j \in 0 .. k /\ j # 0
        OBVIOUS
      <4>2. pow[j] = x * pow[j - 1]
        BY <2>2, <4>1
      <4>3. step[j] = [v \in Nat |-> x * v]
        BY <4>1, <1>2
      <4> QED  BY <3>2, <4>2, <4>3
    <3> QED  BY <3>1, <3>2 DEF Continues
  <2>5. pow[k] = g[k]
    BY <2>4, <1>3 DEF Solves
  <2> QED  BY <2>3, <2>5
<1>6. g[0] = 1 /\ \A k \in Nat : g[k] \in Nat
  BY <1>3 DEF Solves
<1>7. ASSUME NEW k \in Nat PROVE Pow(x, k) \in Nat /\ Pow(x, k + 1) = x * Pow(x, k)
  <2>1. k + 1 \in Nat
    OBVIOUS
  <2> QED  BY <2>1, <1>4, <1>5, <1>6
<1> QED  BY <1>5, <1>6, <1>7

LEMMA PowPositive ==
  ASSUME NEW x \in Nat \ {0}, NEW k \in Nat
  PROVE  Pow(x, k) \in Nat \ {0}
<1> DEFINE S == {j \in Nat : Pow(x, j) > 0}
<1>1. 0 \in S
  BY PowStep
<1>2. ASSUME NEW j \in Nat, j \in S PROVE j + 1 \in S
  <2> DEFINE q == Pow(x, j)
  <2>1. q \in Nat /\ q > 0 /\ Pow(x, j + 1) = x * q
    BY <1>2, PowStep
  <2> HIDE DEF q
  <2>2. x * q > 0
    BY <2>1
  <2> QED  BY <2>1, <2>2
<1>3. Nat \subseteq S
  <2> HIDE DEF S
  <2> QED  BY <1>1, <1>2, Induction
<1> QED  BY <1>3, PowStep

\* A power is greater than its exponent, and no power is less than an earlier one.
LEMMA PowGrows ==
  ASSUME NEW x \in Nat, x >= 2
  PROVE  /\ \A k \in Nat : Pow(x, k) > k
         /\ \A k, l \in Nat : k <= l => Pow(x, k) <= Pow(x, l)
<1>1. ASSUME NEW k \in Nat
      PROVE  Pow(x, k) \in Nat /\ Pow(x, k) > 0 /\ Pow(x, k + 1) >= 2 * Pow(x, k)
  <2> DEFINE q == Pow(x, k)
  <2>1. q \in Nat /\ q > 0 /\ Pow(x, k + 1) = x * q
    <3>1. x \in Nat \ {0}
      OBVIOUS
    <3> QED  BY <3>1, PowStep, PowPositive
  <2> HIDE DEF q
  <2>2. x * q >= 2 * q
    BY <2>1
  <2> QED  BY <2>1, <2>2 DEF q
<1> DEFINE S == {k \in Nat : Pow(x, k) > k}
<1>2. 0 \in S
  BY PowStep
<1>3. ASSUME NEW k \in Nat, k \in S PROVE k + 1 \in S
  BY <1>1, <1>3, PowStep
<1>4. Nat \subseteq S
  <2> HIDE DEF S
  <2> QED  BY <1>2, <1>3, Induction
<1>5. ASSUME NEW k \in Nat, NEW l \in Nat, k <= l PROVE Pow(x, k) <= Pow(x, l)
  <2> DEFINE R == {j \in Nat : Pow(x, k) <= Pow(x, k + j)}
  <2>1. 0 \in R
    BY PowStep
  <2>2. ASSUME NEW j \in Nat, j \in R PROVE j + 1 \in R
    <3>1. k + j \in Nat /\ k + (j + 1) = (k + j) + 1
      OBVIOUS
    <3>2. Pow(x, k) \in Nat /\ Pow(x, k + j) \in Nat /\ Pow(x, (k + j) + 1) \in Nat
      <4> DEFINE i == k + j
      <4>1. i \in Nat /\ i + 1 \in Nat
        OBVIOUS
      <4> HIDE DEF i
      <4>2. Pow(x, k) \in Nat /\ Pow(x, i) \in Nat /\ Pow(x, i + 1) \in Nat
        BY <4>1, PowStep
      <4> QED  BY <4>2 DEF i
    <3>3. Pow(x, (k + j) + 1) >= 2 * Pow(x, k + j)
      BY <3>1, <1>1
    <3> QED  BY <2>2, <3>1, <3>2, <3>3
  <2>3. Nat \subseteq R
    <3> HIDE DEF R
    <3> QED  BY <2>1, <2>2, Induction
  <2>4. l - k \in R
    BY <2>3, <1>5
  <2> QED  BY <2>4
<1> QED  BY <1>4, <1>5

\* Division is what it is named for, and division by a product.
LEMMA Quotient ==
  ASSUME NEW a \in Nat, NEW d \in Nat \ {0}
  PROVE  /\ a \div d \in Nat /\ a % d \in 0 .. d - 1
         /\ a = d * (a \div d) + (a % d)
  OBVIOUS

LEMMA QuotientUnique ==
  ASSUME NEW a \in Nat, NEW d \in Nat \ {0}, NEW q \in Nat, NEW r \in 0 .. d - 1,
         a = d * q + r
  PROVE  a \div d = q /\ a % d = r
<1> DEFINE s == a \div d
           t == a % d
<1>1. s \in Nat /\ t \in 0 .. d - 1 /\ a = d * s + t
  BY Quotient
<1> HIDE DEF s, t
<1>2. ASSUME NEW u \in Nat, NEW v \in Nat, u < v PROVE d * v >= d * u + d
  <2>1. v - u - 1 \in Nat /\ d * v = d * u + d + d * (v - u - 1)
    BY <1>2
  <2>2. d * (v - u - 1) >= 0
    BY <2>1
  <2>3. d * v \in Int /\ d * u \in Int
    OBVIOUS
  <2> QED  BY <2>1, <2>2, <2>3
<1>3. ~(q < s)
  <2> SUFFICES ASSUME q < s PROVE FALSE
    OBVIOUS
  <2>1. d * s >= d * q + d
    BY <1>1, <1>2
  <2>2. d * s \in Int /\ d * q \in Int
    BY <1>1
  <2> QED  BY <1>1, <2>1, <2>2
<1>4. ~(s < q)
  <2> SUFFICES ASSUME s < q PROVE FALSE
    OBVIOUS
  <2>1. d * q >= d * s + d
    BY <1>1, <1>2
  <2>2. d * s \in Int /\ d * q \in Int
    BY <1>1
  <2> QED  BY <1>1, <2>1, <2>2
<1>5. s = q
  BY <1>1, <1>3, <1>4
<1>6. t = r
  BY <1>1, <1>5
<1> QED  BY <1>5, <1>6 DEF s, t

LEMMA QuotientOfQuotient ==
  ASSUME NEW a \in Nat, NEW c \in Nat \ {0}, NEW d \in Nat \ {0}
  PROVE  (a \div c) \div d = a \div (c * d)
<1> DEFINE q == a \div c
           r == a % c
           s == q \div d
           t == q % d
<1>1. q \in Nat /\ r \in 0 .. c - 1 /\ a = c * q + r
  BY Quotient
<1>2. s \in Nat /\ t \in 0 .. d - 1 /\ q = d * s + t
  BY <1>1, Quotient
<1> HIDE DEF q, r, s, t
<1>3. a = (c * d) * s + (c * t + r)
  <2>1. c * (d * s + t) = (c * d) * s + c * t
    BY <1>2
  <2>2. (c * d) * s \in Int /\ c * t \in Int
    BY <1>2
  <2> QED  BY <1>1, <1>2, <2>1, <2>2
<1>4. c * t + r \in 0 .. c * d - 1
  <2>1. c * d = c * t + c + c * (d - t - 1)
    BY <1>2
  <2>2. c * (d - t - 1) >= 0 /\ c * t >= 0 /\ c * (d - t - 1) \in Int /\ c * t \in Int
    BY <1>2
  <2> QED  BY <1>1, <2>1, <2>2
<1>5. c * d \in Nat \ {0}
  OBVIOUS
<1>6. a \div (c * d) = s
  <2> DEFINE e == c * d
             u == c * t + r
  <2>1. a = e * s + u /\ e \in Nat \ {0} /\ u \in 0 .. e - 1
    BY <1>3, <1>4, <1>5
  <2> HIDE DEF e, u
  <2>2. a \div e = s
    BY <2>1, <1>2, QuotientUnique
  <2> QED  BY <2>2 DEF e
<1> QED  BY <1>6 DEF s, q
-----------------------------------------------------------------------------
(* Sequences.                                                              *)

LEMMA PadsTyped ==
  ASSUME NEW X, NEW c \in X, NEW k \in Int
  PROVE  /\ Pads(c, k) \in Seq(X)
         /\ Len(Pads(c, k)) = IF k > 0 THEN k ELSE 0
         /\ \A i \in 1 .. Len(Pads(c, k)) : Pads(c, k)[i] = c
         /\ k <= 0 => Pads(c, k) = << >>
<1>1. Max({0, k}) = IF k > 0 THEN k ELSE 0
  BY MaxTwo
<1>2. Pads(c, k) = [j \in 1 .. (IF k > 0 THEN k ELSE 0) |-> c]
  BY <1>1 DEF Pads
<1> DEFINE m == IF k > 0 THEN k ELSE 0
<1>3. m \in Nat /\ Pads(c, k) = [j \in 1 .. m |-> c] /\ m = IF k > 0 THEN k ELSE 0
  BY <1>2
<1> HIDE DEF m
<1>4. Pads(c, k) \in Seq(X) /\ Len(Pads(c, k)) = m
  BY <1>3
<1>5. k <= 0 => Pads(c, k) = << >>
  BY <1>3, <1>4
<1> QED  BY <1>3, <1>4, <1>5

\* The sequences of ss, joined one after the other.
Joins(X, ss, g) ==
  /\ g \in [0 .. Len(ss) -> Seq(X)]
  /\ g[0] = << >>
  /\ \A j \in 1 .. Len(ss) : g[j] = g[j - 1] \o ss[j]

LEMMA JoinsExists ==
  ASSUME NEW X, NEW ss \in Seq(Seq(X))
  PROVE  \E g : Joins(X, ss, g)
<1>1. PICK step \in [Nat -> [Seq(X) -> Seq(X)]] :
        \A j \in 1 .. Len(ss) : \A v \in Seq(X) : step[j][v] = v \o ss[j]
  <2> DEFINE s == [j \in Nat |-> [v \in Seq(X) |->
                     IF j \in 1 .. Len(ss) THEN v \o ss[j] ELSE v]]
  <2>1. ASSUME NEW j \in 1 .. Len(ss), NEW v \in Seq(X) PROVE v \o ss[j] \in Seq(X)
    <3>1. ss[j] \in Seq(X)
      BY ElementOfSeq
    <3> QED  BY <3>1
  <2>2. s \in [Nat -> [Seq(X) -> Seq(X)]]
    BY <2>1
  <2>3. \A j \in 1 .. Len(ss) : \A v \in Seq(X) : s[j][v] = v \o ss[j]
    <3>1. Len(ss) \in Nat
      OBVIOUS
    <3> QED  BY <3>1
  <2> HIDE DEF s
  <2> QED  BY <2>2, <2>3
<1>2. PICK g \in [0 .. Len(ss) -> Seq(X)] : Continues(Seq(X), << >>, step, Len(ss), g)
  <2>1. << >> \in Seq(X) /\ Len(ss) \in Nat
    OBVIOUS
  <2> QED  BY <2>1, ContinuesExists
<1>3. ASSUME NEW j \in 1 .. Len(ss) PROVE g[j] = g[j - 1] \o ss[j]
  <2>1. j - 1 \in 0 .. Len(ss) /\ g[j - 1] \in Seq(X)
    <3>1. Len(ss) \in Nat
      OBVIOUS
    <3>2. j - 1 \in 0 .. Len(ss)
      BY <3>1
    <3> QED  BY <3>2
  <2>2. g[j] = step[j][g[j - 1]]
    BY <1>2, <2>1 DEF Continues
  <2> QED  BY <1>1, <2>1, <2>2
<1> QED  BY <1>2, <1>3 DEF Joins, Continues

LEMMA FlattenJoins ==
  ASSUME NEW X, NEW ss \in Seq(Seq(X)), NEW g, Joins(X, ss, g)
  PROVE  FlattenSeq(ss) = g[Len(ss)]
<1>1. CASE Len(ss) = 0
  <2>1. ss = << >>
    BY <1>1
  <2> QED  BY <1>1, <2>1 DEF FlattenSeq, Joins
<1>2. CASE Len(ss) # 0
  <2> DEFINE flatten == CHOOSE h : h = [i \in 1 .. Len(ss) |->
                          IF i = 1 THEN ss[i] ELSE h[i - 1] \o ss[i]]
             h0 == [i \in 1 .. Len(ss) |-> g[i]]
  <2>1. g[1] = << >> \o ss[1] /\ ss[1] \in Seq(X)
    <3>1. 1 \in 1 .. Len(ss) /\ 1 - 1 = 0
      BY <1>2
    <3>2. g[1] = g[1 - 1] \o ss[1] /\ g[0] = << >>
      BY <3>1 DEF Joins
    <3>3. ss[1] \in Seq(X)
      BY <3>1, ElementOfSeq
    <3> QED  BY <3>1, <3>2, <3>3
  <2>2. h0 = [i \in 1 .. Len(ss) |-> IF i = 1 THEN ss[i] ELSE h0[i - 1] \o ss[i]]
    <3>1. ASSUME NEW i \in 1 .. Len(ss)
          PROVE  g[i] = IF i = 1 THEN ss[i] ELSE h0[i - 1] \o ss[i]
      <4>1. CASE i = 1
        BY <4>1, <2>1, ConcatEmptySeq
      <4>2. CASE i # 1
        <5>1. i - 1 \in 1 .. Len(ss)
          BY <4>2
        <5> QED  BY <4>2, <5>1 DEF Joins
      <4> QED  BY <4>1, <4>2
    <3> QED  BY <3>1
  <2> HIDE DEF h0
  <2>3. flatten = [i \in 1 .. Len(ss) |-> IF i = 1 THEN ss[i] ELSE flatten[i - 1] \o ss[i]]
    BY <2>2
  <2>4. FlattenSeq(ss) = flatten[Len(ss)]
    BY <1>2 DEF FlattenSeq
  <2> HIDE DEF flatten
  <2> DEFINE S == {i \in Nat : i \in 1 .. Len(ss) => flatten[i] = g[i]}
  <2>5. 0 \in S
    OBVIOUS
  <2>6. ASSUME NEW i \in Nat, i \in S PROVE i + 1 \in S
    <3> SUFFICES ASSUME i + 1 \in 1 .. Len(ss) PROVE flatten[i + 1] = g[i + 1]
      OBVIOUS
    <3>1. CASE i = 0
      <4>1. flatten[1] = ss[1]
        BY <3>1, <2>3
      <4> QED  BY <3>1, <4>1, <2>1, ConcatEmptySeq
    <3>2. CASE i # 0
      <4>1. i \in 1 .. Len(ss) /\ (i + 1) - 1 = i /\ i + 1 # 1
        BY <3>2
      <4>2. flatten[i + 1] = flatten[i] \o ss[i + 1]
        BY <4>1, <2>3
      <4>3. g[i + 1] = g[i] \o ss[i + 1]
        BY <4>1 DEF Joins
      <4> QED  BY <2>6, <4>1, <4>2, <4>3
    <3> QED  BY <3>1, <3>2
  <2>7. Nat \subseteq S
    <3> HIDE DEF S
    <3> QED  BY <2>5, <2>6, Induction
  <2>8. Len(ss) \in 1 .. Len(ss) /\ Len(ss) \in Nat
    BY <1>2
  <2> QED  BY <2>4, <2>7, <2>8
<1> QED  BY <1>1, <1>2

LEMMA FlattenEmpty == FlattenSeq(<< >>) = << >>
  BY DEF FlattenSeq

LEMMA FlattenAppend ==
  ASSUME NEW X, NEW ss \in Seq(Seq(X)), NEW s \in Seq(X)
  PROVE  /\ FlattenSeq(ss) \in Seq(X)
         /\ FlattenSeq(Append(ss, s)) = FlattenSeq(ss) \o s
<1>1. PICK g : Joins(X, ss, g)
  BY JoinsExists
<1> DEFINE m == Len(ss)
           tt == Append(ss, s)
           h == [j \in 0 .. m + 1 |-> IF j = m + 1 THEN g[m] \o s ELSE g[j]]
<1>2. /\ m \in Nat /\ tt \in Seq(Seq(X)) /\ Len(tt) = m + 1 /\ tt[m + 1] = s
      /\ \A j \in 1 .. m : tt[j] = ss[j]
  BY AppendProperties
<1>3. g \in [0 .. m -> Seq(X)] /\ g[0] = << >> /\ \A j \in 1 .. m : g[j] = g[j - 1] \o ss[j]
  BY <1>1 DEF Joins
<1> HIDE DEF m, tt
<1>4. Joins(X, tt, h)
  <2>1. g[m] \o s \in Seq(X)
    <3>1. g[m] \in Seq(X)
      BY <1>2, <1>3
    <3> QED  BY <3>1
  <2>2. h \in [0 .. m + 1 -> Seq(X)] /\ h[0] = << >>
    BY <1>2, <1>3, <2>1
  <2>3. ASSUME NEW j \in 1 .. m + 1 PROVE h[j] = h[j - 1] \o tt[j]
    <3>1. CASE j = m + 1
      <4>1. h[j] = g[m] \o s /\ h[j - 1] = g[m]
        BY <1>2, <3>1
      <4> QED  BY <3>1, <4>1, <1>2
    <3>2. CASE j \in 1 .. m
      <4>1. h[j] = g[j] /\ h[j - 1] = g[j - 1]
        BY <1>2, <3>2
      <4> QED  BY <3>2, <4>1, <1>2, <1>3
    <3>3. j = m + 1 \/ j \in 1 .. m
      BY <1>2
    <3> HIDE DEF h
    <3> QED  BY <3>1, <3>2, <3>3
  <2> QED  BY <1>2, <2>2, <2>3 DEF Joins
<1>5. FlattenSeq(ss) = g[m]
  BY <1>1, FlattenJoins DEF m
<1>6. FlattenSeq(tt) = h[m + 1]
  <2> HIDE DEF h
  <2> QED  BY <1>2, <1>4, FlattenJoins
<1>7. h[m + 1] = g[m] \o s
  BY <1>2
<1> QED  BY <1>2, <1>3, <1>5, <1>6, <1>7 DEF tt

\* The first k sequences of F, joined.
LEMMA FlattenNext ==
  ASSUME NEW X, NEW k \in Nat, NEW F \in [1 .. k + 1 -> Seq(X)]
  PROVE  /\ FlattenSeq([j \in 1 .. k |-> F[j]]) \in Seq(X)
         /\ FlattenSeq([j \in 1 .. k + 1 |-> F[j]])
              = FlattenSeq([j \in 1 .. k |-> F[j]]) \o F[k + 1]
<1> DEFINE ss == [j \in 1 .. k |-> F[j]]
           tt == [j \in 1 .. k + 1 |-> F[j]]
<1>1. ss \in Seq(Seq(X)) /\ Len(ss) = k /\ F[k + 1] \in Seq(X)
  OBVIOUS
<1>2. tt \in Seq(Seq(X)) /\ Len(tt) = k + 1
  OBVIOUS
<1>3. tt = Append(ss, F[k + 1])
  <2> DEFINE uu == Append(ss, F[k + 1])
  <2>1. uu \in Seq(Seq(X)) /\ Len(uu) = k + 1 /\ uu[k + 1] = F[k + 1]
        /\ \A j \in 1 .. k : uu[j] = ss[j]
    BY <1>1, AppendProperties
  <2>2. \A j \in 1 .. k : uu[j] = F[j]
    BY <2>1
  <2>3. \A j \in 1 .. k + 1 : tt[j] = F[j]
    OBVIOUS
  <2> HIDE DEF uu, tt
  <2>4. \A j \in 1 .. k + 1 : tt[j] = uu[j]
    BY <2>1, <2>2, <2>3
  <2> QED  BY <1>2, <2>1, <2>4, SeqEqual DEF uu
<1> HIDE DEF ss, tt
<1>4. FlattenSeq(ss) \in Seq(X) /\ FlattenSeq(tt) = FlattenSeq(ss) \o F[k + 1]
  BY <1>1, <1>3, FlattenAppend
<1> QED  BY <1>4 DEF ss, tt
-----------------------------------------------------------------------------
(* Numerals.                                                               *)

Hex == {Digits[d] : d \in 1 .. 16}

\* m has k digits.
IsLength(m, base, k) ==
  k \in Nat \ {0} /\ m < Pow(base, k) /\ (k = 1 \/ m >= Pow(base, k - 1))

LEMMA LengthExists ==
  ASSUME NEW base \in 2 .. 16, NEW m \in Nat
  PROVE  \E k \in 1 .. m + 1 : IsLength(m, base, k)
<1> DEFINE S == {k \in Nat : k >= 1 /\ m < Pow(base, k)}
<1>1. base \in Nat /\ base >= 2
  OBVIOUS
<1>2. m + 1 \in S
  <2>1. m + 1 \in Nat
    OBVIOUS
  <2>2. Pow(base, m + 1) > m + 1 /\ Pow(base, m + 1) \in Nat
    BY <1>1, <2>1, PowGrows, PowStep
  <2> QED  BY <2>1, <2>2
<1>3. PICK k \in S : \A j \in S : k <= j
  BY <1>2, LeastElement
<1>4. k \in 1 .. m + 1
  BY <1>2, <1>3
<1>5. k = 1 \/ m >= Pow(base, k - 1)
  <2> SUFFICES ASSUME k # 1, ~(m >= Pow(base, k - 1)) PROVE FALSE
    OBVIOUS
  <2>1. k - 1 \in Nat /\ k - 1 >= 1
    BY <1>4
  <2>2. Pow(base, k - 1) \in Nat
    BY <1>1, <2>1, PowStep
  <2>3. k - 1 \in S
    BY <2>1, <2>2
  <2> QED  BY <1>3, <1>4, <2>3
<1> QED  BY <1>3, <1>4, <1>5 DEF IsLength

LEMMA LengthUnique ==
  ASSUME NEW base \in 2 .. 16, NEW m \in Nat, NEW k, IsLength(m, base, k),
         NEW l, IsLength(m, base, l)
  PROVE  k = l
<1>1. base \in Nat /\ base >= 2
  OBVIOUS
<1>2. ASSUME NEW i, IsLength(m, base, i), NEW j, IsLength(m, base, j), i < j PROVE FALSE
  <2>1. /\ i \in Nat /\ j \in Nat /\ j - 1 \in Nat /\ i <= j - 1
        /\ m < Pow(base, i) /\ m >= Pow(base, j - 1)
    BY <1>2 DEF IsLength
  <2>2. Pow(base, i) <= Pow(base, j - 1) /\ Pow(base, i) \in Nat /\ Pow(base, j - 1) \in Nat
    BY <1>1, <2>1, PowGrows, PowStep
  <2> QED  BY <2>1, <2>2
<1>3. k \in Nat /\ l \in Nat
  BY DEF IsLength
<1>4. ~(k < l) /\ ~(l < k)
  BY <1>2
<1> QED  BY <1>3, <1>4

LEMMA NumeralIs ==
  ASSUME NEW base \in 2 .. 16, NEW m \in Nat, NEW k, IsLength(m, base, k)
  PROVE  Numeral(m, base) = [i \in 1 .. k |-> Digits[((m \div Pow(base, k - i)) % base) + 1]]
<1> DEFINE len == CHOOSE j \in 1 .. m + 1 : m < Pow(base, j) /\ (j = 1 \/ m >= Pow(base, j - 1))
<1>1. \E j \in 1 .. m + 1 : m < Pow(base, j) /\ (j = 1 \/ m >= Pow(base, j - 1))
  BY LengthExists DEF IsLength
<1>2. len \in 1 .. m + 1 /\ m < Pow(base, len) /\ (len = 1 \/ m >= Pow(base, len - 1))
  BY <1>1
<1>3. Numeral(m, base) = [i \in 1 .. len |-> Digits[((m \div Pow(base, len - i)) % base) + 1]]
  BY DEF Numeral
<1> HIDE DEF len
<1>4. len \in Nat \ {0}
  BY <1>2
<1>5. IsLength(m, base, len)
  BY <1>2, <1>4 DEF IsLength
<1>6. len = k
  BY <1>5, LengthUnique
<1> QED  BY <1>3, <1>6

LEMMA NumeralTyped ==
  ASSUME NEW base \in 2 .. 16, NEW m \in Nat
  PROVE  /\ Numeral(m, base) \in Seq(Hex)
         /\ IsLength(m, base, Len(Numeral(m, base)))
<1>1. PICK k \in 1 .. m + 1 : IsLength(m, base, k)
  BY LengthExists
<1>2. Numeral(m, base) = [i \in 1 .. k |-> Digits[((m \div Pow(base, k - i)) % base) + 1]]
  BY <1>1, NumeralIs
<1>3. ASSUME NEW i \in 1 .. k PROVE Digits[((m \div Pow(base, k - i)) % base) + 1] \in Hex
  <2>1. k - i \in Nat /\ base \in Nat \ {0}
    OBVIOUS
  <2>2. Pow(base, k - i) \in Nat \ {0}
    BY <2>1, PowPositive
  <2>3. m \div Pow(base, k - i) \in Nat
    BY <2>2, Quotient
  <2>4. (m \div Pow(base, k - i)) % base \in 0 .. base - 1
    BY <2>1, <2>3, Quotient
  <2>5. ((m \div Pow(base, k - i)) % base) + 1 \in 1 .. 16
    BY <2>4
  <2> QED  BY <2>5 DEF Hex
<1>4. k \in Nat
  OBVIOUS
<1>5. Numeral(m, base) \in Seq(Hex) /\ Len(Numeral(m, base)) = k
  BY <1>2, <1>3, <1>4
<1> QED  BY <1>1, <1>5

LowDigit(m, base) == Digits[(m % base) + 1]

LEMMA NumeralSmall ==
  ASSUME NEW base \in 2 .. 16, NEW m \in Nat, m < base
  PROVE  Numeral(m, base) = <<Digits[(m % base) + 1]>>
<1>1. Pow(base, 0) = 1 /\ Pow(base, 1) = base
  <2>1. base \in Nat /\ 0 \in Nat /\ 0 + 1 = 1
    OBVIOUS
  <2>2. Pow(base, 0) = 1 /\ Pow(base, 0 + 1) = base * Pow(base, 0)
    BY <2>1, PowStep
  <2> QED  BY <2>1, <2>2
<1>2. IsLength(m, base, 1)
  BY <1>1 DEF IsLength
<1>3. Numeral(m, base) = [i \in 1 .. 1 |-> Digits[((m \div Pow(base, 1 - i)) % base) + 1]]
  BY <1>2, NumeralIs
<1>4. m \div Pow(base, 1 - 1) = m
  BY <1>1
<1> QED  BY <1>3, <1>4

LEMMA NumeralLarge ==
  ASSUME NEW base \in 2 .. 16, NEW m \in Nat, m >= base
  PROVE  /\ m \div base \in Nat /\ m \div base < m
         /\ Numeral(m, base) = Numeral(m \div base, base) \o <<Digits[(m % base) + 1]>>
<1> DEFINE q == m \div base
           r == m % base
<1>1. base \in Nat \ {0} /\ base \in Nat
  OBVIOUS
<1>2. q \in Nat /\ r \in 0 .. base - 1 /\ m = base * q + r
  BY <1>1, Quotient
<1> HIDE DEF q, r
<1>3. q < m
  <2>1. base * q >= 2 * q /\ base * q \in Nat
    BY <1>2
  <2> QED  BY <1>2, <2>1
<1>4. PICK k \in 1 .. q + 1 : IsLength(q, base, k)
  BY <1>2, LengthExists
<1>5. k \in Nat \ {0} /\ k + 1 \in Nat \ {0} /\ k - 1 \in Nat /\ (k - 1) + 1 = k /\ (k + 1) - 1 = k
  BY <1>2
<1> DEFINE P(j) == Pow(base, j)
<1>6. /\ \A j \in Nat : P(j) \in Nat /\ P(j + 1) = base * P(j)
      /\ P(0) = 1
  BY <1>1, PowStep
<1>7. IsLength(m, base, k + 1)
  <2>1. m < P(k + 1)
    <3> DEFINE x == P(k)
    <3>1. x \in Nat /\ P(k + 1) = base * x /\ q + 1 <= x
      BY <1>2, <1>4, <1>5, <1>6 DEF IsLength
    <3> HIDE DEF x, P
    <3>2. base * (q + 1) <= base * x
      BY <1>1, <1>2, <3>1
    <3>3. base * (q + 1) = base * q + base /\ base * q \in Nat /\ base * x \in Nat
      BY <1>1, <1>2, <3>1
    <3> QED  BY <1>2, <3>1, <3>2, <3>3
  <2>2. m >= P(k)
    <3>1. CASE k = 1
      <4>1. 0 + 1 = 1 /\ 0 \in Nat
        OBVIOUS
      <4>2. P(0 + 1) = base * P(0)
        BY <4>1, <1>6
      <4> HIDE DEF P
      <4>3. P(1) = base
        BY <4>1, <4>2, <1>6
      <4> QED  BY <3>1, <4>3
    <3>2. CASE k # 1
      <4> DEFINE x == P(k - 1)
      <4>1. x \in Nat /\ P(k) = base * x /\ q >= x
        <5>1. q >= Pow(base, k - 1)
          BY <1>4, <3>2 DEF IsLength
        <5>2. P((k - 1) + 1) = base * P(k - 1) /\ P(k - 1) \in Nat
          BY <1>5, <1>6
        <5> QED  BY <5>1, <5>2, <1>5
      <4> HIDE DEF x, P
      <4>2. base * x <= base * q /\ base * x \in Nat /\ base * q \in Nat
        BY <1>1, <1>2, <4>1
      <4> QED  BY <1>2, <4>1, <4>2
    <3> QED  BY <3>1, <3>2
  <2> QED  BY <1>5, <2>1, <2>2 DEF IsLength
<1>8. Numeral(m, base) = [i \in 1 .. k + 1 |-> Digits[((m \div Pow(base, (k + 1) - i)) % base) + 1]]
  BY <1>7, NumeralIs
<1>9. Numeral(q, base) = [i \in 1 .. k |-> Digits[((q \div Pow(base, k - i)) % base) + 1]]
  <2>1. \A x \in Nat : IsLength(x, base, k) =>
          Numeral(x, base) = [i \in 1 .. k |-> Digits[((x \div Pow(base, k - i)) % base) + 1]]
    BY NumeralIs
  <2> QED  BY <1>2, <1>4, <2>1, Zenon
<1>10. Numeral(q, base) \in Seq(Hex)
  BY <1>2, NumeralTyped
<1>11. Numeral(m, base) \in Seq(Hex)
  BY NumeralTyped
<1>12. Digits[r + 1] \in Hex
  <2>1. r + 1 \in 1 .. 16
    BY <1>2
  <2> QED  BY <2>1 DEF Hex
<1> DEFINE t == Numeral(q, base) \o <<Digits[r + 1]>>
<1>13. t \in Seq(Hex) /\ Len(t) = k + 1 /\ t[k + 1] = Digits[r + 1]
       /\ \A i \in 1 .. k : t[i] = Numeral(q, base)[i]
  <2> DEFINE nq == Numeral(q, base)
             d == Digits[r + 1]
  <2>1. nq \in Seq(Hex) /\ Len(nq) = k /\ d \in Hex
    BY <1>5, <1>9, <1>10, <1>12
  <2> HIDE DEF nq, d
  <2>2. nq \o <<d>> \in Seq(Hex) /\ Len(nq \o <<d>>) = k + 1 /\ (nq \o <<d>>)[k + 1] = d
        /\ \A i \in 1 .. k : (nq \o <<d>>)[i] = nq[i]
    BY <1>5, <2>1
  <2> QED  BY <2>2 DEF nq, d
<1>14. Numeral(m, base)[k + 1] = Digits[r + 1]
  <2>1. (k + 1) - (k + 1) = 0 /\ k + 1 \in 1 .. k + 1
    BY <1>5
  <2>2. Pow(base, (k + 1) - (k + 1)) = 1
    BY <2>1, <1>6
  <2>3. m \div 1 = m
    OBVIOUS
  <2> QED  BY <1>8, <2>1, <2>2, <2>3 DEF r
<1>15. ASSUME NEW i \in 1 .. k PROVE Numeral(m, base)[i] = t[i]
  <2> DEFINE x == Pow(base, k - i)
  <2>1. k - i \in Nat /\ (k + 1) - i = (k - i) + 1 /\ i \in 1 .. k + 1
    BY <1>5
  <2>2. x \in Nat \ {0} /\ Pow(base, (k + 1) - i) = base * x
    BY <1>1, <2>1, PowStep, PowPositive
  <2> HIDE DEF x
  <2>3. q \div x = m \div (base * x)
    BY <1>1, <2>2, QuotientOfQuotient DEF q
  <2>4. Numeral(m, base)[i] = Digits[((m \div (base * x)) % base) + 1]
    BY <1>8, <2>1, <2>2
  <2>5. Numeral(q, base)[i] = Digits[((q \div x) % base) + 1]
    BY <1>9 DEF x
  <2> HIDE DEF t
  <2> QED  BY <1>13, <2>3, <2>4, <2>5
<1>16. Numeral(m, base) = t
  <2>1. Len(Numeral(m, base)) = k + 1
    BY <1>5, <1>8, <1>11
  <2> HIDE DEF t
  <2>2. \A i \in 1 .. k + 1 : Numeral(m, base)[i] = t[i]
    <3>1. \A i \in 1 .. k + 1 : i \in 1 .. k \/ i = k + 1
      BY <1>5
    <3> QED  BY <1>13, <1>14, <1>15, <3>1
  <2> QED  BY <1>11, <1>13, <2>1, <2>2, SeqEqual
<1> QED  BY <1>2, <1>3, <1>16 DEF q, r, t

\* printnum recurses down to the first digit, and pads there: what it puts is
\* the numeral, and before it what is left of the width.
LEMMA PrintnumIsNumeral ==
  ASSUME NEW base \in 2 .. 16, NEW m0 \in Nat, NEW w0 \in Int, NEW c
  PROVE  /\ printnum(m0, base, w0, c)
              = Pads(c, w0 - Len(Numeral(m0, base))) \o Numeral(m0, base)
         /\ printnum(m0, base, w0, c) \in Seq(Hex \cup {c})
<1> DEFINE X == Hex \cup {c}
           g == [m \in Nat |-> [w \in Int |-> Pads(c, w - Len(Numeral(m, base))) \o Numeral(m, base)]]
           digits == CHOOSE h : h = [m \in Nat |->
             [w \in Int |->
               (IF m >= base THEN h[m \div base][w - 1] ELSE Pads(c, w - 1))
                 \o <<LowDigit(m, base)>>]]
<1>1. ASSUME NEW m \in Nat
      PROVE  Numeral(m, base) \in Seq(X) /\ Len(Numeral(m, base)) \in Nat /\ LowDigit(m, base) \in X
  <2>1. Numeral(m, base) \in Seq(Hex)
    BY NumeralTyped
  <2>2. m % base \in 0 .. base - 1
    BY Quotient
  <2>3. (m % base) + 1 \in 1 .. 16
    BY <2>2
  <2>4. LowDigit(m, base) \in Hex
    BY <2>3 DEF Hex, LowDigit
  <2>5. Hex \subseteq X
    OBVIOUS
  <2> HIDE DEF X
  <2> QED  BY <2>1, <2>4, <2>5, SeqMonotonic
<1>2. ASSUME NEW m \in Nat, NEW w \in Int
      PROVE  /\ g[m][w] \in Seq(X)
             /\ g[m][w] = Pads(c, w - Len(Numeral(m, base))) \o Numeral(m, base)
             /\ g[m][w] = (IF m >= base THEN g[m \div base][w - 1] ELSE Pads(c, w - 1))
                            \o <<LowDigit(m, base)>>
  <2>1. /\ \A i \in Int : Pads(c, i) \in Seq(X)
        /\ c \in X
    <3>1. c \in X
      OBVIOUS
    <3> HIDE DEF X
    <3> QED  BY <3>1, PadsTyped
  <2>2. \A i \in Nat : \A j \in Int : g[i][j] = Pads(c, j - Len(Numeral(i, base))) \o Numeral(i, base)
    OBVIOUS
  <2> HIDE DEF X, g
  <2>3. g[m][w] \in Seq(X)
    <3> DEFINE i == w - Len(Numeral(m, base))
    <3>1. Numeral(m, base) \in Seq(X) /\ i \in Int
      BY <1>1
    <3>2. g[m][w] = Pads(c, i) \o Numeral(m, base)
      BY <2>2
    <3> HIDE DEF i
    <3>3. Pads(c, i) \in Seq(X)
      BY <2>1, <3>1
    <3> QED  BY <3>1, <3>2, <3>3, ConcatProperties
  <2>4. CASE m < base
    <3>1. Numeral(m, base) = <<LowDigit(m, base)>>
      BY <2>4, NumeralSmall DEF LowDigit
    <3>2. Len(<<LowDigit(m, base)>>) = 1
      OBVIOUS
    <3>3. w - Len(Numeral(m, base)) = w - 1 /\ ~(m >= base)
      BY <2>4, <3>1, <3>2
    <3>4. g[m][w] = Pads(c, w - Len(Numeral(m, base))) \o Numeral(m, base)
      BY <2>2
    <3>5. g[m][w] = Pads(c, w - 1) \o <<LowDigit(m, base)>>
      BY <3>1, <3>3, <3>4
    <3> QED  BY <2>3, <3>3, <3>4, <3>5
  <2>5. CASE m >= base
    <3> DEFINE q == m \div base
    <3>1. q \in Nat /\ Numeral(m, base) = Numeral(q, base) \o <<LowDigit(m, base)>>
      BY <2>5, NumeralLarge DEF LowDigit
    <3>2. Numeral(q, base) \in Seq(X) /\ LowDigit(m, base) \in X
      BY <1>1, <3>1
    <3>3. g[q][w - 1] = Pads(c, (w - 1) - Len(Numeral(q, base))) \o Numeral(q, base)
      <4>1. w - 1 \in Int
        OBVIOUS
      <4> HIDE DEF q
      <4> QED  BY <2>2, <3>1, <4>1
    <3> HIDE DEF q
    <3>4. Len(Numeral(m, base)) = Len(Numeral(q, base)) + 1 /\ Len(Numeral(q, base)) \in Nat
      BY <3>1, <3>2
    <3>5. w - Len(Numeral(m, base)) = (w - 1) - Len(Numeral(q, base))
      BY <3>4
    <3> DEFINE ps == Pads(c, w - Len(Numeral(m, base)))
    <3>6. ps \in Seq(X)
      BY <2>1, <3>4
    <3>7. g[m][w] = ps \o Numeral(m, base) /\ g[q][w - 1] = ps \o Numeral(q, base)
      BY <2>2, <3>3, <3>5
    <3> HIDE DEF ps
    <3>8. ps \o (Numeral(q, base) \o <<LowDigit(m, base)>>) = (ps \o Numeral(q, base)) \o <<LowDigit(m, base)>>
      <4>1. <<LowDigit(m, base)>> \in Seq(X)
        BY <3>2
      <4> QED  BY <3>2, <3>6, <4>1, ConcatAssociative
    <3>9. g[m][w] = g[q][w - 1] \o <<LowDigit(m, base)>>
      BY <3>1, <3>7, <3>8
    <3> QED  BY <2>2, <2>3, <2>5, <3>9 DEF q
  <2>6. m < base \/ m >= base
    OBVIOUS
  <2> QED  BY <2>4, <2>5, <2>6
<1>3. \E h : h = [m \in Nat |->
         [w \in Int |->
           (IF m >= base THEN h[m \div base][w - 1] ELSE Pads(c, w - 1))
             \o <<LowDigit(m, base)>>]]
  <2>1. g = [m \in Nat |-> g[m]]
    BY Zenon
  <2>2. \A m \in Nat : g[m] = [w \in Int |-> g[m][w]]
    BY Zenon
  <2> HIDE DEF g
  <2>3. \A m \in Nat : g[m] = [w \in Int |->
           (IF m >= base THEN g[m \div base][w - 1] ELSE Pads(c, w - 1))
             \o <<LowDigit(m, base)>>]
    BY <1>2, <2>2
  <2>4. g = [m \in Nat |->
         [w \in Int |->
           (IF m >= base THEN g[m \div base][w - 1] ELSE Pads(c, w - 1))
             \o <<LowDigit(m, base)>>]]
    BY <2>1, <2>3
  <2> QED  BY <2>4
<1>4. digits = [m \in Nat |->
         [w \in Int |->
           (IF m >= base THEN digits[m \div base][w - 1] ELSE Pads(c, w - 1))
             \o <<LowDigit(m, base)>>]]
  BY <1>3
<1>5. printnum(m0, base, w0, c) = digits[m0][w0]
  BY DEF printnum, LowDigit
<1> HIDE DEF digits, g
<1>6. ASSUME NEW m \in Nat, NEW w \in Int
      PROVE  digits[m][w] =
               (IF m >= base THEN digits[m \div base][w - 1] ELSE Pads(c, w - 1)) \o <<LowDigit(m, base)>>
  BY <1>4, ZenonT(60)
<1> DEFINE T == {m \in Nat : \E w \in Int : digits[m][w] # g[m][w]}
<1>7. T = {}
  <2> SUFFICES ASSUME T # {} PROVE FALSE
    OBVIOUS
  <2>1. PICK m \in T : \A j \in T : m <= j
    BY LeastElement
  <2>2. m \in Nat
    OBVIOUS
  <2>3. PICK w \in Int : digits[m][w] # g[m][w]
    BY <2>1
  <2>4. CASE m < base
    <3>1. ~(m >= base)
      BY <2>2, <2>4
    <3>2. digits[m][w] = g[m][w]
      BY <1>2, <1>6, <2>2, <3>1
    <3> QED  BY <2>3, <3>2
  <2>5. CASE m >= base
    <3>1. m \div base \in Nat /\ m \div base < m
      BY <2>2, <2>5, NumeralLarge
    <3>2. m \div base \notin T
      BY <2>1, <2>2, <3>1
    <3>3. w - 1 \in Int
      OBVIOUS
    <3>4. digits[m \div base][w - 1] = g[m \div base][w - 1]
      BY <3>1, <3>2, <3>3
    <3> HIDE DEF T
    <3> QED  BY <1>2, <1>6, <2>2, <2>3, <2>5, <3>4, ZenonT(60)
  <2> QED  BY <2>2, <2>4, <2>5
<1>8. digits[m0][w0] = g[m0][w0]
  BY <1>7
<1> QED  BY <1>2, <1>5, <1>8
-----------------------------------------------------------------------------
(* The number that digits write.                                           *)

LEMMA DigitTyped ==
  ASSUME NEW c \in Digit
  PROVE  DigitOf(c) \in 0 .. 9 /\ Digits[DigitOf(c) + 1] = c
<1>1. \E d \in 0 .. 9 : Digits[d + 1] = c
  BY DEF Digit, Digits
<1> QED  BY <1>1 DEF DigitOf

LEMMA ValueTyped ==
  ASSUME NEW cs \in Seq(Digit)
  PROVE  Value(cs) \in Nat
<1>1. Len(cs) \in Nat
  OBVIOUS
<1>2. \A k \in 1 .. Len(cs) : DigitOf(cs[k]) \in Nat
  <2>1. \A k \in 1 .. Len(cs) : cs[k] \in Digit
    BY ElementOfSeq
  <2> QED  BY <2>1, DigitTyped
<1>3. PICK step \in [Nat -> [Nat -> Nat]] :
        \A k \in 1 .. Len(cs) : \A v \in Nat : step[k][v] = v * 10 + DigitOf(cs[k])
  <2> DEFINE s == [k \in Nat |-> [v \in Nat |->
                     IF k \in 1 .. Len(cs) THEN v * 10 + DigitOf(cs[k]) ELSE 0]]
  <2>1. s \in [Nat -> [Nat -> Nat]]
    BY <1>2
  <2>2. \A k \in 1 .. Len(cs) : \A v \in Nat : s[k][v] = v * 10 + DigitOf(cs[k])
    BY <1>1
  <2> HIDE DEF s
  <2> QED  BY <2>1, <2>2
<1>4. PICK g0 : Solves(Nat, 0, step, g0)
  <2>1. 0 \in Nat
    OBVIOUS
  <2> QED  BY <2>1, Recursion
<1> DEFINE g == [k \in 0 .. Len(cs) |-> g0[k]]
<1>5. g = [k \in 0 .. Len(cs) |-> IF k = 0 THEN 0 ELSE g[k - 1] * 10 + DigitOf(cs[k])]
  <2>1. ASSUME NEW k \in 0 .. Len(cs)
        PROVE  g0[k] = IF k = 0 THEN 0 ELSE g[k - 1] * 10 + DigitOf(cs[k])
    <3>1. CASE k = 0
      BY <1>4, <3>1 DEF Solves
    <3>2. CASE k # 0
      <4>1. k \in 1 .. Len(cs) /\ k - 1 \in 0 .. Len(cs) /\ k - 1 \in Nat /\ (k - 1) + 1 = k
        BY <1>1, <3>2
      <4>2. g[k - 1] = g0[k - 1] /\ g0[k - 1] \in Nat /\ g0[k] = step[k][g0[k - 1]]
        BY <1>4, <4>1 DEF Solves
      <4> HIDE DEF g
      <4> QED  BY <1>3, <3>2, <4>1, <4>2
    <3> QED  BY <3>1, <3>2
  <2> QED  BY <2>1
<1>6. PICK read :
        /\ read = [k \in 0 .. Len(cs) |-> IF k = 0 THEN 0 ELSE read[k - 1] * 10 + DigitOf(cs[k])]
        /\ Value(cs) = read[Len(cs)]
  <2> DEFINE r == CHOOSE h : h = [k \in 0 .. Len(cs) |->
                     IF k = 0 THEN 0 ELSE h[k - 1] * 10 + DigitOf(cs[k])]
  <2>1. r = [k \in 0 .. Len(cs) |-> IF k = 0 THEN 0 ELSE r[k - 1] * 10 + DigitOf(cs[k])]
    BY <1>5
  <2>2. Value(cs) = r[Len(cs)]
    BY DEF Value
  <2> HIDE DEF r
  <2> QED  BY <2>1, <2>2
<1>7. Value(cs) = read[Len(cs)]
  BY <1>6
<1>8. Continues(Nat, 0, step, Len(cs), read)
  <2>1. read[0] = 0
    BY <1>1, <1>6
  <2>2. ASSUME NEW k \in 1 .. Len(cs), read[k - 1] \in Nat
        PROVE  read[k] = step[k][read[k - 1]]
    <3>1. k \in 0 .. Len(cs) /\ k # 0
      BY <1>1
    <3>2. read[k] = read[k - 1] * 10 + DigitOf(cs[k])
      BY <1>6, <3>1
    <3> QED  BY <1>3, <2>2, <3>2
  <2> QED  BY <2>1, <2>2 DEF Continues
<1>9. Len(cs) \in 0 .. Len(cs)
  BY <1>1
<1>10. read[Len(cs)] = g0[Len(cs)] /\ g0[Len(cs)] \in Nat
  BY <1>1, <1>4, <1>8, <1>9 DEF Solves
<1> QED  BY <1>7, <1>10
-----------------------------------------------------------------------------
(* What is in the buffer.                                                  *)

IsSequence(s) == \E X : s \in Seq(X)

LEMMA SequencesJoin ==
  ASSUME NEW s, IsSequence(s), NEW t, IsSequence(t)
  PROVE  /\ IsSequence(s \o t) /\ Len(s) \in Nat /\ Len(t) \in Nat
         /\ Len(s \o t) = Len(s) + Len(t)
         /\ \A i \in 1 .. Len(s) + Len(t) :
              (s \o t)[i] = IF i <= Len(s) THEN s[i] ELSE t[i - Len(s)]
<1>1. PICK X : s \in Seq(X)
  BY DEF IsSequence
<1>2. PICK Y : t \in Seq(Y)
  BY DEF IsSequence
<1>3. s \in Seq(X \cup Y) /\ t \in Seq(X \cup Y)
  BY <1>1, <1>2, SeqMonotonic
<1> DEFINE Z == X \cup Y
<1> HIDE DEF Z
<1>4. s \in Seq(Z) /\ t \in Seq(Z)
  BY <1>3 DEF Z
<1>5. s \o t \in Seq(Z)
  BY <1>4, ConcatProperties
<1> QED  BY <1>4, <1>5, ConcatProperties DEF IsSequence

\* The first characters of o that a buffer of m characters has room for.
Kept(o, m) == Min({Len(o), m - 1})
Filled(o, m) ==
  [buf |-> Kept(o, m), ebuf |-> m - 1, cnt |-> Len(o),
   mem |-> [k \in Memory |-> IF k < Kept(o, m) THEN o[k + 1] ELSE JUNK]]

LEMMA MemoryTyped ==
  /\ BufSizes \subseteq Int
  /\ \E top \in Int : Memory = 0 .. top /\ \A m \in BufSizes : m <= top
<1>1. PICK m \in BufSizes : \A k \in BufSizes : m >= k
  BY PrintFmtAssumption
<1>2. Max(BufSizes) = m
  BY <1>1, MaxIs, PrintFmtAssumption
<1> QED  BY <1>1, <1>2, PrintFmtAssumption DEF Memory

\* sprintputch counts every character, and stores those there is room for.
LEMMA PutFills ==
  ASSUME n \in BufSizes, n >= 1, IsSequence(out), b = Filled(out, n),
         NEW cs, IsSequence(cs), Put(cs)
  PROVE  IsSequence(out') /\ out' = out \o cs /\ b' = Filled(out', n)
<1> DEFINE L == Len(out)
           K == Len(cs)
<1>1. /\ L \in Nat /\ K \in Nat /\ IsSequence(out') /\ out' = out \o cs
      /\ Len(out') = L + K
      /\ \A i \in 1 .. L + K : out'[i] = IF i <= L THEN out[i] ELSE cs[i - L]
  BY SequencesJoin DEF Put
<1>2. n \in Int /\ n - 1 \in Nat /\ Memory \subseteq Nat
  BY MemoryTyped
<1> DEFINE A == IF L <= n - 1 THEN L ELSE n - 1
           S == IF K <= n - 1 - A THEN K ELSE n - 1 - A
           B == IF L + K <= n - 1 THEN L + K ELSE n - 1
<1> HIDE DEF L, K
<1>3. A \in Nat /\ S \in Nat /\ B = A + S
  BY <1>1, <1>2
<1>4. Kept(out, n) = A /\ Kept(out', n) = B
  <2>1. L \in Int /\ L + K \in Int /\ n - 1 \in Int
    BY <1>1, <1>2
  <2>2. Kept(out, n) = Min({L, n - 1}) /\ Kept(out', n) = Min({L + K, n - 1})
    BY <1>1 DEF Kept, L
  <2> QED  BY <2>1, <2>2, MinTwo
<1>5. b = [buf |-> A, ebuf |-> n - 1, cnt |-> L,
           mem |-> [k \in Memory |-> IF k < A THEN out[k + 1] ELSE JUNK]]
  BY <1>4 DEF Filled, L
<1>6. stored(K) = S
  <2>1. stored(K) = Min({K, (n - 1) - A})
    BY <1>5 DEF stored
  <2> DEFINE x == (n - 1) - A
  <2>2. K \in Int /\ x \in Int
    BY <1>1, <1>2, <1>3
  <2> HIDE DEF x
  <2>3. Min({K, x}) = IF K <= x THEN K ELSE x
    BY <2>2, MinTwo
  <2> QED  BY <2>1, <2>3 DEF x
<1>7. b' = [buf |-> A + S, ebuf |-> n - 1, cnt |-> L + K,
            mem |-> [k \in Memory |->
                      IF k - A \in 0 .. S - 1 THEN cs[k - A + 1]
                      ELSE IF k < A THEN out[k + 1] ELSE JUNK]]
  <2>1. b.buf = A /\ b.ebuf = n - 1 /\ b.cnt = L
        /\ \A k \in Memory : b.mem[k] = IF k < A THEN out[k + 1] ELSE JUNK
    BY <1>5
  <2>2. b' = [buf |-> b.buf + S, ebuf |-> b.ebuf, cnt |-> b.cnt + K,
              mem |-> [k \in Memory |->
                        IF k - b.buf \in 0 .. S - 1 THEN cs[k - b.buf + 1] ELSE b.mem[k]]]
    BY <1>6 DEF Put, K
  <2> HIDE DEF A, S, B
  <2> QED  BY <2>1, <2>2
<1>8. ASSUME NEW k \in Memory
      PROVE  (IF k - A \in 0 .. S - 1 THEN cs[k - A + 1]
              ELSE IF k < A THEN out[k + 1] ELSE JUNK)
             = (IF k < B THEN out'[k + 1] ELSE JUNK)
  <2>1. k \in Nat
    BY <1>2
  <2>2. CASE k < A
    <3>1. k + 1 \in 1 .. L + K /\ k + 1 <= L /\ k < B /\ ~(k - A \in 0 .. S - 1)
      BY <1>1, <1>2, <1>3, <2>1, <2>2
    <3> QED  BY <1>1, <2>2, <3>1
  <2>3. CASE k >= A /\ k < B
    <3>1. /\ k - A \in 0 .. S - 1 /\ A = L /\ k + 1 \in 1 .. L + K /\ ~(k + 1 <= L)
          /\ (k + 1) - L = k - A + 1
      BY <1>1, <1>2, <1>3, <2>1, <2>3
    <3> QED  BY <1>1, <2>3, <3>1
  <2>4. CASE k >= B
    <3>1. ~(k - A \in 0 .. S - 1) /\ ~(k < A) /\ ~(k < B)
      BY <1>1, <1>2, <1>3, <2>1, <2>4
    <3> QED  BY <3>1
  <2>5. k < A \/ (k >= A /\ k < B) \/ k >= B
    BY <1>1, <1>2, <2>1
  <2> QED  BY <2>2, <2>3, <2>4, <2>5
<1>9. b' = Filled(out', n)
  <2> HIDE DEF A, S, B
  <2>1. Filled(out', n) = [buf |-> B, ebuf |-> n - 1, cnt |-> L + K,
           mem |-> [k \in Memory |-> IF k < B THEN out'[k + 1] ELSE JUNK]]
    BY <1>1, <1>4 DEF Filled
  <2>2. [k \in Memory |->
          IF k - A \in 0 .. S - 1 THEN cs[k - A + 1]
          ELSE IF k < A THEN out[k + 1] ELSE JUNK]
        = [k \in Memory |-> IF k < B THEN out'[k + 1] ELSE JUNK]
    BY <1>8
  <2> QED  BY <1>3, <1>7, <2>1, <2>2
<1> QED  BY <1>1, <1>9
-----------------------------------------------------------------------------
(* The characters of a format.                                             *)

FmtChar == Char \cup Known

IsConversion(p) ==
  /\ p = Conversion(p.pad, p.alt, p.width, p.prec, p.long, p.conv)
  /\ p.pad \in {Blank, "-", "0"} /\ p.alt \in BOOLEAN
  /\ IsNumber(p.width) /\ IsNumber(p.prec)
  /\ p.long \in Nat /\ p.conv \in Conversions

\* Where the fields of a conversion end.
AfterPad(p) == IF p.pad = Blank THEN 1 ELSE 2
AfterAlt(p) == AfterPad(p) + (IF p.alt THEN 1 ELSE 0)
AfterWidth(p) == AfterAlt(p) + Len(p.width)
AfterDot(p) == AfterWidth(p) + (IF p.prec = << >> THEN 0 ELSE 1)
AfterPrec(p) == AfterDot(p) + Len(p.prec)
AfterLong(p) == AfterPrec(p) + p.long

LEMMA BlankDiffers == Blank # "-" /\ Blank # "0"
  BY Zenon DEF Blank

LEMMA NumberTyped ==
  ASSUME NEW cs, IsNumber(cs)
  PROVE  cs \in Seq(Digit \cup {"*"}) /\ Len(cs) \in Nat
<1>1. CASE cs = << >>
  BY <1>1
<1>2. CASE cs = <<"*">>
  BY <1>2
<1>3. CASE cs \in Seq(Digit)
  <2> DEFINE X == Digit \cup {"*"}
  <2>1. Digit \subseteq X
    OBVIOUS
  <2> HIDE DEF X
  <2>2. cs \in Seq(X)
    BY <1>3, <2>1, SeqMonotonic
  <2> QED  BY <1>3, <2>2 DEF X
<1> QED  BY <1>1, <1>2, <1>3 DEF IsNumber

LEMMA OffsetsTyped ==
  ASSUME NEW p, IsConversion(p)
  PROVE  /\ AfterPad(p) \in 1 .. 2 /\ AfterAlt(p) \in Nat /\ AfterWidth(p) \in Nat
         /\ AfterDot(p) \in Nat /\ AfterPrec(p) \in Nat /\ AfterLong(p) \in Nat
         /\ AfterPad(p) <= AfterAlt(p) /\ AfterAlt(p) <= AfterWidth(p)
         /\ AfterWidth(p) <= AfterDot(p) /\ AfterDot(p) <= AfterPrec(p)
         /\ AfterPrec(p) <= AfterLong(p)
<1>1. Len(p.width) \in Nat /\ Len(p.prec) \in Nat /\ p.long \in Nat
  BY NumberTyped DEF IsConversion
<1>2. AfterPad(p) \in 1 .. 2
  BY DEF AfterPad
<1>3. AfterAlt(p) \in Nat /\ AfterPad(p) <= AfterAlt(p)
  BY <1>2 DEF AfterAlt
<1>4. AfterWidth(p) \in Nat /\ AfterAlt(p) <= AfterWidth(p)
  BY <1>1, <1>3 DEF AfterWidth
<1>5. AfterDot(p) \in Nat /\ AfterWidth(p) <= AfterDot(p)
  BY <1>4 DEF AfterDot
<1>6. AfterPrec(p) \in Nat /\ AfterDot(p) <= AfterPrec(p)
  BY <1>1, <1>5 DEF AfterPrec
<1>7. AfterLong(p) \in Nat /\ AfterPrec(p) <= AfterLong(p)
  BY <1>1, <1>6 DEF AfterLong
<1> QED  BY <1>2, <1>3, <1>4, <1>5, <1>6, <1>7

\* u is s, of a characters, followed by t, of c.
Joined(X, s, a, t, c, u) ==
  /\ u \in Seq(X) /\ Len(u) = a + c
  /\ \A i \in 1 .. a : u[i] = s[i]
  /\ \A i \in 1 .. c : u[a + i] = t[i]

LEMMA ConcatAt ==
  ASSUME NEW X, NEW s \in Seq(X), NEW t \in Seq(X), NEW a, a = Len(s), NEW c, c = Len(t)
  PROVE  Joined(X, s, a, t, c, s \o t)
<1>1. s \o t \in Seq(X) /\ Len(s \o t) = Len(s) + Len(t)
  BY ConcatProperties
<1>2. \A i \in 1 .. Len(s) + Len(t) : (s \o t)[i] = IF i <= Len(s) THEN s[i] ELSE t[i - Len(s)]
  BY <1>1, ConcatProperties
<1>3. Len(s) \in Nat /\ Len(t) \in Nat
  OBVIOUS
<1>4. ASSUME NEW i \in 1 .. Len(t) PROVE (s \o t)[Len(s) + i] = t[i]
  <2>1. Len(s) + i \in 1 .. Len(s) + Len(t) /\ ~(Len(s) + i <= Len(s)) /\ (Len(s) + i) - Len(s) = i
    BY <1>3
  <2> QED  BY <1>2, <2>1
<1>5. \A i \in 1 .. Len(s) : (s \o t)[i] = s[i]
  BY <1>2, <1>3
<1> QED  BY <1>1, <1>3, <1>4, <1>5 DEF Joined

\* The fields of a conversion.
PadOf(p) == IF p.pad = Blank THEN << >> ELSE <<p.pad>>
AltOf(p) == IF p.alt THEN <<"#">> ELSE << >>
PrecOf(p) == IF p.prec = << >> THEN << >> ELSE <<".">> \o p.prec
LongOf(p) == [k \in 1 .. p.long |-> "l"]

LEMMA FieldsTyped ==
  ASSUME NEW p, IsConversion(p)
  PROVE  /\ <<"%">> \in Seq(FmtChar)
         /\ PadOf(p) \in Seq(FmtChar) /\ Len(PadOf(p)) = AfterPad(p) - 1
         /\ p.pad # Blank => PadOf(p)[1] = p.pad
         /\ AltOf(p) \in Seq(FmtChar) /\ Len(AltOf(p)) = AfterAlt(p) - AfterPad(p)
         /\ p.alt => AltOf(p)[1] = "#"
         /\ p.width \in Seq(FmtChar) /\ Len(p.width) = AfterWidth(p) - AfterAlt(p)
         /\ PrecOf(p) \in Seq(FmtChar) /\ Len(PrecOf(p)) = AfterPrec(p) - AfterWidth(p)
         /\ p.prec # << >> => PrecOf(p)[1] = "."
         /\ \A i \in 1 .. Len(p.prec) : PrecOf(p)[(AfterDot(p) - AfterWidth(p)) + i] = p.prec[i]
         /\ LongOf(p) \in Seq(FmtChar) /\ Len(LongOf(p)) = p.long
         /\ \A i \in 1 .. p.long : LongOf(p)[i] = "l"
         /\ <<p.conv>> \in Seq(FmtChar)
<1>1. "%" \in FmtChar /\ "#" \in FmtChar /\ "." \in FmtChar /\ "l" \in FmtChar
  BY DEF FmtChar, Known, Flag, Conversions
<1>2. <<"%">> \in Seq(FmtChar) /\ <<"#">> \in Seq(FmtChar) /\ <<".">> \in Seq(FmtChar)
  BY <1>1
<1>3. p.width \in Seq(FmtChar) /\ p.prec \in Seq(FmtChar)
  <2>1. Digit \cup {"*"} \subseteq FmtChar
    BY DEF FmtChar, Known, Flag
  <2>2. p.width \in Seq(Digit \cup {"*"}) /\ p.prec \in Seq(Digit \cup {"*"})
    BY NumberTyped DEF IsConversion
  <2> QED  BY <2>1, <2>2, SeqMonotonic
<1>4. Len(p.width) \in Nat /\ Len(p.prec) \in Nat /\ p.long \in Nat /\ p.alt \in BOOLEAN
  BY NumberTyped DEF IsConversion
<1>5. /\ PadOf(p) \in Seq(FmtChar) /\ Len(PadOf(p)) = AfterPad(p) - 1
      /\ p.pad # Blank => PadOf(p)[1] = p.pad
  <2>1. p.pad # Blank => p.pad \in FmtChar
    BY DEF IsConversion, FmtChar, Known, Flag, Digit
  <2>2. CASE p.pad = Blank
    BY <2>2 DEF PadOf, AfterPad
  <2>3. CASE p.pad # Blank
    BY <2>1, <2>3 DEF PadOf, AfterPad
  <2> QED  BY <2>2, <2>3
<1>6. /\ AltOf(p) \in Seq(FmtChar) /\ Len(AltOf(p)) = AfterAlt(p) - AfterPad(p)
      /\ p.alt => AltOf(p)[1] = "#"
  <2>1. AfterPad(p) \in Nat
    BY DEF AfterPad
  <2>2. CASE p.alt
    BY <1>2, <2>1, <2>2 DEF AltOf, AfterAlt
  <2>3. CASE ~p.alt
    BY <2>1, <2>3 DEF AltOf, AfterAlt
  <2> QED  BY <2>2, <2>3
<1>7. /\ AfterAlt(p) \in Nat /\ AfterWidth(p) \in Nat /\ AfterDot(p) \in Nat
      /\ AfterDot(p) - AfterWidth(p) = IF p.prec = << >> THEN 0 ELSE 1
      /\ AfterPrec(p) - AfterWidth(p) = (IF p.prec = << >> THEN 0 ELSE 1) + Len(p.prec)
      /\ Len(p.width) = AfterWidth(p) - AfterAlt(p)
  <2>1. AfterAlt(p) \in Nat
    BY DEF AfterPad, AfterAlt
  <2>2. AfterWidth(p) \in Nat /\ Len(p.width) = AfterWidth(p) - AfterAlt(p)
    BY <1>4, <2>1 DEF AfterWidth
  <2>3. AfterDot(p) \in Nat /\ AfterDot(p) - AfterWidth(p) = IF p.prec = << >> THEN 0 ELSE 1
    BY <2>2 DEF AfterDot
  <2> DEFINE d == IF p.prec = << >> THEN 0 ELSE 1
  <2>4. AfterPrec(p) - AfterWidth(p) = d + Len(p.prec)
    <3>1. AfterDot(p) - AfterWidth(p) = d
      BY <2>3
    <3> HIDE DEF d
    <3> QED  BY <1>4, <2>2, <2>3, <3>1 DEF AfterPrec
  <2> QED  BY <2>1, <2>2, <2>3, <2>4
<1>8. /\ PrecOf(p) \in Seq(FmtChar) /\ Len(PrecOf(p)) = AfterPrec(p) - AfterWidth(p)
      /\ p.prec # << >> => PrecOf(p)[1] = "."
      /\ \A i \in 1 .. Len(p.prec) : PrecOf(p)[(AfterDot(p) - AfterWidth(p)) + i] = p.prec[i]
  <2>1. CASE p.prec = << >>
    BY <1>7, <2>1 DEF PrecOf
  <2>2. CASE p.prec # << >>
    <3>1. Joined(FmtChar, <<".">>, 1, p.prec, Len(p.prec), PrecOf(p))
      BY <1>2, <1>3, <2>2, ConcatAt DEF PrecOf
    <3>2. Len(<<".">>) = 1 /\ <<".">>[1] = "."
      OBVIOUS
    <3>3. PrecOf(p) \in Seq(FmtChar) /\ Len(PrecOf(p)) = 1 + Len(p.prec)
      BY <3>1, <3>2 DEF Joined
    <3>4. PrecOf(p)[1] = "."
      BY <3>1, <3>2 DEF Joined
    <3>5. \A i \in 1 .. Len(p.prec) : PrecOf(p)[1 + i] = p.prec[i]
      BY <3>1, <3>2 DEF Joined
    <3> QED  BY <1>7, <2>2, <3>3, <3>4, <3>5
  <2> QED  BY <2>1, <2>2
<1>9. /\ LongOf(p) \in Seq(FmtChar) /\ Len(LongOf(p)) = p.long
      /\ \A i \in 1 .. p.long : LongOf(p)[i] = "l"
  BY <1>1, <1>4 DEF LongOf
<1>10. <<p.conv>> \in Seq(FmtChar)
  BY DEF IsConversion, FmtChar, Known
<1> QED  BY <1>2, <1>3, <1>5, <1>6, <1>7, <1>8, <1>9, <1>10

\* Each field at its place.
LEMMA ConversionSpelled ==
  ASSUME NEW p, IsConversion(p)
  PROVE  /\ Spelled(p) \in Seq(FmtChar)
         /\ Len(Spelled(p)) = AfterLong(p) + 1
         /\ Spelled(p)[1] = "%"
         /\ p.pad # Blank => Spelled(p)[2] = p.pad
         /\ p.alt => Spelled(p)[AfterPad(p) + 1] = "#"
         /\ \A i \in 1 .. Len(p.width) : Spelled(p)[AfterAlt(p) + i] = p.width[i]
         /\ p.prec # << >> => Spelled(p)[AfterWidth(p) + 1] = "."
         /\ \A i \in 1 .. Len(p.prec) : Spelled(p)[AfterDot(p) + i] = p.prec[i]
         /\ \A i \in 1 .. p.long : Spelled(p)[AfterPrec(p) + i] = "l"
         /\ Spelled(p)[AfterLong(p) + 1] = p.conv
<1>1. PICK t2, t3, t4, t5, t6, t7 :
        /\ t2 = PadOf(p) /\ t3 = AltOf(p) /\ t4 = p.width /\ t5 = PrecOf(p) /\ t6 = LongOf(p)
        /\ t7 = <<p.conv>>
  OBVIOUS
<1>2. PICK s1, s2, s3, s4, s5, s6, s7 :
        /\ s1 = <<"%">> /\ s2 = s1 \o t2 /\ s3 = s2 \o t3 /\ s4 = s3 \o t4
        /\ s5 = s4 \o t5 /\ s6 = s5 \o t6 /\ s7 = s6 \o t7
  OBVIOUS
<1>3. Spelled(p) = s7
  <2>1. p.kind = "conversion" /\ p.kind # "text" /\ p.kind # "unknown"
    BY DEF IsConversion, Conversion
  <2>2. Spelled(p) = <<"%">> \o PadOf(p) \o AltOf(p) \o p.width \o PrecOf(p) \o LongOf(p) \o <<p.conv>>
    BY <2>1, Zenon DEF Spelled, PadOf, AltOf, PrecOf, LongOf
  <2> QED  BY <1>1, <1>2, <2>2, Zenon
<1>4. PICK e2, e3, e4, e5, e6, e7, lw, lp, ll :
        /\ e2 = AfterPad(p) /\ e3 = AfterAlt(p) /\ e4 = AfterWidth(p) /\ e5 = AfterDot(p)
        /\ e6 = AfterPrec(p) /\ e7 = AfterLong(p)
        /\ lw = Len(p.width) /\ lp = Len(p.prec) /\ ll = p.long
  OBVIOUS
<1>5. /\ e2 \in 1 .. 2 /\ e3 \in Nat /\ e4 \in Nat /\ e5 \in Nat /\ e6 \in Nat /\ e7 \in Nat
      /\ e2 <= e3 /\ e3 <= e4 /\ e4 <= e5 /\ e5 <= e6 /\ e6 <= e7
  BY <1>4, OffsetsTyped
<1>6. lw \in Nat /\ lp \in Nat /\ ll \in Nat /\ e4 = e3 + lw /\ e6 = e5 + lp /\ e7 = e6 + ll
  <2>1. lw \in Nat /\ lp \in Nat /\ ll \in Nat
    BY <1>4, NumberTyped DEF IsConversion
  <2>2. e4 = e3 + lw /\ e6 = e5 + lp /\ e7 = e6 + ll
    BY <1>4, Zenon DEF AfterWidth, AfterPrec, AfterLong
  <2> QED  BY <2>1, <2>2
<1>7. (p.pad # Blank => e2 = 2) /\ (p.alt => e3 = e2 + 1) /\ (p.prec # << >> => e5 = e4 + 1)
  BY <1>4 DEF AfterPad, AfterAlt, AfterDot
<1>8. /\ s1 \in Seq(FmtChar) /\ Len(s1) = 1 /\ s1[1] = "%"
      /\ t2 \in Seq(FmtChar) /\ Len(t2) = e2 - 1 /\ (p.pad # Blank => t2[1] = p.pad)
      /\ t3 \in Seq(FmtChar) /\ Len(t3) = e3 - e2 /\ (p.alt => t3[1] = "#")
      /\ t4 \in Seq(FmtChar) /\ Len(t4) = e4 - e3
      /\ t5 \in Seq(FmtChar) /\ Len(t5) = e6 - e4 /\ (p.prec # << >> => t5[1] = ".")
      /\ \A i \in 1 .. Len(p.prec) : t5[(e5 - e4) + i] = p.prec[i]
      /\ t6 \in Seq(FmtChar) /\ Len(t6) = e7 - e6
  <2>1. s1 \in Seq(FmtChar) /\ Len(s1) = 1 /\ s1[1] = "%"
    BY <1>2, FieldsTyped
  <2>2. t6 \in Seq(FmtChar) /\ Len(t6) = ll
    BY <1>1, <1>4, FieldsTyped
  <2>3. ll = e7 - e6
    BY <1>5, <1>6
  <2> QED  BY <1>1, <1>4, <2>1, <2>2, <2>3, FieldsTyped
<1>9. t7 \in Seq(FmtChar) /\ Len(t7) = 1 /\ t7[1] = p.conv /\ \A i \in 1 .. p.long : t6[i] = "l"
  BY <1>1, FieldsTyped
<1>10. /\ s2 \in Seq(FmtChar) /\ Len(s2) = e2
       /\ s2[1] = s1[1] /\ \A i \in 1 .. e2 - 1 : s2[1 + i] = t2[i]
  <2>1. Joined(FmtChar, s1, 1, t2, e2 - 1, s2)
    BY <1>2, <1>8, ConcatAt
  <2> QED  BY <1>5, <2>1 DEF Joined
<1>11. /\ s3 \in Seq(FmtChar) /\ Len(s3) = e3
       /\ \A i \in 1 .. e2 : s3[i] = s2[i]
       /\ \A i \in 1 .. e3 - e2 : s3[e2 + i] = t3[i]
  <2>1. Joined(FmtChar, s2, e2, t3, e3 - e2, s3)
    BY <1>2, <1>8, <1>10, ConcatAt
  <2> QED  BY <1>5, <2>1 DEF Joined
<1>12. /\ s4 \in Seq(FmtChar) /\ Len(s4) = e4
       /\ \A i \in 1 .. e3 : s4[i] = s3[i]
       /\ \A i \in 1 .. e4 - e3 : s4[e3 + i] = t4[i]
  <2>1. Joined(FmtChar, s3, e3, t4, e4 - e3, s4)
    BY <1>2, <1>8, <1>11, ConcatAt
  <2> QED  BY <1>5, <2>1 DEF Joined
<1>13. /\ s5 \in Seq(FmtChar) /\ Len(s5) = e6
       /\ \A i \in 1 .. e4 : s5[i] = s4[i]
       /\ \A i \in 1 .. e6 - e4 : s5[e4 + i] = t5[i]
  <2>1. Joined(FmtChar, s4, e4, t5, e6 - e4, s5)
    BY <1>2, <1>8, <1>12, ConcatAt
  <2> QED  BY <1>5, <2>1 DEF Joined
<1>14. /\ s6 \in Seq(FmtChar) /\ Len(s6) = e7
       /\ \A i \in 1 .. e6 : s6[i] = s5[i]
       /\ \A i \in 1 .. e7 - e6 : s6[e6 + i] = t6[i]
  <2>1. Joined(FmtChar, s5, e6, t6, e7 - e6, s6)
    BY <1>2, <1>8, <1>13, ConcatAt
  <2> QED  BY <1>5, <2>1 DEF Joined
<1>15. /\ s7 \in Seq(FmtChar) /\ Len(s7) = e7 + 1
       /\ \A i \in 1 .. e7 : s7[i] = s6[i]
       /\ s7[e7 + 1] = p.conv
  <2>1. Joined(FmtChar, s6, e7, t7, 1, s7)
    BY <1>2, <1>9, <1>14, ConcatAt
  <2> QED  BY <1>5, <1>9, <2>1 DEF Joined
<1>16. /\ \A i \in 1 .. e6 : s7[i] = s5[i]
       /\ \A i \in 1 .. e4 : s7[i] = s4[i]
       /\ \A i \in 1 .. e3 : s7[i] = s3[i]
       /\ \A i \in 1 .. e2 : s7[i] = s2[i]
  <2>1. \A i \in 1 .. e6 : s7[i] = s5[i]
    BY <1>5, <1>14, <1>15
  <2>2. \A i \in 1 .. e4 : s7[i] = s4[i]
    BY <1>5, <1>13, <2>1
  <2>3. \A i \in 1 .. e3 : s7[i] = s3[i]
    BY <1>5, <1>12, <2>2
  <2>4. \A i \in 1 .. e2 : s7[i] = s2[i]
    BY <1>5, <1>11, <2>3
  <2> QED  BY <2>1, <2>2, <2>3, <2>4
<1>17. s7[1] = "%"
  <2>1. 1 \in 1 .. e2
    BY <1>5
  <2> QED  BY <1>8, <1>10, <1>16, <2>1, Zenon
<1>18. ASSUME p.pad # Blank PROVE s7[2] = p.pad
  <2>1. e2 = 2 /\ t2[1] = p.pad
    BY <1>7, <1>8, <1>18
  <2>2. s2[1 + 1] = t2[1]
    BY <1>10, <2>1
  <2> QED  BY <1>16, <2>1, <2>2
<1>19. ASSUME p.alt PROVE s7[e2 + 1] = "#"
  <2>1. e3 = e2 + 1 /\ t3[1] = "#"
    BY <1>7, <1>8, <1>19
  <2>2. 1 \in 1 .. e3 - e2 /\ e2 + 1 \in 1 .. e3
    BY <1>5, <2>1
  <2>3. s7[e2 + 1] = s3[e2 + 1] /\ s3[e2 + 1] = t3[1]
    BY <1>11, <1>16, <2>2
  <2> QED  BY <2>1, <2>3
<1>20. ASSUME NEW i \in 1 .. lw PROVE s7[e3 + i] = p.width[i]
  <2>1. i \in 1 .. e4 - e3 /\ e3 + i \in 1 .. e4
    BY <1>5, <1>6
  <2> QED  BY <1>1, <1>12, <1>16, <2>1
<1>21. ASSUME p.prec # << >> PROVE s7[e4 + 1] = "."
  <2>1. e5 = e4 + 1 /\ t5[1] = "."
    BY <1>7, <1>8, <1>21
  <2>2. 1 \in 1 .. e6 - e4 /\ e4 + 1 \in 1 .. e6
    BY <1>5, <2>1
  <2> QED  BY <1>13, <1>16, <2>1, <2>2
<1>22. ASSUME NEW i \in 1 .. lp PROVE s7[e5 + i] = p.prec[i]
  <2>1. /\ (e5 - e4) + i \in 1 .. e6 - e4 /\ e5 + i \in 1 .. e6
        /\ e4 + ((e5 - e4) + i) = e5 + i
    BY <1>5, <1>6
  <2>2. s5[e4 + ((e5 - e4) + i)] = t5[(e5 - e4) + i]
    BY <1>13, <2>1
  <2>3. t5[(e5 - e4) + i] = p.prec[i]
    BY <1>4, <1>8
  <2> QED  BY <1>16, <2>1, <2>2, <2>3
<1>23. ASSUME NEW i \in 1 .. ll PROVE s7[e6 + i] = "l"
  <2>1. i \in 1 .. e7 - e6 /\ e6 + i \in 1 .. e7
    BY <1>5, <1>6
  <2> QED  BY <1>4, <1>9, <1>14, <1>15, <2>1
<1> QED
  BY <1>3, <1>4, <1>15, <1>17, <1>18, <1>19, <1>20, <1>21, <1>22, <1>23
-----------------------------------------------------------------------------
(* The characters before a piece, and in it.                               *)

LEMMA Within ==
  ASSUME NEW i \in Nat, NEW j \in Nat, NEW k
  PROVE  (k \in 1 .. i => k \in 1 .. i + j) /\ (k \in 1 .. j => i + k \in 1 .. i + j)
OBVIOUS

LEMMA FormatTyped ==
  ASSUME NEW fm \in Formats
  PROVE  /\ Len(fm) \in Nat /\ DOMAIN fm = 1 .. Len(fm)
         /\ \A k \in 1 .. Len(fm) : IsPiece(fm[k], k = Len(fm))
<1>1. PICK X : fm \in Seq(X)
  BY PrintFmtAssumption
<1> QED  BY <1>1, PrintFmtAssumption

LEMMA PieceKind ==
  ASSUME NEW p, NEW last, IsPiece(p, last)
  PROVE  /\ p.kind = "conversion" /\ IsConversion(p)
         \/ /\ p.kind = "text" /\ Spelled(p) = p.chars /\ p.chars # << >>
            /\ p.chars \in Seq(Char \ {"%", NUL})
         \/ /\ p.kind = "unknown" /\ Spelled(p) = <<"%">> \o p.chars
            /\ p.chars \in Seq(FmtChar)
            /\ \A i \in 1 .. Len(p.chars) - 1 : p.chars[i] \in Flag
            /\ \/ p.chars # << >> /\ Last(p.chars) \notin Known \cup {NUL}
               \/ p.chars \in Seq(Flag) /\ last
<1>1. CASE p.kind = "text"
  BY <1>1 DEF IsPiece, Spelled
<1>2. CASE p.kind = "unknown"
  <2>1. /\ p.chars \in Seq(Flag \cup Char)
        /\ \A i \in 1 .. Len(p.chars) - 1 : p.chars[i] \in Flag
        /\ \/ p.chars # << >> /\ Last(p.chars) \notin Known \cup {NUL}
           \/ p.chars \in Seq(Flag) /\ last
    BY <1>2 DEF IsPiece
  <2>2. Flag \cup Char \subseteq FmtChar
    BY DEF FmtChar, Known
  <2>3. p.chars \in Seq(FmtChar)
    BY <2>1, <2>2, SeqMonotonic
  <2>4. Spelled(p) = <<"%">> \o p.chars
    BY <1>2 DEF Spelled
  <2> QED  BY <1>2, <2>1, <2>3, <2>4
<1>3. CASE p.kind # "text" /\ p.kind # "unknown"
  <2>1. IsConversion(p)
    BY <1>3, Zenon DEF IsPiece, IsConversion
  <2>2. p.kind = "conversion"
    BY <2>1 DEF IsConversion, Conversion
  <2> QED  BY <2>1, <2>2
<1> QED  BY <1>1, <1>2, <1>3

LEMMA PieceSpelled ==
  ASSUME NEW p, NEW last, IsPiece(p, last)
  PROVE  Spelled(p) \in Seq(FmtChar) /\ Len(Spelled(p)) \in Nat \ {0}
<1>1. CASE p.kind = "conversion" /\ IsConversion(p)
  <2>1. Spelled(p) \in Seq(FmtChar) /\ Len(Spelled(p)) = AfterLong(p) + 1 /\ AfterLong(p) \in Nat
    BY <1>1, ConversionSpelled, OffsetsTyped
  <2> QED  BY <2>1
<1>2. CASE /\ p.kind = "text" /\ Spelled(p) = p.chars /\ p.chars # << >>
           /\ p.chars \in Seq(Char \ {"%", NUL})
  <2>1. Char \ {"%", NUL} \subseteq FmtChar
    BY DEF FmtChar
  <2>2. p.chars \in Seq(FmtChar)
    BY <1>2, <2>1, SeqMonotonic
  <2> QED  BY <1>2, <2>2
<1>3. CASE p.kind = "unknown" /\ Spelled(p) = <<"%">> \o p.chars /\ p.chars \in Seq(FmtChar)
  <2>1. <<"%">> \in Seq(FmtChar) /\ Len(<<"%">>) = 1
    BY DEF FmtChar, Known, Conversions
  <2>2. Joined(FmtChar, <<"%">>, 1, p.chars, Len(p.chars), Spelled(p))
    BY <1>3, <2>1, ConcatAt
  <2>3. Len(p.chars) \in Nat
    BY <1>3
  <2> QED  BY <2>2, <2>3 DEF Joined
<1> QED  BY <1>1, <1>2, <1>3, PieceKind

\* The first k pieces.
Prefix(fm, k) == FlattenSeq([j \in 1 .. k |-> Spelled(fm[j])])

LEMMA PrefixNext ==
  ASSUME NEW fm \in Formats, NEW k \in Nat, k < Len(fm)
  PROVE  /\ Prefix(fm, k) \in Seq(FmtChar) /\ Prefix(fm, k + 1) \in Seq(FmtChar)
         /\ Prefix(fm, k + 1) = Prefix(fm, k) \o Spelled(fm[k + 1])
<1>1. Len(fm) \in Nat /\ \A j \in 1 .. Len(fm) : Spelled(fm[j]) \in Seq(FmtChar)
  BY FormatTyped, PieceSpelled
<1>2. PICK F : F = [j \in 1 .. k + 1 |-> Spelled(fm[j])]
  OBVIOUS
<1>3. F \in [1 .. k + 1 -> Seq(FmtChar)] /\ F[k + 1] = Spelled(fm[k + 1])
  <2>1. \A j \in 1 .. k + 1 : j \in 1 .. Len(fm)
    BY <1>1
  <2> QED  BY <1>1, <1>2, <2>1
<1>4. /\ [j \in 1 .. k |-> F[j]] = [j \in 1 .. k |-> Spelled(fm[j])]
      /\ [j \in 1 .. k + 1 |-> F[j]] = [j \in 1 .. k + 1 |-> Spelled(fm[j])]
  <2>1. \A j \in 1 .. k : F[j] = Spelled(fm[j])
    BY <1>2
  <2>2. \A j \in 1 .. k + 1 : F[j] = Spelled(fm[j])
    BY <1>2
  <2> QED  BY <2>1, <2>2
<1>5. /\ FlattenSeq([j \in 1 .. k |-> F[j]]) \in Seq(FmtChar)
      /\ FlattenSeq([j \in 1 .. k + 1 |-> F[j]])
           = FlattenSeq([j \in 1 .. k |-> F[j]]) \o F[k + 1]
  BY <1>3, FlattenNext
<1>6. /\ Prefix(fm, k) = FlattenSeq([j \in 1 .. k |-> F[j]])
      /\ Prefix(fm, k + 1) = FlattenSeq([j \in 1 .. k + 1 |-> F[j]])
  BY <1>4, Zenon DEF Prefix
<1>7. Prefix(fm, k) \in Seq(FmtChar) /\ Prefix(fm, k + 1) = Prefix(fm, k) \o Spelled(fm[k + 1])
  BY <1>3, <1>5, <1>6, Zenon
<1>8. Spelled(fm[k + 1]) \in Seq(FmtChar)
  BY <1>3
<1> QED  BY <1>7, <1>8, ConcatProperties

\* The place of the i-th character of the k-th piece is End(fm, k - 1) + i.
End(fm, k) == Len(Prefix(fm, k))

LEMMA EndNext ==
  ASSUME NEW fm \in Formats
  PROVE  /\ End(fm, 0) = 0
         /\ \A k \in 0 .. Len(fm) : Prefix(fm, k) \in Seq(FmtChar) /\ End(fm, k) \in Nat
         /\ \A k \in 1 .. Len(fm) :
              /\ End(fm, k) = End(fm, k - 1) + Len(Spelled(fm[k]))
              /\ \A i \in 1 .. End(fm, k - 1) : Prefix(fm, k)[i] = Prefix(fm, k - 1)[i]
              /\ \A i \in 1 .. Len(Spelled(fm[k])) :
                   Prefix(fm, k)[End(fm, k - 1) + i] = Spelled(fm[k])[i]
<1>1. Prefix(fm, 0) = << >>
  <2>1. [j \in 1 .. 0 |-> Spelled(fm[j])] = << >>
    OBVIOUS
  <2> QED  BY <2>1, FlattenEmpty DEF Prefix
<1>2. ASSUME NEW k \in 0 .. Len(fm)
      PROVE  Prefix(fm, k) \in Seq(FmtChar) /\ End(fm, k) \in Nat
  <2>1. Prefix(fm, k) \in Seq(FmtChar)
    <3>1. CASE k = 0
      <4>1. Prefix(fm, 0) \in Seq(FmtChar)
        <5>1. << >> \in Seq(FmtChar)
          OBVIOUS
        <5> QED  BY <1>1, <5>1, Zenon
      <4> QED  BY <3>1, <4>1
    <3>2. CASE k # 0
      <4>1. k - 1 \in Nat /\ k - 1 < Len(fm) /\ (k - 1) + 1 = k
        BY <3>2, FormatTyped
      <4> QED  BY <4>1, PrefixNext
    <3> QED  BY <3>1, <3>2
  <2> QED  BY <2>1 DEF End
<1>3. ASSUME NEW k \in 1 .. Len(fm)
      PROVE  /\ End(fm, k) = End(fm, k - 1) + Len(Spelled(fm[k]))
             /\ \A i \in 1 .. End(fm, k - 1) : Prefix(fm, k)[i] = Prefix(fm, k - 1)[i]
             /\ \A i \in 1 .. Len(Spelled(fm[k])) :
                  Prefix(fm, k)[End(fm, k - 1) + i] = Spelled(fm[k])[i]
  <2>1. k - 1 \in Nat /\ k - 1 < Len(fm) /\ (k - 1) + 1 = k
    BY FormatTyped
  <2>2. Prefix(fm, k - 1) \in Seq(FmtChar) /\ Prefix(fm, k) = Prefix(fm, k - 1) \o Spelled(fm[k])
    BY <2>1, PrefixNext
  <2>3. Spelled(fm[k]) \in Seq(FmtChar)
    BY FormatTyped, PieceSpelled
  <2>4. Joined(FmtChar, Prefix(fm, k - 1), End(fm, k - 1), Spelled(fm[k]), Len(Spelled(fm[k])),
               Prefix(fm, k))
    BY <2>2, <2>3, ConcatAt DEF End
  <2> QED  BY <2>4, Zenon DEF Joined, End
<1> QED  BY <1>1, <1>2, <1>3 DEF End

\* A whole format, with its terminator.
Whole(fm) == FlattenSeq([k \in DOMAIN fm |-> Spelled(fm[k])]) \o <<NUL>>

LEMMA WholeIs ==
  ASSUME NEW fm \in Formats
  PROVE  /\ Whole(fm) \in Seq(FmtChar \cup {NUL})
         /\ Len(Whole(fm)) = End(fm, Len(fm)) + 1
         /\ End(fm, Len(fm)) \in Nat
         /\ Whole(fm)[End(fm, Len(fm)) + 1] = NUL
         /\ \A i \in 1 .. End(fm, Len(fm)) : Whole(fm)[i] = Prefix(fm, Len(fm))[i]
<1>1. Len(fm) \in Nat /\ DOMAIN fm = 1 .. Len(fm)
  BY FormatTyped
<1>2. PICK X : X = FmtChar \cup {NUL}
  OBVIOUS
<1>3. PICK s, t : s = Prefix(fm, Len(fm)) /\ t = <<NUL>>
  OBVIOUS
<1>4. Whole(fm) = s \o t
  BY <1>1, <1>3, Zenon DEF Whole, Prefix
<1>5. s \in Seq(FmtChar)
  <2>1. Len(fm) \in 0 .. Len(fm)
    BY <1>1
  <2> QED  BY <1>3, <2>1, EndNext
<1>6. s \in Seq(X)
  BY <1>2, <1>5, SeqMonotonic
<1>7. t \in Seq(X) /\ Len(t) = 1 /\ t[1] = NUL
  BY <1>2, <1>3
<1>8. Len(s) \in Nat /\ Len(s) = End(fm, Len(fm))
  BY <1>3, <1>6 DEF End
<1>9. Joined(X, s, Len(s), t, 1, Whole(fm))
  BY <1>4, <1>6, <1>7, ConcatAt
<1>10. /\ Whole(fm) \in Seq(X) /\ Len(Whole(fm)) = Len(s) + 1 /\ Whole(fm)[Len(s) + 1] = NUL
       /\ \A i \in 1 .. Len(s) : Whole(fm)[i] = s[i]
  BY <1>7, <1>9 DEF Joined
<1> QED  BY <1>2, <1>3, <1>8, <1>10

\* The characters of the k-th piece stand at its place in the format.
LEMMA WholeAt ==
  ASSUME NEW fm \in Formats, NEW k \in 1 .. Len(fm), NEW i \in 1 .. Len(Spelled(fm[k]))
  PROVE  /\ End(fm, k - 1) + i \in 1 .. End(fm, Len(fm))
         /\ Whole(fm)[End(fm, k - 1) + i] = Spelled(fm[k])[i]
<1>1. Len(fm) \in Nat
  BY FormatTyped
<1>2. PICK e, x : e = End(fm, k - 1) + i /\ x = Spelled(fm[k])[i]
  OBVIOUS
<1> DEFINE S == {j \in Nat : k + j <= Len(fm) =>
                   e \in 1 .. End(fm, k + j) /\ Prefix(fm, k + j)[e] = x}
<1>3. 0 \in S
  <2>1. End(fm, k - 1) \in Nat /\ Len(Spelled(fm[k])) \in Nat
    <3>1. k - 1 \in 0 .. Len(fm)
      BY <1>1
    <3> QED  BY <3>1, EndNext, FormatTyped, PieceSpelled
  <2>2. End(fm, k) = End(fm, k - 1) + Len(Spelled(fm[k])) /\ Prefix(fm, k)[e] = x
    BY <1>2, EndNext
  <2> PICK g, l : g = End(fm, k - 1) /\ l = Len(Spelled(fm[k]))
    OBVIOUS
  <2>3. e \in 1 .. End(fm, k) /\ k + 0 = k
    <3>1. g \in Nat /\ l \in Nat /\ i \in 1 .. l /\ e = g + i /\ End(fm, k) = g + l
      BY <1>2, <2>1, <2>2
    <3>2. e \in 1 .. g + l
      BY <3>1, Within
    <3> QED  BY <1>1, <3>1, <3>2
  <2> QED  BY <2>2, <2>3
<1>4. ASSUME NEW j \in Nat, j \in S PROVE j + 1 \in S
  <2> SUFFICES ASSUME k + (j + 1) <= Len(fm)
               PROVE  /\ e \in 1 .. End(fm, k + (j + 1))
                      /\ Prefix(fm, k + (j + 1))[e] = x
    OBVIOUS
  <2> PICK m : m = k + (j + 1)
    OBVIOUS
  <2>1. m \in 1 .. Len(fm) /\ m - 1 = k + j /\ k + j <= Len(fm) /\ m - 1 \in 0 .. Len(fm)
        /\ m \in 0 .. Len(fm)
    BY <1>1
  <2>2. e \in 1 .. End(fm, m - 1) /\ Prefix(fm, m - 1)[e] = x
    BY <1>4, <2>1
  <2>3. /\ End(fm, m) = End(fm, m - 1) + Len(Spelled(fm[m]))
        /\ Prefix(fm, m)[e] = Prefix(fm, m - 1)[e]
    BY <2>1, <2>2, EndNext
  <2>4. End(fm, m - 1) \in Nat /\ Len(Spelled(fm[m])) \in Nat
    BY <2>1, EndNext, FormatTyped, PieceSpelled
  <2> PICK g, l : g = End(fm, m - 1) /\ l = Len(Spelled(fm[m]))
    OBVIOUS
  <2>5. g \in Nat /\ l \in Nat /\ e \in 1 .. g /\ End(fm, m) = g + l
    BY <2>2, <2>3, <2>4
  <2>6. e \in 1 .. g + l
    BY <2>5, Within
  <2> QED  BY <2>2, <2>3, <2>5, <2>6
<1>5. Nat \subseteq S
  <2> HIDE DEF S
  <2> QED  BY <1>3, <1>4, Induction
<1>6. Len(fm) - k \in Nat /\ k + (Len(fm) - k) = Len(fm)
  BY <1>1
<1>7. e \in 1 .. End(fm, Len(fm)) /\ Prefix(fm, Len(fm))[e] = x
  <2>1. Len(fm) - k \in S
    BY <1>5, <1>6
  <2> QED  BY <1>1, <1>6, <2>1
<1>8. Whole(fm)[e] = Prefix(fm, Len(fm))[e]
  BY <1>7, WholeIs
<1> QED  BY <1>2, <1>7, <1>8
-----------------------------------------------------------------------------
(* What the conversions put.                                               *)

LEMMA Bits ==
  \E i, l \in Nat \ {0} :
    /\ i <= l
    /\ Pow(2, IntBits - 1) = i /\ Pow(2, IntBits) = 2 * i
    /\ Pow(2, LongLongBits - 1) = l /\ Pow(2, LongLongBits) = 2 * l
<1>1. /\ IntBits - 1 \in Nat /\ LongLongBits - 1 \in Nat /\ IntBits - 1 <= LongLongBits - 1
      /\ (IntBits - 1) + 1 = IntBits /\ (LongLongBits - 1) + 1 = LongLongBits
  BY PrintFmtAssumption
<1>2. PICK i, l : i = Pow(2, IntBits - 1) /\ l = Pow(2, LongLongBits - 1)
  OBVIOUS
<1>3. 2 \in Nat \ {0} /\ 2 \in Nat /\ 2 >= 2
  OBVIOUS
<1>4. i \in Nat \ {0} /\ l \in Nat \ {0}
  BY <1>1, <1>2, <1>3, PowPositive
<1>5. i <= l
  BY <1>1, <1>2, <1>3, PowGrows
<1>6. Pow(2, IntBits) = 2 * i /\ Pow(2, LongLongBits) = 2 * l
  BY <1>1, <1>2, <1>3, PowStep
<1> QED  BY <1>2, <1>4, <1>5, <1>6

Negative(v, l) == getint(v, l) >= Pow(2, LongLongBits - 1)
Magnitude(v, l) ==
  IF Negative(v, l) THEN Pow(2, LongLongBits) - getint(v, l) ELSE getint(v, l)

\* The sign is that of the argument, at its own size, and so is the magnitude.
LEMMA SignExtends ==
  ASSUME NEW l \in Nat, NEW v \in ArgOf(l)
  PROVE  /\ v \in Nat /\ Signed(v, l) \in Int /\ Magnitude(v, l) \in Nat
         /\ Negative(v, l) <=> Signed(v, l) < 0
         /\ Magnitude(v, l) = IF Signed(v, l) < 0 THEN -Signed(v, l) ELSE Signed(v, l)
<1>1. PICK i, h \in Nat \ {0} :
        /\ i <= h
        /\ Pow(2, IntBits - 1) = i /\ Pow(2, IntBits) = 2 * i
        /\ Pow(2, LongLongBits - 1) = h /\ Pow(2, LongLongBits) = 2 * h
  BY Bits
<1>2. CASE l >= 2
  <2>1. v \in 0 .. 2 * h - 1
    BY <1>1, <1>2, PrintFmtAssumption DEF ArgOf
  <2>2. getint(v, l) = v
    BY <1>2 DEF getint
  <2>3. Signed(v, l) = IF v >= h THEN v - 2 * h ELSE v
    BY <1>1, <1>2 DEF Signed
  <2>4. Negative(v, l) <=> v >= h
    BY <1>1, <2>2 DEF Negative
  <2>5. Magnitude(v, l) = IF v >= h THEN 2 * h - v ELSE v
    BY <1>1, <2>2, <2>4 DEF Magnitude
  <2> QED  BY <2>1, <2>3, <2>4, <2>5
<1>3. CASE ~(l >= 2)
  <2>1. v \in 0 .. 2 * i - 1
    BY <1>1, <1>3, PrintFmtAssumption DEF ArgOf
  <2>2. getint(v, l) = IF v >= i THEN v + 2 * h - 2 * i ELSE v
    BY <1>1, <1>3 DEF getint
  <2>3. Signed(v, l) = IF v >= i THEN v - 2 * i ELSE v
    BY <1>1, <1>3 DEF Signed
  <2>4. Negative(v, l) <=> v >= i
    BY <1>1, <2>1, <2>2 DEF Negative
  <2>5. Magnitude(v, l) = IF v >= i THEN 2 * h - (v + 2 * h - 2 * i) ELSE v
    BY <1>1, <2>2, <2>4 DEF Magnitude
  <2> QED  BY <2>1, <2>3, <2>4, <2>5
<1> QED  BY <1>2, <1>3

DecimalPut(v, l, w, c) ==
  (IF Negative(v, l) THEN <<"-">> ELSE << >>) \o printnum(Magnitude(v, l), 10, w, c)

ErrorPut(v) ==
  LET err == IF v < 0 THEN -v ELSE v
  IN  IF err > MAXERROR \/ err = 0
        THEN <<"error">> \o printnum(err, 10, -1, Blank)
        ELSE <<"error_string">> \o printnum(err, 10, -1, Blank)

ShownPart(s, prec, alt) ==
  [k \in 1 .. strnlen(s, prec) |-> IF alt /\ ~Visible(s[k]) THEN "?" ELSE s[k]]
StringPut(s, w, prec, c, alt) ==
  Pads(c, IF w > 0 /\ c # "-" THEN w - strnlen(s, prec) ELSE 0)
    \o ShownPart(s, prec, alt)
    \o Pads(Blank, IF w > 0 /\ c # "-" THEN 0 ELSE w - strnlen(s, prec))

LEMMA Singleton == ASSUME NEW x PROVE IsSequence(<<x>>) /\ Len(<<x>>) = 1 /\ <<x>>[1] = x
<1>1. <<x>> \in Seq({x})
  OBVIOUS
<1> QED  BY <1>1 DEF IsSequence

LEMMA PrintnumTyped ==
  ASSUME NEW base \in 2 .. 16, NEW m \in Nat, NEW w \in Int, NEW c
  PROVE  IsSequence(printnum(m, base, w, c))
BY PrintnumIsNumeral DEF IsSequence

LEMMA DecimalTyped ==
  ASSUME NEW l \in Nat, NEW v \in ArgOf(l), NEW w \in Int, NEW c
  PROVE  IsSequence(DecimalPut(v, l, w, c))
<1>1. 10 \in 2 .. 16 /\ Magnitude(v, l) \in Nat
  BY SignExtends
<1>2. IsSequence(printnum(Magnitude(v, l), 10, w, c))
  BY <1>1, PrintnumTyped
<1>3. PICK s : s = IF Negative(v, l) THEN <<"-">> ELSE << >>
  OBVIOUS
<1>4. IsSequence(s)
  <2>1. << >> \in Seq({"-"})
    OBVIOUS
  <2>2. IsSequence(<< >>) /\ IsSequence(<<"-">>)
    BY <2>1, Singleton DEF IsSequence
  <2> QED  BY <1>3, <2>2
<1> QED  BY <1>2, <1>3, <1>4, SequencesJoin DEF DecimalPut

LEMMA ErrorTyped ==
  ASSUME NEW v \in Int
  PROVE  IsSequence(ErrorPut(v))
<1>1. PICK err : err = IF v < 0 THEN -v ELSE v
  OBVIOUS
<1>2. err \in Nat /\ 10 \in 2 .. 16 /\ -1 \in Int
  BY <1>1
<1>3. IsSequence(printnum(err, 10, -1, Blank))
  BY <1>2, PrintnumTyped
<1>4. /\ IsSequence(<<"error">> \o printnum(err, 10, -1, Blank))
      /\ IsSequence(<<"error_string">> \o printnum(err, 10, -1, Blank))
  BY <1>3, Singleton, SequencesJoin
<1>5. ErrorPut(v) = IF err > MAXERROR \/ err = 0
                      THEN <<"error">> \o printnum(err, 10, -1, Blank)
                      ELSE <<"error_string">> \o printnum(err, 10, -1, Blank)
  BY <1>1, Zenon DEF ErrorPut
<1>6. CASE err > MAXERROR \/ err = 0
  BY <1>4, <1>5, <1>6, Zenon
<1>7. CASE ~(err > MAXERROR \/ err = 0)
  BY <1>4, <1>5, <1>7, Zenon
<1> QED  BY <1>6, <1>7

LEMMA StrnlenTyped ==
  ASSUME NEW s \in Seq(Char), NEW prec \in Int
  PROVE  strnlen(s, prec) = (IF prec < 0 \/ Len(s) <= prec THEN Len(s) ELSE prec)
         /\ strnlen(s, prec) \in 0 .. Len(s)
<1>1. Len(s) \in Nat
  OBVIOUS
<1>2. Min({Len(s), prec}) = IF Len(s) <= prec THEN Len(s) ELSE prec
  BY <1>1, MinTwo
<1> QED  BY <1>1, <1>2 DEF strnlen

LEMMA ShownTyped ==
  ASSUME NEW s \in Seq(Char), NEW prec \in Int, NEW alt
  PROVE  /\ ShownPart(s, prec, alt) \in Seq(Char \cup {"?"})
         /\ Len(ShownPart(s, prec, alt)) = strnlen(s, prec)
<1>1. PICK len : len = strnlen(s, prec)
  OBVIOUS
<1>2. len \in Nat /\ \A k \in 1 .. len : s[k] \in Char
  <2>1. Len(s) \in Nat /\ len \in 0 .. Len(s)
    BY <1>1, StrnlenTyped
  <2>2. \A k \in 1 .. len : k \in 1 .. Len(s)
    BY <2>1
  <2> QED  BY <2>1, <2>2, ElementOfSeq
<1>3. ShownPart(s, prec, alt) = [k \in 1 .. len |-> IF alt /\ ~Visible(s[k]) THEN "?" ELSE s[k]]
  BY <1>1, Zenon DEF ShownPart
<1> QED  BY <1>1, <1>2, <1>3

LEMMA StringTyped ==
  ASSUME NEW s \in Seq(Char), NEW w \in Int, NEW prec \in Int, NEW c, NEW alt
  PROVE  IsSequence(StringPut(s, w, prec, c, alt))
<1>1. PICK i, j : /\ i = IF w > 0 /\ c # "-" THEN w - strnlen(s, prec) ELSE 0
                  /\ j = IF w > 0 /\ c # "-" THEN 0 ELSE w - strnlen(s, prec)
  OBVIOUS
<1>2. i \in Int /\ j \in Int
  <2>1. strnlen(s, prec) \in Int
    BY StrnlenTyped
  <2> QED  BY <1>1, <2>1
<1>3. IsSequence(Pads(c, i)) /\ IsSequence(Pads(Blank, j))
  <2>1. Pads(c, i) \in Seq({c}) /\ Pads(Blank, j) \in Seq({Blank})
    BY <1>2, PadsTyped
  <2> QED  BY <2>1 DEF IsSequence
<1>4. IsSequence(ShownPart(s, prec, alt))
  BY ShownTyped DEF IsSequence
<1>5. IsSequence((Pads(c, i) \o ShownPart(s, prec, alt)) \o Pads(Blank, j))
  BY <1>3, <1>4, SequencesJoin
<1> QED  BY <1>1, <1>5, Zenon DEF StringPut
-----------------------------------------------------------------------------
(* The buffer: the characters put, as far as they go, and the terminator.  *)

\* A character of the format that is no terminator is not its last.
Parsing ==
  /\ format \in Formats /\ n \in BufSizes /\ fmt = Whole(format)
  /\ f \in 1 .. Len(fmt)
  /\ width \in Int /\ precision \in Int /\ lflag \in Nat
  /\ pc = "reswitch" => \E k \in 1 .. f - 1 : fmt[k] = "%"

Untouched == [k \in Memory |-> JUNK]
Terminated(o, m) ==
  [k \in Memory |-> IF k = Kept(o, m) THEN NUL ELSE Filled(o, m).mem[k]]

Buffered ==
  /\ IsSequence(out)
  /\ pc \in {"vsnprintf", "text", "reswitch", "done"}
  /\ pc = "vsnprintf" =>
       out = << >> /\ b = [buf |-> 0, ebuf |-> n - 1, cnt |-> 0, mem |-> Untouched]
  /\ pc \in {"text", "reswitch"} => n >= 1 /\ b = Filled(out, n)
  /\ pc = "done" => \/ n < 1 /\ b.mem = Untouched
                    \/ n >= 1 /\ ret = Len(out) /\ b.mem = Terminated(out, n)

LEMMA NulDiffers == NUL \notin Known /\ NUL # "%" /\ NUL \notin Digit
  BY DEF NUL, Known, Flag, Digit, Conversions, Base

LEMMA FmtTyped ==
  ASSUME NEW fm \in Formats
  PROVE  /\ Whole(fm) \in Seq(FmtChar \cup {NUL}) /\ Len(Whole(fm)) \in Nat \ {0}
         /\ Whole(fm)[Len(Whole(fm))] = NUL
BY WholeIs

\* Where the digits that start at i end.
LEMMA DigitsEnd ==
  ASSUME NEW X, NEW s \in Seq(X), NEW i \in 1 .. Len(s), NEW m \in i .. Len(s),
         s[m] \notin Digit, \A k \in i .. m - 1 : s[k] \in Digit
  PROVE  /\ Min({k \in i .. Len(s) : s[k] \notin Digit}) = m
         /\ SubSeq(s, i, m - 1) \in Seq(Digit)
<1>1. Len(s) \in Nat /\ i \in Nat /\ m \in Nat
  OBVIOUS
<1> DEFINE T == {k \in i .. Len(s) : s[k] \notin Digit}
<1>2. T \subseteq Int /\ m \in T /\ \A j \in T : m <= j
  <2>1. \A j \in i .. Len(s) : s[j] \notin Digit => ~(j \in i .. m - 1)
    OBVIOUS
  <2>2. \A j \in T : m <= j
    BY <1>1, <2>1
  <2> QED  BY <1>1, <2>2
<1>3. Min(T) = m
  <2> HIDE DEF T
  <2> QED  BY <1>2, MinIs
<1>4. SubSeq(s, i, m - 1) \in Seq(Digit)
  <2>1. /\ Len(SubSeq(s, i, m - 1)) = m - i
        /\ \A k \in 1 .. m - i : SubSeq(s, i, m - 1)[k] = s[i + k - 1]
    BY <1>1
  <2>2. \A k \in 1 .. m - i : i + k - 1 \in i .. m - 1
    BY <1>1
  <2>3. \A k \in 1 .. m - i : SubSeq(s, i, m - 1)[k] \in Digit
    BY <2>1, <2>2
  <2>4. SubSeq(s, i, m - 1) = [k \in 1 .. m - i |-> SubSeq(s, i, m - 1)[k]]
    BY <1>1, <2>1
  <2> PICK t : t = SubSeq(s, i, m - 1)
    OBVIOUS
  <2>5. t = [k \in 1 .. m - i |-> t[k]] /\ \A k \in 1 .. m - i : t[k] \in Digit
    BY <2>3, <2>4
  <2>6. m - i \in Nat
    BY <1>1
  <2>7. t \in Seq(Digit)
    BY <2>5, <2>6
  <2> QED  BY <2>7
<1> QED  BY <1>3, <1>4

LEMMA DigitsHaveEnd ==
  ASSUME NEW X, NEW s \in Seq(X), NEW i \in 1 .. Len(s), s[i] \in Digit, s[Len(s)] \notin Digit
  PROVE  \E m \in i + 1 .. Len(s) : s[m] \notin Digit /\ \A k \in i .. m - 1 : s[k] \in Digit
<1> DEFINE T == {k \in i .. Len(s) : s[k] \notin Digit}
<1>1. Len(s) \in Nat /\ i \in Nat /\ T \subseteq Nat /\ Len(s) \in T
  OBVIOUS
<1>2. PICK m \in T : \A j \in T : m <= j
  <2> HIDE DEF T
  <2> QED  BY <1>1, LeastElement
<1>3. m \in i .. Len(s) /\ s[m] \notin Digit /\ m # i
  BY <1>2
<1>4. ASSUME NEW k \in i .. m - 1 PROVE s[k] \in Digit
  <2>1. k \in i .. Len(s) /\ k < m
    BY <1>1, <1>3
  <2> QED  BY <1>1, <1>2, <1>3, <2>1
<1>5. m \in i + 1 .. Len(s)
  BY <1>1, <1>3
<1> QED  BY <1>3, <1>4, <1>5

LEMMA GreatestElement ==
  ASSUME NEW i \in Nat, NEW T, T \subseteq 1 .. i, T # {}
  PROVE  \E m \in T : \A j \in T : m >= j
<1> DEFINE D == {i - j : j \in T}
<1>1. D \subseteq Nat /\ D # {}
  <2>1. \A j \in T : i - j \in Nat
    OBVIOUS
  <2>2. PICK t \in T : TRUE
    OBVIOUS
  <2>3. i - t \in D
    OBVIOUS
  <2> QED  BY <2>1, <2>3
<1>2. PICK d \in D : \A e \in D : d <= e
  <2> HIDE DEF D
  <2> QED  BY <1>1, LeastElement
<1>3. PICK m \in T : d = i - m
  BY <1>2
<1>4. ASSUME NEW j \in T PROVE m >= j
  <2>1. i - j \in D
    OBVIOUS
  <2>2. d <= i - j
    BY <1>2, <2>1
  <2>3. m \in Nat /\ j \in Nat
    OBVIOUS
  <2> QED  BY <1>3, <2>2, <2>3
<1> QED  BY <1>4

\* Where the `%' is that stands last before i.
LEMMA PercentBefore ==
  ASSUME NEW s, NEW i \in Nat, \E k \in 1 .. i - 1 : s[k] = "%"
  PROVE  LET T == {k \in 1 .. i - 1 : s[k] = "%"}
         IN  Max(T) \in T /\ \A k \in T : Max(T) >= k
<1> DEFINE T == {k \in 1 .. i - 1 : s[k] = "%"}
<1>1. i - 1 \in Nat /\ T \subseteq 1 .. i - 1 /\ T # {} /\ T \subseteq Int
  OBVIOUS
<1> HIDE DEF T
<1>2. PICK m \in T : \A j \in T : m >= j
  BY <1>1, GreatestElement
<1>3. Max(T) = m
  BY <1>1, <1>2, MaxIs
<1> QED  BY <1>2, <1>3 DEF T

LEMMA ParsingInductive ==
  ASSUME Parsing, [Next]_vars
  PROVE  Parsing'
<1> PICK X : X = FmtChar \cup {NUL}
  OBVIOUS
<1>1. /\ fmt \in Seq(X) /\ Len(fmt) \in Nat \ {0} /\ fmt[Len(fmt)] = NUL
      /\ f \in Nat /\ f >= 1 /\ f <= Len(fmt)
  <2>1. fmt \in Seq(X) /\ Len(fmt) \in Nat \ {0} /\ fmt[Len(fmt)] = NUL
    BY FmtTyped DEF Parsing
  <2> QED  BY <2>1 DEF Parsing
<1>2. ASSUME fmt[f] # NUL PROVE f + 1 \in 1 .. Len(fmt)
  BY <1>1, <1>2
<1>3. ASSUME pc = "reswitch" PROVE \E k \in 1 .. f - 1 : fmt[k] = "%"
  BY <1>3 DEF Parsing
<1>4. ASSUME pc = "reswitch" PROVE \E k \in 1 .. (f + 1) - 1 : fmt[k] = "%"
  BY <1>1, <1>3, <1>4
<1>5. CASE UNCHANGED vars
  BY <1>5 DEF Parsing, vars, call, flags
<1>6. CASE refuse \/ start \/ finish
  <2>1. UNCHANGED <<call, f, flags>> /\ pc' # "reswitch"
    BY <1>6 DEF refuse, start, finish
  <2> QED  BY <2>1 DEF Parsing, call, flags
<1>7. CASE literal
  <2>1. UNCHANGED <<call, flags>> /\ pc' # "reswitch" /\ f' = f + 1 /\ fmt[f] # NUL
    BY <1>7 DEF literal
  <2> QED  BY <1>2, <2>1 DEF Parsing, call, flags
<1>8. CASE escape
  <2>1. /\ UNCHANGED call /\ f' = f + 1 /\ fmt[f] = "%" /\ fmt[f] # NUL
        /\ width' \in Int /\ precision' \in Int /\ lflag' \in Nat
    BY <1>8, NulDiffers DEF escape
  <2>2. f \in 1 .. (f + 1) - 1
    BY <1>1
  <2> QED  BY <1>2, <2>1, <2>2 DEF Parsing, call
<1>9. CASE pad \/ dot \/ alternate \/ long
  <2>1. /\ UNCHANGED call /\ pc = "reswitch" /\ f' = f + 1 /\ fmt[f] \in Known
        /\ width' \in Int /\ precision' \in Int /\ lflag' \in Nat
    <3>1. "-" \in Known /\ "0" \in Known /\ "." \in Known /\ "#" \in Known /\ "l" \in Known
      BY DEF Known, Flag, Digit
    <3>2. CASE pad
      BY <3>1, <3>2 DEF pad, Switch, Parsing
    <3>3. CASE dot
      BY <3>1, <3>3 DEF dot, Switch, Parsing
    <3>4. CASE alternate
      BY <3>1, <3>4 DEF alternate, Switch, Parsing
    <3>5. CASE long
      BY <3>1, <3>5 DEF long, Switch, Parsing
    <3> QED  BY <1>9, <3>2, <3>3, <3>4, <3>5
  <2>2. fmt[f] # NUL
    BY <2>1, NulDiffers
  <2> QED  BY <1>2, <1>4, <2>1, <2>2 DEF Parsing, call
<1>10. CASE number
  <2>1. PICK m \in f + 1 .. Len(fmt) :
          fmt[m] \notin Digit /\ \A k \in f .. m - 1 : fmt[k] \in Digit
    <3>1. fmt[f] \in Digit /\ fmt[Len(fmt)] \notin Digit /\ f \in 1 .. Len(fmt)
      BY <1>1, <1>10, NulDiffers DEF number
    <3> QED  BY <1>1, <3>1, DigitsHaveEnd
  <2>2. /\ Min({k \in f .. Len(fmt) : fmt[k] \notin Digit}) = m
        /\ SubSeq(fmt, f, m - 1) \in Seq(Digit)
    <3>1. m \in f .. Len(fmt) /\ f \in 1 .. Len(fmt)
      BY <1>1
    <3> QED  BY <1>1, <2>1, <3>1, DigitsEnd
  <2>3. /\ UNCHANGED <<call, lflag>> /\ pc = "reswitch" /\ f' = m
        /\ Precision(Value(SubSeq(fmt, f, m - 1)))
    BY <1>10, <2>2 DEF number
  <2>4. Value(SubSeq(fmt, f, m - 1)) \in Int
    <3>1. Value(SubSeq(fmt, f, m - 1)) \in Nat
      BY <2>2, ValueTyped, Zenon
    <3> QED  BY <3>1
  <2>5. width' \in Int /\ precision' \in Int
    BY <2>3, <2>4 DEF Precision, Parsing
  <2>6. f' \in 1 .. Len(fmt) /\ \E k \in 1 .. f' - 1 : fmt[k] = "%"
    BY <1>1, <1>3, <2>3
  <2> QED  BY <2>3, <2>5, <2>6 DEF Parsing, call
<1>11. CASE star
  <2>1. /\ UNCHANGED <<call, lflag>> /\ pc = "reswitch" /\ f' = f + 1 /\ fmt[f] \in Known
        /\ width' \in Int /\ precision' \in Int
    BY <1>11, PrintFmtAssumption DEF star, Switch, Precision, Parsing, Known, Flag
  <2>2. fmt[f] # NUL
    BY <2>1, NulDiffers
  <2> QED  BY <1>2, <1>4, <2>1, <2>2 DEF Parsing, call
<1>12. CASE percent \/ character \/ error \/ string \/ decimal \/ unsigned \/ pointer
  <2>1. \E cs, a : Converted(cs, a) /\ fmt[f] \in Known
    BY <1>12, Zenon
    DEF percent, character, error, string, decimal, unsigned, pointer, Switch, Known, Conversions, Base
  <2>2. UNCHANGED <<call, flags>> /\ pc' # "reswitch" /\ f' = f + 1 /\ fmt[f] # NUL
    BY <2>1, NulDiffers DEF Converted
  <2> QED  BY <1>2, <2>2 DEF Parsing, call, flags
<1>13. CASE unknown
  <2> DEFINE T == {k \in 1 .. f - 1 : fmt[k] = "%"}
  <2>1. UNCHANGED <<call, flags>> /\ pc = "reswitch" /\ pc' # "reswitch" /\ f' = Max(T) + 1
    BY <1>13 DEF unknown
  <2>2. Max(T) \in 1 .. f - 1
    BY <1>1, <1>3, <2>1, PercentBefore
  <2> HIDE DEF T
  <2>3. f' \in 1 .. Len(fmt)
    BY <1>1, <2>1, <2>2
  <2> QED  BY <2>1, <2>3 DEF Parsing, call, flags
<1> QED
  BY <1>5, <1>6, <1>7, <1>8, <1>9, <1>10, <1>11, <1>12, <1>13 DEF Next

\* What a conversion puts is a sequence.
\* What a conversion puts for the value v, and the values that it takes.
PutBy(conv, v, w, prec, l, c, alt) ==
  CASE conv = "c" -> <<v[1]>>
    [] conv = "e" -> ErrorPut(v)
    [] conv = "s" -> StringPut(v, w, prec, c, alt)
    [] conv = "d" -> DecimalPut(v, l, w, c)
    [] conv = "p" -> <<"0", "x">> \o printnum(v, 16, w, c)
    [] OTHER      -> printnum(getuint(v, l), Base[conv], w, c)
Suits(conv, l, v) ==
  /\ conv = "e" => v \in Int
  /\ conv = "s" => v \in Seq(Char)
  /\ conv = "d" => v \in ArgOf(l)
  /\ conv \in {"p"} \cup DOMAIN Base => v \in Nat

LEMMA PutEach ==
  ASSUME NEW conv, NEW v, NEW w, NEW prec, NEW l, NEW c, NEW alt,
         NEW o, o = PutBy(conv, v, w, prec, l, c, alt)
  PROVE  /\ conv = "c" => o = <<v[1]>>
         /\ conv = "e" => o = ErrorPut(v)
         /\ conv = "s" => o = StringPut(v, w, prec, c, alt)
         /\ conv = "d" => o = DecimalPut(v, l, w, c)
         /\ conv = "p" => o = <<"0", "x">> \o printnum(v, 16, w, c)
         /\ conv \in DOMAIN Base => o = printnum(getuint(v, l), Base[conv], w, c)
<1>1. conv \in DOMAIN Base => conv \notin {"c", "e", "s", "d", "p"}
  BY DEF Base
<1> QED  BY <1>1 DEF PutBy

LEMMA PutTyped ==
  ASSUME NEW conv \in Conversions \ {"%"}, NEW l \in Nat, NEW v, Suits(conv, l, v),
         NEW w \in Int, NEW prec \in Int, NEW c, NEW alt
  PROVE  IsSequence(PutBy(conv, v, w, prec, l, c, alt))
<1>1. PICK o : o = PutBy(conv, v, w, prec, l, c, alt)
  OBVIOUS
<1>2. CASE conv = "c"
  BY <1>1, <1>2, PutEach, Singleton
<1>3. CASE conv = "e"
  <2>1. v \in Int
    BY <1>3 DEF Suits
  <2> QED  BY <1>1, <1>3, <2>1, PutEach, ErrorTyped
<1>4. CASE conv = "s"
  <2>1. v \in Seq(Char)
    BY <1>4 DEF Suits
  <2> QED  BY <1>1, <1>4, <2>1, PutEach, StringTyped
<1>5. CASE conv = "d"
  <2>1. v \in ArgOf(l)
    BY <1>5 DEF Suits
  <2> QED  BY <1>1, <1>5, <2>1, PutEach, DecimalTyped
<1>6. CASE conv = "p"
  <2>1. v \in Nat /\ 16 \in 2 .. 16
    BY <1>6 DEF Suits
  <2>2. <<"0", "x">> \in Seq({"0", "x"})
    OBVIOUS
  <2>3. IsSequence(<<"0", "x">>)
    BY <2>2 DEF IsSequence
  <2>4. IsSequence(printnum(v, 16, w, c))
    BY <2>1, PrintnumTyped
  <2>5. IsSequence(<<"0", "x">> \o printnum(v, 16, w, c))
    BY <2>3, <2>4, SequencesJoin
  <2>6. o = <<"0", "x">> \o printnum(v, 16, w, c)
    BY <1>1, <1>6, PutEach
  <2> QED  BY <1>1, <2>5, <2>6, Zenon
<1>7. CASE conv \in DOMAIN Base
  <2>1. v \in Nat
    BY <1>7 DEF Suits
  <2>2. Base[conv] \in 2 .. 16
    <3>1. \A d \in DOMAIN Base : Base[d] \in 2 .. 16
      BY DEF Base
    <3> QED  BY <1>7, <3>1, Zenon
  <2>3. IsSequence(printnum(v, Base[conv], w, c))
    BY <2>1, <2>2, PrintnumTyped
  <2>4. o = printnum(v, Base[conv], w, c)
    <3>1. o = printnum(getuint(v, l), Base[conv], w, c)
      BY <1>1, <1>7, PutEach
    <3> QED  BY <3>1, Zenon DEF getuint
  <2> QED  BY <1>1, <2>3, <2>4
<1> QED  BY <1>2, <1>3, <1>4, <1>5, <1>6, <1>7 DEF Conversions

\* The actions of the conversions that take a value.
LEMMA ConversionTakes ==
  ASSUME Parsing, character \/ error \/ string \/ decimal \/ unsigned \/ pointer
  PROVE  \E v : \E conv \in Conversions \ {"%"} :
           /\ pc = "reswitch" /\ fmt[f] = conv /\ Suits(conv, lflag, v)
           /\ Converted(PutBy(conv, v, width, precision, lflag, padc, altflag), <<v>>)
<1>1. lflag \in Nat
  BY DEF Parsing
<1> DEFINE Goal(conv, v) ==
      /\ pc = "reswitch" /\ fmt[f] = conv /\ Suits(conv, lflag, v)
      /\ Converted(PutBy(conv, v, width, precision, lflag, padc, altflag), <<v>>)
<1> SUFFICES \E v : \E conv \in Conversions \ {"%"} : Goal(conv, v)
  OBVIOUS
<1>2. ASSUME NEW conv, Switch(conv), NEW v, Suits(conv, lflag, v), NEW cs,
             cs = PutBy(conv, v, width, precision, lflag, padc, altflag), Converted(cs, <<v>>)
      PROVE  Goal(conv, v)
  BY <1>2, Zenon DEF Switch
<1> HIDE DEF Goal
<1>3. CASE character
  <2>1. PICK v \in StrArg : Converted(<<v[1]>>, <<v>>) /\ Switch("c")
    BY <1>3, Zenon DEF character
  <2>2. Suits("c", lflag, v) /\ "c" \in Conversions \ {"%"}
    BY DEF Suits, Base, Conversions
  <2>3. <<v[1]>> = PutBy("c", v, width, precision, lflag, padc, altflag)
    BY PutEach
  <2>4. Goal("c", v)
    BY <1>2, <2>1, <2>2, <2>3
  <2> QED  BY <2>2, <2>4, Zenon
<1>4. CASE error
  <2>1. PICK v \in ErrArg : Converted(ErrorPut(v), <<v>>)
    BY <1>4, Zenon DEF error, ErrorPut
  <2>2. Switch("e")
    BY <1>4, Zenon DEF error
  <2>3. Suits("e", lflag, v) /\ "e" \in Conversions \ {"%"}
    BY PrintFmtAssumption DEF Suits, Base, Conversions
  <2>4. ErrorPut(v) = PutBy("e", v, width, precision, lflag, padc, altflag)
    BY PutEach
  <2>5. Goal("e", v)
    BY <1>2, <2>1, <2>2, <2>3, <2>4
  <2> QED  BY <2>3, <2>5, Zenon
<1>5. CASE string
  <2>1. PICK v \in StrArg : Converted(StringPut(v, width, precision, padc, altflag), <<v>>)
    BY <1>5, Zenon DEF string, StringPut, ShownPart
  <2>2. Switch("s")
    BY <1>5, Zenon DEF string
  <2>3. Suits("s", lflag, v) /\ "s" \in Conversions \ {"%"}
    BY PrintFmtAssumption DEF Suits, Base, Conversions
  <2>4. StringPut(v, width, precision, padc, altflag)
          = PutBy("s", v, width, precision, lflag, padc, altflag)
    BY PutEach
  <2>5. Goal("s", v)
    BY <1>2, <2>1, <2>2, <2>3, <2>4
  <2> QED  BY <2>3, <2>5, Zenon
<1>6. CASE decimal
  <2>1. PICK v \in ArgOf(lflag) : Converted(DecimalPut(v, lflag, width, padc), <<v>>)
    BY <1>6, Zenon DEF decimal, DecimalPut, Negative, Magnitude
  <2>2. Switch("d")
    BY <1>6, Zenon DEF decimal
  <2>3. Suits("d", lflag, v) /\ "d" \in Conversions \ {"%"}
    BY DEF Suits, Base, Conversions
  <2>4. DecimalPut(v, lflag, width, padc)
          = PutBy("d", v, width, precision, lflag, padc, altflag)
    BY PutEach
  <2>5. Goal("d", v)
    BY <1>2, <2>1, <2>2, <2>3, <2>4
  <2> QED  BY <2>3, <2>5, Zenon
<1>7. CASE unsigned
  <2>1. PICK c \in DOMAIN Base : Switch(c) /\ \E v \in ArgOf(lflag) :
          Converted(printnum(getuint(v, lflag), Base[c], width, padc), <<v>>)
    BY <1>7, Zenon DEF unsigned
  <2>2. PICK v \in ArgOf(lflag) :
          Converted(printnum(getuint(v, lflag), Base[c], width, padc), <<v>>)
    BY <2>1
  <2>3. v \in Nat
    BY <1>1, SignExtends
  <2>4. Suits(c, lflag, v) /\ c \in Conversions \ {"%"}
    BY <2>3 DEF Suits, Base, Conversions
  <2>5. printnum(getuint(v, lflag), Base[c], width, padc)
          = PutBy(c, v, width, precision, lflag, padc, altflag)
    BY PutEach
  <2>6. Goal(c, v)
    BY <1>2, <2>1, <2>2, <2>4, <2>5
  <2> QED  BY <2>4, <2>6, Zenon
<1>8. CASE pointer
  <2>1. PICK v \in IntArg : Converted(<<"0", "x">> \o printnum(v, 16, width, padc), <<v>>)
    BY <1>8, Zenon DEF pointer
  <2>2. Switch("p")
    BY <1>8, Zenon DEF pointer
  <2>3. v \in Nat
    <3>1. Pow(2, IntBits) \in Nat
      BY Bits
    <3> QED  BY <3>1, PrintFmtAssumption
  <2>4. Suits("p", lflag, v) /\ "p" \in Conversions \ {"%"}
    BY <2>3 DEF Suits, Base, Conversions
  <2>5. <<"0", "x">> \o printnum(v, 16, width, padc)
          = PutBy("p", v, width, precision, lflag, padc, altflag)
    BY PutEach
  <2>6. Goal("p", v)
    BY <1>2, <2>1, <2>2, <2>4, <2>5
  <2> QED  BY <2>4, <2>6, Zenon
<1> QED  BY <1>3, <1>4, <1>5, <1>6, <1>7, <1>8

LEMMA ConversionPuts ==
  ASSUME Parsing,
         percent \/ character \/ error \/ string \/ decimal \/ unsigned \/ pointer
  PROVE  \E cs, a : IsSequence(cs) /\ Converted(cs, a) /\ pc = "reswitch"
<1>1. width \in Int /\ precision \in Int /\ lflag \in Nat
  BY DEF Parsing
<1>2. CASE percent
  BY <1>2, Singleton DEF percent, Switch
<1>3. CASE character \/ error \/ string \/ decimal \/ unsigned \/ pointer
  <2>1. PICK v : \E conv \in Conversions \ {"%"} :
          /\ pc = "reswitch" /\ Suits(conv, lflag, v)
          /\ Converted(PutBy(conv, v, width, precision, lflag, padc, altflag), <<v>>)
    BY <1>3, ConversionTakes, Zenon
  <2>2. PICK conv \in Conversions \ {"%"} :
          /\ pc = "reswitch" /\ Suits(conv, lflag, v)
          /\ Converted(PutBy(conv, v, width, precision, lflag, padc, altflag), <<v>>)
    BY <2>1
  <2>3. IsSequence(PutBy(conv, v, width, precision, lflag, padc, altflag))
    BY <1>1, <2>2, PutTyped
  <2> QED  BY <2>2, <2>3, Zenon
<1> QED  BY <1>2, <1>3

LEMMA BufferedInit ==
  ASSUME Init
  PROVE  Parsing /\ Buffered
<1>1. DOMAIN format = 1 .. Len(format) /\ fmt = Whole(format)
  BY FormatTyped, Zenon DEF Init, Whole
<1>2. Len(fmt) \in Nat \ {0}
  BY <1>1, FmtTyped DEF Init
<1>3. Parsing
  BY <1>1, <1>2 DEF Init, Parsing
<1>4. << >> \in Seq({})
  OBVIOUS
<1>5. Buffered
  BY <1>4 DEF Init, Buffered, IsSequence, Untouched
<1> QED  BY <1>3, <1>5

\* An empty output leaves the buffer as it was.
LEMMA NothingFilled ==
  ASSUME NEW m \in Int, m >= 1
  PROVE  Filled(<< >>, m) = [buf |-> 0, ebuf |-> m - 1, cnt |-> 0, mem |-> Untouched]
<1>1. Len(<< >>) = 0 /\ 0 \in Int /\ m - 1 \in Int
  OBVIOUS
<1>2. Kept(<< >>, m) = 0
  <2>1. Min({0, m - 1}) = IF 0 <= m - 1 THEN 0 ELSE m - 1
    BY <1>1, MinTwo
  <2> QED  BY <1>1, <2>1 DEF Kept
<1>3. \A k \in Memory : ~(k < 0)
  BY MemoryTyped
<1>4. [k \in Memory |-> IF k < 0 THEN << >>[k + 1] ELSE JUNK] = Untouched
  BY <1>3 DEF Untouched
<1> QED  BY <1>1, <1>2, <1>4 DEF Filled

LEMMA BufferedInductive ==
  ASSUME Parsing, Buffered, [Next]_vars
  PROVE  Buffered'
<1>1. n \in BufSizes /\ n \in Int /\ (Memory \subseteq Nat) /\ n' = n
  <2>1. n' = n
    BY DEF Next, vars, call, refuse, start, literal, finish, escape, pad, dot, alternate, long,
           number, star, percent, character, error, string, decimal, unsigned, pointer, unknown,
           Converted
  <2> QED  BY <2>1, MemoryTyped DEF Parsing
<1>2. IsSequence(out)
  BY DEF Buffered
\* A step that puts characters.
<1>3. ASSUME NEW cs, IsSequence(cs), Put(cs), pc \in {"text", "reswitch"}, pc' = "text"
      PROVE  Buffered'
  <2>1. n >= 1 /\ b = Filled(out, n)
    BY <1>3 DEF Buffered
  <2>2. IsSequence(out') /\ b' = Filled(out', n)
    BY <1>1, <1>2, <1>3, <2>1, PutFills
  <2> QED  BY <1>1, <1>3, <2>1, <2>2 DEF Buffered, Filled, Kept, Memory
\* A step that puts none.
<1>4. ASSUME UNCHANGED <<b, out>>, pc \in {"text", "reswitch"}, pc' \in {"text", "reswitch"}
      PROVE  Buffered'
  BY <1>1, <1>4 DEF Buffered, Filled, Kept, Memory
<1>5. CASE UNCHANGED vars
  BY <1>5 DEF Buffered, vars, call, Filled, Kept, Terminated, Untouched, Memory
<1>6. CASE refuse
  BY <1>1, <1>6 DEF refuse, Buffered, Untouched, Memory
<1>7. CASE start
  <2>1. Filled(<< >>, n) = [buf |-> 0, ebuf |-> n - 1, cnt |-> 0, mem |-> Untouched]
    BY <1>1, <1>7, NothingFilled DEF start
  <2>2. out = << >> /\ b = Filled(out, n) /\ n >= 1
    BY <1>7, <2>1 DEF start, Buffered
  <2> QED  BY <1>1, <1>7, <2>2 DEF start, Buffered, Filled, Kept, Memory
<1>8. CASE literal
  <2>1. Put(<<fmt[f]>>) /\ pc = "text" /\ pc' = "text"
    BY <1>8 DEF literal
  <2> QED  BY <1>3, <2>1, Singleton
<1>9. CASE finish
  <2>1. n >= 1 /\ b = Filled(out, n) /\ UNCHANGED out /\ pc' = "done" /\ ret' = b.cnt
        /\ b' = [b EXCEPT !.mem[b.buf] = NUL]
    BY <1>9 DEF finish, Buffered
  <2>2. b.cnt = Len(out) /\ b.buf = Kept(out, n) /\ b.mem = Filled(out, n).mem
    BY <2>1 DEF Filled
  <2>3. b'.mem = [b.mem EXCEPT ![b.buf] = NUL]
    BY <2>1 DEF Filled
  <2>4. b'.mem = Terminated(out, n)
    BY <2>1, <2>2, <2>3 DEF Terminated, Filled
  <2> QED  BY <1>1, <1>2, <2>1, <2>2, <2>4 DEF Buffered, Terminated, Filled, Kept, Memory
<1>10. CASE escape \/ pad \/ dot \/ alternate \/ long \/ number \/ star
  <2>1. UNCHANGED <<b, out>> /\ pc \in {"text", "reswitch"} /\ pc' \in {"text", "reswitch"}
    BY <1>10 DEF escape, pad, dot, alternate, long, number, star, Switch
  <2> QED  BY <1>4, <2>1
<1>11. CASE percent \/ character \/ error \/ string \/ decimal \/ unsigned \/ pointer
  <2>1. PICK cs, a : IsSequence(cs) /\ Converted(cs, a) /\ pc = "reswitch"
    BY <1>11, ConversionPuts
  <2>2. Put(cs) /\ pc' = "text"
    BY <2>1 DEF Converted
  <2> QED  BY <1>3, <2>1, <2>2
<1>12. CASE unknown
  <2>1. Put(<<"%">>) /\ pc = "reswitch" /\ pc' = "text"
    BY <1>12 DEF unknown
  <2> QED  BY <1>3, <2>1, Singleton
<1> QED
  BY <1>5, <1>6, <1>7, <1>8, <1>9, <1>10, <1>11, <1>12 DEF Next

\* What the buffer holds, step by step, is what the property says of it.
LEMMA BufferedTruncates ==
  ASSUME Parsing, Buffered
  PROVE  TruncatesAndTerminates
<1>1. n \in Int /\ IsSequence(out)
  BY MemoryTyped DEF Parsing, Buffered
<1>2. PICK X : out \in Seq(X)
  BY <1>1 DEF IsSequence
<1>3. PICK top \in Int : Memory = 0 .. top /\ n <= top
  BY MemoryTyped DEF Parsing
<1>4. PICK kept : kept = Kept(out, n)
  OBVIOUS
<1>5. Len(out) \in Nat /\ kept = (IF Len(out) <= n - 1 THEN Len(out) ELSE n - 1)
      /\ Min({Len(out), n - 1}) = kept
  <2>1. Len(out) \in Nat /\ n - 1 \in Int
    BY <1>1, <1>2
  <2> QED  BY <1>4, <2>1, MinTwo DEF Kept
<1>6. ASSUME pc \in {"text", "reswitch"}
      PROVE  \A k \in Memory : b.mem[k] = IF k < kept THEN out[k + 1] ELSE JUNK
  BY <1>4, <1>6 DEF Buffered, Filled
<1>7. ASSUME pc = "done", n >= 1
      PROVE  /\ ret = Len(out)
             /\ \A k \in Memory : b.mem[k] = IF k = kept THEN NUL
                                             ELSE IF k < kept THEN out[k + 1] ELSE JUNK
  <2>1. ret = Len(out) /\ b.mem = Terminated(out, n)
    BY <1>1, <1>7 DEF Buffered
  <2> QED  BY <1>4, <2>1 DEF Terminated, Filled
<1>8. ASSUME pc = "vsnprintf" \/ (pc = "done" /\ n < 1)
      PROVE  \A k \in Memory : b.mem[k] = JUNK
  BY <1>1, <1>8 DEF Buffered, Untouched
<1>9. ASSUME NEW k \in Memory, k >= n PROVE b.mem[k] = JUNK
  <2>1. k \in Int
    BY <1>3
  <2>2. CASE n >= 1
    <3>1. ~(k < kept) /\ k # kept
      BY <1>1, <1>5, <1>9, <2>1, <2>2
    <3> QED  BY <1>6, <1>7, <1>8, <2>2, <3>1 DEF Buffered
  <2>3. CASE ~(n >= 1)
    BY <1>8, <2>3, <1>1 DEF Buffered
  <2> QED  BY <2>2, <2>3
<1>10. ASSUME Returned
       PROVE  /\ ret = Len(out) /\ b.mem[kept] = NUL
              /\ \A k \in 0 .. kept - 1 : b.mem[k] = out[k + 1]
              /\ \A k \in Memory : k > kept => b.mem[k] = JUNK
  <2>1. /\ ret = Len(out) /\ n >= 1
        /\ \A k \in Memory : b.mem[k] = IF k = kept THEN NUL
                                        ELSE IF k < kept THEN out[k + 1] ELSE JUNK
    BY <1>7, <1>10 DEF Returned
  <2>2. kept \in Memory /\ (\A k \in 0 .. kept - 1 : k \in Memory) /\ kept \in Int
    BY <1>1, <1>3, <1>5, <2>1
  <2>3. \A k \in 0 .. kept - 1 : k # kept /\ k < kept
    BY <2>2
  <2>4. \A k \in Memory : k > kept => k # kept /\ ~(k < kept)
    BY <1>3, <2>2
  <2> QED  BY <2>1, <2>2, <2>3, <2>4
<1> QED  BY <1>5, <1>9, <1>10 DEF TruncatesAndTerminates

\* vsnprintf writes the characters of the output that leave room for the
\* terminator, then that, and no other place of the memory: for every format
\* and buffer size, and at every step of the call.  It returns the length that
\* the whole output has.
THEOREM SpecTruncatesAndTerminates == Spec => []TruncatesAndTerminates
<1>1. Init => Parsing /\ Buffered
  BY BufferedInit
<1>2. (Parsing /\ Buffered) /\ [Next]_vars => (Parsing /\ Buffered)'
  BY ParsingInductive, BufferedInductive
<1>3. Parsing /\ Buffered => TruncatesAndTerminates
  BY BufferedTruncates
<1> QED  BY <1>1, <1>2, <1>3, PTL DEF Spec
-----------------------------------------------------------------------------
(* What is printed: the pieces one after the other.                        *)

\* FirstArg and Says, for any format and arguments.
FirstOf(fm, k) ==
  LET first[j \in 1 .. Len(fm) + 1] ==
        IF j = 1 THEN 1 ELSE first[j - 1] + Takes(fm[j - 1])
  IN  first[k]
ArgsTaken(fm, as, k) == SubSeq(as, FirstOf(fm, k), FirstOf(fm, k + 1) - 1)
SaysOf(fm, as, k) ==
  IF fm[k].kind = "conversion" THEN Shows(fm[k], ArgsTaken(fm, as, k)) ELSE Spelled(fm[k])

\* o is what the first k pieces say.
Said(fm, as, k, o) ==
  /\ \A j \in 1 .. k : IsSequence(SaysOf(fm, as, j))
  /\ o = FlattenSeq([j \in 1 .. k |-> SaysOf(fm, as, j)])

Intended == \A k \in DOMAIN format : Numeric(format[k]) => format[k].pad # "-"

\* The stars among the first i characters.
StarsTo(cs, i) == Cardinality({k \in 1 .. i : cs[k] = "*"})

\* Between two characters: i of the k-th piece, no conversion, are printed.
TextAt(k, i) ==
  /\ k \in 1 .. Len(format) + 1 /\ i \in Nat /\ f = End(format, k - 1) + i + 1
  /\ IF i = 0
       THEN /\ Len(args) = FirstOf(format, k) - 1
            /\ Intended => Said(format, args, k - 1, out)
       ELSE /\ k <= Len(format) /\ format[k].kind # "conversion"
            /\ i < Len(Spelled(format[k]))
            /\ Len(args) = FirstOf(format, k + 1) - 1
            /\ Intended => \E o : /\ Said(format, args, k - 1, o) /\ IsSequence(o)
                                  /\ out = o \o SubSeq(Spelled(format[k]), 1, i)

\* The flags of a conversion of which i characters are read, for the
\* arguments a, b of the stars of its width and its precision.
Places(p) ==
  {1, AfterPad(p), AfterAlt(p), AfterWidth(p), AfterDot(p)} \cup AfterPrec(p) .. AfterLong(p)
WidthRead(p, i, w) ==
  IF i < AfterWidth(p) THEN -1
  ELSE IF p.prec # << >> /\ i >= AfterDot(p) /\ w < 0 THEN 0 ELSE w
FlagsRead(p, i, v, u, c, alt, w, prec, l) ==
  /\ i \in Places(p)
  /\ c = IF i >= AfterPad(p) THEN p.pad ELSE Blank
  /\ alt = (p.alt /\ i >= AfterAlt(p))
  /\ i >= AfterWidth(p) => Field(p.width, v) \in Int
  /\ w = WidthRead(p, i, Field(p.width, v))
  /\ prec = IF i < AfterPrec(p) THEN -1 ELSE Field(p.prec, u)
  /\ l = IF i < AfterPrec(p) THEN 0 ELSE i - AfterPrec(p)
Parsed(p, i, v, u) == FlagsRead(p, i, v, u, padc, altflag, width, precision, lflag)

\* How many arguments a conversion has taken.
Taken(p, i) ==
  (IF i < AfterWidth(p) THEN 0 ELSE Stars(p.width))
    + (IF i < AfterPrec(p) THEN 0 ELSE Stars(p.prec))

\* g arguments are taken since the pieces before the k-th took theirs.
TakenSo(k, g) == Len(args) = FirstOf(format, k) - 1 + g

\* In a sequence that begins with `%', of which i characters are read.
PieceAt(k, i) ==
  /\ k \in 1 .. Len(format) /\ i \in 1 .. Len(Spelled(format[k]))
  /\ f = End(format, k - 1) + i + 1
  /\ Intended => Said(format, args, k - 1, out)
  /\ \/ /\ format[k].kind = "unknown"
        /\ \A j \in 1 .. i - 1 : format[k].chars[j] \in Flag
        /\ TakenSo(k, StarsTo(format[k].chars, i - 1))
     \/ /\ format[k].kind = "conversion"
        /\ TakenSo(k, Taken(format[k], i))
        /\ Parsed(format[k], i, args[FirstOf(format, k)],
                  args[FirstOf(format, k) + Stars(format[k].width)])

Following ==
  /\ IsSequence(args)
  /\ pc \in {"vsnprintf", "text"} => \E k, i \in Nat : TextAt(k, i)
  /\ pc = "reswitch" => \E k, i \in Nat : PieceAt(k, i)
  /\ pc = "done" /\ n >= 1 /\ Intended => Said(format, args, Len(format), out)

LEMMA StarsNat ==
  ASSUME NEW cs, NEW i \in Nat
  PROVE  StarsTo(cs, i) \in Nat /\ IsFiniteSet({k \in 1 .. i : cs[k] = "*"})
<1> DEFINE T == {k \in 1 .. i : cs[k] = "*"}
<1>1. IsFiniteSet(1 .. i) /\ T \in SUBSET (1 .. i)
  BY FS_Interval
<1> HIDE DEF T
<1>2. IsFiniteSet(T)
  BY <1>1, FS_Subset
<1>3. Cardinality(T) \in Nat
  BY <1>2, FS_CardinalityType
<1> QED  BY <1>2, <1>3 DEF T, StarsTo

LEMMA StarsSame ==
  ASSUME NEW cs, NEW i \in Nat, NEW j \in Nat, i <= j, \A k \in i + 1 .. j : cs[k] # "*"
  PROVE  StarsTo(cs, j) = StarsTo(cs, i)
<1>1. \A k \in 1 .. j : cs[k] = "*" => k \in 1 .. i
  OBVIOUS
<1>2. \A k \in 1 .. i : k \in 1 .. j
  OBVIOUS
<1>3. {k \in 1 .. j : cs[k] = "*"} = {k \in 1 .. i : cs[k] = "*"}
  BY <1>1, <1>2
<1> QED  BY <1>3, Zenon DEF StarsTo

LEMMA StarsNext ==
  ASSUME NEW cs, NEW i \in Nat, cs[i + 1] = "*"
  PROVE  StarsTo(cs, i + 1) = StarsTo(cs, i) + 1
<1> DEFINE T == {k \in 1 .. i : cs[k] = "*"}
<1>1. IsFiniteSet(T)
  BY StarsNat
<1>2. i + 1 \notin T /\ {k \in 1 .. i + 1 : cs[k] = "*"} = T \cup {i + 1}
  OBVIOUS
<1>3. StarsTo(cs, i) = Cardinality(T)
  BY Zenon DEF StarsTo
<1>4. StarsTo(cs, i + 1) = Cardinality(T \cup {i + 1})
  BY <1>2, Zenon DEF StarsTo
<1> HIDE DEF T
<1>5. Cardinality(T \cup {i + 1}) = Cardinality(T) + 1
  BY <1>1, <1>2, FS_AddElement
<1> QED  BY <1>3, <1>4, <1>5

LEMMA StarsZero == ASSUME NEW cs PROVE StarsTo(cs, 0) = 0
<1>1. {k \in 1 .. 0 : cs[k] = "*"} = {}
  OBVIOUS
<1> QED  BY <1>1, FS_EmptySet, Zenon DEF StarsTo

LEMMA StarsIs ==
  ASSUME NEW cs, IsSequence(cs)
  PROVE  Stars(cs) = StarsTo(cs, Len(cs)) /\ Stars(cs) \in Nat /\ Len(cs) \in Nat
<1>1. Len(cs) \in Nat /\ DOMAIN cs = 1 .. Len(cs)
  BY DEF IsSequence
<1>2. Stars(cs) = StarsTo(cs, Len(cs))
  BY <1>1, Zenon DEF Stars, StarsTo
<1> QED  BY <1>1, <1>2, StarsNat

\* A number takes one argument or none.
LEMMA StarsNumber ==
  ASSUME NEW cs, IsNumber(cs)
  PROVE  /\ cs = <<"*">> => Stars(cs) = 1
         /\ cs # <<"*">> => Stars(cs) = 0 /\ cs \in Seq(Digit)
<1>1. "*" \notin Digit
  BY DEF Digit
<1>2. IsSequence(cs)
  BY NumberTyped DEF IsSequence
<1>3. Stars(cs) = StarsTo(cs, Len(cs)) /\ Len(cs) \in Nat
  BY <1>2, StarsIs
<1>4. CASE cs = <<"*">>
  <2>1. Len(cs) = 0 + 1 /\ cs[0 + 1] = "*" /\ 0 \in Nat
    BY <1>4
  <2>2. StarsTo(cs, 0 + 1) = StarsTo(cs, 0) + 1
    BY <2>1, StarsNext
  <2> QED  BY <1>3, <1>4, <2>1, <2>2, StarsZero
<1>5. CASE cs # <<"*">>
  <2>1. cs \in Seq(Digit)
    <3>1. << >> \in Seq(Digit)
      OBVIOUS
    <3>2. cs = << >> \/ cs \in Seq(Digit)
      BY <1>5, Zenon DEF IsNumber
    <3> QED  BY <3>1, <3>2, Zenon
  <2>2. \A k \in 0 + 1 .. Len(cs) : cs[k] # "*"
    BY <1>1, <2>1, ElementOfSeq
  <2>3. StarsTo(cs, Len(cs)) = StarsTo(cs, 0)
    BY <1>3, <2>2, StarsSame
  <2> QED  BY <1>3, <1>5, <2>1, <2>3, StarsZero
<1> QED  BY <1>4, <1>5

LEMMA TakesTyped ==
  ASSUME NEW p, NEW last, IsPiece(p, last)
  PROVE  Takes(p) \in Nat
<1>1. CASE p.kind = "conversion" /\ IsConversion(p)
  <2>1. Stars(p.width) \in Nat /\ Stars(p.prec) \in Nat
    BY <1>1, StarsNumber DEF IsConversion
  <2>2. Takes(p) = Stars(p.width) + Stars(p.prec) + (IF p.conv = "%" THEN 0 ELSE 1)
    BY <1>1 DEF Takes
  <2> QED  BY <2>1, <2>2
<1>2. CASE p.kind = "text"
  BY <1>2 DEF Takes
<1>3. CASE p.kind = "unknown" /\ p.chars \in Seq(FmtChar)
  <2>1. Stars(p.chars) \in Nat
    BY <1>3, StarsIs DEF IsSequence
  <2> QED  BY <1>3, <2>1 DEF Takes
<1> QED  BY <1>1, <1>2, <1>3, PieceKind

LEMMA FirstNext ==
  ASSUME NEW fm \in Formats
  PROVE  /\ FirstOf(fm, 1) = 1
         /\ \A k \in 1 .. Len(fm) :
              FirstOf(fm, k + 1) = FirstOf(fm, k) + Takes(fm[k]) /\ Takes(fm[k]) \in Nat
<1>1. Len(fm) \in Nat /\ \A k \in 1 .. Len(fm) : Takes(fm[k]) \in Nat
  BY FormatTyped, TakesTyped
<1>2. PICK step \in [Nat -> [Nat -> Nat]] :
        \A k \in 1 .. Len(fm) : \A v \in Nat : step[k][v] = v + Takes(fm[k])
  <2> DEFINE s == [k \in Nat |-> [v \in Nat |->
                     IF k \in 1 .. Len(fm) THEN v + Takes(fm[k]) ELSE 0]]
  <2>1. s \in [Nat -> [Nat -> Nat]]
    BY <1>1
  <2>2. \A k \in 1 .. Len(fm) : \A v \in Nat : s[k][v] = v + Takes(fm[k])
    BY <1>1
  <2> HIDE DEF s
  <2> QED  BY <2>1, <2>2
<1>3. PICK g0 : Solves(Nat, 1, step, g0)
  <2>1. 1 \in Nat
    OBVIOUS
  <2> QED  BY <2>1, Recursion
<1> DEFINE L == Len(fm) + 1
           g == [j \in 1 .. L |-> g0[j - 1]]
<1>4. g = [j \in 1 .. L |-> IF j = 1 THEN 1 ELSE g[j - 1] + Takes(fm[j - 1])]
  <2>1. ASSUME NEW j \in 1 .. L
        PROVE  g0[j - 1] = IF j = 1 THEN 1 ELSE g[j - 1] + Takes(fm[j - 1])
    <3>1. CASE j = 1
      BY <1>3, <3>1 DEF Solves
    <3>2. CASE j # 1
      <4>1. /\ j - 1 \in 1 .. L /\ j - 1 \in 1 .. Len(fm) /\ (j - 1) - 1 \in Nat
            /\ ((j - 1) - 1) + 1 = j - 1 /\ j - 1 \in Nat
        BY <1>1, <3>2
      <4>2. /\ g[j - 1] = g0[(j - 1) - 1] /\ g0[(j - 1) - 1] \in Nat
            /\ g0[j - 1] = step[j - 1][g0[(j - 1) - 1]]
        BY <1>3, <4>1 DEF Solves
      <4> HIDE DEF g, L
      <4> QED  BY <1>2, <3>2, <4>1, <4>2
    <3> QED  BY <3>1, <3>2
  <2> QED  BY <2>1
<1>5. PICK first :
        /\ first = [j \in 1 .. L |-> IF j = 1 THEN 1 ELSE first[j - 1] + Takes(fm[j - 1])]
        /\ \A k : FirstOf(fm, k) = first[k]
  <2> DEFINE r == CHOOSE h : h = [j \in 1 .. Len(fm) + 1 |->
                     IF j = 1 THEN 1 ELSE h[j - 1] + Takes(fm[j - 1])]
  <2>1. r = [j \in 1 .. L |-> IF j = 1 THEN 1 ELSE r[j - 1] + Takes(fm[j - 1])]
    BY <1>4
  <2>2. \A k : FirstOf(fm, k) = r[k]
    BY DEF FirstOf
  <2> HIDE DEF r
  <2> QED  BY <2>1, <2>2
<1>6. first[1] = 1
  BY <1>1, <1>5
<1>7. ASSUME NEW k \in 1 .. Len(fm) PROVE first[k + 1] = first[k] + Takes(fm[k])
  <2>1. k + 1 \in 1 .. L /\ k + 1 # 1 /\ (k + 1) - 1 = k
    BY <1>1
  <2> HIDE DEF L
  <2>2. first[k + 1] = IF k + 1 = 1 THEN 1 ELSE first[(k + 1) - 1] + Takes(fm[(k + 1) - 1])
    BY <1>5, <2>1
  <2> QED  BY <2>1, <2>2
<1> QED  BY <1>1, <1>5, <1>6, <1>7

\* What grows by naturals never falls.
LEMMA Grows ==
  ASSUME NEW L \in Nat, NEW g, g[1] \in Nat \ {0},
         \A k \in 1 .. L : \E t \in Nat : g[k + 1] = g[k] + t
  PROVE  \A k \in 1 .. L + 1 : g[k] \in Nat \ {0} /\ \A j \in 1 .. k : g[j] <= g[k]
<1> DEFINE P(m) == \A j \in 1 .. m : g[j] \in Nat \ {0} /\ g[j] <= g[m]
           S == {m \in Nat : m <= L => P(m + 1)}
<1>1. 0 \in S
  OBVIOUS
<1>2. ASSUME NEW m \in Nat, m \in S, m + 1 <= L PROVE P((m + 1) + 1)
  <2>1. m + 1 \in 1 .. L /\ m <= L /\ m + 1 \in 1 .. m + 1
    BY <1>2
  <2>2. P(m + 1)
    BY <1>2, <2>1
  <2>3. g[m + 1] \in Nat \ {0}
    BY <2>1, <2>2
  <2>4. PICK t \in Nat : g[(m + 1) + 1] = g[m + 1] + t
    BY <2>1
  <2>5. g[(m + 1) + 1] \in Nat \ {0} /\ g[m + 1] <= g[(m + 1) + 1]
    BY <2>3, <2>4
  <2>6. ASSUME NEW j \in 1 .. (m + 1) + 1
        PROVE  g[j] \in Nat \ {0} /\ g[j] <= g[(m + 1) + 1]
    <3>1. CASE j = (m + 1) + 1
      BY <2>5, <3>1
    <3>2. CASE j # (m + 1) + 1
      <4>1. j \in 1 .. m + 1
        BY <3>2
      <4>2. g[j] \in Nat \ {0} /\ g[j] <= g[m + 1]
        BY <2>2, <4>1
      <4> QED  BY <2>3, <2>5, <4>2
    <3> QED  BY <3>1, <3>2
  <2> QED  BY <2>6
<1>3. \A m \in Nat : m \in S => m + 1 \in S
  BY <1>2
<1>4. Nat \subseteq S
  <2> HIDE DEF S
  <2> QED  BY <1>1, <1>3, Induction
<1>5. ASSUME NEW k \in 1 .. L + 1 PROVE g[k] \in Nat \ {0} /\ \A j \in 1 .. k : g[j] <= g[k]
  <2>1. k - 1 \in Nat /\ k - 1 <= L /\ (k - 1) + 1 = k /\ k \in 1 .. k
    OBVIOUS
  <2>2. k - 1 \in S
    BY <1>4, <2>1
  <2>3. P(k)
    BY <2>1, <2>2
  <2> QED  BY <2>1, <2>3
<1> QED  BY <1>5

LEMMA FirstGrows ==
  ASSUME NEW fm \in Formats
  PROVE  /\ \A k \in 1 .. Len(fm) + 1 : FirstOf(fm, k) \in Nat \ {0}
         /\ \A k \in 1 .. Len(fm) + 1 : \A j \in 1 .. k : FirstOf(fm, j) <= FirstOf(fm, k)
<1>1. Len(fm) \in Nat
  BY FormatTyped
<1>2. PICK g : g = [k \in 1 .. Len(fm) + 1 |-> FirstOf(fm, k)]
  OBVIOUS
<1>3. \A k \in 1 .. Len(fm) + 1 : g[k] = FirstOf(fm, k)
  BY <1>2
<1>4. g[1] \in Nat \ {0}
  BY <1>1, <1>3, FirstNext
<1>5. ASSUME NEW k \in 1 .. Len(fm) PROVE \E t \in Nat : g[k + 1] = g[k] + t
  <2>1. k \in 1 .. Len(fm) + 1 /\ k + 1 \in 1 .. Len(fm) + 1
    BY <1>1
  <2> QED  BY <1>3, <2>1, FirstNext
<1>6. \A k \in 1 .. Len(fm) + 1 : g[k] \in Nat \ {0} /\ \A j \in 1 .. k : g[j] <= g[k]
  BY <1>1, <1>4, <1>5, Grows
<1>7. \A k \in 1 .. Len(fm) + 1 : \A j \in 1 .. k : j \in 1 .. Len(fm) + 1
  BY <1>1
<1> QED  BY <1>3, <1>6, <1>7
-----------------------------------------------------------------------------
(* A conversion puts what it says.                                         *)

\* Widths that pad alike: there is none to pad for if they are not positive.
Alike(i, j) == i = j \/ (i <= 0 /\ j <= 0)

LEMMA FieldTyped ==
  ASSUME NEW cs, IsNumber(cs), NEW a, cs = <<"*">> => a \in Int
  PROVE  Field(cs, a) \in Int
<1>1. CASE cs = << >>
  BY <1>1 DEF Field
<1>2. CASE cs = <<"*">>
  <2>1. cs # << >>
    BY <1>2
  <2> QED  BY <1>2, <2>1 DEF Field
<1>3. CASE cs # << >> /\ cs # <<"*">>
  <2>1. cs \in Seq(Digit)
    BY <1>3, StarsNumber
  <2>2. Value(cs) \in Nat
    BY <2>1, ValueTyped
  <2> QED  BY <1>3, <2>2 DEF Field
<1> QED  BY <1>1, <1>2, <1>3

LEMMA FieldSame ==
  ASSUME NEW cs, NEW a, NEW c, cs = <<"*">> => a = c
  PROVE  Field(cs, a) = Field(cs, c)
BY Zenon DEF Field

LEMMA PadsAlike ==
  ASSUME NEW c, NEW w \in Int, NEW w0 \in Int, Alike(w, w0), NEW l \in Nat
  PROVE  Pads(c, w - l) = Pads(c, w0 - l)
<1>1. CASE w = w0
  BY <1>1
<1>2. CASE w <= 0 /\ w0 <= 0
  <2>1. w - l \in Int /\ w - l <= 0 /\ w0 - l \in Int /\ w0 - l <= 0 /\ c \in {c}
    BY <1>2
  <2>2. Pads(c, w - l) = << >> /\ Pads(c, w0 - l) = << >>
    BY <2>1, PadsTyped
  <2> QED  BY <2>2
<1> QED  BY <1>1, <1>2 DEF Alike

LEMMA NumberSays ==
  ASSUME NEW base \in 2 .. 16, NEW m \in Nat, NEW w \in Int, NEW w0 \in Int, Alike(w, w0),
         NEW c, c # "-"
  PROVE  printnum(m, base, w, c) = InField(Numeral(m, base), w0, c)
<1> PICK s, l : s = Numeral(m, base) /\ l = Len(s)
  OBVIOUS
<1>1. l \in Nat
  BY NumeralTyped
<1>2. printnum(m, base, w, c) = Pads(c, w - l) \o s
  BY PrintnumIsNumeral
<1>3. InField(s, w0, c) = Pads(c, w0 - l) \o s
  BY DEF InField
<1>4. Pads(c, w - l) = Pads(c, w0 - l)
  BY <1>1, PadsAlike
<1> QED  BY <1>2, <1>3, <1>4

\* What a string says: the characters of it that the precision leaves.
Cut(s, prec) == IF prec < 0 THEN s ELSE SubSeq(s, 1, Min({prec, Len(s)}))
Shaded(s, alt) == [k \in DOMAIN s |-> IF alt /\ ~Visible(s[k]) THEN "?" ELSE s[k]]

LEMMA ShownIs ==
  ASSUME NEW s \in Seq(Char), NEW prec \in Int, NEW alt
  PROVE  ShownPart(s, prec, alt) = Shaded(Cut(s, prec), alt)
<1> PICK len : len = strnlen(s, prec)
  OBVIOUS
<1>1. /\ len = (IF prec < 0 \/ Len(s) <= prec THEN Len(s) ELSE prec)
      /\ len \in Nat /\ len <= Len(s) /\ Len(s) \in Nat
  <2>1. Len(s) \in Nat /\ len \in 0 .. Len(s)
    BY StrnlenTyped
  <2>2. len = IF prec < 0 \/ Len(s) <= prec THEN Len(s) ELSE prec
    BY StrnlenTyped, Zenon
  <2> QED  BY <2>1, <2>2
<1>2. PICK t : t = Cut(s, prec)
  OBVIOUS
<1>3. DOMAIN t = 1 .. len /\ \A k \in 1 .. len : t[k] = s[k]
  <2>1. CASE prec < 0
    <3>1. t = s /\ len = Len(s)
      BY <1>1, <1>2, <2>1 DEF Cut
    <3> QED  BY <3>1
  <2>2. CASE ~(prec < 0)
    <3>1. Min({prec, Len(s)}) = len
      <4>1. Min({prec, Len(s)}) = IF prec <= Len(s) THEN prec ELSE Len(s)
        BY <1>1, MinTwo
      <4> QED  BY <1>1, <2>2, <4>1
    <3>2. t = SubSeq(s, 1, len)
      BY <1>2, <2>2, <3>1 DEF Cut
    <3> QED  BY <1>1, <3>2
  <2> QED  BY <2>1, <2>2
<1>4. ShownPart(s, prec, alt) = [k \in 1 .. len |-> IF alt /\ ~Visible(s[k]) THEN "?" ELSE s[k]]
  BY Zenon DEF ShownPart
<1>5. Shaded(t, alt) = [k \in 1 .. len |-> IF alt /\ ~Visible(t[k]) THEN "?" ELSE t[k]]
  BY <1>3, Zenon DEF Shaded
<1>6. [k \in 1 .. len |-> IF alt /\ ~Visible(s[k]) THEN "?" ELSE s[k]]
      = [k \in 1 .. len |-> IF alt /\ ~Visible(t[k]) THEN "?" ELSE t[k]]
  BY <1>3
<1> QED  BY <1>2, <1>4, <1>5, <1>6

LEMMA EmptyJoined ==
  ASSUME NEW s, IsSequence(s)
  PROVE  s \o << >> = s /\ << >> \o s = s
BY DEF IsSequence

LEMMA StringSays ==
  ASSUME NEW s \in Seq(Char), NEW w \in Int, NEW w0 \in Int, Alike(w, w0), NEW prec \in Int,
         NEW c, NEW alt
  PROVE  StringPut(s, w, prec, c, alt) = InField(Shaded(Cut(s, prec), alt), w0, c)
<1> PICK t, l : t = ShownPart(s, prec, alt) /\ l = strnlen(s, prec)
  OBVIOUS
<1>1. l \in Nat /\ Len(t) = l /\ IsSequence(t)
  <2>1. l \in Nat
    BY StrnlenTyped
  <2>2. Len(t) = l /\ IsSequence(t)
    BY ShownTyped DEF IsSequence
  <2> QED  BY <2>1, <2>2
<1>2. t = Shaded(Cut(s, prec), alt)
  BY ShownIs
<1>3. StringPut(s, w, prec, c, alt)
        = Pads(c, IF w > 0 /\ c # "-" THEN w - l ELSE 0) \o t
            \o Pads(Blank, IF w > 0 /\ c # "-" THEN 0 ELSE w - l)
  BY Zenon DEF StringPut
<1>4. InField(t, w0, c) = IF c = "-" THEN t \o Pads(Blank, w0 - l) ELSE Pads(c, w0 - l) \o t
  BY <1>1, Zenon DEF InField
<1>5. Pads(c, w - l) = Pads(c, w0 - l) /\ Pads(Blank, w - l) = Pads(Blank, w0 - l)
  BY <1>1, PadsAlike
<1>6. \A x : Pads(x, 0) = << >>
  <2>1. ASSUME NEW x PROVE Pads(x, 0) = << >>
    <3>1. x \in {x} /\ 0 \in Int /\ 0 <= 0
      OBVIOUS
    <3> QED  BY <3>1, PadsTyped
  <2> QED  BY <2>1
<1>7. \A x : IsSequence(Pads(x, w - l))
  <2>1. ASSUME NEW x PROVE IsSequence(Pads(x, w - l))
    <3>1. x \in {x} /\ w - l \in Int
      BY <1>1
    <3>2. Pads(x, w - l) \in Seq({x})
      BY <3>1, PadsTyped
    <3> QED  BY <3>2 DEF IsSequence
  <2> QED  BY <2>1
<1>8. CASE w > 0 /\ c # "-"
  <2>1. StringPut(s, w, prec, c, alt) = Pads(c, w - l) \o t \o Pads(Blank, 0)
    BY <1>3, <1>8, Zenon
  <2>2. IsSequence(Pads(c, w - l) \o t)
    BY <1>1, <1>7, SequencesJoin
  <2>3. StringPut(s, w, prec, c, alt) = Pads(c, w - l) \o t
    BY <1>6, <2>1, <2>2, EmptyJoined
  <2> QED  BY <1>2, <1>4, <1>5, <1>8, <2>3, Zenon
<1>9. CASE ~(w > 0 /\ c # "-")
  <2>1. StringPut(s, w, prec, c, alt) = Pads(c, 0) \o t \o Pads(Blank, w - l)
    BY <1>3, <1>9, Zenon
  <2>2. StringPut(s, w, prec, c, alt) = t \o Pads(Blank, w - l)
    BY <1>1, <1>6, <2>1, EmptyJoined
  <2>3. CASE c = "-"
    BY <1>2, <1>4, <1>5, <2>2, <2>3, Zenon
  <2>4. CASE c # "-"
    <3>1. w - l <= 0 /\ w - l \in Int
      BY <1>1, <1>9, <2>4
    <3>2. Pads(Blank, w - l) = << >> /\ Pads(c, w - l) = << >>
      <4>1. Blank \in {Blank} /\ c \in {c}
        OBVIOUS
      <4> QED  BY <3>1, <4>1, PadsTyped
    <3>3. InField(t, w0, c) = << >> \o t
      BY <1>4, <1>5, <2>4, <3>2, Zenon
    <3> QED  BY <1>1, <1>2, <2>2, <3>2, <3>3, EmptyJoined
  <2> QED  BY <2>3, <2>4
<1> QED  BY <1>8, <1>9

\* What each conversion says for the arguments a, the last of them v.
LEMMA ShowsEach ==
  ASSUME NEW p, NEW a, NEW w, w = Field(p.width, a[1]),
         NEW cut, cut = Field(p.prec, a[Len(a) - 1]), NEW v, v = a[Len(a)]
  PROVE  /\ p.conv = "%" => Shows(p, a) = <<"%">>
         /\ p.conv = "c" => Shows(p, a) = <<v[1]>>
         /\ p.conv = "s" => Shows(p, a) = InField(Shaded(Cut(v, cut), p.alt), w, p.pad)
         /\ p.conv = "e" => Shows(p, a) =
              (IF v \in {-k : k \in 1 .. MAXERROR} \cup 1 .. MAXERROR
                 THEN <<"error_string">> ELSE <<"error">>)
              \o Numeral(IF v < 0 THEN -v ELSE v, 10)
         /\ p.conv = "d" => Shows(p, a) =
              IF Signed(v, p.long) < 0
                THEN <<"-">> \o InField(Numeral(-Signed(v, p.long), 10), w, p.pad)
                ELSE InField(Numeral(Signed(v, p.long), 10), w, p.pad)
         /\ p.conv = "p" => Shows(p, a) = <<"0", "x">> \o InField(Numeral(v, 16), w, p.pad)
         /\ p.conv \in DOMAIN Base =>
              Shows(p, a) = InField(Numeral(v, Base[p.conv]), w, p.pad)
<1>1. ASSUME p.conv = "%" PROVE Shows(p, a) = <<"%">>
  BY <1>1 DEF Shows
<1>2. ASSUME p.conv = "c" PROVE Shows(p, a) = <<v[1]>>
  BY <1>2 DEF Shows
<1>3. ASSUME p.conv = "s"
      PROVE  Shows(p, a) = InField(Shaded(Cut(v, cut), p.alt), w, p.pad)
  BY <1>3 DEF Shows, Shaded, Cut
<1>4. ASSUME p.conv = "e"
      PROVE  Shows(p, a) =
               (IF v \in {-k : k \in 1 .. MAXERROR} \cup 1 .. MAXERROR
                  THEN <<"error_string">> ELSE <<"error">>)
               \o Numeral(IF v < 0 THEN -v ELSE v, 10)
  BY <1>4 DEF Shows
<1>5. ASSUME p.conv = "d"
      PROVE  Shows(p, a) =
               IF Signed(v, p.long) < 0
                 THEN <<"-">> \o InField(Numeral(-Signed(v, p.long), 10), w, p.pad)
                 ELSE InField(Numeral(Signed(v, p.long), 10), w, p.pad)
  BY <1>5 DEF Shows
<1>6. ASSUME p.conv = "p"
      PROVE  Shows(p, a) = <<"0", "x">> \o InField(Numeral(v, 16), w, p.pad)
  BY <1>6 DEF Shows
<1>7. ASSUME p.conv \in DOMAIN Base
      PROVE  Shows(p, a) = InField(Numeral(v, Base[p.conv]), w, p.pad)
  <2>1. p.conv \notin {"%", "c", "s", "e", "d", "p"}
    BY <1>7 DEF Base
  <2> QED  BY <2>1 DEF Shows
<1> QED  BY <1>1, <1>2, <1>3, <1>4, <1>5, <1>6, <1>7
-----------------------------------------------------------------------------
(* What the pieces say, joined.                                            *)

LEMMA FlattenSequences ==
  ASSUME NEW k \in Nat, NEW F, \A j \in 1 .. k + 1 : IsSequence(F[j])
  PROVE  /\ IsSequence(FlattenSeq([j \in 1 .. k |-> F[j]]))
         /\ FlattenSeq([j \in 1 .. k + 1 |-> F[j]])
              = FlattenSeq([j \in 1 .. k |-> F[j]]) \o F[k + 1]
<1>1. PICK Y : \A j \in 1 .. k + 1 : F[j] \in Seq(Y[j])
  <2> DEFINE y == [j \in 1 .. k + 1 |-> CHOOSE X : F[j] \in Seq(X)]
  <2>1. ASSUME NEW j \in 1 .. k + 1 PROVE F[j] \in Seq(y[j])
    <3>1. y[j] = CHOOSE X : F[j] \in Seq(X)
      OBVIOUS
    <3>2. \E X : F[j] \in Seq(X)
      BY DEF IsSequence
    <3> HIDE DEF y
    <3> QED  BY <3>1, <3>2, Zenon
  <2> HIDE DEF y
  <2> QED  BY <2>1
<1>2. PICK X : X = UNION {Y[j] : j \in 1 .. k + 1}
  OBVIOUS
<1>3. ASSUME NEW j \in 1 .. k + 1 PROVE F[j] \in Seq(X)
  <2>1. Y[j] \subseteq X
    BY <1>2
  <2> QED  BY <1>1, <2>1, SeqMonotonic
<1> DEFINE G == [j \in 1 .. k + 1 |-> F[j]]
<1>4. G \in [1 .. k + 1 -> Seq(X)]
  BY <1>3
<1>5. /\ [j \in 1 .. k |-> G[j]] = [j \in 1 .. k |-> F[j]]
      /\ [j \in 1 .. k + 1 |-> G[j]] = [j \in 1 .. k + 1 |-> F[j]]
      /\ G[k + 1] = F[k + 1]
  OBVIOUS
<1> HIDE DEF G
<1>6. /\ FlattenSeq([j \in 1 .. k |-> G[j]]) \in Seq(X)
      /\ FlattenSeq([j \in 1 .. k + 1 |-> G[j]]) = FlattenSeq([j \in 1 .. k |-> G[j]]) \o G[k + 1]
  BY <1>4, FlattenNext
<1> QED  BY <1>5, <1>6, Zenon DEF IsSequence

LEMMA SaidNothing == ASSUME NEW fm, NEW as PROVE Said(fm, as, 0, << >>)
<1>1. [j \in 1 .. 0 |-> SaysOf(fm, as, j)] = << >>
  OBVIOUS
<1>2. \A j \in 1 .. 0 : IsSequence(SaysOf(fm, as, j))
  OBVIOUS
<1> QED  BY <1>1, <1>2, FlattenEmpty, Zenon DEF Said

LEMMA SaidNext ==
  ASSUME NEW fm, NEW as, NEW k \in Nat, NEW o, Said(fm, as, k, o),
         NEW s, s = SaysOf(fm, as, k + 1), IsSequence(s)
  PROVE  Said(fm, as, k + 1, o \o s)
<1>1. PICK F : F = [j \in 1 .. k + 1 |-> SaysOf(fm, as, j)]
  OBVIOUS
<1>2. \A j \in 1 .. k + 1 : IsSequence(SaysOf(fm, as, j))
  <2>1. \A j \in 1 .. k + 1 : j \in 1 .. k \/ j = k + 1
    OBVIOUS
  <2> QED  BY <2>1, Zenon DEF Said
<1>3. \A j \in 1 .. k + 1 : F[j] = SaysOf(fm, as, j)
  BY <1>1
<1>4. \A j \in 1 .. k : F[j] = SaysOf(fm, as, j)
  <2>1. \A j \in 1 .. k : j \in 1 .. k + 1
    OBVIOUS
  <2> QED  BY <1>3, <2>1, Zenon
<1>5. \A j \in 1 .. k + 1 : IsSequence(F[j])
  BY <1>2, <1>3, Zenon
<1>6. FlattenSeq([j \in 1 .. k + 1 |-> F[j]]) = FlattenSeq([j \in 1 .. k |-> F[j]]) \o F[k + 1]
  BY <1>5, FlattenSequences
<1>7. /\ [j \in 1 .. k |-> F[j]] = [j \in 1 .. k |-> SaysOf(fm, as, j)]
      /\ [j \in 1 .. k + 1 |-> F[j]] = [j \in 1 .. k + 1 |-> SaysOf(fm, as, j)]
  BY <1>3, <1>4
<1>8. F[k + 1] = s
  <2>1. k + 1 \in 1 .. k + 1
    OBVIOUS
  <2> QED  BY <1>3, <2>1
<1>9. o = FlattenSeq([j \in 1 .. k |-> SaysOf(fm, as, j)])
  BY Zenon DEF Said
<1> QED  BY <1>2, <1>6, <1>7, <1>8, <1>9, Zenon DEF Said

\* The same arguments, of pieces that say the same, make the same said.
LEMMA SaidAlike ==
  ASSUME NEW fm, NEW as, NEW bs, NEW k \in Nat, NEW o, Said(fm, as, k, o),
         \A j \in 1 .. k : ArgsTaken(fm, as, j) = ArgsTaken(fm, bs, j)
  PROVE  Said(fm, bs, k, o)
<1>1. \A j \in 1 .. k : SaysOf(fm, as, j) = SaysOf(fm, bs, j)
  BY Zenon DEF SaysOf
<1>2. [j \in 1 .. k |-> SaysOf(fm, as, j)] = [j \in 1 .. k |-> SaysOf(fm, bs, j)]
  BY <1>1
<1> QED  BY <1>1, <1>2, Zenon DEF Said

LEMMA SubSeqAlike ==
  ASSUME NEW s, IsSequence(s), NEW t, IsSequence(t), Len(s) <= Len(t),
         \A e \in 1 .. Len(s) : t[e] = s[e],
         NEW i \in Nat \ {0}, NEW h \in Nat, i <= h + 1, h <= Len(s)
  PROVE  SubSeq(s, i, h) = SubSeq(t, i, h)
<1>1. PICK X : s \in Seq(X)
  BY DEF IsSequence
<1>2. PICK Y : t \in Seq(Y)
  BY DEF IsSequence
<1>3. /\ i \in 1 .. Len(s) + 1 /\ h \in i - 1 .. Len(s)
      /\ i \in 1 .. Len(t) + 1 /\ h \in i - 1 .. Len(t)
  BY <1>1, <1>2
<1>4. /\ SubSeq(s, i, h) \in Seq(X) /\ Len(SubSeq(s, i, h)) = h - i + 1
      /\ \A e \in 1 .. h - i + 1 : SubSeq(s, i, h)[e] = s[i + e - 1]
  BY <1>1, <1>3, SubSeqProperties
<1>5. /\ SubSeq(t, i, h) \in Seq(Y) /\ Len(SubSeq(t, i, h)) = h - i + 1
      /\ \A e \in 1 .. h - i + 1 : SubSeq(t, i, h)[e] = t[i + e - 1]
  BY <1>2, <1>3, SubSeqProperties
<1>6. \A e \in 1 .. h - i + 1 : i + e - 1 \in 1 .. Len(s)
  BY <1>1
<1>7. \A e \in 1 .. h - i + 1 : SubSeq(s, i, h)[e] = SubSeq(t, i, h)[e]
  BY <1>4, <1>5, <1>6
<1> QED  BY <1>4, <1>5, <1>7, SeqEqual

LEMMA BelowBelow ==
  ASSUME NEW i \in Nat \ {0}, NEW h \in Nat, NEW g \in Nat, NEW l \in Nat,
         i <= h, h <= g, g - 1 <= l
  PROVE  h - 1 \in Nat /\ i <= (h - 1) + 1 /\ h - 1 <= l
OBVIOUS

LEMMA ConcatBegins ==
  ASSUME NEW s, IsSequence(s), NEW t, IsSequence(t), NEW u, u = s \o t
  PROVE  \A e \in 1 .. Len(s) : u[e] = s[e]
<1>1. PICK l, c : l = Len(s) /\ c = Len(t)
  OBVIOUS
<1>2. l \in Nat /\ c \in Nat /\ \A e \in 1 .. l + c : u[e] = IF e <= l THEN s[e] ELSE t[e - l]
  BY <1>1, SequencesJoin
<1> HIDE <1>1
<1>3. \A e \in 1 .. l : e \in 1 .. l + c /\ e <= l
  BY <1>2
<1> QED  BY <1>1, <1>2, <1>3

\* Arguments that later pieces take change nothing of what is said.
LEMMA SaidKept ==
  ASSUME NEW fm \in Formats, NEW as, IsSequence(as), NEW a, IsSequence(a),
         NEW k \in 0 .. Len(fm), NEW o, Said(fm, as, k, o), FirstOf(fm, k + 1) - 1 <= Len(as)
  PROVE  Said(fm, as \o a, k, o)
<1>1. k \in Nat /\ Len(fm) \in Nat
  BY FormatTyped
<1>2. Len(as) \in Nat /\ Len(a) \in Nat /\ Len(as \o a) = Len(as) + Len(a) /\ IsSequence(as \o a)
  BY SequencesJoin
<1>3. PICK t, l : t = as \o a /\ l = Len(as)
  OBVIOUS
<1>4. /\ IsSequence(t) /\ l \in Nat /\ l <= Len(t) /\ FirstOf(fm, k + 1) - 1 <= l
      /\ \A e \in 1 .. Len(as) : t[e] = as[e]
  <2>1. IsSequence(t) /\ l \in Nat /\ FirstOf(fm, k + 1) - 1 <= l
    BY <1>2, <1>3
  <2>2. l <= Len(t)
    <3>1. Len(t) = l + Len(a) /\ l \in Nat /\ Len(a) \in Nat
      BY <1>2, <1>3
    <3> QED  BY <3>1
  <2>3. \A e \in 1 .. Len(as) : t[e] = as[e]
    BY <1>3, ConcatBegins
  <2> QED  BY <2>1, <2>2, <2>3
<1>5. ASSUME NEW j \in 1 .. k
      PROVE  ArgsTaken(fm, as, j) = ArgsTaken(fm, t, j)
  <2>1. j \in 1 .. Len(fm) + 1 /\ j + 1 \in 1 .. Len(fm) + 1 /\ k + 1 \in 1 .. Len(fm) + 1
        /\ j + 1 \in 1 .. k + 1 /\ j \in 1 .. j + 1
    BY <1>1
  <2>2. PICK i, h, g : i = FirstOf(fm, j) /\ h = FirstOf(fm, j + 1) /\ g = FirstOf(fm, k + 1)
    OBVIOUS
  <2>3. i \in Nat \ {0} /\ h \in Nat /\ g \in Nat /\ i <= h /\ h <= g /\ g - 1 <= l
    BY <1>4, <2>1, <2>2, FirstGrows
  <2>4. h - 1 \in Nat /\ i <= (h - 1) + 1 /\ h - 1 <= l
    BY <1>4, <2>3, BelowBelow
  <2>5. SubSeq(as, i, h - 1) = SubSeq(t, i, h - 1)
    BY <1>3, <1>4, <2>3, <2>4, SubSeqAlike
  <2> QED  BY <2>2, <2>5, Zenon DEF ArgsTaken
<1> QED  BY <1>1, <1>3, <1>5, SaidAlike
-----------------------------------------------------------------------------
(* A conversion, with its arguments.                                       *)

LEMMA Appended ==
  ASSUME NEW s, IsSequence(s), NEW v
  PROVE  /\ Len(s) \in Nat /\ IsSequence(s \o <<v>>) /\ Len(s \o <<v>>) = Len(s) + 1
         /\ (s \o <<v>>)[Len(s) + 1] = v
         /\ \A e \in 1 .. Len(s) : (s \o <<v>>)[e] = s[e]
<1>1. PICK t, l : t = s \o <<v>> /\ l = Len(s)
  OBVIOUS
<1>2. /\ l \in Nat /\ IsSequence(t) /\ Len(t) = l + 1
      /\ \A i \in 1 .. l + 1 : t[i] = IF i <= l THEN s[i] ELSE <<v>>[i - l]
  <2>1. IsSequence(<<v>>) /\ Len(<<v>>) = 1
    BY Singleton
  <2> PICK c : c = <<v>>
    OBVIOUS
  <2>2. /\ Len(s) \in Nat /\ IsSequence(t) /\ Len(t) = Len(s) + Len(c)
        /\ \A i \in 1 .. Len(s) + Len(c) : t[i] = IF i <= Len(s) THEN s[i] ELSE c[i - Len(s)]
    BY <1>1, <2>1, SequencesJoin
  <2> QED  BY <1>1, <2>1, <2>2
<1>3. l + 1 \in 1 .. l + 1 /\ ~(l + 1 <= l) /\ (l + 1) - l = 1 /\ <<v>>[1] = v
  BY <1>2
<1>4. \A e \in 1 .. l : e \in 1 .. l + 1 /\ e <= l
  BY <1>2
<1> QED  BY <1>1, <1>2, <1>3, <1>4

\* The last arguments: those of the stars, of which there are i and j, and v.
EndsIn(as, m, i, j) ==
  /\ m \in Nat \ {0} /\ i \in {0, 1} /\ j \in {0, 1}
  /\ IsSequence(as) /\ Len(as) = m - 1 + i + j
LastAre(as, m, i, j, v, a) ==
  /\ a[Len(a)] = v
  /\ i = 1 => a[1] = as[m]
  /\ j = 1 => a[Len(a) - 1] = as[m + i]

LEMMA LastArgs ==
  ASSUME NEW as, NEW m, NEW i, NEW j, EndsIn(as, m, i, j), NEW v,
         NEW a, a = SubSeq(as \o <<v>>, m, m + i + j)
  PROVE  Len(as \o <<v>>) = m + i + j /\ LastAre(as, m, i, j, v, a)
<1>1. m \in Nat \ {0} /\ i \in {0, 1} /\ j \in {0, 1} /\ IsSequence(as)
  BY DEF EndsIn
<1>2. PICK n1, l, t : n1 = m + i + j /\ l = Len(as) /\ t = as \o <<v>>
  OBVIOUS
<1>3. l = m - 1 + i + j
  BY <1>2 DEF EndsIn
<1>4. n1 = m + i + j
  BY <1>2
<1>5. l \in Nat /\ n1 = l + 1 /\ n1 \in Int /\ m \in Int /\ m <= n1 /\ n1 - m + 1 = i + j + 1
  BY <1>1, <1>3, <1>4
<1>6. IsSequence(t) /\ Len(t) = l + 1 /\ t[l + 1] = v /\ \A e \in 1 .. l : t[e] = as[e]
  <2>1. /\ IsSequence(as \o <<v>>) /\ Len(as \o <<v>>) = Len(as) + 1
        /\ (as \o <<v>>)[Len(as) + 1] = v
        /\ \A e \in 1 .. Len(as) : (as \o <<v>>)[e] = as[e]
    BY <1>1, Appended, ZenonT(60)
  <2> QED  BY <1>2, <2>1, Zenon
<1>7. /\ Len(a) = i + j + 1
      /\ \A e \in 1 .. i + j + 1 : a[e] = t[m + e - 1]
  <2>1. PICK X : t \in Seq(X)
    BY <1>6 DEF IsSequence
  <2>2. \A e \in m .. n1 : t[e] \in X
    <3>1. \A e \in m .. n1 : e \in 1 .. l + 1
      BY <1>1, <1>5
    <3> QED  BY <1>6, <2>1, <3>1, ElementOfSeq
  <2>3. /\ Len(SubSeq(t, m, n1)) = IF m <= n1 THEN n1 - m + 1 ELSE 0
        /\ \A e \in 1 .. n1 - m + 1 : SubSeq(t, m, n1)[e] = t[m + e - 1]
    BY <1>5, <2>2, SubSeqProperties
  <2>4. a = SubSeq(t, m, n1)
    BY <1>2, Zenon
  <2> QED  BY <1>5, <2>3, <2>4
<1>8. a[i + j + 1] = v
  <2>1. i + j + 1 \in 1 .. i + j + 1 /\ m + (i + j + 1) - 1 = l + 1
    BY <1>1, <1>3
  <2>2. a[i + j + 1] = t[m + (i + j + 1) - 1]
    BY <1>7, <2>1
  <2> QED  BY <1>6, <2>1, <2>2
<1>9. ASSUME i = 1 PROVE a[1] = as[m]
  <2>1. 1 \in 1 .. i + j + 1 /\ m + 1 - 1 = m /\ m \in 1 .. l
    BY <1>1, <1>3, <1>9
  <2> QED  BY <1>6, <1>7, <2>1
<1>10. ASSUME j = 1 PROVE a[i + j] = as[m + i]
  <2>1. i + j \in 1 .. i + j + 1 /\ m + (i + j) - 1 = m + i /\ m + i \in 1 .. l
    BY <1>1, <1>3, <1>10
  <2>2. a[i + j] = t[m + (i + j) - 1]
    BY <1>7, <2>1
  <2> QED  BY <1>6, <2>1, <2>2
<1>11. Len(a) = i + j + 1 /\ Len(a) - 1 = i + j
  <2>1. PICK g, h : g = i + j /\ h = Len(a)
    OBVIOUS
  <2>2. g \in Nat
    BY <1>1, <2>1
  <2>3. h = g + 1
    BY <1>7, <2>1
  <2>4. h - 1 = g
    BY <2>2, <2>3
  <2> QED  BY <2>1, <2>3, <2>4
<1>12. Len(t) = n1
  BY <1>5, <1>6
<1>13. LastAre(as, m, i, j, v, a)
  BY <1>8, <1>9, <1>10, <1>11, Zenon DEF LastAre
<1> QED  BY <1>2, <1>12, <1>13

\* The places of the arguments of a conversion, of which v is the last.
ArgsReady(fm, k, as, m, sw, sp) ==
  /\ fm \in Formats /\ k \in 1 .. Len(fm) /\ IsConversion(fm[k])
  /\ fm[k].kind = "conversion" /\ fm[k].conv # "%" /\ IsSequence(as)
  /\ m = FirstOf(fm, k) /\ sw = Stars(fm[k].width) /\ sp = Stars(fm[k].prec)
  /\ Len(as) = m - 1 + sw + sp
ArgsPlaced(p, as, m, sw, v, a) ==
  /\ a[Len(a)] = v
  /\ p.width = <<"*">> => a[1] = as[m]
  /\ p.prec = <<"*">> => a[Len(a) - 1] = as[m + sw]

LEMMA ConversionArgs ==
  ASSUME NEW fm, NEW k, NEW as, NEW m, NEW sw, NEW sp, ArgsReady(fm, k, as, m, sw, sp), NEW v,
         NEW a, a = ArgsTaken(fm, as \o <<v>>, k)
  PROVE  /\ Len(as \o <<v>>) = FirstOf(fm, k + 1) - 1
         /\ ArgsPlaced(fm[k], as, m, sw, v, a)
<1>1. PICK p :
        /\ p = fm[k]
        /\ fm \in Formats /\ k \in 1 .. Len(fm) /\ IsConversion(p)
        /\ p.kind = "conversion" /\ p.conv # "%" /\ IsSequence(as)
        /\ m = FirstOf(fm, k) /\ sw = Stars(p.width) /\ sp = Stars(p.prec)
        /\ Len(as) = m - 1 + sw + sp
  BY DEF ArgsReady
<1>2. /\ sw \in {0, 1} /\ sp \in {0, 1}
      /\ p.width = <<"*">> => sw = 1
      /\ p.prec = <<"*">> => sp = 1
  BY <1>1, StarsNumber DEF IsConversion
<1>3. m \in Nat \ {0}
  <2>1. k \in 1 .. Len(fm) + 1
    BY <1>1, FormatTyped
  <2> QED  BY <1>1, <2>1, FirstGrows
<1>4. FirstOf(fm, k + 1) - 1 = m + sw + sp
  <2>1. Takes(p) = sw + sp + 1
    BY <1>1 DEF Takes
  <2>2. FirstOf(fm, k + 1) = m + (sw + sp + 1)
    BY <1>1, <2>1, FirstNext
  <2> QED  BY <1>2, <1>3, <2>2
<1>5. a = SubSeq(as \o <<v>>, m, m + sw + sp)
  BY <1>1, <1>4, Zenon DEF ArgsTaken
<1>6. /\ Len(as \o <<v>>) = m + sw + sp
      /\ a[Len(a)] = v
      /\ sw = 1 => a[1] = as[m]
      /\ sp = 1 => a[Len(a) - 1] = as[m + sw]
  <2>1. EndsIn(as, m, sw, sp)
    BY <1>1, <1>2, <1>3 DEF EndsIn
  <2>2. Len(as \o <<v>>) = m + sw + sp /\ LastAre(as, m, sw, sp, v, a)
    BY <1>5, <2>1, LastArgs
  <2> QED  BY <2>2, Zenon DEF LastAre
<1> QED  BY <1>1, <1>2, <1>4, <1>6, Zenon DEF ArgsPlaced

\* What is put is what the conversion shows.
ShownWith(p, a, w, cut) ==
  /\ w \in Int /\ Field(p.width, a[1]) \in Int /\ Alike(w, Field(p.width, a[1]))
  /\ cut \in Int /\ cut = Field(p.prec, a[Len(a) - 1])

LEMMA ConversionSays ==
  ASSUME NEW p, IsConversion(p), p.kind = "conversion", Numeric(p) => p.pad # "-",
         p.conv # "%", NEW a, NEW v, v = a[Len(a)], Suits(p.conv, p.long, v),
         NEW w1, NEW cut, ShownWith(p, a, w1, cut)
  PROVE  Shows(p, a) = PutBy(p.conv, v, w1, cut, p.long, p.pad, p.alt)
<1>1. PICK w :
        /\ w = Field(p.width, a[1])
        /\ w \in Int /\ w1 \in Int /\ Alike(w1, w)
        /\ cut \in Int /\ cut = Field(p.prec, a[Len(a) - 1])
  BY DEF ShownWith
<1>2. p.conv \in DOMAIN Base \cup {"d", "p"} => p.pad # "-"
  BY DEF Numeric
<1>3. w \in Int /\ w1 \in Int /\ Alike(w1, w)
  BY <1>1
<1>4. \A c \in DOMAIN Base : Base[c] \in 2 .. 16
  BY DEF Base
<1>5. ASSUME p.conv = "s", v \in Seq(Char)
      PROVE  Shows(p, a) = StringPut(v, w1, cut, p.pad, p.alt)
  <2>1. Shows(p, a) = InField(Shaded(Cut(v, cut), p.alt), w, p.pad)
    BY <1>1, <1>5, ShowsEach
  <2>2. StringPut(v, w1, cut, p.pad, p.alt) = InField(Shaded(Cut(v, cut), p.alt), w, p.pad)
    BY <1>1, <1>5, StringSays
  <2> QED  BY <2>1, <2>2
<1>6. ASSUME p.conv = "e", v \in Int PROVE Shows(p, a) = ErrorPut(v)
  <2>1. PICK err : err = IF v < 0 THEN -v ELSE v
    OBVIOUS
  <2>2. err \in Nat /\ 10 \in 2 .. 16 /\ -1 \in Int
    BY <1>6, <2>1
  <2>3. Alike(-1, -1)
    BY Zenon DEF Alike
  <2>4. printnum(err, 10, -1, Blank) = Numeral(err, 10)
    <3>1. printnum(err, 10, -1, Blank) = InField(Numeral(err, 10), -1, Blank)
      BY <2>3, <2>2, BlankDiffers, NumberSays
    <3> PICK s, l : s = Numeral(err, 10) /\ l = Len(s)
      OBVIOUS
    <3>2. l \in Nat /\ IsSequence(s)
      <4>1. s \in Seq(Hex)
        BY <2>2, NumeralTyped
      <4> QED  BY <4>1 DEF IsSequence
    <3>3. Pads(Blank, -1 - l) = << >>
      <4>1. -1 - l \in Int /\ -1 - l <= 0 /\ Blank \in {Blank}
        BY <3>2
      <4> QED  BY <4>1, PadsTyped
    <3>4. InField(s, -1, Blank) = Pads(Blank, -1 - l) \o s
      BY BlankDiffers DEF InField
    <3> QED  BY <3>1, <3>2, <3>3, <3>4, EmptyJoined
  <2>5. v \in {-k : k \in 1 .. MAXERROR} \cup 1 .. MAXERROR <=> ~(err > MAXERROR \/ err = 0)
    <3>1. v \in {-k : k \in 1 .. MAXERROR} <=> -v \in 1 .. MAXERROR
      <4>1. ASSUME -v \in 1 .. MAXERROR PROVE v \in {-k : k \in 1 .. MAXERROR}
        <5>1. v = -(-v)
          BY <1>6
        <5> QED  BY <4>1, <5>1
      <4>2. ASSUME NEW k \in 1 .. MAXERROR, v = -k PROVE -v \in 1 .. MAXERROR
        BY <4>2
      <4> QED  BY <4>1, <4>2
    <3>2. (-v \in 1 .. MAXERROR \/ v \in 1 .. MAXERROR) <=> ~(err > MAXERROR \/ err = 0)
      BY <1>6, <2>1, PrintFmtAssumption
    <3> QED  BY <3>1, <3>2
  <2>6. Shows(p, a) =
          (IF v \in {-k : k \in 1 .. MAXERROR} \cup 1 .. MAXERROR
             THEN <<"error_string">> ELSE <<"error">>) \o Numeral(err, 10)
    BY <1>1, <1>6, <2>1, ShowsEach, ZenonT(60)
  <2>7. ErrorPut(v) = IF err > MAXERROR \/ err = 0
                        THEN <<"error">> \o printnum(err, 10, -1, Blank)
                        ELSE <<"error_string">> \o printnum(err, 10, -1, Blank)
    BY <2>1, Zenon DEF ErrorPut
  <2> QED  BY <2>4, <2>5, <2>6, <2>7, Zenon
<1>7. ASSUME p.conv = "d", v \in ArgOf(p.long)
      PROVE  Shows(p, a) = DecimalPut(v, p.long, w1, p.pad)
  <2>1. PICK i, j : i = Signed(v, p.long) /\ j = Magnitude(v, p.long)
    OBVIOUS
  <2>2. i \in Int /\ j \in Nat /\ j = (IF i < 0 THEN -i ELSE i)
        /\ (Negative(v, p.long) <=> i < 0)
    <3>1. p.long \in Nat
      BY DEF IsConversion
    <3> QED  BY <1>7, <2>1, <3>1, SignExtends
  <2>3. printnum(j, 10, w1, p.pad) = InField(Numeral(j, 10), w, p.pad)
    <3>1. 10 \in 2 .. 16 /\ p.pad # "-"
      BY <1>2, <1>7
    <3> QED  BY <1>3, <2>2, <3>1, NumberSays
  <2>4. DecimalPut(v, p.long, w1, p.pad)
          = (IF Negative(v, p.long) THEN <<"-">> ELSE << >>) \o printnum(j, 10, w1, p.pad)
    BY <2>1, Zenon DEF DecimalPut
  <2>5. Shows(p, a) = IF i < 0 THEN <<"-">> \o InField(Numeral(-i, 10), w, p.pad)
                      ELSE InField(Numeral(i, 10), w, p.pad)
    BY <1>1, <1>7, <2>1, ShowsEach
  <2>6. CASE i < 0
    <3>1. Shows(p, a) = <<"-">> \o InField(Numeral(-i, 10), w, p.pad)
      BY <2>5, <2>6, Zenon
    <3>2. DecimalPut(v, p.long, w1, p.pad) = <<"-">> \o printnum(j, 10, w1, p.pad)
      BY <2>2, <2>4, <2>6, Zenon
    <3>3. -i = j
      BY <2>2, <2>6
    <3> QED  BY <2>3, <3>1, <3>2, <3>3, Zenon
  <2>7. CASE ~(i < 0)
    <3>1. Shows(p, a) = InField(Numeral(i, 10), w, p.pad)
      BY <2>5, <2>7, Zenon
    <3>2. DecimalPut(v, p.long, w1, p.pad) = << >> \o printnum(j, 10, w1, p.pad)
      BY <2>2, <2>4, <2>7, Zenon
    <3>3. i = j
      BY <2>2, <2>7
    <3>4. IsSequence(printnum(j, 10, w1, p.pad))
      <4>1. 10 \in 2 .. 16
        OBVIOUS
      <4> QED  BY <1>3, <2>2, <4>1, PrintnumTyped
    <3>5. << >> \o printnum(j, 10, w1, p.pad) = printnum(j, 10, w1, p.pad)
      BY <3>4, EmptyJoined
    <3> QED  BY <2>3, <3>1, <3>2, <3>3, <3>5, Zenon
  <2> QED  BY <2>6, <2>7
<1>8. ASSUME p.conv = "p", v \in Nat
      PROVE  Shows(p, a) = <<"0", "x">> \o printnum(v, 16, w1, p.pad)
  <2>1. Shows(p, a) = <<"0", "x">> \o InField(Numeral(v, 16), w, p.pad)
    BY <1>1, <1>8, ShowsEach, SMTT(60)
  <2>2. 16 \in 2 .. 16 /\ p.pad # "-"
    BY <1>2, <1>8
  <2>3. printnum(v, 16, w1, p.pad) = InField(Numeral(v, 16), w, p.pad)
    BY <1>8, <1>3, <2>2, NumberSays
  <2> QED  BY <2>1, <2>3, Zenon
<1>9. ASSUME p.conv \in DOMAIN Base, v \in Nat
      PROVE  Shows(p, a) = printnum(getuint(v, p.long), Base[p.conv], w1, p.pad)
  <2>1. Shows(p, a) = InField(Numeral(v, Base[p.conv]), w, p.pad)
    BY <1>1, <1>9, ShowsEach
  <2>2. Base[p.conv] \in 2 .. 16 /\ p.pad # "-"
    <3>1. Base[p.conv] \in 2 .. 16
      BY <1>9, <1>4, Zenon
    <3> QED  BY <1>2, <1>9, <3>1
  <2>3. printnum(v, Base[p.conv], w1, p.pad) = InField(Numeral(v, Base[p.conv]), w, p.pad)
    <3>1. PICK base, c : base = Base[p.conv] /\ c = p.pad
      OBVIOUS
    <3>2. base \in 2 .. 16 /\ c # "-"
      BY <2>2, <3>1
    <3>3. printnum(v, base, w1, c) = InField(Numeral(v, base), w, c)
      BY <1>9, <1>3, <3>2, NumberSays
    <3> QED  BY <3>1, <3>3, Zenon
  <2> QED  BY <2>1, <2>3, Zenon DEF getuint
<1>10. p.conv = "c" => Shows(p, a) = <<v[1]>>
  BY ShowsEach
<1>11. PICK o : o = PutBy(p.conv, v, w1, cut, p.long, p.pad, p.alt)
  OBVIOUS
<1>12. /\ p.conv = "c" => o = <<v[1]>>
       /\ p.conv = "e" => o = ErrorPut(v)
       /\ p.conv = "s" => o = StringPut(v, w1, cut, p.pad, p.alt)
       /\ p.conv = "d" => o = DecimalPut(v, p.long, w1, p.pad)
       /\ p.conv = "p" => o = <<"0", "x">> \o printnum(v, 16, w1, p.pad)
       /\ p.conv \in DOMAIN Base => o = printnum(getuint(v, p.long), Base[p.conv], w1, p.pad)
  BY <1>11, PutEach
<1>13. p.conv \in {"c", "e", "s", "d", "p"} \cup DOMAIN Base
  BY DEF IsConversion, Conversions
<1>14. /\ p.conv = "e" => v \in Int
       /\ p.conv = "s" => v \in Seq(Char)
       /\ p.conv = "d" => v \in ArgOf(p.long)
       /\ p.conv \in {"p"} \cup DOMAIN Base => v \in Nat
  BY DEF Suits
<1>15. /\ p.conv = "p" => v \in Nat
       /\ p.conv \in DOMAIN Base => v \in Nat
  BY <1>14
<1>16. CASE p.conv \in DOMAIN Base
  BY <1>9, <1>11, <1>12, <1>15, <1>16, Zenon
<1>17. CASE p.conv \in {"c", "e"}
  BY <1>6, <1>10, <1>11, <1>12, <1>14, <1>17, Zenon
<1>18. CASE p.conv \in {"s", "d"}
  BY <1>5, <1>7, <1>11, <1>12, <1>14, <1>18, Zenon
<1>19. CASE p.conv = "p"
  BY <1>8, <1>11, <1>12, <1>15, <1>19, Zenon
<1> QED  BY <1>13, <1>16, <1>17, <1>18, <1>19
-----------------------------------------------------------------------------
(* The characters that the parser meets.                                   *)

LEMMA CharacterAt ==
  ASSUME Parsing, NEW k \in 1 .. Len(format), NEW i \in Nat, i < Len(Spelled(format[k])),
         f = End(format, k - 1) + i + 1
  PROVE  fmt[f] = Spelled(format[k])[i + 1] /\ f = End(format, k - 1) + (i + 1)
<1>1. format \in Formats /\ fmt = Whole(format)
  BY DEF Parsing
<1>2. Len(Spelled(format[k])) \in Nat
  BY <1>1, FormatTyped, PieceSpelled
<1>3. i + 1 \in 1 .. Len(Spelled(format[k]))
  BY <1>2
<1>4. Whole(format)[End(format, k - 1) + (i + 1)] = Spelled(format[k])[i + 1]
  BY <1>1, <1>3, WholeAt
<1>5. End(format, k - 1) \in Nat
  <2>1. k - 1 \in 0 .. Len(format)
    BY <1>1, FormatTyped
  <2> QED  BY <1>1, <2>1, EndNext
<1>6. f = End(format, k - 1) + (i + 1)
  <2>1. PICK e : e = End(format, k - 1)
    OBVIOUS
  <2> QED  BY <1>5, <2>1
<1> QED  BY <1>1, <1>4, <1>6

LEMMA LastCharacter ==
  ASSUME Parsing
  PROVE  /\ Len(format) \in Nat /\ End(format, Len(format)) \in Nat
         /\ fmt[End(format, Len(format)) + 1] = NUL
         /\ Len(fmt) = End(format, Len(format)) + 1
BY FormatTyped, WholeIs DEF Parsing

LEMMA FlagsDiffer ==
  /\ "%" \notin Flag /\ Flag \cap Conversions = {} /\ "*" \in Flag
  /\ Digit \subseteq Flag /\ "*" \notin Digit /\ NUL \notin Flag /\ NUL # "%"
  /\ Conversions \subseteq Known /\ Flag \subseteq Known /\ "%" \in Conversions
<1>1. NUL \notin Flag /\ NUL # "%"
  BY NulDiffers DEF Known
<1> QED  BY <1>1 DEF Flag, Digit, Conversions, Base, Known

LEMMA TextSpelled ==
  ASSUME NEW p, NEW last, IsPiece(p, last), p.kind = "text"
  PROVE  /\ Spelled(p) = p.chars /\ IsSequence(p.chars) /\ Len(p.chars) \in Nat \ {0}
         /\ \A j \in 1 .. Len(p.chars) : p.chars[j] \notin {"%", NUL}
<1>1. Spelled(p) = p.chars /\ p.chars # << >> /\ p.chars \in Seq(Char \ {"%", NUL})
  BY PieceKind
<1> QED  BY <1>1, ElementOfSeq DEF IsSequence

\* Where the flags of an unknown sequence end, it has no more characters, or
\* one that is none of the known.
LEMMA UnknownSpelled ==
  ASSUME NEW p, NEW last, IsPiece(p, last), p.kind = "unknown"
  PROVE  /\ IsSequence(p.chars) /\ Len(p.chars) \in Nat
         /\ IsSequence(Spelled(p)) /\ Len(Spelled(p)) = Len(p.chars) + 1
         /\ Spelled(p)[1] = "%"
         /\ \A j \in 1 .. Len(p.chars) :
              /\ Spelled(p)[j + 1] = p.chars[j]
              /\ p.chars[j] \notin {"%", NUL} /\ p.chars[j] \notin Conversions
              /\ p.chars[j] \in Flag \/ (j = Len(p.chars) /\ p.chars[j] \notin Known)
         /\ \/ last
            \/ Len(p.chars) # 0 /\ p.chars[Len(p.chars)] \notin Known
<1> PICK cs, l : cs = p.chars /\ l = Len(p.chars)
  OBVIOUS
<1>1. /\ Spelled(p) = <<"%">> \o cs /\ cs \in Seq(FmtChar)
      /\ \A i \in 1 .. l - 1 : cs[i] \in Flag
      /\ \/ cs # << >> /\ Last(cs) \notin Known \cup {NUL}
         \/ cs \in Seq(Flag) /\ last
  BY PieceKind
<1>2. l \in Nat /\ (l = 0 <=> cs = << >>) /\ Last(cs) = cs[l]
  BY <1>1 DEF Last
<1>3. ASSUME NEW j \in 1 .. l
      PROVE  \/ cs[j] \in Flag
             \/ j = l /\ cs[j] \notin Known \cup {NUL}
  <2>1. CASE j = l
    <3>1. CASE cs # << >> /\ Last(cs) \notin Known \cup {NUL}
      BY <1>2, <2>1, <3>1
    <3>2. CASE cs \in Seq(Flag)
      BY <1>2, <2>1, <3>2, ElementOfSeq
    <3> QED  BY <1>1, <3>1, <3>2
  <2>2. CASE j # l
    <3>1. j \in 1 .. l - 1
      BY <1>2, <2>2
    <3> QED  BY <1>1, <3>1
  <2> QED  BY <2>1, <2>2
<1>4. ASSUME NEW j \in 1 .. l
      PROVE  /\ cs[j] \notin {"%", NUL} /\ cs[j] \notin Conversions
             /\ cs[j] \in Flag \/ (j = l /\ cs[j] \notin Known)
  BY <1>3, <1>4, FlagsDiffer
<1>5. <<"%">> \in Seq(FmtChar) /\ Len(<<"%">>) = 1 /\ <<"%">>[1] = "%"
  BY DEF FmtChar, Known, Conversions
<1>6. Joined(FmtChar, <<"%">>, 1, cs, l, Spelled(p))
  BY <1>1, <1>5, ConcatAt
<1>7. /\ Spelled(p) \in Seq(FmtChar) /\ Len(Spelled(p)) = 1 + l
      /\ Spelled(p)[1] = "%"
      /\ \A j \in 1 .. l : Spelled(p)[1 + j] = cs[j]
  <2>1. 1 \in 1 .. 1
    OBVIOUS
  <2> QED  BY <1>5, <1>6, <2>1 DEF Joined
<1>8. \A j \in 1 .. l : 1 + j = j + 1
  BY <1>2
<1>9. \/ last
      \/ l # 0 /\ cs[l] \notin Known
  BY <1>1, <1>2
<1>10. 1 + l = l + 1
  BY <1>2
<1> QED  BY <1>1, <1>2, <1>4, <1>7, <1>8, <1>9, <1>10 DEF IsSequence

\* What the parser meets between two conversions.
LEMMA TextMeets ==
  ASSUME Parsing, NEW k, NEW i, TextAt(k, i)
  PROVE  \/ k = Len(format) + 1 /\ i = 0 /\ fmt[f] = NUL
         \/ /\ k \in 1 .. Len(format) /\ i \in Nat /\ i < Len(Spelled(format[k]))
            /\ fmt[f] = Spelled(format[k])[i + 1] /\ fmt[f] # NUL
            /\ \/ format[k].kind = "conversion" /\ IsConversion(format[k]) /\ i = 0 /\ fmt[f] = "%"
               \/ format[k].kind = "unknown" /\ i = 0 /\ fmt[f] = "%"
               \/ format[k].kind = "unknown" /\ i # 0 /\ fmt[f] # "%"
               \/ format[k].kind = "text" /\ fmt[f] # "%"
<1>1. format \in Formats /\ Len(format) \in Nat
  BY FormatTyped DEF Parsing
<1>2. k \in 1 .. Len(format) + 1 /\ i \in Nat /\ f = End(format, k - 1) + i + 1
      /\ (i # 0 => k <= Len(format) /\ format[k].kind # "conversion"
                   /\ i < Len(Spelled(format[k])))
  BY DEF TextAt
<1>3. CASE k = Len(format) + 1
  <2>1. i = 0 /\ k - 1 = Len(format)
    BY <1>1, <1>2, <1>3
  <2>2. PICK e : e = End(format, Len(format)) /\ e \in Nat
    BY LastCharacter
  <2>3. f = e + 1
    BY <1>2, <2>1, <2>2
  <2> QED  BY <1>3, <2>1, <2>2, <2>3, LastCharacter
<1>4. CASE k # Len(format) + 1
  <2>1. k \in 1 .. Len(format)
    BY <1>1, <1>2, <1>4
  <2>2. IsPiece(format[k], k = Len(format)) /\ Len(Spelled(format[k])) \in Nat \ {0}
    BY <1>1, <2>1, FormatTyped, PieceSpelled
  <2>3. i < Len(Spelled(format[k])) /\ i + 1 \in 1 .. Len(Spelled(format[k]))
    BY <1>2, <2>2
  <2>4. fmt[f] = Spelled(format[k])[i + 1]
    BY <1>2, <2>1, <2>3, CharacterAt
  <2>5. CASE format[k].kind = "conversion" /\ IsConversion(format[k])
    <3>1. i = 0
      BY <1>2, <2>5
    <3>2. fmt[f] = "%"
      BY <2>4, <2>5, <3>1, ConversionSpelled
    <3> QED  BY <1>2, <2>1, <2>3, <2>4, <2>5, <3>1, <3>2, FlagsDiffer
  <2>6. CASE format[k].kind = "text"
    <3>1. fmt[f] \notin {"%", NUL}
      BY <2>2, <2>3, <2>4, <2>6, TextSpelled
    <3> QED  BY <1>2, <2>1, <2>3, <2>4, <2>6, <3>1
  <2>7. CASE format[k].kind = "unknown"
    <3>1. CASE i = 0
      <4>1. fmt[f] = "%"
        BY <2>2, <2>4, <2>7, <3>1, UnknownSpelled
      <4> QED  BY <1>2, <2>1, <2>3, <2>4, <2>7, <3>1, <4>1, FlagsDiffer
    <3>2. CASE i # 0
      <4>1. Len(Spelled(format[k])) = Len(format[k].chars) + 1 /\ Len(format[k].chars) \in Nat
        BY <2>2, <2>7, UnknownSpelled
      <4>2. i \in 1 .. Len(format[k].chars)
        BY <1>2, <2>3, <3>2, <4>1
      <4>3. fmt[f] \notin {"%", NUL}
        BY <2>2, <2>4, <2>7, <4>2, UnknownSpelled
      <4> QED  BY <1>2, <2>1, <2>3, <2>4, <2>7, <3>2, <4>3
    <3> QED  BY <3>1, <3>2
  <2>8. \/ format[k].kind = "conversion" /\ IsConversion(format[k])
        \/ format[k].kind = "text" \/ format[k].kind = "unknown"
    BY <2>2, PieceKind
  <2> QED  BY <2>5, <2>6, <2>7, <2>8
<1> QED  BY <1>3, <1>4

\* One more character of s, behind o.
LEMMA JoinedOn ==
  ASSUME NEW o, IsSequence(o), NEW X, NEW s \in Seq(X), NEW i \in Nat, i + 1 \in 1 .. Len(s)
  PROVE  (o \o SubSeq(s, 1, i)) \o <<s[i + 1]>> = o \o SubSeq(s, 1, i + 1)
<1>1. PICK Y : o \in Seq(Y)
  BY DEF IsSequence
<1>2. PICK Z : Z = X \cup Y
  OBVIOUS
<1>3. o \in Seq(Z) /\ s \in Seq(Z)
  BY <1>1, <1>2, SeqMonotonic
<1>4. PICK t, c : t = SubSeq(s, 1, i) /\ c = <<s[i + 1]>>
  OBVIOUS
<1>5. t \in Seq(Z) /\ c \in Seq(Z)
  BY <1>3, <1>4
<1>6. t \o c = SubSeq(s, 1, i + 1)
  BY <1>3, <1>4
<1>7. (o \o t) \o c = o \o (t \o c)
  BY <1>3, <1>5, ConcatAssociative, SMTT(60)
<1> QED  BY <1>4, <1>6, <1>7

\* The numbers that tell the places of a conversion.
LEMMA Offsets ==
  ASSUME NEW p, IsConversion(p)
  PROVE  \E w, q, l \in Nat :
           /\ w = Len(p.width) /\ q = Len(p.prec) /\ l = p.long
           /\ (w = 0 <=> p.width = << >>) /\ (q = 0 <=> p.prec = << >>)
           /\ AfterPad(p) = (IF p.pad = Blank THEN 1 ELSE 2)
           /\ AfterAlt(p) = AfterPad(p) + (IF p.alt THEN 1 ELSE 0)
           /\ AfterWidth(p) = AfterAlt(p) + w
           /\ AfterDot(p) = AfterWidth(p) + (IF q = 0 THEN 0 ELSE 1)
           /\ AfterPrec(p) = AfterDot(p) + q
           /\ AfterLong(p) = AfterPrec(p) + l
<1>1. /\ p.width \in Seq(Digit \cup {"*"}) /\ p.prec \in Seq(Digit \cup {"*"})
      /\ p.long \in Nat
  BY NumberTyped DEF IsConversion
<1> PICK w, q, l : w = Len(p.width) /\ q = Len(p.prec) /\ l = p.long
  OBVIOUS
<1>2. /\ w \in Nat /\ q \in Nat /\ l \in Nat
      /\ (w = 0 <=> p.width = << >>) /\ (q = 0 <=> p.prec = << >>)
  BY <1>1
<1>3. /\ AfterPad(p) = (IF p.pad = Blank THEN 1 ELSE 2)
      /\ AfterAlt(p) = AfterPad(p) + (IF p.alt THEN 1 ELSE 0)
      /\ AfterWidth(p) = AfterAlt(p) + w
      /\ AfterDot(p) = AfterWidth(p) + (IF q = 0 THEN 0 ELSE 1)
      /\ AfterPrec(p) = AfterDot(p) + q
      /\ AfterLong(p) = AfterPrec(p) + l
  BY <1>2, Zenon DEF AfterPad, AfterAlt, AfterWidth, AfterDot, AfterPrec, AfterLong
<1> QED  BY <1>2, <1>3

LEMMA FieldEmpty == ASSUME NEW a PROVE Field(<< >>, a) = -1
BY DEF Field

\* Behind the `%' no flag is set, and none of those that the piece leaves out.
LEMMA ReadStart ==
  ASSUME NEW p, IsConversion(p), NEW v, NEW u
  PROVE  FlagsRead(p, 1, v, u, Blank, FALSE, -1, -1, 0) /\ Taken(p, 1) = 0
<1>1. PICK fw, fp : fw = Field(p.width, v) /\ fp = Field(p.prec, u)
  OBVIOUS
<1>2. PICK w, q, l \in Nat :
           /\ (w = 0 <=> p.width = << >>) /\ (q = 0 <=> p.prec = << >>)
           /\ AfterPad(p) = (IF p.pad = Blank THEN 1 ELSE 2)
           /\ AfterAlt(p) = AfterPad(p) + (IF p.alt THEN 1 ELSE 0)
           /\ AfterWidth(p) = AfterAlt(p) + w
           /\ AfterDot(p) = AfterWidth(p) + (IF q = 0 THEN 0 ELSE 1)
           /\ AfterPrec(p) = AfterDot(p) + q
           /\ AfterLong(p) = AfterPrec(p) + l
  BY Offsets
<1>3. (p.width = << >> => fw = -1) /\ (p.prec = << >> => fp = -1)
  BY <1>1, FieldEmpty
<1>4. 1 \in Places(p)
  BY DEF Places
<1>5. FlagsRead(p, 1, v, u, Blank, FALSE, -1, -1, 0)
  <2>1. Blank = IF 1 >= AfterPad(p) THEN p.pad ELSE Blank
    BY <1>2
  <2>2. FALSE = (p.alt /\ 1 >= AfterAlt(p))
    BY <1>2
  <2>3. (1 >= AfterWidth(p) => fw \in Int)
        /\ -1 = IF 1 < AfterWidth(p) THEN -1
               ELSE IF p.prec # << >> /\ 1 >= AfterDot(p) /\ fw < 0 THEN 0 ELSE fw
    BY <1>2, <1>3
  <2>4. -1 = (IF 1 < AfterPrec(p) THEN -1 ELSE fp)
    BY <1>2, <1>3
  <2>5. 0 = (IF 1 < AfterPrec(p) THEN 0 ELSE 1 - AfterPrec(p))
    BY <1>2
  <2> QED  BY <1>1, <1>4, <2>1, <2>2, <2>3, <2>4, <2>5, Zenon DEF FlagsRead, WidthRead
<1>6. Taken(p, 1) = 0
  <2>1. 1 >= AfterWidth(p) => p.width = << >>
    BY <1>2
  <2>2. 1 >= AfterPrec(p) => p.prec = << >>
    BY <1>2
  <2>3. Stars(<< >>) = 0
    <3>1. IsNumber(<< >>) /\ << >> # <<"*">>
      BY DEF IsNumber
    <3> QED  BY <3>1, StarsNumber
  <2>4. AfterWidth(p) \in Nat /\ AfterPrec(p) \in Nat
    BY OffsetsTyped
  <2> QED  BY <2>1, <2>2, <2>3, <2>4 DEF Taken
<1> QED  BY <1>5, <1>6
-----------------------------------------------------------------------------
(* What the parser has read and printed, step by step: text.               *)

LEMMA IntendedSame == ASSUME format' = format PROVE Intended' <=> Intended
BY DEF Intended

\* When i characters of a piece that is no conversion are printed.
LEMMA Advance ==
  ASSUME Parsing, format' = format, NEW k \in 1 .. Len(format),
         format[k].kind # "conversion", NEW i \in 1 .. Len(Spelled(format[k])),
         f' = End(format, k - 1) + i + 1, Len(args') = FirstOf(format, k + 1) - 1,
         Intended => \E o : /\ Said(format, args', k - 1, o) /\ IsSequence(o)
                            /\ out' = o \o SubSeq(Spelled(format[k]), 1, i)
  PROVE  (\E h, j \in Nat : TextAt(h, j))'
<1>1. format \in Formats /\ Len(format) \in Nat
  BY FormatTyped DEF Parsing
<1>2. Intended' => Intended
  BY IntendedSame
<1>3. CASE i < Len(Spelled(format[k]))
  <2>1. TextAt(k, i)'
    <3>1. k \in 1 .. Len(format) + 1 /\ i \in Nat /\ i # 0 /\ k <= Len(format)
      BY <1>1
    <3> QED  BY <1>2, <1>3, <3>1, Zenon DEF TextAt
  <2>2. k \in Nat /\ i \in Nat
    OBVIOUS
  <2> QED  BY <2>1, <2>2
<1>4. CASE ~(i < Len(Spelled(format[k])))
  <2>1. Spelled(format[k]) \in Seq(FmtChar) /\ Len(Spelled(format[k])) \in Nat
    BY <1>1, FormatTyped, PieceSpelled
  <2>2. i = Len(Spelled(format[k]))
    BY <1>4, <2>1
  <2>3. SubSeq(Spelled(format[k]), 1, i) = Spelled(format[k])
    BY <2>1, <2>2
  <2>4. k + 1 \in 1 .. Len(format) + 1 /\ 0 \in Nat /\ (k + 1) - 1 = k /\ (k - 1) + 1 = k
        /\ k - 1 \in Nat /\ k - 1 \in 0 .. Len(format)
    BY <1>1
  <2>5. f' = End(format, (k + 1) - 1) + 0 + 1
    <3>1. End(format, k) = End(format, k - 1) + Len(Spelled(format[k])) /\ End(format, k - 1) \in Nat
      BY <1>1, <2>4, EndNext
    <3>2. PICK e, l : e = End(format, k - 1) /\ l = Len(Spelled(format[k]))
      OBVIOUS
    <3>3. e \in Nat /\ l \in Nat /\ End(format, (k + 1) - 1) = e + l /\ f' = e + l + 1
      BY <2>1, <2>2, <2>4, <3>1, <3>2
    <3>4. e + l + 1 = (e + l) + 0 + 1
      BY <3>3
    <3> QED  BY <3>3, <3>4, Zenon
  <2>6. Intended => Said(format, args', (k + 1) - 1, out')
    <3> SUFFICES ASSUME Intended PROVE Said(format, args', (k - 1) + 1, out')
      BY <2>4
    <3>1. PICK o : Said(format, args', k - 1, o) /\ out' = o \o Spelled(format[k])
      BY <2>3
    <3>2. Spelled(format[k]) = SaysOf(format, args', (k - 1) + 1)
      BY <2>4, Zenon DEF SaysOf
    <3>3. IsSequence(Spelled(format[k]))
      BY <2>1 DEF IsSequence
    <3> QED  BY <2>4, <3>1, <3>2, <3>3, SaidNext
  <2>7. TextAt(k + 1, 0)'
    <3>1. Len(args') = FirstOf(format, k + 1) - 1
      OBVIOUS
    <3> QED  BY <1>2, <2>4, <2>5, <2>6, <3>1, Zenon DEF TextAt
  <2>8. k + 1 \in Nat
    OBVIOUS
  <2> QED  BY <2>4, <2>7, <2>8, Zenon
<1> QED  BY <1>3, <1>4

LEMMA FollowingInit ==
  ASSUME Init
  PROVE  Following
<1>1. format \in Formats /\ Len(format) \in Nat
  BY FormatTyped DEF Init
<1>2. TextAt(1, 0)
  <2>1. 1 \in 1 .. Len(format) + 1 /\ 0 \in Nat /\ 1 - 1 = 0
    BY <1>1
  <2>2. End(format, 0) = 0 /\ FirstOf(format, 1) = 1
    BY <1>1, EndNext, FirstNext
  <2>3. f = End(format, 1 - 1) + 0 + 1
    BY <2>2 DEF Init
  <2>4. Len(args) = FirstOf(format, 1) - 1
    BY <2>2 DEF Init
  <2>5. Said(format, args, 1 - 1, out)
    BY <2>1, SaidNothing DEF Init
  <2> QED  BY <2>1, <2>3, <2>4, <2>5, Zenon DEF TextAt
<1>3. IsSequence(args)
  <2>1. << >> \in Seq({})
    OBVIOUS
  <2> QED  BY <2>1 DEF Init, IsSequence
<1>4. pc = "vsnprintf" /\ 1 \in Nat /\ 0 \in Nat
  BY DEF Init
<1> QED  BY <1>2, <1>3, <1>4 DEF Following

\* The pieces may be read on by what does not belong to a conversion.
LEMMA TextSteps ==
  ASSUME Parsing, Buffered, Following, NEW k, NEW i, TextAt(k, i), pc = "text"
  PROVE  /\ literal => (\E h, j \in Nat : TextAt(h, j))'
         /\ finish /\ Intended => Said(format, args, Len(format), out)
         /\ escape => PieceAt(k, 1)'
<1>1. format \in Formats /\ Len(format) \in Nat
  BY FormatTyped DEF Parsing
<1>2. IsSequence(out)
  BY DEF Buffered
<1>3. ASSUME literal PROVE (\E h, j \in Nat : TextAt(h, j))'
  <2>1. fmt[f] \notin {"%", NUL} /\ out' = out \o <<fmt[f]>> /\ f' = f + 1
        /\ UNCHANGED <<format, args>>
    BY <1>3 DEF literal, Put, call
  <2>2. /\ k \in 1 .. Len(format) /\ i \in Nat /\ i < Len(Spelled(format[k]))
        /\ fmt[f] = Spelled(format[k])[i + 1]
        /\ \/ format[k].kind = "unknown" /\ i # 0
           \/ format[k].kind = "text"
    BY <2>1, TextMeets
  <2>3. PICK s : s = Spelled(format[k])
    OBVIOUS
  <2>4. s \in Seq(FmtChar) /\ Len(s) \in Nat
    BY <1>1, <2>2, <2>3, FormatTyped, PieceSpelled
  <2>5. i + 1 \in 1 .. Len(s)
    BY <2>2, <2>3, <2>4
  <2>6. f' = End(format, k - 1) + (i + 1) + 1
    <3>1. f = End(format, k - 1) + (i + 1)
      <4>1. f = End(format, k - 1) + i + 1
        BY DEF TextAt
      <4> QED  BY <2>2, <4>1, CharacterAt
    <3> QED  BY <2>1, <3>1
  <2>7. Len(args) = FirstOf(format, k + 1) - 1
    <3>1. CASE i = 0
      <4>1. Takes(format[k]) = 0
        BY <2>2, <3>1 DEF Takes
      <4>2. FirstOf(format, k + 1) = FirstOf(format, k) + 0 /\ FirstOf(format, k) \in Nat
        <5>1. k \in 1 .. Len(format) + 1
          BY <1>1, <2>2
        <5> QED  BY <1>1, <2>2, <4>1, <5>1, FirstNext, FirstGrows
      <4>3. FirstOf(format, k + 1) = FirstOf(format, k)
        BY <4>2
      <4> QED  BY <3>1, <4>3 DEF TextAt
    <3>2. CASE i # 0
      BY <3>2 DEF TextAt
    <3> QED  BY <3>1, <3>2
  <2>8. ASSUME Intended
        PROVE  \E o : Said(format, args, k - 1, o) /\ IsSequence(o)
                      /\ out' = o \o SubSeq(s, 1, i + 1)
    <3>1. PICK o : Said(format, args, k - 1, o) /\ IsSequence(o)
                   /\ out = o \o SubSeq(s, 1, i)
      <4>1. CASE i = 0
        <5>1. Said(format, args, k - 1, out)
          BY <2>8, <4>1 DEF TextAt
        <5>2. SubSeq(s, 1, i) = << >>
          BY <2>4, <4>1
        <5>3. out = out \o SubSeq(s, 1, i)
          BY <1>2, <5>2, EmptyJoined
        <5> QED  BY <1>2, <5>1, <5>3
      <4>2. CASE i # 0
        BY <2>3, <2>8, <4>2 DEF TextAt
      <4> QED  BY <4>1, <4>2
    <3>2. out' = (o \o SubSeq(s, 1, i)) \o <<s[i + 1]>>
      BY <2>1, <2>2, <2>3, <3>1
    <3>3. out' = o \o SubSeq(s, 1, i + 1)
      BY <2>2, <2>4, <2>5, <3>1, <3>2, JoinedOn
    <3> QED  BY <3>1, <3>3
  <2>9. i + 1 \in 1 .. Len(Spelled(format[k])) /\ format[k].kind # "conversion"
    BY <2>2, <2>3, <2>5
  <2> QED  BY <2>1, <2>2, <2>3, <2>6, <2>7, <2>8, <2>9, Advance
<1>4. ASSUME finish, Intended PROVE Said(format, args, Len(format), out)
  <2>1. fmt[f] = NUL
    BY <1>4 DEF finish
  <2>2. k = Len(format) + 1 /\ i = 0
    BY <2>1, TextMeets
  <2>3. Said(format, args, k - 1, out)
    BY <1>4, <2>2 DEF TextAt
  <2>4. k - 1 = Len(format)
    BY <1>1, <2>2
  <2> QED  BY <2>3, <2>4
<1>5. ASSUME escape PROVE PieceAt(k, 1)'
  <2>1. fmt[f] = "%" /\ f' = f + 1 /\ UNCHANGED <<format, args, out>>
        /\ padc' = Blank /\ width' = -1 /\ precision' = -1 /\ lflag' = 0 /\ altflag' = FALSE
    BY <1>5 DEF escape, call
  <2>2. /\ k \in 1 .. Len(format) /\ i = 0 /\ 0 < Len(Spelled(format[k]))
        /\ \/ format[k].kind = "unknown"
           \/ format[k].kind = "conversion" /\ IsConversion(format[k])
    BY <2>1, FlagsDiffer, TextMeets
  <2>3. f = End(format, k - 1) + 0 + 1 /\ Len(args) = FirstOf(format, k) - 1
        /\ (Intended => Said(format, args, k - 1, out))
    BY <2>2 DEF TextAt
  <2>4. f' = End(format, k - 1) + 1 + 1
    <3>1. f = End(format, k - 1) + (0 + 1)
      BY <2>2, <2>3, CharacterAt
    <3> QED  BY <2>1, <3>1
  <2>5. 1 \in 1 .. Len(Spelled(format[k])) /\ 1 - 1 = 0
    <3>1. Len(Spelled(format[k])) \in Nat
      BY <1>1, <2>2, FormatTyped, PieceSpelled
    <3> QED  BY <2>2, <3>1
  <2>6. FirstOf(format, k) \in Nat \ {0}
    <3>1. k \in 1 .. Len(format) + 1
      BY <1>1, <2>2
    <3> QED  BY <1>1, <3>1, FirstGrows
  <2>7. Intended' => Said(format, args, k - 1, out)
    BY <2>1, <2>3, IntendedSame
  <2>8. CASE format[k].kind = "unknown"
    <3>1. TakenSo(k, StarsTo(format[k].chars, 1 - 1))'
      BY <2>1, <2>3, <2>5, <2>6, StarsZero DEF TakenSo
    <3>2. \A j \in 1 .. 1 - 1 : format[k].chars[j] \in Flag
      OBVIOUS
    <3> QED  BY <2>1, <2>2, <2>4, <2>5, <2>7, <2>8, <3>1, <3>2, Zenon DEF PieceAt
  <2>9. CASE format[k].kind = "conversion" /\ IsConversion(format[k])
    <3>1. PICK p : p = format[k]
      OBVIOUS
    <3>2. Parsed(p, 1, args[FirstOf(format, k)], args[FirstOf(format, k) + Stars(p.width)])'
      <4>1. \A v, u : FlagsRead(p, 1, v, u, Blank, FALSE, -1, -1, 0)
        BY <2>9, <3>1, ReadStart
      <4>2. \A v, u : FlagsRead(p, 1, v, u, padc', altflag', width', precision', lflag')
        BY <2>1, <4>1
      <4> QED  BY <4>2 DEF Parsed
    <3>3. Taken(p, 1) = 0
      BY <2>9, <3>1, ReadStart
    <3>4. TakenSo(k, Taken(p, 1))'
      BY <2>1, <2>3, <2>6, <3>3 DEF TakenSo
    <3> QED  BY <2>1, <2>2, <2>4, <2>5, <2>7, <2>9, <3>1, <3>2, <3>4, Zenon DEF PieceAt
  <2> QED  BY <2>2, <2>8, <2>9
<1> QED  BY <1>3, <1>4, <1>5
-----------------------------------------------------------------------------
(* What the parser has read, step by step: sequences with no conversion.   *)

LEMMA AppendIs ==
  ASSUME NEW s, IsSequence(s), NEW v
  PROVE  /\ Append(s, v) = s \o <<v>> /\ IsSequence(Append(s, v)) /\ Len(Append(s, v)) = Len(s) + 1
         /\ Append(s, v)[Len(s) + 1] = v
         /\ \A e \in 1 .. Len(s) : Append(s, v)[e] = s[e]
<1>1. PICK X : s \in Seq(X)
  BY DEF IsSequence
<1>2. s \in Seq(X \cup {v}) /\ v \in X \cup {v}
  BY <1>1, SeqMonotonic
<1>3. Append(s, v) = s \o <<v>>
  BY <1>2
<1> QED  BY <1>3, Appended

\* All the digits of a number are read.
LEMMA NumberRead ==
  ASSUME Parsing, number
  PROVE  \E m \in f + 1 .. Len(fmt) :
           /\ fmt[m] \notin Digit /\ \A e \in f .. m - 1 : fmt[e] \in Digit
           /\ UNCHANGED <<format, args, out>> /\ f' = m /\ fmt[f] \in Digit
           /\ Precision(Value(SubSeq(fmt, f, m - 1))) /\ UNCHANGED <<padc, altflag, lflag>>
<1>1. PICK X : fmt \in Seq(X) /\ Len(fmt) \in Nat \ {0} /\ fmt[Len(fmt)] = NUL
  BY FmtTyped DEF Parsing
<1>2. fmt[f] \in Digit /\ fmt[Len(fmt)] \notin Digit /\ f \in 1 .. Len(fmt)
  BY <1>1, NulDiffers DEF number, Parsing
<1>3. PICK m \in f + 1 .. Len(fmt) :
        fmt[m] \notin Digit /\ \A k \in f .. m - 1 : fmt[k] \in Digit
  BY <1>1, <1>2, DigitsHaveEnd
<1>4. m \in f .. Len(fmt)
  BY <1>2
<1>5. Min({k \in f .. Len(fmt) : fmt[k] \notin Digit}) = m
  BY <1>1, <1>2, <1>3, <1>4, DigitsEnd
<1>6. /\ Precision(Value(SubSeq(fmt, f, m - 1))) /\ f' = m
      /\ UNCHANGED <<format, args, out>> /\ UNCHANGED <<padc, altflag, lflag>>
  BY <1>5 DEF number, call
<1> QED  BY <1>2, <1>3, <1>6

\* SaidKept, when the k-th piece has taken g arguments.
LEMMA SaidMore ==
  ASSUME Parsing, NEW k \in 1 .. Len(format), IsSequence(args), NEW a, IsSequence(a),
         NEW g \in Nat, TakenSo(k, g), NEW o, Said(format, args, k - 1, o)
  PROVE  Said(format, args \o a, k - 1, o)
<1>1. /\ format \in Formats
      /\ k - 1 \in 0 .. Len(format) /\ (k - 1) + 1 = k /\ k \in 1 .. Len(format) + 1
  BY FormatTyped DEF Parsing
<1>2. FirstOf(format, (k - 1) + 1) - 1 <= Len(args)
  <2>1. PICK m : m = FirstOf(format, k)
    OBVIOUS
  <2>2. m \in Nat /\ Len(args) = m - 1 + g
    BY <1>1, <2>1, FirstGrows DEF TakenSo
  <2>3. m - 1 <= m - 1 + g
    BY <2>2
  <2> QED  BY <1>1, <2>1, <2>2, <2>3, Zenon
<1> QED  BY <1>1, <1>2, SaidKept

\* One more argument.
LEMMA TakenNext ==
  ASSUME Parsing, NEW k \in 1 .. Len(format), NEW g \in Nat, TakenSo(k, g),
         format' = format, Len(args') = Len(args) + 1
  PROVE  TakenSo(k, g + 1)'
<1>1. PICK m : m = FirstOf(format, k)
  OBVIOUS
<1>2. m \in Nat
  <2>1. format \in Formats /\ k \in 1 .. Len(format) + 1
    BY FormatTyped DEF Parsing
  <2> QED  BY <1>1, <2>1, FirstGrows
<1>3. Len(args') = (m - 1 + g) + 1
  BY <1>1, Zenon DEF TakenSo
<1>4. (m - 1 + g) + 1 = m - 1 + (g + 1)
  BY <1>2
<1>5. Len(args') = FirstOf(format', k) - 1 + (g + 1)
  BY <1>1, <1>3, <1>4, Zenon
<1> QED  BY <1>5, Zenon DEF TakenSo

\* The last of them.
LEMMA TakenAll ==
  ASSUME Parsing, NEW k \in 1 .. Len(format), NEW g \in Nat, TakenSo(k, g), Takes(format[k]) = g
  PROVE  Len(args) = FirstOf(format, k + 1) - 1
<1>1. PICK m : m = FirstOf(format, k)
  OBVIOUS
<1>2. m \in Nat /\ FirstOf(format, k + 1) = m + g
  <2>1. format \in Formats /\ k \in 1 .. Len(format) + 1
    BY FormatTyped DEF Parsing
  <2> QED  BY <1>1, <2>1, FirstGrows, FirstNext
<1>3. Len(args) = m - 1 + g
  BY <1>1, Zenon DEF TakenSo
<1>4. m - 1 + g = (m + g) - 1
  BY <1>2
<1> QED  BY <1>2, <1>3, <1>4, Zenon

\* Where the digits end that are read from the place g on, before that of z.
LEMMA NumberSpan ==
  ASSUME NEW e0 \in Nat, NEW i \in Nat, NEW z \in Nat, i <= z, NEW g, g = e0 + i + 1,
         NEW m \in Nat, g < m, NEW s, \A e \in g .. m - 1 : s[e] \in Digit,
         s[e0 + z + 1] \notin Digit
  PROVE  \E j \in i + 1 .. z :
           /\ m = e0 + j + 1 /\ m = g + (j - i)
           /\ \A e \in i .. j - 1 : s[e0 + (e + 1)] \in Digit
<1>1. PICK j : j = m - e0 - 1
  OBVIOUS
<1>2. j \in Int /\ j >= i + 1 /\ m = e0 + j + 1 /\ m = g + (j - i)
  BY <1>1
<1>3. j <= z
  <2> SUFFICES ASSUME ~(j <= z) PROVE FALSE
    OBVIOUS
  <2>1. e0 + z + 1 \in g .. m - 1
    BY <1>1
  <2> QED  BY <2>1
<1>4. \A e \in i .. j - 1 : e0 + (e + 1) \in g .. m - 1
  BY <1>2
<1>5. j \in i + 1 .. z
  BY <1>2, <1>3
<1> QED  BY <1>2, <1>4, <1>5

\* Places, counted from e0: the i-th, the j-th behind it, and the next.
LEMMA PlaceOnward ==
  ASSUME NEW e0 \in Nat, NEW i \in Nat, NEW j \in Nat, NEW g, g = e0 + i + 1
  PROVE  g + (j - i) = e0 + j + 1 /\ g + 1 = e0 + (i + 1) + 1
OBVIOUS

LEMMA UnknownMeets ==
  ASSUME Parsing, NEW k, NEW i, PieceAt(k, i), format[k].kind = "unknown",
         NEW cs, cs = format[k].chars
  PROVE  /\ k \in 1 .. Len(format) /\ Len(cs) \in Nat /\ Len(Spelled(format[k])) = Len(cs) + 1
         /\ i \in 1 .. Len(cs) + 1
         /\ \A j \in 1 .. i - 1 : cs[j] \in Flag
         /\ TakenSo(k, StarsTo(cs, i - 1))
         /\ \/ /\ i \in 1 .. Len(cs) /\ fmt[f] = cs[i] /\ fmt[f] # NUL
               /\ fmt[f] \notin Conversions
               /\ fmt[f] \in Flag \/ (i = Len(cs) /\ fmt[f] \notin Known)
            \/ i = Len(cs) + 1 /\ fmt[f] = NUL /\ k = Len(format)
<1>1. format \in Formats /\ Len(format) \in Nat
  BY FormatTyped DEF Parsing
<1>2. /\ k \in 1 .. Len(format) /\ i \in 1 .. Len(Spelled(format[k]))
      /\ f = End(format, k - 1) + i + 1
      /\ \A j \in 1 .. i - 1 : cs[j] \in Flag
      /\ TakenSo(k, StarsTo(cs, i - 1))
  BY DEF PieceAt
<1>3. IsPiece(format[k], k = Len(format))
  BY <1>1, <1>2, FormatTyped
<1>4. PICK l : l = Len(cs)
  OBVIOUS
<1>5. /\ l \in Nat /\ Len(Spelled(format[k])) = l + 1
      /\ \A j \in 1 .. l :
           /\ Spelled(format[k])[j + 1] = cs[j]
           /\ cs[j] \notin {"%", NUL} /\ cs[j] \notin Conversions
           /\ cs[j] \in Flag \/ (j = l /\ cs[j] \notin Known)
      /\ \/ k = Len(format)
         \/ l # 0 /\ cs[l] \notin Known
  BY <1>3, <1>4, UnknownSpelled
<1>6. i \in 1 .. l + 1
  BY <1>2, <1>5
<1>7. CASE i # l + 1
  <2>1. i \in 1 .. l /\ i \in Nat /\ i < Len(Spelled(format[k]))
    BY <1>5, <1>6, <1>7
  <2>2. fmt[f] = Spelled(format[k])[i + 1]
    BY <1>2, <2>1, CharacterAt
  <2> QED  BY <1>2, <1>4, <1>5, <1>6, <2>1, <2>2
<1>8. CASE i = l + 1
  <2>1. k = Len(format)
    <3>1. \A j \in 1 .. l : cs[j] \in Flag
      BY <1>2, <1>5, <1>8
    <3>2. l # 0 => l \in 1 .. l
      BY <1>5
    <3> QED  BY <1>5, <3>1, <3>2, FlagsDiffer
  <2>2. End(format, k) = End(format, k - 1) + (l + 1) /\ End(format, k - 1) \in Nat
    <3>1. k - 1 \in 0 .. Len(format)
      BY <1>1, <1>2
    <3> QED  BY <1>1, <1>2, <1>5, <3>1, EndNext
  <2>3. f = End(format, k) + 1
    BY <1>2, <1>8, <2>2
  <2>4. fmt[f] = NUL
    BY <2>1, <2>3, LastCharacter
  <2> QED  BY <1>2, <1>4, <1>5, <1>6, <1>8, <2>1, <2>4
<1> QED  BY <1>7, <1>8

\* Flags of an unknown sequence are read.
LEMMA UnknownGoesOn ==
  ASSUME Parsing, NEW k, NEW i, PieceAt(k, i), format[k].kind = "unknown",
         NEW cs, cs = format[k].chars, NEW j \in i + 1 .. Len(cs) + 1,
         \A e \in i .. j - 1 : cs[e] \in Flag,
         f' = f + (j - i), format' = format, out' = out,
         TakenSo(k, StarsTo(cs, j - 1))',
         Intended => Said(format, args', k - 1, out)
  PROVE  PieceAt(k, j)' /\ j \in Nat
<1>1. /\ k \in 1 .. Len(format) /\ Len(cs) \in Nat /\ Len(Spelled(format[k])) = Len(cs) + 1
      /\ i \in 1 .. Len(cs) + 1
      /\ \A e \in 1 .. i - 1 : cs[e] \in Flag
  BY UnknownMeets
<1>2. f = End(format, k - 1) + i + 1
  BY DEF PieceAt
<1>3. End(format, k - 1) \in Nat
  <2>1. format \in Formats /\ k - 1 \in 0 .. Len(format)
    BY <1>1, FormatTyped DEF Parsing
  <2> QED  BY <2>1, EndNext
<1>5. j \in 1 .. Len(Spelled(format[k])) /\ j \in Nat
  BY <1>1
<1>6. f' = End(format, k - 1) + j + 1
  <2>1. i \in Nat
    BY <1>1
  <2>2. f + (j - i) = End(format, k - 1) + j + 1
    BY <1>2, <1>3, <1>5, <2>1, PlaceOnward
  <2> QED  BY <2>2
<1>7. \A e \in 1 .. j - 1 : cs[e] \in Flag
  <2>1. \A e \in 1 .. j - 1 : e \in 1 .. i - 1 \/ e \in i .. j - 1
    BY <1>1
  <2> QED  BY <1>1, <2>1
<1>8. Intended' => Said(format, args', k - 1, out)
  BY IntendedSame
<1> QED  BY <1>1, <1>5, <1>6, <1>7, <1>8, Zenon DEF PieceAt

LEMMA UnknownFlag ==
  ASSUME Parsing, NEW k, NEW i, PieceAt(k, i), format[k].kind = "unknown",
         pad \/ dot \/ alternate \/ long
  PROVE  (\E h, j \in Nat : PieceAt(h, j))'
<1>1. PICK cs, l : cs = format[k].chars /\ l = Len(cs)
  OBVIOUS
<1>2. UNCHANGED <<format, args, out>> /\ f' = f + 1 /\ fmt[f] \in Flag /\ fmt[f] # "*"
  <2>1. {"-", "0", ".", "#", "l"} \subseteq Flag /\ "*" \notin {"-", "0", ".", "#", "l"}
    BY DEF Flag, Digit
  <2>2. UNCHANGED <<format, args, out>> /\ f' = f + 1 /\ fmt[f] \in {"-", "0", ".", "#", "l"}
    BY DEF pad, dot, alternate, long, Switch, call
  <2> QED  BY <2>1, <2>2
<1>3. k \in 1 .. Len(format) /\ l \in Nat /\ i \in 1 .. l /\ cs[i] = fmt[f]
      /\ TakenSo(k, StarsTo(cs, i - 1))
  BY <1>1, <1>2, FlagsDiffer, UnknownMeets
<1>4. PICK h : h = i - 1
  OBVIOUS
<1>5. i \in Nat /\ h \in Nat /\ i = h + 1 /\ h <= i /\ i \in h + 1 .. i /\ k \in Nat
      /\ (\A e \in h + 1 .. i : e = i) /\ (i + 1) - 1 = i /\ (i + 1) - i = 1
      /\ i + 1 \in i + 1 .. l + 1 /\ (\A e \in i .. i : e = i)
  BY <1>3, <1>4
<1>6. StarsTo(cs, i) = StarsTo(cs, h)
  <2>1. \A e \in h + 1 .. i : cs[e] # "*"
    BY <1>2, <1>3, <1>5
  <2> QED  BY <1>5, <2>1, StarsSame
<1>7. TakenSo(k, StarsTo(cs, (i + 1) - 1))'
  <2>1. TakenSo(k, StarsTo(cs, i))
    BY <1>3, <1>4, <1>6
  <2> QED  BY <1>2, <1>5, <2>1 DEF TakenSo
<1>8. Intended => Said(format, args', k - 1, out)
  BY <1>2 DEF PieceAt
<1>9. \A e \in i .. (i + 1) - 1 : cs[e] \in Flag
  BY <1>2, <1>3, <1>5
<1>10. f' = f + ((i + 1) - i)
  BY <1>2, <1>5
<1>11. PieceAt(k, i + 1)' /\ i + 1 \in Nat
  <2>1. i + 1 \in i + 1 .. Len(cs) + 1
    BY <1>1, <1>5
  <2> QED  BY <1>1, <1>2, <1>7, <1>8, <1>9, <1>10, <2>1, UnknownGoesOn
<1> QED  BY <1>5, <1>11, Zenon

LEMMA UnknownStar ==
  ASSUME Parsing, Following, NEW k, NEW i, PieceAt(k, i), format[k].kind = "unknown", star
  PROVE  (\E h, j \in Nat : PieceAt(h, j))'
<1>1. PICK cs, l : cs = format[k].chars /\ l = Len(cs)
  OBVIOUS
<1>2. PICK v : args' = Append(args, v)
  BY DEF star
<1>3. UNCHANGED <<format, out>> /\ f' = f + 1 /\ fmt[f] = "*" /\ fmt[f] \in Flag
  BY FlagsDiffer DEF star, Switch, call
<1>4. k \in 1 .. Len(format) /\ l \in Nat /\ i \in 1 .. l /\ cs[i] = fmt[f]
      /\ TakenSo(k, StarsTo(cs, i - 1))
  BY <1>1, <1>3, FlagsDiffer, UnknownMeets
<1>5. PICK h : h = i - 1
  OBVIOUS
<1>6. i \in Nat /\ h \in Nat /\ i = h + 1 /\ k \in Nat
      /\ (i + 1) - 1 = i /\ (i + 1) - i = 1
      /\ i + 1 \in i + 1 .. l + 1 /\ (\A e \in i .. i : e = i)
  BY <1>4, <1>5
<1>7. StarsTo(cs, i) = StarsTo(cs, h) + 1 /\ StarsTo(cs, h) \in Nat
  <2>1. cs[h + 1] = "*"
    BY <1>3, <1>4, <1>6
  <2>2. StarsTo(cs, h + 1) = StarsTo(cs, h) + 1
    BY <1>6, <2>1, StarsNext
  <2> QED  BY <1>6, <2>2, StarsNat
<1>8. IsSequence(args) /\ args' = args \o <<v>> /\ Len(args') = Len(args) + 1
  <2>1. IsSequence(args)
    BY DEF Following
  <2> QED  BY <1>2, <2>1, AppendIs
<1>9. TakenSo(k, StarsTo(cs, (i + 1) - 1))'
  <2>1. PICK g : g = StarsTo(cs, h)
    OBVIOUS
  <2>2. g \in Nat /\ TakenSo(k, g)
    BY <1>4, <1>5, <1>7, <2>1
  <2>3. TakenSo(k, g + 1)'
    BY <1>3, <1>4, <1>8, <2>2, TakenNext
  <2>4. StarsTo(cs, (i + 1) - 1) = g + 1
    BY <1>6, <1>7, <2>1
  <2> QED  BY <2>3, <2>4
<1>10. Intended => Said(format, args', k - 1, out)
  <2>1. IsSequence(<<v>>)
    BY Singleton
  <2>2. Intended => Said(format, args, k - 1, out)
    BY DEF PieceAt
  <2>3. PICK g \in Nat : TakenSo(k, g)
    BY <1>4, <1>5, <1>7
  <2> QED  BY <1>4, <1>8, <2>1, <2>2, <2>3, SaidMore
<1>11. \A e \in i .. (i + 1) - 1 : cs[e] \in Flag
  BY <1>3, <1>4, <1>6
<1>12. f' = f + ((i + 1) - i)
  BY <1>3, <1>6
<1>13. PieceAt(k, i + 1)' /\ i + 1 \in Nat
  <2>1. i + 1 \in i + 1 .. Len(cs) + 1
    BY <1>1, <1>6
  <2> QED  BY <1>1, <1>3, <1>9, <1>10, <1>11, <1>12, <2>1, UnknownGoesOn
<1> QED  BY <1>6, <1>13, Zenon

LEMMA UnknownNumber ==
  ASSUME Parsing, NEW k, NEW i, PieceAt(k, i), format[k].kind = "unknown", number
  PROVE  (\E h, j \in Nat : PieceAt(h, j))'
<1>1. PICK cs, l, s : cs = format[k].chars /\ l = Len(cs) /\ s = Spelled(format[k])
  OBVIOUS
<1>2. PICK m \in f + 1 .. Len(fmt) :
        /\ fmt[m] \notin Digit /\ \A e \in f .. m - 1 : fmt[e] \in Digit
        /\ UNCHANGED <<format, args, out>> /\ f' = m /\ fmt[f] \in Digit
  BY NumberRead
<1>3. k \in 1 .. Len(format) /\ l \in Nat /\ i \in 1 .. l /\ Len(s) = l + 1
      /\ TakenSo(k, StarsTo(cs, i - 1))
  BY <1>1, <1>2, FlagsDiffer, UnknownMeets
<1>4. format \in Formats /\ Len(format) \in Nat /\ IsPiece(format[k], k = Len(format))
  BY <1>3, FormatTyped DEF Parsing
<1>5. PICK e0 : e0 = End(format, k - 1) /\ e0 \in Nat /\ End(format, k) = e0 + (l + 1)
  <2>1. k - 1 \in 0 .. Len(format)
    BY <1>3, <1>4
  <2> QED  BY <1>1, <1>3, <1>4, <2>1, EndNext
<1>6. f = e0 + i + 1
  BY <1>5 DEF PieceAt
<1>7. \A e \in 1 .. l : fmt[e0 + (e + 1)] = cs[e]
  <2>1. ASSUME NEW e \in 1 .. l PROVE fmt[e0 + (e + 1)] = cs[e]
    <3>1. e + 1 \in 1 .. l + 1
      BY <1>3
    <3>2. fmt[e0 + (e + 1)] = s[e + 1]
      BY <1>1, <1>3, <1>4, <1>5, <3>1, WholeAt DEF Parsing
    <3>3. s[e + 1] = cs[e]
      BY <1>1, <1>4, UnknownSpelled
    <3> QED  BY <3>2, <3>3
  <2> QED  BY <2>1
<1>8. PICK z \in i .. l + 1 : fmt[e0 + z + 1] \notin Digit
  <2>1. CASE k = Len(format)
    <3>1. l + 1 \in i .. l + 1 /\ e0 + (l + 1) + 1 = (e0 + (l + 1)) + 1
      <4>1. l + 1 \in i .. l + 1
        BY <1>3
      <4> QED  BY <4>1
    <3>2. fmt[(e0 + (l + 1)) + 1] = NUL
      BY <1>5, <2>1, LastCharacter
    <3>3. fmt[e0 + (l + 1) + 1] = NUL
      BY <3>1, <3>2, Zenon
    <3> QED  BY <3>1, <3>3, NulDiffers
  <2>2. CASE cs[l] \notin Known
    <3>1. l \in i .. l + 1 /\ l \in 1 .. l /\ e0 + l + 1 = e0 + (l + 1)
      <4>1. e0 \in Nat /\ l \in Nat /\ i \in 1 .. l
        BY <1>3, <1>5
      <4> QED  BY <4>1
    <3>2. fmt[e0 + l + 1] = cs[l]
      BY <1>7, <3>1
    <3> QED  BY <2>2, <3>1, <3>2, FlagsDiffer
  <2>3. k = Len(format) \/ cs[l] \notin Known
    BY <1>1, <1>4, UnknownSpelled
  <2> QED  BY <2>1, <2>2, <2>3
<1>9. PICK j \in i + 1 .. z :
        /\ m = e0 + j + 1 /\ m = f + (j - i)
        /\ \A e \in i .. j - 1 : fmt[e0 + (e + 1)] \in Digit
  <2>1. i \in Nat /\ z \in Nat /\ i <= z
    BY <1>3, <1>8
  <2>2. f \in Nat /\ e0 \in Nat
    <3>1. e0 \in Nat
      BY <1>5
    <3> QED  BY <1>6, <2>1, <3>1
  <2>3. m \in Nat /\ f < m
    <3>1. Len(fmt) \in Nat
      BY FmtTyped DEF Parsing
    <3> QED  BY <1>2, <2>2, <3>1
  <2>4. \A e \in f .. m - 1 : fmt[e] \in Digit
    BY <1>2
  <2>5. fmt[e0 + z + 1] \notin Digit
    BY <1>8
  <2>6. PICK g : g = f
    OBVIOUS
  <2> QED  BY <1>6, <2>1, <2>2, <2>3, <2>4, <2>5, <2>6, NumberSpan
<1>10. PICK h : h = i - 1
  OBVIOUS
<1>11. PICK h2 : h2 = j - 1
  OBVIOUS
<1>12. /\ j \in i + 1 .. l + 1 /\ h \in Nat /\ h2 \in Nat /\ h <= h2 /\ h + 1 = i /\ k \in Nat
       /\ \A e \in i .. h2 : e \in 1 .. l
  BY <1>3, <1>8, <1>9, <1>10, <1>11
<1>13. \A e \in i .. h2 : cs[e] \in Flag /\ cs[e] # "*"
  BY <1>7, <1>9, <1>11, <1>12, FlagsDiffer
<1>14. TakenSo(k, StarsTo(cs, j - 1))'
  <2>1. StarsTo(cs, h2) = StarsTo(cs, h)
    BY <1>12, <1>13, StarsSame
  <2>2. TakenSo(k, StarsTo(cs, j - 1))
    BY <1>3, <1>10, <1>11, <2>1
  <2> QED  BY <1>2, <2>2 DEF TakenSo
<1>15. Intended => Said(format, args', k - 1, out)
  BY <1>2 DEF PieceAt
<1>16. PieceAt(k, j)' /\ j \in Nat
  <2>1. j \in i + 1 .. Len(cs) + 1 /\ \A e \in i .. j - 1 : cs[e] \in Flag
    BY <1>1, <1>11, <1>12, <1>13
  <2> QED  BY <1>1, <1>2, <1>9, <1>14, <1>15, <2>1, UnknownGoesOn
<1> QED  BY <1>12, <1>16, Zenon

LEMMA FirstOnly ==
  ASSUME NEW X, NEW s \in Seq(X), 1 \in 1 .. Len(s)
  PROVE  SubSeq(s, 1, 1) = <<s[1]>>
<1>1. PICK t, c : t = SubSeq(s, 1, 1) /\ c = <<s[1]>>
  OBVIOUS
<1>2. t \in Seq(X) /\ Len(t) = 1 /\ t[1] = s[1]
  BY <1>1
<1>3. c \in Seq(X) /\ Len(c) = 1 /\ c[1] = s[1]
  BY <1>1
<1>4. t = c
  BY <1>2, <1>3, SeqEqual
<1> QED  BY <1>1, <1>4

\* The pointer goes back to behind the `%', which is printed.
LEMMA UnknownBack ==
  ASSUME Parsing, Buffered, NEW k, NEW i, PieceAt(k, i), format[k].kind = "unknown", unknown
  PROVE  (\E h, j \in Nat : TextAt(h, j))'
<1>1. PICK cs, l, s : cs = format[k].chars /\ l = Len(cs) /\ s = Spelled(format[k])
  OBVIOUS
<1>2. /\ UNCHANGED <<format, args>> /\ out' = out \o <<"%">> /\ fmt[f] \notin Known
      /\ f' = Max({e \in 1 .. f - 1 : fmt[e] = "%"}) + 1
  BY DEF unknown, Put, call
<1>3. /\ k \in 1 .. Len(format) /\ l \in Nat /\ i \in 1 .. l + 1 /\ Len(s) = l + 1
      /\ \A j \in 1 .. i - 1 : cs[j] \in Flag
  BY <1>1, UnknownMeets
<1>4. /\ TakenSo(k, StarsTo(cs, i - 1))
      /\ i = l + 1 \/ (i = l /\ cs[l] \notin Known)
  BY <1>1, <1>2, FlagsDiffer, UnknownMeets
<1>5. format \in Formats /\ Len(format) \in Nat /\ IsPiece(format[k], k = Len(format))
  BY <1>3, FormatTyped DEF Parsing
<1>6. PICK e0 : e0 = End(format, k - 1) /\ e0 \in Nat
  <2>1. k - 1 \in 0 .. Len(format)
    BY <1>3, <1>5
  <2> QED  BY <1>5, <2>1, EndNext
<1>7. f = e0 + i + 1
  BY <1>6 DEF PieceAt
<1>8. PICK h : h = i - 1
  OBVIOUS
<1>9. h \in Nat /\ h <= l /\ h + 1 = i
  BY <1>3, <1>8
<1>10. StarsTo(cs, l) = StarsTo(cs, h)
  <2>1. \A e \in h + 1 .. l : cs[e] # "*"
    <3>1. \A e \in h + 1 .. l : e = l /\ i = l
      BY <1>3, <1>4, <1>9
    <3> QED  BY <1>3, <1>4, <3>1, FlagsDiffer
  <2> QED  BY <1>3, <1>9, <2>1, StarsSame
<1>11. Len(args') = FirstOf(format, k + 1) - 1
  <2>1. IsSequence(cs)
    BY <1>1, <1>5, UnknownSpelled
  <2>2. PICK g : g = StarsTo(cs, l)
    OBVIOUS
  <2>3. Takes(format[k]) = g /\ g \in Nat
    BY <1>1, <2>1, <2>2, StarsIs DEF Takes
  <2>4. TakenSo(k, g)
    BY <1>4, <1>8, <1>10, <2>2
  <2>5. Len(args) = FirstOf(format, k + 1) - 1
    BY <1>3, <2>3, <2>4, TakenAll
  <2> QED  BY <1>2, <2>5
<1>12. /\ s \in Seq(FmtChar) /\ s[1] = "%"
       /\ \A j \in 1 .. l : s[j + 1] = cs[j]
  BY <1>1, <1>5, PieceSpelled, UnknownSpelled
<1>13. Max({e \in 1 .. f - 1 : fmt[e] = "%"}) = e0 + 1
  <2> DEFINE T == {e \in 1 .. f - 1 : fmt[e] = "%"}
  <2>1. e0 \in Nat /\ l \in Nat /\ i \in 1 .. l + 1
    BY <1>3, <1>6
  <2>2. \A e \in 1 .. l + 1 : fmt[e0 + e] = s[e]
    BY <1>1, <1>3, <1>5, <1>6, WholeAt DEF Parsing
  <2>3. e0 + 1 \in T
    <3>1. 1 \in 1 .. l + 1 /\ e0 + 1 \in 1 .. f - 1
      BY <1>7, <2>1
    <3> QED  BY <1>12, <2>2, <3>1
  <2>4. ASSUME NEW e \in 1 .. f - 1, ~(e0 + 1 >= e) PROVE fmt[e] # "%"
    <3>1. PICK d : d = e - e0 - 1
      OBVIOUS
    <3>2. d \in 1 .. i - 1 /\ d \in 1 .. l /\ d + 1 \in 1 .. l + 1 /\ e = e0 + (d + 1)
      BY <1>7, <2>1, <2>4, <3>1
    <3>3. fmt[e] = cs[d]
      BY <1>12, <2>2, <3>2
    <3> QED  BY <1>3, <3>2, <3>3, FlagsDiffer
  <2>5. T \subseteq Int /\ \A e \in T : e0 + 1 >= e
    BY <2>4
  <2> HIDE DEF T
  <2>6. Max(T) = e0 + 1
    BY <2>3, <2>5, MaxIs
  <2> QED  BY <2>6 DEF T
<1>14. f' = End(format, k - 1) + 1 + 1
  BY <1>2, <1>6, <1>13
<1>15. SubSeq(s, 1, 1) = <<"%">>
  <2>1. s \in Seq(FmtChar) /\ 1 \in 1 .. Len(s)
    BY <1>3, <1>12
  <2> QED  BY <1>12, <2>1, FirstOnly
<1>16. Intended => \E o : /\ Said(format, args', k - 1, o) /\ IsSequence(o)
                          /\ out' = o \o SubSeq(s, 1, 1)
  BY <1>2, <1>15 DEF PieceAt, Buffered
<1>17. 1 \in 1 .. Len(s) /\ format[k].kind # "conversion"
  BY <1>3
<1> QED  BY <1>1, <1>2, <1>3, <1>11, <1>14, <1>16, <1>17, Advance
-----------------------------------------------------------------------------
(* What the parser has read, step by step: the flags of conversions.       *)

LEMMA NumberStarts ==
  ASSUME NEW cs, IsNumber(cs), cs # << >>
  PROVE  \/ cs = <<"*">> /\ cs[1] = "*"
         \/ cs \in Seq(Digit) /\ cs # <<"*">> /\ cs[1] \in Digit \ {"0"}
<1>1. CASE cs = <<"*">>
  BY <1>1
<1>2. CASE cs # <<"*">>
  <2>1. cs \in Seq(Digit) /\ cs[1] # "0"
    BY <1>2, Zenon DEF IsNumber
  <2>2. cs[1] \in Digit
    <3>1. 1 \in 1 .. Len(cs)
      BY <2>1
    <3> QED  BY <2>1, <3>1, ElementOfSeq
  <2> QED  BY <1>2, <2>1, <2>2
<1> QED  BY <1>1, <1>2

\* The character c behind the first i of a conversion.
Meets(p, i, c) ==
  \/ i = 1 /\ AfterPad(p) = 2 /\ c = p.pad /\ c \in {"-", "0"}
  \/ i = AfterPad(p) /\ p.alt /\ AfterAlt(p) = i + 1 /\ c = "#"
  \/ i = AfterAlt(p) /\ p.width # << >> /\ i < AfterWidth(p) /\ c = p.width[1]
  \/ i = AfterWidth(p) /\ p.prec # << >> /\ AfterDot(p) = i + 1 /\ c = "."
  \/ i = AfterDot(p) /\ p.prec # << >> /\ AfterWidth(p) < i /\ i < AfterPrec(p) /\ c = p.prec[1]
  \/ i \in AfterPrec(p) .. AfterLong(p) - 1 /\ c = "l"
  \/ i = AfterLong(p) /\ c = p.conv

LEMMA MeetsEach ==
  ASSUME NEW p, IsConversion(p), NEW i \in Places(p)
  PROVE  Meets(p, i, Spelled(p)[i + 1])
<1>1. PICK s, c : s = Spelled(p) /\ c = s[i + 1]
  OBVIOUS
<1>2. PICK w, q, l \in Nat :
           /\ w = Len(p.width) /\ q = Len(p.prec) /\ l = p.long
           /\ (w = 0 <=> p.width = << >>) /\ (q = 0 <=> p.prec = << >>)
           /\ AfterPad(p) = (IF p.pad = Blank THEN 1 ELSE 2)
           /\ AfterAlt(p) = AfterPad(p) + (IF p.alt THEN 1 ELSE 0)
           /\ AfterWidth(p) = AfterAlt(p) + w
           /\ AfterDot(p) = AfterWidth(p) + (IF q = 0 THEN 0 ELSE 1)
           /\ AfterPrec(p) = AfterDot(p) + q
           /\ AfterLong(p) = AfterPrec(p) + l
  BY Offsets
<1>3. /\ (w = 0 <=> p.width = << >>) /\ (q = 0 <=> p.prec = << >>)
      /\ AfterPad(p) = (IF p.pad = Blank THEN 1 ELSE 2)
      /\ AfterAlt(p) = AfterPad(p) + (IF p.alt THEN 1 ELSE 0)
      /\ AfterWidth(p) = AfterAlt(p) + w
      /\ AfterDot(p) = AfterWidth(p) + (IF q = 0 THEN 0 ELSE 1)
      /\ AfterPrec(p) = AfterDot(p) + q
      /\ AfterLong(p) = AfterPrec(p) + l
  BY <1>2
<1>4. /\ p.pad # Blank => s[2] = p.pad
      /\ p.alt => s[AfterPad(p) + 1] = "#"
      /\ \A j \in 1 .. w : s[AfterAlt(p) + j] = p.width[j]
      /\ p.prec # << >> => s[AfterWidth(p) + 1] = "."
      /\ \A j \in 1 .. q : s[AfterDot(p) + j] = p.prec[j]
      /\ \A j \in 1 .. l : s[AfterPrec(p) + j] = "l"
      /\ s[AfterLong(p) + 1] = p.conv
  BY <1>1, <1>2, ConversionSpelled, Zenon
<1>5. p.pad \in {Blank, "-", "0"} /\ p.alt \in BOOLEAN
  BY DEF IsConversion
<1>6. ASSUME i \in AfterPrec(p) .. AfterLong(p) PROVE Meets(p, i, c)
  <2>1. CASE i = AfterLong(p)
    BY <1>1, <1>4, <2>1, Zenon DEF Meets
  <2>2. CASE i # AfterLong(p)
    <3>1. i \in AfterPrec(p) .. AfterLong(p) - 1
      <4>1. AfterPrec(p) \in Nat /\ AfterLong(p) \in Nat
        BY OffsetsTyped
      <4> QED  BY <1>6, <2>2, <4>1
    <3>2. PICK j : j = i + 1 - AfterPrec(p)
      OBVIOUS
    <3>3. j \in 1 .. l /\ AfterPrec(p) + j = i + 1
      BY <1>3, <3>1, <3>2
    <3>4. c = "l"
      BY <1>1, <1>4, <3>3
    <3> QED  BY <3>1, <3>4, Zenon DEF Meets
  <2> QED  BY <2>1, <2>2
<1>7. ASSUME i = AfterDot(p) PROVE Meets(p, i, c)
  <2>1. CASE p.prec # << >>
    <3>1. AfterWidth(p) < i /\ i < AfterPrec(p) /\ 1 \in 1 .. q
      BY <1>3, <1>7, <2>1
    <3>2. c = p.prec[1]
      BY <1>1, <1>4, <1>7, <3>1, Zenon
    <3> QED  BY <1>7, <2>1, <3>1, <3>2, Zenon DEF Meets
  <2>2. CASE p.prec = << >>
    <3>1. i \in AfterPrec(p) .. AfterLong(p)
      BY <1>3, <1>7, <2>2
    <3> QED  BY <1>6, <3>1
  <2> QED  BY <2>1, <2>2
<1>8. ASSUME i = AfterWidth(p) PROVE Meets(p, i, c)
  <2>1. CASE p.prec # << >>
    <3>1. AfterDot(p) = i + 1
      BY <1>3, <1>8, <2>1
    <3>2. c = "."
      BY <1>1, <1>4, <1>8, <2>1, Zenon
    <3> QED  BY <1>8, <2>1, <3>1, <3>2, Zenon DEF Meets
  <2>2. CASE p.prec = << >>
    <3>1. i = AfterDot(p)
      BY <1>3, <1>8, <2>2
    <3> QED  BY <1>7, <3>1
  <2> QED  BY <2>1, <2>2
<1>9. ASSUME i = AfterAlt(p) PROVE Meets(p, i, c)
  <2>1. CASE p.width # << >>
    <3>1. i < AfterWidth(p) /\ 1 \in 1 .. w
      BY <1>3, <1>9, <2>1
    <3>2. c = p.width[1]
      BY <1>1, <1>4, <1>9, <3>1, Zenon
    <3> QED  BY <1>9, <2>1, <3>1, <3>2, Zenon DEF Meets
  <2>2. CASE p.width = << >>
    <3>1. i = AfterWidth(p)
      BY <1>3, <1>9, <2>2
    <3> QED  BY <1>8, <3>1
  <2> QED  BY <2>1, <2>2
<1>10. ASSUME i = AfterPad(p) PROVE Meets(p, i, c)
  <2>1. CASE p.alt
    <3>1. AfterAlt(p) = i + 1
      BY <1>3, <1>10, <2>1
    <3>2. c = "#"
      BY <1>1, <1>4, <1>10, <2>1, Zenon
    <3> QED  BY <1>10, <2>1, <3>1, <3>2, Zenon DEF Meets
  <2>2. CASE ~p.alt
    <3>1. i = AfterAlt(p)
      BY <1>3, <1>10, <2>2
    <3> QED  BY <1>9, <3>1
  <2> QED  BY <2>1, <2>2
<1>11. ASSUME i = 1 PROVE Meets(p, i, c)
  <2>1. CASE p.pad # Blank
    <3>1. AfterPad(p) = 2 /\ i + 1 = 2
      BY <1>3, <1>11, <2>1
    <3>2. c = p.pad /\ p.pad \in {"-", "0"}
      BY <1>1, <1>4, <1>5, <2>1, <3>1
    <3> QED  BY <1>11, <3>1, <3>2, Zenon DEF Meets
  <2>2. CASE p.pad = Blank
    <3>1. i = AfterPad(p)
      BY <1>3, <1>11, <2>2
    <3> QED  BY <1>10, <3>1
  <2> QED  BY <2>1, <2>2
<1>12. Meets(p, i, c)
  BY <1>6, <1>7, <1>8, <1>9, <1>10, <1>11 DEF Places
<1> QED  BY <1>1, <1>12

\* Which flag is read, told from its first character.
LEMMA MeetsFlag ==
  ASSUME NEW p, IsConversion(p), NEW i, NEW c, Meets(p, i, c)
  PROVE  /\ c \in Known
         /\ c \in {"-", "0"} => i = 1 /\ AfterPad(p) = 2 /\ c = p.pad
         /\ c = "#" => i = AfterPad(p) /\ p.alt /\ AfterAlt(p) = i + 1
         /\ c = "." => i = AfterWidth(p) /\ p.prec # << >> /\ AfterDot(p) = i + 1
         /\ c = "l" => i \in AfterPrec(p) .. AfterLong(p) - 1
         /\ c \in Conversions => i = AfterLong(p) /\ c = p.conv
         /\ c = "*" =>
              \/ i = AfterAlt(p) /\ p.width = <<"*">> /\ i < AfterWidth(p)
              \/ /\ i = AfterDot(p) /\ p.prec = <<"*">> /\ p.prec # << >>
                 /\ AfterWidth(p) < i /\ i < AfterPrec(p)
         /\ c \in Digit \ {"0"} =>
              \/ /\ i = AfterAlt(p) /\ p.width \in Seq(Digit) /\ p.width # <<"*">>
                 /\ p.width # << >> /\ i < AfterWidth(p)
              \/ /\ i = AfterDot(p) /\ p.prec \in Seq(Digit) /\ p.prec # <<"*">>
                 /\ p.prec # << >> /\ AfterWidth(p) < i /\ i < AfterPrec(p)
<1>1. IsNumber(p.width) /\ IsNumber(p.prec) /\ p.conv \in Conversions
  BY DEF IsConversion
<1>2. PICK D : D = Digit \ {"0"}
  OBVIOUS
<1>3. /\ p.width # << >> =>
           \/ p.width = <<"*">> /\ p.width[1] = "*"
           \/ p.width \in Seq(Digit) /\ p.width # <<"*">> /\ p.width[1] \in D
      /\ p.prec # << >> =>
           \/ p.prec = <<"*">> /\ p.prec[1] = "*"
           \/ p.prec \in Seq(Digit) /\ p.prec # <<"*">> /\ p.prec[1] \in D
  BY <1>1, <1>2, NumberStarts
<1>4. /\ \A d \in D : d \notin {"-", "0", "#", ".", "l", "*"} \cup Conversions
      /\ \A d \in Conversions : d \notin {"-", "0", "#", ".", "l", "*"} \cup D
      /\ \A d \in D \cup {"-", "0", "#", ".", "l", "*"} : d \in Known
  BY <1>2 DEF Digit, Conversions, Base, Known, Flag
<1>5. Conversions \subseteq Known
  BY DEF Known
<1>6. CASE i = 1 /\ AfterPad(p) = 2 /\ c = p.pad /\ c \in {"-", "0"}
  BY <1>2, <1>4, <1>6
<1>7. CASE i = AfterPad(p) /\ p.alt /\ AfterAlt(p) = i + 1 /\ c = "#"
  BY <1>2, <1>4, <1>7
<1>8. CASE i = AfterAlt(p) /\ p.width # << >> /\ i < AfterWidth(p) /\ c = p.width[1]
  <2>1. CASE p.width = <<"*">> /\ c = "*"
    BY <1>2, <1>4, <1>8, <2>1
  <2>2. CASE p.width \in Seq(Digit) /\ p.width # <<"*">> /\ c \in D
    BY <1>2, <1>4, <1>8, <2>2
  <2> QED  BY <1>3, <1>8, <2>1, <2>2
<1>9. CASE i = AfterWidth(p) /\ p.prec # << >> /\ AfterDot(p) = i + 1 /\ c = "."
  BY <1>2, <1>4, <1>9
<1>10. CASE i = AfterDot(p) /\ p.prec # << >> /\ AfterWidth(p) < i /\ i < AfterPrec(p) /\ c = p.prec[1]
  <2>1. CASE p.prec = <<"*">> /\ c = "*"
    BY <1>2, <1>4, <1>10, <2>1
  <2>2. CASE p.prec \in Seq(Digit) /\ p.prec # <<"*">> /\ c \in D
    BY <1>2, <1>4, <1>10, <2>2
  <2> QED  BY <1>3, <1>10, <2>1, <2>2
<1>11. CASE i \in AfterPrec(p) .. AfterLong(p) - 1 /\ c = "l"
  BY <1>2, <1>4, <1>11
<1>12. CASE i = AfterLong(p) /\ c = p.conv
  BY <1>1, <1>2, <1>4, <1>5, <1>12
<1> QED  BY <1>6, <1>7, <1>8, <1>9, <1>10, <1>11, <1>12, Zenon DEF Meets

\* The arguments of stars that are not read yet tell nothing of the flags.
LEMMA ReadAlike ==
  ASSUME NEW p, NEW i, NEW v, NEW u, NEW v2, NEW u2,
         i < AfterWidth(p) \/ Field(p.width, v2) = Field(p.width, v),
         i < AfterPrec(p) \/ Field(p.prec, u2) = Field(p.prec, u),
         i < AfterWidth(p) => ~(i >= AfterWidth(p)),
         NEW c, NEW alt, NEW w, NEW prec, NEW l, FlagsRead(p, i, v, u, c, alt, w, prec, l)
  PROVE  FlagsRead(p, i, v2, u2, c, alt, w, prec, l)
<1>1. WidthRead(p, i, Field(p.width, v2)) = WidthRead(p, i, Field(p.width, v))
  BY Zenon DEF WidthRead
<1>2. (IF i < AfterPrec(p) THEN -1 ELSE Field(p.prec, u2))
        = (IF i < AfterPrec(p) THEN -1 ELSE Field(p.prec, u))
  BY Zenon
<1>3. i >= AfterWidth(p) => Field(p.width, v2) \in Int
  BY Zenon DEF FlagsRead
<1> QED  BY <1>1, <1>2, <1>3, Zenon DEF FlagsRead

\* One flag more.
LEMMA ReadNext ==
  ASSUME NEW p, IsConversion(p), NEW i, NEW v, NEW u,
         NEW c, NEW alt, NEW w, NEW prec, NEW l, FlagsRead(p, i, v, u, c, alt, w, prec, l)
  PROVE  /\ i = 1 /\ AfterPad(p) = 2 => FlagsRead(p, i + 1, v, u, p.pad, alt, w, prec, l)
         /\ i = AfterPad(p) /\ p.alt => FlagsRead(p, i + 1, v, u, c, TRUE, w, prec, l)
         /\ i = AfterAlt(p) /\ p.width # << >> /\ Field(p.width, v) \in Int =>
              w = -1 /\ FlagsRead(p, AfterWidth(p), v, u, c, alt, Field(p.width, v), -1, l)
         /\ i = AfterWidth(p) /\ p.prec # << >> =>
              FlagsRead(p, i + 1, v, u, c, alt, IF w < 0 THEN 0 ELSE w, prec, l)
         /\ i = AfterDot(p) /\ p.prec # << >> =>
              w >= 0 /\ FlagsRead(p, AfterPrec(p), v, u, c, alt, w, Field(p.prec, u), l)
         /\ i \in AfterPrec(p) .. AfterLong(p) - 1 =>
              FlagsRead(p, i + 1, v, u, c, alt, w, prec, l + 1)
<1>1. PICK fw, fp : fw = Field(p.width, v) /\ fp = Field(p.prec, u)
  OBVIOUS
<1>2. PICK a1, a2, a3, a4, a5, a6 :
        /\ a1 = AfterPad(p) /\ a2 = AfterAlt(p) /\ a3 = AfterWidth(p)
        /\ a4 = AfterDot(p) /\ a5 = AfterPrec(p) /\ a6 = AfterLong(p)
  OBVIOUS
<1>3. /\ a1 \in 1 .. 2 /\ a2 \in Nat /\ a3 \in Nat /\ a4 \in Nat /\ a5 \in Nat /\ a6 \in Nat
      /\ a1 <= a2 /\ a2 <= a3 /\ a3 <= a4 /\ a4 <= a5 /\ a5 <= a6
      /\ (a1 = 1 <=> p.pad = Blank) /\ (p.alt => a2 = a1 + 1) /\ (~p.alt => a2 = a1)
      /\ (p.width = << >> <=> a3 = a2)
      /\ (p.prec = << >> => a4 = a3 /\ a5 = a3)
      /\ (p.prec # << >> => a4 = a3 + 1 /\ a5 > a4)
  BY <1>2, Offsets
<1>4. (a3 = a2 => fw = -1) /\ (p.prec = << >> => fp = -1)
  BY <1>1, <1>3, FieldEmpty
<1>5. p.alt \in BOOLEAN /\ Places(p) = {1, a1, a2, a3, a4} \cup a5 .. a6
  BY <1>2 DEF IsConversion, Places
\* The flags at the place j.
<1> DEFINE Pad(j) == IF j >= a1 THEN p.pad ELSE Blank
           Alt(j) == p.alt /\ j >= a2
           Width(j) == IF j < a3 THEN -1 ELSE IF p.prec # << >> /\ j >= a4 /\ fw < 0 THEN 0 ELSE fw
           Prec(j) == IF j < a5 THEN -1 ELSE fp
           Longs(j) == IF j < a5 THEN 0 ELSE j - a5
<1>6. /\ i \in {1, a1, a2, a3, a4} \cup a5 .. a6
      /\ c = Pad(i) /\ alt = Alt(i) /\ (i >= a3 => fw \in Int) /\ w = Width(i)
      /\ prec = Prec(i) /\ l = Longs(i)
  BY <1>1, <1>2, <1>5, Zenon DEF FlagsRead, WidthRead
<1>7. ASSUME NEW j \in Places(p), NEW c2, NEW alt2, NEW w2, NEW prec2, NEW l2,
             c2 = Pad(j), alt2 = Alt(j), j >= a3 => fw \in Int, w2 = Width(j),
             prec2 = Prec(j), l2 = Longs(j)
      PROVE  FlagsRead(p, j, v, u, c2, alt2, w2, prec2, l2)
  BY <1>7, <1>1, <1>2, <1>5, Zenon DEF FlagsRead, WidthRead
<1>8. ASSUME i = 1, a1 = 2
      PROVE  FlagsRead(p, i + 1, v, u, p.pad, alt, w, prec, l)
  <2>1. i + 1 \in Places(p)
    BY <1>3, <1>5, <1>8
  <2>2. p.pad = Pad(i + 1)
    BY <1>3, <1>4, <1>6, <1>8
  <2>3. alt = Alt(i + 1)
    BY <1>3, <1>5, <1>6, <1>8
  <2>4. i + 1 >= a3 => fw \in Int
    BY <1>3, <1>4, <1>6, <1>8
  <2>5. w = Width(i + 1)
    <3>1. i < a3 /\ w = -1
      BY <1>3, <1>6, <1>8
    <3>2. CASE i + 1 < a3
      BY <3>1, <3>2
    <3>3. CASE ~(i + 1 < a3)
      <4>1. fw = -1 /\ ~(p.prec # << >> /\ i + 1 >= a4)
        BY <1>3, <1>4, <1>8, <3>3
      <4> QED  BY <3>1, <3>3, <4>1
    <3> QED  BY <3>2, <3>3
  <2>6. prec = Prec(i + 1)
    BY <1>3, <1>4, <1>6, <1>8
  <2>7. l = Longs(i + 1)
    BY <1>3, <1>4, <1>6, <1>8
  <2> QED  BY <1>7, <2>1, <2>2, <2>3, <2>4, <2>5, <2>6, <2>7, Zenon
<1>9. ASSUME i = a1, p.alt
      PROVE  FlagsRead(p, i + 1, v, u, c, TRUE, w, prec, l)
  <2>1. i + 1 \in Places(p)
    BY <1>3, <1>5, <1>9
  <2>2. c = Pad(i + 1)
    BY <1>3, <1>4, <1>6, <1>9
  <2>3. TRUE = Alt(i + 1)
    BY <1>3, <1>5, <1>6, <1>9
  <2>4. i + 1 >= a3 => fw \in Int
    BY <1>3, <1>4, <1>6, <1>9
  <2>5. w = Width(i + 1)
    <3>1. i < a3 /\ w = -1
      BY <1>3, <1>6, <1>9
    <3>2. CASE i + 1 < a3
      BY <3>1, <3>2
    <3>3. CASE ~(i + 1 < a3)
      <4>1. fw = -1 /\ ~(p.prec # << >> /\ i + 1 >= a4)
        BY <1>3, <1>4, <1>9, <3>3
      <4> QED  BY <3>1, <3>3, <4>1
    <3> QED  BY <3>2, <3>3
  <2>6. prec = Prec(i + 1)
    BY <1>3, <1>4, <1>6, <1>9
  <2>7. l = Longs(i + 1)
    BY <1>3, <1>4, <1>6, <1>9
  <2> QED  BY <1>7, <2>1, <2>2, <2>3, <2>4, <2>5, <2>6, <2>7, Zenon
<1>10. ASSUME i = a2, p.width # << >>, fw \in Int
       PROVE  w = -1 /\ FlagsRead(p, a3, v, u, c, alt, fw, -1, l)
  <2>1. a3 \in Places(p)
    BY <1>3, <1>5, <1>10
  <2>2. c = Pad(a3)
    BY <1>3, <1>4, <1>6, <1>10
  <2>3. alt = Alt(a3)
    BY <1>3, <1>5, <1>6, <1>10
  <2>4. a3 >= a3 => fw \in Int
    BY <1>3, <1>4, <1>6, <1>10
  <2>5. fw = Width(a3)
    BY <1>3, <1>4, <1>6, <1>10
  <2>6. -1 = Prec(a3)
    BY <1>3, <1>4, <1>6, <1>10
  <2>7. l = Longs(a3)
    BY <1>3, <1>4, <1>6, <1>10
  <2>8. w = -1
    BY <1>3, <1>4, <1>6, <1>10
  <2> QED  BY <1>7, <2>1, <2>2, <2>3, <2>4, <2>5, <2>6, <2>7, <2>8, Zenon
<1>11. ASSUME i = a3, p.prec # << >>
       PROVE  FlagsRead(p, i + 1, v, u, c, alt, IF w < 0 THEN 0 ELSE w, prec, l)
  <2>1. i + 1 \in Places(p)
    BY <1>3, <1>5, <1>11
  <2>2. c = Pad(i + 1)
    BY <1>3, <1>4, <1>6, <1>11
  <2>3. alt = Alt(i + 1)
    BY <1>3, <1>5, <1>6, <1>11
  <2>4. i + 1 >= a3 => fw \in Int
    BY <1>3, <1>4, <1>6, <1>11
  <2>5. (IF w < 0 THEN 0 ELSE w) = Width(i + 1)
    <3>1. ~(i < a3) /\ ~(i >= a4) /\ i >= a3 /\ ~(i + 1 < a3) /\ i + 1 >= a4
      BY <1>3, <1>11
    <3>2. w = fw /\ fw \in Int
      BY <1>6, <3>1
    <3> QED  BY <1>11, <3>1, <3>2
  <2>6. prec = Prec(i + 1)
    BY <1>3, <1>4, <1>6, <1>11
  <2>7. l = Longs(i + 1)
    BY <1>3, <1>4, <1>6, <1>11
  <2> QED  BY <1>7, <2>1, <2>2, <2>3, <2>4, <2>5, <2>6, <2>7, Zenon
<1>12. ASSUME i = a4, p.prec # << >>
       PROVE  w >= 0 /\ FlagsRead(p, a5, v, u, c, alt, w, fp, l)
  <2>1. a5 \in Places(p)
    BY <1>3, <1>5, <1>12
  <2>2. c = Pad(a5)
    BY <1>3, <1>4, <1>6, <1>12
  <2>3. alt = Alt(a5)
    BY <1>3, <1>5, <1>6, <1>12
  <2>4. a5 >= a3 => fw \in Int
    BY <1>3, <1>4, <1>6, <1>12
  <2>5. w = Width(a5)
    <3>1. ~(i < a3) /\ i >= a4 /\ ~(a5 < a3) /\ a5 >= a4
      BY <1>3, <1>12
    <3> QED  BY <1>6, <3>1, Zenon
  <2>6. fp = Prec(a5)
    BY <1>3, <1>4, <1>6, <1>12
  <2>7. l = Longs(a5)
    BY <1>3, <1>4, <1>6, <1>12
  <2>8. w >= 0
    BY <1>3, <1>4, <1>6, <1>12
  <2> QED  BY <1>7, <2>1, <2>2, <2>3, <2>4, <2>5, <2>6, <2>7, <2>8, Zenon
<1>13. ASSUME i \in a5 .. a6 - 1
       PROVE  FlagsRead(p, i + 1, v, u, c, alt, w, prec, l + 1)
  <2>1. i + 1 \in Places(p)
    BY <1>3, <1>5, <1>13
  <2>2. c = Pad(i + 1)
    BY <1>3, <1>4, <1>6, <1>13
  <2>3. alt = Alt(i + 1)
    BY <1>3, <1>5, <1>6, <1>13
  <2>4. i + 1 >= a3 => fw \in Int
    BY <1>3, <1>4, <1>6, <1>13
  <2>5. w = Width(i + 1)
    <3>1. ~(i < a3) /\ i >= a4 /\ ~(i + 1 < a3) /\ i + 1 >= a4
      BY <1>3, <1>13
    <3> QED  BY <1>6, <3>1, Zenon
  <2>6. prec = Prec(i + 1)
    BY <1>3, <1>4, <1>6, <1>13
  <2>7. l + 1 = Longs(i + 1)
    BY <1>3, <1>4, <1>6, <1>13
  <2> QED  BY <1>7, <2>1, <2>2, <2>3, <2>4, <2>5, <2>6, <2>7, Zenon
<1> QED  BY <1>1, <1>2, <1>8, <1>9, <1>10, <1>11, <1>12, <1>13, Zenon

LEMMA PlacesTyped ==
  ASSUME NEW p, IsConversion(p), NEW i \in Places(p)
  PROVE  i \in 1 .. AfterLong(p) /\ i \in Nat
<1> PICK a1, a2, a3, a4, a5, a6 :
      /\ a1 = AfterPad(p) /\ a2 = AfterAlt(p) /\ a3 = AfterWidth(p)
      /\ a4 = AfterDot(p) /\ a5 = AfterPrec(p) /\ a6 = AfterLong(p)
  OBVIOUS
<1>1. /\ a1 \in 1 .. 2 /\ a2 \in Nat /\ a3 \in Nat /\ a4 \in Nat /\ a5 \in Nat /\ a6 \in Nat
      /\ a1 <= a2 /\ a2 <= a3 /\ a3 <= a4 /\ a4 <= a5 /\ a5 <= a6
  BY OffsetsTyped
<1>2. i \in {1, a1, a2, a3, a4} \cup a5 .. a6
  BY DEF Places
<1>3. i \in 1 .. a6 /\ i \in Nat
  BY <1>1, <1>2
<1> QED  BY <1>3

\* How many arguments each flag takes.
LEMMA TakenEach ==
  ASSUME NEW p, IsConversion(p), NEW i \in Places(p)
  PROVE  /\ Taken(p, i) \in Nat
         /\ i = 1 /\ AfterPad(p) = 2 => Taken(p, i + 1) = Taken(p, i)
         /\ i = AfterPad(p) /\ p.alt => Taken(p, i + 1) = Taken(p, i)
         /\ i = AfterAlt(p) /\ p.width # << >> =>
              Taken(p, i) = 0 /\ Taken(p, AfterWidth(p)) = Taken(p, i) + Stars(p.width)
         /\ i = AfterWidth(p) /\ p.prec # << >> => Taken(p, i + 1) = Taken(p, i)
         /\ i = AfterDot(p) /\ p.prec # << >> =>
              Taken(p, i) = Stars(p.width) /\ Taken(p, AfterPrec(p)) = Taken(p, i) + Stars(p.prec)
         /\ i \in AfterPrec(p) .. AfterLong(p) - 1 => Taken(p, i + 1) = Taken(p, i)
         /\ i = AfterLong(p) => Taken(p, i) = Stars(p.width) + Stars(p.prec)
<1>1. PICK sw, sp : sw = Stars(p.width) /\ sp = Stars(p.prec)
  OBVIOUS
<1>2. PICK a1, a2, a3, a4, a5, a6 :
        /\ a1 = AfterPad(p) /\ a2 = AfterAlt(p) /\ a3 = AfterWidth(p)
        /\ a4 = AfterDot(p) /\ a5 = AfterPrec(p) /\ a6 = AfterLong(p)
  OBVIOUS
<1>3. /\ a1 \in 1 .. 2 /\ a2 \in Nat /\ a3 \in Nat /\ a4 \in Nat /\ a5 \in Nat /\ a6 \in Nat
      /\ a1 <= a2 /\ a2 <= a3 /\ a3 <= a4 /\ a4 <= a5 /\ a5 <= a6
      /\ (a1 = 1 <=> p.pad = Blank) /\ (p.alt => a2 = a1 + 1) /\ (~p.alt => a2 = a1)
      /\ (p.width = << >> <=> a3 = a2)
      /\ (p.prec = << >> => a4 = a3 /\ a5 = a3)
      /\ (p.prec # << >> => a4 = a3 + 1 /\ a5 > a4)
  BY <1>2, Offsets
<1>4. /\ sw \in Nat /\ sp \in Nat
      /\ p.width = << >> => sw = 0
      /\ p.prec = << >> => sp = 0
  <2>1. << >> # <<"*">>
    OBVIOUS
  <2>2. \A cs : IsNumber(cs) => Stars(cs) \in Nat /\ (cs = << >> => Stars(cs) = 0)
    BY <2>1, StarsNumber
  <2>3. IsNumber(p.width) /\ IsNumber(p.prec)
    BY DEF IsConversion
  <2> QED  BY <1>1, <2>2, <2>3
<1>5. \A j : Taken(p, j) = (IF j < a3 THEN 0 ELSE sw) + (IF j < a5 THEN 0 ELSE sp)
  BY <1>1, <1>2, Zenon DEF Taken
<1>6. i \in Nat
  BY PlacesTyped
<1>7. Taken(p, i) \in Nat
  BY <1>3, <1>4, <1>5, <1>6
<1>8. i = 1 /\ a1 = 2 => Taken(p, i + 1) = Taken(p, i)
  BY <1>3, <1>4, <1>5, <1>6
<1>9. i = a1 /\ p.alt => Taken(p, i + 1) = Taken(p, i)
  BY <1>3, <1>4, <1>5, <1>6
<1>10. i = a2 /\ p.width # << >> => Taken(p, i) = 0 /\ Taken(p, a3) = Taken(p, i) + sw
  BY <1>3, <1>4, <1>5, <1>6
<1>11. i = a3 /\ p.prec # << >> => Taken(p, i + 1) = Taken(p, i)
  BY <1>3, <1>4, <1>5, <1>6
<1>12. i = a4 /\ p.prec # << >> => Taken(p, i) = sw /\ Taken(p, a5) = Taken(p, i) + sp
  BY <1>3, <1>4, <1>5, <1>6
<1>13. i \in a5 .. a6 - 1 => Taken(p, i + 1) = Taken(p, i)
  BY <1>3, <1>4, <1>5, <1>6
<1>14. i = a6 => Taken(p, i) = sw + sp
  BY <1>3, <1>4, <1>5, <1>6
<1> QED  BY <1>1, <1>2, <1>7, <1>8, <1>9, <1>10, <1>11, <1>12, <1>13, <1>14, Zenon

\* What the parser meets in a conversion.
LEMMA ConversionMeets ==
  ASSUME Parsing, NEW k, NEW i, PieceAt(k, i), format[k].kind = "conversion",
         NEW p, p = format[k]
  PROVE  /\ k \in 1 .. Len(format) /\ k \in Nat /\ IsConversion(p) /\ i \in Places(p) /\ i \in Nat
         /\ Meets(p, i, fmt[f])
         /\ f = End(format, k - 1) + i + 1 /\ End(format, k - 1) \in Nat
         /\ TakenSo(k, Taken(p, i))
         /\ Parsed(p, i, args[FirstOf(format, k)], args[FirstOf(format, k) + Stars(p.width)])
         /\ Intended => Said(format, args, k - 1, out)
<1>1. format \in Formats /\ Len(format) \in Nat
  BY FormatTyped DEF Parsing
<1>2. /\ k \in 1 .. Len(format) /\ f = End(format, k - 1) + i + 1
      /\ TakenSo(k, Taken(p, i))
      /\ Parsed(p, i, args[FirstOf(format, k)], args[FirstOf(format, k) + Stars(p.width)])
      /\ Intended => Said(format, args, k - 1, out)
  BY DEF PieceAt
<1>3. IsConversion(p)
  <2>1. IsPiece(format[k], k = Len(format))
    BY <1>1, <1>2, FormatTyped
  <2> QED  BY <2>1, PieceKind
<1>4. i \in Places(p)
  BY <1>2, Zenon DEF Parsed, FlagsRead
<1>5. i \in Nat /\ i < Len(Spelled(p))
  <2>1. i \in Nat /\ i \in 1 .. AfterLong(p) /\ AfterLong(p) \in Nat
    BY <1>3, <1>4, PlacesTyped, OffsetsTyped
  <2>2. Len(Spelled(p)) = AfterLong(p) + 1
    BY <1>3, ConversionSpelled
  <2> QED  BY <2>1, <2>2
<1>6. fmt[f] = Spelled(p)[i + 1]
  BY <1>2, <1>5, CharacterAt
<1>7. Meets(p, i, fmt[f])
  BY <1>3, <1>4, <1>6, MeetsEach
<1>8. End(format, k - 1) \in Nat
  <2>1. k - 1 \in 0 .. Len(format)
    BY <1>1, <1>2
  <2> QED  BY <1>1, <2>1, EndNext
<1>9. k \in Nat
  BY <1>2
<1> QED  BY <1>2, <1>3, <1>4, <1>5, <1>7, <1>8, <1>9, Zenon

\* Flags of a conversion are read.
LEMMA ConversionGoesOn ==
  ASSUME Parsing, NEW k, NEW i, PieceAt(k, i), format[k].kind = "conversion",
         NEW p, p = format[k], NEW j \in Places(p), f' = f + (j - i),
         format' = format, out' = out, TakenSo(k, Taken(p, j))',
         Parsed(p, j, args[FirstOf(format, k)], args[FirstOf(format, k) + Stars(p.width)])',
         Intended => Said(format, args', k - 1, out)
  PROVE  (\E h, e \in Nat : PieceAt(h, e))'
<1>1. /\ k \in 1 .. Len(format) /\ k \in Nat /\ IsConversion(p) /\ i \in Nat
      /\ f = End(format, k - 1) + i + 1 /\ End(format, k - 1) \in Nat
  BY ConversionMeets
<1>2. j \in Nat /\ j \in 1 .. Len(Spelled(p))
  <2>1. j \in Nat /\ j \in 1 .. AfterLong(p) /\ AfterLong(p) \in Nat
    BY <1>1, PlacesTyped, OffsetsTyped
  <2>2. Len(Spelled(p)) = AfterLong(p) + 1
    BY <1>1, ConversionSpelled
  <2> QED  BY <2>1, <2>2
<1>3. f' = End(format, k - 1) + j + 1
  <2>1. f + (j - i) = End(format, k - 1) + j + 1
    BY <1>1, <1>2, PlaceOnward
  <2> QED  BY <2>1
<1>4. Intended' => Said(format, args', k - 1, out)
  BY IntendedSame
<1>5. PieceAt(k, j)'
  BY <1>1, <1>2, <1>3, <1>4, Zenon DEF PieceAt
<1> QED  BY <1>1, <1>2, <1>5, Zenon

LEMMA ConversionFlag ==
  ASSUME Parsing, NEW k, NEW i, PieceAt(k, i), format[k].kind = "conversion",
         pad \/ dot \/ alternate \/ long
  PROVE  (\E h, e \in Nat : PieceAt(h, e))'
<1>1. PICK p, v, u : /\ p = format[k] /\ v = args[FirstOf(format, k)]
                     /\ u = args[FirstOf(format, k) + Stars(p.width)]
  OBVIOUS
<1>2. /\ IsConversion(p) /\ i \in Places(p) /\ i \in Nat /\ Meets(p, i, fmt[f])
      /\ TakenSo(k, Taken(p, i)) /\ (Intended => Said(format, args, k - 1, out))
      /\ FlagsRead(p, i, v, u, padc, altflag, width, precision, lflag)
  BY <1>1, ConversionMeets DEF Parsed
<1>3. UNCHANGED <<format, args, out>> /\ f' = f + 1
  BY DEF pad, dot, alternate, long, call
<1>4. ASSUME FlagsRead(p, i + 1, v, u, padc', altflag', width', precision', lflag'),
             Taken(p, i + 1) = Taken(p, i)
      PROVE  (\E h, e \in Nat : PieceAt(h, e))'
  <2>1. PICK j : j = i + 1
    OBVIOUS
  <2>2. f' = f + (j - i)
    BY <1>2, <1>3, <2>1
  <2>3. j \in Places(p)
    BY <1>4, <2>1, Zenon DEF FlagsRead
  <2>4. TakenSo(k, Taken(p, j))'
    BY <1>2, <1>3, <1>4, <2>1 DEF TakenSo
  <2>5. Parsed(p, j, args[FirstOf(format, k)], args[FirstOf(format, k) + Stars(p.width)])'
    BY <1>1, <1>3, <1>4, <2>1, Zenon DEF Parsed
  <2> QED  BY <1>1, <1>2, <1>3, <2>2, <2>3, <2>4, <2>5, ConversionGoesOn
<1>5. /\ i = 1 /\ AfterPad(p) = 2 =>
           FlagsRead(p, i + 1, v, u, p.pad, altflag, width, precision, lflag)
      /\ i = AfterPad(p) /\ p.alt =>
           FlagsRead(p, i + 1, v, u, padc, TRUE, width, precision, lflag)
      /\ i = AfterWidth(p) /\ p.prec # << >> =>
           FlagsRead(p, i + 1, v, u, padc, altflag, IF width < 0 THEN 0 ELSE width, precision, lflag)
      /\ i \in AfterPrec(p) .. AfterLong(p) - 1 =>
           FlagsRead(p, i + 1, v, u, padc, altflag, width, precision, lflag + 1)
  BY <1>2, ReadNext
<1>6. CASE pad
  <2>1. padc' \in {"-", "0"} /\ fmt[f] = padc' /\ UNCHANGED <<width, precision, lflag, altflag>>
    BY <1>6 DEF pad, Switch
  <2>2. i = 1 /\ AfterPad(p) = 2 /\ padc' = p.pad
    BY <1>2, <2>1, MeetsFlag
  <2> QED  BY <1>2, <1>4, <1>5, <2>1, <2>2, TakenEach
<1>7. CASE dot
  <2>1. /\ fmt[f] = "." /\ width' = (IF width < 0 THEN 0 ELSE width)
        /\ UNCHANGED <<padc, precision, lflag, altflag>>
    BY <1>7 DEF dot, Switch
  <2>2. i = AfterWidth(p) /\ p.prec # << >>
    BY <1>2, <2>1, MeetsFlag
  <2> QED  BY <1>2, <1>4, <1>5, <2>1, <2>2, TakenEach
<1>8. CASE alternate
  <2>1. fmt[f] = "#" /\ altflag' = TRUE /\ UNCHANGED <<padc, width, precision, lflag>>
    BY <1>8 DEF alternate, Switch
  <2>2. i = AfterPad(p) /\ p.alt
    BY <1>2, <2>1, MeetsFlag
  <2> QED  BY <1>2, <1>4, <1>5, <2>1, <2>2, TakenEach
<1>9. CASE long
  <2>1. fmt[f] = "l" /\ lflag' = lflag + 1 /\ UNCHANGED <<padc, width, precision, altflag>>
    BY <1>9 DEF long, Switch
  <2>2. i \in AfterPrec(p) .. AfterLong(p) - 1
    BY <1>2, <2>1, MeetsFlag
  <2> QED  BY <1>2, <1>4, <1>5, <2>1, <2>2, TakenEach
<1> QED  BY <1>6, <1>7, <1>8, <1>9

LEMMA ConversionStar ==
  ASSUME Parsing, Following, NEW k, NEW i, PieceAt(k, i), format[k].kind = "conversion", star
  PROVE  (\E h, e \in Nat : PieceAt(h, e))'
<1>1. PICK p, m, sw, u : /\ p = format[k] /\ m = FirstOf(format, k) /\ sw = Stars(p.width)
                         /\ u = args[m + sw]
  OBVIOUS
<1>2. /\ k \in 1 .. Len(format) /\ IsConversion(p) /\ i \in Places(p) /\ i \in Nat
      /\ Meets(p, i, fmt[f]) /\ TakenSo(k, Taken(p, i))
      /\ (Intended => Said(format, args, k - 1, out))
      /\ FlagsRead(p, i, args[m], u, padc, altflag, width, precision, lflag)
  BY <1>1, ConversionMeets DEF Parsed
<1>3. PICK v \in StarArg : Precision(v) /\ args' = Append(args, v)
  BY DEF star
<1>4. UNCHANGED <<format, out, padc, altflag, lflag>> /\ f' = f + 1 /\ fmt[f] = "*" /\ v \in Int
  BY PrintFmtAssumption DEF star, Switch, call
<1>5. /\ IsSequence(args) /\ args' = args \o <<v>> /\ Len(args') = Len(args) + 1
      /\ args'[Len(args) + 1] = v /\ \A e \in 1 .. Len(args) : args'[e] = args[e]
  <2>1. IsSequence(args)
    BY DEF Following
  <2> QED  BY <1>3, <2>1, AppendIs
<1>6. m \in Nat \ {0} /\ Taken(p, i) \in Nat /\ Stars(p.width) \in Nat
  <2>1. format \in Formats /\ k \in 1 .. Len(format) + 1
    BY <1>2, FormatTyped DEF Parsing
  <2>2. IsNumber(p.width)
    BY <1>2 DEF IsConversion
  <2> QED  BY <1>1, <1>2, <2>1, <2>2, FirstGrows, StarsNumber, TakenEach
<1>7. Intended => Said(format, args', k - 1, out)
  <2>1. IsSequence(<<v>>)
    BY Singleton
  <2> QED  BY <1>2, <1>5, <1>6, <2>1, SaidMore
<1>8. ASSUME NEW j \in Places(p), j = i + 1, Taken(p, j) = Taken(p, i) + 1,
             FlagsRead(p, j, args'[m], args'[m + sw], padc, altflag, width', precision', lflag)
      PROVE  (\E h, e \in Nat : PieceAt(h, e))'
  <2>1. f' = f + (j - i)
    BY <1>2, <1>4, <1>8
  <2>2. TakenSo(k, Taken(p, j))'
    BY <1>2, <1>4, <1>5, <1>6, <1>8, TakenNext
  <2>3. Parsed(p, j, args[FirstOf(format, k)], args[FirstOf(format, k) + Stars(p.width)])'
    BY <1>1, <1>4, <1>8, Zenon DEF Parsed
  <2> QED  BY <1>1, <1>4, <1>7, <2>1, <2>2, <2>3, ConversionGoesOn
<1>9. Len(args) = m - 1 + Taken(p, i)
  BY <1>1, <1>2, Zenon DEF TakenSo
\* A star for the width.
<1>10. ASSUME i = AfterAlt(p), p.width = <<"*">>, i < AfterWidth(p)
       PROVE  (\E h, e \in Nat : PieceAt(h, e))'
  <2>1. p.width # << >> /\ Len(p.width) = 1 /\ Stars(p.width) = 1
    <3>1. IsNumber(p.width)
      BY <1>2 DEF IsConversion
    <3> QED  BY <1>10, <3>1, StarsNumber
  <2>2. AfterWidth(p) = i + 1 /\ AfterWidth(p) \in Places(p)
    BY <1>10, <2>1 DEF AfterWidth, Places
  <2>3. Taken(p, i) = 0 /\ Taken(p, AfterWidth(p)) = Taken(p, i) + 1
    BY <1>2, <1>10, <2>1, TakenEach
  <2>4. args'[m] = v
    <3>1. Len(args) + 1 = m
      BY <1>6, <1>9, <2>3
    <3> QED  BY <1>5, <3>1
  <2>5. Field(p.width, v) = v
    BY <1>10, <2>1, Zenon DEF Field
  <2>6. i < AfterPrec(p) /\ ~(i >= AfterWidth(p))
    <3>1. AfterWidth(p) \in Nat /\ AfterPrec(p) \in Nat /\ AfterWidth(p) <= AfterDot(p)
          /\ AfterDot(p) <= AfterPrec(p) /\ AfterDot(p) \in Nat
      BY <1>2, OffsetsTyped
    <3> QED  BY <1>2, <1>10, <3>1
  <2>7. FlagsRead(p, i, v, args'[m + sw], padc, altflag, width, precision, lflag)
    BY <1>2, <1>10, <2>6, ReadAlike
  <2>8. width = -1 /\ FlagsRead(p, AfterWidth(p), v, args'[m + sw], padc, altflag, v, -1, lflag)
    <3>1. i = AfterAlt(p) /\ p.width # << >> /\ Field(p.width, v) \in Int =>
            /\ width = -1
            /\ FlagsRead(p, AfterWidth(p), v, args'[m + sw], padc, altflag, Field(p.width, v), -1, lflag)
      BY <1>2, <2>7, ReadNext
    <3>2. Field(p.width, v) \in Int
      BY <1>4, <2>5
    <3> QED  BY <1>10, <2>1, <2>5, <3>1, <3>2
  <2>9. width' = v /\ precision' = -1
    BY <1>3, <2>8 DEF Precision
  <2> QED  BY <1>8, <2>2, <2>3, <2>4, <2>8, <2>9
\* A star for the precision.
<1>11. ASSUME i = AfterDot(p), p.prec = <<"*">>, p.prec # << >>, AfterWidth(p) < i, i < AfterPrec(p)
       PROVE  (\E h, e \in Nat : PieceAt(h, e))'
  <2>1. Len(p.prec) = 1 /\ Stars(p.prec) = 1
    <3>1. IsNumber(p.prec)
      BY <1>2 DEF IsConversion
    <3> QED  BY <1>11, <3>1, StarsNumber
  <2>2. AfterPrec(p) = i + 1 /\ AfterPrec(p) \in Places(p)
    <3>1. AfterPrec(p) = i + 1
      BY <1>11, <2>1 DEF AfterPrec
    <3>2. AfterPrec(p) \in AfterPrec(p) .. AfterLong(p)
      BY <1>2, OffsetsTyped
    <3> QED  BY <3>1, <3>2 DEF Places
  <2>3. Taken(p, i) = sw /\ Taken(p, AfterPrec(p)) = Taken(p, i) + 1
    BY <1>1, <1>2, <1>11, <2>1, TakenEach
  <2>4. args'[m + sw] = v
    <3>1. Len(args) + 1 = m + sw
      BY <1>1, <1>6, <1>9, <2>3
    <3> QED  BY <1>5, <3>1
  <2>5. Field(p.width, args'[m]) = Field(p.width, args[m])
    <3>1. p.width = <<"*">> => args'[m] = args[m]
      <4>1. ASSUME p.width = <<"*">> PROVE m \in 1 .. Len(args)
        <5>1. sw = 1
          BY <1>1, <1>2, <4>1, StarsNumber DEF IsConversion
        <5> QED  BY <1>6, <1>9, <2>3, <5>1
      <4> QED  BY <1>5, <4>1
    <3> QED  BY <3>1, FieldSame
  <2>6. Field(p.prec, v) = v
    BY <1>11, Zenon DEF Field
  <2>7. FlagsRead(p, i, args'[m], v, padc, altflag, width, precision, lflag)
    <3>1. ~(i < AfterWidth(p))
      BY <1>2, <1>11, OffsetsTyped
    <3> QED  BY <1>2, <1>11, <2>5, <3>1, ReadAlike
  <2>8. width >= 0 /\ FlagsRead(p, AfterPrec(p), args'[m], v, padc, altflag, width, v, lflag)
    BY <1>2, <1>11, <2>6, <2>7, ReadNext
  <2>9. width' = width /\ precision' = v
    <3>1. width \in Int
      BY DEF Parsing
    <3> QED  BY <1>3, <2>8, <3>1 DEF Precision
  <2> QED  BY <1>8, <2>2, <2>3, <2>4, <2>8, <2>9
<1> QED  BY <1>2, <1>4, <1>10, <1>11, MeetsFlag

\* Behind the h-th character of x come the l digits cs, and then none.
DigitsAt(x, h, cs, l) ==
  /\ cs \in Seq(Digit) /\ l = Len(cs)
  /\ \A j \in 1 .. l : x[h + j] = cs[j]
  /\ x[h + (l + 1)] \notin Digit

LEMMA Behind ==
  ASSUME NEW g \in Nat, NEW l \in Nat, NEW m \in g + 1 .. l
  PROVE  m \in Nat /\ g < m
OBVIOUS

\* These are the number that is read.
LEMMA DigitsAre ==
  ASSUME NEW x, NEW h \in Nat, NEW cs, NEW l, DigitsAt(x, h, cs, l), NEW g, g = h + 1,
         NEW m \in Nat, g < m, \A e \in g .. m - 1 : x[e] \in Digit, x[m] \notin Digit
  PROVE  m = g + l /\ SubSeq(x, g, m - 1) = cs
<1>1. cs \in Seq(Digit) /\ l \in Nat /\ Len(cs) = l /\ \A d \in 1 .. l : cs[d] \in Digit
  BY ElementOfSeq DEF DigitsAt
<1>2. m <= g + l
  <2> SUFFICES ASSUME ~(m <= g + l) PROVE FALSE
    OBVIOUS
  <2>1. h + (l + 1) \in g .. m - 1
    BY <1>1
  <2> QED  BY <2>1 DEF DigitsAt
<1>3. ~(m < g + l)
  <2> SUFFICES ASSUME m < g + l PROVE FALSE
    OBVIOUS
  <2>1. PICK d : d = m - h
    OBVIOUS
  <2>2. d \in 1 .. l /\ m = h + d
    BY <1>1, <2>1
  <2> QED  BY <1>1, <2>2 DEF DigitsAt
<1>4. m = g + l /\ (m - 1) - g + 1 = l /\ m - 1 \in Int /\ g \in Int /\ g <= m - 1
  BY <1>1, <1>2, <1>3
<1>5. PICK t : t = SubSeq(x, g, m - 1)
  OBVIOUS
<1>6. t \in Seq(Digit) /\ Len(t) = l /\ \A d \in 1 .. l : t[d] = x[g + d - 1]
  BY <1>4, <1>5, SubSeqProperties
<1>7. \A d \in 1 .. l : t[d] = cs[d]
  <2>1. \A d \in 1 .. l : g + d - 1 = h + d
    BY <1>1
  <2> QED  BY <1>6, <2>1 DEF DigitsAt
<1>8. t = cs
  BY <1>1, <1>6, <1>7, SeqEqual
<1> QED  BY <1>4, <1>5, <1>8

LEMMA NoDigit ==
  ASSUME NEW p, IsConversion(p), NEW z \in Places(p), z # 1,
         ~(z = AfterAlt(p) /\ z < AfterWidth(p)), ~(z = AfterDot(p) /\ z < AfterPrec(p))
  PROVE  Spelled(p)[z + 1] \notin Digit
<1>1. Meets(p, z, Spelled(p)[z + 1])
  BY MeetsEach
<1>2. PICK c : c = Spelled(p)[z + 1]
  OBVIOUS
<1>3. c \notin {"-", "0"} /\ c \notin Digit \ {"0"}
  BY <1>1, <1>2, MeetsFlag
<1> QED  BY <1>2, <1>3

LEMMA NextWithin ==
  ASSUME NEW i \in Nat, NEW l \in Nat, NEW e0 \in Nat, NEW h, h = e0 + i,
         NEW a \in Nat, NEW z \in 1 .. a, z = i + l, NEW j \in 1 .. l + 1
  PROVE  i + j \in 1 .. a + 1 /\ e0 + (i + j) = h + j
OBVIOUS

\* The number that is read is that which the piece has there.
LEMMA ConversionDigits ==
  ASSUME Parsing, NEW k, NEW i, PieceAt(k, i), format[k].kind = "conversion",
         NEW p, p = format[k], NEW cs, NEW l, DigitsAt(Spelled(p), i, cs, l),
         NEW z \in Places(p), z = i + l, number
  PROVE  /\ UNCHANGED <<format, args, out, padc, altflag, lflag>>
         /\ f' = f + (z - i) /\ Precision(Value(cs))
<1>1. /\ k \in 1 .. Len(format) /\ IsConversion(p) /\ i \in Nat
      /\ f = End(format, k - 1) + i + 1 /\ End(format, k - 1) \in Nat
  BY ConversionMeets
<1>2. PICK m \in f + 1 .. Len(fmt) :
        /\ fmt[m] \notin Digit /\ \A e \in f .. m - 1 : fmt[e] \in Digit
        /\ UNCHANGED <<format, args, out>> /\ f' = m
        /\ Precision(Value(SubSeq(fmt, f, m - 1))) /\ UNCHANGED <<padc, altflag, lflag>>
  BY NumberRead
<1>3. PICK e0, s, a : e0 = End(format, k - 1) /\ s = Spelled(p) /\ a = AfterLong(p)
  OBVIOUS
<1>4. PICK h : h = e0 + i
  OBVIOUS
<1>5. e0 \in Nat /\ i \in Nat /\ h \in Nat /\ f = h + 1 /\ f \in Nat
  <2>1. e0 \in Nat /\ i \in Nat /\ f = e0 + i + 1
    BY <1>1, <1>3
  <2> QED  BY <1>4, <2>1
<1>6. l \in Nat
  BY DEF DigitsAt
<1>7. m \in Nat /\ f < m
  <2>1. Len(fmt) \in Nat
    BY FmtTyped DEF Parsing
  <2> QED  BY <1>5, <2>1, Behind
<1>8. ASSUME NEW j \in 1 .. l + 1 PROVE fmt[h + j] = s[i + j]
  <2>1. Len(s) = a + 1 /\ a \in Nat
    BY <1>1, <1>3, ConversionSpelled, OffsetsTyped
  <2>2. z \in 1 .. a
    BY <1>1, <1>3, PlacesTyped
  <2>3. i + j \in 1 .. a + 1 /\ e0 + (i + j) = h + j
    <3>1. a \in Nat
      BY <2>1
    <3> QED  BY <1>4, <1>5, <1>6, <2>2, <3>1, NextWithin, SMTT(60)
  <2>4. fmt[e0 + (i + j)] = s[i + j]
    BY <1>1, <1>3, <2>1, <2>3, WholeAt DEF Parsing
  <2> QED  BY <2>3, <2>4
<1>9. DigitsAt(fmt, h, cs, l)
  <2>1. l + 1 \in 1 .. l + 1 /\ \A j \in 1 .. l : j \in 1 .. l + 1
    BY <1>6
  <2> QED  BY <1>3, <1>8, <2>1, Zenon DEF DigitsAt
<1>10. m = f + l /\ SubSeq(fmt, f, m - 1) = cs
  BY <1>2, <1>5, <1>7, <1>9, DigitsAre
<1>11. f + l = f + (z - i)
  BY <1>5, <1>6
<1> QED  BY <1>2, <1>10, <1>11

LEMMA ConversionNumber ==
  ASSUME Parsing, NEW k, NEW i, PieceAt(k, i), format[k].kind = "conversion", number
  PROVE  (\E h, e \in Nat : PieceAt(h, e))'
<1>1. PICK p, v, u : /\ p = format[k] /\ v = args[FirstOf(format, k)]
                     /\ u = args[FirstOf(format, k) + Stars(p.width)]
  OBVIOUS
<1>2. /\ IsConversion(p) /\ i \in Places(p) /\ i \in Nat /\ Meets(p, i, fmt[f])
      /\ TakenSo(k, Taken(p, i)) /\ (Intended => Said(format, args, k - 1, out))
      /\ FlagsRead(p, i, v, u, padc, altflag, width, precision, lflag)
  BY <1>1, ConversionMeets DEF Parsed
<1>3. fmt[f] \in Digit \ {"0"}
  BY DEF number
<1>4. ASSUME NEW cs \in Seq(Digit), NEW j \in Places(p), j = i + Len(cs),
             \A e \in 1 .. Len(cs) : Spelled(p)[i + e] = cs[e], Spelled(p)[j + 1] \notin Digit
      PROVE  /\ UNCHANGED <<format, args, out, padc, altflag, lflag>>
             /\ f' = f + (j - i) /\ Precision(Value(cs))
  <2>1. PICK l, s : l = Len(cs) /\ s = Spelled(p)
    OBVIOUS
  <2>2. l \in Nat /\ j = i + l
    BY <1>4, <2>1
  <2>3. j + 1 = i + (l + 1)
    BY <1>2, <2>2
  <2>4. DigitsAt(s, i, cs, l)
    BY <1>4, <2>1, <2>3, Zenon DEF DigitsAt
  <2> QED  BY <1>1, <2>1, <2>2, <2>4, ConversionDigits
<1>5. ASSUME NEW j \in Places(p), UNCHANGED <<format, args, out, padc, altflag, lflag>>,
             f' = f + (j - i), Taken(p, j) = Taken(p, i),
             FlagsRead(p, j, v, u, padc, altflag, width', precision', lflag)
      PROVE  (\E h, e \in Nat : PieceAt(h, e))'
  <2>1. TakenSo(k, Taken(p, j))'
    BY <1>2, <1>5 DEF TakenSo
  <2>2. Parsed(p, j, args[FirstOf(format, k)], args[FirstOf(format, k) + Stars(p.width)])'
    BY <1>1, <1>5, Zenon DEF Parsed
  <2> QED  BY <1>1, <1>2, <1>5, <2>1, <2>2, ConversionGoesOn
<1>6. Taken(p, i) \in Nat
  BY <1>2, TakenEach
<1>7. PICK a2, a3, a4, a5, a6 :
        /\ a2 = AfterAlt(p) /\ a3 = AfterWidth(p) /\ a4 = AfterDot(p) /\ a5 = AfterPrec(p)
        /\ a6 = AfterLong(p)
  OBVIOUS
<1>8. /\ a2 \in Nat /\ a2 >= 1 /\ a3 \in Nat /\ a4 \in Nat /\ a5 \in Nat /\ a6 \in Nat
      /\ a2 <= a3 /\ a3 <= a4 /\ a4 <= a5 /\ a5 <= a6
  BY <1>2, <1>7, OffsetsTyped
\* The digits of the width.
<1>9. ASSUME i = AfterAlt(p), p.width \in Seq(Digit), p.width # <<"*">>, p.width # << >>,
             i < AfterWidth(p)
      PROVE  (\E h, e \in Nat : PieceAt(h, e))'
  <2>1. AfterWidth(p) \in Places(p)
    BY DEF Places
  <2>2. AfterWidth(p) = i + Len(p.width)
    BY <1>9 DEF AfterWidth
  <2>3. \A e \in 1 .. Len(p.width) : Spelled(p)[i + e] = p.width[e]
    BY <1>2, <1>9, ConversionSpelled
  <2>4. Spelled(p)[AfterWidth(p) + 1] \notin Digit
    <3>1. a3 # 1 /\ ~(a3 = a2) /\ ~(a3 = a4 /\ a3 < a5 /\ p.prec # << >>)
      <4>1. p.prec # << >> => a4 = a3 + 1
        BY <1>7, <1>8 DEF AfterDot
      <4> QED  BY <1>7, <1>8, <1>9, <4>1
    <3>2. p.prec = << >> => a5 = a4
      <4>1. p.prec = << >> => Len(p.prec) = 0
        OBVIOUS
      <4> QED  BY <1>7, <1>8, <4>1 DEF AfterPrec
    <3>3. ~(a3 = a4 /\ a3 < a5)
      BY <1>8, <3>1, <3>2
    <3> QED  BY <1>2, <1>7, <2>1, <3>1, <3>3, NoDigit
  <2>5. /\ UNCHANGED <<format, args, out, padc, altflag, lflag>>
        /\ f' = f + (AfterWidth(p) - i) /\ Precision(Value(p.width))
    BY <1>4, <1>9, <2>1, <2>2, <2>3, <2>4
  <2>6. Field(p.width, v) = Value(p.width) /\ Value(p.width) \in Int
    <3>1. Field(p.width, v) = Value(p.width)
      BY <1>9, Zenon DEF Field
    <3>2. Value(p.width) \in Nat
      BY <1>9, ValueTyped
    <3> QED  BY <3>1, <3>2
  <2>7. width = -1 /\ FlagsRead(p, AfterWidth(p), v, u, padc, altflag, Value(p.width), -1, lflag)
    <3>1. i = AfterAlt(p) /\ p.width # << >> /\ Field(p.width, v) \in Int =>
            /\ width = -1
            /\ FlagsRead(p, AfterWidth(p), v, u, padc, altflag, Field(p.width, v), -1, lflag)
      BY <1>2, ReadNext
    <3> QED  BY <1>9, <2>6, <3>1
  <2>8. width' = Value(p.width) /\ precision' = -1
    BY <2>5, <2>7 DEF Precision
  <2>9. Taken(p, AfterWidth(p)) = Taken(p, i)
    <3>1. Stars(p.width) = 0
      BY <1>2, <1>9, StarsNumber DEF IsConversion
    <3> QED  BY <1>2, <1>6, <1>9, <3>1, TakenEach
  <2> QED  BY <1>5, <2>1, <2>5, <2>7, <2>8, <2>9
\* The digits of the precision.
<1>10. ASSUME i = AfterDot(p), p.prec \in Seq(Digit), p.prec # <<"*">>, p.prec # << >>,
              AfterWidth(p) < i, i < AfterPrec(p)
       PROVE  (\E h, e \in Nat : PieceAt(h, e))'
  <2>1. AfterPrec(p) \in Places(p)
    <3>1. a5 \in a5 .. a6
      BY <1>8
    <3> QED  BY <1>7, <3>1 DEF Places
  <2>2. AfterPrec(p) = i + Len(p.prec)
    BY <1>10 DEF AfterPrec
  <2>3. \A e \in 1 .. Len(p.prec) : Spelled(p)[i + e] = p.prec[e]
    BY <1>2, <1>10, ConversionSpelled
  <2>4. Spelled(p)[AfterPrec(p) + 1] \notin Digit
    <3>1. a5 # 1 /\ ~(a5 < a3) /\ ~(a5 < a5)
      BY <1>7, <1>8, <1>10
    <3> QED  BY <1>2, <1>7, <2>1, <3>1, NoDigit
  <2>5. /\ UNCHANGED <<format, args, out, padc, altflag, lflag>>
        /\ f' = f + (AfterPrec(p) - i) /\ Precision(Value(p.prec))
    BY <1>4, <1>10, <2>1, <2>2, <2>3, <2>4
  <2>6. Field(p.prec, u) = Value(p.prec)
    BY <1>10, Zenon DEF Field
  <2>7. width >= 0 /\ FlagsRead(p, AfterPrec(p), v, u, padc, altflag, width, Value(p.prec), lflag)
    BY <1>2, <1>10, <2>6, ReadNext
  <2>8. width' = width /\ precision' = Value(p.prec)
    <3>1. width \in Int
      BY DEF Parsing
    <3> QED  BY <2>5, <2>7, <3>1 DEF Precision
  <2>9. Taken(p, AfterPrec(p)) = Taken(p, i)
    <3>1. Stars(p.prec) = 0
      BY <1>2, <1>10, StarsNumber DEF IsConversion
    <3> QED  BY <1>2, <1>6, <1>10, <3>1, TakenEach
  <2> QED  BY <1>5, <2>1, <2>5, <2>7, <2>8, <2>9
<1> QED  BY <1>2, <1>3, <1>9, <1>10, MeetsFlag
-----------------------------------------------------------------------------
(* What the parser has read and printed, step by step: conversions.        *)

\* All flags of a conversion are read.
LEMMA AllRead ==
  ASSUME NEW p, IsConversion(p), NEW v, NEW u, NEW c, NEW alt, NEW w, NEW prec, NEW l,
         FlagsRead(p, AfterLong(p), v, u, c, alt, w, prec, l)
  PROVE  /\ c = p.pad /\ alt = p.alt /\ prec = Field(p.prec, u) /\ l = p.long
         /\ Field(p.width, v) \in Int /\ Alike(w, Field(p.width, v))
<1>1. PICK a1, a2, a3, a4, a5, i, fw :
        /\ a1 = AfterPad(p) /\ a2 = AfterAlt(p) /\ a3 = AfterWidth(p)
        /\ a4 = AfterDot(p) /\ a5 = AfterPrec(p) /\ i = AfterLong(p) /\ fw = Field(p.width, v)
  OBVIOUS
<1>2. i >= a1 /\ i >= a2 /\ i >= a3 /\ ~(i < a3) /\ ~(i < a5)
  BY <1>1, OffsetsTyped
<1>3. i - a5 = p.long
  <2>1. a5 \in Nat /\ p.long \in Nat /\ i = a5 + p.long
    BY <1>1, OffsetsTyped DEF IsConversion, AfterLong
  <2> QED  BY <2>1
<1>4. /\ c = IF i >= a1 THEN p.pad ELSE Blank
      /\ alt = (p.alt /\ i >= a2)
      /\ i >= a3 => fw \in Int
      /\ w = IF i < a3 THEN -1 ELSE IF p.prec # << >> /\ i >= a4 /\ fw < 0 THEN 0 ELSE fw
      /\ prec = IF i < a5 THEN -1 ELSE Field(p.prec, u)
      /\ l = IF i < a5 THEN 0 ELSE i - a5
  BY <1>1, Zenon DEF FlagsRead, WidthRead
<1>5. c = p.pad /\ prec = Field(p.prec, u) /\ l = p.long /\ fw \in Int
  BY <1>2, <1>3, <1>4, Zenon
<1>6. alt = p.alt
  BY <1>2, <1>4 DEF IsConversion
<1>7. Alike(w, fw)
  <2>1. (w = 0 /\ fw < 0) \/ w = fw
    BY <1>2, <1>4, Zenon
  <2> QED  BY <1>5, <2>1 DEF Alike
<1> QED  BY <1>1, <1>5, <1>6, <1>7

\* A conversion has put cs, and taken the arguments a besides those of its stars.
LEMMA ConversionDone ==
  ASSUME Parsing, Following, NEW k, NEW i, PieceAt(k, i), format[k].kind = "conversion",
         i = AfterLong(format[k]), NEW cs, IsSequence(cs), NEW a, IsSequence(a), Converted(cs, a),
         Len(args \o a) = FirstOf(format, k + 1) - 1,
         Intended => cs = SaysOf(format, args \o a, k)
  PROVE  (\E h, j \in Nat : TextAt(h, j))'
<1>1. PICK p : p = format[k]
  OBVIOUS
<1>2. /\ k \in 1 .. Len(format) /\ k \in Nat /\ IsConversion(p) /\ i \in Places(p)
      /\ f = End(format, k - 1) + i + 1 /\ End(format, k - 1) \in Nat
      /\ TakenSo(k, Taken(p, i)) /\ (Intended => Said(format, args, k - 1, out))
  BY <1>1, ConversionMeets
<1>3. UNCHANGED format /\ out' = out \o cs /\ args' = args \o a /\ f' = f + 1
  BY DEF Converted, Put, call
<1>4. format \in Formats /\ Len(format) \in Nat
  BY FormatTyped DEF Parsing
<1>5. k + 1 \in 1 .. Len(format) + 1 /\ 0 \in Nat /\ (k + 1) - 1 = k /\ (k - 1) + 1 = k /\ k - 1 \in Nat
      /\ k + 1 \in Nat
  BY <1>2, <1>4
<1>6. f' = End(format, (k + 1) - 1) + 0 + 1
  <2>1. PICK e0, e1, l : e0 = End(format, k - 1) /\ e1 = End(format, k) /\ l = Len(Spelled(p))
    OBVIOUS
  <2>2. e1 = e0 + l
    BY <1>1, <1>2, <1>4, <2>1, EndNext
  <2>3. l = i + 1 /\ i \in Nat
    BY <1>1, <1>2, <2>1, ConversionSpelled, OffsetsTyped
  <2>4. e0 \in Nat /\ f = e0 + i + 1
    BY <1>2, <2>1
  <2>5. f + 1 = e1 + 0 + 1
    BY <2>2, <2>3, <2>4
  <2> QED  BY <1>3, <1>5, <2>1, <2>5, Zenon
<1>7. ASSUME Intended PROVE Said(format, args', (k + 1) - 1, out')
  <2>1. Taken(p, i) \in Nat /\ IsSequence(args)
    BY <1>2, TakenEach DEF Following
  <2>2. Said(format, args', k - 1, out)
    BY <1>2, <1>3, <1>7, <2>1, SaidMore
  <2>3. cs = SaysOf(format, args', (k - 1) + 1)
    BY <1>3, <1>5, <1>7
  <2>4. Said(format, args', (k - 1) + 1, out \o cs)
    BY <1>5, <2>2, <2>3, SaidNext
  <2> QED  BY <1>3, <1>5, <2>4
<1>8. Intended' => Said(format, args', (k + 1) - 1, out')
  BY <1>3, <1>7, IntendedSame
<1>9. Len(args') = FirstOf(format, k + 1) - 1
  BY <1>3
<1>10. TextAt(k + 1, 0)'
  BY <1>3, <1>5, <1>6, <1>8, <1>9, Zenon DEF TextAt
<1> QED  BY <1>5, <1>10, Zenon

\* The arguments of a conversion and what it says, when it takes v.
LEMMA ConversionValue ==
  ASSUME Parsing, Following, NEW k, NEW i, PieceAt(k, i), format[k].kind = "conversion",
         NEW p, p = format[k], i = AfterLong(p), p.conv # "%", NEW v, Suits(p.conv, lflag, v)
  PROVE  /\ Len(args \o <<v>>) = FirstOf(format, k + 1) - 1
         /\ Intended => SaysOf(format, args \o <<v>>, k)
                          = PutBy(p.conv, v, width, precision, lflag, padc, altflag)
<1>1. PICK m, sw, sp, a : /\ m = FirstOf(format, k) /\ sw = Stars(p.width) /\ sp = Stars(p.prec)
                          /\ a = ArgsTaken(format, args \o <<v>>, k)
  OBVIOUS
<1>2. /\ k \in 1 .. Len(format) /\ IsConversion(p) /\ i \in Places(p) /\ TakenSo(k, Taken(p, i))
      /\ FlagsRead(p, i, args[m], args[m + sw], padc, altflag, width, precision, lflag)
  BY <1>1, ConversionMeets DEF Parsed
<1>3. /\ padc = p.pad /\ altflag = p.alt /\ precision = Field(p.prec, args[m + sw]) /\ lflag = p.long
      /\ Field(p.width, args[m]) \in Int /\ Alike(width, Field(p.width, args[m]))
  BY <1>2, AllRead
<1>4. format \in Formats /\ DOMAIN format = 1 .. Len(format)
  BY FormatTyped DEF Parsing
<1>5. Len(args) = m - 1 + sw + sp
  <2>1. Len(args) = m - 1 + (sw + sp)
    <3>1. Taken(p, i) = sw + sp
      BY <1>1, <1>2, TakenEach
    <3> QED  BY <1>1, <1>2, <3>1, Zenon DEF TakenSo
  <2>2. m \in Nat
    <3>1. k \in 1 .. Len(format) + 1
      BY <1>2, <1>4, FormatTyped
    <3> QED  BY <1>1, <1>4, <3>1, FirstGrows
  <2>3. sw \in Nat /\ sp \in Nat
    <3>1. IsNumber(p.width) /\ IsNumber(p.prec)
      BY <1>2 DEF IsConversion
    <3>2. \A cs : IsNumber(cs) => Stars(cs) \in Nat
      BY StarsNumber
    <3> QED  BY <1>1, <3>1, <3>2
  <2>4. m - 1 + (sw + sp) = m - 1 + sw + sp
    BY <2>2, <2>3
  <2> QED  BY <2>1, <2>4, Zenon
<1>6. ArgsReady(format, k, args, m, sw, sp)
  BY <1>1, <1>2, <1>4, <1>5 DEF ArgsReady, Following
<1>7. /\ Len(args \o <<v>>) = FirstOf(format, k + 1) - 1
      /\ ArgsPlaced(p, args, m, sw, v, a)
  BY <1>1, <1>6, ConversionArgs
<1>8. /\ a[Len(a)] = v
      /\ Field(p.width, a[1]) = Field(p.width, args[m])
      /\ Field(p.prec, a[Len(a) - 1]) = precision
  BY <1>3, <1>7, FieldSame DEF ArgsPlaced
<1>9. SaysOf(format, args \o <<v>>, k) = Shows(p, a)
  BY <1>1, Zenon DEF SaysOf
<1>10. ShownWith(p, a, width, precision)
  BY <1>3, <1>8 DEF Parsing, ShownWith
<1>11. ASSUME Intended
       PROVE  Shows(p, a) = PutBy(p.conv, v, width, precision, p.long, p.pad, p.alt)
  <2>1. Numeric(p) => p.pad # "-"
    BY <1>2, <1>4, <1>11 DEF Intended
  <2>2. Suits(p.conv, p.long, v)
    BY <1>3
  <2> QED  BY <1>2, <1>8, <1>10, <2>1, <2>2, ConversionSays
<1> QED  BY <1>3, <1>7, <1>9, <1>11

\* A conversion ends with the next piece ahead.
LEMMA ConversionEnds ==
  ASSUME Parsing, Following, NEW k, NEW i, PieceAt(k, i), format[k].kind = "conversion",
         percent \/ character \/ error \/ string \/ decimal \/ unsigned \/ pointer
  PROVE  (\E h, j \in Nat : TextAt(h, j))'
<1>1. PICK p : p = format[k]
  OBVIOUS
<1>2. /\ k \in 1 .. Len(format) /\ IsConversion(p) /\ i \in Places(p)
      /\ Meets(p, i, fmt[f]) /\ TakenSo(k, Taken(p, i))
  BY <1>1, ConversionMeets
<1>3. ASSUME fmt[f] \in Conversions PROVE i = AfterLong(p) /\ p.conv = fmt[f]
  <2>1. PICK c : c = fmt[f]
    OBVIOUS
  <2>2. i = AfterLong(p) /\ c = p.conv
    BY <1>2, <1>3, <2>1, MeetsFlag
  <2> QED  BY <2>1, <2>2
<1>4. /\ IsSequence(args) /\ width \in Int /\ precision \in Int /\ lflag \in Nat
  BY DEF Following, Parsing
<1>5. CASE percent
  <2>1. fmt[f] = "%" /\ Converted(<<"%">>, << >>)
    BY <1>5, Zenon DEF percent, Switch
  <2>2. i = AfterLong(p) /\ p.conv = "%"
    <3>1. "%" \in Conversions
      BY DEF Conversions
    <3> QED  BY <1>3, <2>1, <3>1
  <2>3. PICK no, cs : no = << >> /\ cs = <<"%">>
    OBVIOUS
  <2>4. IsSequence(no) /\ IsSequence(cs) /\ args \o no = args
    <3>1. no \in Seq({})
      BY <2>3
    <3>2. PICK X : args \in Seq(X)
      BY <1>4 DEF IsSequence
    <3>3. args \o << >> = args
      BY <3>2
    <3> QED  BY <2>3, <3>1, <3>3, Singleton DEF IsSequence
  <2>5. Len(args) = FirstOf(format, k + 1) - 1
    <3>1. PICK g : g = Taken(p, i)
      OBVIOUS
    <3>2. g \in Nat /\ g = Stars(p.width) + Stars(p.prec)
      BY <1>2, <2>2, <3>1, TakenEach
    <3>3. Takes(p) = Stars(p.width) + Stars(p.prec) + 0
      BY <1>1, <2>2 DEF Takes
    <3>4. Stars(p.width) + Stars(p.prec) + 0 = g
      BY <3>2
    <3>5. TakenSo(k, g) /\ Takes(format[k]) = g
      BY <1>1, <1>2, <3>1, <3>3, <3>4
    <3> QED  BY <1>2, <3>2, <3>5, TakenAll
  <2>6. cs = SaysOf(format, args, k)
    <3>1. Shows(p, ArgsTaken(format, args, k)) = <<"%">>
      BY <2>2, ShowsEach
    <3> QED  BY <1>1, <2>3, <3>1, Zenon DEF SaysOf
  <2>7. /\ Len(args \o no) = FirstOf(format, k + 1) - 1
        /\ cs = SaysOf(format, args \o no, k)
        /\ Converted(cs, no)
    BY <2>1, <2>3, <2>4, <2>5, <2>6, Zenon
  <2>8. i = AfterLong(format[k])
    BY <1>1, <2>2
  <2> QED  BY <2>4, <2>7, <2>8, ConversionDone
<1>6. CASE character \/ error \/ string \/ decimal \/ unsigned \/ pointer
  <2>1. PICK v : \E conv \in Conversions \ {"%"} :
          /\ pc = "reswitch" /\ fmt[f] = conv /\ Suits(conv, lflag, v)
          /\ Converted(PutBy(conv, v, width, precision, lflag, padc, altflag), <<v>>)
    BY <1>6, ConversionTakes, Zenon
  <2>2. PICK conv \in Conversions \ {"%"} :
          /\ pc = "reswitch" /\ fmt[f] = conv /\ Suits(conv, lflag, v)
          /\ Converted(PutBy(conv, v, width, precision, lflag, padc, altflag), <<v>>)
    BY <2>1, Zenon
  <2>3. i = AfterLong(p) /\ p.conv = conv /\ p.conv # "%" /\ Suits(p.conv, lflag, v)
    BY <1>3, <2>2
  <2>4. PICK one, cs : /\ one = <<v>>
                       /\ cs = PutBy(conv, v, width, precision, lflag, padc, altflag)
    OBVIOUS
  <2>5. IsSequence(one) /\ IsSequence(cs)
    BY <1>4, <2>2, <2>4, PutTyped, Singleton
  <2>6. /\ Len(args \o <<v>>) = FirstOf(format, k + 1) - 1
        /\ Intended => SaysOf(format, args \o <<v>>, k)
                         = PutBy(p.conv, v, width, precision, lflag, padc, altflag)
    BY <1>1, <2>3, ConversionValue
  <2>7. /\ Len(args \o one) = FirstOf(format, k + 1) - 1
        /\ Intended => cs = SaysOf(format, args \o one, k)
        /\ Converted(cs, one)
    BY <2>2, <2>3, <2>4, <2>6, Zenon
  <2>8. i = AfterLong(format[k])
    BY <1>1, <2>3
  <2> QED  BY <2>5, <2>7, <2>8, ConversionDone
<1> QED  BY <1>5, <1>6

\* Every step goes on from where the format stands.
LEMMA FollowingInductive ==
  ASSUME Parsing, Buffered, Following, [Next]_vars
  PROVE  Following'
<1>1. IsSequence(args)
  BY DEF Following
<1>2. ASSUME IsSequence(args'), pc' = "text", (\E k, i \in Nat : TextAt(k, i))' PROVE Following'
  BY <1>2 DEF Following
<1>3. ASSUME IsSequence(args'), pc' = "reswitch", (\E k, i \in Nat : PieceAt(k, i))'
      PROVE  Following'
  BY <1>3 DEF Following
<1>4. ASSUME pc = "text" PROVE \E k, i \in Nat : TextAt(k, i)
  BY <1>4 DEF Following
<1>5. ASSUME pc = "reswitch"
      PROVE  \E k, i \in Nat : PieceAt(k, i) /\ format[k].kind \in {"unknown", "conversion"}
  BY <1>5 DEF Following, PieceAt
<1>6. CASE UNCHANGED vars
  BY <1>6, ZenonT(60) DEF Following, TextAt, PieceAt, Parsed, TakenSo, Intended, vars, call, flags
<1>7. CASE refuse
  <2>1. pc' = "done" /\ ~(n' >= 1) /\ args' = args
    BY <1>7, PrintFmtAssumption DEF refuse, call, Parsing
  <2> QED  BY <1>1, <2>1 DEF Following
<1>8. CASE start
  BY <1>8 DEF start, Following, TextAt, Intended, call
<1>9. CASE literal
  <2>1. pc = "text" /\ pc' = "text" /\ args' = args
    BY <1>9 DEF literal
  <2>2. PICK k, i \in Nat : TextAt(k, i)
    BY <1>4, <2>1
  <2>3. (\E h, j \in Nat : TextAt(h, j))'
    BY <1>9, <2>1, <2>2, TextSteps
  <2>4. IsSequence(args')
    BY <1>1, <2>1
  <2> QED  BY <1>2, <2>1, <2>3, <2>4, Zenon
<1>10. CASE finish
  <2>1. pc = "text" /\ pc' = "done" /\ UNCHANGED <<format, args, out, n>>
    BY <1>10 DEF finish, call
  <2>2. PICK k, i \in Nat : TextAt(k, i)
    BY <1>4, <2>1
  <2>3. Intended => Said(format, args, Len(format), out)
    BY <1>10, <2>1, <2>2, TextSteps
  <2> QED  BY <1>1, <2>1, <2>3, IntendedSame DEF Following
<1>11. CASE escape
  <2>1. pc = "text" /\ pc' = "reswitch" /\ args' = args
    BY <1>11 DEF escape
  <2>2. PICK k, i \in Nat : TextAt(k, i)
    BY <1>4, <2>1
  <2>3. PieceAt(k, 1)' /\ 1 \in Nat
    BY <1>11, <2>1, <2>2, TextSteps
  <2>4. (\E h, j \in Nat : PieceAt(h, j))'
    BY <2>2, <2>3, Zenon
  <2>5. IsSequence(args')
    BY <1>1, <2>1
  <2> QED  BY <1>3, <2>1, <2>4, <2>5, Zenon
<1>12. CASE pad \/ dot \/ alternate \/ long
  <2>1. pc = "reswitch" /\ pc' = "reswitch" /\ args' = args
    BY <1>12 DEF pad, dot, alternate, long, Switch
  <2>2. PICK k, i \in Nat : PieceAt(k, i) /\ format[k].kind \in {"unknown", "conversion"}
    BY <1>5, <2>1
  <2>3. (\E h, j \in Nat : PieceAt(h, j))'
    BY <1>12, <2>2, UnknownFlag, ConversionFlag
  <2>4. IsSequence(args')
    BY <1>1, <2>1
  <2> QED  BY <1>3, <2>1, <2>3, <2>4, Zenon
<1>13. CASE number
  <2>1. pc = "reswitch" /\ pc' = "reswitch" /\ args' = args
    BY <1>13 DEF number
  <2>2. PICK k, i \in Nat : PieceAt(k, i) /\ format[k].kind \in {"unknown", "conversion"}
    BY <1>5, <2>1
  <2>3. (\E h, j \in Nat : PieceAt(h, j))'
    BY <1>13, <2>2, UnknownNumber, ConversionNumber
  <2>4. IsSequence(args')
    BY <1>1, <2>1
  <2> QED  BY <1>3, <2>1, <2>3, <2>4, Zenon
<1>14. CASE star
  <2>1. pc = "reswitch" /\ pc' = "reswitch"
    BY <1>14 DEF star, Switch
  <2>2. PICK v : args' = Append(args, v)
    BY <1>14, Zenon DEF star
  <2>3. PICK k, i \in Nat : PieceAt(k, i) /\ format[k].kind \in {"unknown", "conversion"}
    BY <1>5, <2>1
  <2>4. (\E h, j \in Nat : PieceAt(h, j))'
    BY <1>14, <2>3, UnknownStar, ConversionStar
  <2>5. IsSequence(args')
    BY <1>1, <2>2, AppendIs
  <2> QED  BY <1>3, <2>1, <2>4, <2>5, Zenon
<1>15. CASE percent \/ character \/ error \/ string \/ decimal \/ unsigned \/ pointer
  <2>1. pc = "reswitch" /\ fmt[f] \in Conversions
    BY <1>15 DEF percent, character, error, string, decimal, unsigned, pointer, Switch, Conversions
  <2>2. PICK k, i \in Nat : PieceAt(k, i) /\ format[k].kind \in {"unknown", "conversion"}
    BY <1>5, <2>1
  <2>3. format[k].kind = "conversion"
    <3> SUFFICES ASSUME format[k].kind = "unknown" PROVE FALSE
      BY <2>2
    <3>1. NUL \notin Conversions
      BY DEF NUL, Conversions, Base
    <3>2. fmt[f] \notin Conversions
      BY <2>2, <3>1, UnknownMeets
    <3> QED  BY <2>1, <3>2
  <2>4. (\E h, j \in Nat : TextAt(h, j))'
    BY <1>15, <2>2, <2>3, ConversionEnds
  <2>5. pc' = "text" /\ IsSequence(args')
    <3>1. CASE percent
      <4>1. Converted(<<"%">>, << >>)
        BY <3>1, Zenon DEF percent
      <4>2. pc' = "text" /\ args' = args \o << >>
        BY <4>1, Zenon DEF Converted
      <4>3. << >> \in Seq({})
        OBVIOUS
      <4>4. IsSequence(<< >>)
        BY <4>3 DEF IsSequence
      <4> QED  BY <1>1, <4>2, <4>4, SequencesJoin
    <3>2. CASE character \/ error \/ string \/ decimal \/ unsigned \/ pointer
      <4>1. PICK v : \E conv \in Conversions \ {"%"} :
              /\ pc = "reswitch" /\ fmt[f] = conv /\ Suits(conv, lflag, v)
              /\ Converted(PutBy(conv, v, width, precision, lflag, padc, altflag), <<v>>)
        BY <3>2, ConversionTakes, Zenon
      <4>2. pc' = "text" /\ args' = args \o <<v>>
        BY <4>1, Zenon DEF Converted
      <4> QED  BY <1>1, <4>2, Singleton, SequencesJoin
    <3> QED  BY <1>15, <3>1, <3>2
  <2> QED  BY <1>2, <2>4, <2>5, Zenon
<1>16. CASE unknown
  <2>1. pc = "reswitch" /\ pc' = "text" /\ args' = args /\ fmt[f] \notin Known
    BY <1>16 DEF unknown
  <2>2. PICK k, i \in Nat : PieceAt(k, i) /\ format[k].kind \in {"unknown", "conversion"}
    BY <1>5, <2>1
  <2>3. format[k].kind = "unknown"
    <3> SUFFICES ASSUME format[k].kind = "conversion" PROVE FALSE
      BY <2>2
    <3>1. PICK p : p = format[k]
      OBVIOUS
    <3>2. IsConversion(p) /\ Meets(p, i, fmt[f])
      BY <2>2, <3>1, ConversionMeets
    <3>3. fmt[f] \in Known
      BY <3>2, MeetsFlag
    <3> QED  BY <2>1, <3>3
  <2>4. (\E h, j \in Nat : TextAt(h, j))'
    BY <1>16, <2>2, <2>3, UnknownBack
  <2>5. IsSequence(args')
    BY <1>1, <2>1
  <2> QED  BY <1>2, <2>1, <2>4, <2>5, Zenon
<1> QED  BY <1>6, <1>7, <1>8, <1>9, <1>10, <1>11, <1>12, <1>13, <1>14, <1>15, <1>16 DEF Next
-----------------------------------------------------------------------------
(* What is printed is what the format means.                               *)

LEMMA FollowingMeans ==
  ASSUME Parsing, Following
  PROVE  PrintsMeaning
<1> SUFFICES ASSUME Returned, Intended PROVE out = Meaning
  BY DEF PrintsMeaning, Intended
<1>1. Said(format, args, Len(format), out)
  BY DEF Following, Returned
<1>2. out = FlattenSeq([j \in 1 .. Len(format) |-> SaysOf(format, args, j)])
  BY <1>1, Zenon DEF Said
<1>3. DOMAIN format = 1 .. Len(format)
  BY FormatTyped DEF Parsing
<1>4. \A k : FirstArg(k) = FirstOf(format, k)
  BY Zenon DEF FirstArg, FirstOf
<1>5. \A k : ArgsOf(k) = ArgsTaken(format, args, k)
  BY <1>4, Zenon DEF ArgsOf, ArgsTaken
<1>6. \A k : Says(k) = SaysOf(format, args, k)
  BY <1>5, Zenon DEF Says, SaysOf
<1>7. [k \in DOMAIN format |-> Says(k)] = [j \in 1 .. Len(format) |-> SaysOf(format, args, j)]
  BY <1>3, <1>6, Zenon
<1> QED  BY <1>2, <1>7, Zenon DEF Meaning

\* However flags, widths, precisions and sizes are combined, a call prints what
\* the pieces of its format mean for the arguments taken in order: vprintfmt.
THEOREM SpecPrintsMeaning == Spec => []PrintsMeaning
<1>1. Init => Parsing /\ Buffered /\ Following
  BY BufferedInit, FollowingInit
<1>2. Parsing /\ Buffered /\ Following /\ [Next]_vars => (Parsing /\ Buffered /\ Following)'
  BY ParsingInductive, BufferedInductive, FollowingInductive
<1>3. Parsing /\ Following => PrintsMeaning
  BY FollowingMeans
<1> QED  BY <1>1, <1>2, <1>3, PTL DEF Spec
-----------------------------------------------------------------------------
(* Numbers and their digits, there and back: strtol reads what is printed. *)

LongSize == Pow(2, IntBits)

LEMMA LongSizeTyped == LongSize \in Nat \ {0}
<1>1. 2 \in Nat \ {0} /\ IntBits \in Nat
  BY PrintFmtAssumption
<1> QED  BY <1>1, PowPositive DEF LongSize

\* What is done with the parts of a number is done with it, modulo d.
LEMMA Modulo ==
  ASSUME NEW d \in Nat \ {0}, NEW a \in Int, NEW c \in Int, NEW k \in Int, a = c + d * k
  PROVE  a % d = c % d
<1> DEFINE q == a \div d
           r == a % d
           s == c \div d
           t == c % d
<1>1. q \in Int /\ r \in 0 .. d - 1 /\ a = d * q + r
  OBVIOUS
<1>2. s \in Int /\ t \in 0 .. d - 1 /\ c = d * s + t
  OBVIOUS
<1> HIDE DEF q, r, s, t
<1>3. r - t = d * (s + k - q)
  BY <1>1, <1>2
<1> DEFINE u == s + k - q
<1>4. u \in Int /\ r - t = d * u /\ r - t < d /\ r - t > -d
  BY <1>1, <1>2, <1>3
<1> HIDE DEF u
<1>5. u = 0
  <2>1. CASE u >= 1
    <3>1. d * u >= d
      BY <1>4, <2>1
    <3> QED  BY <1>4, <3>1
  <2>2. CASE u <= -1
    <3>1. d * u <= -d
      BY <1>4, <2>2
    <3> QED  BY <1>4, <3>1
  <2> QED  BY <1>4, <2>1, <2>2
<1>6. r = t
  BY <1>1, <1>2, <1>4, <1>5
<1> QED  BY <1>6 DEF r, t

LEMMA ModuloStep ==
  ASSUME NEW d \in Nat \ {0}, NEW a \in Nat, NEW x \in Nat, NEW r \in Nat
  PROVE  ((a % d) * x + r) % d = (a * x + r) % d
<1> DEFINE q == a \div d
           t == a % d
<1>1. q \in Nat /\ t \in Nat /\ a = d * q + t
  BY Quotient
<1> HIDE DEF q, t
<1>2. a * x + r = (t * x + r) + d * (q * x)
  BY <1>1
<1>3. a * x + r \in Int /\ t * x + r \in Int /\ q * x \in Int
  BY <1>1
<1>4. (a * x + r) % d = (t * x + r) % d
  <2> DEFINE e == a * x + r
             g == t * x + r
             k == q * x
  <2>1. e \in Int /\ g \in Int /\ k \in Int /\ e = g + d * k
    BY <1>2, <1>3
  <2> HIDE DEF e, g, k
  <2>2. e % d = g % d
    BY <2>1, Modulo
  <2> QED  BY <2>2 DEF e, g
<1> QED  BY <1>4 DEF t

LEMMA ModuloNegated ==
  ASSUME NEW d \in Nat \ {0}, NEW a \in Nat
  PROVE  (-(a % d)) % d = (-a) % d
<1> DEFINE q == a \div d
           t == a % d
<1>1. q \in Nat /\ t \in Nat /\ a = d * q + t
  BY Quotient
<1> HIDE DEF q, t
<1>2. -t = -a + d * q
  BY <1>1
<1>3. -t \in Int /\ -a \in Int
  BY <1>1
<1>4. (-t) % d = (-a) % d
  <2> DEFINE e == -t
             g == -a
  <2>1. e \in Int /\ g \in Int /\ q \in Int /\ e = g + d * q
    BY <1>1, <1>2, <1>3
  <2> HIDE DEF e, g
  <2>2. e % d = g % d
    BY <2>1, Modulo
  <2> QED  BY <2>2 DEF e, g
<1> QED  BY <1>4 DEF t

\* The characters of digits are none of the others.
LEMMA HexDiffers ==
  ASSUME NEW c \in Hex
  PROVE  c \notin {" ", "TAB", "+", "-", "x", NUL}
<1>1. PICK d \in 1 .. 16 : c = Digits[d]
  BY DEF Hex
<1>2. c \in {"0", "1", "2", "3", "4", "5", "6", "7", "8", "9", "a", "b", "c", "d", "e", "f"}
  BY <1>1 DEF Digits
<1> QED  BY <1>2 DEF NUL

\* dig tells the digits apart.
LEMMA DigIs ==
  ASSUME NEW d \in 0 .. 15
  PROVE  Lib!dig(Digits[d + 1]) = d /\ \A base \in Int : d < base => Lib!IsDigit(Digits[d + 1], base)
<1>1. \A u \in 0 .. 15 : Digits[u + 1] = Digits[d + 1] => u = d
  BY DEF Digits
<1>2. Lib!Digits = Digits
  BY DEF Lib!Digits, Digits
<1>3. Lib!dig(Digits[d + 1]) = d
  BY <1>1, <1>2 DEF Lib!dig
<1>4. \A base \in Int : d < base => Lib!IsDigit(Digits[d + 1], base)
  BY <1>2 DEF Lib!IsDigit
<1> QED  BY <1>3, <1>4

\* cs writes m, perhaps with zeros before it.
Place(m, base, k) == m \div Pow(base, k)
Writes(cs, m, base) ==
  /\ IsSequence(cs) /\ Len(cs) >= 1 /\ m < Pow(base, Len(cs))
  /\ \A k \in 1 .. Len(cs) : cs[k] = Digits[(Place(m, base, Len(cs) - k) % base) + 1]

LEMMA PlaceTyped ==
  ASSUME NEW base \in 2 .. 16, NEW m \in Nat, NEW k \in Nat
  PROVE  /\ Place(m, base, k) \in Nat /\ Place(m, base, k + 1) \in Nat
         /\ \E d \in 0 .. base - 1 :
              Place(m, base, k) % base = d /\ Place(m, base, k) = Place(m, base, k + 1) * base + d
<1>1. PICK x, q, r : x = Pow(base, k) /\ q = m \div x /\ r = q \div base
  OBVIOUS
<1>2. base \in Nat \ {0} /\ base \in Nat
  OBVIOUS
<1>3. x \in Nat \ {0} /\ Pow(base, k + 1) = base * x
  BY <1>1, <1>2, PowStep, PowPositive
<1>4. q \in Nat
  BY <1>1, <1>3, Quotient
<1>5. r \in Nat /\ q % base \in 0 .. base - 1 /\ q = base * r + (q % base)
  BY <1>1, <1>2, <1>4, Quotient
<1>6. m \div (base * x) = r
  <2>1. (m \div x) \div base = m \div (x * base)
    BY <1>2, <1>3, QuotientOfQuotient
  <2>2. x * base = base * x
    BY <1>2, <1>3
  <2> QED  BY <1>1, <2>1, <2>2
<1>7. base * r = r * base
  BY <1>2, <1>5
<1>8. Place(m, base, k) = q /\ Place(m, base, k + 1) = r
  BY <1>1, <1>3, <1>6 DEF Place
<1> QED  BY <1>4, <1>5, <1>7, <1>8, Zenon

LEMMA PlaceOfAll ==
  ASSUME NEW base \in 2 .. 16, NEW m \in Nat
  PROVE  Place(m, base, 0) = m
<1>1. Pow(base, 0) = 1
  <2>1. base \in Nat
    OBVIOUS
  <2> QED  BY <2>1, PowStep
<1>2. m \div 1 = m
  OBVIOUS
<1> QED  BY <1>1, <1>2 DEF Place

LEMMA PlaceOfNone ==
  ASSUME NEW base \in 2 .. 16, NEW m \in Nat, NEW k \in Nat, m < Pow(base, k)
  PROVE  Place(m, base, k) = 0
<1>1. PICK x : x = Pow(base, k)
  OBVIOUS
<1>2. base \in Nat \ {0} /\ base \in Nat
  OBVIOUS
<1>3. x \in Nat \ {0}
  BY <1>1, <1>2, PowPositive
<1>4. m = x * 0 + m /\ m \in 0 .. x - 1
  BY <1>1, <1>3
<1>5. m \div x = 0
  BY <1>3, <1>4, QuotientUnique
<1> QED  BY <1>1, <1>5 DEF Place

LEMMA ReadSteps ==
  ASSUME NEW cs, IsSequence(cs), NEW base \in Nat,
         \A k \in 1 .. Len(cs) : Lib!dig(cs[k]) \in Nat
  PROVE  \E read :
           /\ read[0] = 0 /\ Lib!Read(cs, base) = read[Len(cs)]
           /\ \A k \in 1 .. Len(cs) :
                read[k] = (read[k - 1] * base + Lib!dig(cs[k])) % LongSize
<1> PICK l : l = Len(cs)
  OBVIOUS
<1>1. l \in Nat
  BY DEF IsSequence
<1>2. \A k \in 1 .. l : \A v \in Nat : (v * base + Lib!dig(cs[k])) % LongSize \in Nat
  <2> SUFFICES ASSUME NEW k \in 1 .. l, NEW v \in Nat, NEW g, g = Lib!dig(cs[k])
               PROVE  (v * base + g) % LongSize \in Nat
    OBVIOUS
  <2> PICK e, d : e = v * base + g /\ d = LongSize
    OBVIOUS
  <2>1. e \in Nat /\ d \in Nat \ {0}
    BY LongSizeTyped
  <2>2. e % d \in 0 .. d - 1
    BY <2>1, Quotient
  <2> QED  BY <2>1, <2>2
<1>3. PICK step \in [Nat -> [Nat -> Nat]] :
        \A k \in 1 .. l : \A v \in Nat : step[k][v] = (v * base + Lib!dig(cs[k])) % LongSize
  <2> DEFINE s == [k \in Nat |-> [v \in Nat |->
                     IF k \in 1 .. l THEN (v * base + Lib!dig(cs[k])) % LongSize ELSE 0]]
  <2>1. s \in [Nat -> [Nat -> Nat]]
    BY <1>2
  <2>2. \A k \in 1 .. l : \A v \in Nat : s[k][v] = (v * base + Lib!dig(cs[k])) % LongSize
    BY <1>1
  <2> HIDE DEF s
  <2> QED  BY <2>1, <2>2
<1>4. PICK g0 : Solves(Nat, 0, step, g0)
  <2>1. 0 \in Nat
    OBVIOUS
  <2> QED  BY <2>1, Recursion
<1> DEFINE g == [k \in 0 .. l |-> g0[k]]
<1>5. g = [k \in 0 .. l |-> IF k = 0 THEN 0 ELSE (g[k - 1] * base + Lib!dig(cs[k])) % LongSize]
  <2>1. ASSUME NEW k \in 0 .. l
        PROVE  g0[k] = IF k = 0 THEN 0 ELSE (g[k - 1] * base + Lib!dig(cs[k])) % LongSize
    <3>1. CASE k = 0
      BY <1>4, <3>1 DEF Solves
    <3>2. CASE k # 0
      <4>1. k \in 1 .. l /\ k - 1 \in 0 .. l /\ k - 1 \in Nat /\ (k - 1) + 1 = k
        BY <1>1, <3>2
      <4>2. g[k - 1] = g0[k - 1] /\ g0[k - 1] \in Nat /\ g0[k] = step[k][g0[k - 1]]
        BY <1>4, <4>1 DEF Solves
      <4> HIDE DEF g
      <4> QED  BY <1>3, <3>2, <4>1, <4>2
    <3> QED  BY <3>1, <3>2
  <2> QED  BY <2>1
<1> DEFINE r == CHOOSE h : h = [k \in 0 .. l |->
                   IF k = 0 THEN 0 ELSE (h[k - 1] * base + Lib!dig(cs[k])) % LongSize]
<1>6. r = [k \in 0 .. l |-> IF k = 0 THEN 0 ELSE (r[k - 1] * base + Lib!dig(cs[k])) % LongSize]
  BY <1>5
<1>7. Lib!Read(cs, base) = r[l]
  BY DEF Lib!Read, LongSize
<1> HIDE DEF r
<1>8. r[0] = 0
  BY <1>1, <1>6
<1>9. \A k \in 1 .. l : r[k] = (r[k - 1] * base + Lib!dig(cs[k])) % LongSize
  <2>1. \A k \in 1 .. l : k \in 0 .. l /\ k # 0
    BY <1>1
  <2> HIDE DEF g
  <2> QED  BY <1>6, <2>1
<1> QED  BY <1>7, <1>8, <1>9, Zenon

\* strtol reads what is written, as far as a long holds it.
LEMMA ReadWritten ==
  ASSUME NEW base \in 2 .. 16, NEW m \in Nat, NEW cs, Writes(cs, m, base)
  PROVE  /\ Lib!Read(cs, base) = m % LongSize
         /\ \A k \in 1 .. Len(cs) : cs[k] \in Hex /\ Lib!IsDigit(cs[k], base)
<1> PICK l : l = Len(cs)
  OBVIOUS
<1>1. l \in Nat /\ l >= 1 /\ IsSequence(cs) /\ m < Pow(base, l)
  BY DEF Writes, IsSequence
<1> DEFINE at(k) == Place(m, base, l - k)
<1>2. ASSUME NEW k \in 1 .. l
      PROVE  /\ at(k) \in Nat /\ at(k - 1) \in Nat
             /\ \E d \in 0 .. base - 1 : /\ at(k) = at(k - 1) * base + d
                                         /\ cs[k] = Digits[d + 1]
  <2>1. PICK e : e = l - k
    OBVIOUS
  <2>2. e \in Nat /\ l - (k - 1) = e + 1
    BY <1>1, <2>1
  <2>3. cs[k] = Digits[(Place(m, base, e) % base) + 1]
    BY <2>1 DEF Writes
  <2>4. at(k) = Place(m, base, e) /\ at(k - 1) = Place(m, base, e + 1)
    BY <2>1, <2>2
  <2> HIDE DEF at
  <2>5. /\ Place(m, base, e) \in Nat /\ Place(m, base, e + 1) \in Nat
        /\ \E d \in 0 .. base - 1 :
             Place(m, base, e) % base = d /\ Place(m, base, e) = Place(m, base, e + 1) * base + d
    BY <2>2, PlaceTyped
  <2> QED  BY <2>3, <2>4, <2>5, Zenon
<1> HIDE DEF at
<1>3. ASSUME NEW k \in 1 .. l
      PROVE  /\ cs[k] \in Hex /\ Lib!IsDigit(cs[k], base)
             /\ Lib!dig(cs[k]) \in Nat /\ at(k) = at(k - 1) * base + Lib!dig(cs[k])
  <2>1. PICK d \in 0 .. base - 1 : at(k) = at(k - 1) * base + d /\ cs[k] = Digits[d + 1]
    BY <1>2
  <2>2. PICK c : c = cs[k]
    OBVIOUS
  <2>3. c = Digits[d + 1]
    BY <2>1, <2>2
  <2>4. d \in 0 .. 15 /\ d < base /\ base \in Int /\ d + 1 \in 1 .. 16 /\ d \in Nat
    OBVIOUS
  <2>5. c \in Hex
    BY <2>3, <2>4 DEF Hex
  <2>6. Lib!IsDigit(c, base) /\ Lib!dig(c) = d
    BY <2>3, <2>4, DigIs
  <2> QED  BY <2>1, <2>2, <2>4, <2>5, <2>6, Zenon
<1>4. PICK read : /\ read[0] = 0 /\ Lib!Read(cs, base) = read[l]
                  /\ \A k \in 1 .. l : read[k] = (read[k - 1] * base + Lib!dig(cs[k])) % LongSize
  <2>1. base \in Nat /\ \A k \in 1 .. l : Lib!dig(cs[k]) \in Nat
    BY <1>3
  <2> QED  BY <1>1, <2>1, ReadSteps
<1>5. at(0) = 0
  <2>1. l - 0 = l
    BY <1>1
  <2>2. Place(m, base, l) = 0
    BY <1>1, PlaceOfNone
  <2> QED  BY <2>1, <2>2 DEF at
<1>6. ASSUME NEW j \in Nat, j + 1 <= l, read[j] = at(j) % LongSize
      PROVE  read[j + 1] = at(j + 1) % LongSize
  <2>1. j + 1 \in 1 .. l /\ (j + 1) - 1 = j
    BY <1>1, <1>6
  <2>2. PICK a, d, z : a = at(j) /\ d = Lib!dig(cs[j + 1]) /\ z = LongSize
    OBVIOUS
  <2>3. a \in Nat /\ d \in Nat /\ at(j + 1) = a * base + d
    BY <1>2, <1>3, <2>1, <2>2, Zenon
  <2>4. read[j + 1] = ((a % z) * base + d) % z
    BY <1>4, <1>6, <2>1, <2>2, Zenon
  <2>5. ((a % z) * base + d) % z = (a * base + d) % z
    <3>1. z \in Nat \ {0} /\ base \in Nat
      BY <2>2, LongSizeTyped
    <3>2. a \in Nat /\ d \in Nat
      BY <2>3
    <3> QED  BY <3>1, <3>2, ModuloStep, Zenon
  <2> QED  BY <2>2, <2>3, <2>4, <2>5, Zenon
<1> DEFINE T == {k \in Nat : k <= l => read[k] = at(k) % LongSize}
<1>7. 0 \in T
  <2>1. 0 % LongSize = 0
    BY LongSizeTyped
  <2> QED  BY <1>4, <1>5, <2>1
<1>8. ASSUME NEW j \in Nat, j \in T PROVE j + 1 \in T
  <2>1. j + 1 \in Nat /\ (j + 1 <= l => j <= l)
    BY <1>1
  <2>2. j + 1 <= l => read[j + 1] = at(j + 1) % LongSize
    BY <1>6, <1>8, <2>1, Zenon
  <2> QED  BY <2>1, <2>2, Zenon
<1>9. Nat \subseteq T
  <2> HIDE DEF T
  <2> QED  BY <1>7, <1>8, Induction
<1>10. read[l] = at(l) % LongSize
  <2>1. l \in T /\ l <= l
    BY <1>1, <1>9
  <2> QED  BY <2>1, Zenon
<1>11. at(l) = m
  <2>1. l - l = 0
    BY <1>1
  <2> QED  BY <2>1, PlaceOfAll DEF at
<1> QED  BY <1>3, <1>4, <1>10, <1>11, Zenon

LEMMA NumeralWrites ==
  ASSUME NEW base \in 2 .. 16, NEW m \in Nat
  PROVE  Writes(Numeral(m, base), m, base)
<1>1. PICK k \in 1 .. m + 1 : IsLength(m, base, k)
  BY LengthExists
<1>2. Numeral(m, base) = [i \in 1 .. k |-> Digits[((m \div Pow(base, k - i)) % base) + 1]]
  BY <1>1, NumeralIs
<1> PICK cs : cs = Numeral(m, base)
  OBVIOUS
<1>3. cs \in Seq(Hex) /\ IsLength(m, base, Len(cs))
  BY NumeralTyped
<1>4. k \in Nat /\ Len(cs) = k
  BY <1>2, <1>3
<1>5. ASSUME NEW i \in 1 .. k PROVE cs[i] = Digits[(Place(m, base, k - i) % base) + 1]
  BY <1>2, Zenon DEF Place
<1>6. IsSequence(cs) /\ k >= 1 /\ m < Pow(base, k)
  BY <1>3, <1>4 DEF IsSequence, IsLength
<1> QED  BY <1>4, <1>5, <1>6, Zenon DEF Writes

\* Zeros before the digits.
LEMMA ZerosWrite ==
  ASSUME NEW base \in 2 .. 16, NEW m \in Nat, NEW cs, Writes(cs, m, base), NEW j \in Int
  PROVE  Writes(Pads("0", j) \o cs, m, base)
<1> PICK z, s, i, l : z = Pads("0", j) /\ s = z \o cs /\ i = Len(z) /\ l = Len(cs)
  OBVIOUS
<1>1. IsSequence(z) /\ i \in Nat /\ \A k \in 1 .. i : z[k] = "0"
  <2> PICK c : c = "0"
    OBVIOUS
  <2>1. c \in {c} /\ z = Pads(c, j)
    OBVIOUS
  <2>2. Pads(c, j) \in Seq({c}) /\ \A k \in 1 .. Len(Pads(c, j)) : Pads(c, j)[k] = c
    BY <2>1, PadsTyped, Zenon
  <2> QED  BY <2>1, <2>2 DEF IsSequence
<1>2. IsSequence(cs) /\ l \in Nat /\ l >= 1 /\ m < Pow(base, l)
  BY DEF Writes, IsSequence
<1>3. IsSequence(s) /\ Len(s) = i + l
      /\ \A k \in 1 .. i + l : s[k] = IF k <= i THEN z[k] ELSE cs[k - i]
  BY <1>1, <1>2, SequencesJoin
<1>4. base \in Nat /\ base >= 2
  OBVIOUS
<1>5. ASSUME NEW k \in Nat, k >= l PROVE m < Pow(base, k)
  <2>1. Pow(base, l) <= Pow(base, k) /\ Pow(base, l) \in Nat /\ Pow(base, k) \in Nat
    BY <1>2, <1>4, <1>5, PowGrows, PowStep
  <2> QED  BY <1>2, <2>1
<1>6. ASSUME NEW k \in 1 .. i + l
      PROVE  s[k] = Digits[(Place(m, base, (i + l) - k) % base) + 1]
  <2>1. CASE k <= i
    <3>1. (i + l) - k \in Nat /\ (i + l) - k >= l /\ k \in 1 .. i
      BY <1>1, <1>2, <2>1
    <3>2. Place(m, base, (i + l) - k) = 0
      <4> PICK e : e = (i + l) - k
        OBVIOUS
      <4>1. e \in Nat /\ m < Pow(base, e)
        BY <1>5, <3>1
      <4>2. Place(m, base, e) = 0
        BY <4>1, PlaceOfNone
      <4> QED  BY <4>2
    <3>3. 0 % base = 0 /\ Digits[0 + 1] = "0"
      BY <1>4 DEF Digits
    <3> QED  BY <1>1, <1>3, <2>1, <3>1, <3>2, <3>3
  <2>2. CASE ~(k <= i)
    <3>1. k - i \in 1 .. l /\ l - (k - i) = (i + l) - k
      BY <1>1, <1>2, <2>2
    <3>2. cs[k - i] = Digits[(Place(m, base, l - (k - i)) % base) + 1]
      BY <3>1 DEF Writes
    <3> QED  BY <1>3, <2>2, <3>1, <3>2
  <2> QED  BY <2>1, <2>2
<1>7. i + l \in Nat /\ i + l >= l /\ i + l >= 1
  BY <1>1, <1>2
<1>8. m < Pow(base, i + l)
  BY <1>5, <1>7
<1> QED  BY <1>3, <1>6, <1>7, <1>8 DEF Writes

\* Characters that are skipped, up to the first that is not.
LEMMA AfterIs ==
  ASSUME NEW s, Len(s) \in Nat, NEW p \in Nat, NEW cs, NEW q \in Nat, p <= q, q <= Len(s) + 1,
         Lib!At(s, q) \notin cs, \A j \in p .. q - 1 : Lib!At(s, j) \in cs
  PROVE  Lib!After(s, p, cs) = q
<1>1. PICK T : T = {j \in p .. Len(s) + 1 : Lib!At(s, j) \notin cs}
  OBVIOUS
<1>2. T \subseteq Int /\ q \in T
  BY <1>1
<1>3. \A j \in T : q <= j
  BY <1>1
<1>4. Lib!Min(T) \in T /\ \A j \in T : Lib!Min(T) <= j
  BY <1>2, <1>3 DEF Lib!Min
<1>5. Lib!Min(T) = q
  <2>1. Lib!Min(T) \in Int /\ Lib!Min(T) <= q /\ q <= Lib!Min(T)
    BY <1>2, <1>3, <1>4
  <2> QED  BY <2>1
<1> QED  BY <1>1, <1>5 DEF Lib!After

\* What stands before the digits, and in which base they are read.
Begins(s, l, first, base, z, radix) ==
  \/ /\ base \in {0, 16} /\ first + 1 <= l /\ s[first] = "0" /\ s[first + 1] = "x"
     /\ z = first + 2 /\ radix = 16
  \/ base = 0 /\ first = l /\ s[first] = "0" /\ z = first + 1 /\ radix = 8
  \/ base = 0 /\ s[first] # "0" /\ z = first /\ radix = 10
  \/ base \in {8, 10} /\ z = first /\ radix = base
  \/ /\ base = 16 /\ (first + 1 <= l => s[first + 1] # "x")
     /\ z = first /\ radix = base

LEMMA BeginsIs ==
  ASSUME NEW s, NEW l \in Nat, l = Len(s), NEW first \in 1 .. l, NEW base, NEW z, NEW radix,
         Begins(s, l, first, base, z, radix),
         NEW hex, hex = Lib!HexPrefix(s, first, base),
         NEW octal, octal = (~hex /\ Lib!OctalPrefix(s, first, base))
  PROVE  /\ hex => z = first + 2 /\ radix = 16
         /\ octal => z = first + 1 /\ radix = 8
         /\ ~hex /\ ~octal => z = first /\ radix = IF base # 0 THEN base ELSE 10
         /\ z \in 1 .. l + 1
<1>1. Lib!At(s, first) = s[first]
  BY DEF Lib!At
<1>2. Lib!At(s, first + 1) = IF first + 1 <= l THEN s[first + 1] ELSE NUL
  BY DEF Lib!At, Lib!NUL, NUL
<1>3. NUL # "x"
  BY DEF NUL
<1>4. hex <=> base \in {0, 16} /\ s[first] = "0" /\ first + 1 <= l /\ s[first + 1] = "x"
  BY <1>1, <1>2, <1>3 DEF Lib!HexPrefix
<1>5. octal <=> ~hex /\ base = 0 /\ s[first] = "0"
  BY <1>1 DEF Lib!OctalPrefix
<1>6. CASE /\ base \in {0, 16} /\ first + 1 <= l /\ s[first] = "0" /\ s[first + 1] = "x"
           /\ z = first + 2 /\ radix = 16
  <2>1. hex
    BY <1>4, <1>6
  <2>2. z \in 1 .. l + 1
    BY <1>6
  <2> QED  BY <1>6, <2>1, <2>2, Zenon
<1>7. CASE base = 0 /\ first = l /\ s[first] = "0" /\ z = first + 1 /\ radix = 8
  <2>1. ~hex /\ octal
    BY <1>4, <1>5, <1>7
  <2> QED  BY <1>7, <2>1
<1>8. CASE base = 0 /\ s[first] # "0" /\ z = first /\ radix = 10
  <2>1. ~hex /\ ~octal
    BY <1>4, <1>5, <1>8
  <2> QED  BY <1>8, <2>1
<1>9. CASE /\ base \in {8, 10, 16} /\ z = first /\ radix = base
           /\ base = 16 => (first + 1 <= l => s[first + 1] # "x")
  <2>1. ~hex /\ ~octal /\ base # 0
    BY <1>4, <1>5, <1>9
  <2> QED  BY <1>9, <2>1
<1> QED  BY <1>6, <1>7, <1>8, <1>9 DEF Begins

\* Blanks, a sign, a prefix and digits up to the end.
Number(s, l, sign, first, base, z, radix) ==
  /\ sign \in 1 .. l /\ \A j \in 1 .. sign - 1 : s[j] = " "
  /\ s[sign] \notin {" ", "TAB"}
  /\ first \in 1 .. l /\ first = IF s[sign] \in {"+", "-"} THEN sign + 1 ELSE sign
  /\ Begins(s, l, first, base, z, radix)
  /\ \A j \in z .. l : s[j] \in Hex /\ Lib!IsDigit(s[j], radix)

LEMMA StrtolIs ==
  ASSUME NEW s, NEW l \in Nat, l = Len(s), NEW sign, NEW first, NEW base, NEW z, NEW radix,
         Number(s, l, sign, first, base, z, radix),
         NEW v, v = Lib!Read(SubSeq(s, z, l), radix)
  PROVE  Lib!strtol(s, base) =
           [val |-> IF s[sign] = "-" THEN (-v) % LongSize ELSE v, end |-> l + 1]
<1>1. /\ sign \in 1 .. l /\ sign \in Nat /\ 1 \in Nat /\ 1 <= sign /\ sign <= l + 1
      /\ first \in 1 .. l /\ first = IF s[sign] \in {"+", "-"} THEN sign + 1 ELSE sign
  <2>1. /\ sign \in 1 .. l /\ first \in 1 .. l
        /\ first = IF s[sign] \in {"+", "-"} THEN sign + 1 ELSE sign
    BY Zenon DEF Number
  <2>2. sign \in Nat /\ 1 \in Nat /\ 1 <= sign /\ sign <= l + 1
    BY <2>1
  <2> QED  BY <2>1, <2>2
<1>2. \A j \in 1 .. l : Lib!At(s, j) = s[j]
  BY DEF Lib!At
<1>3. Lib!After(s, 1, {" ", "TAB"}) = sign
  <2>1. \A j \in 1 .. sign - 1 : Lib!At(s, j) \in {" ", "TAB"}
    <3>1. \A j \in 1 .. sign - 1 : s[j] = " "
      BY Zenon DEF Number
    <3>2. \A j \in 1 .. sign - 1 : j \in 1 .. l
      BY <1>1
    <3> QED  BY <1>2, <3>1, <3>2
  <2>2. Lib!At(s, sign) \notin {" ", "TAB"}
    BY <1>1, <1>2 DEF Number
  <2> QED  BY <1>1, <2>1, <2>2, AfterIs
<1>4. Lib!At(s, sign) = s[sign]
  BY <1>1, <1>2
<1>5. PICK hex, octal : /\ hex = Lib!HexPrefix(s, first, base)
                        /\ octal = (~hex /\ Lib!OctalPrefix(s, first, base))
  OBVIOUS
<1>6. /\ hex => z = first + 2 /\ radix = 16
      /\ octal => z = first + 1 /\ radix = 8
      /\ ~hex /\ ~octal => z = first /\ radix = IF base # 0 THEN base ELSE 10
      /\ z \in 1 .. l + 1
  <2>1. Begins(s, l, first, base, z, radix)
    BY Zenon DEF Number
  <2>2. first \in 1 .. l
    BY <1>1
  <2> QED  BY <1>5, <2>1, <2>2, BeginsIs
<1>7. octal => ~hex /\ base = 0
  BY <1>5 DEF Lib!OctalPrefix
<1>8. PICK D : D = {c \in Lib!ToSet(Lib!Digits) : Lib!IsDigit(c, radix)}
  OBVIOUS
<1>9. Lib!After(s, z, D) = l + 1
  <2>1. Lib!At(s, l + 1) = NUL
    <3>1. ~(l + 1 <= l)
      OBVIOUS
    <3> QED  BY <3>1 DEF Lib!At, Lib!NUL, NUL
  <2>2. Lib!ToSet(Lib!Digits) = Hex
    <3>1. Lib!ToSet(Lib!Digits) = {Digits[d] : d \in DOMAIN Digits}
      BY DEF Lib!ToSet, Lib!Digits, Digits
    <3>2. DOMAIN Digits = 1 .. 16
      BY DEF Digits
    <3> QED  BY <3>1, <3>2 DEF Hex
  <2>3. NUL \notin D
    <3>1. NUL \notin Hex
      BY HexDiffers
    <3> QED  BY <1>8, <2>2, <3>1
  <2>4. z \in Nat /\ l + 1 \in Nat /\ z <= l + 1 /\ (l + 1) - 1 = l
    BY <1>6
  <2>5. \A j \in z .. l : Lib!At(s, j) \in D
    <3>1. \A j \in z .. l : j \in 1 .. l
      BY <1>6
    <3>2. \A j \in z .. l : s[j] \in Hex /\ Lib!IsDigit(s[j], radix)
      BY DEF Number
    <3> QED  BY <1>2, <1>8, <2>2, <3>1, <3>2
  <2>6. \A j \in z .. (l + 1) - 1 : Lib!At(s, j) \in D
    BY <2>4, <2>5
  <2>7. l + 1 <= l + 1 /\ Lib!At(s, l + 1) \notin D
    BY <2>1, <2>3
  <2>8. Len(s) \in Nat /\ l + 1 <= Len(s) + 1
    BY <2>4
  <2> QED  BY <2>4, <2>6, <2>7, <2>8, AfterIs
<1>10. (l + 1) - 1 = l
  OBVIOUS
<1> DEFINE sign0  == Lib!After(s, 1, {" ", "TAB"})
           first0 == IF Lib!At(s, sign0) \in {"+", "-"} THEN sign0 + 1 ELSE sign0
           hex0   == Lib!HexPrefix(s, first0, base)
           octal0 == ~hex0 /\ Lib!OctalPrefix(s, first0, base)
           radix0 == CASE hex0 -> 16 [] octal0 -> 8 [] base # 0 /\ ~hex0 -> base [] OTHER -> 10
           start0 == CASE hex0 -> first0 + 2 [] octal0 -> first0 + 1 [] OTHER -> first0
           end0   == Lib!After(s, start0, {c \in Lib!ToSet(Lib!Digits) : Lib!IsDigit(c, radix0)})
           val0   == Lib!Read(SubSeq(s, start0, end0 - 1), radix0)
<1>11. Lib!strtol(s, base) =
        [val |-> IF Lib!At(s, sign0) = "-" THEN (-val0) % LongSize ELSE val0, end |-> end0]
  BY DEF Lib!strtol, LongSize
<1>12. sign0 = sign
  BY <1>3
<1> HIDE DEF sign0
<1>13. first0 = first
  BY <1>1, <1>4, <1>12
<1> HIDE DEF first0
<1>14. hex0 = hex /\ octal0 = octal
  BY <1>5, <1>13
<1> HIDE DEF hex0, octal0
<1> HIDE DEF end0, val0
<1>15. radix0 = radix /\ start0 = z
  <2>1. CASE hex0
    <3>1. ~octal0
      BY <1>7, <1>14, <2>1, Zenon
    <3>2. radix0 = 16 /\ start0 = first + 2
      BY <1>13, <2>1, <3>1
    <3> QED  BY <1>6, <1>14, <2>1, <3>2, Zenon
  <2>2. CASE octal0
    <3>1. ~hex0 /\ ~(base # 0)
      BY <1>7, <1>14, <2>2, Zenon
    <3>2. radix0 = 8 /\ start0 = first + 1
      BY <1>13, <2>2, <3>1
    <3> QED  BY <1>6, <1>14, <2>2, <3>2, Zenon
  <2>3. CASE ~hex0 /\ ~octal0
    <3>1. radix0 = (IF base # 0 THEN base ELSE 10) /\ start0 = first
      BY <1>13, <2>3
    <3> QED  BY <1>6, <1>14, <2>3, <3>1, Zenon
  <2> QED  BY <2>1, <2>2, <2>3
<1> HIDE DEF radix0, start0
<1>16. end0 = l + 1
  BY <1>8, <1>9, <1>15 DEF end0
<1>17. val0 = v
  BY <1>10, <1>15, <1>16 DEF val0
<1> QED  BY <1>4, <1>11, <1>12, <1>16, <1>17, Zenon

Outcome(s, sign, v) ==
  [val |-> IF s[sign] = "-" THEN (-v) % LongSize ELSE v, end |-> Len(s) + 1]

LEMMA StrtolReads ==
  ASSUME NEW s, Len(s) \in Nat, NEW sign, NEW first, NEW base, NEW z, NEW radix,
         Number(s, Len(s), sign, first, base, z, radix)
  PROVE  Lib!strtol(s, base) = Outcome(s, sign, Lib!Read(SubSeq(s, z, Len(s)), radix))
<1>1. PICK v : v = Lib!Read(SubSeq(s, z, Len(s)), radix)
  OBVIOUS
<1>2. Lib!strtol(s, base) =
        [val |-> IF s[sign] = "-" THEN (-v) % LongSize ELSE v, end |-> Len(s) + 1]
  BY <1>1, StrtolIs
<1> QED  BY <1>1, <1>2 DEF Outcome

LEMMA Suffix ==
  ASSUME NEW Z, NEW s \in Seq(Z), NEW l, l = Len(s), NEW m \in 1 .. l + 1
  PROVE  /\ SubSeq(s, m, l) \in Seq(Z) /\ Len(SubSeq(s, m, l)) = l - m + 1
         /\ \A j \in 1 .. l - m + 1 : SubSeq(s, m, l)[j] = s[m + j - 1]
<1>1. m \in Int /\ l \in Int
  OBVIOUS
<1>2. (IF m <= l THEN l - m + 1 ELSE 0) = l - m + 1
  OBVIOUS
<1>3. \A j \in m .. l : s[j] \in Z
  <2>1. \A j \in m .. l : j \in 1 .. l
    OBVIOUS
  <2> QED  BY <2>1, ElementOfSeq
<1>4. /\ SubSeq(s, m, l) \in Seq(Z)
      /\ Len(SubSeq(s, m, l)) = IF m <= l THEN l - m + 1 ELSE 0
      /\ \A j \in 1 .. l - m + 1 : SubSeq(s, m, l)[j] = s[m + j - 1]
  BY <1>1, <1>3, SubSeqProperties
<1> QED  BY <1>2, <1>4, Zenon

LEMMA SuffixIs ==
  ASSUME NEW Z, NEW s \in Seq(Z), NEW ds \in Seq(Z), NEW m \in 1 .. Len(s) + 1,
         Len(ds) = Len(s) - m + 1, \A j \in m .. Len(s) : s[j] = ds[j - m + 1]
  PROVE  SubSeq(s, m, Len(s)) = ds
<1>1. PICK l : l = Len(s)
  OBVIOUS
<1>2. PICK t : t = SubSeq(s, m, l)
  OBVIOUS
<1>3. t \in Seq(Z) /\ Len(t) = l - m + 1 /\ \A j \in 1 .. l - m + 1 : t[j] = s[m + j - 1]
  BY <1>1, <1>2, Suffix
<1>4. l \in Nat
  BY <1>1
<1>5. \A j \in 1 .. l - m + 1 : m + j - 1 \in m .. l /\ (m + j - 1) - m + 1 = j
  BY <1>1, <1>4
<1>6. \A j \in 1 .. l - m + 1 : t[j] = ds[j]
  BY <1>1, <1>3, <1>5
<1>7. t = ds
  BY <1>1, <1>3, <1>6, SeqEqual
<1> QED  BY <1>1, <1>2, <1>7

\* s is h, then ds.
Consists(s, h, ds) ==
  /\ Len(h) \in Nat /\ Len(ds) \in Nat /\ Len(s) = Len(h) + Len(ds)
  /\ SubSeq(s, Len(h) + 1, Len(s)) = ds
  /\ \A j \in 1 .. Len(h) : s[j] = h[j]
  /\ \A j \in Len(h) + 1 .. Len(s) : j - Len(h) \in 1 .. Len(ds) /\ s[j] = ds[j - Len(h)]

LEMMA ConsistsIs ==
  ASSUME NEW h, IsSequence(h), NEW ds, IsSequence(ds)
  PROVE  Consists(h \o ds, h, ds)
<1>1. PICK s, a, l : s = h \o ds /\ a = Len(h) /\ l = Len(s)
  OBVIOUS
<1>2. PICK X, Y : h \in Seq(X) /\ ds \in Seq(Y)
  BY DEF IsSequence
<1>3. PICK Z : Z = X \cup Y
  OBVIOUS
<1>4. h \in Seq(Z) /\ ds \in Seq(Z)
  BY <1>2, <1>3, SeqMonotonic
<1>5. PICK n1 : n1 = Len(ds)
  OBVIOUS
<1>6. /\ a \in Nat /\ n1 \in Nat /\ s \in Seq(Z) /\ l = a + n1
      /\ \A j \in 1 .. a + n1 : s[j] = IF j <= a THEN h[j] ELSE ds[j - a]
  <2>1. /\ IsSequence(s) /\ Len(h) \in Nat /\ Len(ds) \in Nat /\ Len(s) = Len(h) + Len(ds)
        /\ \A j \in 1 .. Len(h) + Len(ds) : s[j] = IF j <= Len(h) THEN h[j] ELSE ds[j - Len(h)]
    BY <1>1, SequencesJoin
  <2>2. s \in Seq(Z)
    BY <1>1, <1>4, ConcatProperties
  <2> QED  BY <1>1, <1>5, <2>1, <2>2
<1>7. \A j \in 1 .. a : s[j] = h[j]
  <2>1. \A j \in 1 .. a : j \in 1 .. a + n1 /\ j <= a
    BY <1>6
  <2> QED  BY <1>6, <2>1
<1>8. \A j \in a + 1 .. l : j - a \in 1 .. n1 /\ s[j] = ds[j - a]
  <2>1. \A j \in a + 1 .. l : j \in 1 .. a + n1 /\ ~(j <= a) /\ j - a \in 1 .. n1
    BY <1>6
  <2> QED  BY <1>6, <2>1
<1>9. SubSeq(s, a + 1, l) = ds
  <2>1. a + 1 \in 1 .. Len(s) + 1 /\ Len(ds) = Len(s) - (a + 1) + 1
    BY <1>1, <1>5, <1>6
  <2>2. \A j \in a + 1 .. Len(s) : s[j] = ds[j - (a + 1) + 1]
    <3>1. \A j \in a + 1 .. l : j - a = j - (a + 1) + 1
      BY <1>6
    <3> QED  BY <1>1, <1>8, <3>1
  <2>3. SubSeq(s, a + 1, Len(s)) = ds
    BY <1>4, <1>6, <2>1, <2>2, SuffixIs, ZenonT(60)
  <2> QED  BY <1>1, <2>3
<1>10. Consists(s, h, ds)
  BY <1>1, <1>5, <1>6, <1>7, <1>8, <1>9 DEF Consists
<1> QED  BY <1>1, <1>10, Zenon

\* A numeral has no leading zero.
LEMMA NumeralBegins ==
  ASSUME NEW base \in 2 .. 16, NEW m \in Nat, Numeral(m, base)[1] = "0"
  PROVE  m = 0 /\ Len(Numeral(m, base)) = 1
<1>1. PICK cs, l : cs = Numeral(m, base) /\ l = Len(cs)
  OBVIOUS
<1>2. Writes(cs, m, base) /\ IsLength(m, base, l)
  BY <1>1, NumeralWrites, NumeralTyped
<1>3. /\ l \in Nat \ {0} /\ l - 1 \in Nat /\ (l - 1) + 1 = l
      /\ m < Pow(base, l) /\ (l = 1 \/ m >= Pow(base, l - 1))
  BY <1>2 DEF IsLength
<1>4. PICK x, q : x = Pow(base, l - 1) /\ q = Place(m, base, l - 1)
  OBVIOUS
<1>5. base \in Nat \ {0} /\ base \in Nat /\ base <= 16
  OBVIOUS
<1>6. x \in Nat \ {0} /\ m < base * x
  BY <1>3, <1>4, <1>5, PowStep, PowPositive
<1>7. q \in Nat /\ q = m \div x
  BY <1>3, <1>4, PlaceTyped DEF Place
<1>8. m % x \in 0 .. x - 1 /\ m = x * q + (m % x)
  BY <1>6, <1>7, Quotient
<1>9. q < base
  <2> SUFFICES ASSUME q >= base PROVE FALSE
    BY <1>5, <1>7
  <2>1. x * q >= x * base /\ x * base = base * x /\ x * q \in Nat /\ base * x \in Nat
    BY <1>5, <1>6, <1>7
  <2> QED  BY <1>6, <1>8, <2>1
<1>10. q = 0
  <2>1. cs[1] = Digits[(q % base) + 1]
    <3>1. 1 \in 1 .. l
      BY <1>3
    <3> QED  BY <1>1, <1>2, <1>4, <3>1 DEF Writes
  <2>2. q % base = q
    BY <1>5, <1>7, <1>9
  <2>3. q \in 0 .. 15 /\ 0 \in 0 .. 15
    BY <1>5, <1>7, <1>9
  <2>4. Digits[q + 1] = Digits[0 + 1]
    <3>1. Digits[0 + 1] = "0"
      BY DEF Digits
    <3> QED  BY <1>1, <2>1, <2>2, <3>1
  <2> QED  BY <2>3, <2>4, DigIs
<1>11. m < x
  BY <1>6, <1>8, <1>10
<1>12. l = 1
  BY <1>3, <1>4, <1>6, <1>11
<1>13. x = 1
  BY <1>4, <1>5, <1>12, PowStep
<1> QED  BY <1>1, <1>11, <1>12, <1>13

\* Digits behind blanks or a sign, read in the base they are written in, or in
\* the base that their beginning tells.
Leads(h, a) == (\A j \in 1 .. a : h[j] = " ") \/ (a = 1 /\ h[1] = "-")
ReadIn(base, radix, ds, m) ==
  base = radix \/ (base = 0 /\ radix = 10 /\ ds = Numeral(m, 10))

Radixes == {8, 10, 16}
ReadAs(h, m, s) ==
  [val |-> IF Len(h) = 1 /\ h[1] = "-" THEN (-m) % LongSize ELSE m % LongSize,
   end |-> Len(s) + 1]

LEMMA PlainReads ==
  ASSUME NEW radix \in Radixes, NEW m \in Nat, NEW ds, Writes(ds, m, radix),
         NEW base, ReadIn(base, radix, ds, m), NEW h, Leads(h, Len(h)),
         NEW s, Consists(s, h, ds)
  PROVE  Lib!strtol(s, base) = ReadAs(h, m, s)
<1>1. PICK a, l, e : a = Len(h) /\ l = Len(s) /\ e = Len(ds)
  OBVIOUS
<1>2. e >= 1
  BY <1>1, Zenon DEF Writes
<1>3. /\ a \in Nat /\ e \in Nat /\ l = a + e /\ SubSeq(s, a + 1, l) = ds
      /\ \A j \in 1 .. a : s[j] = h[j]
      /\ \A j \in a + 1 .. l : j - a \in 1 .. e /\ s[j] = ds[j - a]
  BY <1>1, Zenon DEF Consists
<1>4. radix \in 2 .. 16 /\ radix \in Int
  BY DEF Radixes
<1>5. Lib!Read(ds, radix) = m % LongSize /\ \A j \in 1 .. e : ds[j] \in Hex /\ Lib!IsDigit(ds[j], radix)
  BY <1>1, <1>4, ReadWritten
<1>6. \A j \in a + 1 .. l : s[j] \in Hex /\ Lib!IsDigit(s[j], radix)
  BY <1>3, <1>5
<1>7. PICK neg \in BOOLEAN : neg <=> (a = 1 /\ h[1] = "-")
  BY Zenon
<1>8. PICK sign : sign = IF neg THEN 1 ELSE a + 1
  OBVIOUS
<1>9. PICK first : first = a + 1
  OBVIOUS
<1>10. first \in 1 .. l /\ first \in a + 1 .. l /\ sign \in 1 .. l /\ l \in Nat /\ first - a = 1
  BY <1>2, <1>3, <1>7, <1>8, <1>9
<1>11. s[first] \notin {" ", "TAB", "+", "-", "x"}
  BY <1>6, <1>10, HexDiffers
<1>12. /\ \A j \in 1 .. sign - 1 : s[j] = " "
       /\ s[sign] \notin {" ", "TAB"}
       /\ first = IF s[sign] \in {"+", "-"} THEN sign + 1 ELSE sign
       /\ s[sign] = "-" <=> neg
  <2>1. CASE neg
    <3>1. sign = 1 /\ a = 1 /\ h[1] = "-" /\ first = 2
      <4>1. a = 1 /\ h[1] = "-" /\ sign = 1
        BY <1>7, <1>8, <2>1, Zenon
      <4>2. 1 + 1 = 2
        OBVIOUS
      <4> QED  BY <1>9, <4>1, <4>2, Zenon
    <3>2. s[1] = h[1]
      BY <1>3, <3>1
    <3>3. s[sign] = "-"
      BY <3>1, <3>2, Zenon
    <3> QED  BY <2>1, <3>1, <3>3
  <2>2. CASE ~neg
    <3>1. sign = first /\ sign - 1 = a
      BY <1>3, <1>8, <1>9, <2>2
    <3>2. \A j \in 1 .. a : s[j] = " "
      <4>1. \A j \in 1 .. a : h[j] = " "
        BY <1>1, <1>7, <2>2, Zenon DEF Leads
      <4> QED  BY <1>3, <4>1, Zenon
    <3> QED  BY <1>11, <2>2, <3>1, <3>2
  <2> QED  BY <2>1, <2>2
<1>13. SUFFICES Lib!strtol(s, base) = Outcome(s, sign, m % LongSize)
  <2>1. (-(m % LongSize)) % LongSize = (-m) % LongSize
    BY LongSizeTyped, ModuloNegated
  <2> QED  BY <1>1, <1>7, <1>12, <1>13, <2>1, Zenon DEF Outcome, ReadAs
<1>14. PICK zero \in BOOLEAN : zero <=> (base = 0 /\ s[first] = "0")
  BY Zenon
<1>15. CASE ~zero
  <2>1. Begins(s, l, first, base, first, radix)
    <3>1. CASE base = 0
      <4>1. radix = 10 /\ s[first] # "0"
        <5>1. s[first] # "0"
          BY <1>14, <1>15, <3>1, Zenon
        <5>2. radix # 0
          BY <1>4
        <5> QED  BY <3>1, <5>1, <5>2, Zenon DEF ReadIn
      <4> QED  BY <3>1, <4>1, Zenon DEF Begins
    <3>2. CASE base \in {8, 10} /\ radix = base
      BY <3>2, Zenon DEF Begins
    <3>3. CASE base = 16 /\ radix = base
      <4>1. first + 1 <= l => s[first + 1] # "x"
        <5>1. first + 1 <= l => first + 1 \in a + 1 .. l
          BY <1>3, <1>9
        <5> QED  BY <1>6, <5>1, HexDiffers
      <4> QED  BY <3>3, <4>1, Zenon DEF Begins
    <3> QED  BY <3>1, <3>2, <3>3 DEF ReadIn, Radixes
  <2>2. Number(s, l, sign, first, base, first, radix)
    BY <1>6, <1>9, <1>10, <1>12, <2>1, Zenon DEF Number
  <2>3. Lib!Read(SubSeq(s, first, l), radix) = m % LongSize
    BY <1>3, <1>5, <1>9, Zenon
  <2>4. Len(s) \in Nat /\ Number(s, Len(s), sign, first, base, first, radix)
    BY <1>1, <1>10, <2>2, Zenon
  <2>5. Lib!Read(SubSeq(s, first, Len(s)), radix) = m % LongSize
    BY <1>1, <2>3, Zenon
  <2>6. Lib!strtol(s, base) = Outcome(s, sign, Lib!Read(SubSeq(s, first, Len(s)), radix))
    BY <2>4, StrtolReads
  <2> QED  BY <2>5, <2>6, Zenon
<1>16. CASE zero
  <2>1. base = 0 /\ radix = 10 /\ ds = Numeral(m, 10) /\ s[first] = "0"
    <3>1. base = 0 /\ s[first] = "0"
      BY <1>14, <1>16, Zenon
    <3>2. radix # 0
      BY <1>4
    <3> QED  BY <3>1, <3>2, Zenon DEF ReadIn
  <2>2. ds[1] = "0"
    BY <1>3, <1>10, <2>1
  <2>3. m = 0 /\ e = 1
    <3>1. 10 \in 2 .. 16
      OBVIOUS
    <3> QED  BY <1>1, <2>1, <2>2, <3>1, NumeralBegins, Zenon
  <2>4. PICK next : next = first + 1
    OBVIOUS
  <2>5. first = l /\ next \in Int /\ l < next
    BY <1>3, <1>9, <2>3, <2>4
  <2>6. \A j \in next .. l : s[j] \in Hex /\ Lib!IsDigit(s[j], 8)
    BY <1>10, <2>5
  <2>7. Begins(s, l, first, base, next, 8)
    BY <2>1, <2>4, <2>5, Zenon DEF Begins
  <2>8. Number(s, l, sign, first, base, next, 8)
    BY <1>10, <1>12, <2>6, <2>7, Zenon DEF Number
  <2>9. Lib!Read(SubSeq(s, next, l), 8) = 0
    <3>1. SubSeq(s, next, l) = << >>
      <4>1. l \in Int
        BY <1>10
      <4> QED  BY <2>5, <4>1, SubSeqEmpty
    <3>2. IsSequence(<< >>) /\ Len(<< >>) = 0
      <4>1. << >> \in Seq({})
        OBVIOUS
      <4> QED  BY <4>1 DEF IsSequence
    <3>3. 8 \in Nat /\ \A k \in 1 .. Len(<< >>) : Lib!dig(<< >>[k]) \in Nat
      BY <3>2
    <3> QED  BY <3>1, <3>2, <3>3, ReadSteps
  <2>10. m % LongSize = 0
    <3>1. PICK d : d = LongSize
      OBVIOUS
    <3>2. d \in Nat \ {0}
      BY <3>1, LongSizeTyped
    <3>3. 0 % d = 0
      BY <3>2
    <3> QED  BY <2>3, <3>1, <3>3
  <2>11. Len(s) \in Nat /\ Number(s, Len(s), sign, first, base, next, 8)
    BY <1>1, <1>10, <2>8, Zenon
  <2>12. Lib!Read(SubSeq(s, next, Len(s)), 8) = m % LongSize
    BY <1>1, <2>9, <2>10, Zenon
  <2>13. Lib!strtol(s, base) = Outcome(s, sign, Lib!Read(SubSeq(s, next, Len(s)), 8))
    BY <2>11, StrtolReads
  <2> QED  BY <2>12, <2>13, Zenon
<1> QED  BY <1>15, <1>16

\* Digits behind 0x.
LEMMA PrefixedReads ==
  ASSUME NEW m \in Nat, NEW ds, Writes(ds, m, 16), NEW base \in {0, 16},
         NEW h, Len(h) = 2, h[1] = "0", h[2] = "x", NEW s, Consists(s, h, ds)
  PROVE  Lib!strtol(s, base) = [val |-> m % LongSize, end |-> Len(s) + 1]
<1>1. PICK l, e : l = Len(s) /\ e = Len(ds)
  OBVIOUS
<1>2. e >= 1
  BY <1>1, Zenon DEF Writes
<1>3. /\ e \in Nat /\ l = 2 + e /\ SubSeq(s, 2 + 1, l) = ds
      /\ \A j \in 1 .. 2 : s[j] = h[j]
      /\ \A j \in 2 + 1 .. l : j - 2 \in 1 .. e /\ s[j] = ds[j - 2]
  BY <1>1, Zenon DEF Consists
<1>4. PICK z : z = 2 + 1
  OBVIOUS
<1>5. 16 \in 2 .. 16 /\ z = 3
  BY <1>4
<1>6. Lib!Read(ds, 16) = m % LongSize /\ \A j \in 1 .. e : ds[j] \in Hex /\ Lib!IsDigit(ds[j], 16)
  BY <1>1, <1>5, ReadWritten
<1>7. s[1] = "0" /\ s[2] = "x" /\ l \in Nat /\ l >= 3
  BY <1>2, <1>3
<1>8. Begins(s, l, 1, base, z, 16)
  <2>1. 1 + 1 <= l /\ z = 1 + 2 /\ s[1 + 1] = "x"
    BY <1>5, <1>7
  <2> QED  BY <1>7, <2>1, Zenon DEF Begins
<1>9. \A j \in z .. l : s[j] \in Hex /\ Lib!IsDigit(s[j], 16)
  BY <1>3, <1>4, <1>6
<1>10. /\ 1 \in 1 .. l /\ s[1] \notin {" ", "TAB"} /\ \A j \in 1 .. 1 - 1 : s[j] = " "
       /\ 1 = IF s[1] \in {"+", "-"} THEN 1 + 1 ELSE 1
  BY <1>7
<1>11. Number(s, l, 1, 1, base, z, 16)
  BY <1>8, <1>9, <1>10, Zenon DEF Number
<1>12. Lib!Read(SubSeq(s, z, l), 16) = m % LongSize
  BY <1>3, <1>4, <1>6, Zenon
<1>13. Lib!strtol(s, base) = Outcome(s, 1, m % LongSize)
  <2>1. Len(s) \in Nat /\ Number(s, Len(s), 1, 1, base, z, 16)
    BY <1>1, <1>7, <1>11, Zenon
  <2>2. Lib!Read(SubSeq(s, z, Len(s)), 16) = m % LongSize
    BY <1>1, <1>12, Zenon
  <2>3. Lib!strtol(s, base) = Outcome(s, 1, Lib!Read(SubSeq(s, z, Len(s)), 16))
    BY <2>1, StrtolReads
  <2> QED  BY <2>2, <2>3, Zenon
<1>14. s[1] # "-"
  BY <1>7
<1> QED  BY <1>13, <1>14, Zenon DEF Outcome

\* What printnum puts: blanks, zeros or nothing, and then the numeral.
LEMMA PrintnumWrites ==
  ASSUME NEW radix \in 2 .. 16, NEW m \in Nat, NEW w \in Int, NEW c \in {Blank, "0"}
  PROVE  \E h, ds :
           /\ IsSequence(h) /\ IsSequence(ds) /\ Writes(ds, m, radix)
           /\ printnum(m, radix, w, c) = h \o ds
           /\ \A j \in 1 .. Len(h) : h[j] = " "
           /\ c = "0" \/ w <= 0 => h = << >>
           /\ c # "0" \/ w <= 0 => ds = Numeral(m, radix)
<1>1. PICK s, l, z, o : /\ s = Numeral(m, radix) /\ l = Len(s) /\ z = Pads(c, w - l)
                        /\ o = printnum(m, radix, w, c)
  OBVIOUS
<1>2. s \in Seq(Hex) /\ Writes(s, m, radix) /\ o = z \o s
  BY <1>1, NumeralTyped, NumeralWrites, PrintnumIsNumeral
<1>3. IsSequence(s)
  BY <1>2, Zenon DEF IsSequence
<1>4. l \in Nat
  BY <1>1, <1>2
<1>5. w - l \in Int /\ (w <= 0 => w - l <= 0)
  BY <1>4
<1>6. IsSequence(z) /\ (\A j \in 1 .. Len(z) : z[j] = c) /\ (w <= 0 => z = << >>)
  <2>1. c \in {c}
    OBVIOUS
  <2>2. /\ Pads(c, w - l) \in Seq({c}) /\ \A j \in 1 .. Len(Pads(c, w - l)) : Pads(c, w - l)[j] = c
        /\ w - l <= 0 => Pads(c, w - l) = << >>
    BY <1>5, <2>1, PadsTyped, Zenon
  <2> QED  BY <1>1, <1>5, <2>2, Zenon DEF IsSequence
<1>7. PICK no : no = << >>
  OBVIOUS
<1>8. IsSequence(no) /\ \A j \in 1 .. Len(no) : no[j] = " "
  <2>1. no \in Seq({}) /\ Len(no) = 0
    BY <1>7
  <2> QED  BY <2>1 DEF IsSequence
<1>9. \A x : IsSequence(x) => no \o x = x
  <2>1. ASSUME NEW x, IsSequence(x) PROVE no \o x = x
    <3>1. PICK X : x \in Seq(X)
      BY <2>1 DEF IsSequence
    <3> QED  BY <1>7, <3>1
  <2> QED  BY <2>1
<1>10. CASE w <= 0
  <2>1. o = no \o s
    BY <1>2, <1>6, <1>7, <1>10, Zenon
  <2> QED  BY <1>1, <1>2, <1>3, <1>7, <1>8, <1>10, <2>1, Zenon
<1>11. CASE ~(w <= 0) /\ c = "0"
  <2>1. PICK ds : ds = Pads("0", w - l) \o s
    OBVIOUS
  <2>2. ds = o
    BY <1>1, <1>2, <1>11, <2>1, Zenon
  <2>3. Writes(ds, m, radix)
    BY <1>2, <1>5, <2>1, ZerosWrite, Zenon
  <2>4. IsSequence(ds)
    BY <2>3, Zenon DEF Writes
  <2>5. o = no \o ds
    BY <1>9, <2>2, <2>4, Zenon
  <2> QED  BY <1>1, <1>7, <1>8, <1>11, <2>3, <2>4, <2>5, Zenon
<1>12. CASE ~(w <= 0) /\ c # "0"
  <2>1. c = " "
    BY <1>12, Zenon DEF Blank
  <2>2. \A j \in 1 .. Len(z) : z[j] = " "
    BY <1>6, <2>1, Zenon
  <2> QED  BY <1>1, <1>2, <1>3, <1>6, <1>12, <2>2, Zenon
<1> QED  BY <1>10, <1>11, <1>12, Zenon

\* A number of either size is the same, as far as a long holds it.
LEMMA LongLongHolds == \E k \in Nat : Pow(2, LongLongBits) = LongSize * k
<1>1. IntBits \in Nat /\ LongLongBits - IntBits \in Nat
      /\ IntBits + (LongLongBits - IntBits) = LongLongBits
  BY PrintFmtAssumption
<1>2. 2 \in Nat
  OBVIOUS
<1>3. PICK S : S = {j \in Nat : \E k \in Nat : Pow(2, IntBits + j) = LongSize * k}
  OBVIOUS
<1>4. 0 \in S
  <2>1. LongSize \in Nat /\ IntBits + 0 = IntBits /\ 1 \in Nat
    BY <1>1, LongSizeTyped
  <2>2. Pow(2, IntBits + 0) = LongSize * 1
    <3>1. LongSize * 1 = LongSize
      BY <2>1
    <3> QED  BY <2>1, <3>1, Zenon DEF LongSize
  <2> QED  BY <1>3, <2>1, <2>2
<1>5. ASSUME NEW j \in Nat, j \in S PROVE j + 1 \in S
  <2>1. PICK k \in Nat : Pow(2, IntBits + j) = LongSize * k
    BY <1>3, <1>5
  <2>2. IntBits + j \in Nat /\ (IntBits + j) + 1 = IntBits + (j + 1) /\ j + 1 \in Nat
    BY <1>1
  <2>3. Pow(2, (IntBits + j) + 1) = 2 * Pow(2, IntBits + j)
    BY <1>2, <2>2, PowStep
  <2>4. PICK d : d = LongSize
    OBVIOUS
  <2>5. d \in Nat
    BY <2>4, LongSizeTyped
  <2>6. 2 * (d * k) = d * (2 * k) /\ 2 * k \in Nat
    BY <2>5
  <2>7. Pow(2, IntBits + (j + 1)) = LongSize * (2 * k)
    BY <2>1, <2>2, <2>3, <2>4, <2>6, Zenon
  <2> QED  BY <1>3, <2>2, <2>6, <2>7
<1>6. Nat \subseteq S
  BY <1>4, <1>5, Induction
<1>7. LongLongBits - IntBits \in S
  BY <1>1, <1>6
<1>8. PICK k \in Nat : Pow(2, IntBits + (LongLongBits - IntBits)) = LongSize * k
  BY <1>3, <1>7
<1> QED  BY <1>1, <1>8, Zenon

LEMMA SignedHolds ==
  ASSUME NEW l \in Nat, NEW v \in ArgOf(l)
  PROVE  Signed(v, l) % LongSize = v % LongSize
<1>1. PICK d : d = LongSize
  OBVIOUS
<1>2. PICK big \in Nat : Pow(2, LongLongBits) = d * big
  BY <1>1, LongLongHolds
<1>3. d \in Nat \ {0} /\ d = Pow(2, IntBits)
  BY <1>1, LongSizeTyped DEF LongSize
<1>4. v \in Nat /\ Signed(v, l) \in Int
  BY SignExtends
<1>5. PICK s : s = Signed(v, l)
  OBVIOUS
<1>6. s = v \/ s = v - d * 1 \/ s = v - d * big
  <2>1. d * 1 = d
    BY <1>3
  <2> QED  BY <1>2, <1>3, <1>5, <2>1, Zenon DEF Signed
<1>7. PICK k \in Nat : s = v - d * k
  <2>1. v = v - d * 0
    BY <1>3, <1>4
  <2>2. 0 \in Nat /\ 1 \in Nat
    OBVIOUS
  <2> QED  BY <1>2, <1>6, <2>1, <2>2, Zenon
<1>8. s \in Int /\ v \in Int /\ v = s + d * k
  BY <1>3, <1>4, <1>5, <1>7
<1>9. v % d = s % d
  BY <1>3, <1>8, Modulo
<1> QED  BY <1>1, <1>5, <1>9, Zenon

\* What a numeric conversion that is a format of its own has put for v.
Printed(p, v, o) ==
  \E w, prec \in Int :
    /\ p.width = << >> => w <= 0
    /\ Suits(p.conv, p.long, v)
    /\ o = PutBy(p.conv, v, w, prec, p.long, p.pad, p.alt)

LEMMA UnsignedReads ==
  ASSUME NEW p, IsConversion(p), p.pad # "-", p.conv \in DOMAIN Base, NEW v, NEW o, Printed(p, v, o)
  PROVE  Lib!strtol(o, Base[p.conv]) = [val |-> v % LongSize, end |-> Len(o) + 1]
<1>1. PICK radix : radix = Base[p.conv]
  OBVIOUS
<1>2. radix \in Radixes
  <2>1. \A c \in DOMAIN Base : Base[c] \in Radixes
    BY DEF Base, Radixes
  <2> QED  BY <1>1, <2>1, Zenon
<1>3. PICK w, prec \in Int : Suits(p.conv, p.long, v) /\ o = PutBy(p.conv, v, w, prec, p.long, p.pad, p.alt)
  BY Zenon DEF Printed
<1>4. o = printnum(v, radix, w, p.pad)
  <2>1. o = printnum(getuint(v, p.long), Base[p.conv], w, p.pad)
    BY <1>3, PutEach
  <2> QED  BY <1>1, <2>1, Zenon DEF getuint
<1>5. v \in Nat /\ radix \in 2 .. 16 /\ p.pad \in {Blank, "0"}
  <2>1. v \in Nat
    BY <1>3 DEF Suits
  <2> QED  BY <1>2, <2>1 DEF IsConversion, Radixes
<1>6. PICK h, ds : /\ IsSequence(h) /\ IsSequence(ds) /\ Writes(ds, v, radix)
                   /\ printnum(v, radix, w, p.pad) = h \o ds
                   /\ \A j \in 1 .. Len(h) : h[j] = " "
  BY <1>5, PrintnumWrites, Zenon
<1>7. Consists(h \o ds, h, ds) /\ Leads(h, Len(h)) /\ ReadIn(radix, radix, ds, v)
  BY <1>6, ConsistsIs, Zenon DEF Leads, ReadIn
<1>8. ~(Len(h) = 1 /\ h[1] = "-")
  <2>1. Len(h) = 1 => 1 \in 1 .. Len(h)
    OBVIOUS
  <2> QED  BY <1>6, <2>1
<1>9. Lib!strtol(h \o ds, radix) = ReadAs(h, v, h \o ds)
  <2>1. Writes(ds, v, radix)
    BY <1>6
  <2>2. v \in Nat
    BY <1>5
  <2> QED  BY <1>2, <1>7, <2>1, <2>2, PlainReads
<1> QED  BY <1>1, <1>4, <1>6, <1>8, <1>9, Zenon DEF ReadAs

\* No padding stands between a sign or 0x and the digits.
LEMMA DigitsAlone ==
  ASSUME NEW p, IsConversion(p), p.pad # "-", p.pad = "0" \/ p.width = << >>,
         NEW w \in Int, p.width = << >> => w <= 0,
         NEW radix \in 2 .. 16, NEW m \in Nat
  PROVE  /\ IsSequence(printnum(m, radix, w, p.pad))
         /\ Writes(printnum(m, radix, w, p.pad), m, radix)
         /\ p.pad # "0" => printnum(m, radix, w, p.pad) = Numeral(m, radix)
<1>1. p.pad \in {Blank, "0"}
  BY DEF IsConversion
<1>2. PICK h, ds :
        /\ IsSequence(h) /\ IsSequence(ds) /\ Writes(ds, m, radix)
        /\ printnum(m, radix, w, p.pad) = h \o ds
        /\ \A j \in 1 .. Len(h) : h[j] = " "
        /\ p.pad = "0" \/ w <= 0 => h = << >>
        /\ p.pad # "0" \/ w <= 0 => ds = Numeral(m, radix)
  BY <1>1, PrintnumWrites, Zenon
<1>3. h = << >> /\ (p.pad # "0" => ds = Numeral(m, radix))
  BY <1>2, Zenon
<1>4. << >> \o ds = ds
  <2>1. PICK X : ds \in Seq(X)
    BY <1>2 DEF IsSequence
  <2> QED  BY <2>1
<1> QED  BY <1>2, <1>3, <1>4, Zenon

LEMMA PointerReads ==
  ASSUME NEW p, IsConversion(p), p.pad # "-", p.pad = "0" \/ p.width = << >>, p.conv = "p",
         NEW v, NEW o, Printed(p, v, o), NEW base \in {0, 16}
  PROVE  Lib!strtol(o, base) = [val |-> v % LongSize, end |-> Len(o) + 1]
<1>1. PICK w, prec \in Int :
        /\ p.width = << >> => w <= 0
        /\ Suits(p.conv, p.long, v) /\ o = PutBy(p.conv, v, w, prec, p.long, p.pad, p.alt)
  BY Zenon DEF Printed
<1>2. v \in Nat /\ 16 \in 2 .. 16
  BY <1>1 DEF Suits
<1>3. PICK h, ds : h = <<"0", "x">> /\ ds = printnum(v, 16, w, p.pad)
  OBVIOUS
<1>4. o = h \o ds
  BY <1>1, <1>3, PutEach
<1>5. IsSequence(ds) /\ Writes(ds, v, 16)
  BY <1>1, <1>2, <1>3, DigitsAlone
<1>6. IsSequence(h) /\ Len(h) = 2 /\ h[1] = "0" /\ h[2] = "x"
  <2>1. h \in Seq({"0", "x"})
    BY <1>3
  <2> QED  BY <1>3, <2>1 DEF IsSequence
<1>7. Consists(h \o ds, h, ds)
  BY <1>5, <1>6, ConsistsIs, Zenon
<1>8. Lib!strtol(h \o ds, base) = [val |-> v % LongSize, end |-> Len(h \o ds) + 1]
  BY <1>2, <1>5, <1>6, <1>7, PrefixedReads
<1> QED  BY <1>4, <1>8, Zenon

LEMMA DecimalReads ==
  ASSUME NEW p, IsConversion(p), p.pad # "-", p.pad = "0" \/ p.width = << >>, p.conv = "d",
         NEW v, NEW o, Printed(p, v, o),
         NEW base, base = 10 \/ (base = 0 /\ p.pad # "0")
  PROVE  Lib!strtol(o, base) = [val |-> v % LongSize, end |-> Len(o) + 1]
<1>1. PICK w, prec \in Int :
        /\ p.width = << >> => w <= 0
        /\ Suits(p.conv, p.long, v) /\ o = PutBy(p.conv, v, w, prec, p.long, p.pad, p.alt)
  BY Zenon DEF Printed
<1>2. PICK l, neg, m : l = p.long /\ neg = Negative(v, l) /\ m = Magnitude(v, l)
  OBVIOUS
<1>3. l \in Nat /\ v \in ArgOf(l)
  BY <1>1, <1>2 DEF Suits, IsConversion
<1>4. m \in Nat /\ Signed(v, l) \in Int /\ (neg <=> Signed(v, l) < 0)
      /\ m = IF Signed(v, l) < 0 THEN -Signed(v, l) ELSE Signed(v, l)
  BY <1>2, <1>3, SignExtends
<1>5. PICK h, ds : h = (IF neg THEN <<"-">> ELSE << >>) /\ ds = printnum(m, 10, w, p.pad)
  OBVIOUS
<1>6. o = h \o ds
  <2>1. o = DecimalPut(v, p.long, w, p.pad)
    BY <1>1, PutEach
  <2> QED  BY <1>2, <1>5, <2>1, Zenon DEF DecimalPut
<1>7. 10 \in 2 .. 16 /\ 10 \in Radixes
  BY DEF Radixes
<1>8. IsSequence(ds) /\ Writes(ds, m, 10) /\ (p.pad # "0" => ds = Numeral(m, 10))
  BY <1>1, <1>4, <1>5, <1>7, DigitsAlone
<1>9. ReadIn(base, 10, ds, m)
  BY <1>8, Zenon DEF ReadIn
<1>10. IsSequence(h) /\ Leads(h, Len(h)) /\ (neg <=> Len(h) = 1 /\ h[1] = "-")
  <2>1. CASE neg
    <3>1. h = <<"-">>
      BY <1>5, <2>1
    <3> QED  BY <2>1, <3>1, Singleton DEF Leads
  <2>2. CASE ~neg
    <3>1. h = << >>
      BY <1>5, <2>2
    <3>2. h \in Seq({}) /\ Len(h) = 0
      BY <3>1
    <3> QED  BY <2>2, <3>2 DEF Leads, IsSequence
  <2> QED  BY <2>1, <2>2
<1>11. Consists(h \o ds, h, ds)
  BY <1>8, <1>10, ConsistsIs, Zenon
<1>12. Lib!strtol(h \o ds, base) = ReadAs(h, m, h \o ds)
  BY <1>4, <1>7, <1>8, <1>9, <1>10, <1>11, PlainReads
<1>13. (IF neg THEN -m ELSE m) = Signed(v, l)
  BY <1>4
<1>14. Signed(v, l) % LongSize = v % LongSize
  BY <1>3, SignedHolds
<1>15. (IF Len(h) = 1 /\ h[1] = "-" THEN (-m) % LongSize ELSE m % LongSize) = v % LongSize
  BY <1>10, <1>13, <1>14, Zenon
<1> QED  BY <1>6, <1>12, <1>15, Zenon DEF ReadAs

LEMMA PrintedReads ==
  ASSUME NEW p, IsConversion(p), Numeric(p), Unbroken(p), p.pad # "-",
         NEW v, NEW o, Printed(p, v, o), NEW base \in BasesOf(p)
  PROVE  Lib!strtol(o, base) = [val |-> v % LongSize, end |-> Len(o) + 1]
<1>1. \A c \in DOMAIN Base : c # "p" /\ c # "d"
  BY DEF Base
<1>2. p.conv \in DOMAIN Base \/ p.conv = "d" \/ p.conv = "p"
  BY Zenon DEF Numeric
<1>3. CASE p.conv \in DOMAIN Base
  <2>1. base = Base[p.conv]
    BY <1>1, <1>3 DEF BasesOf
  <2> QED  BY <1>3, <2>1, UnsignedReads
<1>4. CASE p.conv = "p"
  <2>1. p.pad = "0" \/ p.width = << >>
    BY <1>1, <1>4, Zenon DEF Unbroken
  <2>2. base \in {0, 16}
    BY <1>4 DEF BasesOf
  <2> QED  BY <1>4, <2>1, <2>2, PointerReads
<1>5. CASE p.conv = "d"
  <2>1. p.pad = "0" \/ p.width = << >>
    BY <1>1, <1>5, Zenon DEF Unbroken
  <2>2. base = 10 \/ (base = 0 /\ p.pad # "0")
    BY <1>5 DEF BasesOf
  <2> QED  BY <1>5, <2>1, <2>2, DecimalReads
<1> QED  BY <1>2, <1>3, <1>4, <1>5

\* A format that is one numeric conversion: what it printed, once it is behind.
Single == Len(format) = 1 /\ Numeric(format[1]) /\ format[1].pad # "-"
ConversionOver == (pc = "text" /\ f # 1) \/ (pc = "done" /\ n >= 1)
Alone ==
  Single => /\ pc = "vsnprintf" => f = 1
            /\ ConversionOver => \E v : args[Len(args)] = v /\ Printed(format[1], v, out)

LEMMA SingleMeans ==
  ASSUME Parsing, Single
  PROVE  /\ Intended /\ format \in Formats /\ Len(format) = 1 /\ 1 \in 1 .. Len(format)
         /\ IsConversion(format[1]) /\ format[1].kind = "conversion"
         /\ format[1].conv \in DOMAIN Base \cup {"d", "p"}
<1>1. format \in Formats /\ Len(format) = 1 /\ 1 \in 1 .. Len(format)
  BY DEF Parsing, Single
<1>2. DOMAIN format = 1 .. 1
  BY <1>1, FormatTyped
<1>3. Intended
  BY <1>2 DEF Single, Intended
<1>4. format[1].kind = "conversion" /\ format[1].conv \in DOMAIN Base \cup {"d", "p"}
  BY Zenon DEF Single, Numeric
<1>5. IsPiece(format[1], 1 = Len(format))
  BY <1>1, FormatTyped
<1>6. IsConversion(format[1])
  BY <1>4, <1>5, PieceKind
<1> QED  BY <1>1, <1>3, <1>4, <1>6

\* Between characters, such a format is at its beginning or at its end.
LEMMA SingleText ==
  ASSUME Parsing, Single, NEW k, NEW i, TextAt(k, i)
  PROVE  fmt[f] = "%" \/ (fmt[f] = NUL /\ f # 1)
<1>1. format \in Formats /\ Len(format) = 1 /\ 1 \in 1 .. Len(format)
      /\ format[1].kind = "conversion"
  BY SingleMeans
<1>2. CASE k = Len(format) + 1 /\ i = 0 /\ fmt[f] = NUL
  <2>1. k = 2 /\ k - 1 = 1
    BY <1>1, <1>2
  <2>2. f = End(format, 1) + i + 1
    BY <2>1, Zenon DEF TextAt
  <2>3. PICK e0, e1, l : e0 = End(format, 0) /\ e1 = End(format, 1) /\ l = Len(Spelled(format[1]))
    OBVIOUS
  <2>4. e0 \in Nat /\ l \in Nat \ {0}
    <3>1. 0 \in 0 .. Len(format)
      BY <1>1
    <3>2. End(format, 0) \in Nat
      BY <1>1, <3>1, EndNext
    <3>3. IsPiece(format[1], 1 = Len(format))
      BY <1>1, FormatTyped
    <3>4. Len(Spelled(format[1])) \in Nat \ {0}
      BY <3>3, PieceSpelled
    <3> QED  BY <2>3, <3>2, <3>4, Zenon
  <2>5. e1 = e0 + l
    <3>1. 1 - 1 = 0
      OBVIOUS
    <3> QED  BY <1>1, <2>3, <3>1, EndNext
  <2> QED  BY <1>2, <2>2, <2>3, <2>4, <2>5
<1>3. CASE k \in 1 .. Len(format) /\ (format[k].kind = "conversion" => fmt[f] = "%")
  <2>1. k = 1
    BY <1>1, <1>3
  <2> QED  BY <1>1, <1>3, <2>1
<1> QED  BY <1>2, <1>3, TextMeets

\* The conversion puts what its flags say.
LEMMA SinglePrints ==
  ASSUME Parsing, Following, Single,
         character \/ error \/ string \/ decimal \/ unsigned \/ pointer
  PROVE  \E v : args'[Len(args')] = v /\ Printed(format[1], v, out')
<1>1. PICK v : \E conv \in Conversions \ {"%"} :
        /\ pc = "reswitch" /\ fmt[f] = conv /\ Suits(conv, lflag, v)
        /\ Converted(PutBy(conv, v, width, precision, lflag, padc, altflag), <<v>>)
  BY ConversionTakes, Zenon
<1>2. PICK conv \in Conversions \ {"%"} :
        /\ pc = "reswitch" /\ fmt[f] = conv /\ Suits(conv, lflag, v)
        /\ Converted(PutBy(conv, v, width, precision, lflag, padc, altflag), <<v>>)
  BY <1>1, Zenon
<1>3. PICK k, i \in Nat : PieceAt(k, i)
  BY <1>2 DEF Following
<1>4. PICK p : p = format[1]
  OBVIOUS
<1>5. /\ Intended /\ Len(format) = 1 /\ IsConversion(p) /\ p.kind = "conversion"
      /\ p.conv \in DOMAIN Base \cup {"d", "p"}
  BY <1>4, SingleMeans
<1>6. k = 1
  <2>1. k \in 1 .. Len(format)
    BY <1>3, Zenon DEF PieceAt
  <2> QED  BY <1>5, <2>1
<1>7. PICK a1, a2 : a1 = args[FirstOf(format, 1)] /\ a2 = args[FirstOf(format, 1) + Stars(p.width)]
  OBVIOUS
<1>8. /\ Meets(p, i, conv) /\ Said(format, args, 1 - 1, out)
      /\ FlagsRead(p, i, a1, a2, padc, altflag, width, precision, lflag)
  <2>1. /\ Meets(p, i, fmt[f])
        /\ Parsed(p, i, args[FirstOf(format, 1)], args[FirstOf(format, 1) + Stars(p.width)])
        /\ Intended => Said(format, args, 1 - 1, out)
    BY <1>3, <1>4, <1>5, <1>6, ConversionMeets
  <2> QED  BY <1>2, <1>5, <1>7, <2>1, Zenon DEF Parsed
<1>9. i = AfterLong(p) /\ conv = p.conv
  BY <1>2, <1>5, <1>8, MeetsFlag
<1>10. /\ padc = p.pad /\ altflag = p.alt /\ lflag = p.long
       /\ Field(p.width, a1) \in Int /\ Alike(width, Field(p.width, a1))
  BY <1>5, <1>8, <1>9, AllRead
<1>11. p.width = << >> => width <= 0
  <2>1. p.width = << >> => Field(p.width, a1) = -1
    BY FieldEmpty
  <2> QED  BY <1>10, <2>1 DEF Alike
<1>12. width \in Int /\ precision \in Int /\ lflag \in Nat
  BY DEF Parsing
<1>13. PICK cs : cs = PutBy(p.conv, v, width, precision, p.long, p.pad, p.alt)
  OBVIOUS
<1>14. Printed(p, v, cs)
  BY <1>2, <1>9, <1>10, <1>11, <1>12, <1>13, Zenon DEF Printed
<1>15. IsSequence(cs)
  BY <1>2, <1>9, <1>10, <1>12, <1>13, PutTyped
<1>16. out = << >>
  <2>1. out = FlattenSeq([j \in 1 .. 1 - 1 |-> SaysOf(format, args, j)])
    BY <1>8, Zenon DEF Said
  <2>2. [j \in 1 .. 1 - 1 |-> SaysOf(format, args, j)] = << >>
    OBVIOUS
  <2> QED  BY <2>1, <2>2, FlattenEmpty, Zenon
<1>17. out' = cs
  <2>1. out' = << >> \o cs
    BY <1>2, <1>9, <1>10, <1>13, <1>16, Zenon DEF Converted, Put
  <2>2. PICK X : cs \in Seq(X)
    BY <1>15 DEF IsSequence
  <2>3. << >> \o cs = cs
    BY <2>2
  <2> QED  BY <2>1, <2>3, Zenon
<1>18. args'[Len(args')] = v
  <2>1. args' = args \o <<v>> /\ IsSequence(args)
    BY <1>2, Zenon DEF Converted, Following
  <2>2. Len(args \o <<v>>) = Len(args) + 1 /\ (args \o <<v>>)[Len(args) + 1] = v
    BY <2>1, Appended
  <2> QED  BY <2>1, <2>2, Zenon
<1> QED  BY <1>4, <1>14, <1>17, <1>18, Zenon

LEMMA AloneInductive ==
  ASSUME Parsing, Buffered, Following, Alone, [Next]_vars
  PROVE  Alone'
<1> SUFFICES ASSUME Single'
             PROVE  /\ pc' = "vsnprintf" => f' = 1
                    /\ ConversionOver' => \E v : args'[Len(args')] = v /\ Printed(format'[1], v, out')
  BY Zenon DEF Alone
<1>1. format' = format /\ n' = n
  BY ZenonT(60) DEF Next, refuse, start, literal, finish, escape, pad, dot, alternate, long, number, star,
        percent, character, error, string, decimal, unsigned, pointer, unknown,
        Converted, call, vars
<1>2. Single
  BY <1>1, Zenon DEF Single
<1>3. /\ pc = "vsnprintf" => f = 1
      /\ ConversionOver => \E v : args[Len(args)] = v /\ Printed(format[1], v, out)
  BY <1>2, Zenon DEF Alone
<1>4. ASSUME pc = "text"
      PROVE  fmt[f] = "%" \/ (fmt[f] = NUL /\ f # 1)
  <2>1. PICK k, i \in Nat : TextAt(k, i)
    BY <1>4 DEF Following
  <2> QED  BY <1>2, <2>1, SingleText
<1>5. ASSUME pc = "reswitch" PROVE fmt[f] \in Known /\ fmt[f] # "%"
  <2>1. PICK k, i \in Nat : PieceAt(k, i)
    BY <1>5 DEF Following
  <2>2. PICK p : p = format[1]
    OBVIOUS
  <2>3. /\ Len(format) = 1 /\ IsConversion(p) /\ p.kind = "conversion"
        /\ p.conv \in DOMAIN Base \cup {"d", "p"}
    BY <1>2, <2>2, SingleMeans
  <2>4. k = 1
    <3>1. k \in 1 .. Len(format)
      BY <2>1, Zenon DEF PieceAt
    <3> QED  BY <2>3, <3>1
  <2>5. Meets(p, i, fmt[f])
    BY <2>1, <2>2, <2>3, <2>4, ConversionMeets
  <2>6. fmt[f] \in Known /\ (fmt[f] \in Conversions => fmt[f] = p.conv)
    BY <2>3, <2>5, MeetsFlag
  <2>7. p.conv # "%" /\ "%" \in Conversions
    BY <2>3 DEF Base, Conversions
  <2> QED  BY <2>6, <2>7
<1>6. CASE UNCHANGED vars
  BY <1>3, <1>6, Zenon DEF ConversionOver, vars, call
<1>7. CASE refuse
  <2>1. pc' = "done" /\ ~(n' >= 1)
    BY <1>1, <1>7, PrintFmtAssumption DEF refuse, Parsing
  <2> QED  BY <2>1 DEF ConversionOver
<1>8. CASE start
  <2>1. pc = "vsnprintf" /\ pc' = "text" /\ f' = f
    BY <1>8 DEF start
  <2> QED  BY <1>3, <2>1 DEF ConversionOver
<1>9. CASE literal
  <2>1. pc = "text" /\ fmt[f] \notin {"%", NUL}
    BY <1>9 DEF literal
  <2> QED  BY <1>4, <2>1
<1>10. CASE finish
  <2>1. pc = "text" /\ fmt[f] = NUL /\ pc' = "done" /\ UNCHANGED <<out, args>>
    BY <1>10 DEF finish
  <2>2. f # 1
    BY <1>4, <2>1, NulDiffers
  <2>3. \E v : args[Len(args)] = v /\ Printed(format[1], v, out)
    BY <1>3, <2>1, <2>2, Zenon DEF ConversionOver
  <2>4. pc' # "vsnprintf"
    BY <2>1
  <2> QED  BY <1>1, <2>1, <2>3, <2>4, Zenon
<1>11. CASE escape \/ pad \/ dot \/ alternate \/ long \/ number \/ star
  <2>1. pc' = "reswitch"
    BY <1>11 DEF escape, pad, dot, alternate, long, number, star, Switch
  <2> QED  BY <2>1 DEF ConversionOver
<1>12. CASE percent
  <2>1. pc = "reswitch" /\ fmt[f] = "%"
    BY <1>12, Zenon DEF percent, Switch
  <2> QED  BY <1>5, <2>1
<1>13. CASE character \/ error \/ string \/ decimal \/ unsigned \/ pointer
  <2>1. \E v : args'[Len(args')] = v /\ Printed(format[1], v, out')
    BY <1>2, <1>13, SinglePrints
  <2>2. PICK v : \E conv \in Conversions \ {"%"} :
          /\ pc = "reswitch" /\ fmt[f] = conv /\ Suits(conv, lflag, v)
          /\ Converted(PutBy(conv, v, width, precision, lflag, padc, altflag), <<v>>)
    BY <1>13, ConversionTakes, Zenon
  <2>3. pc' = "text"
    BY <2>2, Zenon DEF Converted
  <2>4. pc' # "vsnprintf"
    BY <2>3
  <2> QED  BY <1>1, <2>1, <2>4, Zenon
<1>14. CASE unknown
  <2>1. pc = "reswitch" /\ fmt[f] \notin Known
    BY <1>14 DEF unknown
  <2> QED  BY <1>5, <2>1
<1> QED  BY <1>6, <1>7, <1>8, <1>9, <1>10, <1>11, <1>12, <1>13, <1>14 DEF Next

LEMMA AloneInit ==
  ASSUME Init
  PROVE  Alone
<1>1. pc = "vsnprintf" /\ f = 1
  BY DEF Init
<1> QED  BY <1>1 DEF Alone, ConversionOver

LEMMA AloneReads ==
  ASSUME Parsing, Alone
  PROVE  ReadsBack
<1> SUFFICES ASSUME Returned, Len(format) = 1, Numeric(format[1]), Unbroken(format[1]),
                    format[1].pad # "-", NEW base \in BasesOf(format[1])
             PROVE  Lib!strtol(out, base) =
                      [val |-> args[Len(args)] % Pow(2, IntBits), end |-> Len(out) + 1]
  BY Zenon DEF ReadsBack
<1>1. Single
  BY DEF Single
<1>2. IsConversion(format[1])
  BY <1>1, SingleMeans
<1>3. PICK v : args[Len(args)] = v /\ Printed(format[1], v, out)
  BY <1>1, Zenon DEF Alone, ConversionOver, Returned
<1>4. Lib!strtol(out, base) = [val |-> v % LongSize, end |-> Len(out) + 1]
  BY <1>2, <1>3, PrintedReads
<1> QED  BY <1>3, <1>4, Zenon DEF LongSize

\* Every number that a conversion prints, strtol reads back, as far as a long
\* holds it, to the last digit: printnum and strtol translate it there and back.
THEOREM SpecReadsBack == Spec => []ReadsBack
<1>1. Init => Parsing /\ Buffered /\ Following /\ Alone
  BY BufferedInit, FollowingInit, AloneInit
<1>2. Parsing /\ Buffered /\ Following /\ Alone /\ [Next]_vars
        => (Parsing /\ Buffered /\ Following /\ Alone)'
  BY ParsingInductive, BufferedInductive, FollowingInductive, AloneInductive
<1>3. Parsing /\ Alone => ReadsBack
  BY AloneReads
<1> QED  BY <1>1, <1>2, <1>3, PTL DEF Spec
=============================================================================
