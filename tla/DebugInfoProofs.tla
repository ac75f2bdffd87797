-------------------------- MODULE DebugInfoProofs ---------------------------
(***************************************************************************)
(* Proofs about DebugInfo: what the two binary searches of debuginfo_eip   *)
(* find, for a table of any length, any address and any duplicates.        *)
(***************************************************************************)
EXTENDS DebugInfo, FiniteSetTheorems, WellFoundedInduction, TLAPS

\* A set of integers with a bound has a greatest element.
LEMMA Greatest ==
  ASSUME NEW S, S \subseteq Int, S # {}, NEW b \in Int, \A k \in S : k <= b
  PROVE  Max(S) \in S /\ \A k \in S : k <= Max(S)
<1> DEFINE R == OpToRel(<, Nat)
           D == {n \in Nat : b - n \in S}
<1>1. IsWellFoundedOn(R, Nat)
  BY NatLessThanWellFounded
<1>2. \A m, n \in Nat : m < n => <<m, n>> \in R
  BY DEF OpToRel
<1>3. D \subseteq Nat /\ D # {}
  <2>1. PICK k \in S : TRUE
    OBVIOUS
  <2>2. b - k \in Nat /\ b - (b - k) = k
    OBVIOUS
  <2> QED  BY <2>1, <2>2
<1> HIDE DEF R
<1>4. PICK d \in D : \A m \in D : ~(<<m, d>> \in R)
  <2> HIDE DEF D
  <2> QED  BY <1>1, <1>3, WFMin
<1>5. ASSUME NEW m \in D PROVE d <= m
  <2>1. m \in Nat /\ d \in Nat /\ ~(m < d)
    BY <1>2, <1>4
  <2> QED  BY <2>1
<1>6. PICK x \in S : d = b - x
  <2>1. b - d \in S /\ d \in Nat /\ d = b - (b - d)
    OBVIOUS
  <2> QED  BY <2>1
<1>7. \A k \in S : x >= k
  <2> SUFFICES ASSUME NEW k \in S PROVE x >= k
    OBVIOUS
  <2>1. b - k \in D
    <3>1. b - k \in Nat /\ b - (b - k) = k
      OBVIOUS
    <3> QED  BY <3>1
  <2>2. d <= b - k
    BY <1>5, <2>1
  <2> QED  BY <1>6, <2>2
<1>8. \A y \in S : Max(S) >= y
  BY <1>7 DEF Max
<1>9. Max(S) \in S
  BY <1>7 DEF Max
<1> QED  BY <1>8, <1>9

\* An element that bounds a set is its maximum, or its minimum.
LEMMA IsMax ==
  ASSUME NEW S, S \subseteq Int, NEW m \in S, \A k \in S : k <= m
  PROVE  Max(S) = m
<1>1. Max(S) \in S /\ \A k \in S : k <= Max(S)
  BY Greatest
<1>2. Max(S) \in Int /\ m \in Int /\ m <= Max(S) /\ Max(S) <= m
  BY <1>1
<1> QED  BY <1>2

LEMMA IsMin ==
  ASSUME NEW S, S \subseteq Int, NEW m \in S, \A k \in S : m <= k
  PROVE  Min(S) = m
<1>1. Min(S) \in S /\ \A k \in S : Min(S) <= k
  BY DEF Min
<1>2. Min(S) \in Int /\ m \in Int /\ m <= Min(S) /\ Min(S) <= m
  BY <1>1
<1> QED  BY <1>2
-----------------------------------------------------------------------------
(* The table and the variables.                                            *)

\* The value of a stab, and whether it has the type looked for.
LEMMA TableFacts ==
  ASSUME NEW t \in Tables
  PROVE  /\ \A k \in Index : t[k].n_value \in 0 .. MaxAddr
         /\ t[0].n_type \notin {N_SO, N_FUN}
         /\ \A j, k \in Index :
              j <= k /\ {t[j].n_type, t[k].n_type} \subseteq {N_SO, N_FUN}
                => t[j].n_value <= t[k].n_value
         /\ \A k \in Index : t[k].n_type = N_PSYM =>
              /\ k < MaxStab
              /\ t[k + 1].n_type \notin {N_SO, N_FUN}
<1>1. PICK u \in Entries : t = [k \in Index |-> IF k = 0 THEN Header ELSE u[k]]
  BY DEF Tables
<1>2. /\ MaxStab \in Nat \ {0} /\ MaxAddr \in Nat /\ Index = 0 .. MaxStab
      /\ u \in [1 .. MaxStab -> Stab]
      /\ \A k \in 2 .. MaxStab : u[k].n_type = N_PSYM =>
           k < MaxStab /\ u[k + 1].n_type \in {N_PSYM, N_SLINE}
      /\ u[1].n_type = N_SO
      /\ \A j, k \in 1 .. MaxStab :
           j < k /\ {u[j].n_type, u[k].n_type} \subseteq {N_SO, N_FUN}
             => u[j].n_value <= u[k].n_value
  BY StabAssumption DEF Entries, Index
<1>3. t[0] = Header /\ \A k \in 1 .. MaxStab : t[k] = u[k]
  BY <1>1, <1>2
<1>4. Header.n_type \notin {N_SO, N_FUN, N_PSYM} /\ Header.n_value = 0
  BY DEF Header, N_SO, N_FUN, N_PSYM
<1>5. \A s \in Stab : s.n_value \in 0 .. MaxAddr
  BY <1>2 DEF Stab
<1>6. \A k \in Index : t[k].n_value \in 0 .. MaxAddr
  <2> SUFFICES ASSUME NEW k \in Index PROVE t[k].n_value \in 0 .. MaxAddr
    OBVIOUS
  <2>1. CASE k = 0
    BY <1>2, <1>3, <1>4, <2>1
  <2>2. CASE k \in 1 .. MaxStab
    BY <1>2, <1>3, <1>5, <2>2
  <2> QED  BY <1>2, <2>1, <2>2
<1>7. ASSUME NEW j \in Index, NEW k \in Index, j <= k,
             {t[j].n_type, t[k].n_type} \subseteq {N_SO, N_FUN}
      PROVE  t[j].n_value <= t[k].n_value
  <2>1. j # 0 /\ k # 0
    BY <1>3, <1>4, <1>7
  <2>2. j \in 1 .. MaxStab /\ k \in 1 .. MaxStab
    BY <1>2, <2>1
  <2>3. CASE j = k
    BY <1>2, <1>6, <2>3
  <2>4. CASE j < k
    BY <1>2, <1>3, <1>7, <2>2, <2>4
  <2> QED  BY <1>2, <1>7, <2>3, <2>4
<1>8. ASSUME NEW k \in Index, t[k].n_type = N_PSYM
      PROVE  k < MaxStab /\ t[k + 1].n_type \notin {N_SO, N_FUN}
  <2>1. k # 0 /\ k # 1
    BY <1>2, <1>3, <1>4, <1>8 DEF N_SO, N_PSYM
  <2>2. k \in 2 .. MaxStab /\ t[k] = u[k]
    BY <1>2, <1>3, <2>1
  <2>3. k < MaxStab /\ u[k + 1].n_type \in {N_PSYM, N_SLINE}
    BY <1>2, <1>8, <2>2
  <2>4. t[k + 1] = u[k + 1]
    BY <1>2, <1>3, <2>2, <2>3
  <2> QED  BY <2>3, <2>4 DEF N_SO, N_FUN, N_PSYM, N_SLINE
<1> QED  BY <1>3, <1>4, <1>6, <1>7, <1>8
-----------------------------------------------------------------------------
(* The search.                                                             *)

\* What a turn of the loop leaves true of [l, r]: matching stabs before it
\* are below the address looked for, those behind it above the one asked for.
SearchInv ==
  pc \in {N_SO, N_FUN} =>
    /\ region \in Index \X Index /\ region[1] <= region[2]
    /\ l \in region[1] .. region[2] + 1
    /\ r \in region[1] - 1 .. region[2]
    /\ l <= r + 1
    /\ right = r
    /\ addr \in eip .. MaxAddr + 1
    /\ \A k \in Matching : k < l => stabs[k].n_value < addr
    /\ \A k \in Matching : k > r => stabs[k].n_value > eip
    /\ left # region[1] => /\ left \in Matching /\ stabs[left].n_value < addr
                           /\ left <= l /\ left <= r
    /\ r # region[2] => r + 1 \in Matching
    /\ ~any_matches =>
         /\ left = region[1] /\ r = region[2] /\ addr = eip
         /\ \A k \in Matching : k >= l
    /\ addr # eip => \E k \in Matching : stabs[k].n_value = eip
    /\ ~NextAddressTaken => addr <= eip + 1
    /\ pc = N_SO => region = <<0, MaxStab>>
    /\ pc = N_FUN =>
         /\ region = <<lfile, rfile>>
         /\ rfile # MaxStab => stabs[rfile + 1].n_type = N_SO

\* The inductive invariant.
IInv == TypeOK /\ SearchInv /\ FunctionHoldsAddress

\* The middle of an interval is in it.
LEMMA MiddleBetween ==
  ASSUME l \in Int, r \in Int, l <= r
  PROVE  Middle \in l .. r
  BY DEF Middle

\* The type looked for is one of the two of which the values are sorted.
LEMMA MatchingFacts ==
  ASSUME TypeOK, SearchInv, pc \in {N_SO, N_FUN}
  PROVE  /\ Matching = {k \in region[1] .. region[2] : stabs[k].n_type = pc}
         /\ region[1] \in Nat /\ region[2] \in Nat /\ region[1] .. region[2] \subseteq Index
         /\ \A k \in Matching : k \in Index /\ k >= 1 /\ stabs[k].n_value \in 0 .. MaxAddr
         /\ \A j, k \in Matching : j <= k => stabs[j].n_value <= stabs[k].n_value
<1>1. /\ region[1] \in Index /\ region[2] \in Index /\ Index = 0 .. MaxStab
      /\ MaxStab \in Nat
  BY StabAssumption DEF SearchInv, Index
<1>2. region[1] .. region[2] \subseteq Index
  BY <1>1
<1>3. stabs \in Tables
  BY DEF TypeOK
<1>4. ASSUME NEW k \in Matching
      PROVE  k \in Index /\ stabs[k].n_type = pc
  BY <1>2 DEF Matching
<1>5. ASSUME NEW k \in Matching
      PROVE  k \in Index /\ k >= 1 /\ stabs[k].n_value \in 0 .. MaxAddr
  <2>1. k # 0
    BY <1>3, <1>4, TableFacts
  <2> QED  BY <1>1, <1>3, <1>4, <2>1, TableFacts
<1>6. ASSUME NEW j \in Matching, NEW k \in Matching, j <= k
      PROVE  stabs[j].n_value <= stabs[k].n_value
  <2>1. {stabs[j].n_type, stabs[k].n_type} \subseteq {N_SO, N_FUN}
    BY <1>4
  <2> QED  BY <1>3, <1>4, <1>6, <2>1, TableFacts
<1> QED  BY <1>1, <1>2, <1>5, <1>6 DEF Matching

\* The candidate of a turn: it is in the upper part of [l, Middle] that holds
\* no other, and it is a matching stab of the region.
LEMMA NearestCandidate ==
  ASSUME TypeOK, SearchInv, Searching, Candidates # {}
  PROVE  /\ Max(Candidates) \in Matching
         /\ Max(Candidates) \in l .. Middle
         /\ \A k \in Matching : k <= Middle => k < l \/ k <= Max(Candidates)
<1>1. /\ l \in Int /\ r \in Int /\ l <= r /\ region[1] \in Int /\ region[2] \in Int
      /\ region[1] <= l /\ r <= region[2] /\ pc \in {N_SO, N_FUN}
  BY MatchingFacts DEF Searching, SearchInv
<1>2. Middle \in l .. r
  BY <1>1, MiddleBetween
<1>3. Candidates \subseteq Int /\ \A k \in Candidates : k <= Middle
  BY <1>1, <1>2 DEF Candidates
<1>4. Max(Candidates) \in Candidates /\ \A k \in Candidates : k <= Max(Candidates)
  <2>1. Middle \in Int
    BY <1>1, <1>2
  <2> QED  BY <1>3, <2>1, Greatest
<1>5. Max(Candidates) \in l .. Middle /\ stabs[Max(Candidates)].n_type = pc
  BY <1>4 DEF Candidates
<1>6. Max(Candidates) \in Matching
  BY <1>1, <1>2, <1>5 DEF Matching
<1>7. ASSUME NEW k \in Matching, k <= Middle, ~(k < l)
      PROVE  k <= Max(Candidates)
  <2>1. k \in l .. Middle /\ stabs[k].n_type = pc
    BY <1>1, <1>2, <1>7 DEF Matching
  <2>2. k \in Candidates
    BY <2>1 DEF Candidates
  <2> QED  BY <1>4, <2>2
<1> QED  BY <1>5, <1>6, <1>7

\* Nothing but the search moves during it.
LEMMA SameSearch ==
  ASSUME UNCHANGED <<stabs, eip, region, pc>>
  PROVE  /\ Matching' = Matching
         /\ NextAddressTaken' <=> NextAddressTaken
  BY DEF Matching, NextAddressTaken
\* The conjuncts of SearchInv in a turn, with the types of what it compares.
LEMMA TurnFacts ==
  ASSUME TypeOK, SearchInv, Searching
  PROVE  /\ l \in Nat /\ r \in Int /\ l <= r /\ Middle \in l .. r
         /\ region[1] \in Nat /\ region[2] \in Nat /\ region[1] <= l /\ r <= region[2]
         /\ region[2] <= MaxStab /\ region \in Index \X Index
         /\ eip \in Nat /\ addr \in Nat /\ eip <= addr /\ addr <= MaxAddr + 1
         /\ MaxAddr \in Nat /\ MaxStab \in Nat /\ pc \in {N_SO, N_FUN}
<1>1. pc \in {N_SO, N_FUN} /\ l <= r
  BY DEF Searching
<1>2. /\ region \in Index \X Index /\ l \in region[1] .. region[2] + 1
      /\ r \in region[1] - 1 .. region[2] /\ addr \in eip .. MaxAddr + 1
      /\ region[1] \in 0 .. MaxStab /\ region[2] \in 0 .. MaxStab
      /\ eip \in 0 .. MaxAddr /\ MaxStab \in Nat /\ MaxAddr \in Nat
  BY <1>1, StabAssumption DEF SearchInv, TypeOK, Index
<1>3. Middle \in l .. r
  BY <1>1, <1>2, MiddleBetween
<1> QED  BY <1>1, <1>2, <1>3

\* Half of the interval holds no candidate: all before its middle are below.
LEMMA NoneKeeps ==
  ASSUME TypeOK, SearchInv, search_none
  PROVE  TypeOK' /\ SearchInv'
<1>1. /\ Searching /\ Candidates = {} /\ l' = Middle + 1
      /\ UNCHANGED <<stabs, eip, region, left, right, r, addr, any_matches,
                     lfile, rfile, info, pc>>
  BY DEF search_none
<1>2. /\ l \in Nat /\ r \in Int /\ l <= r /\ Middle \in l .. r
      /\ region[1] \in Nat /\ region[2] \in Nat /\ region[1] <= l /\ r <= region[2]
      /\ region[2] <= MaxStab /\ MaxStab \in Nat /\ pc \in {N_SO, N_FUN}
  BY <1>1, TurnFacts
<1>3. Matching' = Matching /\ (NextAddressTaken' <=> NextAddressTaken)
  BY <1>1, SameSearch
<1>4. ASSUME NEW k \in Matching, k <= Middle
      PROVE  k < l
  <2>1. k \in region[1] .. region[2] /\ stabs[k].n_type = pc
    BY DEF Matching
  <2>2. k \notin l .. Middle
    BY <1>1, <2>1 DEF Candidates
  <2> QED  BY <1>2, <1>4, <2>1, <2>2
<1>5. \A k \in Matching : k \in Int
  BY <1>2 DEF Matching
<1>6. \A k \in Matching : k < Middle + 1 => stabs[k].n_value < addr
  BY <1>2, <1>4, <1>5 DEF SearchInv
<1>7. ~any_matches => \A k \in Matching : k >= Middle + 1
  <2> SUFFICES ASSUME ~any_matches, NEW k \in Matching PROVE k >= Middle + 1
    OBVIOUS
  <2>1. k >= l
    BY <1>2 DEF SearchInv
  <2>2. ~(k <= Middle)
    BY <1>2, <1>4, <1>5, <2>1
  <2> QED  BY <1>2, <1>5, <2>2
<1>8. Middle + 1 \in region[1] .. region[2] + 1 /\ Middle + 1 <= r + 1
  BY <1>2
<1>9. SearchInv'
  <2> DEFINE m == Middle + 1
  <2> HIDE DEF m
  <2>1. /\ l' = m /\ m \in region[1] .. region[2] + 1 /\ m <= r + 1
        /\ \A k \in Matching : k < m => stabs[k].n_value < addr
        /\ ~any_matches => \A k \in Matching : k >= m
        /\ left # region[1] => left <= m
    BY <1>1, <1>2, <1>5, <1>6, <1>7, <1>8 DEF m, SearchInv
  <2> QED  BY <1>1, <1>2, <1>3, <2>1 DEF SearchInv
<1>10. Middle + 1 \in 0 .. MaxStab + 1 /\ region[1] <= Middle + 1
  BY <1>2
<1>11. TypeOK'
  <2> DEFINE m == Middle + 1
  <2> HIDE DEF m
  <2>1. l' = m /\ m \in 0 .. MaxStab + 1 /\ region[1] <= m
    BY <1>1, <1>10 DEF m
  <2> QED  BY <1>1, <1>2, <2>1 DEF TypeOK, Searching
<1> QED  BY <1>9, <1>11

\* The candidate is below: so are all matching stabs up to the middle.
LEMMA BelowKeeps ==
  ASSUME TypeOK, SearchInv, search_below
  PROVE  TypeOK' /\ SearchInv'
<1> DEFINE m == Max(Candidates)
<1>1. /\ Searching /\ Candidates # {} /\ stabs[m].n_value < addr
      /\ left' = m /\ l' = Middle + 1 /\ any_matches' = TRUE
      /\ UNCHANGED <<stabs, eip, region, right, r, addr, lfile, rfile, info, pc>>
  BY DEF search_below
<1>2. /\ l \in Nat /\ r \in Int /\ l <= r /\ Middle \in l .. r
      /\ region[1] \in Nat /\ region[2] \in Nat /\ region[1] <= l /\ r <= region[2]
      /\ region[2] <= MaxStab /\ MaxStab \in Nat /\ pc \in {N_SO, N_FUN}
      /\ addr \in Nat
  BY <1>1, TurnFacts
<1>3. Matching' = Matching /\ (NextAddressTaken' <=> NextAddressTaken)
  BY <1>1, SameSearch
<1>4. /\ m \in Matching /\ m \in l .. Middle
      /\ \A k \in Matching : k <= Middle => k < l \/ k <= m
  BY <1>1, NearestCandidate
<1> HIDE DEF m
<1>5. ASSUME NEW k \in Matching, k < Middle + 1
      PROVE  stabs[k].n_value < addr
  <2>1. k \in Nat /\ k <= Middle /\ stabs[k].n_value \in Nat /\ stabs[m].n_value \in Nat
    BY <1>2, <1>4, <1>5, MatchingFacts DEF Index
  <2>2. CASE k < l
    BY <1>2, <2>2 DEF SearchInv
  <2>3. CASE k <= m
    <3>1. stabs[k].n_value <= stabs[m].n_value
      BY <1>2, <1>4, <2>3, MatchingFacts
    <3> QED  BY <1>1, <1>2, <2>1, <3>1
  <2> QED  BY <1>4, <2>1, <2>2, <2>3
<1>6. /\ Middle + 1 \in region[1] .. region[2] + 1 /\ Middle + 1 <= r + 1
      /\ Middle + 1 \in 0 .. MaxStab + 1 /\ region[1] <= Middle + 1
      /\ m \in 0 .. MaxStab + 1 /\ m <= Middle + 1 /\ m <= r
  BY <1>2, <1>4
<1> DEFINE n == Middle + 1
<1>7. /\ m <= n
      /\ l' = n /\ n \in region[1] .. region[2] + 1 /\ n <= r + 1
      /\ \A k \in Matching : k < n => stabs[k].n_value < addr
      /\ n \in 0 .. MaxStab + 1 /\ region[1] <= n
  BY <1>1, <1>5, <1>6
<1> HIDE DEF n
<1>8. SearchInv'
  BY <1>1, <1>2, <1>3, <1>4, <1>6, <1>7 DEF SearchInv
<1>9. TypeOK'
  BY <1>1, <1>2, <1>6, <1>7 DEF TypeOK, Searching
<1> QED  BY <1>8, <1>9
\* The candidate is above: so are all matching stabs from it on.
LEMMA AboveKeeps ==
  ASSUME TypeOK, SearchInv, search_above
  PROVE  TypeOK' /\ SearchInv'
<1> DEFINE m == Max(Candidates)
<1>1. /\ Searching /\ Candidates # {} /\ stabs[m].n_value > addr
      /\ right' = m - 1 /\ r' = m - 1 /\ any_matches' = TRUE
      /\ UNCHANGED <<stabs, eip, region, left, l, addr, lfile, rfile, info, pc>>
  BY DEF search_above
<1>2. /\ l \in Nat /\ r \in Int /\ l <= r /\ Middle \in l .. r
      /\ region[1] \in Nat /\ region[2] \in Nat /\ region[1] <= l /\ r <= region[2]
      /\ region[2] <= MaxStab /\ MaxStab \in Nat /\ pc \in {N_SO, N_FUN}
      /\ addr \in Nat /\ eip \in Nat /\ eip <= addr
  BY <1>1, TurnFacts
<1>3. Matching' = Matching /\ (NextAddressTaken' <=> NextAddressTaken)
  BY <1>1, SameSearch
<1>4. m \in Matching /\ m \in l .. Middle
  BY <1>1, NearestCandidate
<1> HIDE DEF m
<1>5. ASSUME NEW k \in Matching, k > m - 1
      PROVE  stabs[k].n_value > eip
  <2>1. k \in Nat /\ m <= k /\ stabs[k].n_value \in Nat /\ stabs[m].n_value \in Nat
    BY <1>2, <1>4, <1>5, MatchingFacts DEF Index
  <2>2. stabs[m].n_value <= stabs[k].n_value
    BY <1>2, <1>4, <2>1, MatchingFacts
  <2> QED  BY <1>1, <1>2, <2>1, <2>2
<1>6. m >= 1
  BY <1>2, <1>4, MatchingFacts
<1>7. ASSUME left # region[1] PROVE left <= m - 1
  <2>1. /\ left \in Matching /\ stabs[left].n_value < addr /\ left <= l
    BY <1>2, <1>7 DEF SearchInv
  <2>2. left \in Nat /\ stabs[left].n_value \in Nat /\ stabs[m].n_value \in Nat
    BY <1>2, <1>4, <2>1, MatchingFacts DEF Index
  <2>3. left # m
    BY <1>1, <1>2, <2>1, <2>2
  <2> QED  BY <1>2, <1>4, <2>1, <2>2, <2>3
<1> DEFINE n == m - 1
<1>8. /\ right' = n /\ r' = n /\ n \in region[1] - 1 .. region[2] /\ l <= n + 1
      /\ \A k \in Matching : k > n => stabs[k].n_value > eip
      /\ n + 1 \in Matching /\ n + 1 \in 0 .. MaxStab + 1 /\ n <= region[2]
      /\ left # region[1] => left <= n
  <2>1. n + 1 = m
    BY <1>2, <1>4
  <2> QED  BY <1>1, <1>2, <1>4, <1>5, <1>6, <1>7, <2>1
<1> HIDE DEF n
<1>9. SearchInv'
  BY <1>1, <1>2, <1>3, <1>8 DEF SearchInv
<1>10. TypeOK'
  BY <1>1, <1>2, <1>8 DEF TypeOK, Searching
<1> QED  BY <1>9, <1>10

\* The candidate has the address: the search goes on behind it for the next
\* one, which can be met once more only if a stab has it.
LEMMA ExactKeeps ==
  ASSUME TypeOK, SearchInv, search_exact
  PROVE  TypeOK' /\ SearchInv'
<1> DEFINE m == Max(Candidates)
<1>1. /\ Searching /\ Candidates # {} /\ stabs[m].n_value = addr
      /\ left' = m /\ l' = m /\ addr' = addr + 1 /\ any_matches' = TRUE
      /\ UNCHANGED <<stabs, eip, region, right, r, lfile, rfile, info, pc>>
  BY DEF search_exact
<1>2. /\ l \in Nat /\ r \in Int /\ l <= r /\ Middle \in l .. r
      /\ region[1] \in Nat /\ region[2] \in Nat /\ region[1] <= l /\ r <= region[2]
      /\ region[2] <= MaxStab /\ MaxStab \in Nat /\ pc \in {N_SO, N_FUN}
      /\ addr \in Nat /\ eip \in Nat /\ eip <= addr /\ MaxAddr \in Nat
  BY <1>1, TurnFacts
<1>3. Matching' = Matching /\ (NextAddressTaken' <=> NextAddressTaken)
  BY <1>1, SameSearch
<1>4. m \in Matching /\ m \in l .. Middle
  BY <1>1, NearestCandidate
<1> HIDE DEF m
<1>5. addr <= MaxAddr
  BY <1>1, <1>2, <1>4, MatchingFacts
<1>6. ASSUME NEW k \in Matching, k < m
      PROVE  stabs[k].n_value < addr + 1
  <2>1. k \in Nat /\ m \in Nat /\ k <= m /\ stabs[k].n_value \in Nat
    BY <1>2, <1>4, <1>6, MatchingFacts DEF Index
  <2>2. stabs[k].n_value <= stabs[m].n_value
    BY <1>2, <1>4, <2>1, MatchingFacts
  <2> QED  BY <1>1, <1>2, <2>1, <2>2
<1>7. \E k \in Matching : stabs[k].n_value = eip
  <2>1. CASE addr = eip
    BY <1>1, <1>4, <2>1
  <2>2. CASE addr # eip
    BY <1>2, <2>2 DEF SearchInv
  <2> QED  BY <2>1, <2>2
<1>8. ~NextAddressTaken => addr + 1 <= eip + 1
  <2> SUFFICES ASSUME addr # eip, addr <= eip + 1 PROVE NextAddressTaken
    BY <1>2 DEF SearchInv
  <2>1. addr = eip + 1
    BY <1>2
  <2> QED  BY <1>1, <1>4, <1>7, <2>1 DEF NextAddressTaken
<1> DEFINE n == addr + 1
<1>9. /\ addr' = n /\ n \in eip .. MaxAddr + 1 /\ n \in 0 .. 2 * MaxAddr + 2
      /\ \A k \in Matching : k < m => stabs[k].n_value < n
      /\ stabs[m].n_value < n /\ (~NextAddressTaken => n <= eip + 1)
      /\ \A k \in Matching : stabs[k].n_value < addr => stabs[k].n_value < n
  <2>1. \A k \in Matching : stabs[k].n_value \in Nat
    BY <1>2, MatchingFacts
  <2> QED  BY <1>1, <1>2, <1>5, <1>6, <1>8, <2>1
<1> HIDE DEF n
<1>10. /\ m \in region[1] .. region[2] + 1 /\ m <= r + 1 /\ m <= r /\ m <= m /\ m \in 0 .. MaxStab + 1
       /\ region[1] <= m
  BY <1>2, <1>4
<1>11. SearchInv'
  BY <1>1, <1>2, <1>3, <1>4, <1>7, <1>9, <1>10 DEF SearchInv
<1>12. TypeOK'
  BY <1>1, <1>2, <1>9, <1>10 DEF TypeOK, Searching
<1> QED  BY <1>11, <1>12
-----------------------------------------------------------------------------
(* What a search returns.                                                  *)

LEMMA SearchedFacts ==
  ASSUME TypeOK, SearchInv, Searched
  PROVE  /\ pc \in {N_SO, N_FUN} /\ l = r + 1 /\ right = r
         /\ r \in Nat /\ r <= region[2] /\ region[2] <= MaxStab /\ MaxStab \in Nat
         /\ region[2] \in Nat
         /\ region[1] \in Nat /\ region[1] <= region[2] /\ region[1] - 1 <= r
         /\ left \in Nat /\ (left # region[1] => left <= r)
<1>1. pc \in {N_SO, N_FUN} /\ l > r
  BY DEF Searched
<1>2. /\ region[1] \in 0 .. MaxStab /\ region[2] \in 0 .. MaxStab
      /\ region[1] <= region[2] /\ MaxStab \in Nat
      /\ l \in region[1] .. region[2] + 1 /\ r \in region[1] - 1 .. region[2]
      /\ l <= r + 1 /\ right = r
  BY <1>1, StabAssumption DEF SearchInv, Index
<1>3. l = r + 1
  BY <1>1, <1>2
<1>4. r \in Nat
  <2>1. r # region[2] => r + 1 >= 1
    BY <1>1, MatchingFacts DEF SearchInv
  <2> QED  BY <1>2, <2>1
<1>5. ASSUME left # region[1]
      PROVE  left \in Nat /\ left <= r
  <2>1. left \in Matching /\ left <= r
    BY <1>1, <1>5 DEF SearchInv
  <2> QED  BY <2>1, <1>1, MatchingFacts DEF Index
<1>6. left \in Nat
  BY <1>2, <1>5
<1> QED  BY <1>1, <1>2, <1>3, <1>4, <1>5, <1>6
\* Something has matched: the region is not empty, and its left end is the
\* last matching stab of [*region_left, *region_right].
LEMMA FoundSome ==
  ASSUME TypeOK, SearchInv, Searched, any_matches
  PROVE  /\ FoundRight = r /\ FoundLeft \in 0 .. r
         /\ \A k \in Matching : left <= k /\ k <= r => k <= FoundLeft
         /\ left <= r => FoundLeft = left \/ FoundLeft \in Matching
<1>1. /\ pc \in {N_SO, N_FUN} /\ right = r /\ r \in Nat /\ left \in Nat
      /\ region[1] \in Nat /\ region[2] \in Nat /\ r <= region[2]
      /\ left >= region[1]
  <2>1. left # region[1] => left \in Matching
    BY SearchedFacts DEF SearchInv
  <2>2. left \in Matching => left >= region[1]
    BY DEF Matching
  <2>3. /\ pc \in {N_SO, N_FUN} /\ right = r /\ r \in Nat /\ left \in Nat
        /\ region[1] \in Nat /\ region[2] \in Nat /\ r <= region[2]
    BY SearchedFacts
  <2> QED  BY <2>1, <2>2, <2>3
<1>2. FoundRight = r
  BY <1>1 DEF FoundRight
<1>3. CASE right < left
  BY <1>1, <1>2, <1>3, MatchingFacts DEF FoundLeft, Index
<1>4. CASE ~(right < left)
  <2> DEFINE S == {left} \cup {k \in left .. right : stabs[k].n_type = pc}
  <2>1. FoundLeft = Max(S)
    BY <1>4 DEF FoundLeft
  <2>2. S \subseteq 0 .. r /\ left \in S
    BY <1>1, <1>4
  <2>3. ASSUME NEW k \in Matching, left <= k, k <= r PROVE k \in S
    BY <1>1, <2>3 DEF Matching
  <2>4. ASSUME NEW k \in S PROVE k = left \/ k \in Matching
    BY <1>1, <2>4 DEF Matching
  <2> HIDE DEF S
  <2>5. Max(S) \in S /\ \A k \in S : k <= Max(S)
    <3>1. S \subseteq Int /\ S # {} /\ r \in Int /\ \A k \in S : k <= r
      BY <1>1, <2>2
    <3> QED  BY <3>1, Greatest
  <2> QED  BY <1>2, <2>1, <2>2, <2>3, <2>4, <2>5
<1> QED  BY <1>3, <1>4

\* Nothing has matched: there is nothing to match.
LEMMA FoundNone ==
  ASSUME TypeOK, SearchInv, Searched, ~any_matches
  PROVE  /\ FoundLeft = region[1] /\ FoundRight = region[1] - 1
         /\ Matching = {}
<1>1. /\ left = region[1] /\ r = region[2] /\ \A k \in Matching : k >= l
  BY SearchedFacts DEF SearchInv
<1>2. ASSUME NEW k \in Matching PROVE FALSE
  <2>1. k <= region[2] /\ k \in Nat /\ region[2] \in Nat /\ k >= r + 1
    BY <1>1, SearchedFacts, MatchingFacts DEF Matching, Index
  <2> QED  BY <1>1, <2>1
<1> QED  BY <1>1, <1>2 DEF FoundLeft, FoundRight

LEMMA FoundType ==
  ASSUME TypeOK, SearchInv, Searched
  PROVE  /\ FoundLeft \in Index /\ FoundRight \in -1 .. MaxStab
         /\ any_matches <=> FoundLeft <= FoundRight
<1>1. CASE any_matches
  <2>1. r \in Nat /\ r <= MaxStab /\ MaxStab \in Nat
    BY SearchedFacts
  <2> QED  BY <1>1, <2>1, FoundSome DEF Index
<1>2. CASE ~any_matches
  <2>1. region[1] \in Nat /\ region[1] <= MaxStab /\ MaxStab \in Nat
    BY SearchedFacts
  <2> QED  BY <1>2, <2>1, FoundNone DEF Index
<1>3. any_matches \in BOOLEAN
  BY DEF TypeOK
<1> QED  BY <1>1, <1>2, <1>3

\* The two ends: the last matching stab that is not above the address, and
\* the one before the next matching stab.
LEMMA SearchEnds ==
  ASSUME TypeOK, SearchInv
  PROVE  SearchBrackets
<1> SUFFICES ASSUME Searched, NotAbove # {}, ~NextAddressTaken
             PROVE  /\ FoundLeft = Max(NotAbove)
                    /\ FoundRight = Min({region[2]} \cup {k - 1 : k \in Matching \ NotAbove})
  BY DEF SearchBrackets
<1>1. /\ pc \in {N_SO, N_FUN} /\ l = r + 1 /\ r \in Nat /\ left \in Nat
      /\ region[1] \in Nat /\ region[2] \in Nat /\ region[1] <= region[2]
      /\ r <= region[2] /\ (left # region[1] => left <= r)
      /\ eip \in Nat /\ addr \in Nat /\ addr <= eip + 1
  BY SearchedFacts, StabAssumption DEF SearchInv, TypeOK
<1>2. \A k \in Matching : k \in Nat /\ k <= region[2] /\ k >= region[1]
                          /\ stabs[k].n_value \in Nat
  BY <1>1, MatchingFacts DEF Matching, Index
<1>3. ASSUME NEW k \in Matching PROVE k <= r <=> stabs[k].n_value <= eip
  <2>1. k <= r => stabs[k].n_value < addr
    BY <1>1, <1>2 DEF SearchInv
  <2>2. k > r => stabs[k].n_value > eip
    BY <1>1 DEF SearchInv
  <2> QED  BY <1>1, <1>2, <2>1, <2>2
<1>4. NotAbove = {k \in Matching : k <= r}
  BY <1>3 DEF NotAbove
<1>5. any_matches
  BY FoundNone DEF NotAbove
<1>6. /\ FoundRight = r /\ FoundLeft \in 0 .. r
      /\ \A k \in Matching : left <= k /\ k <= r => k <= FoundLeft
      /\ left <= r => FoundLeft = left \/ FoundLeft \in Matching
  BY <1>5, FoundSome
<1>7. PICK q \in Matching : q <= r
  BY <1>4
<1>8. left <= r
  BY <1>1, <1>2, <1>7
<1>9. left # region[1] => left \in Matching
  BY <1>1 DEF SearchInv
<1>10. ASSUME NEW k \in Matching, k <= r PROVE k <= FoundLeft
  <2>1. CASE left <= k
    BY <1>6, <1>10, <2>1
  <2>2. CASE ~(left <= k)
    <3>1. left \in Matching /\ left <= FoundLeft
      BY <1>1, <1>2, <1>6, <1>8, <1>9, <2>2
    <3> QED  BY <1>1, <1>2, <1>6, <2>2, <3>1
  <2> QED  BY <2>1, <2>2
<1>11. FoundLeft \in Matching
  <2>1. CASE left # region[1]
    BY <1>6, <1>8, <1>9, <2>1
  <2>2. CASE left = region[1]
    <3>1. q <= FoundLeft /\ left <= q
      BY <1>2, <1>7, <1>10, <2>2
    <3>2. FoundLeft = left => q = left
      BY <1>1, <1>2, <3>1
    <3> QED  BY <1>6, <1>8, <3>2
  <2> QED  BY <2>1, <2>2
<1>12. FoundLeft = Max(NotAbove)
  <2>1. NotAbove \subseteq Int
    BY <1>2, <1>4
  <2>2. FoundLeft <= r
    BY <1>1, <1>6
  <2>3. FoundLeft \in NotAbove
    BY <1>4, <1>11, <2>2
  <2>4. \A k \in NotAbove : k <= FoundLeft
    BY <1>4, <1>10
  <2> QED  BY <2>1, <2>3, <2>4, IsMax
<1>13. FoundRight = Min({region[2]} \cup {k - 1 : k \in Matching \ NotAbove})
  <2> DEFINE S == {region[2]} \cup {k - 1 : k \in Matching \ NotAbove}
  <2>1. \A s \in S : s = region[2] \/ \E k \in Matching : k > r /\ s = k - 1
    BY <1>2, <1>4, <1>1
  <2>2. r \in S
    <3>1. CASE r = region[2]
      BY <3>1
    <3>2. CASE r # region[2]
      <4>1. r + 1 \in Matching /\ r + 1 \notin NotAbove /\ r + 1 - 1 = r
        BY <1>1, <1>4, <3>2 DEF SearchInv
      <4> DEFINE k == r + 1
      <4>2. k \in Matching \ NotAbove /\ r = k - 1
        BY <1>1, <4>1
      <4> HIDE DEF k
      <4> QED  BY <4>2
    <3> QED  BY <3>1, <3>2
  <2> HIDE DEF S
  <2>3. S \subseteq Int /\ \A s \in S : r <= s
    BY <1>1, <1>2, <2>1
  <2>4. Min(S) = r
    BY <2>2, <2>3, IsMin
  <2> QED  BY <1>6, <2>4 DEF S
<1> QED  BY <1>12, <1>13
-----------------------------------------------------------------------------
(* debuginfo_eip.                                                          *)

\* The file is found: its stabs are the region of the next search, which is
\* not empty and ends before the next file.
LEMMA FileFoundKeeps ==
  ASSUME TypeOK, SearchInv, file_found
  PROVE  TypeOK' /\ SearchInv' /\ FunctionHoldsAddress'
<1>1. /\ Searched /\ pc = N_SO /\ FoundLeft # 0
      /\ lfile' = FoundLeft /\ rfile' = FoundRight
      /\ region' = <<FoundLeft, FoundRight>>
      /\ left' = FoundLeft /\ right' = FoundRight
      /\ l' = FoundLeft /\ r' = FoundRight
      /\ addr' = eip /\ any_matches' = FALSE /\ pc' = N_FUN
      /\ UNCHANGED <<stabs, eip, info>>
  BY DEF file_found
<1>2. /\ region = <<0, MaxStab>> /\ r \in Nat /\ r <= MaxStab /\ MaxStab \in Nat
      /\ MaxAddr \in Nat /\ eip \in 0 .. MaxAddr
  BY <1>1, SearchedFacts, StabAssumption DEF SearchInv, TypeOK
<1>3. any_matches
  BY <1>1, <1>2, FoundNone
<1>4. FoundRight = r /\ FoundLeft \in 0 .. r
  BY <1>1, <1>3, FoundSome
<1>5. r # MaxStab => stabs[r + 1].n_type = N_SO
  BY <1>1, <1>2 DEF SearchInv, Matching
<1> DEFINE f == FoundLeft
<1>6. /\ f \in Nat /\ f <= r /\ lfile' = f /\ rfile' = r /\ region' = <<f, r>>
      /\ left' = f /\ right' = r /\ l' = f /\ r' = r
  BY <1>1, <1>2, <1>4
<1> HIDE DEF f
<1>7. region'[1] = f /\ region'[2] = r
  BY <1>6
<1>8. \A k \in Matching' : k \in Int /\ f <= k /\ k <= r
  BY <1>2, <1>6, <1>7 DEF Matching
<1>9. pc' \in {N_SO, N_FUN} /\ pc' # N_SO /\ pc' # "done"
  BY <1>1 DEF N_SO, N_FUN
<1>10. SearchInv'
  <2>1. /\ region' \in Index \X Index /\ f \in f .. r + 1 /\ r \in f - 1 .. r /\ f <= r + 1
    BY <1>2, <1>6 DEF Index
  <2>2. \A k \in Matching' : ~(k < f) /\ ~(k > r) /\ k >= f
    BY <1>2, <1>6, <1>8
  <2>3. eip \in eip .. MaxAddr + 1 /\ eip <= eip + 1
    BY <1>2
  <2> QED  BY <1>1, <1>5, <1>6, <1>7, <1>9, <2>1, <2>2, <2>3 DEF SearchInv
<1>11. TypeOK'
  <2>1. /\ {f, r + 1} \subseteq 0 .. MaxStab + 1 /\ eip \in 0 .. 2 * MaxAddr + 2
        /\ f \in Index /\ r \in -1 .. MaxStab /\ f <= f /\ r <= r
    BY <1>2, <1>6 DEF Index
  <2> QED  BY <1>1, <1>6, <1>7, <2>1 DEF TypeOK, Searching
<1>12. FunctionHoldsAddress'
  BY <1>9 DEF FunctionHoldsAddress
<1> QED  BY <1>10, <1>11, <1>12

LEMMA FileMissingKeeps ==
  ASSUME TypeOK, SearchInv, file_missing
  PROVE  TypeOK' /\ SearchInv' /\ FunctionHoldsAddress'
<1>1. /\ info' = [info EXCEPT !.ret = -1] /\ pc' = "done"
      /\ UNCHANGED <<stabs, eip, search, lfile, rfile>>
  BY DEF file_missing
<1>2. info' \in [fn : -1 .. MaxStab, fn_addr : 0 .. MaxAddr, narg : 0 .. MaxStab,
                 line : {0}, file : -1 .. MaxStab, ret : {0, -1}]
      /\ info'.ret = -1
  BY <1>1 DEF TypeOK
<1>3. "done" \notin {N_SO, N_FUN}
  BY DEF N_SO, N_FUN
<1> QED  BY <1>1, <1>2, <1>3 DEF TypeOK, SearchInv, FunctionHoldsAddress, Searching, search

LEMMA FileOfType ==
  ASSUME TypeOK, NEW k \in Index
  PROVE  FileOf(k) \in -1 .. MaxStab
<1> DEFINE S == {-1} \cup {j \in lfile .. k :
                            \/ stabs[j].n_type = N_SOL
                            \/ stabs[j].n_type = N_SO /\ stabs[j].n_value # 0}
<1>1. S \subseteq -1 .. MaxStab /\ -1 \in S /\ MaxStab \in Int
  BY StabAssumption DEF TypeOK, Index
<1>2. FileOf(k) = Max(S)
  BY DEF FileOf
<1> HIDE DEF S
<1>3. S \subseteq Int /\ S # {} /\ \A j \in S : j <= MaxStab
  BY <1>1
<1>4. Max(S) \in S
  BY <1>1, <1>3, Greatest
<1> QED  BY <1>1, <1>2, <1>4

LEMMA ArgsType ==
  ASSUME NEW lo \in Index, NEW hi \in -1 .. MaxStab
  PROVE  Args(lo, hi) \in 0 .. MaxStab
<1> DEFINE S == {k \in lo + 1 .. hi - 1 : \A j \in lo + 1 .. k : stabs[j].n_type = N_PSYM}
<1>1. MaxStab \in Nat /\ 1 \in Int /\ MaxStab \in Int
  BY StabAssumption
<1>2. S \in SUBSET (1 .. MaxStab)
  BY <1>1 DEF Index
<1>3. Args(lo, hi) = Cardinality(S)
  BY DEF Args
<1> HIDE DEF S
<1>4. IsFiniteSet(1 .. MaxStab) /\ Cardinality(1 .. MaxStab) <= MaxStab
  BY <1>1, FS_Interval
<1>5. IsFiniteSet(S) /\ Cardinality(S) <= Cardinality(1 .. MaxStab)
  BY <1>2, <1>4, FS_Subset
<1>6. Cardinality(S) \in Nat /\ Cardinality(1 .. MaxStab) \in Nat
  BY <1>4, <1>5, FS_CardinalityType
<1> QED  BY <1>1, <1>3, <1>4, <1>5, <1>6

\* The arguments end before the right end of the region: behind that is the
\* next function, the next file or nothing, and no argument is right before.
LEMMA ArgumentsInside ==
  ASSUME TypeOK, SearchInv, Searched, pc = N_FUN, any_matches
  PROVE  Args(FoundLeft, FoundRight) =
           Cardinality({k \in FoundLeft + 1 .. rfile :
                          \A j \in FoundLeft + 1 .. k : stabs[j].n_type = N_PSYM})
<1> DEFINE f == FoundLeft
           A == {k \in f + 1 .. FoundRight - 1 :
                  \A j \in f + 1 .. k : stabs[j].n_type = N_PSYM}
           B == {k \in f + 1 .. rfile : \A j \in f + 1 .. k : stabs[j].n_type = N_PSYM}
<1>1. /\ FoundRight = r /\ f \in 0 .. r
  BY FoundSome
<1> HIDE DEF f
<1>2. /\ r \in Nat /\ r <= rfile /\ rfile \in Nat /\ rfile <= MaxStab /\ MaxStab \in Nat
      /\ region = <<lfile, rfile>> /\ f \in Nat /\ f <= r
      /\ rfile # MaxStab => stabs[rfile + 1].n_type = N_SO
  <2>1. region = <<lfile, rfile>> /\ (rfile # MaxStab => stabs[rfile + 1].n_type = N_SO)
    BY SearchedFacts DEF SearchInv
  <2>2. region[2] = rfile
    BY <2>1
  <2> QED  BY <1>1, <2>1, <2>2, SearchedFacts
<1>3. r # rfile => r + 1 \in Index /\ stabs[r + 1].n_type = N_FUN
  <2> SUFFICES ASSUME r # rfile
               PROVE  r + 1 \in Index /\ stabs[r + 1].n_type = N_FUN
    OBVIOUS
  <2>1. r + 1 \in Matching
    BY <1>2, SearchedFacts DEF SearchInv
  <2>2. r + 1 \in Index
    BY <2>1, SearchedFacts, MatchingFacts
  <2> QED  BY <2>1, <2>2 DEF Matching
<1>4. ASSUME NEW k \in Index, stabs[k].n_type = N_PSYM
      PROVE  k < MaxStab /\ stabs[k + 1].n_type # N_SO /\ stabs[k + 1].n_type # N_FUN
  BY <1>4, TableFacts DEF TypeOK
<1>5. ASSUME NEW k \in B PROVE k <= r - 1
  <2>1. k \in Nat /\ f + 1 <= k /\ k <= rfile /\ \A j \in f + 1 .. k : stabs[j].n_type = N_PSYM
    BY <1>2
  <2>2. SUFFICES ASSUME k >= r PROVE FALSE
    BY <1>2, <2>1
  <2>3. CASE r = f
    <3>1. r # rfile /\ r + 1 \in f + 1 .. k
      BY <1>2, <2>1, <2>3
    <3>2. stabs[r + 1].n_type = N_PSYM /\ stabs[r + 1].n_type = N_FUN
      BY <1>3, <2>1, <3>1
    <3> QED  BY <3>2 DEF N_PSYM, N_FUN
  <2>4. CASE r # f
    <3>1. r \in f + 1 .. k /\ r \in Index
      BY <1>2, <2>1, <2>2, <2>4 DEF Index
    <3>2. r < MaxStab /\ stabs[r + 1].n_type # N_SO /\ stabs[r + 1].n_type # N_FUN
      BY <1>4, <2>1, <3>1
    <3> QED  BY <1>2, <1>3, <3>2
  <2> QED  BY <2>3, <2>4
<1>6. A = B
  <2>1. ASSUME NEW k \in B PROVE k \in A
    <3>1. k <= r - 1 /\ k \in Nat
      BY <1>2, <1>5
    <3> QED  BY <1>1, <1>2, <3>1
  <2>2. ASSUME NEW k \in A PROVE k \in B
    BY <1>1, <1>2
  <2> QED  BY <2>1, <2>2
<1>7. Args(f, FoundRight) = Cardinality(A)
  BY DEF Args
<1> HIDE DEF A, B
<1>8. Args(f, FoundRight) = Cardinality(B)
  BY <1>6, <1>7
<1> QED  BY <1>8 DEF f, B
\* The functions of the file that are not above the address.
Own == {k \in lfile .. rfile : stabs[k].n_type = N_FUN /\ stabs[k].n_value <= eip}

LEMMA OwnMatches ==
  ASSUME TypeOK, SearchInv, Searched, pc = N_FUN
  PROVE  /\ Own = NotAbove
         /\ (~ \E k \in Index : stabs[k].n_value = eip + 1) => ~NextAddressTaken
<1>1. region = <<lfile, rfile>>
  BY SearchedFacts DEF SearchInv
<1>2. region[1] = lfile /\ region[2] = rfile
  BY <1>1
<1>3. Own = NotAbove
  BY <1>2 DEF Own, NotAbove, Matching
<1>4. NextAddressTaken => \E k \in Index : stabs[k].n_value = eip + 1
  BY SearchedFacts, MatchingFacts DEF NextAddressTaken
<1> QED  BY <1>3, <1>4

\* The function is found: it is the last of its file not above the address.
LEMMA FunctionFoundKeeps ==
  ASSUME TypeOK, SearchInv, function_found
  PROVE  TypeOK' /\ SearchInv' /\ FunctionHoldsAddress'
<1>1. /\ Searched /\ pc = N_FUN /\ FoundLeft <= FoundRight
      /\ info' = [info EXCEPT !.fn = FoundLeft,
                              !.fn_addr = stabs[FoundLeft].n_value,
                              !.narg = Args(FoundLeft, FoundRight),
                              !.file = FileOf(FoundLeft)]
      /\ left' = FoundLeft /\ right' = FoundRight /\ pc' = "done"
      /\ UNCHANGED <<stabs, eip, region, l, r, addr, any_matches, lfile, rfile>>
  BY DEF function_found
<1> DEFINE f == FoundLeft  g == FoundRight  a == Args(f, g)  n == FileOf(f)
           v == stabs[f].n_value
<1>2. /\ f \in Index /\ g \in -1 .. MaxStab /\ any_matches
      /\ f \in 0 .. MaxStab + 1 /\ g + 1 \in 0 .. MaxStab + 1
  BY <1>1, FoundType, StabAssumption DEF Index
<1>3. f \in -1 .. MaxStab /\ a \in 0 .. MaxStab /\ n \in -1 .. MaxStab
  BY <1>2, ArgsType, FileOfType, StabAssumption DEF Index
<1>4. v \in 0 .. MaxAddr
  BY <1>2, TableFacts DEF TypeOK
<1>5. "done" \notin {N_SO, N_FUN}
  BY DEF N_SO, N_FUN
<1>6. a = Cardinality({k \in f + 1 .. rfile :
                         \A j \in f + 1 .. k : stabs[j].n_type = N_PSYM})
  BY <1>1, <1>2, ArgumentsInside
<1>7. (~ \E k \in Index : stabs[k].n_value = eip + 1) /\ Own # {} => f = Max(Own)
  BY <1>1, OwnMatches, SearchEnds DEF SearchBrackets
<1> HIDE DEF f, g, a, n, v
<1>8. info' = [info EXCEPT !.fn = f, !.fn_addr = v, !.narg = a, !.file = n]
  BY <1>1 DEF f, g, a, n, v
<1>9. info \in [fn : -1 .. MaxStab, fn_addr : 0 .. MaxAddr, narg : 0 .. MaxStab,
               line : {0}, file : -1 .. MaxStab, ret : {0, -1}]
  BY DEF TypeOK
<1>10. /\ info' \in [fn : -1 .. MaxStab, fn_addr : 0 .. MaxAddr, narg : 0 .. MaxStab,
                     line : {0}, file : -1 .. MaxStab, ret : {0, -1}]
       /\ info'.fn = f /\ info'.narg = a
  BY <1>3, <1>4, <1>8, <1>9
<1>11. SearchInv'
  BY <1>1, <1>5 DEF SearchInv
<1>12. TypeOK'
  <2>1. left' = f /\ right' = g
    BY <1>1 DEF f, g
  <2>2. {left', right' + 1} \subseteq 0 .. MaxStab + 1
    BY <1>2, <2>1
  <2>3. ~Searching'
    BY <1>1, <1>5 DEF Searching
  <2> QED  BY <1>1, <1>10, <2>2, <2>3 DEF TypeOK
<1>13. Own' = Own
  BY <1>1 DEF Own
<1>14. FunctionHoldsAddress'
  BY <1>1, <1>6, <1>7, <1>10, <1>13 DEF FunctionHoldsAddress, Own
<1> QED  BY <1>11, <1>12, <1>14

\* There is none: the file has no function at all.
LEMMA FunctionMissingKeeps ==
  ASSUME TypeOK, SearchInv, function_missing
  PROVE  TypeOK' /\ SearchInv' /\ FunctionHoldsAddress'
<1>1. /\ Searched /\ pc = N_FUN /\ FoundLeft > FoundRight
      /\ info' = [info EXCEPT !.fn_addr = eip, !.file = FileOf(lfile)]
      /\ left' = FoundLeft /\ right' = FoundRight /\ pc' = "done"
      /\ UNCHANGED <<stabs, eip, region, l, r, addr, any_matches, lfile, rfile>>
  BY DEF function_missing
<1> DEFINE f == FoundLeft  g == FoundRight  n == FileOf(lfile)
<1>2. /\ f \in Index /\ g \in -1 .. MaxStab
      /\ f \in 0 .. MaxStab + 1 /\ g + 1 \in 0 .. MaxStab + 1
  BY <1>1, FoundType, StabAssumption DEF Index
<1>3. ~any_matches
  BY <1>1, <1>2, FoundType DEF Index
<1>4. n \in -1 .. MaxStab
  BY FileOfType DEF TypeOK
<1>5. "done" \notin {N_SO, N_FUN}
  BY DEF N_SO, N_FUN
<1>6. Own = {}
  BY <1>1, <1>3, FoundNone, OwnMatches DEF NotAbove
<1> HIDE DEF f, g, n
<1>7. info' = [info EXCEPT !.fn_addr = eip, !.file = n]
  BY <1>1 DEF n
<1>8. info' \in [fn : -1 .. MaxStab, fn_addr : 0 .. MaxAddr, narg : 0 .. MaxStab,
                 line : {0}, file : -1 .. MaxStab, ret : {0, -1}]
  BY <1>4, <1>7 DEF TypeOK
<1>9. SearchInv'
  BY <1>1, <1>5 DEF SearchInv
<1>10. TypeOK'
  <2>1. left' = f /\ right' = g
    BY <1>1 DEF f, g
  <2>2. {left', right' + 1} \subseteq 0 .. MaxStab + 1
    BY <1>2, <2>1
  <2>3. ~Searching'
    BY <1>1, <1>5 DEF Searching
  <2> QED  BY <1>1, <1>8, <2>2, <2>3 DEF TypeOK
<1>11. Own' = {}
  BY <1>1, <1>6 DEF Own
<1>12. FunctionHoldsAddress'
  BY <1>11 DEF FunctionHoldsAddress, Own
<1> QED  BY <1>9, <1>10, <1>12
-----------------------------------------------------------------------------
(* The theorems.                                                           *)

LEMMA CallStarts == Init => IInv
<1> SUFFICES ASSUME Init PROVE IInv
  OBVIOUS
<1>1. /\ stabs \in Tables /\ eip \in 0 .. MaxAddr /\ region = <<0, MaxStab>>
      /\ left = 0 /\ right = MaxStab /\ l = 0 /\ r = MaxStab /\ addr = eip
      /\ any_matches = FALSE /\ lfile = 0 /\ rfile = MaxStab /\ pc = N_SO
      /\ info = [fn |-> -1, fn_addr |-> eip, narg |-> 0, line |-> 0, file |-> -1,
                 ret |-> 0]
  BY DEF Init
<1>2. MaxStab \in Nat /\ MaxAddr \in Nat /\ region[1] = 0 /\ region[2] = MaxStab
  BY <1>1, StabAssumption
<1>3. N_SO # N_FUN /\ N_SO # "done"
  BY DEF N_SO, N_FUN
<1>4. \A k \in Matching : k \in 0 .. MaxStab
  BY <1>2 DEF Matching
<1>5. SearchInv
  <2>1. /\ region \in Index \X Index /\ 0 \in 0 .. MaxStab + 1
        /\ MaxStab \in 0 - 1 .. MaxStab /\ 0 <= MaxStab + 1
        /\ eip \in eip .. MaxAddr + 1 /\ eip <= eip + 1
    BY <1>1, <1>2 DEF Index
  <2>2. \A k \in Matching : ~(k < 0) /\ ~(k > MaxStab) /\ k >= 0
    BY <1>2, <1>4
  <2> QED  BY <1>1, <1>2, <1>3, <2>1, <2>2 DEF SearchInv
<1>6. TypeOK
  <2>1. /\ {0, MaxStab + 1} \subseteq 0 .. MaxStab + 1 /\ eip \in 0 .. 2 * MaxAddr + 2
        /\ 0 \in Index /\ MaxStab \in -1 .. MaxStab /\ -1 \in -1 .. MaxStab
        /\ 0 \in 0 .. MaxStab /\ 0 <= 0 /\ MaxStab <= MaxStab
    BY <1>1, <1>2 DEF Index
  <2>2. info \in [fn : -1 .. MaxStab, fn_addr : 0 .. MaxAddr, narg : 0 .. MaxStab,
                  line : {0}, file : -1 .. MaxStab, ret : {0, -1}]
    BY <1>1, <2>1
  <2> QED  BY <1>1, <1>2, <2>1, <2>2 DEF TypeOK, Searching
<1>7. FunctionHoldsAddress
  BY <1>1, <1>3 DEF FunctionHoldsAddress
<1> QED  BY <1>5, <1>6, <1>7 DEF IInv

\* While a search runs, nothing is reported.
LEMMA SearchHoldsNothing ==
  ASSUME Searching, UNCHANGED pc
  PROVE  FunctionHoldsAddress'
<1>1. pc' # "done"
  BY DEF Searching, N_SO, N_FUN
<1> QED  BY <1>1 DEF FunctionHoldsAddress

LEMMA LookupHolds == Spec => []IInv
<1>1. IInv /\ [Next]_vars => IInv'
  <2> SUFFICES ASSUME IInv, [Next]_vars PROVE IInv'
    OBVIOUS
  <2>1. TypeOK /\ SearchInv /\ FunctionHoldsAddress
    BY DEF IInv
  <2>2. CASE search_none
    BY <2>1, <2>2, NoneKeeps, SearchHoldsNothing DEF IInv, search_none
  <2>3. CASE search_below
    BY <2>1, <2>3, BelowKeeps, SearchHoldsNothing DEF IInv, search_below
  <2>4. CASE search_above
    BY <2>1, <2>4, AboveKeeps, SearchHoldsNothing DEF IInv, search_above
  <2>5. CASE search_exact
    BY <2>1, <2>5, ExactKeeps, SearchHoldsNothing DEF IInv, search_exact
  <2>6. CASE file_found
    BY <2>1, <2>6, FileFoundKeeps DEF IInv
  <2>7. CASE file_missing
    BY <2>1, <2>7, FileMissingKeeps DEF IInv
  <2>8. CASE function_found
    BY <2>1, <2>8, FunctionFoundKeeps DEF IInv
  <2>9. CASE function_missing
    BY <2>1, <2>9, FunctionMissingKeeps DEF IInv
  <2>10. CASE UNCHANGED vars
    <3>1. TypeOK'
      BY <2>1, <2>10 DEF vars, search, TypeOK, Searching
    <3>2. SearchInv'
      BY <2>1, <2>10 DEF vars, search, SearchInv, Matching, NextAddressTaken
    <3>3. FunctionHoldsAddress'
      BY <2>1, <2>10 DEF vars, search, FunctionHoldsAddress
    <3> QED  BY <3>1, <3>2, <3>3 DEF IInv
  <2> QED
    BY <2>2, <2>3, <2>4, <2>5, <2>6, <2>7, <2>8, <2>9, <2>10 DEF Next
<1> QED  BY <1>1, CallStarts, PTL DEF Spec

\* Both searches of debuginfo_eip read stabs of their region only, and what
\* they leave behind is in the table.
THEOREM SearchesStayInside == Spec => []TypeOK
<1>1. IInv => TypeOK
  BY DEF IInv
<1> QED  BY <1>1, LookupHolds, PTL

\* stab_binsearch brackets the address, in a table of any length, with any
\* stabs between those that count and any duplicates among them.
THEOREM SearchesBracket == Spec => []SearchBrackets
<1>1. IInv => SearchBrackets
  BY SearchEnds DEF IInv
<1> QED  BY <1>1, LookupHolds, PTL

\* debuginfo_eip reports the function whose code holds the address, and the
\* number of all its arguments.
THEOREM ReportsTheFunction == Spec => []FunctionHoldsAddress
<1>1. IInv => FunctionHoldsAddress
  BY DEF IInv
<1> QED  BY <1>1, LookupHolds, PTL
=============================================================================
