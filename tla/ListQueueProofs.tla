-------------------------- MODULE ListQueueProofs ---------------------------
(***************************************************************************)
(* Proofs about ListQueue, for any heads and any finite set of elements:   *)
(* the two directions of the links agree, the pointers of each head are a  *)
(* sequence, loops miss nothing, and the macros implement ListSeq.         *)
(***************************************************************************)
EXTENDS ListQueue, FiniteSetTheorems, SequenceTheorems, WellFoundedInduction, TLAPS

\* The variable of a running loop is an element.
LoopInv == loop # NULL => var \in Elem

\* The inductive invariant.
IInv == TypeOK /\ LinksAgree /\ LoopInv

\* Inserting an element at the cell c of a list, by AFTER or HEAD.
LEMMA InsertAtCell ==
  ASSUME IInv, NEW e \in Elem, NEW c \in Cell, OwnerOf[c] # NULL,
         Joins(e, OwnerOf[c]),
         ptr' = [ptr EXCEPT ![e] = ptr[c], ![c] = e],
         le_prev' = [x \in Elem |->
           IF x = e THEN c ELSE IF x = ptr[c] THEN e ELSE le_prev[x]]
  PROVE  IInv'
<1> USE ListAssumption DEF Cell
<1>1. TypeOK /\ LinksAgree /\ LoopInv
  BY DEF IInv
<1>2. c # e /\ owner[e] = NULL /\ owner' = [owner EXCEPT ![e] = OwnerOf[c]]
  BY <1>1 DEF Joins, OwnerOf, TypeOK
<1>3. OwnerOf[c] \in LHead
  BY <1>1 DEF OwnerOf, TypeOK
<1>4. TypeOK'
  BY <1>1, <1>3 DEF TypeOK, Joins, Body
<1>5. \A d \in Cell : OwnerOf'[d] = IF d = e THEN OwnerOf[c] ELSE OwnerOf[d]
  BY <1>1, <1>2 DEF OwnerOf, TypeOK
<1>6. LinksAgree'
  <2>1. ASSUME NEW d \in Cell, OwnerOf'[d] # NULL, ptr'[d] # NULL
        PROVE  owner'[ptr'[d]] = OwnerOf'[d] /\ le_prev'[ptr'[d]] = d
    <3>1. CASE d = c
      BY <3>1, <1>1, <1>2, <1>5 DEF TypeOK
    <3>2. CASE d = e
      BY <3>2, <2>1, <1>1, <1>2, <1>5 DEF TypeOK, LinksAgree
    <3>3. CASE d # c /\ d # e
      <4>1. OwnerOf[d] # NULL /\ ptr[d] # NULL /\ ptr'[d] = ptr[d]
        BY <3>3, <2>1, <1>1, <1>5 DEF TypeOK
      <4>2. owner[ptr[d]] = OwnerOf[d] /\ le_prev[ptr[d]] = d /\ ptr[d] \in Elem
        BY <4>1, <1>1 DEF TypeOK, LinksAgree
      <4>3. ptr[d] # e
        BY <4>1, <4>2, <1>2
      <4>4. ptr[d] # ptr[c]
        BY <4>1, <4>2, <3>3, <1>1 DEF LinksAgree
      <4> QED  BY <4>1, <4>2, <4>3, <4>4, <3>3, <1>1, <1>2, <1>5 DEF TypeOK
    <3> QED  BY <3>1, <3>2, <3>3
  <2>2. ASSUME NEW x \in Elem, owner'[x] # NULL
        PROVE  /\ le_prev'[x] \in Cell
               /\ OwnerOf'[le_prev'[x]] = owner'[x]
               /\ ptr'[le_prev'[x]] = x
    <3>1. CASE x = e
      BY <3>1, <1>1, <1>2, <1>5 DEF TypeOK
    <3>2. CASE x = ptr[c]
      BY <3>2, <1>1, <1>2, <1>5 DEF TypeOK, LinksAgree
    <3>3. CASE x # e /\ x # ptr[c]
      <4>1. owner[x] # NULL /\ owner'[x] = owner[x] /\ le_prev'[x] = le_prev[x]
        BY <3>3, <2>2, <1>1, <1>2 DEF TypeOK
      <4>2. /\ le_prev[x] \in Cell
            /\ OwnerOf[le_prev[x]] = owner[x]
            /\ ptr[le_prev[x]] = x
        BY <4>1, <1>1 DEF LinksAgree
      <4>3. le_prev[x] # c /\ le_prev[x] # e
        BY <4>1, <4>2, <3>3, <1>2 DEF OwnerOf
      <4> QED  BY <4>1, <4>2, <4>3, <1>1, <1>5 DEF TypeOK
    <3> QED  BY <3>1, <3>2, <3>3
  <2> QED  BY <2>1, <2>2 DEF LinksAgree, OwnerOf
<1>7. LoopInv'
  BY <1>1 DEF LoopInv, Joins, Body
<1> QED  BY <1>4, <1>6, <1>7 DEF IInv

\* Inserting an element before another: the cell that pointed to it is taken
\* from it and is on the list, so this is an insertion at that cell.
LEMMA BeforeIsAtCell ==
  ASSUME IInv, NEW b \in Elem, NEW e \in Elem, LIST_INSERT_BEFORE(b, e)
  PROVE  /\ le_prev[b] \in Cell /\ ptr[le_prev[b]] = b
         /\ OwnerOf[le_prev[b]] = owner[b] /\ OwnerOf[le_prev[b]] # NULL
         /\ Joins(e, OwnerOf[le_prev[b]])
         /\ ptr' = [ptr EXCEPT ![e] = ptr[le_prev[b]], ![le_prev[b]] = e]
         /\ le_prev' = [x \in Elem |-> IF x = e THEN le_prev[b]
                                       ELSE IF x = ptr[le_prev[b]] THEN e ELSE le_prev[x]]
<1> USE ListAssumption DEF Cell
<1>1. TypeOK /\ LinksAgree
  BY DEF IInv
<1>2. /\ le_prev[b] \in Cell
      /\ OwnerOf[le_prev[b]] = owner[b] /\ owner[b] # NULL
      /\ ptr[le_prev[b]] = b
  BY <1>1 DEF LIST_INSERT_BEFORE, LinksAgree
<1>3. Joins(e, OwnerOf[le_prev[b]])
  BY <1>2 DEF LIST_INSERT_BEFORE
<1>4. b # e
  BY <1>2 DEF LIST_INSERT_BEFORE, Joins
<1>5. le_prev' = [x \in Elem |-> IF x = e THEN le_prev[b]
                                 ELSE IF x = ptr[le_prev[b]] THEN e ELSE le_prev[x]]
  BY <1>1, <1>2, <1>4 DEF LIST_INSERT_BEFORE, TypeOK
<1>6. ptr' = [ptr EXCEPT ![e] = ptr[le_prev[b]], ![le_prev[b]] = e]
  BY <1>2 DEF LIST_INSERT_BEFORE
<1> QED  BY <1>2, <1>3, <1>5, <1>6

\* So that insertion preserves the invariant too.
LEMMA InsertBefore ==
  ASSUME IInv, NEW b \in Elem, NEW e \in Elem, LIST_INSERT_BEFORE(b, e)
  PROVE  IInv'
  BY BeforeIsAtCell, InsertAtCell

\* Removing an element links the cell that pointed to it to what is behind it.
LEMMA RemoveElement ==
  ASSUME IInv, NEW e \in Elem, LIST_REMOVE(e)
  PROVE  IInv'
<1> USE ListAssumption DEF Cell
<1>1. TypeOK /\ LinksAgree /\ LoopInv
  BY DEF IInv
<1> DEFINE c == le_prev[e]
<1>2. /\ c \in Cell /\ OwnerOf[c] = owner[e] /\ ptr[c] = e /\ owner[e] # NULL
  BY <1>1 DEF LinksAgree, LIST_REMOVE, Leaves
<1>3. TypeOK'
  <2>1. ptr[e] \in Elem \cup {NULL}
    BY <1>1 DEF TypeOK
  <2>2. ptr' \in [Cell -> Elem \cup {NULL}] /\ le_prev' \in [Elem -> Cell \cup {NULL}]
    BY <2>1, <1>1, <1>2 DEF TypeOK, LIST_REMOVE, LIST_NEXT
  <2> QED  BY <2>2, <1>1 DEF TypeOK, LIST_REMOVE, Leaves, Body
<1>4. \A d \in Cell : OwnerOf'[d] = IF d = e THEN NULL ELSE OwnerOf[d]
  BY <1>1 DEF OwnerOf, TypeOK, LIST_REMOVE, Leaves
<1>5. /\ \A x \in Elem : owner'[x] = IF x = e THEN NULL ELSE owner[x]
      /\ \A d \in Cell : ptr'[d] = IF d = c THEN ptr[e] ELSE ptr[d]
      /\ \A x \in Elem : le_prev'[x] = IF x = ptr[e] THEN c ELSE le_prev[x]
  BY <1>1, <1>2 DEF TypeOK, LIST_REMOVE, Leaves, LIST_NEXT
<1>6. ptr[e] # NULL =>
        ptr[e] \in Elem /\ owner[ptr[e]] = owner[e] /\ le_prev[ptr[e]] = e
  <2>1. e \in Cell /\ OwnerOf[e] = owner[e]
    BY DEF OwnerOf
  <2> QED  BY <2>1, <1>1, <1>2 DEF LinksAgree, TypeOK
<1>7. LinksAgree'
  <2>1. ASSUME NEW d \in Cell, OwnerOf'[d] # NULL, ptr'[d] # NULL
        PROVE  owner'[ptr'[d]] = OwnerOf'[d] /\ le_prev'[ptr'[d]] = d
    <3>1. d # e /\ OwnerOf'[d] = OwnerOf[d]
      BY <2>1, <1>4
    <3>2. CASE d = c
      <4>1. ptr'[d] = ptr[e] /\ ptr[e] \in Elem /\ owner[ptr[e]] = owner[e]
        BY <3>2, <2>1, <1>5, <1>6
      <4>2. ptr[e] # e
        BY <4>1, <3>1, <3>2, <1>6
      <4> QED  BY <4>1, <4>2, <3>1, <3>2, <1>2, <1>5
    <3>3. CASE d # c
      <4>1. ptr'[d] = ptr[d] /\ ptr[d] \in Elem
        BY <3>3, <2>1, <1>1, <1>5 DEF TypeOK
      <4>2. owner[ptr[d]] = OwnerOf[d] /\ le_prev[ptr[d]] = d
        BY <4>1, <3>1, <2>1, <1>1 DEF LinksAgree
      <4>3. ptr[d] # e /\ ptr[d] # ptr[e]
        BY <4>1, <4>2, <3>1, <3>3, <1>6
      <4> QED  BY <4>1, <4>2, <4>3, <3>1, <1>5
    <3> QED  BY <3>2, <3>3
  <2>2. ASSUME NEW x \in Elem, owner'[x] # NULL
        PROVE  /\ le_prev'[x] \in Cell
               /\ OwnerOf'[le_prev'[x]] = owner'[x]
               /\ ptr'[le_prev'[x]] = x
    <3>1. x # e /\ owner'[x] = owner[x] /\ owner[x] # NULL
      BY <2>2, <1>5
    <3>2. le_prev[x] \in Cell /\ OwnerOf[le_prev[x]] = owner[x] /\ ptr[le_prev[x]] = x
      BY <3>1, <1>1 DEF LinksAgree
    <3>3. CASE x = ptr[e]
      <4>1. c # e
        BY <3>1, <3>3, <1>2
      <4> QED  BY <4>1, <3>1, <3>3, <1>2, <1>4, <1>5, <1>6
    <3>4. CASE x # ptr[e]
      <4>1. le_prev'[x] = le_prev[x] /\ le_prev[x] # c /\ le_prev[x] # e
        BY <3>1, <3>2, <3>4, <1>2, <1>5
      <4> QED  BY <4>1, <3>1, <3>2, <1>4, <1>5
    <3> QED  BY <3>3, <3>4
  <2> QED  BY <2>1, <2>2 DEF LinksAgree
<1>8. LoopInv'
  BY <1>1 DEF LoopInv, LIST_REMOVE, Leaves, Body
<1> QED  BY <1>3, <1>7, <1>8 DEF IInv

\* Resetting a list forgets its elements and leaves the others alone.
LEMMA ResetList ==
  ASSUME IInv, NEW h \in LHead, LIST_INIT(h)
  PROVE  IInv'
<1> USE ListAssumption DEF Cell
<1>1. TypeOK /\ LinksAgree /\ LoopInv
  BY DEF IInv
<1>2. TypeOK' /\ LoopInv'
  BY <1>1 DEF TypeOK, LoopInv, LIST_INIT, foreach
<1>3. /\ \A x \in Elem : owner'[x] = IF owner[x] = h THEN NULL ELSE owner[x]
      /\ \A d \in Cell : ptr'[d] = IF d = h THEN NULL ELSE ptr[d]
      /\ le_prev' = le_prev
  BY <1>1 DEF TypeOK, LIST_INIT
<1>4. \A d \in Cell : OwnerOf'[d] = IF d \in Elem /\ OwnerOf[d] = h THEN NULL ELSE OwnerOf[d]
  BY <1>3 DEF OwnerOf
<1>5. LinksAgree'
  <2>1. ASSUME NEW d \in Cell, OwnerOf'[d] # NULL, ptr'[d] # NULL
        PROVE  owner'[ptr'[d]] = OwnerOf'[d] /\ le_prev'[ptr'[d]] = d
    <3>1. d # h /\ OwnerOf'[d] = OwnerOf[d] /\ OwnerOf[d] # h /\ ptr'[d] = ptr[d]
      BY <2>1, <1>3, <1>4 DEF OwnerOf
    <3>2. ptr[d] \in Elem /\ owner[ptr[d]] = OwnerOf[d] /\ le_prev[ptr[d]] = d
      BY <2>1, <3>1, <1>1 DEF LinksAgree, TypeOK
    <3> QED  BY <3>1, <3>2, <1>3
  <2>2. ASSUME NEW x \in Elem, owner'[x] # NULL
        PROVE  /\ le_prev'[x] \in Cell
               /\ OwnerOf'[le_prev'[x]] = owner'[x]
               /\ ptr'[le_prev'[x]] = x
    <3>1. owner'[x] = owner[x] /\ owner[x] # NULL /\ owner[x] # h
      BY <2>2, <1>3
    <3>2. le_prev[x] \in Cell /\ OwnerOf[le_prev[x]] = owner[x] /\ ptr[le_prev[x]] = x
      BY <3>1, <1>1 DEF LinksAgree
    <3>3. le_prev[x] # h
      BY <3>1, <3>2 DEF OwnerOf
    <3> QED  BY <3>1, <3>2, <3>3, <1>3, <1>4
  <2> QED  BY <2>1, <2>2 DEF LinksAgree
<1> QED  BY <1>2, <1>5 DEF IInv

\* A loop changes no link.
LEMMA LoopStep ==
  ASSUME IInv, (\E h \in LHead : foreach_start(h)) \/ foreach_next \/ foreach_end
  PROVE  IInv'
<1> USE ListAssumption DEF Cell
<1>1. TypeOK /\ LinksAgree /\ LoopInv
  BY DEF IInv
<1>2. ptr' = ptr /\ le_prev' = le_prev /\ owner' = owner
  BY DEF foreach_start, foreach_next, foreach_end, links
<1>3. LinksAgree'
  BY <1>1, <1>2 DEF LinksAgree, OwnerOf
<1>4. ASSUME NEW h \in LHead, foreach_start(h)
      PROVE  TypeOK' /\ LoopInv'
  <2>1. ptr[h] \in Elem /\ loop' = h /\ var' = ptr[h] /\ acted' = acted
    BY <1>1, <1>4 DEF TypeOK, foreach_start, LIST_EMPTY, LIST_FIRST
  <2>2. must' \subseteq Elem /\ seen' \subseteq Elem
    BY <2>1, <1>4 DEF foreach_start, LIST_FIRST
  <2> QED  BY <2>1, <2>2, <1>1, <1>2 DEF TypeOK, LoopInv
<1>5. CASE foreach_next
  <2>1. ptr[var] \in Elem /\ var' = ptr[var] /\ loop' = loop /\ must' = must
    BY <1>1, <1>5 DEF TypeOK, LoopInv, foreach_next, LIST_NEXT
  <2>2. acted' \in BOOLEAN /\ seen' \subseteq Elem
    BY <2>1, <1>1, <1>5 DEF TypeOK, foreach_next, LIST_NEXT
  <2>3. loop' \in LHead \cup {NULL} /\ var' \in Elem /\ must' \subseteq Elem
    BY <2>1, <1>1 DEF TypeOK
  <2> QED  BY <2>2, <2>3, <1>1, <1>2, <1>3 DEF TypeOK, LoopInv, IInv
<1>6. CASE foreach_end
  <2>1. loop' = NULL /\ var' = NULL /\ acted' = FALSE /\ must' = {} /\ seen' = {}
    BY <1>6 DEF foreach_end
  <2> QED  BY <2>1, <1>1, <1>2, <1>3 DEF TypeOK, LoopInv, IInv
<1> QED  BY <1>3, <1>4, <1>5, <1>6 DEF IInv

\* The invariant holds at the start, and every step preserves it.
LEMMA InvInit == Init => IInv
  BY ListAssumption DEF Init, IInv, TypeOK, LinksAgree, LoopInv, OwnerOf, Cell

LEMMA InvNext ==
  ASSUME IInv, [Next]_vars
  PROVE  IInv'
<1>1. ASSUME NEW e \in Elem, NEW f \in Elem, LIST_INSERT_AFTER(f, e)
      PROVE  IInv'
  <2>1. f \in Cell /\ OwnerOf[f] = owner[f]
    BY ListAssumption DEF Cell, OwnerOf
  <2> QED  BY <1>1, <2>1, InsertAtCell DEF LIST_INSERT_AFTER, LIST_NEXT
<1>2. ASSUME NEW h \in LHead, NEW e \in Elem, LIST_INSERT_HEAD(h, e)
      PROVE  IInv'
  <2>1. h \in Cell /\ OwnerOf[h] = h /\ h # NULL
    BY ListAssumption DEF Cell, OwnerOf
  <2> QED  BY <1>2, <2>1, InsertAtCell DEF LIST_INSERT_HEAD, LIST_FIRST
<1>3. CASE UNCHANGED vars
  BY <1>3 DEF vars, links, foreach, IInv, TypeOK, LinksAgree, LoopInv, OwnerOf
<1> QED
  BY <1>1, <1>2, <1>3, InsertBefore, RemoveElement, ResetList, LoopStep DEF Next

\* After any sequence of insertions, removals and resets of any number of
\* lists, whatever old links are left in removed elements, both directions
\* of every list agree.
THEOREM LinksAlwaysAgree == Spec => []LinksAgree
<1>1. IInv => LinksAgree
  BY DEF IInv
<1>2. IInv /\ [Next]_vars => IInv'
  BY InvNext
<1> QED  BY <1>1, <1>2, InvInit, PTL DEF Spec
-----------------------------------------------------------------------------
(* The lists as sequences.                                                 *)

\* The cell that ends the first k elements of the list s of h (the head when
\* there are none), and what its pointer is: the next element or NULL.
CellAt(h, s, k) == IF k = 0 THEN h ELSE s[k]
Behind(s, k) == IF k < Len(s) THEN s[k + 1] ELSE NULL

\* The pointers p link the sequence s of the elements owned by h.
Chain(p, o, h, s) ==
  /\ s \in Seq(Elem)
  /\ \A k \in 0 .. Len(s) : p[CellAt(h, s, k)] = Behind(s, k)
  /\ \A k \in 1 .. Len(s) : o[s[k]] = h
  /\ \A e \in Elem : o[e] = h => \E k \in 1 .. Len(s) : s[k] = e
  /\ \A j, k \in 1 .. Len(s) : s[j] = s[k] => j = k

\* Induction, for a set in the place of a predicate.
LEMMA Induction ==
  ASSUME NEW S, 0 \in S, \A n \in Nat : n \in S => n + 1 \in S
  PROVE  Nat \subseteq S
<1> DEFINE R == OpToRel(<, Nat)
<1>1. IsWellFoundedOn(R, Nat)
  BY NatLessThanWellFounded
<1>2. \A m, n \in Nat : m < n => <<m, n>> \in R
  BY DEF OpToRel
<1> HIDE DEF R
<1> SUFFICES ASSUME Nat \ S # {} PROVE FALSE
  OBVIOUS
<1>3. PICK n \in Nat \ S : \A m \in Nat \ S : ~(<<m, n>> \in R)
  BY <1>1, WFMin
<1>4. n \in Nat /\ n # 0 /\ n - 1 \in Nat /\ n - 1 < n /\ n - 1 + 1 = n
  OBVIOUS
<1>5. n - 1 \in S
  BY <1>2, <1>3, <1>4
<1> QED  BY <1>4, <1>5

\* f is what is read from every cell in at most n steps.
Reading(p, n, f) ==
  f = [m \in 0 .. n |->
        [d \in Cell |-> IF m = 0 \/ p[d] = NULL THEN << >>
                        ELSE <<p[d]>> \o f[m - 1][p[d]]]]

\* There is such a reading of every length.
LEMMA ReadingExists ==
  ASSUME NEW p
  PROVE  \A n \in Nat : \E f : Reading(p, n, f)
<1> DEFINE S == {n \in Nat : \E f : Reading(p, n, f)}
           Row(m, g) == [d \in Cell |-> IF m = 0 \/ p[d] = NULL THEN << >>
                                        ELSE <<p[d]>> \o g[p[d]]]
<1>1. 0 \in S
  <2> DEFINE f == [m \in 0 .. 0 |-> [d \in Cell |-> << >>]]
  <2>1. Reading(p, 0, f)
    BY DEF Reading
  <2> QED  BY <2>1
<1>2. ASSUME NEW n \in Nat, n \in S PROVE n + 1 \in S
  <2>1. PICK f : Reading(p, n, f)
    BY <1>2
  <2>2. f = [m \in 0 .. n |-> Row(m, f[m - 1])]
    BY <2>1, Zenon DEF Reading
  <2> HIDE DEF Row
  <2> DEFINE g == [m \in 0 .. n + 1 |-> IF m = n + 1 THEN Row(m, f[n]) ELSE f[m]]
  <2>3. ASSUME NEW m \in 0 .. n + 1
        PROVE  g[m] = Row(m, g[m - 1])
    <3>1. CASE m = 0
      <4>1. g[0] = Row(0, f[0 - 1])
        BY <2>2, <3>1
      <4>2. \A u, v : Row(0, u) = Row(0, v)
        BY DEF Row
      <4> QED  BY <4>1, <4>2, <3>1
    <3>2. CASE m \in 1 .. n
      BY <2>2, <3>2
    <3>3. CASE m = n + 1
      <4>1. g[n] = f[n]
        OBVIOUS
      <4> QED  BY <4>1, <3>3
    <3> QED  BY <3>1, <3>2, <3>3
  <2>4. g = [m \in 0 .. n + 1 |-> Row(m, g[m - 1])]
    <3> HIDE DEF g
    <3>1. g = [m \in 0 .. n + 1 |-> g[m]]
      BY DEF g
    <3> QED  BY <2>3, <3>1
  <2>5. Reading(p, n + 1, g)
    <3> HIDE DEF g
    <3> QED  BY <2>4, Zenon DEF Reading, Row
  <2> QED  BY <2>5
<1>3. Nat \subseteq S
  <2> HIDE DEF S
  <2> QED  BY <1>1, <1>2, Induction
<1> QED  BY <1>3

\* Follow is the end of such a reading.
LEMMA FollowReads ==
  ASSUME NEW p, NEW c, Cardinality(Elem) \in Nat
  PROVE  \E f : Reading(p, Cardinality(Elem), f) /\ Follow(p, c) = f[Cardinality(Elem)][c]
<1>1. PICK f : Reading(p, Cardinality(Elem), f)
  BY ReadingExists
<1> DEFINE chain == CHOOSE g : g = [n \in 0 .. Cardinality(Elem) |->
                      [d \in Cell |-> IF n = 0 \/ p[d] = NULL THEN << >>
                                      ELSE <<p[d]>> \o g[n - 1][p[d]]]]
<1>2. Reading(p, Cardinality(Elem), chain)
  BY <1>1, Zenon DEF Reading
<1>3. Follow(p, c) = chain[Cardinality(Elem)][c]
  BY Zenon DEF Follow
<1> HIDE DEF chain
<1> QED  BY <1>2, <1>3

\* Its length in a state is the number of elements.
LEMMA ElemCount == Cardinality(Elem) \in Nat
  BY ListAssumption, FS_CardinalityType

\* A list is no longer than there are elements.
LEMMA ChainLength ==
  ASSUME NEW p, NEW o, NEW h, NEW s, Chain(p, o, h, s)
  PROVE  Len(s) \in Nat /\ Len(s) <= Cardinality(Elem)
<1>1. s \in Seq(Elem) /\ Len(s) \in Nat /\ IsFiniteSet(Elem)
  BY ListAssumption DEF Chain
<1>2. s \in Injection(1 .. Len(s), Elem)
  <2>1. s \in [1 .. Len(s) -> Elem]
    BY <1>1
  <2> QED  BY <2>1 DEF Chain, Injection, IsInjective
<1>3. Cardinality(1 .. Len(s)) <= Cardinality(Elem)
  BY <1>1, <1>2, FS_Injection
<1>4. Cardinality(1 .. Len(s)) = Len(s)
  BY <1>1, FS_Interval, SMTT(60)
<1> QED  BY ONLY <1>1, <1>3, <1>4

\* From a cell with the pointer of the k-th, the rest of the list is read.
LEMMA FollowRest ==
  ASSUME NEW p \in [Cell -> Elem \cup {NULL}], NEW o, NEW h \in LHead, NEW s,
         Chain(p, o, h, s), NEW k \in 0 .. Len(s), NEW d \in Cell, p[d] = Behind(s, k)
  PROVE  Follow(p, d) = SubSeq(s, k + 1, Len(s))
<1> DEFINE N == Cardinality(Elem)
<1>1. PICK f : Reading(p, N, f) /\ Follow(p, d) = f[N][d]
  BY ElemCount, FollowReads
<1>2. N \in Nat /\ Len(s) \in Nat /\ Len(s) <= N /\ s \in Seq(Elem)
  <2>1. s \in Seq(Elem)
    BY DEF Chain
  <2>2. Len(s) \in Nat /\ Len(s) <= N
    BY ChainLength
  <2> QED  BY <2>1, <2>2, ElemCount
<1> HIDE DEF N
<1>3. ASSUME NEW n \in 0 .. N, NEW c \in Cell
      PROVE  f[n][c] = IF n = 0 \/ p[c] = NULL THEN << >> ELSE <<p[c]>> \o f[n - 1][p[c]]
  <2> DEFINE Row(m) == [e \in Cell |-> IF m = 0 \/ p[e] = NULL THEN << >>
                                       ELSE <<p[e]>> \o f[m - 1][p[e]]]
  <2>1. f = [m \in 0 .. N |-> Row(m)]
    BY <1>1, Zenon DEF Reading
  <2>2. f[n] = Row(n)
    <3> HIDE DEF Row
    <3> QED  BY <2>1
  <2> QED  BY <2>2
<1> DEFINE S == {n \in Nat : n <= N =>
                  \A c \in Cell, j \in 0 .. Len(s) :
                    p[c] = Behind(s, j) /\ Len(s) - j <= n
                      => f[n][c] = SubSeq(s, j + 1, Len(s))}
<1>4. 0 \in S
  <2> SUFFICES ASSUME NEW c \in Cell, NEW j \in 0 .. Len(s), Len(s) - j <= 0
               PROVE  f[0][c] = SubSeq(s, j + 1, Len(s))
    OBVIOUS
  <2>1. j + 1 \in Int /\ Len(s) \in Int /\ Len(s) < j + 1 /\ 0 \in 0 .. N
    BY <1>2
  <2>2. SubSeq(s, j + 1, Len(s)) = << >>
    BY <2>1, SubSeqEmpty
  <2> QED  BY <1>3, <2>1, <2>2
<1>5. ASSUME NEW n \in Nat, n \in S PROVE n + 1 \in S
  <2> SUFFICES ASSUME n + 1 <= N, NEW c \in Cell, NEW j \in 0 .. Len(s),
                      p[c] = Behind(s, j), Len(s) - j <= n + 1
               PROVE  f[n + 1][c] = SubSeq(s, j + 1, Len(s))
    OBVIOUS
  <2>1. /\ n + 1 \in 0 .. N /\ n + 1 # 0 /\ n + 1 - 1 = n /\ n <= N
    BY <1>2
  <2>2. f[n + 1][c] = IF p[c] = NULL THEN << >> ELSE <<p[c]>> \o f[n][p[c]]
    BY <1>3, <2>1
  <2>3. CASE j = Len(s)
    <3>1. p[c] = NULL
      BY <1>2, <2>3 DEF Behind
    <3>2. SubSeq(s, j + 1, Len(s)) = << >>
      BY <1>2, <2>3, SubSeqEmpty
    <3> QED  BY <2>2, <3>1, <3>2
  <2>4. CASE j < Len(s)
    <3>1. /\ j + 1 \in 1 .. Len(s) /\ j + 1 \in 0 .. Len(s) /\ Len(s) - (j + 1) <= n
          /\ j + 1 # 0 /\ Len(s) \in j + 1 .. Len(s)
      BY <1>2, <2>4
    <3>2. p[c] = s[j + 1] /\ s[j + 1] \in Elem /\ s[j + 1] # NULL /\ s[j + 1] \in Cell
      BY <1>2, <2>4, <3>1, ListAssumption DEF Behind, Cell
    <3>3. p[s[j + 1]] = Behind(s, j + 1)
      BY <3>1 DEF Chain, CellAt
    <3>4. f[n][s[j + 1]] = SubSeq(s, j + 1 + 1, Len(s))
      BY <1>5, <2>1, <3>1, <3>2, <3>3
    <3>5. SubSeq(s, j + 1, Len(s)) = <<s[j + 1]>> \o SubSeq(s, j + 1 + 1, Len(s))
      BY <1>2, <3>1, SubSeqRecursiveFirst
    <3> QED  BY <2>2, <3>2, <3>4, <3>5
  <2>5. j = Len(s) \/ j < Len(s)
    BY <1>2
  <2> QED  BY <2>3, <2>4, <2>5
<1>6. N \in S
  <2> HIDE DEF S
  <2>1. Nat \subseteq S
    BY <1>4, <1>5, Induction
  <2> QED  BY <1>2, <2>1
<1>7. Len(s) - k <= N
  BY <1>2
<1> QED  BY <1>1, <1>2, <1>6, <1>7

\* So reading from a head gives its list.
LEMMA FollowHead ==
  ASSUME NEW p \in [Cell -> Elem \cup {NULL}], NEW o, NEW h \in LHead, NEW s,
         Chain(p, o, h, s)
  PROVE  Follow(p, h) = s
<1>1. s \in Seq(Elem) /\ Len(s) \in Nat /\ 0 \in 0 .. Len(s) /\ h \in Cell
  BY DEF Chain, Cell
<1>2. p[h] = Behind(s, 0)
  BY <1>1 DEF Chain, CellAt
<1>3. Follow(p, h) = SubSeq(s, 0 + 1, Len(s))
  BY <1>1, <1>2, FollowRest
<1> QED  BY <1>1, <1>3, SubSeqFull
-----------------------------------------------------------------------------
(* What the macros do to the sequences.                                    *)

\* s with e behind its first k elements; s without its element k.
Ins(s, k, e) == SubSeq(s, 1, k) \o <<e>> \o SubSeq(s, k + 1, Len(s))
Del(s, k) == SubSeq(s, 1, k - 1) \o SubSeq(s, k + 1, Len(s))

\* A part of a list, which may be empty.
LEMMA PartIs ==
  ASSUME NEW s \in Seq(Elem), NEW i \in 1 .. Len(s) + 1, NEW n \in 0 .. Len(s), i <= n + 1
  PROVE  /\ SubSeq(s, i, n) \in Seq(Elem)
         /\ Len(SubSeq(s, i, n)) = n + 1 - i
         /\ \A j \in 1 .. n + 1 - i : SubSeq(s, i, n)[j] = s[j + (i - 1)]
<1> DEFINE b == SubSeq(s, i, n)
<1>1. Len(s) \in Nat /\ i \in Int /\ n \in Int /\ i <= n + 1
  OBVIOUS
<1>2. \A j \in i .. n : s[j] \in Elem
  BY <1>1
<1>3. /\ b \in Seq(Elem)
      /\ Len(b) = IF i <= n THEN n - i + 1 ELSE 0
      /\ \A j \in 1 .. n - i + 1 : b[j] = s[i + j - 1]
  BY <1>1, <1>2, SubSeqProperties
<1> HIDE DEF b
<1>4. Len(b) = n + 1 - i
  BY <1>1, <1>3
<1>5. ASSUME NEW j \in 1 .. n + 1 - i
      PROVE  b[j] = s[j + (i - 1)]
  <2>1. j \in 1 .. n - i + 1 /\ i + j - 1 = j + (i - 1)
    BY <1>1
  <2> QED  BY <1>3, <2>1
<1>6. b \in Seq(Elem) /\ \A j \in 1 .. n + 1 - i : b[j] = s[j + (i - 1)]
  BY <1>3, <1>5
<1> QED  BY <1>4, <1>6 DEF b

\* The elements of a list with one more, and with one less.
LEMMA InsIs ==
  ASSUME NEW s \in Seq(Elem), NEW k \in 0 .. Len(s), NEW e \in Elem
  PROVE  /\ Ins(s, k, e) \in Seq(Elem)
         /\ Len(Ins(s, k, e)) = Len(s) + 1
         /\ \A j \in 1 .. Len(s) + 1 :
              Ins(s, k, e)[j] = IF j <= k THEN s[j] ELSE IF j = k + 1 THEN e ELSE s[j - 1]
<1> DEFINE a == SubSeq(s, 1, k)
           b == SubSeq(s, k + 1, Len(s))
<1>1. Len(s) \in Nat /\ k \in Nat /\ k \in Int /\ k + 1 \in Int /\ Len(s) \in Int /\ 1 \in Int
  OBVIOUS
<1>2. a \in Seq(Elem) /\ Len(a) = k /\ \A j \in 1 .. k : a[j] = s[j]
  <2>1. /\ a \in Seq(Elem) /\ Len(a) = k + 1 - 1
        /\ \A j \in 1 .. k + 1 - 1 : a[j] = s[j + (1 - 1)]
    BY <1>1, PartIs
  <2> HIDE DEF a
  <2>2. k + 1 - 1 = k /\ \A j \in 1 .. k : j + (1 - 1) = j
    BY <1>1
  <2> QED  BY <2>1, <2>2
<1>3. /\ b \in Seq(Elem) /\ Len(b) = Len(s) - k
      /\ \A j \in 1 .. Len(s) - k : b[j] = s[j + k]
  <2>1. /\ b \in Seq(Elem) /\ Len(b) = Len(s) + 1 - (k + 1)
        /\ \A j \in 1 .. Len(s) + 1 - (k + 1) : b[j] = s[j + (k + 1 - 1)]
    BY <1>1, PartIs
  <2> HIDE DEF b
  <2>2. Len(s) + 1 - (k + 1) = Len(s) - k /\ k + 1 - 1 = k
    BY <1>1
  <2> QED  BY <2>1, <2>2
<1> HIDE DEF a, b
<1>4. <<e>> \in Seq(Elem) /\ Len(<<e>>) = 1 /\ <<e>>[1] = e
  OBVIOUS
<1> DEFINE c == a \o <<e>>
<1>5. /\ c \in Seq(Elem) /\ Len(c) = k + 1
      /\ \A j \in 1 .. k + 1 : c[j] = IF j <= k THEN s[j] ELSE e
  <2>1. /\ c \in Seq(Elem) /\ Len(c) = Len(a) + 1
        /\ \A j \in 1 .. Len(a) + 1 : c[j] = IF j <= Len(a) THEN a[j] ELSE <<e>>[j - Len(a)]
    BY <1>2, <1>4, ConcatProperties
  <2> HIDE DEF c
  <2>2. ASSUME NEW j \in 1 .. k + 1
        PROVE  c[j] = IF j <= k THEN s[j] ELSE e
    <3>1. c[j] = IF j <= k THEN a[j] ELSE <<e>>[j - k]
      BY <2>1, <1>2
    <3>2. j <= k \/ j - k = 1
      BY <1>1
    <3>3. j <= k => a[j] = s[j]
      BY <1>2
    <3>4. j - k = 1 => ~(j <= k)
      BY <1>1
    <3> QED  BY <3>1, <3>2, <3>3, <3>4, <1>4
  <2> QED  BY <2>1, <2>2, <1>2
<1> HIDE DEF c
<1>6. /\ c \o b \in Seq(Elem) /\ Len(c \o b) = Len(c) + Len(b)
      /\ \A j \in 1 .. Len(c) + Len(b) :
           (c \o b)[j] = IF j <= Len(c) THEN c[j] ELSE b[j - Len(c)]
  BY <1>3, <1>5, ConcatProperties
<1>7. ASSUME NEW j \in 1 .. Len(s) + 1
      PROVE  (c \o b)[j] = IF j <= k THEN s[j] ELSE IF j = k + 1 THEN e ELSE s[j - 1]
  <2>1. j \in 1 .. Len(c) + Len(b) /\ Len(c) = k + 1
    BY <1>1, <1>3, <1>5
  <2>2. (c \o b)[j] = IF j <= k + 1 THEN c[j] ELSE b[j - (k + 1)]
    BY <1>6, <2>1
  <2>3. CASE j <= k + 1
    <3>1. c[j] = IF j <= k THEN s[j] ELSE e
      BY <2>3, <1>5
    <3>2. j <= k \/ (~(j <= k) /\ j = k + 1)
      BY <1>1, <2>3
    <3> QED  BY <2>2, <2>3, <3>1, <3>2
  <2>4. CASE ~(j <= k + 1)
    <3>1. j - (k + 1) \in 1 .. Len(s) - k /\ (j - (k + 1)) + k = j - 1
      BY <1>1, <2>4
    <3>2. b[j - (k + 1)] = s[j - 1]
      BY <1>3, <3>1
    <3>3. ~(j <= k) /\ j # k + 1
      BY <1>1, <2>4
    <3> QED  BY <2>2, <2>4, <3>2, <3>3
  <2> QED  BY <2>3, <2>4
<1>8. Ins(s, k, e) = c \o b
  BY DEF Ins, a, b, c
<1>9. Len(c) + Len(b) = Len(s) + 1
  BY <1>1, <1>3, <1>5
<1> QED  BY <1>6, <1>7, <1>8, <1>9

LEMMA DelIs ==
  ASSUME NEW s \in Seq(Elem), NEW k \in 1 .. Len(s)
  PROVE  /\ Del(s, k) \in Seq(Elem)
         /\ Len(Del(s, k)) = Len(s) - 1
         /\ \A j \in 1 .. Len(s) - 1 : Del(s, k)[j] = IF j < k THEN s[j] ELSE s[j + 1]
<1> DEFINE a == SubSeq(s, 1, k - 1)
           b == SubSeq(s, k + 1, Len(s))
<1>1. /\ Len(s) \in Nat /\ k \in Nat /\ k - 1 \in Nat /\ k - 1 \in Int /\ k + 1 \in Int
      /\ Len(s) \in Int /\ 1 \in Int
  OBVIOUS
<1>2. a \in Seq(Elem) /\ Len(a) = k - 1 /\ \A j \in 1 .. k - 1 : a[j] = s[j]
  <2>1. /\ a \in Seq(Elem) /\ Len(a) = k - 1 + 1 - 1
        /\ \A j \in 1 .. k - 1 + 1 - 1 : a[j] = s[j + (1 - 1)]
    BY <1>1, PartIs
  <2> HIDE DEF a
  <2>2. k - 1 + 1 - 1 = k - 1 /\ \A j \in 1 .. k - 1 : j + (1 - 1) = j
    BY <1>1
  <2> QED  BY <2>1, <2>2
<1>3. /\ b \in Seq(Elem) /\ Len(b) = Len(s) - k
      /\ \A j \in 1 .. Len(s) - k : b[j] = s[j + k]
  <2>1. /\ b \in Seq(Elem) /\ Len(b) = Len(s) + 1 - (k + 1)
        /\ \A j \in 1 .. Len(s) + 1 - (k + 1) : b[j] = s[j + (k + 1 - 1)]
    BY <1>1, PartIs
  <2> HIDE DEF b
  <2>2. Len(s) + 1 - (k + 1) = Len(s) - k /\ k + 1 - 1 = k
    BY <1>1
  <2> QED  BY <2>1, <2>2
<1> HIDE DEF a, b
<1>4. /\ a \o b \in Seq(Elem) /\ Len(a \o b) = Len(a) + Len(b)
      /\ \A j \in 1 .. Len(a) + Len(b) :
           (a \o b)[j] = IF j <= Len(a) THEN a[j] ELSE b[j - Len(a)]
  BY <1>2, <1>3, ConcatProperties
<1>5. ASSUME NEW j \in 1 .. Len(s) - 1
      PROVE  (a \o b)[j] = IF j < k THEN s[j] ELSE s[j + 1]
  <2>1. j \in 1 .. Len(a) + Len(b) /\ Len(a) = k - 1
    BY <1>1, <1>2, <1>3
  <2>2. (a \o b)[j] = IF j <= k - 1 THEN a[j] ELSE b[j - (k - 1)]
    BY <1>4, <2>1
  <2>3. CASE j < k
    <3>1. j <= k - 1 /\ j \in 1 .. k - 1
      BY <1>1, <2>3
    <3> QED  BY <2>2, <2>3, <3>1, <1>2
  <2>4. CASE ~(j < k)
    <3>1. /\ j - (k - 1) \in 1 .. Len(s) - k /\ (j - (k - 1)) + k = j + 1
          /\ ~(j <= k - 1)
      BY <1>1, <2>4
    <3>2. b[j - (k - 1)] = s[j + 1]
      BY <1>3, <3>1
    <3> QED  BY <2>2, <2>4, <3>1, <3>2
  <2> QED  BY <2>3, <2>4
<1>6. Del(s, k) = a \o b
  BY DEF Del, a, b
<1>7. Len(a) + Len(b) = Len(s) - 1
  BY <1>1, <1>2, <1>3
<1> QED  BY <1>4, <1>5, <1>6, <1>7

\* The cells of a list are its head and its elements, each once.
LEMMA CellIs ==
  ASSUME NEW p, NEW o, NEW h \in LHead, NEW s, Chain(p, o, h, s)
  PROVE  /\ \A k \in 0 .. Len(s) : CellAt(h, s, k) \in Cell
         /\ \A j, k \in 0 .. Len(s) : CellAt(h, s, j) = CellAt(h, s, k) => j = k
<1>1. s \in Seq(Elem) /\ Len(s) \in Nat /\ h \notin Elem
  BY ListAssumption DEF Chain
<1>2. \A j \in 1 .. Len(s) : s[j] \in Elem /\ o[s[j]] = h
  BY <1>1 DEF Chain
<1>3. \A j \in 0 .. Len(s) : j = 0 \/ (j # 0 /\ j \in 1 .. Len(s))
  BY <1>1
<1>4. \A i, j \in 1 .. Len(s) : s[i] = s[j] => i = j
  BY DEF Chain
<1> QED  BY <1>1, <1>2, <1>3, <1>4 DEF CellAt, Cell

\* A list is left alone by what happens to the others.
LEMMA OthersKeep ==
  ASSUME NEW p, NEW o, NEW h \in LHead, NEW s, Chain(p, o, h, s), NEW p2, NEW o2,
         p2[h] = p[h],
         \A e \in Elem : (o2[e] = h <=> o[e] = h) /\ (o[e] = h => p2[e] = p[e])
  PROVE  Chain(p2, o2, h, s)
<1>1. ASSUME NEW k \in 0 .. Len(s)
      PROVE  p2[CellAt(h, s, k)] = Behind(s, k)
  <2>1. CellAt(h, s, k) = h \/ (CellAt(h, s, k) \in Elem /\ o[CellAt(h, s, k)] = h)
    <3>1. Len(s) \in Nat /\ (k = 0 \/ k \in 1 .. Len(s)) /\ s \in Seq(Elem)
      BY DEF Chain
    <3> QED  BY <3>1 DEF Chain, CellAt
  <2>2. p[CellAt(h, s, k)] = Behind(s, k)
    BY DEF Chain
  <2> QED  BY <2>1, <2>2
<1>2. s \in Seq(Elem) /\ \A k \in 1 .. Len(s) : s[k] \in Elem /\ o2[s[k]] = h
  BY DEF Chain
<1>3. \A e \in Elem : o2[e] = h => \E k \in 1 .. Len(s) : s[k] = e
  BY DEF Chain
<1> QED  BY <1>1, <1>2, <1>3 DEF Chain

\* An empty list.
LEMMA EmptyChain ==
  ASSUME NEW p, NEW o, NEW h, p[h] = NULL, \A e \in Elem : o[e] # h
  PROVE  Chain(p, o, h, << >>)
  BY DEF Chain, CellAt, Behind

\* Inserting e at the cell behind the first k elements.
LEMMA InsertsInChain ==
  ASSUME NEW p \in [Cell -> Elem \cup {NULL}], NEW o, NEW h \in LHead, NEW s,
         Chain(p, o, h, s), NEW k \in 0 .. Len(s), NEW e \in Elem, o[e] # h,
         NEW p2, NEW o2, NEW c, c = CellAt(h, s, k),
         \A d \in Cell : p2[d] = IF d = c THEN e ELSE IF d = e THEN p[c] ELSE p[d],
         \A x \in Elem : o2[x] = IF x = e THEN h ELSE o[x]
  PROVE  Chain(p2, o2, h, Ins(s, k, e))
<1> DEFINE t == Ins(s, k, e)
<1>1. s \in Seq(Elem) /\ Len(s) \in Nat /\ k \in Nat
  BY DEF Chain
<1>2. /\ t \in Seq(Elem) /\ Len(t) = Len(s) + 1
      /\ \A j \in 1 .. Len(s) + 1 :
           t[j] = IF j <= k THEN s[j] ELSE IF j = k + 1 THEN e ELSE s[j - 1]
  BY <1>1, InsIs
<1> HIDE DEF t
<1>3. \A j \in 1 .. Len(s) : s[j] \in Elem /\ o[s[j]] = h /\ s[j] # e
  BY <1>1 DEF Chain
<1>4. /\ \A j \in 0 .. Len(s) : CellAt(h, s, j) \in Cell
      /\ \A i, j \in 0 .. Len(s) : CellAt(h, s, i) = CellAt(h, s, j) => i = j
  BY CellIs
<1>5. \A j \in 0 .. Len(s) : CellAt(h, s, j) # e
  <2>1. \A j \in 0 .. Len(s) : j = 0 \/ j \in 1 .. Len(s)
    BY <1>1
  <2> QED  BY <2>1, <1>3, ListAssumption DEF CellAt
<1>6. c \in Cell /\ e \in Cell /\ c # e /\ h # e /\ p[c] = Behind(s, k)
  BY <1>4, <1>5, ListAssumption DEF Cell, Chain
<1>7. /\ \A j \in 1 .. k : t[j] = s[j]
      /\ t[k + 1] = e
      /\ \A j \in k + 1 .. Len(s) : t[j + 1] = s[j]
  <2>1. \A j \in 1 .. k : j \in 1 .. Len(s) + 1 /\ j <= k
    BY <1>1
  <2>2. k + 1 \in 1 .. Len(s) + 1 /\ ~(k + 1 <= k)
    BY <1>1
  <2>3. \A j \in k + 1 .. Len(s) : /\ j + 1 \in 1 .. Len(s) + 1 /\ ~(j + 1 <= k)
                                   /\ j + 1 # k + 1 /\ j + 1 - 1 = j
    BY <1>1
  <2>4. ASSUME NEW j \in 1 .. k PROVE t[j] = s[j]
    BY <1>2, <2>1
  <2>5. t[k + 1] = e
    BY <1>2, <2>2
  <2>6. ASSUME NEW j \in k + 1 .. Len(s) PROVE t[j + 1] = s[j]
    BY <1>2, <2>3
  <2> QED  BY <2>4, <2>5, <2>6
<1>8. ASSUME NEW j \in 0 .. Len(t)
      PROVE  p2[CellAt(h, t, j)] = Behind(t, j)
  <2>1. CASE j < k
    <3>1. j \in 0 .. Len(s) /\ j < Len(s) /\ j < Len(t) /\ j + 1 \in 1 .. k /\ j # k
      BY <1>1, <1>2, <2>1
    <3>2. CellAt(h, t, j) = CellAt(h, s, j)
      BY <1>1, <1>7, <2>1 DEF CellAt
    <3>3. CellAt(h, s, j) # c /\ CellAt(h, s, j) # e /\ CellAt(h, s, j) \in Cell
      BY <3>1, <1>4, <1>5, <1>6
    <3>4. p[CellAt(h, s, j)] = s[j + 1] /\ Behind(t, j) = t[j + 1]
      BY <3>1 DEF Chain, Behind
    <3> QED  BY <3>1, <3>2, <3>3, <3>4, <1>7
  <2>2. CASE j = k
    <3>1. CellAt(h, t, j) = c
      BY <1>1, <1>7, <2>2 DEF CellAt
    <3>2. Behind(t, j) = e
      BY <1>1, <1>2, <1>7, <2>2 DEF Behind
    <3> QED  BY <3>1, <3>2, <1>6
  <2>3. CASE j = k + 1
    <3>1. CellAt(h, t, j) = e
      BY <1>1, <1>7, <2>3 DEF CellAt
    <3>2. Behind(t, j) = Behind(s, k)
      <4>1. CASE k < Len(s)
        BY <1>1, <1>2, <1>7, <2>3, <4>1 DEF Behind
      <4>2. CASE k = Len(s)
        BY <1>1, <1>2, <2>3, <4>2 DEF Behind
      <4>3. k < Len(s) \/ k = Len(s)
        BY <1>1
      <4> QED  BY <4>1, <4>2, <4>3
    <3> QED  BY <3>1, <3>2, <1>6
  <2>4. CASE j > k + 1
    <3> DEFINE i == j - 1
    <3>1. /\ i \in k + 1 .. Len(s) /\ i \in 0 .. Len(s) /\ i # k /\ i # 0 /\ i + 1 = j
          /\ j # 0 /\ i \in Nat
      BY <1>1, <1>2, <2>4
    <3> HIDE DEF i
    <3>2. CellAt(h, t, j) = CellAt(h, s, i)
      BY <3>1, <1>7 DEF CellAt
    <3>3. CellAt(h, s, i) # c /\ CellAt(h, s, i) # e /\ CellAt(h, s, i) \in Cell
      <4>1. CellAt(h, s, i) \in Cell /\ CellAt(h, s, i) # c
        BY <3>1, <1>4
      <4>2. CellAt(h, s, i) = s[i] /\ i \in 1 .. Len(s)
        BY <3>1 DEF CellAt
      <4> QED  BY <4>1, <4>2, <1>3
    <3>4. Behind(t, j) = Behind(s, i)
      <4>1. CASE i < Len(s)
        <5>1. j < Len(t) /\ i + 1 \in k + 1 .. Len(s)
          BY <1>1, <1>2, <3>1, <4>1
        <5> QED  BY <5>1, <4>1, <3>1, <1>7 DEF Behind
      <4>2. CASE ~(i < Len(s))
        <5>1. ~(j < Len(t))
          BY <1>1, <1>2, <3>1, <4>2
        <5> QED  BY <5>1, <4>2 DEF Behind
      <4> QED  BY <4>1, <4>2
    <3>5. p[CellAt(h, s, i)] = Behind(s, i)
      BY <3>1 DEF Chain
    <3> QED  BY <3>2, <3>3, <3>4, <3>5
  <2>5. j < k \/ j = k \/ j = k + 1 \/ j > k + 1
    BY <1>1, <1>2
  <2> QED  BY <2>1, <2>2, <2>3, <2>4, <2>5
<1>9. ASSUME NEW j \in 1 .. Len(t)
      PROVE  \/ j = k + 1 /\ t[j] = e
             \/ j \in 1 .. k /\ t[j] = s[j] /\ j \in 1 .. Len(s)
             \/ j \in k + 2 .. Len(t) /\ t[j] = s[j - 1] /\ j - 1 \in 1 .. Len(s)
  BY <1>1, <1>2
<1>10. ASSUME NEW j \in 1 .. Len(t)
      PROVE  o2[t[j]] = h
  <2>1. t[j] = e \/ \E i \in 1 .. Len(s) : t[j] = s[i]
    BY <1>9
  <2> QED  BY <2>1, <1>3
<1>11. ASSUME NEW x \in Elem, o2[x] = h
      PROVE  \E j \in 1 .. Len(t) : t[j] = x
  <2>1. CASE x = e
    BY <2>1, <1>1, <1>2, <1>7
  <2>2. CASE x # e
    <3>1. PICK i \in 1 .. Len(s) : s[i] = x
      BY <2>2, <1>11 DEF Chain
    <3>2. i \in 1 .. Len(t) /\ i + 1 \in 1 .. Len(t) /\ (i \in 1 .. k \/ i \in k + 1 .. Len(s))
      BY <1>1, <1>2
    <3> QED  BY <3>1, <3>2, <1>7
  <2> QED  BY <2>1, <2>2
<1>12. ASSUME NEW i \in 1 .. Len(t), NEW j \in 1 .. Len(t), t[i] = t[j]
       PROVE  i = j
  <2>1. \A a, b \in 1 .. Len(s) : s[a] = s[b] => a = b
    BY DEF Chain
  <2>2. i \in Nat /\ j \in Nat
    OBVIOUS
  <2>3. CASE i = k + 1
    BY <2>3, <1>3, <1>9, <1>12
  <2>4. CASE i \in 1 .. k /\ t[i] = s[i] /\ i \in 1 .. Len(s)
    BY <2>1, <2>2, <2>4, <1>1, <1>3, <1>9, <1>12
  <2>5. CASE i \in k + 2 .. Len(t) /\ t[i] = s[i - 1] /\ i - 1 \in 1 .. Len(s)
    BY <2>1, <2>2, <2>5, <1>1, <1>3, <1>9, <1>12
  <2> QED  BY <2>3, <2>4, <2>5, <1>9
<1>13. Chain(p2, o2, h, t)
  BY <1>2, <1>8, <1>10, <1>11, <1>12 DEF Chain
<1> QED  BY <1>13 DEF t

\* Removing the k-th element.
LEMMA DeletesFromChain ==
  ASSUME NEW p \in [Cell -> Elem \cup {NULL}], NEW o, NEW h \in LHead, NEW s,
         Chain(p, o, h, s), NEW k \in 1 .. Len(s), NEW e, e = s[k],
         NEW p2, NEW o2, NEW c, c = CellAt(h, s, k - 1),
         \A d \in Cell : p2[d] = IF d = c THEN p[e] ELSE p[d],
         \A x \in Elem : o2[x] = IF x = e THEN NULL ELSE o[x]
  PROVE  Chain(p2, o2, h, Del(s, k))
<1> DEFINE t == Del(s, k)
<1>1. s \in Seq(Elem) /\ Len(s) \in Nat /\ k \in Nat /\ h # NULL
  BY ListAssumption DEF Chain
<1>2. /\ t \in Seq(Elem) /\ Len(t) = Len(s) - 1
      /\ \A j \in 1 .. Len(s) - 1 : t[j] = IF j < k THEN s[j] ELSE s[j + 1]
  BY <1>1, DelIs
<1> HIDE DEF t
<1>3. \A j \in 1 .. Len(s) : s[j] \in Elem /\ o[s[j]] = h
  BY <1>1 DEF Chain
<1>4. \A a, b \in 1 .. Len(s) : s[a] = s[b] => a = b
  BY DEF Chain
<1>5. /\ \A j \in 0 .. Len(s) : CellAt(h, s, j) \in Cell
      /\ \A i, j \in 0 .. Len(s) : CellAt(h, s, i) = CellAt(h, s, j) => i = j
  BY CellIs
<1>6. p[e] = Behind(s, k)
  BY <1>1 DEF Chain, CellAt
<1>7. ASSUME NEW j \in 0 .. Len(t)
      PROVE  p2[CellAt(h, t, j)] = Behind(t, j)
  <2>1. CASE j < k - 1
    <3>1. /\ j \in 0 .. Len(s) /\ j < Len(s) /\ j < Len(t) /\ j + 1 \in 1 .. Len(s) - 1
          /\ j + 1 < k /\ j # k - 1 /\ k - 1 \in 0 .. Len(s)
      BY <1>1, <1>2, <2>1
    <3>2. CellAt(h, t, j) = CellAt(h, s, j)
      BY <1>1, <1>2, <2>1 DEF CellAt
    <3>3. CellAt(h, s, j) # c /\ CellAt(h, s, j) \in Cell
      BY <3>1, <1>5
    <3>4. p[CellAt(h, s, j)] = s[j + 1] /\ Behind(t, j) = t[j + 1]
      BY <3>1 DEF Chain, Behind
    <3> QED  BY <3>1, <3>2, <3>3, <3>4, <1>2
  <2>2. CASE j = k - 1
    <3>1. CellAt(h, t, j) = c
      BY <1>1, <1>2, <2>2 DEF CellAt
    <3>2. Behind(t, j) = Behind(s, k)
      <4>1. CASE k < Len(s)
        <5>1. j < Len(t) /\ k \in 1 .. Len(s) - 1 /\ j + 1 = k /\ ~(k < k)
          BY <1>1, <1>2, <2>2, <4>1
        <5> QED  BY <5>1, <4>1, <1>2 DEF Behind
      <4>2. CASE ~(k < Len(s))
        <5>1. ~(j < Len(t))
          BY <1>1, <1>2, <2>2, <4>2
        <5> QED  BY <5>1, <4>2 DEF Behind
      <4> QED  BY <4>1, <4>2
    <3>3. c \in Cell
      <4>1. k - 1 \in 0 .. Len(s)
        BY <1>1
      <4> QED  BY <4>1, <1>5
    <3> QED  BY <3>1, <3>2, <3>3, <1>6
  <2>3. CASE j > k - 1
    <3> DEFINE i == j + 1
    <3>1. /\ i \in 0 .. Len(s) /\ i # k - 1 /\ i # 0 /\ i \in Nat /\ j # 0
          /\ j \in 1 .. Len(s) - 1 /\ ~(j < k) /\ k - 1 \in 0 .. Len(s)
      BY <1>1, <1>2, <2>3
    <3>2. CellAt(h, t, j) = CellAt(h, s, i)
      BY <3>1, <1>2 DEF CellAt
    <3>3. CellAt(h, s, i) # c /\ CellAt(h, s, i) \in Cell
      BY <3>1, <1>5
    <3>4. Behind(t, j) = Behind(s, i)
      <4>1. CASE i < Len(s)
        <5>1. j < Len(t) /\ i \in 1 .. Len(s) - 1 /\ ~(i < k)
          BY <1>1, <1>2, <3>1, <4>1
        <5> QED  BY <5>1, <4>1, <1>2 DEF Behind
      <4>2. CASE ~(i < Len(s))
        <5>1. ~(j < Len(t))
          BY <1>1, <1>2, <3>1, <4>2
        <5> QED  BY <5>1, <4>2 DEF Behind
      <4> QED  BY <4>1, <4>2
    <3>5. p[CellAt(h, s, i)] = Behind(s, i)
      BY <3>1 DEF Chain
    <3> QED  BY <3>2, <3>3, <3>4, <3>5
  <2>4. j < k - 1 \/ j = k - 1 \/ j > k - 1
    BY <1>1, <1>2
  <2> QED  BY <2>1, <2>2, <2>3, <2>4
<1>8. ASSUME NEW j \in 1 .. Len(t)
      PROVE  \/ j < k /\ t[j] = s[j] /\ j \in 1 .. Len(s)
             \/ ~(j < k) /\ t[j] = s[j + 1] /\ j + 1 \in 1 .. Len(s) /\ j + 1 # k
  BY <1>1, <1>2
<1>9. ASSUME NEW j \in 1 .. Len(t)
      PROVE  o2[t[j]] = h
  <2>1. CASE j < k /\ t[j] = s[j] /\ j \in 1 .. Len(s)
    <3>1. s[j] # s[k]
      BY <2>1, <1>1, <1>4
    <3> QED  BY <2>1, <3>1, <1>3
  <2>2. CASE ~(j < k) /\ t[j] = s[j + 1] /\ j + 1 \in 1 .. Len(s) /\ j + 1 # k
    <3>1. s[j + 1] # s[k]
      BY <2>2, <1>4
    <3> QED  BY <2>2, <3>1, <1>3
  <2> QED  BY <2>1, <2>2, <1>8
<1>10. ASSUME NEW x \in Elem, o2[x] = h
      PROVE  \E j \in 1 .. Len(t) : t[j] = x
  <2>1. x # e /\ o[x] = h
    BY <1>1, <1>10
  <2>2. PICK i \in 1 .. Len(s) : s[i] = x
    BY <2>1 DEF Chain
  <2>3. i # k
    BY <2>1, <2>2
  <2>4. CASE i < k
    <3>1. i \in 1 .. Len(t) /\ i \in 1 .. Len(s) - 1
      BY <1>1, <1>2, <2>4
    <3> QED  BY <3>1, <2>2, <2>4, <1>2
  <2>5. CASE i > k
    <3>1. i - 1 \in 1 .. Len(t) /\ i - 1 \in 1 .. Len(s) - 1 /\ ~(i - 1 < k) /\ i - 1 + 1 = i
      BY <1>1, <1>2, <2>5
    <3> QED  BY <3>1, <2>2, <1>2
  <2>6. i < k \/ i > k
    BY <2>3, <1>1
  <2> QED  BY <2>4, <2>5, <2>6
<1>11. ASSUME NEW i \in 1 .. Len(t), NEW j \in 1 .. Len(t), t[i] = t[j]
       PROVE  i = j
  <2>1. i \in Nat /\ j \in Nat
    OBVIOUS
  <2>2. CASE i < k /\ t[i] = s[i] /\ i \in 1 .. Len(s)
    BY <2>1, <2>2, <1>1, <1>4, <1>8, <1>11
  <2>3. CASE ~(i < k) /\ t[i] = s[i + 1] /\ i + 1 \in 1 .. Len(s) /\ i + 1 # k
    BY <2>1, <2>3, <1>1, <1>4, <1>8, <1>11
  <2> QED  BY <2>2, <2>3, <1>8
<1>12. Chain(p2, o2, h, t)
  BY <1>2, <1>7, <1>9, <1>10, <1>11 DEF Chain
<1> QED  BY <1>12 DEF t
-----------------------------------------------------------------------------
(* Every head has its sequence, and a loop is at a place of its own.       *)
Listed == \A h \in LHead : \E s : Chain(ptr, owner, h, s)

\* A loop is behind the first k elements of its list: its variable points to
\* the next, and what has stayed on the list without being visited comes
\* later.  Before the body has acted the variable is itself the k-th.
Looping ==
  loop # NULL =>
    \E s : \E k \in 0 .. Len(s) :
      /\ Chain(ptr, owner, loop, s)
      /\ ptr[var] = Behind(s, k)
      /\ \A e \in must \ seen : \E j \in k + 1 .. Len(s) : s[j] = e
      /\ ~acted => k \in 1 .. Len(s) /\ var = s[k]

\* The inductive invariant with the sequences.
SInv == IInv /\ Listed /\ Looping

\* The cell of a list is behind some of its elements.
LEMMA PlaceOfCell ==
  ASSUME TypeOK, NEW c \in Cell, NEW h \in LHead, OwnerOf[c] = h,
         NEW s, Chain(ptr, owner, h, s)
  PROVE  \E k \in 0 .. Len(s) : c = CellAt(h, s, k)
<1>1. s \in Seq(Elem) /\ Len(s) \in Nat
  BY DEF Chain
<1>2. CASE c \in LHead
  <2>1. c = h /\ 0 \in 0 .. Len(s)
    BY <1>1, <1>2 DEF OwnerOf
  <2> QED  BY <2>1 DEF CellAt
<1>3. CASE c \in Elem /\ c \notin LHead
  <2>1. owner[c] = h
    BY <1>3 DEF OwnerOf
  <2>2. PICK k \in 1 .. Len(s) : s[k] = c
    BY <2>1, <1>3 DEF Chain
  <2>3. k \in 0 .. Len(s) /\ k # 0
    BY <1>1
  <2> QED  BY <2>2, <2>3 DEF CellAt
<1> QED  BY <1>2, <1>3 DEF Cell

\* What an insertion at a cell does to the list it is in, and to the others.
LEMMA InsertShifts ==
  ASSUME IInv, NEW e \in Elem, NEW c \in Cell, NEW h, h = OwnerOf[c], h # NULL,
         Joins(e, h),
         \A d \in Cell : ptr'[d] = IF d = c THEN e ELSE IF d = e THEN ptr[c] ELSE ptr[d]
  PROVE  /\ h \in LHead /\ owner[e] = NULL /\ c # e
         /\ \A s, k : Chain(ptr, owner, h, s) /\ k \in 0 .. Len(s) /\ c = CellAt(h, s, k)
                      => Chain(ptr', owner', h, Ins(s, k, e))
         /\ \A g \in LHead : \A s : g # h /\ Chain(ptr, owner, g, s)
                                   => Chain(ptr', owner', g, s)
         /\ \A d \in Cell : d # c /\ d # e => ptr'[d] = ptr[d]
<1> USE ListAssumption
<1>1. TypeOK /\ ptr \in [Cell -> Elem \cup {NULL}] /\ owner \in [Elem -> LHead \cup {NULL}]
  BY DEF IInv, TypeOK
<1>2. h \in LHead
  BY <1>1 DEF OwnerOf, Cell
<1>3. owner[e] = NULL /\ owner' = [owner EXCEPT ![e] = h]
  BY DEF Joins
<1>4. c # e
  BY <1>3 DEF OwnerOf, Cell
<1>5. \A x \in Elem : owner'[x] = IF x = e THEN h ELSE owner[x]
  BY <1>1, <1>3
<1>6. \A d \in Cell : ptr'[d] = IF d = c THEN e ELSE IF d = e THEN ptr[c] ELSE ptr[d]
  OBVIOUS
<1>7. \A s, k : Chain(ptr, owner, h, s) /\ k \in 0 .. Len(s) /\ c = CellAt(h, s, k)
                => Chain(ptr', owner', h, Ins(s, k, e))
  <2> SUFFICES ASSUME NEW s, NEW k, Chain(ptr, owner, h, s),
                      k \in 0 .. Len(s), c = CellAt(h, s, k)
               PROVE  Chain(ptr', owner', h, Ins(s, k, e))
    OBVIOUS
  <2>1. owner[e] # h
    BY <1>2, <1>3
  <2> QED  BY <1>1, <1>2, <1>5, <1>6, <2>1, InsertsInChain
<1>8. ASSUME NEW g \in LHead, NEW s, g # h, Chain(ptr, owner, g, s)
      PROVE  Chain(ptr', owner', g, s)
  <2>1. g # c /\ g # e /\ g \in Cell /\ g # NULL
    BY <1>8 DEF OwnerOf, Cell
  <2>2. ptr'[g] = ptr[g]
    BY <2>1, <1>6
  <2>3. ASSUME NEW x \in Elem
        PROVE  (owner'[x] = g <=> owner[x] = g) /\ (owner[x] = g => ptr'[x] = ptr[x])
    <3>1. owner[x] = g => x # c /\ x # e
      BY <1>3, <1>8, <2>1 DEF OwnerOf, Cell
    <3>2. x \in Cell
      BY DEF Cell
    <3> QED  BY <3>1, <3>2, <1>3, <1>5, <1>6, <1>8, <2>1
  <2> QED  BY <1>8, <2>2, <2>3, OthersKeep
<1>9. \A d \in Cell : d # c /\ d # e => ptr'[d] = ptr[d]
  BY <1>6
<1>10. \A g \in LHead : \A s : g # h /\ Chain(ptr, owner, g, s)
                             => Chain(ptr', owner', g, s)
  BY <1>8
<1> QED  BY <1>2, <1>3, <1>4, <1>7, <1>9, <1>10

\* So an insertion keeps every list a list and the loop at its place.
LEMMA InsertKeeps ==
  ASSUME SInv, NEW e \in Elem, NEW c \in Cell, OwnerOf[c] # NULL,
         Joins(e, OwnerOf[c]),
         \A d \in Cell : ptr'[d] = IF d = c THEN e ELSE IF d = e THEN ptr[c] ELSE ptr[d]
  PROVE  Listed' /\ Looping'
<1> DEFINE h == OwnerOf[c]
<1>1. IInv /\ Listed /\ Looping /\ TypeOK
  BY DEF SInv, IInv
<1>2. /\ h \in LHead /\ owner[e] = NULL /\ c # e
      /\ \A s, k : Chain(ptr, owner, h, s) /\ k \in 0 .. Len(s) /\ c = CellAt(h, s, k)
                   => Chain(ptr', owner', h, Ins(s, k, e))
      /\ \A g \in LHead : \A s : g # h /\ Chain(ptr, owner, g, s)
                               => Chain(ptr', owner', g, s)
      /\ \A d \in Cell : d # c /\ d # e => ptr'[d] = ptr[d]
  BY <1>1, InsertShifts
<1>3. h = OwnerOf[c]
  OBVIOUS
<1> HIDE DEF h
<1>4. Listed'
  <2> SUFFICES ASSUME NEW g \in LHead
               PROVE  \E t : Chain(ptr', owner', g, t)
    BY DEF Listed
  <2>1. PICK s : Chain(ptr, owner, g, s)
    BY <1>1 DEF Listed
  <2>2. CASE g = h
    <3>1. PICK k \in 0 .. Len(s) : c = CellAt(h, s, k)
      BY <1>1, <1>2, <1>3, <2>1, <2>2, PlaceOfCell
    <3> QED  BY <3>1, <1>2, <2>1, <2>2
  <2>3. CASE g # h
    BY <1>2, <2>1, <2>3
  <2> QED  BY <2>2, <2>3
<1>5. /\ loop' = loop /\ var' = var /\ must' = must /\ seen' = seen
      /\ loop # NULL => acted' /\ ~acted
  BY DEF Joins, Body
<1>6. Looping'
  <2> SUFFICES ASSUME loop' # NULL
               PROVE  \E s : \E k \in 0 .. Len(s) :
                        /\ Chain(ptr', owner', loop, s)
                        /\ ptr'[var] = Behind(s, k)
                        /\ \A x \in must \ seen : \E j \in k + 1 .. Len(s) : s[j] = x
    BY <1>5 DEF Looping
  <2>1. loop # NULL /\ ~acted /\ loop \in LHead
    BY <1>1, <1>5 DEF TypeOK
  <2>2. PICK s : \E n \in 0 .. Len(s) :
          /\ Chain(ptr, owner, loop, s)
          /\ \A x \in must \ seen : \E j \in n + 1 .. Len(s) : s[j] = x
          /\ n \in 1 .. Len(s) /\ var = s[n] /\ ptr[var] = Behind(s, n)
    BY <1>1, <2>1 DEF Looping
  <2>3. PICK n \in 0 .. Len(s) :
          /\ Chain(ptr, owner, loop, s)
          /\ \A x \in must \ seen : \E j \in n + 1 .. Len(s) : s[j] = x
          /\ n \in 1 .. Len(s) /\ var = s[n] /\ ptr[var] = Behind(s, n)
    BY <2>2
  <2>4. s \in Seq(Elem) /\ Len(s) \in Nat /\ n \in Nat /\ var \in Elem /\ owner[var] = loop
    BY <2>3 DEF Chain
  <2>5. CASE loop # h
    <3>1. var # c /\ var # e /\ var \in Cell
      BY <1>2, <1>3, <2>1, <2>4, <2>5, ListAssumption DEF Cell, OwnerOf
    <3> QED  BY <1>2, <2>1, <2>3, <2>5, <3>1
  <2>6. CASE loop = h
    <3>1. PICK k \in 0 .. Len(s) : c = CellAt(h, s, k)
      BY <1>1, <1>2, <1>3, <2>3, <2>6, PlaceOfCell
    <3> DEFINE t == Ins(s, k, e)
               up(j) == IF j <= k THEN j ELSE j + 1
    <3>2. Chain(ptr', owner', loop, t)
      BY <1>2, <2>3, <2>6, <3>1
    <3>3. t \in Seq(Elem) /\ Len(t) = Len(s) + 1 /\ \A j \in 1 .. Len(s) : t[up(j)] = s[j]
      <4>1. /\ t \in Seq(Elem) /\ Len(t) = Len(s) + 1
            /\ \A j \in 1 .. Len(s) + 1 :
                 t[j] = IF j <= k THEN s[j] ELSE IF j = k + 1 THEN e ELSE s[j - 1]
        BY <2>4, InsIs
      <4> HIDE DEF t
      <4>2. ASSUME NEW j \in 1 .. Len(s) PROVE t[up(j)] = s[j]
        <5>1. CASE j <= k
          BY <2>4, <4>1, <5>1
        <5>2. CASE ~(j <= k)
          <6>1. /\ up(j) = j + 1 /\ j + 1 \in 1 .. Len(s) + 1
                /\ ~(j + 1 <= k) /\ j + 1 # k + 1 /\ j + 1 - 1 = j
            BY <2>4, <5>2
          <6> QED  BY <4>1, <6>1
        <5> QED  BY <5>1, <5>2
      <4> QED  BY <4>1, <4>2
    <3> HIDE DEF t
    <3>4. up(n) \in 0 .. Len(t) /\ up(n) # 0
      BY <2>3, <2>4, <3>3
    <3>5. ptr'[var] = Behind(t, up(n))
      <4>1. CellAt(loop, t, up(n)) = var
        BY <2>3, <3>3, <3>4 DEF CellAt
      <4> HIDE DEF up
      <4> QED  BY <3>2, <3>4, <4>1 DEF Chain
    <3>6. ASSUME NEW x \in must \ seen PROVE \E j \in up(n) + 1 .. Len(t) : t[j] = x
      <4>1. PICK j \in n + 1 .. Len(s) : s[j] = x
        BY <2>3
      <4>2. j \in 1 .. Len(s) /\ up(j) \in up(n) + 1 .. Len(t)
        BY <2>3, <2>4, <3>3
      <4> QED  BY <3>3, <4>1, <4>2
    <3> HIDE DEF up
    <3> QED  BY <3>2, <3>4, <3>5, <3>6
  <2> QED  BY <2>5, <2>6
<1> QED  BY <1>4, <1>6

\* The same for the assignments of the macros.
LEMMA InsertAt ==
  ASSUME SInv, NEW e \in Elem, NEW c \in Cell, OwnerOf[c] # NULL,
         Joins(e, OwnerOf[c]), ptr' = [ptr EXCEPT ![e] = ptr[c], ![c] = e]
  PROVE  Listed' /\ Looping'
<1>1. c # e
  BY ListAssumption DEF Joins, OwnerOf, Cell
<1>2. \A d \in Cell : ptr'[d] = IF d = c THEN e ELSE IF d = e THEN ptr[c] ELSE ptr[d]
  BY <1>1 DEF SInv, IInv, TypeOK, Cell
<1> QED  BY <1>2, InsertKeeps

\* What a removal does to the list the element was on, and to the others.
LEMMA RemoveShifts ==
  ASSUME IInv, NEW e \in Elem, LIST_REMOVE(e)
  PROVE  /\ owner[e] \in LHead
         /\ \A s, k : Chain(ptr, owner, owner[e], s) /\ k \in 1 .. Len(s) /\ e = s[k]
                        => /\ Chain(ptr', owner', owner[e], Del(s, k))
                           /\ le_prev[e] = CellAt(owner[e], s, k - 1) /\ le_prev[e] # e
         /\ \A g \in LHead : \A s : g # owner[e] /\ Chain(ptr, owner, g, s)
                                  => Chain(ptr', owner', g, s)
         /\ \A d \in Cell : ptr'[d] = IF d = le_prev[e] THEN ptr[e] ELSE ptr[d]
<1> USE ListAssumption
<1>1. /\ TypeOK /\ LinksAgree
      /\ ptr \in [Cell -> Elem \cup {NULL}] /\ owner \in [Elem -> LHead \cup {NULL}]
  BY DEF IInv, TypeOK
<1> DEFINE h == owner[e]
           c == le_prev[e]
<1>2. h \in LHead
  BY <1>1 DEF LIST_REMOVE, Leaves
<1>3. c \in Cell /\ OwnerOf[c] = h /\ ptr[c] = e
  BY <1>1, <1>2 DEF LinksAgree
<1>4. \A x \in Elem : owner'[x] = IF x = e THEN NULL ELSE owner[x]
  BY <1>1 DEF LIST_REMOVE, Leaves
<1>5. \A d \in Cell : ptr'[d] = IF d = c THEN ptr[e] ELSE ptr[d]
  BY <1>1, <1>3 DEF LIST_REMOVE, LIST_NEXT
<1>6. \A d \in Cell : OwnerOf[d] = h /\ ptr[d] = e => d = c
  BY <1>1, <1>2 DEF LinksAgree
<1> HIDE DEF c
<1>7. ASSUME NEW s, NEW k, Chain(ptr, owner, h, s), k \in 1 .. Len(s), e = s[k]
      PROVE  Chain(ptr', owner', h, Del(s, k)) /\ c = CellAt(h, s, k - 1) /\ c # e
  <2>1. s \in Seq(Elem) /\ Len(s) \in Nat /\ k - 1 \in 0 .. Len(s) /\ k - 1 < Len(s)
        /\ k - 1 + 1 = k
    BY <1>7 DEF Chain
  <2>2. CellAt(h, s, k - 1) \in Cell
    BY <1>2, <1>7, <2>1, CellIs
  <2>3. ptr[CellAt(h, s, k - 1)] = e
    BY <1>7, <2>1 DEF Chain, Behind
  <2>4. OwnerOf[CellAt(h, s, k - 1)] = h
    <3>1. CASE k = 1
      <4>1. CellAt(h, s, k - 1) = h
        BY <3>1 DEF CellAt
      <4> QED  BY <4>1, <1>2, <2>2 DEF OwnerOf
    <3>2. CASE k # 1
      <4>1. CellAt(h, s, k - 1) = s[k - 1] /\ k - 1 \in 1 .. Len(s)
        BY <3>2, <1>7, <2>1 DEF CellAt
      <4>2. s[k - 1] \in Elem /\ owner[s[k - 1]] = h
        BY <4>1, <1>7, <2>1 DEF Chain
      <4> QED  BY <4>1, <4>2, <2>2 DEF OwnerOf
    <3> QED  BY <3>1, <3>2
  <2>5. c = CellAt(h, s, k - 1)
    BY <1>6, <2>2, <2>3, <2>4
  <2>6. CellAt(h, s, k) = e /\ k \in 0 .. Len(s) /\ k # k - 1
    BY <1>7, <2>1 DEF CellAt
  <2>7. c # e
    BY <1>2, <1>7, <2>1, <2>5, <2>6, CellIs
  <2> HIDE DEF h
  <2>8. Chain(ptr', owner', h, Del(s, k))
    BY <1>1, <1>2, <1>4, <1>5, <1>7, <2>5, DeletesFromChain
  <2> QED  BY <2>5, <2>7, <2>8
<1>8. ASSUME NEW g \in LHead, NEW s, g # h, Chain(ptr, owner, g, s)
      PROVE  Chain(ptr', owner', g, s)
  <2>1. g # c /\ g \in Cell /\ g # NULL
    BY <1>3, <1>8 DEF OwnerOf, Cell
  <2>2. ptr'[g] = ptr[g]
    BY <2>1, <1>5
  <2>3. ASSUME NEW x \in Elem
        PROVE  (owner'[x] = g <=> owner[x] = g) /\ (owner[x] = g => ptr'[x] = ptr[x])
    <3>1. owner[x] = g => x # c /\ x # e
      BY <1>3, <1>8 DEF OwnerOf, Cell
    <3>2. x \in Cell
      BY DEF Cell
    <3> QED  BY <3>1, <3>2, <1>4, <1>5, <1>8, <2>1
  <2> QED  BY <1>8, <2>2, <2>3, OthersKeep
<1> QED  BY <1>2, <1>5, <1>7, <1>8 DEF c

\* So a removal keeps every list a list and the loop at its place: when it
\* removes the element of the turn, the place is behind the one before it.
LEMMA RemoveKeeps ==
  ASSUME SInv, NEW e \in Elem, LIST_REMOVE(e)
  PROVE  Listed' /\ Looping'
<1> DEFINE h == owner[e]
<1>1. IInv /\ Listed /\ Looping /\ TypeOK
  BY DEF SInv, IInv
<1>2. /\ h \in LHead
      /\ \A s, k : Chain(ptr, owner, h, s) /\ k \in 1 .. Len(s) /\ e = s[k]
                     => /\ Chain(ptr', owner', h, Del(s, k))
                        /\ le_prev[e] = CellAt(h, s, k - 1) /\ le_prev[e] # e
      /\ \A g \in LHead : \A s : g # h /\ Chain(ptr, owner, g, s)
                               => Chain(ptr', owner', g, s)
      /\ \A d \in Cell : ptr'[d] = IF d = le_prev[e] THEN ptr[e] ELSE ptr[d]
  BY <1>1, RemoveShifts
<1>3. h = owner[e]
  OBVIOUS
<1> HIDE DEF h
<1>4. ASSUME NEW s, Chain(ptr, owner, h, s)
      PROVE  \E k \in 1 .. Len(s) : e = s[k]
  BY <1>3, <1>4 DEF Chain
<1>5. Listed'
  <2> SUFFICES ASSUME NEW g \in LHead
               PROVE  \E t : Chain(ptr', owner', g, t)
    BY DEF Listed
  <2>1. PICK s : Chain(ptr, owner, g, s)
    BY <1>1 DEF Listed
  <2>2. CASE g = h
    <3>1. PICK k \in 1 .. Len(s) : e = s[k]
      BY <1>4, <2>1, <2>2
    <3> QED  BY <3>1, <1>2, <2>1, <2>2
  <2>3. CASE g # h
    BY <1>2, <2>1, <2>3
  <2> QED  BY <2>2, <2>3
<1>6. /\ loop' = loop /\ var' = var /\ must' = must \ {e} /\ seen' = seen
      /\ loop # NULL => acted' /\ ~acted
  BY DEF LIST_REMOVE, Leaves, Body
<1>7. Looping'
  <2> SUFFICES ASSUME loop' # NULL
               PROVE  \E s : \E k \in 0 .. Len(s) :
                        /\ Chain(ptr', owner', loop, s)
                        /\ ptr'[var] = Behind(s, k)
                        /\ \A x \in must' \ seen : \E j \in k + 1 .. Len(s) : s[j] = x
    BY <1>6 DEF Looping
  <2>1. loop # NULL /\ ~acted /\ loop \in LHead
    BY <1>1, <1>6 DEF TypeOK
  <2>2. PICK s : \E n \in 0 .. Len(s) :
          /\ Chain(ptr, owner, loop, s)
          /\ \A x \in must \ seen : \E j \in n + 1 .. Len(s) : s[j] = x
          /\ n \in 1 .. Len(s) /\ var = s[n] /\ ptr[var] = Behind(s, n)
    BY <1>1, <2>1 DEF Looping
  <2>3. PICK n \in 0 .. Len(s) :
          /\ Chain(ptr, owner, loop, s)
          /\ \A x \in must \ seen : \E j \in n + 1 .. Len(s) : s[j] = x
          /\ n \in 1 .. Len(s) /\ var = s[n] /\ ptr[var] = Behind(s, n)
    BY <2>2
  <2>4. /\ s \in Seq(Elem) /\ Len(s) \in Nat /\ n \in Nat
        /\ var \in Elem /\ var \in Cell /\ owner[var] = loop
    BY <2>3 DEF Chain, Cell
  <2>5. CASE loop # h
    <3>1. var # le_prev[e]
      <4>1. OwnerOf[le_prev[e]] = h
        BY <1>1, <1>2, <1>3, ListAssumption DEF IInv, LinksAgree
      <4> QED  BY <4>1, <2>4, <2>5, ListAssumption DEF OwnerOf, Cell
    <3>2. ptr'[var] = ptr[var]
      BY <3>1, <1>2, <2>4
    <3>3. \A x \in must' \ seen : x \in must \ seen
      BY <1>6
    <3> QED  BY <3>2, <3>3, <1>2, <2>1, <2>3, <2>5
  <2>6. CASE loop = h
    <3>1. PICK k \in 1 .. Len(s) : e = s[k]
      BY <1>4, <2>3, <2>6
    <3> DEFINE t == Del(s, k)
               m == IF n < k THEN n ELSE n - 1
    <3>2. /\ Chain(ptr', owner', loop, t) /\ le_prev[e] = CellAt(loop, s, k - 1)
          /\ le_prev[e] # e
      BY <1>2, <2>3, <2>6, <3>1
    <3>3. /\ t \in Seq(Elem) /\ Len(t) = Len(s) - 1
          /\ \A j \in 1 .. Len(s) - 1 : t[j] = IF j < k THEN s[j] ELSE s[j + 1]
      BY <2>4, DelIs
    <3> HIDE DEF t
    <3>4. m \in 0 .. Len(t)
      BY <2>3, <2>4, <3>3
    <3>5. ptr'[var] = Behind(t, m)
      <4>1. \A j \in 0 .. Len(t) : ptr'[CellAt(loop, t, j)] = Behind(t, j)
        BY <3>2 DEF Chain
      <4>2. CASE n < k
        <5>1. m = n /\ n # 0 /\ n \in 1 .. Len(s) - 1
          BY <2>3, <2>4, <4>2
        <5>2. CellAt(loop, t, m) = var
          BY <5>1, <4>2, <2>3, <3>3 DEF CellAt
        <5> QED  BY <5>2, <4>1, <3>4
      <4>3. CASE n = k
        <5>1. m = k - 1 /\ ~(n < k)
          BY <2>4, <4>3
        <5>2. CellAt(loop, t, m) = le_prev[e]
          <6>1. CASE k = 1
            BY <6>1, <5>1, <3>2 DEF CellAt
          <6>2. CASE k # 1
            <7>1. k - 1 # 0 /\ k - 1 \in 1 .. Len(s) - 1 /\ k - 1 < k
              BY <2>4, <6>2
            <7> QED  BY <7>1, <5>1, <3>2, <3>3 DEF CellAt
          <6> QED  BY <6>1, <6>2
        <5>3. le_prev[e] \in Cell
          <6>1. k - 1 \in 0 .. Len(s)
            BY <2>4
          <6> QED  BY <6>1, <2>1, <2>3, <3>2, CellIs
        <5>4. ptr'[le_prev[e]] = ptr[e] /\ ptr'[e] = ptr[e] /\ var = e
          BY <5>3, <1>2, <2>3, <2>4, <3>1, <3>2, <4>3
        <5> HIDE DEF m
        <5> QED  BY <5>2, <5>4, <4>1, <3>4
      <4>4. CASE n > k
        <5>1. m = n - 1 /\ m # 0 /\ m \in 1 .. Len(s) - 1 /\ ~(m < k) /\ m + 1 = n
          BY <2>3, <2>4, <4>4
        <5> HIDE DEF m
        <5>2. CellAt(loop, t, m) = var
          BY <5>1, <2>3, <3>3 DEF CellAt
        <5> QED  BY <5>2, <4>1, <3>4
      <4>5. n < k \/ n = k \/ n > k
        BY <2>4
      <4> QED  BY <4>2, <4>3, <4>4, <4>5
    <3>6. ASSUME NEW x \in must' \ seen PROVE \E j \in m + 1 .. Len(t) : t[j] = x
      <4>1. x \in must \ seen /\ x # e
        BY <1>6
      <4>2. PICK j \in n + 1 .. Len(s) : s[j] = x
        BY <2>3, <4>1
      <4>3. j # k /\ j \in 1 .. Len(s)
        BY <2>4, <3>1, <4>1, <4>2
      <4>4. CASE j < k
        <5>1. j \in m + 1 .. Len(t) /\ j \in 1 .. Len(s) - 1
          BY <2>3, <2>4, <3>3, <4>3, <4>4
        <5> QED  BY <5>1, <3>3, <4>2, <4>4
      <4>5. CASE j > k
        <5>1. j - 1 \in m + 1 .. Len(t) /\ j - 1 \in 1 .. Len(s) - 1 /\ ~(j - 1 < k)
              /\ j - 1 + 1 = j
          BY <2>3, <2>4, <3>3, <4>3, <4>5
        <5> QED  BY <5>1, <3>3, <4>2
      <4>6. j < k \/ j > k
        BY <4>3
      <4> QED  BY <4>4, <4>5, <4>6
    <3> HIDE DEF m
    <3> QED  BY <3>2, <3>4, <3>5, <3>6
  <2> QED  BY <2>5, <2>6
<1> QED  BY <1>5, <1>7

\* Resetting a list empties it; there is no loop to be disturbed.
LEMMA ResetEmpties ==
  ASSUME IInv, NEW h \in LHead, LIST_INIT(h)
  PROVE  /\ Chain(ptr', owner', h, << >>)
         /\ \A g \in LHead : \A s : g # h /\ Chain(ptr, owner, g, s)
                                  => Chain(ptr', owner', g, s)
<1> USE ListAssumption
<1>1. TypeOK
  BY DEF IInv
<1>2. /\ \A x \in Elem : owner'[x] = IF owner[x] = h THEN NULL ELSE owner[x]
      /\ \A d \in Cell : ptr'[d] = IF d = h THEN NULL ELSE ptr[d]
  BY <1>1 DEF TypeOK, LIST_INIT
<1>3. h \in Cell /\ h # NULL
  BY DEF Cell
<1>4. ptr'[h] = NULL /\ \A x \in Elem : owner'[x] # h
  BY <1>2, <1>3
<1>5. ASSUME NEW g \in LHead, NEW s, g # h, Chain(ptr, owner, g, s)
      PROVE  Chain(ptr', owner', g, s)
  <2>1. g \in Cell /\ g # NULL /\ ptr'[g] = ptr[g]
    BY <1>2, <1>5 DEF Cell
  <2>2. ASSUME NEW x \in Elem
        PROVE  (owner'[x] = g <=> owner[x] = g) /\ (owner[x] = g => ptr'[x] = ptr[x])
    <3>1. x # h /\ x \in Cell
      BY DEF Cell
    <3> QED  BY <3>1, <1>2, <1>5, <2>1
  <2> QED  BY <1>5, <2>1, <2>2, OthersKeep
<1> QED  BY <1>4, <1>5, EmptyChain

\* So a reset keeps every list a list.
LEMMA ResetKeeps ==
  ASSUME SInv, NEW h \in LHead, LIST_INIT(h)
  PROVE  Listed' /\ Looping'
<1>1. IInv /\ Listed
  BY DEF SInv
<1>2. /\ Chain(ptr', owner', h, << >>)
      /\ \A g \in LHead : \A s : g # h /\ Chain(ptr, owner, g, s)
                               => Chain(ptr', owner', g, s)
  BY <1>1, ResetEmpties
<1>3. Listed'
  BY <1>1, <1>2 DEF Listed
<1>4. Looping'
  BY DEF Looping, LIST_INIT, foreach
<1> QED  BY <1>3, <1>4

\* A turn of a loop goes one element further on an unchanged list.
LEMMA LoopKeeps ==
  ASSUME SInv, (\E h \in LHead : foreach_start(h)) \/ foreach_next \/ foreach_end
  PROVE  Listed' /\ Looping'
<1> USE ListAssumption
<1>1. IInv /\ Listed /\ Looping /\ TypeOK
  BY DEF SInv, IInv
<1>2. ptr' = ptr /\ owner' = owner
  BY DEF foreach_start, foreach_next, foreach_end, links
<1>3. Listed'
  BY <1>1, <1>2 DEF Listed
<1>4. ASSUME NEW h \in LHead, foreach_start(h)
      PROVE  Looping'
  <2>1. PICK s : Chain(ptr, owner, h, s)
    BY <1>1 DEF Listed
  <2>2. s \in Seq(Elem) /\ Len(s) \in Nat /\ ptr[h] = Behind(s, 0) /\ ptr[h] # NULL
    BY <2>1, <1>4 DEF Chain, CellAt, foreach_start, LIST_EMPTY
  <2>3. Len(s) >= 1 /\ 1 \in 1 .. Len(s) /\ 1 \in 0 .. Len(s) /\ ptr[h] = s[1]
    BY <2>2 DEF Behind
  <2>4. loop' = h /\ var' = s[1] /\ seen' = {s[1]} /\ must' = {e \in Elem : owner[e] = h}
    BY <2>3, <1>4 DEF foreach_start, LIST_FIRST
  <2>5. ptr[s[1]] = Behind(s, 1)
    BY <2>1, <2>3 DEF Chain, CellAt
  <2>6. ASSUME NEW x \in must' \ seen' PROVE \E j \in 1 + 1 .. Len(s) : s[j] = x
    <3>1. PICK j \in 1 .. Len(s) : s[j] = x
      BY <2>1, <2>4 DEF Chain
    <3>2. j # 1
      BY <2>4, <3>1
    <3> QED  BY <2>2, <3>1, <3>2
  <2> QED  BY <1>2, <2>1, <2>3, <2>4, <2>5, <2>6 DEF Looping
<1>5. ASSUME foreach_next PROVE Looping'
  <2>1. loop # NULL /\ loop \in LHead /\ ptr[var] # NULL
    BY <1>1, <1>5 DEF foreach_next, LIST_NEXT, TypeOK
  <2>2. PICK s : \E n \in 0 .. Len(s) :
          /\ Chain(ptr, owner, loop, s) /\ ptr[var] = Behind(s, n)
          /\ \A x \in must \ seen : \E j \in n + 1 .. Len(s) : s[j] = x
    BY <1>1, <2>1 DEF Looping
  <2>3. PICK n \in 0 .. Len(s) :
          /\ Chain(ptr, owner, loop, s) /\ ptr[var] = Behind(s, n)
          /\ \A x \in must \ seen : \E j \in n + 1 .. Len(s) : s[j] = x
    BY <2>2
  <2>4. s \in Seq(Elem) /\ Len(s) \in Nat /\ n \in Nat
    BY <2>3 DEF Chain
  <2>5. n < Len(s) /\ ptr[var] = s[n + 1]
    BY <2>1, <2>3 DEF Behind
  <2>6. n + 1 \in 1 .. Len(s) /\ n + 1 \in 0 .. Len(s) /\ n + 1 # 0
    BY <2>4, <2>5
  <2>7. /\ loop' = loop /\ var' = s[n + 1] /\ must' = must
        /\ seen' = seen \cup {s[n + 1]}
    BY <2>5, <1>5 DEF foreach_next, LIST_NEXT
  <2>8. ptr[s[n + 1]] = Behind(s, n + 1)
    BY <2>3, <2>6 DEF Chain, CellAt
  <2>9. ASSUME NEW x \in must' \ seen' PROVE \E j \in n + 1 + 1 .. Len(s) : s[j] = x
    <3>1. x \in must \ seen /\ x # s[n + 1]
      BY <2>7
    <3>2. PICK j \in n + 1 .. Len(s) : s[j] = x
      BY <2>3, <3>1
    <3>3. j # n + 1
      BY <3>1, <3>2
    <3> QED  BY <2>4, <3>2, <3>3
  <2> QED  BY <1>2, <2>3, <2>6, <2>7, <2>8, <2>9 DEF Looping
<1>6. ASSUME foreach_end PROVE Looping'
  BY <1>6 DEF foreach_end, Looping
<1> QED  BY <1>3, <1>4, <1>5, <1>6

\* Every step preserves the invariant, so it holds in every state.
LEMMA SInvNext ==
  ASSUME SInv, [Next]_vars
  PROVE  SInv'
<1>1. IInv /\ IInv'
  BY InvNext DEF SInv
<1>2. ASSUME NEW e \in Elem, NEW f \in Elem, LIST_INSERT_AFTER(f, e)
      PROVE  Listed' /\ Looping'
  <2>1. f \in Cell /\ OwnerOf[f] = owner[f] /\ owner[f] # NULL
    BY <1>2, ListAssumption DEF Cell, OwnerOf, LIST_INSERT_AFTER
  <2> QED  BY <1>2, <2>1, InsertAt DEF LIST_INSERT_AFTER, LIST_NEXT
<1>3. ASSUME NEW h \in LHead, NEW e \in Elem, LIST_INSERT_HEAD(h, e)
      PROVE  Listed' /\ Looping'
  <2>1. h \in Cell /\ OwnerOf[h] = h /\ h # NULL
    BY ListAssumption DEF Cell, OwnerOf
  <2> QED  BY <1>3, <2>1, InsertAt DEF LIST_INSERT_HEAD, LIST_FIRST
<1>4. ASSUME NEW e \in Elem, NEW f \in Elem, LIST_INSERT_BEFORE(f, e)
      PROVE  Listed' /\ Looping'
  BY <1>1, <1>4, BeforeIsAtCell, InsertAt
<1>5. ASSUME UNCHANGED vars PROVE Listed' /\ Looping'
  BY <1>5 DEF vars, links, foreach, SInv, Listed, Looping
<1>6. Listed' /\ Looping'
  BY <1>2, <1>3, <1>4, <1>5, RemoveKeeps, ResetKeeps, LoopKeeps DEF Next
<1> QED  BY <1>1, <1>6 DEF SInv

LEMMA SInvHolds == Spec => []SInv
<1>1. Init => SInv
  <2> SUFFICES ASSUME Init PROVE SInv
    OBVIOUS
  <2>1. IInv
    BY InvInit
  <2>2. ASSUME NEW h \in LHead PROVE Chain(ptr, owner, h, << >>)
    <3>1. ptr[h] = NULL /\ \A e \in Elem : owner[e] # h
      BY ListAssumption DEF Init, Cell
    <3> QED  BY <3>1, EmptyChain
  <2>3. Listed
    BY <2>2 DEF Listed
  <2>4. Looping
    BY DEF Init, Looping
  <2> QED  BY <2>1, <2>3, <2>4 DEF SInv
<1>2. SInv /\ [Next]_vars => SInv'
  BY SInvNext
<1> QED  BY <1>1, <1>2, PTL DEF Spec

\* A loop over a list meets every element that stays on the list, although
\* in each turn its body may insert or remove one element, the one it is at
\* included, and every turn starts at an element of the list.
THEOREM LoopsMissNothing == Spec => []LoopMeetsAll
<1>1. SInv => LoopMeetsAll
  <2> SUFFICES ASSUME SInv, loop # NULL
               PROVE  /\ ~acted => owner[var] = loop
                      /\ \A e \in must \ seen : \E k \in DOMAIN From(var) : From(var)[k] = e
    BY DEF LoopMeetsAll, LoopOnList
  <2>1. TypeOK /\ Looping /\ loop \in LHead /\ var \in Elem
    BY DEF SInv, IInv, TypeOK, LoopInv
  <2>2. PICK s : \E n \in 0 .. Len(s) :
          /\ Chain(ptr, owner, loop, s) /\ ptr[var] = Behind(s, n)
          /\ \A x \in must \ seen : \E j \in n + 1 .. Len(s) : s[j] = x
          /\ ~acted => n \in 1 .. Len(s) /\ var = s[n]
    BY <2>1 DEF Looping
  <2>3. PICK n \in 0 .. Len(s) :
          /\ Chain(ptr, owner, loop, s) /\ ptr[var] = Behind(s, n)
          /\ \A x \in must \ seen : \E j \in n + 1 .. Len(s) : s[j] = x
          /\ ~acted => n \in 1 .. Len(s) /\ var = s[n]
    BY <2>2
  <2>4. s \in Seq(Elem) /\ Len(s) \in Nat /\ n \in Nat /\ n + 1 \in 1 .. Len(s) + 1
        /\ Len(s) \in 0 .. Len(s) /\ n + 1 <= Len(s) + 1 /\ n + 1 - 1 = n
    BY <2>3 DEF Chain
  <2>5. ~acted => owner[var] = loop
    BY <2>3 DEF Chain
  <2>6. From(var) = SubSeq(s, n + 1, Len(s))
    <3>1. ptr \in [Cell -> Elem \cup {NULL}] /\ var \in Cell
      BY <2>1 DEF TypeOK, Cell
    <3> QED  BY <2>1, <2>3, <3>1, FollowRest, ZenonT(60) DEF From
  <2>7. /\ SubSeq(s, n + 1, Len(s)) \in Seq(Elem)
        /\ Len(SubSeq(s, n + 1, Len(s))) = Len(s) + 1 - (n + 1)
        /\ \A j \in 1 .. Len(s) + 1 - (n + 1) :
             SubSeq(s, n + 1, Len(s))[j] = s[j + (n + 1 - 1)]
    BY <2>4, PartIs
  <2> DEFINE rest == SubSeq(s, n + 1, Len(s))
  <2>8. From(var) = rest /\ DOMAIN rest = 1 .. Len(s) - n
        /\ \A j \in 1 .. Len(s) - n : rest[j] = s[j + n]
    BY <2>4, <2>6, <2>7
  <2> HIDE DEF rest
  <2>9. ASSUME NEW x \in must \ seen PROVE \E k \in DOMAIN From(var) : From(var)[k] = x
    <3>1. PICK j \in n + 1 .. Len(s) : s[j] = x
      BY <2>3
    <3>2. j - n \in 1 .. Len(s) - n /\ j - n + n = j
      BY <2>4
    <3> QED  BY <3>1, <3>2, <2>8
  <2> QED  BY <2>5, <2>9
<1> QED  BY <1>1, SInvHolds, PTL
-----------------------------------------------------------------------------
(* The pointers implement sequences.                                       *)

\* What is read from the heads is their sequences, before and after a step.
LEMMA ReadsLists ==
  ASSUME SInv
  PROVE  \A h \in LHead : Chain(ptr, owner, h, From(h))
<1> TAKE h \in LHead
<1>1. ptr \in [Cell -> Elem \cup {NULL}]
  BY DEF SInv, IInv, TypeOK
<1>2. PICK s : Chain(ptr, owner, h, s)
  BY DEF SInv, Listed
<1>3. From(h) = s
  BY <1>1, <1>2, FollowHead DEF From
<1> QED  BY <1>2, <1>3

\* The same for the next state.
LEMMA ReadsNext ==
  ASSUME TypeOK', NEW h \in LHead, NEW s, Chain(ptr', owner', h, s)
  PROVE  Follow(ptr', h) = s
<1>1. ptr' \in [Cell -> Elem \cup {NULL}]
  BY DEF TypeOK
<1> QED  BY <1>1, FollowHead

\* The list changes of ListSeq are those of the pointers.
LEMMA SameChanges ==
  ASSUME NEW s, NEW k \in Nat, NEW e
  PROVE  /\ Lists!InsertAt(s, k + 1, e) = Ins(s, k, e)
         /\ Lists!RemoveAt(s, k) = Del(s, k)
<1>1. k + 1 - 1 = k
  OBVIOUS
<1>2. Lists!InsertAt(s, k + 1, e) = Ins(s, k, e)
  <2>1. \A m : m = k + 1 /\ m - 1 = k => Lists!InsertAt(s, m, e) = Ins(s, k, e)
    BY Zenon DEF Lists!InsertAt, Ins
  <2> QED  BY <1>1, <2>1
<1>3. Lists!RemoveAt(s, k) = Del(s, k)
  BY Zenon DEF Lists!RemoveAt, Del
<1> QED  BY <1>2, <1>3

\* An element is in one place.
LEMMA PlaceIs ==
  ASSUME NEW h \in LHead, Chain(ptr, owner, h, From(h)),
         NEW k \in 1 .. Len(From(h)), NEW e, From(h)[k] = e
  PROVE  Lists!Place(h, e) = k /\ e \in Lists!ToSet(From(h))
<1>1. /\ From(h) \in Seq(Elem) /\ Len(From(h)) \in Nat
      /\ \A i, j \in 1 .. Len(From(h)) : From(h)[i] = From(h)[j] => i = j
  BY DEF Chain
<1> DEFINE P == CHOOSE j \in DOMAIN From(h) : From(h)[j] = e
<1>2. Lists!Place(h, e) = P
  BY DEF Lists!Place
<1>3. P \in 1 .. Len(From(h)) /\ From(h)[P] = e
  BY <1>1
<1> HIDE DEF P
<1>4. P = k
  BY <1>1, <1>3
<1>5. e \in Lists!ToSet(From(h))
  BY <1>1 DEF Lists!ToSet
<1> QED  BY <1>2, <1>4, <1>5

\* An insertion at the cell behind k elements is an insertion at place k + 1.
LEMMA InsertMaps ==
  ASSUME SInv, TypeOK', NEW e \in Elem, NEW c \in Cell, NEW h, h = OwnerOf[c], h # NULL,
         Joins(e, h),
         \A d \in Cell : ptr'[d] = IF d = c THEN e ELSE IF d = e THEN ptr[c] ELSE ptr[d],
         NEW k \in 0 .. Len(From(h)), c = CellAt(h, From(h), k)
  PROVE  h \in LHead /\ Lists!Insert(h, k + 1, e)
<1>1. /\ h \in LHead /\ owner[e] = NULL
      /\ \A s, i : Chain(ptr, owner, h, s) /\ i \in 0 .. Len(s) /\ c = CellAt(h, s, i)
                     => Chain(ptr', owner', h, Ins(s, i, e))
      /\ \A g \in LHead : \A s : g # h /\ Chain(ptr, owner, g, s)
                               => Chain(ptr', owner', g, s)
  BY InsertShifts DEF SInv
<1>2. \A g \in LHead : Chain(ptr, owner, g, From(g))
  BY ReadsLists
<1>3. Follow(ptr', h) = Ins(From(h), k, e)
  <2>1. Chain(ptr', owner', h, Ins(From(h), k, e))
    BY <1>1, <1>2
  <2> QED  BY <1>1, <2>1, ReadsNext
<1>4. ASSUME NEW g \in LHead, g # h
      PROVE  Follow(ptr', g) = From(g)
  <2>1. Chain(ptr', owner', g, From(g))
    BY <1>1, <1>2, <1>4
  <2> QED  BY <2>1, ReadsNext
<1>5. Lists!Free(e)
  <2> SUFFICES ASSUME NEW g \in LHead, e \in Lists!ToSet(From(g))
               PROVE  FALSE
    BY DEF Lists!Free
  <2>1. From(g) \in Seq(Elem) /\ \A j \in 1 .. Len(From(g)) : owner[From(g)[j]] = g
    BY <1>2 DEF Chain
  <2>2. PICK j \in 1 .. Len(From(g)) : From(g)[j] = e
    BY <2>1 DEF Lists!ToSet
  <2> QED  BY <1>1, <2>1, <2>2, ListAssumption
<1>6. Lists!InsertAt(From(h), k + 1, e) = Ins(From(h), k, e)
  <2>1. Len(From(h)) \in Nat /\ k \in Nat
    BY <1>1, <1>2 DEF Chain
  <2> QED  BY <2>1, SameChanges
<1>7. [g \in LHead |-> Follow(ptr', g)]
        = [[g \in LHead |-> From(g)] EXCEPT ![h] = Lists!InsertAt(From(h), k + 1, e)]
  BY <1>1, <1>3, <1>4, <1>6
<1>8. Lists!Insert(h, k + 1, e)
  BY <1>1, <1>5, <1>7 DEF Lists!Insert, From
<1> QED  BY <1>1, <1>8

\* A removal is one of that very element.
LEMMA RemoveMaps ==
  ASSUME SInv, TypeOK', NEW e \in Elem, LIST_REMOVE(e)
  PROVE  owner[e] \in LHead /\ Lists!Unlink(owner[e], e)
<1> DEFINE h == owner[e]
<1>1. /\ h \in LHead
      /\ \A s, k : Chain(ptr, owner, h, s) /\ k \in 1 .. Len(s) /\ e = s[k]
                     => Chain(ptr', owner', h, Del(s, k))
      /\ \A g \in LHead : \A s : g # h /\ Chain(ptr, owner, g, s)
                               => Chain(ptr', owner', g, s)
  BY RemoveShifts DEF SInv
<1>2. h = owner[e]
  OBVIOUS
<1> HIDE DEF h
<1>3. \A g \in LHead : Chain(ptr, owner, g, From(g))
  BY ReadsLists
<1>4. PICK k \in 1 .. Len(From(h)) : From(h)[k] = e
  BY <1>1, <1>2, <1>3 DEF Chain
<1>5. Lists!Place(h, e) = k /\ e \in Lists!ToSet(From(h))
  BY <1>1, <1>3, <1>4, PlaceIs
<1>6. Follow(ptr', h) = Del(From(h), k)
  <2>1. Chain(ptr', owner', h, Del(From(h), k))
    BY <1>1, <1>3, <1>4
  <2> QED  BY <1>1, <2>1, ReadsNext
<1>7. ASSUME NEW g \in LHead, g # h
      PROVE  Follow(ptr', g) = From(g)
  <2>1. Chain(ptr', owner', g, From(g))
    BY <1>1, <1>3, <1>7
  <2> QED  BY <2>1, ReadsNext
<1>8. Lists!RemoveAt(From(h), k) = Del(From(h), k)
  BY SameChanges
<1>9. [g \in LHead |-> Follow(ptr', g)]
        = [[g \in LHead |-> From(g)] EXCEPT ![h] = Lists!RemoveAt(From(h), Lists!Place(h, e))]
  BY <1>1, <1>5, <1>6, <1>7, <1>8
<1>10. Lists!Unlink(h, e)
  BY <1>1, <1>5, <1>9 DEF Lists!Unlink, From
<1> QED  BY <1>1, <1>2, <1>10

\* A reset is one of that list alone.
LEMMA ResetMaps ==
  ASSUME SInv, TypeOK', NEW h \in LHead, LIST_INIT(h)
  PROVE  Lists!Reset(h)
<1>1. \A g \in LHead : Chain(ptr, owner, g, From(g))
  BY ReadsLists
<1>2. /\ Chain(ptr', owner', h, << >>)
      /\ \A g \in LHead : \A s : g # h /\ Chain(ptr, owner, g, s)
                               => Chain(ptr', owner', g, s)
  BY ResetEmpties DEF SInv
<1>3. Follow(ptr', h) = << >>
  BY <1>2, ReadsNext
<1>4. ASSUME NEW g \in LHead, g # h
      PROVE  Follow(ptr', g) = From(g)
  <2>1. Chain(ptr', owner', g, From(g))
    BY <1>1, <1>2, <1>4
  <2> QED  BY <2>1, ReadsNext
<1>5. [g \in LHead |-> Follow(ptr', g)] = [[g \in LHead |-> From(g)] EXCEPT ![h] = << >>]
  BY <1>3, <1>4
<1> QED  BY <1>5 DEF Lists!Reset, From

\* Seen through the sequences that can be read from the heads, every macro
\* is one change of one sequence: an insertion at the head or next to an
\* element, a removal of exactly that element, or a reset; and a loop is none.
THEOREM PointersImplementSequences == Spec => ImplementsSequences
<1>1. Init /\ SInv => Lists!Init
  <2> SUFFICES ASSUME Init, SInv PROVE Lists!Init
    OBVIOUS
  <2>1. ASSUME NEW h \in LHead PROVE From(h) = << >>
    <3>1. ptr \in [Cell -> Elem \cup {NULL}] /\ ptr[h] = NULL /\ \A e \in Elem : owner[e] # h
      BY ListAssumption DEF Init, Cell
    <3>2. Chain(ptr, owner, h, << >>)
      BY <3>1, EmptyChain
    <3> QED  BY <3>1, <3>2, FollowHead DEF From
  <2> QED  BY <2>1 DEF Lists!Init
<1>2. SInv /\ SInv' /\ [Next]_vars => [Lists!Next]_[h \in LHead |-> From(h)]
  <2> SUFFICES ASSUME SInv, SInv', [Next]_vars
               PROVE  Lists!Next \/ [h \in LHead |-> From(h)]' = [h \in LHead |-> From(h)]
    OBVIOUS
  <2>1. TypeOK /\ TypeOK' /\ IInv /\ LinksAgree
    BY DEF SInv, IInv
  <2>2. \A h \in LHead : Chain(ptr, owner, h, From(h))
    BY ReadsLists
  <2> DEFINE L == [h \in LHead |-> From(h)]
  <2>3. ASSUME NEW h \in LHead, NEW e \in Elem,
               \/ Lists!Unlink(h, e)
               \/ Lists!Insert(h, 1, e)
               \/ \E a \in Lists!ToSet(From(h)) :
                    Lists!Insert(h, Lists!Place(h, a), e) \/ Lists!Insert(h, Lists!Place(h, a) + 1, e)
        PROVE  Lists!Next
    BY <2>3, Zenon DEF Lists!Next
  <2>4. ASSUME NEW e \in Elem, NEW a \in Elem, LIST_INSERT_AFTER(a, e)
        PROVE  Lists!Next
    <3> DEFINE h == owner[a]
    <3>1. a \in Cell /\ h = OwnerOf[a] /\ h # NULL /\ h \in LHead /\ Joins(e, h)
      BY <2>1, <2>4, ListAssumption DEF LIST_INSERT_AFTER, Cell, OwnerOf, TypeOK
    <3>2. \A d \in Cell : ptr'[d] = IF d = a THEN e ELSE IF d = e THEN ptr[a] ELSE ptr[d]
      BY <2>1, <2>4, ListAssumption DEF LIST_INSERT_AFTER, LIST_NEXT, Joins, TypeOK, Cell
    <3>3. From(h) \in Seq(Elem) /\ Len(From(h)) \in Nat /\ h = owner[a]
      BY <2>2, <3>1 DEF Chain
    <3> HIDE DEF h
    <3>4. PICK k \in 1 .. Len(From(h)) : From(h)[k] = a
      BY <2>2, <3>1, <3>3 DEF Chain
    <3>5. k \in 0 .. Len(From(h)) /\ CellAt(h, From(h), k) = a
      BY <3>3, <3>4 DEF CellAt
    <3>6. Lists!Insert(h, k + 1, e)
      BY <2>1, <3>1, <3>2, <3>5, InsertMaps
    <3>7. Lists!Place(h, a) = k /\ a \in Lists!ToSet(From(h))
      BY <2>2, <3>1, <3>4, PlaceIs
    <3> QED  BY <2>3, <3>1, <3>6, <3>7
  <2>5. ASSUME NEW e \in Elem, NEW b \in Elem, LIST_INSERT_BEFORE(b, e)
        PROVE  Lists!Next
    <3> DEFINE h == owner[b]
               c == le_prev[b]
    <3>1. /\ c \in Cell /\ h = OwnerOf[c] /\ h # NULL /\ h \in LHead /\ Joins(e, h)
          /\ ptr[c] = b
      BY <2>1, <2>5, BeforeIsAtCell DEF TypeOK
    <3>2. \A d \in Cell : ptr'[d] = IF d = c THEN e ELSE IF d = e THEN ptr[c] ELSE ptr[d]
      <4>1. c # e
        BY <3>1, ListAssumption DEF Joins, OwnerOf, Cell
      <4> QED  BY <2>1, <2>5, <3>1, <4>1, BeforeIsAtCell DEF TypeOK, Cell
    <3>3. From(h) \in Seq(Elem) /\ Len(From(h)) \in Nat
      BY <2>2, <3>1 DEF Chain
    <3> HIDE DEF h, c
    <3>4. PICK k \in 0 .. Len(From(h)) : c = CellAt(h, From(h), k)
      BY <2>1, <2>2, <3>1, PlaceOfCell
    <3>5. ptr[c] = Behind(From(h), k)
      BY <2>2, <3>1, <3>4 DEF Chain
    <3>6. k + 1 \in 1 .. Len(From(h)) /\ From(h)[k + 1] = b
      BY <3>1, <3>3, <3>5, ListAssumption DEF Behind
    <3>7. Lists!Insert(h, k + 1, e)
      BY <2>1, <3>1, <3>2, <3>4, InsertMaps
    <3>8. Lists!Place(h, b) = k + 1 /\ b \in Lists!ToSet(From(h))
      BY <2>2, <3>1, <3>6, PlaceIs
    <3> QED  BY <2>3, <3>1, <3>7, <3>8
  <2>6. ASSUME NEW h \in LHead, NEW e \in Elem, LIST_INSERT_HEAD(h, e)
        PROVE  Lists!Next
    <3>1. h \in Cell /\ h = OwnerOf[h] /\ h # NULL /\ Joins(e, h)
      BY <2>6, ListAssumption DEF LIST_INSERT_HEAD, Cell, OwnerOf
    <3>2. \A d \in Cell : ptr'[d] = IF d = h THEN e ELSE IF d = e THEN ptr[h] ELSE ptr[d]
      BY <2>1, <2>6, ListAssumption DEF LIST_INSERT_HEAD, LIST_FIRST, TypeOK, Cell
    <3>3. 0 \in 0 .. Len(From(h)) /\ h = CellAt(h, From(h), 0)
      <4>1. Len(From(h)) \in Nat
        BY <2>2 DEF Chain
      <4> QED  BY <4>1 DEF CellAt
    <3>4. Lists!Insert(h, 0 + 1, e)
      BY <2>1, <3>1, <3>2, <3>3, InsertMaps
    <3>5. Lists!Insert(h, 1, e)
      BY <3>4
    <3> QED  BY <2>3, <3>5
  <2>7. ASSUME NEW e \in Elem, LIST_REMOVE(e)
        PROVE  Lists!Next
    BY <2>1, <2>3, <2>7, RemoveMaps
  <2>8. ASSUME NEW h \in LHead, LIST_INIT(h)
        PROVE  Lists!Next
    BY <2>1, <2>8, ResetMaps DEF Lists!Next
  <2>9. ASSUME UNCHANGED ptr
        PROVE  [h \in LHead |-> From(h)]' = [h \in LHead |-> From(h)]
    BY <2>9 DEF From
  <2>10. ASSUME foreach_next \/ foreach_end \/ (\E h \in LHead : foreach_start(h)) \/ UNCHANGED vars
         PROVE  UNCHANGED ptr
    BY <2>10 DEF foreach_start, foreach_next, foreach_end, links, vars
  <2> QED  BY <2>4, <2>5, <2>6, <2>7, <2>8, <2>9, <2>10 DEF Next
<1> QED  BY <1>1, <1>2, SInvHolds, PTL DEF Spec, ImplementsSequences, Lists!Spec
=============================================================================
