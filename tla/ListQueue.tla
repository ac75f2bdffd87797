------------------------------ MODULE ListQueue -----------------------------
(***************************************************************************)
(* The LIST macros of inc/queue.h: doubly linked lists in which le_prev is *)
(* the address of the pointer to the element, so that the head needs no    *)
(* case of its own, and LIST_FOREACH with a body that changes the lists.   *)
(*                                                                         *)
(* A pointer to an element lives in a cell: the lh_first of a head or the  *)
(* le_next of an element; a cell is named by the head or the element it is *)
(* in.  A macro is one step: nothing runs between its assignments.         *)
(***************************************************************************)
EXTENDS FiniteSets, Naturals, Sequences

CONSTANTS Elem, LHead, NULL

ASSUME ListAssumption ==
  /\ IsFiniteSet(Elem)
  /\ Elem \cap LHead = {} /\ NULL \notin Elem \cup LHead

Cell == Elem \cup LHead

VARIABLES
  ptr,      \* the lh_first of a head, the le_next of an element
  le_prev,  \* the cell that an element's le_prev points to
  owner,    \* history: the head of the list an element is on
  loop,     \* the head of the list a LIST_FOREACH is in, or NULL
  var,      \* its variable
  acted,    \* whether the body has acted in this turn
  must,     \* history: elements on the list since the loop started
  seen      \* history: elements the loop has visited

links == <<ptr, le_prev>>
foreach == <<loop, var, acted, must, seen>>
vars == <<links, owner, foreach>>

LIST_EMPTY(h) == ptr[h] = NULL
LIST_FIRST(h) == ptr[h]
LIST_NEXT(e) == ptr[e]

\* Heads are reset by LIST_INIT or LIST_HEAD_INITIALIZER; the links of an
\* element hold anything before it is first inserted, abstracted to NULL.
Init ==
  /\ ptr = [c \in Cell |-> NULL]
  /\ le_prev = [e \in Elem |-> NULL]
  /\ owner = [e \in Elem |-> NULL]
  /\ loop = NULL /\ var = NULL /\ acted = FALSE
  /\ must = {} /\ seen = {}
-----------------------------------------------------------------------------
(* The body of a loop uses a macro once in a turn at most.                 *)
Body ==
  /\ loop # NULL => ~acted
  /\ acted' = (loop # NULL)
  /\ UNCHANGED <<loop, var, seen>>

Joins(e, h) ==
  /\ owner[e] = NULL   \* can't insert twice
  /\ owner' = [owner EXCEPT ![e] = h]
  /\ Body
  /\ UNCHANGED must

LIST_INSERT_AFTER(a, e) ==
  /\ owner[a] # NULL
  /\ Joins(e, owner[a])
  /\ ptr' = [ptr EXCEPT ![e] = LIST_NEXT(a), ![a] = e]
  /\ le_prev' = [x \in Elem |->
       IF x = e THEN a ELSE IF x = LIST_NEXT(a) THEN e ELSE le_prev[x]]

\* Mutant: listelm's own le_prev is forgotten.
INSERT_BEFORE_once(b, e) ==
  /\ owner[b] # NULL
  /\ Joins(e, owner[b])
  /\ ptr' = [ptr EXCEPT ![e] = b, ![le_prev[b]] = e]
  /\ le_prev' = [le_prev EXCEPT ![e] = le_prev[b]]

LIST_INSERT_BEFORE(b, e) ==
  /\ owner[b] # NULL
  /\ Joins(e, owner[b])
  /\ ptr' = [ptr EXCEPT ![e] = b, ![le_prev[b]] = e]
  /\ le_prev' = [le_prev EXCEPT ![e] = le_prev[b], ![b] = e]

LIST_INSERT_HEAD(h, e) ==
  /\ Joins(e, h)
  /\ ptr' = [ptr EXCEPT ![e] = LIST_FIRST(h), ![h] = e]
  /\ le_prev' = [x \in Elem |->
       IF x = e THEN h ELSE IF x = LIST_FIRST(h) THEN e ELSE le_prev[x]]

Leaves(e) ==
  /\ owner[e] # NULL
  /\ owner' = [owner EXCEPT ![e] = NULL]
  /\ must' = must \ {e}
  /\ Body

\* Mutant: the element's own link is cleared too.
REMOVE_clear(e) ==
  /\ Leaves(e)
  /\ ptr' = [ptr EXCEPT ![le_prev[e]] = LIST_NEXT(e), ![e] = NULL]
  /\ le_prev' = [x \in Elem |-> IF x = LIST_NEXT(e) THEN le_prev[e] ELSE le_prev[x]]

\* Mutant: the element behind keeps pointing at the one removed.
REMOVE_forward(e) ==
  /\ Leaves(e)
  /\ ptr' = [ptr EXCEPT ![le_prev[e]] = LIST_NEXT(e)]
  /\ UNCHANGED le_prev

\* The element's own links stay as they are.
LIST_REMOVE(e) ==
  /\ Leaves(e)
  /\ ptr' = [ptr EXCEPT ![le_prev[e]] = LIST_NEXT(e)]
  /\ le_prev' = [x \in Elem |-> IF x = LIST_NEXT(e) THEN le_prev[e] ELSE le_prev[x]]

\* Not from within a loop, which it would leave among elements of no list.
LIST_INIT(h) ==
  /\ loop = NULL
  /\ ptr' = [ptr EXCEPT ![h] = NULL]
  /\ owner' = [e \in Elem |-> IF owner[e] = h THEN NULL ELSE owner[e]]
  /\ UNCHANGED <<le_prev, foreach>>
-----------------------------------------------------------------------------
(* LIST_FOREACH: the first element, then each time the next one of var,    *)
(* also when the body has removed var.                                     *)
foreach_start(h) ==
  /\ loop = NULL
  /\ ~LIST_EMPTY(h)
  /\ loop' = h
  /\ var' = LIST_FIRST(h)
  /\ must' = {e \in Elem : owner[e] = h}
  /\ seen' = {LIST_FIRST(h)}
  /\ UNCHANGED <<links, owner, acted>>

foreach_next ==
  /\ loop # NULL
  /\ LIST_NEXT(var) # NULL
  /\ var' = LIST_NEXT(var)
  /\ seen' = seen \cup {LIST_NEXT(var)}
  /\ acted' = FALSE
  /\ UNCHANGED <<links, owner, loop, must>>

foreach_end ==
  /\ loop # NULL
  /\ LIST_NEXT(var) = NULL
  /\ loop' = NULL /\ var' = NULL /\ acted' = FALSE
  /\ must' = {} /\ seen' = {}
  /\ UNCHANGED <<links, owner>>

Next ==
  \/ \E e, f \in Elem : LIST_INSERT_AFTER(f, e) \/ LIST_INSERT_BEFORE(f, e)
  \/ \E h \in LHead, e \in Elem : LIST_INSERT_HEAD(h, e)
  \/ \E e \in Elem : LIST_REMOVE(e)
  \/ \E h \in LHead : LIST_INIT(h) \/ foreach_start(h)
  \/ foreach_next
  \/ foreach_end

Spec == Init /\ [][Next]_vars
-----------------------------------------------------------------------------
(* Properties.                                                             *)

\* The elements from the cell c on when the pointers are p, of which no more
\* than |Elem| are read.
Follow(p, c) ==
  LET chain[n \in 0 .. Cardinality(Elem)] ==
        [d \in Cell |-> IF n = 0 \/ p[d] = NULL THEN << >>
                        ELSE <<p[d]>> \o chain[n - 1][p[d]]]
  IN  chain[Cardinality(Elem)][c]

From(c) == Follow(ptr, c)

\* Type invariant.
TypeOK ==
  /\ ptr \in [Cell -> Elem \cup {NULL}]
  /\ le_prev \in [Elem -> Cell \cup {NULL}]
  /\ owner \in [Elem -> LHead \cup {NULL}]
  /\ loop \in LHead \cup {NULL} /\ var \in Elem \cup {NULL} /\ acted \in BOOLEAN
  /\ must \subseteq Elem /\ seen \subseteq Elem

\* The list that the pointer in each cell belongs to, if any.
OwnerOf == [c \in Cell |-> IF c \in LHead THEN c ELSE owner[c]]

\* The two directions agree: what a pointer of a list points to is on that
\* list and points back to that very pointer, and what an element points
\* back to is a pointer of its list that points to it.
LinksAgree ==
  /\ \A c \in Cell : OwnerOf[c] # NULL /\ ptr[c] # NULL =>
       owner[ptr[c]] = OwnerOf[c] /\ le_prev[ptr[c]] = c
  /\ \A e \in Elem : owner[e] # NULL =>
       /\ le_prev[e] \in Cell
       /\ OwnerOf[le_prev[e]] = owner[e]
       /\ ptr[le_prev[e]] = e

\* The loop is among the elements of its list at the start of each turn.
LoopOnList == loop # NULL /\ ~acted => owner[var] = loop

\* In a turn a loop may, by one macro, remove the element it is at, or any
\* other, or insert one: each turn starts at an element of the list, and what
\* has stayed on the list since the loop started is visited or still ahead, so
\* a loop misses nothing.
LoopMeetsAll ==
  /\ LoopOnList
  /\ loop # NULL =>
       \A e \in must \ seen : \E k \in DOMAIN From(var) : From(var)[k] = e

\* Refinement: the pointers implement one sequence for each head.
Lists == INSTANCE ListSeq WITH list <- [h \in LHead |-> From(h)]
ImplementsSequences == Lists!Spec
=============================================================================
