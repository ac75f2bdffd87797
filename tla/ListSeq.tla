------------------------------- MODULE ListSeq ------------------------------
(***************************************************************************)
(* What the lists of inc/queue.h promise: each head has a sequence of      *)
(* elements, an element is in one place at most, and is inserted at the    *)
(* head, or next to another, or removed, without a traversal.              *)
(***************************************************************************)
EXTENDS SequencesExt

CONSTANTS Elem, LHead

VARIABLE list   \* the sequence of each head

Place(h, e) == CHOOSE k \in DOMAIN list[h] : list[h][k] = e
Free(e) == \A h \in LHead : e \notin ToSet(list[h])

Init == list = [h \in LHead |-> << >>]

\* e becomes the k-th element of h.
Insert(h, k, e) ==
  /\ Free(e)
  /\ list' = [list EXCEPT ![h] = InsertAt(@, k, e)]

Unlink(h, e) ==
  /\ e \in ToSet(list[h])
  /\ list' = [list EXCEPT ![h] = RemoveAt(@, Place(h, e))]

Reset(h) == list' = [list EXCEPT ![h] = << >>]

Next ==
  \E h \in LHead :
    \/ Reset(h)
    \/ \E e \in Elem :
         \/ Unlink(h, e)
         \/ Insert(h, 1, e)
         \/ \E a \in ToSet(list[h]) :
              Insert(h, Place(h, a), e) \/ Insert(h, Place(h, a) + 1, e)

Spec == Init /\ [][Next]_list
=============================================================================
