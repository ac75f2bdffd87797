----------------------------- MODULE CharQueue -----------------------------
(***************************************************************************)
(* What the console input buffer of kern/console.c promises its readers:   *)
(* a queue of characters in arrival order.  The buffer keeps one slot free *)
(* to tell full from empty, so it holds Capacity characters, and it has no *)
(* overrun check: the character that would make it Capacity + 1 long makes *)
(* the two indices equal, and everything buffered is forgotten at once.    *)
(***************************************************************************)
EXTENDS Naturals, Sequences

CONSTANTS
  Char,      \* the characters that can be buffered
  Capacity   \* how many characters the buffer can hold

VARIABLES
  queue,     \* the characters waiting, oldest first
  last       \* what the last call of getchar returned, 0 before the first one

vars == <<queue, last>>

Init == queue = << >> /\ last = 0

\* A device delivers the character c.
Put(c) ==
  /\ queue' = IF Len(queue) < Capacity THEN Append(queue, c) ELSE << >>
  /\ UNCHANGED last

\* A reader takes the oldest character.
Get ==
  /\ queue # << >>
  /\ queue' = Tail(queue)
  /\ last' = Head(queue)

Next == Get \/ \E c \in Char : Put(c)

Spec == Init /\ [][Next]_vars
=============================================================================
