------------------------------ MODULE Terminal -----------------------------
(***************************************************************************)
(* What the text display promises its user: a page of Rows lines of Cols   *)
(* cells and a cursor always on the page.  Writing past the end of a line  *)
(* continues on the next one, and past the last line the page moves up.    *)
(***************************************************************************)
EXTENDS Naturals

CONSTANTS
  Rows, Cols,
  Glyph,   \* what a cell can show
  Blank    \* an empty cell, one of the glyphs

VARIABLES
  page,      \* page[r][c] is the cell in line r, column c, both from 0
  row, col   \* the cursor

vars == <<page, row, col>>

Line == [0 .. Cols - 1 -> Glyph]

Init ==
  /\ page \in [0 .. Rows - 1 -> Line]
  /\ row \in 0 .. Rows - 1
  /\ col \in 0 .. Cols - 1

\* A display is a record [page, row, col].  The cursor of d moves to the
\* start of the line below, and the page moves up when there is none.
Down(d) ==
  IF d.row + 1 < Rows
    THEN [d EXCEPT !.row = @ + 1, !.col = 0]
    ELSE [page |-> [r \in 0 .. Rows - 1 |->
                     IF r + 1 < Rows THEN d.page[r + 1]
                                     ELSE [c \in 0 .. Cols - 1 |-> Blank]],
          row |-> d.row, col |-> 0]

Written(d, g) ==
  LET e == [d EXCEPT !.page[d.row][d.col] = g]
  IN  IF d.col + 1 < Cols THEN [e EXCEPT !.col = @ + 1] ELSE Down(e)

\* The cell before the cursor is emptied, across the end of a line too.
Erased(d) ==
  IF d.col > 0
    THEN [d EXCEPT !.col = @ - 1, !.page[d.row][d.col - 1] = Blank]
    ELSE IF d.row > 0
      THEN [page |-> [d.page EXCEPT ![d.row - 1][Cols - 1] = Blank],
            row |-> d.row - 1, col |-> Cols - 1]
      ELSE d

Now == [page |-> page, row |-> row, col |-> col]
Becomes(d) == page' = d.page /\ row' = d.row /\ col' = d.col

Write(g) == Becomes(Written(Now, g))
Erase == Becomes(Erased(Now))
NewLine == Becomes(Down(Now))
Return == Becomes([Now EXCEPT !.col = 0])

\* A tab is five blanks, wherever the cursor is.
Blanked(d) == Written(d, Blank)
Tab == Becomes(Blanked(Blanked(Blanked(Blanked(Blanked(Now))))))

Next == Erase \/ NewLine \/ Return \/ Tab \/ \E g \in Glyph : Write(g)

Spec == Init /\ [][Next]_vars
=============================================================================
