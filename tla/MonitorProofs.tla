--------------------------- MODULE MonitorProofs ----------------------------
(***************************************************************************)
(* Proofs about Monitor, and so about Cga, Readline and RunCmd, which it   *)
(* joins, and about ConsOutput, which shares the display with them: for a  *)
(* page and buffers of any size, any prompt, any commands and any device.  *)
(*                                                                         *)
(* Two facts need an induction: what cprintf leaves on the display, and    *)
(* where the words of a line start.  The theorems of the library that take *)
(* a predicate cannot be used, so that these go by the least element of a  *)
(* set, which WFMin gives.                                                 *)
(***************************************************************************)
EXTENDS Monitor, ConsOutput, FiniteSetTheorems, WellFoundedInduction, SequenceTheorems, TLAPS
-----------------------------------------------------------------------------
(* The display.                                                            *)

\* A screen with its position on it.
OnScreen(s) == s \in [buf : [Cell -> Glyph], pos : Cell]

\* The page has at least one line of cells.
LEMMA ArithmeticOfLines ==
  /\ CRT_ROWS \in Nat \ {0} /\ CRT_COLS \in Nat \ {0}
  /\ CRT_SIZE \in Nat /\ CRT_SIZE >= CRT_COLS
<1>1. CRT_ROWS * CRT_COLS >= CRT_COLS /\ CRT_ROWS * CRT_COLS \in Nat
  BY CgaAssumption
<1> QED  BY <1>1, CgaAssumption DEF CRT_SIZE

\* The start of the line of p is at most CRT_COLS - 1 cells before p.
LEMMA LineStartType ==
  ASSUME NEW p \in Nat
  PROVE  LineStart(p) \in Nat /\ LineStart(p) <= p /\ p < LineStart(p) + CRT_COLS
<1>1. p % CRT_COLS \in 0 .. CRT_COLS - 1
  BY ArithmeticOfLines
<1>2. p = CRT_COLS * (p \div CRT_COLS) + (p % CRT_COLS)
  BY ArithmeticOfLines
<1>3. p \div CRT_COLS \in Nat
  BY ArithmeticOfLines
<1>4. CRT_COLS * (p \div CRT_COLS) \in Nat
  BY <1>3, ArithmeticOfLines
<1> QED  BY <1>1, <1>2, <1>4, ArithmeticOfLines DEF LineStart

\* Scrolling brings the position back to the screen.
LEMMA ScrolledOnScreen ==
  ASSUME NEW b \in [Cell -> Glyph], NEW p \in Nat, p < CRT_SIZE + CRT_COLS
  PROVE  OnScreen(Scrolled([buf |-> b, pos |-> p]))
<1>1. CASE p < CRT_SIZE
  BY <1>1, ArithmeticOfLines DEF Scrolled, OnScreen, Cell
<1>2. CASE p >= CRT_SIZE
  <2>1. p - CRT_COLS \in Cell
    BY <1>2, ArithmeticOfLines DEF Cell
  <2>2. [z \in Cell |-> IF z < CRT_SIZE - CRT_COLS
                          THEN b[z + CRT_COLS] ELSE Blank] \in [Cell -> Glyph]
    <3>1. \A z \in Cell : z < CRT_SIZE - CRT_COLS => b[z + CRT_COLS] \in Glyph
      BY ArithmeticOfLines DEF Cell
    <3> QED  BY <3>1 DEF Glyph
  <2>3. Scrolled([buf |-> b, pos |-> p]) =
          [buf |-> [z \in Cell |-> IF z < CRT_SIZE - CRT_COLS
                                     THEN b[z + CRT_COLS] ELSE Blank],
           pos |-> p - CRT_COLS]
    BY <1>2, ArithmeticOfLines DEF Scrolled
  <2> QED  BY <2>1, <2>2, <2>3 DEF OnScreen
<1> QED  BY <1>1, <1>2, ArithmeticOfLines

\* Writing a cell and moving on leaves the cursor on the screen.
LEMMA WriteOnScreen ==
  ASSUME NEW s, OnScreen(s), NEW g \in Glyph
  PROVE  OnScreen(Write(s, g))
<1>1. [s.buf EXCEPT ![s.pos] = g] \in [Cell -> Glyph]
  BY DEF OnScreen
<1>2. s.pos + 1 \in Nat /\ s.pos + 1 < CRT_SIZE + CRT_COLS
  BY ArithmeticOfLines DEF OnScreen, Cell
<1> QED  BY <1>1, <1>2, ScrolledOnScreen DEF Write

\* The cases of the switch in cga_putc exclude each other.
LEMMA ShownCases ==
  ASSUME NEW s
  PROVE  /\ Shown(s, BS) = Back(s)
         /\ Shown(s, LF) = LineFeed(s)
         /\ Shown(s, CR) = Return(s)
         /\ Shown(s, TAB) = Spaces(s)
         /\ \A g \in Glyph : Shown(s, g) = Write(s, g)
  BY CgaAssumption DEF Shown, Glyph, BS, LF, CR, TAB, Blank

\* Every character leaves the cursor on the screen.
LEMMA ShownOnScreen ==
  ASSUME NEW s, OnScreen(s), NEW c \in Char
  PROVE  OnScreen(Shown(s, c))
<1>1. CASE c = BS
  <2>1. CASE s.pos = 0
    BY <1>1, <2>1, ShownCases DEF Back
  <2>2. CASE s.pos # 0
    <3>1. s.pos - 1 \in Cell  BY <2>2, ArithmeticOfLines DEF OnScreen, Cell
    <3>2. [s.buf EXCEPT ![s.pos - 1] = Blank] \in [Cell -> Glyph]
      BY DEF OnScreen, Glyph
    <3> QED  BY <1>1, <2>2, <3>1, <3>2, ShownCases DEF Back, OnScreen
  <2> QED  BY <2>1, <2>2
<1>2. CASE c = LF
  <2>1. s.pos + CRT_COLS \in Nat  BY ArithmeticOfLines DEF OnScreen, Cell
  <2>2. /\ LineStart(s.pos + CRT_COLS) \in Nat
        /\ LineStart(s.pos + CRT_COLS) < CRT_SIZE + CRT_COLS
    BY <2>1, LineStartType, ArithmeticOfLines DEF OnScreen, Cell
  <2>3. Shown(s, c) =
          Scrolled([buf |-> s.buf, pos |-> LineStart(s.pos + CRT_COLS)])
    BY <1>2, ShownCases DEF LineFeed, OnScreen
  <2> QED  BY <2>2, <2>3, ScrolledOnScreen DEF OnScreen
<1>3. CASE c = CR
  <2>1. LineStart(s.pos) \in Cell
    BY LineStartType, ArithmeticOfLines DEF OnScreen, Cell
  <2> QED  BY <1>3, <2>1, ShownCases DEF Return, OnScreen
<1>4. CASE c = TAB
  <2>1. Blank \in Glyph  BY DEF Glyph
  <2>2. \A t : OnScreen(t) => OnScreen(Space(t))
    BY <2>1, WriteOnScreen DEF Space
  <2> QED  BY <1>4, <2>2, ShownCases DEF Spaces
<1>5. CASE c \in Glyph
  BY <1>5, ShownCases, WriteOnScreen
<1> QED  BY <1>1, <1>2, <1>3, <1>4, <1>5 DEF Char

\* No character takes the cursor off the screen.
LEMMA CursorStep == TypeOK /\ [Next]_crt => TypeOK'
<1>1. ASSUME TypeOK, NEW c \in Char, cga_putc(c) PROVE TypeOK'
  <2>1. OnScreen(Screen)  BY <1>1 DEF TypeOK, OnScreen, Screen
  <2>2. OnScreen(Shown(Screen, c))  BY <1>1, <2>1, ShownOnScreen
  <2> QED  BY <1>1, <2>2 DEF cga_putc, OnScreen, TypeOK
<1>2. ASSUME TypeOK, UNCHANGED crt PROVE TypeOK'
  BY <1>2 DEF crt, TypeOK
<1> QED  BY <1>1, <1>2 DEF Next

\* The cursor never leaves the screen and nothing is written outside it, for
\* a page of any number of lines and columns.
THEOREM CursorStaysOnScreen == Spec => []TypeOK
<1>1. cga_init => TypeOK
  BY DEF cga_init, TypeOK
<1> QED  BY <1>1, CursorStep, PTL DEF Spec
-----------------------------------------------------------------------------
(* The flat array as a page of lines.                                      *)

\* Lines and columns of a position, and the lines of an array.
RowOf(p) == p \div CRT_COLS
ColOf(p) == p % CRT_COLS
PageOf(b) == [r \in 0 .. CRT_ROWS - 1 |->
               [c \in 0 .. CRT_COLS - 1 |-> b[r * CRT_COLS + c]]]

\* A screen as the display that Terminal has of it.
View(s) == [page |-> PageOf(s.buf), row |-> RowOf(s.pos), col |-> ColOf(s.pos)]

\* A position is a line and a column of its own.
LEMMA PositionSplits ==
  ASSUME NEW p \in Nat
  PROVE  /\ RowOf(p) \in Nat /\ ColOf(p) \in 0 .. CRT_COLS - 1
         /\ RowOf(p) * CRT_COLS \in Nat
         /\ p = RowOf(p) * CRT_COLS + ColOf(p)
<1>1. p % CRT_COLS \in 0 .. CRT_COLS - 1 /\ p \div CRT_COLS \in Nat
  BY ArithmeticOfLines
<1>2. p = CRT_COLS * (p \div CRT_COLS) + (p % CRT_COLS)
  BY ArithmeticOfLines
<1>3. CRT_COLS * (p \div CRT_COLS) = (p \div CRT_COLS) * CRT_COLS
  BY <1>1, ArithmeticOfLines
<1>4. (p \div CRT_COLS) * CRT_COLS \in Nat
  BY <1>1, ArithmeticOfLines
<1> QED  BY <1>1, <1>2, <1>3, <1>4 DEF RowOf, ColOf

\* Lines below are at least one line of cells behind.
LEMMA LinesApart ==
  ASSUME NEW q \in Nat, NEW r \in Nat, q < r
  PROVE  q * CRT_COLS + CRT_COLS <= r * CRT_COLS /\ q * CRT_COLS \in Nat /\ r * CRT_COLS \in Nat
<1>1. r = q + 1 + (r - q - 1) /\ r - q - 1 \in Nat
  OBVIOUS
<1>2. PICK d \in Nat : r = q + 1 + d
  BY <1>1
<1>3. (q + 1 + d) * CRT_COLS = q * CRT_COLS + CRT_COLS + d * CRT_COLS
  BY ArithmeticOfLines
<1>4. d * CRT_COLS \in Nat /\ q * CRT_COLS \in Nat
  BY ArithmeticOfLines
<1> QED  BY <1>2, <1>3, <1>4, ArithmeticOfLines

\* The cell in a line and a column is at that line and column.
LEMMA PositionOf ==
  ASSUME NEW r \in Nat, NEW c \in 0 .. CRT_COLS - 1
  PROVE  /\ r * CRT_COLS + c \in Nat /\ r * CRT_COLS \in Nat
         /\ RowOf(r * CRT_COLS + c) = r /\ ColOf(r * CRT_COLS + c) = c
<1>1. r * CRT_COLS \in Nat /\ c \in Nat /\ r * CRT_COLS + c \in Nat
  BY ArithmeticOfLines
<1> DEFINE p == r * CRT_COLS + c
<1>2. /\ RowOf(p) \in Nat /\ ColOf(p) \in 0 .. CRT_COLS - 1
      /\ p = RowOf(p) * CRT_COLS + ColOf(p)
      /\ RowOf(p) * CRT_COLS \in Nat
  BY <1>1, PositionSplits
<1>3. p = r * CRT_COLS + c
  OBVIOUS
<1> HIDE DEF p
<1>4. ~(RowOf(p) < r)
  <2> SUFFICES ASSUME RowOf(p) < r PROVE FALSE
    OBVIOUS
  <2>1. RowOf(p) * CRT_COLS + CRT_COLS <= r * CRT_COLS
    BY <1>2, LinesApart
  <2> QED  BY <1>1, <1>2, <1>3, <2>1, ArithmeticOfLines
<1>5. ~(r < RowOf(p))
  <2> SUFFICES ASSUME r < RowOf(p) PROVE FALSE
    OBVIOUS
  <2>1. r * CRT_COLS + CRT_COLS <= RowOf(p) * CRT_COLS
    BY <1>2, LinesApart
  <2> QED  BY <1>1, <1>2, <1>3, <2>1, ArithmeticOfLines
<1>6. RowOf(p) = r
  BY <1>2, <1>4, <1>5
<1>7. ColOf(p) = c
  <2>1. r * CRT_COLS + ColOf(p) = r * CRT_COLS + c
    BY <1>2, <1>3, <1>6
  <2> QED  BY <1>1, <1>2, <2>1, ArithmeticOfLines
<1> QED  BY <1>1, <1>6, <1>7 DEF p

\* The cells of the page are those of the array.
LEMMA CellsOfPage ==
  /\ \A r \in 0 .. CRT_ROWS - 1, c \in 0 .. CRT_COLS - 1 : r * CRT_COLS + c \in Cell
  /\ \A p \in Cell : RowOf(p) \in 0 .. CRT_ROWS - 1 /\ ColOf(p) \in 0 .. CRT_COLS - 1
<1>1. ASSUME NEW r \in 0 .. CRT_ROWS - 1, NEW c \in 0 .. CRT_COLS - 1
      PROVE  r * CRT_COLS + c \in Cell
  <2>1. r \in Nat /\ CRT_ROWS \in Nat /\ r < CRT_ROWS /\ c \in Nat /\ c < CRT_COLS
    BY ArithmeticOfLines
  <2>2. /\ r * CRT_COLS + CRT_COLS <= CRT_ROWS * CRT_COLS
        /\ r * CRT_COLS \in Nat /\ CRT_ROWS * CRT_COLS \in Nat
    BY <2>1, LinesApart
  <2> QED  BY <2>1, <2>2, ArithmeticOfLines DEF Cell, CRT_SIZE
<1>2. ASSUME NEW p \in Cell
      PROVE  RowOf(p) \in 0 .. CRT_ROWS - 1 /\ ColOf(p) \in 0 .. CRT_COLS - 1
  <2>1. p \in Nat /\ p < CRT_ROWS * CRT_COLS /\ CRT_ROWS * CRT_COLS \in Nat
    BY ArithmeticOfLines DEF Cell, CRT_SIZE
  <2>2. /\ RowOf(p) \in Nat /\ ColOf(p) \in 0 .. CRT_COLS - 1
        /\ p = RowOf(p) * CRT_COLS + ColOf(p) /\ RowOf(p) * CRT_COLS \in Nat
    BY <2>1, PositionSplits
  <2>3. RowOf(p) < CRT_ROWS
    <3> SUFFICES ASSUME CRT_ROWS <= RowOf(p) PROVE FALSE
      BY <2>2, ArithmeticOfLines
    <3>1. CASE CRT_ROWS = RowOf(p)
      BY <2>1, <2>2, <3>1, ArithmeticOfLines
    <3>2. CASE CRT_ROWS < RowOf(p)
      <4>1. CRT_ROWS * CRT_COLS + CRT_COLS <= RowOf(p) * CRT_COLS
        BY <2>2, <3>2, ArithmeticOfLines, LinesApart
      <4> QED  BY <2>1, <2>2, <4>1, ArithmeticOfLines
    <3> QED  BY <2>2, <3>1, <3>2, ArithmeticOfLines
  <2> QED  BY <2>2, <2>3, ArithmeticOfLines
<1> QED  BY <1>1, <1>2

\* An array and a page with one cell written.
CellPut(b, p, g) == [b EXCEPT ![p] = g]
LinePut(l, r, c, g) == [l EXCEPT ![r][c] = g]

\* Writing a cell of the array writes that cell of its line.
LEMMA LinesWritten ==
  ASSUME NEW b \in [Cell -> Glyph], NEW r \in 0 .. CRT_ROWS - 1,
         NEW c \in 0 .. CRT_COLS - 1, NEW p, p = r * CRT_COLS + c, NEW g
  PROVE  PageOf(CellPut(b, p, g)) = LinePut(PageOf(b), r, c, g)
<1> DEFINE b2 == [b EXCEPT ![p] = g]
<1>1. p \in Cell
  BY CellsOfPage
<1>2. ASSUME NEW q \in 0 .. CRT_ROWS - 1, NEW d \in 0 .. CRT_COLS - 1
      PROVE  b2[q * CRT_COLS + d] = IF q = r /\ d = c THEN g ELSE b[q * CRT_COLS + d]
  <2>1. q * CRT_COLS + d \in Cell
    BY CellsOfPage
  <2>2. q * CRT_COLS + d = p => q = r /\ d = c
    <3>1. q \in Nat /\ r \in Nat
      BY ArithmeticOfLines
    <3>2. RowOf(q * CRT_COLS + d) = q /\ ColOf(q * CRT_COLS + d) = d
      BY <3>1, PositionOf
    <3>3. RowOf(p) = r /\ ColOf(p) = c
      BY <3>1, PositionOf
    <3> QED  BY <3>2, <3>3
  <2>3. q = r /\ d = c => q * CRT_COLS + d = p
    OBVIOUS
  <2> QED  BY <1>1, <2>1, <2>2, <2>3
<1> HIDE DEF b2
<1>3. ASSUME NEW q \in 0 .. CRT_ROWS - 1
      PROVE  [d \in 0 .. CRT_COLS - 1 |-> b2[q * CRT_COLS + d]]
               = IF q = r THEN [[d \in 0 .. CRT_COLS - 1 |-> b[q * CRT_COLS + d]] EXCEPT ![c] = g]
                 ELSE [d \in 0 .. CRT_COLS - 1 |-> b[q * CRT_COLS + d]]
  BY <1>2
<1>4. PageOf(b2) = [PageOf(b) EXCEPT ![r][c] = g]
  BY <1>3 DEF PageOf
<1>5. CellPut(b, p, g) = b2
  BY DEF CellPut, b2
<1> QED  BY <1>4, <1>5 DEF LinePut

\* Moving the cells of the array up by a line of them moves the lines up.
LEMMA LinesScrolled ==
  ASSUME NEW b
  PROVE  PageOf([z \in Cell |-> IF z < CRT_SIZE - CRT_COLS THEN b[z + CRT_COLS] ELSE Blank])
           = [r \in 0 .. CRT_ROWS - 1 |->
               IF r + 1 < CRT_ROWS THEN PageOf(b)[r + 1]
                                   ELSE [c \in 0 .. CRT_COLS - 1 |-> Blank]]
<1> DEFINE b2 == [z \in Cell |-> IF z < CRT_SIZE - CRT_COLS THEN b[z + CRT_COLS] ELSE Blank]
<1>1. ASSUME NEW r \in 0 .. CRT_ROWS - 1, NEW c \in 0 .. CRT_COLS - 1
      PROVE  b2[r * CRT_COLS + c] = IF r + 1 < CRT_ROWS THEN b[(r + 1) * CRT_COLS + c] ELSE Blank
  <2>1. r * CRT_COLS + c \in Cell
    BY CellsOfPage
  <2>2. /\ r \in Nat /\ r + 1 \in Nat /\ c \in Nat /\ c < CRT_COLS /\ CRT_ROWS \in Nat
        /\ CRT_COLS \in Nat /\ r < CRT_ROWS
    BY ArithmeticOfLines
  <2>3. (r + 1) * CRT_COLS = r * CRT_COLS + CRT_COLS /\ r * CRT_COLS \in Nat /\ CRT_SIZE \in Nat
    BY <2>2, ArithmeticOfLines
  <2>4. r * CRT_COLS + c + CRT_COLS = (r + 1) * CRT_COLS + c
    BY <2>2, <2>3
  <2>5. CASE r + 1 < CRT_ROWS
    <3>1. (r + 1) * CRT_COLS + CRT_COLS <= CRT_ROWS * CRT_COLS
      BY <2>2, <2>5, LinesApart
    <3>2. r * CRT_COLS + c < CRT_SIZE - CRT_COLS
      BY <2>2, <2>3, <3>1 DEF CRT_SIZE
    <3> QED  BY <2>1, <2>4, <2>5, <3>2
  <2>6. CASE ~(r + 1 < CRT_ROWS)
    <3>1. r + 1 = CRT_ROWS
      BY <2>2, <2>6
    <3>2. ~(r * CRT_COLS + c < CRT_SIZE - CRT_COLS)
      <4>1. CRT_SIZE = r * CRT_COLS + CRT_COLS
        BY <2>3, <3>1 DEF CRT_SIZE
      <4> QED  BY <2>2, <2>3, <4>1
    <3> QED  BY <2>1, <2>6, <3>2
  <2> QED  BY <2>5, <2>6
<1> HIDE DEF b2
<1>2. ASSUME NEW r \in 0 .. CRT_ROWS - 1
      PROVE  [c \in 0 .. CRT_COLS - 1 |-> b2[r * CRT_COLS + c]]
               = IF r + 1 < CRT_ROWS THEN [c \in 0 .. CRT_COLS - 1 |-> b[(r + 1) * CRT_COLS + c]]
                 ELSE [c \in 0 .. CRT_COLS - 1 |-> Blank]
  BY <1>1
<1>3. \A r \in 0 .. CRT_ROWS - 1 : r + 1 < CRT_ROWS => r + 1 \in 0 .. CRT_ROWS - 1
  BY ArithmeticOfLines
<1>4. PageOf(b2) = [r \in 0 .. CRT_ROWS - 1 |->
                    IF r + 1 < CRT_ROWS THEN PageOf(b)[r + 1]
                                        ELSE [c \in 0 .. CRT_COLS - 1 |-> Blank]]
  BY <1>2, <1>3 DEF PageOf
<1> QED  BY <1>4 DEF b2

\* A position at the start of the line below, scrolled, is the line feed of
\* the page.
LEMMA DownView ==
  ASSUME NEW b, NEW r \in 0 .. CRT_ROWS - 1, NEW c
  PROVE  View(Scrolled([buf |-> b, pos |-> (r + 1) * CRT_COLS]))
           = Page!Down([page |-> PageOf(b), row |-> r, col |-> c])
<1> DEFINE p == (r + 1) * CRT_COLS
<1>1. /\ r \in Nat /\ r + 1 \in Nat /\ 0 \in 0 .. CRT_COLS - 1 /\ CRT_ROWS \in Nat
      /\ CRT_COLS \in Nat /\ r < CRT_ROWS
  BY ArithmeticOfLines
<1>2. /\ p \in Nat /\ p = r * CRT_COLS + CRT_COLS /\ r * CRT_COLS \in Nat
      /\ p + 0 = p /\ r * CRT_COLS + 0 = r * CRT_COLS
  BY <1>1
<1>3. CRT_SIZE \in Nat /\ CRT_SIZE = CRT_ROWS * CRT_COLS
  BY ArithmeticOfLines DEF CRT_SIZE
<1>4. RowOf(p) = r + 1 /\ ColOf(p) = 0
  <2>1. RowOf(p + 0) = r + 1 /\ ColOf(p + 0) = 0
    BY <1>1, PositionOf
  <2> QED  BY <1>2, <2>1
<1>5. RowOf(r * CRT_COLS) = r /\ ColOf(r * CRT_COLS) = 0
  <2>1. RowOf(r * CRT_COLS + 0) = r /\ ColOf(r * CRT_COLS + 0) = 0
    BY <1>1, PositionOf
  <2> QED  BY <1>2, <2>1
<1>6. CASE r + 1 < CRT_ROWS
  <2>1. p < CRT_SIZE
    <3>1. (r + 1) * CRT_COLS + CRT_COLS <= CRT_ROWS * CRT_COLS
      BY <1>1, <1>6, LinesApart
    <3> QED  BY <1>1, <1>2, <1>3, <3>1, ArithmeticOfLines
  <2> HIDE DEF p
  <2>2. Scrolled([buf |-> b, pos |-> p]) = [buf |-> b, pos |-> p]
    BY <2>1 DEF Scrolled
  <2>3. View([buf |-> b, pos |-> p]) = [page |-> PageOf(b), row |-> r + 1, col |-> 0]
    BY <1>4 DEF View
  <2>4. Page!Down([page |-> PageOf(b), row |-> r, col |-> c])
          = [page |-> PageOf(b), row |-> r + 1, col |-> 0]
    BY <1>6 DEF Page!Down
  <2> QED  BY <2>2, <2>3, <2>4 DEF p
<1>7. CASE ~(r + 1 < CRT_ROWS)
  <2>1. r + 1 = CRT_ROWS
    BY <1>1, <1>7
  <2>2. p = CRT_SIZE /\ ~(p < CRT_SIZE) /\ p - CRT_COLS = r * CRT_COLS
    BY <1>1, <1>2, <1>3, <2>1
  <2> HIDE DEF p
  <2> DEFINE b2 == [z \in Cell |-> IF z < CRT_SIZE - CRT_COLS THEN b[z + CRT_COLS] ELSE Blank]
  <2>3. Scrolled([buf |-> b, pos |-> p]) = [buf |-> b2, pos |-> r * CRT_COLS]
    BY <2>2 DEF Scrolled
  <2>4. PageOf(b2) = [q \in 0 .. CRT_ROWS - 1 |->
                      IF q + 1 < CRT_ROWS THEN PageOf(b)[q + 1]
                                          ELSE [d \in 0 .. CRT_COLS - 1 |-> Blank]]
    BY LinesScrolled
  <2> HIDE DEF b2
  <2>5. View([buf |-> b2, pos |-> r * CRT_COLS]) = [page |-> PageOf(b2), row |-> r, col |-> 0]
    BY <1>5 DEF View
  <2>6. Page!Down([page |-> PageOf(b), row |-> r, col |-> c])
          = [page |-> [q \in 0 .. CRT_ROWS - 1 |->
                        IF q + 1 < CRT_ROWS THEN PageOf(b)[q + 1]
                                            ELSE [d \in 0 .. CRT_COLS - 1 |-> Blank]],
             row |-> r, col |-> 0]
    BY <1>7 DEF Page!Down
  <2> QED  BY <2>3, <2>4, <2>5, <2>6 DEF p
<1> QED  BY <1>6, <1>7

\* The position of a screen, taken apart.
LEMMA PositionParts ==
  ASSUME NEW s, OnScreen(s)
  PROVE  /\ RowOf(s.pos) \in 0 .. CRT_ROWS - 1 /\ ColOf(s.pos) \in 0 .. CRT_COLS - 1
         /\ s.pos \in Nat /\ s.pos \in Cell /\ s.buf \in [Cell -> Glyph]
         /\ s.pos = RowOf(s.pos) * CRT_COLS + ColOf(s.pos)
         /\ s = [buf |-> s.buf, pos |-> s.pos]
<1>1. s.pos \in Cell /\ s.buf \in [Cell -> Glyph] /\ s = [buf |-> s.buf, pos |-> s.pos]
  BY DEF OnScreen
<1>2. s.pos \in Nat
  BY <1>1, ArithmeticOfLines DEF Cell
<1>3. s.pos = RowOf(s.pos) * CRT_COLS + ColOf(s.pos)
  BY <1>2, PositionSplits
<1>4. RowOf(s.pos) \in 0 .. CRT_ROWS - 1 /\ ColOf(s.pos) \in 0 .. CRT_COLS - 1
  BY <1>1, CellsOfPage
<1> QED  BY <1>1, <1>2, <1>3, <1>4

\* Each case of the switch is an operation of the page: a character is written
\* and the position goes on, to the line below after the last column.
LEMMA WriteView ==
  ASSUME NEW s, OnScreen(s), NEW g
  PROVE  View(Write(s, g)) = Page!Written(View(s), g)
<1> DEFINE r == RowOf(s.pos)
           c == ColOf(s.pos)
           p == s.pos
           b2 == CellPut(s.buf, s.pos, g)
<1>1. /\ r \in 0 .. CRT_ROWS - 1 /\ c \in 0 .. CRT_COLS - 1 /\ p \in Nat
      /\ s.buf \in [Cell -> Glyph] /\ p = r * CRT_COLS + c
  BY PositionParts
<1>2. PageOf(b2) = LinePut(PageOf(s.buf), r, c, g)
  <2> HIDE DEF r, c
  <2> QED  BY <1>1, LinesWritten
<1>3. Write(s, g) = Scrolled([buf |-> b2, pos |-> p + 1])
  BY DEF Write, CellPut
<1>4. View(s) = [page |-> PageOf(s.buf), row |-> r, col |-> c]
  BY DEF View
<1> HIDE DEF r, c, p, b2
<1>5. /\ r \in Nat /\ c \in Nat /\ r + 1 \in Nat /\ CRT_COLS \in Nat /\ c < CRT_COLS
      /\ r * CRT_COLS \in Nat /\ CRT_SIZE \in Nat
  BY <1>1, ArithmeticOfLines
<1> DEFINE e == [page |-> PageOf(b2), row |-> r, col |-> c]
<1>6. Page!Written(View(s), g)
        = IF c + 1 < CRT_COLS THEN [e EXCEPT !.col = c + 1] ELSE Page!Down(e)
  <2>1. [View(s) EXCEPT !.page[View(s).row][View(s).col] = g] = e
    BY <1>2, <1>4 DEF LinePut
  <2>2. View(s).col = c /\ e.col = c
    BY <1>4
  <2> HIDE DEF e
  <2> QED  BY <2>1, <2>2 DEF Page!Written
<1>7. CASE c + 1 < CRT_COLS
  <2>1. p + 1 = r * CRT_COLS + (c + 1) /\ c + 1 \in 0 .. CRT_COLS - 1
    BY <1>1, <1>5, <1>7
  <2>2. p + 1 \in Cell
    BY <1>1, <2>1, CellsOfPage
  <2>3. p + 1 < CRT_SIZE
    BY <2>2, <1>5 DEF Cell
  <2>4. Scrolled([buf |-> b2, pos |-> p + 1]) = [buf |-> b2, pos |-> p + 1]
    BY <2>3 DEF Scrolled
  <2>5. RowOf(p + 1) = r /\ ColOf(p + 1) = c + 1
    BY <1>5, <2>1, PositionOf, ZenonT(60)
  <2>6. View([buf |-> b2, pos |-> p + 1]) = [page |-> PageOf(b2), row |-> r, col |-> c + 1]
    BY <2>5 DEF View
  <2>7. [e EXCEPT !.col = c + 1] = [page |-> PageOf(b2), row |-> r, col |-> c + 1]
    OBVIOUS
  <2> HIDE DEF e
  <2> QED  BY <1>3, <1>6, <1>7, <2>4, <2>6, <2>7
<1>8. CASE ~(c + 1 < CRT_COLS)
  <2>1. p + 1 = (r + 1) * CRT_COLS
    <3>1. c + 1 = CRT_COLS
      BY <1>5, <1>8
    <3>2. (r + 1) * CRT_COLS = r * CRT_COLS + CRT_COLS
      BY <1>5
    <3> QED  BY <1>1, <1>5, <3>1, <3>2
  <2>2. View(Scrolled([buf |-> b2, pos |-> (r + 1) * CRT_COLS])) = Page!Down(e)
    BY <1>1, DownView
  <2> QED  BY <1>3, <1>6, <1>8, <2>1, <2>2
<1> QED  BY <1>7, <1>8

\* A line feed goes to the start of the line below.
LEMMA LineFeedView ==
  ASSUME NEW s, OnScreen(s)
  PROVE  View(LineFeed(s)) = Page!Down(View(s))
<1> DEFINE r == RowOf(s.pos)
           c == ColOf(s.pos)
           p == s.pos
<1>1. /\ r \in 0 .. CRT_ROWS - 1 /\ c \in 0 .. CRT_COLS - 1 /\ p \in Nat
      /\ p = r * CRT_COLS + c /\ s = [buf |-> s.buf, pos |-> p]
  BY PositionParts
<1>2. View(s) = [page |-> PageOf(s.buf), row |-> r, col |-> c]
  BY DEF View
<1>3. LineFeed(s) = Scrolled([buf |-> s.buf, pos |-> LineStart(p + CRT_COLS)])
  BY <1>1 DEF LineFeed
<1> HIDE DEF r, c, p
<1>4. /\ r \in Nat /\ c \in Nat /\ r + 1 \in Nat /\ CRT_COLS \in Nat
      /\ (r + 1) * CRT_COLS = r * CRT_COLS + CRT_COLS /\ r * CRT_COLS \in Nat
  BY <1>1, ArithmeticOfLines
<1>5. LineStart(p + CRT_COLS) = (r + 1) * CRT_COLS
  <2>1. p + CRT_COLS = (r + 1) * CRT_COLS + c
    BY <1>1, <1>4
  <2>2. ColOf((r + 1) * CRT_COLS + c) = c
    BY <1>1, <1>4, PositionOf
  <2>3. \A q : LineStart(q) = q - ColOf(q)
    BY Zenon DEF LineStart, ColOf
  <2> QED  BY <1>1, <1>4, <2>1, <2>2, <2>3
<1> QED  BY <1>1, <1>2, <1>3, <1>5, DownView

\* A return goes to the start of the line.
LEMMA ReturnView ==
  ASSUME NEW s, OnScreen(s)
  PROVE  View(Return(s)) = [View(s) EXCEPT !.col = 0]
<1> DEFINE r == RowOf(s.pos)
           c == ColOf(s.pos)
           p == s.pos
<1>1. /\ r \in 0 .. CRT_ROWS - 1 /\ c \in 0 .. CRT_COLS - 1 /\ p \in Nat
      /\ p = r * CRT_COLS + c /\ s = [buf |-> s.buf, pos |-> p]
  BY PositionParts
<1>2. View(s) = [page |-> PageOf(s.buf), row |-> r, col |-> c]
  BY DEF View
<1>3. Return(s) = [buf |-> s.buf, pos |-> LineStart(p)]
  BY <1>1 DEF Return
<1>4. LineStart(p) = p - c
  BY DEF LineStart, ColOf
<1> HIDE DEF r, c, p
<1>5. r \in Nat /\ c \in Nat /\ r * CRT_COLS \in Nat /\ 0 \in 0 .. CRT_COLS - 1
  BY <1>1, ArithmeticOfLines
<1>6. LineStart(p) = r * CRT_COLS + 0
  BY <1>1, <1>4, <1>5
<1>7. RowOf(LineStart(p)) = r /\ ColOf(LineStart(p)) = 0
  BY <1>5, <1>6, PositionOf
<1>8. View(Return(s)) = [page |-> PageOf(s.buf), row |-> r, col |-> 0]
  BY <1>3, <1>7 DEF View
<1> QED  BY <1>2, <1>8

\* A backspace empties the cell before, on the line above when there is none
\* on this one.
LEMMA BackView ==
  ASSUME NEW s, OnScreen(s)
  PROVE  View(Back(s)) = Page!Erased(View(s))
<1> DEFINE r == RowOf(s.pos)
           c == ColOf(s.pos)
           p == s.pos
<1>1. /\ r \in 0 .. CRT_ROWS - 1 /\ c \in 0 .. CRT_COLS - 1 /\ p \in Nat
      /\ p = r * CRT_COLS + c /\ s.buf \in [Cell -> Glyph]
  BY PositionParts
<1>2. View(s) = [page |-> PageOf(s.buf), row |-> r, col |-> c]
  BY DEF View
<1>3. p # 0 => Back(s) = [buf |-> CellPut(s.buf, p - 1, Blank), pos |-> p - 1]
  BY DEF Back, CellPut
<1>4. p = 0 => Back(s) = s
  BY DEF Back
<1> HIDE DEF r, c, p
<1>5. r \in Nat /\ c \in Nat /\ r * CRT_COLS \in Nat /\ CRT_COLS \in Nat \ {0}
  BY <1>1, ArithmeticOfLines
<1>6. CASE c > 0
  <2>1. p # 0 /\ p - 1 = r * CRT_COLS + (c - 1) /\ c - 1 \in 0 .. CRT_COLS - 1
    BY <1>1, <1>5, <1>6
  <2>2. RowOf(p - 1) = r /\ ColOf(p - 1) = c - 1
    BY <1>5, <2>1, PositionOf
  <2>3. PageOf(CellPut(s.buf, p - 1, Blank)) = LinePut(PageOf(s.buf), r, c - 1, Blank)
    BY <1>1, <2>1, LinesWritten
  <2>4. View(Back(s)) = [page |-> LinePut(PageOf(s.buf), r, c - 1, Blank),
                         row |-> r, col |-> c - 1]
    BY <1>3, <2>1, <2>2, <2>3 DEF View
  <2>5. Page!Erased(View(s)) = [page |-> LinePut(PageOf(s.buf), r, c - 1, Blank),
                                row |-> r, col |-> c - 1]
    <3> DEFINE Empty(d, q, x) == [d EXCEPT !.page[q][x] = Blank]
               at(x) == [page |-> PageOf(s.buf), row |-> r, col |-> x]
    <3>1. View(s).col > 0 /\ View(s).col = c /\ View(s).row = r
      BY <1>2, <1>6
    <3>2. [View(s) EXCEPT !.col = c - 1] = at(c - 1)
      BY <1>2
    <3>3. Page!Erased(View(s)) = Empty([View(s) EXCEPT !.col = c - 1], r, c - 1)
      BY <1>5, <3>1 DEF Page!Erased
    <3>4. Empty(at(c - 1), r, c - 1)
            = [page |-> LinePut(PageOf(s.buf), r, c - 1, Blank), row |-> r, col |-> c - 1]
      BY DEF LinePut
    <3> HIDE DEF Empty, at
    <3> QED  BY <3>2, <3>3, <3>4
  <2> QED  BY <2>4, <2>5
<1>7. CASE c = 0 /\ r > 0
  <2>1. r - 1 \in Nat /\ r - 1 \in 0 .. CRT_ROWS - 1 /\ CRT_COLS - 1 \in 0 .. CRT_COLS - 1
    BY <1>1, <1>5, <1>7, ArithmeticOfLines
  <2>2. p - 1 = (r - 1) * CRT_COLS + (CRT_COLS - 1) /\ p # 0
    <3>1. (r - 1) * CRT_COLS \in Nat
      BY <2>1, <1>5
    <3>2. (r - 1) * CRT_COLS + CRT_COLS = r * CRT_COLS
      BY <1>5, <2>1
    <3> QED  BY <1>1, <1>5, <1>7, <3>1, <3>2
  <2>3. RowOf(p - 1) = r - 1 /\ ColOf(p - 1) = CRT_COLS - 1
    BY <2>1, <2>2, PositionOf
  <2>4. PageOf(CellPut(s.buf, p - 1, Blank))
          = LinePut(PageOf(s.buf), r - 1, CRT_COLS - 1, Blank)
    BY <1>1, <2>1, <2>2, LinesWritten
  <2>5. View(Back(s)) = [page |-> LinePut(PageOf(s.buf), r - 1, CRT_COLS - 1, Blank),
                         row |-> r - 1, col |-> CRT_COLS - 1]
    BY <1>3, <2>2, <2>3, <2>4 DEF View
  <2>6. Page!Erased(View(s)) = [page |-> LinePut(PageOf(s.buf), r - 1, CRT_COLS - 1, Blank),
                                row |-> r - 1, col |-> CRT_COLS - 1]
    BY <1>2, <1>5, <1>7 DEF Page!Erased, LinePut
  <2> QED  BY <2>5, <2>6
<1>8. CASE c = 0 /\ r = 0
  <2>1. p = 0
    BY <1>1, <1>5, <1>8
  <2>2. Page!Erased(View(s)) = View(s)
    BY <1>2, <1>8 DEF Page!Erased
  <2> QED  BY <1>4, <2>1, <2>2
<1>9. c > 0 \/ (c = 0 /\ r > 0) \/ (c = 0 /\ r = 0)
  BY <1>5
<1> QED  BY <1>6, <1>7, <1>8, <1>9

\* A tab is five cells of blanks, each with its own wrapping and scrolling.
LEMMA SpacesView ==
  ASSUME NEW s, OnScreen(s)
  PROVE  View(Spaces(s)) =
           Page!Blanked(Page!Blanked(Page!Blanked(Page!Blanked(Page!Blanked(View(s))))))
<1>1. ASSUME NEW t, OnScreen(t)
      PROVE  OnScreen(Space(t)) /\ View(Space(t)) = Page!Blanked(View(t))
  <2>1. Blank \in Glyph
    BY DEF Glyph
  <2>2. OnScreen(Space(t))
    BY <1>1, <2>1, WriteOnScreen DEF Space
  <2>3. View(Space(t)) = Page!Blanked(View(t))
    BY <1>1, WriteView DEF Space, Page!Blanked
  <2> QED  BY <2>2, <2>3
<1> QED  BY <1>1 DEF Spaces

\* A screen with its cursor on it is a page with its cursor on it.
LEMMA ScreenIsPage == TypeOK => Page!Init
<1> SUFFICES ASSUME TypeOK PROVE Page!Init
  OBVIOUS
<1>1. /\ crt_pos \div CRT_COLS \in 0 .. CRT_ROWS - 1
      /\ crt_pos % CRT_COLS \in 0 .. CRT_COLS - 1
  BY CellsOfPage DEF TypeOK, RowOf, ColOf
<1>2. \A r \in 0 .. CRT_ROWS - 1, c \in 0 .. CRT_COLS - 1 :
        crt_buf[r * CRT_COLS + c] \in Glyph
  BY CellsOfPage DEF TypeOK
<1> QED  BY <1>1, <1>2 DEF Page!Init, Page!Line

\* Every step of the display is one of the terminal.
LEMMA DisplayStep == TypeOK /\ [Next]_crt => [Page!Next]_(Page!vars)
<1> SUFFICES ASSUME TypeOK, [Next]_crt PROVE Page!Next \/ UNCHANGED Page!vars
  OBVIOUS
<1>1. ASSUME NEW c \in Char, cga_putc(c) PROVE Page!Next
  <2>1. OnScreen(Screen)
    BY DEF TypeOK, OnScreen, Screen
  <2>2. View(Screen) = Page!Now
    BY DEF View, Screen, PageOf, RowOf, ColOf, Page!Now
  <2>3. Page!Becomes(View(Shown(Screen, c)))
    BY <1>1 DEF cga_putc, View, PageOf, RowOf, ColOf, Page!Becomes
  <2>4. CASE c = BS
    <3>1. View(Shown(Screen, c)) = Page!Erased(Page!Now)
      BY <2>1, <2>2, <2>4, ShownCases, BackView
    <3>2. Page!Erase
      BY <2>3, <3>1 DEF Page!Erase, Page!Becomes
    <3> QED  BY <3>2 DEF Page!Next
  <2>5. CASE c = LF
    <3>1. View(Shown(Screen, c)) = Page!Down(Page!Now)
      BY <2>1, <2>2, <2>5, ShownCases, LineFeedView
    <3>2. Page!NewLine
      BY <2>3, <3>1 DEF Page!NewLine, Page!Becomes
    <3> QED  BY <3>2 DEF Page!Next
  <2>6. CASE c = CR
    <3>1. View(Shown(Screen, c)) = [Page!Now EXCEPT !.col = 0]
      BY <2>1, <2>2, <2>6, ShownCases, ReturnView
    <3>2. Page!Return
      BY <2>3, <3>1 DEF Page!Return, Page!Becomes
    <3> QED  BY <3>2 DEF Page!Next
  <2>7. CASE c = TAB
    <3>1. View(Shown(Screen, c)) =
            Page!Blanked(Page!Blanked(Page!Blanked(Page!Blanked(Page!Blanked(Page!Now)))))
      BY <2>1, <2>2, <2>7, ShownCases, SpacesView
    <3>2. Page!Tab
      BY <2>3, <3>1 DEF Page!Tab, Page!Becomes
    <3> QED  BY <3>2 DEF Page!Next
  <2>8. CASE c \in Glyph
    <3>1. View(Shown(Screen, c)) = Page!Written(Page!Now, c)
      BY <2>1, <2>2, <2>8, ShownCases, WriteView
    <3>2. Page!Write(c)
      BY <2>3, <3>1 DEF Page!Write, Page!Becomes
    <3> QED  BY <2>8, <3>2 DEF Page!Next
  <2> QED  BY <2>4, <2>5, <2>6, <2>7, <2>8 DEF Char
<1>2. CASE UNCHANGED crt
  BY <1>2 DEF crt, Page!vars
<1> QED  BY <1>1, <1>2 DEF Next

\* The page with its cursor is what Terminal promises: one position in a flat
\* array, with one test for the end of it, wraps, scrolls and erases as a
\* page of lines does, for any number of lines and columns.
THEOREM CgaImplementsTerminal == Spec => ImplementsTerminal
<1>1. cga_init => TypeOK
  BY DEF cga_init, TypeOK
<1> QED  BY <1>1, ScreenIsPage, DisplayStep, CursorStaysOnScreen, PTL DEF Spec, ImplementsTerminal, Page!Spec
-----------------------------------------------------------------------------
(* The console's output.                                                   *)

\* The characters that are still to be output: a tab stands for its blanks.
Rest == IF todo = <<TAB>> THEN Sent(TAB) ELSE todo

\* What serial port and printer have yet to get of them.
SerialRest == IF opc = "serial_putc" THEN Rest ELSE IF opc = "idle" THEN << >> ELSE Tail(Rest)
PaperRest ==
  IF opc \in {"serial_putc", "lpt_putc"} THEN Rest
  ELSE IF opc = "idle" THEN << >> ELSE Tail(Rest)

\* The screen s after up to five blanks.
Spaced(k, s) ==
  CASE k = 0 -> s
    [] k = 1 -> Space(s)
    [] k = 2 -> Space(Space(s))
    [] k = 3 -> Space(Space(Space(s)))
    [] k = 4 -> Space(Space(Space(Space(s))))
    [] OTHER -> Spaces(s)

\* cons_putc is idle, at a character of the caller's, or at one of the blanks
\* of a tab; the display needs what is left to show what it is to show.
Reentered ==
  \/ opc = "idle" /\ todo = << >> /\ shown = Screen
  \/ opc # "idle" /\ \E c \in Char : todo = <<c>> /\ shown = Shown(Screen, c)
  \/ opc # "idle" /\ \E n \in 1 .. 5 : todo = Blanks(n) /\ shown = Spaced(n, Screen)

OInv ==
  /\ TypeOK
  /\ opc \in {"idle", "serial_putc", "lpt_putc", "cga_putc"}
  /\ thr \in Seq(Char) /\ sent \in Seq(Char) /\ paper \in Seq(Char) /\ due \in Seq(Char)
  /\ Reentered
  /\ paper \o PaperRest = due
  /\ gaveUp \in BOOLEAN
  /\ ~gaveUp => (sent \o thr) \o SerialRest = due

\* Blanks, counted down.
LEMMA BlanksFacts ==
  ASSUME NEW n \in 1 .. 5
  PROVE  /\ Blanks(n) \in Seq(Char) /\ Len(Blanks(n)) = n /\ Blanks(n) # << >>
         /\ Head(Blanks(n)) = Blank /\ Tail(Blanks(n)) = Blanks(n - 1)
         /\ Blanks(n) # <<TAB>>
<1>1. Blank \in Char /\ Blank # TAB
  BY DEF Char, Glyph, Blank, TAB
<1>2. Blanks(n) \in Seq(Char) /\ Len(Blanks(n)) = n
  BY <1>1 DEF Blanks
<1>3. Blanks(n)[1] = Blank /\ Head(Blanks(n)) = Blank
  BY <1>2 DEF Blanks
<1>4. Tail(Blanks(n)) = Blanks(n - 1)
  <2>1. /\ Tail(Blanks(n)) \in Seq(Char) /\ Len(Tail(Blanks(n))) = n - 1
        /\ \A k \in 1 .. n - 1 : Tail(Blanks(n))[k] = Blanks(n)[k + 1]
    <3> DEFINE b == Blanks(n)
    <3> HIDE DEF b
    <3>1. b \in Seq(Char) /\ Len(b) = n /\ b # << >>
      BY <1>2 DEF b
    <3> QED  BY <3>1, HeadTailProperties DEF b
  <2>2. \A k \in 1 .. n - 1 : Tail(Blanks(n))[k] = Blank
    <3>1. \A k \in 1 .. n - 1 : Blanks(n)[k + 1] = Blank
      BY DEF Blanks
    <3> QED  BY <2>1, <3>1
  <2>3. /\ Blanks(n - 1) \in Seq(Char) /\ Len(Blanks(n - 1)) = n - 1
        /\ \A k \in 1 .. n - 1 : Blanks(n - 1)[k] = Blank
    BY <1>1 DEF Blanks
  <2> DEFINE b == Tail(Blanks(n))  c == Blanks(n - 1)
  <2>4. b \in Seq(Char) /\ c \in Seq(Char) /\ Len(b) = Len(c) /\ \A k \in 1 .. Len(b) : b[k] = c[k]
    BY <2>1, <2>2, <2>3
  <2> HIDE DEF b, c
  <2>5. b = c
    BY <2>4, SeqEqual
  <2> QED  BY <2>5 DEF b, c
<1> QED  BY <1>1, <1>2, <1>3, <1>4

\* No blanks are none.
LEMMA NoBlanks == Blanks(0) = << >>
  BY DEF Blanks

\* What goes out for a character starts with it, and behind a tab are blanks.
LEMMA SentFacts ==
  ASSUME NEW c \in Char
  PROVE  /\ Sent(c) \in Seq(Char) /\ Sent(c) # << >> /\ Head(Sent(c)) = c
         /\ Tail(Sent(c)) = IF c = TAB THEN Blanks(5) ELSE << >>
<1>1. CASE c # TAB
  BY <1>1 DEF Sent
<1>2. CASE c = TAB
  <2>1. Blanks(5) \in Seq(Char)
    BY BlanksFacts
  <2> DEFINE b == Blanks(5)
  <2> HIDE DEF b
  <2>2. <<TAB>> \o b \in Seq(Char) /\ <<TAB>> \o b # << >>
        /\ Head(<<TAB>> \o b) = TAB /\ Tail(<<TAB>> \o b) = b
    BY <1>2, <2>1 DEF b
  <2> QED  BY <1>2, <2>2 DEF Sent, b
<1> QED  BY <1>1, <1>2

\* A character less to come is one more that came.
LEMMA MovesOver ==
  ASSUME NEW a \in Seq(Char), NEW t \in Seq(Char), t # << >>
  PROVE  Append(a, Head(t)) \o Tail(t) = a \o t /\ (a \o <<Head(t)>>) \o Tail(t) = a \o t
<1>1. Head(t) \in Char /\ Tail(t) \in Seq(Char) /\ Len(Tail(t)) = Len(t) - 1 /\ Len(t) >= 1
  OBVIOUS
<1>2. Append(a, Head(t)) = a \o <<Head(t)>>
  BY <1>1
<1>3. t = <<Head(t)>> \o Tail(t)
  BY <1>1
<1>4. (a \o <<Head(t)>>) \o Tail(t) = a \o (<<Head(t)>> \o Tail(t))
  BY <1>1
<1> QED  BY <1>2, <1>3, <1>4

\* While cons_putc runs there is a character first, and how the rest goes on.
LEMMA RestFacts ==
  ASSUME OInv, opc # "idle"
  PROVE  /\ Rest \in Seq(Char) /\ Rest # << >> /\ Head(Rest) = Head(todo)
         /\ Head(todo) \in Char
         /\ Tail(Rest) = IF Head(todo) = TAB THEN Blanks(5) \o Tail(todo) ELSE Tail(todo)
<1>1. ASSUME NEW c \in Char, todo = <<c>> PROVE
         /\ Rest = Sent(c) /\ Head(todo) = c /\ Tail(todo) = << >>
  <2>1. Head(todo) = c /\ Tail(todo) = << >>
    BY <1>1
  <2>2. CASE c = TAB  BY <1>1, <2>1, <2>2 DEF Rest
  <2>3. CASE c # TAB
    <3>1. todo # <<TAB>>
      BY <1>1, <2>1, <2>3
    <3> QED  BY <1>1, <2>1, <2>3, <3>1 DEF Rest, Sent
  <2> QED  BY <2>2, <2>3
<1>2. Blanks(5) \in Seq(Char) /\ Blanks(5) \o << >> = Blanks(5)
  BY BlanksFacts
<1>3. CASE \E c \in Char : todo = <<c>>
  BY <1>1, <1>2, <1>3, SentFacts
<1>4. CASE \E n \in 1 .. 5 : todo = Blanks(n)
  <2>1. PICK n \in 1 .. 5 : todo = Blanks(n)
    BY <1>4
  <2>2. Rest = todo
    BY <2>1, BlanksFacts DEF Rest
  <2>3. Blank \in Char /\ Blank # TAB
    BY DEF Char, Glyph, Blank, TAB
  <2> QED  BY <2>1, <2>2, <2>3, BlanksFacts
<1> QED  BY <1>3, <1>4 DEF OInv, Reentered

\* The first of some blanks.
LEMMA SpacedFirst ==
  ASSUME NEW n \in 1 .. 5, NEW s
  PROVE  Spaced(n, s) = Spaced(n - 1, Space(s))
<1>1. n = 1 \/ n = 2 \/ n = 3 \/ n = 4 \/ n = 5
  OBVIOUS
<1> QED  BY <1>1 DEF Spaced, Spaces

\* The screens at the start are screens.
LEMMA OutputStarts == OInit => OInv
<1> SUFFICES ASSUME OInit PROVE OInv
  OBVIOUS
<1>1. PICK s \in FirstScreens : crt_buf = s.buf /\ crt_pos = s.pos /\ shown = s
  BY DEF OInit
<1>2. s \in [buf : [Cell -> Glyph], pos : Cell]
  BY <1>1, OutputAssumption
<1>3. TypeOK /\ shown = Screen
  BY <1>1, <1>2 DEF TypeOK, Screen
<1>4. << >> \in Seq(Char) /\ << >> \o << >> = << >>
  OBVIOUS
<1>5. Reentered
  BY <1>3 DEF OInit, Reentered
<1>6. PaperRest = << >> /\ SerialRest = << >>
  BY DEF OInit, PaperRest, SerialRest
<1> QED  BY <1>3, <1>4, <1>5, <1>6 DEF OInit, OInv

\* cputchar: what is asked for is what is now to do.
LEMMA StepOfCall ==
  ASSUME OInv, NEW c \in Char, cputchar(c)
  PROVE  OInv' /\ UNCHANGED crt
<1>1. /\ opc = "idle" /\ opc' = "serial_putc" /\ todo' = <<c>>
      /\ due' = due \o Sent(c) /\ shown' = Shown(shown, c)
      /\ crt_buf' = crt_buf /\ crt_pos' = crt_pos /\ UNCHANGED crt
      /\ thr' = thr /\ sent' = sent /\ paper' = paper /\ gaveUp' = gaveUp
  BY DEF cputchar, devices, crt
<1>2. shown = Screen /\ Screen' = Screen
  BY <1>1 DEF OInv, Reentered, Screen
<1>3. Reentered'
  BY <1>1, <1>2 DEF Reentered
<1>4. Rest' = Sent(c)
  <2>1. CASE c = TAB  BY <1>1, <2>1 DEF Rest
  <2>2. CASE c # TAB
    <3>1. <<c>>[1] # TAB /\ <<c>> # <<TAB>>
      BY <2>2
    <3> QED  BY <1>1, <2>2, <3>1 DEF Rest, Sent
  <2> QED  BY <2>1, <2>2
<1>5. PaperRest' = Sent(c) /\ SerialRest' = Sent(c) /\ PaperRest = << >> /\ SerialRest = << >>
  BY <1>1, <1>4 DEF PaperRest, SerialRest
<1>6. /\ paper \in Seq(Char) /\ thr \in Seq(Char) /\ sent \in Seq(Char)
      /\ sent \o thr \in Seq(Char) /\ Sent(c) \in Seq(Char)
  BY SentFacts DEF OInv
<1>7. paper = due /\ (~gaveUp => sent \o thr = due)
  BY <1>5, <1>6 DEF OInv
<1>8. due' \in Seq(Char)
  BY <1>1, <1>6 DEF OInv
<1>9. TypeOK'
  BY <1>1 DEF OInv, TypeOK
<1> QED  BY <1>1, <1>3, <1>5, <1>6, <1>7, <1>8, <1>9 DEF OInv

\* The devices and the waits change nothing of what is to be output.
LEMMA StepOfDevice ==
  ASSUME OInv, UartSends \/ PrinterTurns \/ serial_wait \/ lpt_wait \/ UNCHANGED ovars
  PROVE  OInv' /\ UNCHANGED crt
<1>1. /\ opc' = opc /\ todo' = todo /\ due' = due /\ shown' = shown
      /\ crt_buf' = crt_buf /\ crt_pos' = crt_pos /\ UNCHANGED crt
      /\ paper' = paper /\ gaveUp' = gaveUp
      /\ \/ sent' = sent /\ thr' = thr
         \/ sent' = sent \o thr /\ thr' = << >>
  BY DEF UartSends, PrinterTurns, serial_wait, lpt_wait, ovars, crt, devices, asked
<1>2. Rest' = Rest /\ Screen' = Screen
  BY <1>1 DEF Rest, Screen
<1>3. PaperRest' = PaperRest /\ SerialRest' = SerialRest
  BY <1>1, <1>2 DEF PaperRest, SerialRest
<1>4. Reentered'
  BY <1>1, <1>2 DEF OInv, Reentered
<1>5. thr' \in Seq(Char) /\ sent' \in Seq(Char) /\ sent' \o thr' = sent \o thr
  <2> DEFINE a == sent \o thr
  <2>1. thr \in Seq(Char) /\ sent \in Seq(Char)
    BY DEF OInv
  <2>2. a \in Seq(Char)
    BY <2>1
  <2> HIDE DEF a
  <2>3. a \o << >> = a /\ << >> \in Seq(Char)
    BY <2>2
  <2> QED  BY <1>1, <2>1, <2>2, <2>3 DEF a
<1>6. TypeOK'
  BY <1>1 DEF OInv, TypeOK
<1> QED  BY <1>1, <1>3, <1>4, <1>5, <1>6 DEF OInv

\* The transmit register is written, over a character when the wait ran out.
LEMMA StepOfSerial ==
  ASSUME OInv, serial_write
  PROVE  OInv' /\ UNCHANGED crt
<1>1. /\ opc = "serial_putc" /\ opc' = "lpt_putc" /\ todo' = todo
      /\ due' = due /\ shown' = shown
      /\ crt_buf' = crt_buf /\ crt_pos' = crt_pos /\ UNCHANGED crt
      /\ paper' = paper /\ sent' = sent /\ thr' = <<Head(todo)>>
      /\ gaveUp' = (gaveUp \/ thr # << >>)
  BY DEF serial_write, crt, asked
<1>2. Rest' = Rest /\ Screen' = Screen
  BY <1>1 DEF Rest, Screen
<1>3. PaperRest' = PaperRest /\ SerialRest = Rest /\ SerialRest' = Tail(Rest)
  BY <1>1, <1>2 DEF PaperRest, SerialRest
<1>4. Reentered'
  BY <1>1, <1>2 DEF OInv, Reentered
<1>5. Rest \in Seq(Char) /\ Rest # << >> /\ Head(Rest) = Head(todo) /\ Head(todo) \in Char
  BY <1>1, RestFacts
<1>6. thr' \in Seq(Char)
  BY <1>1, <1>5
<1>7. ~gaveUp' => (sent' \o thr') \o SerialRest' = due'
  <2> SUFFICES ASSUME ~gaveUp' PROVE (sent' \o thr') \o SerialRest' = due'
    OBVIOUS
  <2>1. ~gaveUp /\ thr = << >>
    BY <1>1
  <2>2. sent \in Seq(Char) /\ sent \o << >> = sent
    BY DEF OInv
  <2>3. sent \o Rest = due
    BY <1>3, <2>1, <2>2 DEF OInv
  <2>4. (sent \o <<Head(Rest)>>) \o Tail(Rest) = sent \o Rest
    BY <1>5, <2>2, MovesOver
  <2> QED  BY <1>1, <1>3, <1>5, <2>3, <2>4
<1>8. TypeOK'
  BY <1>1 DEF OInv, TypeOK
<1>9. gaveUp' \in BOOLEAN
  BY <1>1
<1> QED  BY <1>1, <1>3, <1>4, <1>6, <1>7, <1>8, <1>9 DEF OInv

\* The printer takes the character.
LEMMA StepOfPrinter ==
  ASSUME OInv, lpt_strobe
  PROVE  OInv' /\ UNCHANGED crt
<1>1. /\ opc = "lpt_putc" /\ opc' = "cga_putc" /\ todo' = todo
      /\ due' = due /\ shown' = shown
      /\ crt_buf' = crt_buf /\ crt_pos' = crt_pos /\ UNCHANGED crt
      /\ paper' = Append(paper, Head(todo)) /\ sent' = sent /\ thr' = thr
      /\ gaveUp' = gaveUp
  BY DEF lpt_strobe, crt, asked, devices
<1>2. Rest' = Rest /\ Screen' = Screen
  BY <1>1 DEF Rest, Screen
<1>3. /\ PaperRest = Rest /\ PaperRest' = Tail(Rest)
      /\ SerialRest = Tail(Rest) /\ SerialRest' = Tail(Rest)
  BY <1>1, <1>2 DEF PaperRest, SerialRest
<1>4. Reentered'
  BY <1>1, <1>2 DEF OInv, Reentered
<1>5. Rest \in Seq(Char) /\ Rest # << >> /\ Head(Rest) = Head(todo) /\ Head(todo) \in Char
  BY <1>1, RestFacts
<1>6. paper \in Seq(Char) /\ paper \o Rest = due
  BY <1>3 DEF OInv
<1>7. paper' \in Seq(Char)
  BY <1>1, <1>5, <1>6
<1>8. paper' \o PaperRest' = due'
  BY <1>1, <1>3, <1>5, <1>6, MovesOver
<1>9. TypeOK'
  BY <1>1 DEF OInv, TypeOK
<1> QED  BY <1>1, <1>3, <1>4, <1>7, <1>8, <1>9 DEF OInv

\* A tab gives way to its blanks.
LEMMA StepOfTab ==
  ASSUME OInv, cga_tab
  PROVE  OInv' /\ UNCHANGED crt
<1>1. /\ opc = "cga_putc" /\ opc' = "serial_putc" /\ Head(todo) = TAB
      /\ todo' = Blanks(5) \o Tail(todo)
      /\ due' = due /\ shown' = shown
      /\ crt_buf' = crt_buf /\ crt_pos' = crt_pos /\ UNCHANGED crt
      /\ paper' = paper /\ sent' = sent /\ thr' = thr
      /\ gaveUp' = gaveUp
  BY DEF cga_tab, crt, asked, devices
<1>2. todo = <<TAB>> /\ shown = Shown(Screen, TAB)
  <2>1. Blank # TAB
    BY DEF Blank, TAB
  <2>2. \A n \in 1 .. 5 : Head(Blanks(n)) = Blank
    BY BlanksFacts
  <2>3. PICK c \in Char : todo = <<c>> /\ shown = Shown(Screen, c)
    BY <1>1, <2>1, <2>2 DEF OInv, Reentered
  <2> QED  BY <1>1, <2>3
<1>3. todo' = Blanks(5)
  <2>1. Tail(todo) = << >> /\ Blanks(5) \o << >> = Blanks(5)
    BY <1>2, BlanksFacts
  <2> QED  BY <1>1, <2>1
<1>4. Tail(Rest) = Blanks(5)
  BY <1>1, <1>3, RestFacts
<1>5. Rest' = Blanks(5)
  BY <1>3, BlanksFacts DEF Rest
<1>6. /\ PaperRest = Blanks(5) /\ PaperRest' = Blanks(5)
      /\ SerialRest = Blanks(5) /\ SerialRest' = Blanks(5)
  BY <1>1, <1>4, <1>5 DEF PaperRest, SerialRest
<1>7. Screen' = Screen /\ TypeOK'
  BY <1>1 DEF Screen, OInv, TypeOK
<1>8. Reentered'
  <2>1. Shown(Screen, TAB) = Spaces(Screen)
    BY <1>7, ShownCases DEF OInv, TypeOK, OnScreen, Screen
  <2>2. shown' = Spaced(5, Screen')
    BY <1>1, <1>2, <1>7, <2>1 DEF Spaced
  <2>3. opc' # "idle" /\ 5 \in 1 .. 5
    BY <1>1
  <2>4. \E n \in 1 .. 5 : todo' = Blanks(n) /\ shown' = Spaced(n, Screen')
    BY <1>3, <2>2, <2>3
  <2> QED  BY <2>3, <2>4 DEF Reentered
<1> QED  BY <1>1, <1>6, <1>7, <1>8 DEF OInv

\* The display shows a character; the last blank of a tab ends the call.
LEMMA StepOfDisplay ==
  ASSUME OInv, cga_write
  PROVE  OInv' /\ Next
<1>1. /\ opc = "cga_putc" /\ Head(todo) # TAB /\ cga_putc(Head(todo))
      /\ todo' = Tail(todo) /\ due' = due /\ shown' = shown
      /\ opc' = IF Tail(todo) = << >> THEN "idle" ELSE "serial_putc"
      /\ paper' = paper /\ sent' = sent /\ thr' = thr
      /\ gaveUp' = gaveUp
  BY DEF cga_write, asked, devices
<1>2. Head(todo) \in Char /\ Tail(Rest) = Tail(todo)
  BY <1>1, RestFacts
<1>3. Next
  BY <1>1, <1>2 DEF Next
<1>4. TypeOK'
  BY <1>3, CursorStep DEF OInv
<1>5. Screen' = Shown(Screen, Head(todo))
  <2>1. OnScreen(Screen)
    BY DEF OInv, TypeOK, OnScreen, Screen
  <2>2. OnScreen(Shown(Screen, Head(todo)))
    BY <1>2, <2>1, ShownOnScreen
  <2> QED  BY <1>1, <2>2 DEF cga_putc, Screen, OnScreen
<1>6. Reentered' /\ Rest' = todo'
  <2>1. CASE \E c \in Char : todo = <<c>> /\ shown = Shown(Screen, c)
    <3>1. PICK c \in Char : todo = <<c>> /\ shown = Shown(Screen, c)
      BY <2>1
    <3>2. Head(todo) = c /\ Tail(todo) = << >> /\ << >> # <<TAB>>
      BY <3>1
    <3> QED  BY <1>1, <1>5, <3>1, <3>2 DEF Reentered, Rest
  <2>2. CASE \E n \in 1 .. 5 : todo = Blanks(n) /\ shown = Spaced(n, Screen)
    <3>1. PICK n \in 1 .. 5 : todo = Blanks(n) /\ shown = Spaced(n, Screen)
      BY <2>2
    <3>2. Head(todo) = Blank /\ todo' = Blanks(n - 1)
      BY <1>1, <3>1, BlanksFacts
    <3>3. Screen' = Space(Screen)
      <4>1. Blank \in Glyph
        BY DEF Glyph
      <4> QED  BY <1>5, <3>2, <4>1, ShownCases DEF Space
    <3>4. shown' = Spaced(n - 1, Screen')
      BY <1>1, <3>1, <3>3, SpacedFirst
    <3>5. CASE n = 1
      <4>1. todo' = << >> /\ opc' = "idle" /\ << >> # <<TAB>>
        BY <1>1, <3>2, <3>5, NoBlanks
      <4>2. shown' = Screen'
        BY <3>4, <3>5 DEF Spaced
      <4> QED  BY <4>1, <4>2 DEF Reentered, Rest
    <3>6. CASE n # 1
      <4>1. n - 1 \in 1 .. 5
        BY <3>6
      <4>2. Blanks(n - 1) # << >> /\ Blanks(n - 1) # <<TAB>>
        BY <4>1, BlanksFacts
      <4>3. opc' # "idle"
        BY <1>1, <3>2, <4>2
      <4> QED  BY <3>2, <3>4, <4>1, <4>2, <4>3 DEF Reentered, Rest
    <3> QED  BY <3>5, <3>6
  <2> QED  BY <1>1, <2>1, <2>2 DEF OInv, Reentered
<1>7. /\ PaperRest = Tail(todo) /\ SerialRest = Tail(todo)
      /\ PaperRest' = Tail(todo) /\ SerialRest' = Tail(todo)
  BY <1>1, <1>2, <1>6 DEF PaperRest, SerialRest
<1>8. opc' \in {"idle", "serial_putc", "lpt_putc", "cga_putc"}
  BY <1>1
<1> QED  BY <1>1, <1>3, <1>4, <1>6, <1>7, <1>8 DEF OInv

\* Every step of the console keeps the invariant and is one of the display.
LEMMA OutputStep == OInv /\ [ONext]_ovars => OInv' /\ [Next]_crt
  BY StepOfCall, StepOfDevice, StepOfSerial, StepOfPrinter, StepOfTab, StepOfDisplay
     DEF ONext, cons_putc

LEMMA OutputHolds == OSpec => []OInv
  BY OutputStarts, OutputStep, PTL DEF OSpec

\* Unless a wait ran out, the serial port carries every character once and in
\* order, those of a tab included, however slow it is.
THEOREM SerialGetsAll == OSpec => []SerialCarriesAll
<1>1. OInv => SerialCarriesAll
  <2> SUFFICES ASSUME OInv, opc = "idle", ~gaveUp PROVE sent \o thr = due
    BY DEF SerialCarriesAll
  <2>1. sent \o thr \in Seq(Char)
    BY DEF OInv
  <2> QED  BY <2>1 DEF OInv, SerialRest
<1> QED  BY <1>1, OutputHolds, PTL

\* Printer and display get what cputchar was called with, whatever the serial
\* port does, and a tab written from inside cga_putc is one written in one go.
THEOREM OutputsAgree == OSpec => []DevicesAgree
<1>1. OInv => DevicesAgree
  <2> SUFFICES ASSUME OInv, opc = "idle" PROVE paper = due /\ Screen = shown
    BY DEF DevicesAgree
  <2>1. paper \in Seq(Char) /\ PaperRest = << >>
    BY DEF OInv, PaperRest
  <2> QED  BY <2>1 DEF OInv, Reentered
<1> QED  BY <1>1, OutputHolds, PTL

\* The display is a terminal under cons_putc too, although a tab is five
\* calls with the other devices' waits between them.
THEOREM OutputImplementsTerminal == OSpec => ImplementsTerminal
<1>1. OInv => TypeOK
  BY DEF OInv
<1> QED  BY <1>1, OutputStarts, OutputStep, OutputHolds, ScreenIsPage, DisplayStep, PTL
         DEF OSpec, ImplementsTerminal, Page!Spec
-----------------------------------------------------------------------------
(* Induction.                                                              *)

\* Any set of naturals but the empty one has a least element.
LEMMA LeastElement ==
  ASSUME NEW T, T \subseteq Nat, T # {}
  PROVE  \E n \in T : \A m \in T : n <= m
<1> DEFINE R == OpToRel(<, Nat)
<1>1. IsWellFoundedOn(R, Nat)
  BY NatLessThanWellFounded
<1>2. \A m, n \in Nat : m < n => <<m, n>> \in R
  BY DEF OpToRel
<1> HIDE DEF R
<1>3. PICK n \in T : \A m \in T : ~(<<m, n>> \in R)
  BY <1>1, WFMin
<1>4. n \in Nat /\ \A m \in T : m \in Nat
  BY <1>3
<1>5. \A m \in T : ~(m < n)
  BY <1>2, <1>3, <1>4
<1> QED  BY <1>3, <1>4, <1>5

\* Induction, for a set in the place of a predicate.
LEMMA Induction ==
  ASSUME NEW S, 0 \in S, \A n \in Nat : n \in S => n + 1 \in S
  PROVE  Nat \subseteq S
<1> SUFFICES ASSUME Nat \ S # {} PROVE FALSE
  OBVIOUS
<1>1. PICK n \in Nat \ S : \A m \in Nat \ S : n <= m
  BY LeastElement
<1>2. n - 1 \in Nat /\ n - 1 \notin Nat \ S
  BY <1>1
<1> QED  BY <1>1, <1>2

\* Min is what it is named for.
LEMMA MinIsLeast ==
  ASSUME NEW T, T \subseteq Nat, T # {}
  PROVE  Min(T) \in T /\ \A m \in T : Min(T) <= m
<1>1. \E n \in T : \A m \in T : n <= m
  BY LeastElement
<1> QED  BY <1>1 DEF Min
-----------------------------------------------------------------------------
(* The display.                                                            *)

\* f is how the screen s changes while n characters of t are printed.
Run(s, t, n, f) ==
  f = [k \in 0 .. n |-> IF k = 0 THEN s ELSE Shown(f[k - 1], t[k])]

\* The recursion of Printed has a solution.
LEMMA RunExists ==
  ASSUME NEW s, NEW t
  PROVE  \A n \in Nat : \E f : Run(s, t, n, f)
<1> DEFINE S == {n \in Nat : \E f : Run(s, t, n, f)}
<1>1. 0 \in S
  <2> DEFINE f == [k \in 0 .. 0 |-> s]
  <2>1. Run(s, t, 0, f)
    BY DEF Run
  <2> QED  BY <2>1
<1>2. ASSUME NEW n \in Nat, n \in S PROVE n + 1 \in S
  <2>1. PICK f : Run(s, t, n, f)
    BY <1>2
  <2> DEFINE g == [k \in 0 .. n + 1 |-> IF k = n + 1 THEN Shown(f[n], t[k]) ELSE f[k]]
  <2>2. ASSUME NEW k \in 0 .. n + 1
        PROVE  g[k] = IF k = 0 THEN s ELSE Shown(g[k - 1], t[k])
    <3>1. CASE k = 0
      BY <2>1, <3>1 DEF Run
    <3>2. CASE k \in 1 .. n
      <4>1. f[k] = Shown(f[k - 1], t[k])
        BY <2>1, <3>2 DEF Run
      <4>2. g[k] = f[k] /\ g[k - 1] = f[k - 1]
        BY <3>2
      <4> QED  BY <4>1, <4>2, <3>2
    <3>3. CASE k = n + 1
      <4>1. g[n] = f[n]
        OBVIOUS
      <4> QED  BY <4>1, <3>3
    <3> QED  BY <3>1, <3>2, <3>3
  <2>3. g = [k \in 0 .. n + 1 |-> IF k = 0 THEN s ELSE Shown(g[k - 1], t[k])]
    <3> HIDE DEF g
    <3>1. g = [k \in 0 .. n + 1 |-> g[k]]
      BY DEF g
    <3> QED  BY <2>2, <3>1
  <2>4. Run(s, t, n + 1, g)
    BY <2>3 DEF Run
  <2> QED  BY <2>4
<1>3. Nat \subseteq S
  <2> HIDE DEF S
  <2> QED  BY <1>1, <1>2, Induction
<1> QED  BY <1>3

\* Printed is the end of such a run.
LEMMA PrintedRun ==
  ASSUME NEW s, NEW t, Len(t) \in Nat
  PROVE  \E f : Run(s, t, Len(t), f) /\ Printed(s, t) = f[Len(t)]
<1>1. PICK f : Run(s, t, Len(t), f)
  BY RunExists
<1> DEFINE after == CHOOSE g : g = [n \in 0 .. Len(t) |->
                       IF n = 0 THEN s ELSE Shown(g[n - 1], t[n])]
<1>2. Run(s, t, Len(t), after)
  BY <1>1 DEF Run
<1>3. Printed(s, t) = after[Len(t)]
  BY DEF Printed
<1> HIDE DEF after
<1> QED  BY <1>2, <1>3

\* The cursor stays on the page whatever is printed.
LEMMA PrintedOnScreen ==
  ASSUME NEW s, OnScreen(s), NEW t \in Seq(Char)
  PROVE  OnScreen(Printed(s, t))
<1>1. PICK f : Run(s, t, Len(t), f) /\ Printed(s, t) = f[Len(t)]
  BY PrintedRun
<1> DEFINE S == {n \in Nat : n <= Len(t) => OnScreen(f[n])}
<1>2. 0 \in S
  BY <1>1 DEF Run
<1>3. ASSUME NEW n \in Nat, n \in S PROVE n + 1 \in S
  <2> SUFFICES ASSUME n + 1 <= Len(t) PROVE OnScreen(f[n + 1])
    OBVIOUS
  <2>1. OnScreen(f[n])
    BY <1>3
  <2>2. f[n + 1] = Shown(f[n], t[n + 1])
    BY <1>1 DEF Run
  <2>3. t[n + 1] \in Char
    OBVIOUS
  <2> QED  BY <2>1, <2>2, <2>3, ShownOnScreen
<1>4. Nat \subseteq S
  <2> HIDE DEF S
  <2> QED  BY <1>2, <1>3, Induction
<1> QED  BY <1>1, <1>4

\* Reading backwards from the cursor, the screen s shows the first n
\* characters of t, as far as there are cells.
Visible(s, n, t) ==
  \A k \in 1 .. n : k <= s.pos => s.buf[s.pos - k] = t[n + 1 - k]

\* A cell that the page holds above its last row, counted back from the cell
\* after the cursor of a full page.
LEMMA CellOfRowAbove ==
  ASSUME CRT_SIZE \in Nat, CRT_COLS \in Nat \ {0}, NEW p \in Nat, NEW k \in Nat, NEW m,
         p + 1 = CRT_SIZE, k >= 1, k <= p + 1 - CRT_COLS, m = p + 1 - CRT_COLS - k
  PROVE  m \in Cell /\ m < CRT_SIZE - CRT_COLS /\ m + CRT_COLS = p + 1 - k
BY DEF Cell

\* A character written is visible and what was visible stays so, across
\* the end of a line and of the page.
LEMMA WriteVisible ==
  ASSUME NEW s, OnScreen(s), NEW g \in Glyph, NEW n \in Nat, NEW t, NEW u,
         Visible(s, n, t), \A k \in 1 .. n : u[k] = t[k], u[n + 1] = g
  PROVE  Visible(Write(s, g), n + 1, u)
<1> DEFINE b == [s.buf EXCEPT ![s.pos] = g]
<1>1. /\ s.pos \in Nat /\ s.pos \in Cell /\ s.pos < CRT_SIZE /\ s.buf \in [Cell -> Glyph]
      /\ CRT_SIZE \in Nat /\ CRT_COLS \in Nat \ {0} /\ CRT_SIZE >= CRT_COLS
  BY ArithmeticOfLines DEF OnScreen, Cell
<1>2. ASSUME NEW k \in 1 .. n + 1, k <= s.pos + 1
      PROVE  b[s.pos + 1 - k] = u[n + 2 - k]
  <2>1. CASE k = 1
    BY <1>1, <2>1 DEF Cell
  <2>2. CASE k # 1
    <3>1. k - 1 \in 1 .. n /\ k - 1 <= s.pos
      BY <1>1, <1>2, <2>2
    <3>2. s.buf[s.pos - (k - 1)] = t[n + 1 - (k - 1)]
      BY <3>1 DEF Visible
    <3>3. s.pos - (k - 1) \in Cell /\ s.pos - (k - 1) # s.pos
      BY <1>1, <3>1 DEF Cell
    <3>4. b[s.pos - (k - 1)] = s.buf[s.pos - (k - 1)]
      BY <1>1, <3>3
    <3>5. n + 1 - (k - 1) \in 1 .. n
      BY <3>1
    <3>6. s.pos - (k - 1) = s.pos + 1 - k /\ n + 1 - (k - 1) = n + 2 - k
      BY <1>1
    <3> QED  BY <3>2, <3>4, <3>5, <3>6
  <2> QED  BY <2>1, <2>2
<1>3. CASE s.pos + 1 < CRT_SIZE
  <2>1. Write(s, g) = [buf |-> b, pos |-> s.pos + 1]
    <3> DEFINE w == [buf |-> b, pos |-> s.pos + 1]
    <3>1. w.pos = s.pos + 1
      OBVIOUS
    <3>2. Write(s, g) = Scrolled(w)
      BY DEF Write
    <3> HIDE DEF b
    <3> QED  BY <1>3, <3>1, <3>2 DEF Scrolled
  <2> HIDE DEF b
  <2> QED  BY <1>1, <1>2, <2>1 DEF Visible
<1>4. CASE ~(s.pos + 1 < CRT_SIZE)
  <2> DEFINE c == [q \in Cell |-> IF q < CRT_SIZE - CRT_COLS
                                    THEN b[q + CRT_COLS] ELSE Blank]
  <2>1. s.pos + 1 = CRT_SIZE
    BY <1>1, <1>4
  <2>2. Write(s, g) = [buf |-> c, pos |-> s.pos + 1 - CRT_COLS]
    <3> DEFINE w == [buf |-> b, pos |-> s.pos + 1]
    <3>1. w.buf = b /\ w.pos = s.pos + 1
      OBVIOUS
    <3>2. Write(s, g) = Scrolled(w)
      BY DEF Write
    <3> HIDE DEF w, b
    <3> DEFINE d == [q \in Cell |-> IF q < CRT_SIZE - CRT_COLS
                                      THEN w.buf[q + CRT_COLS] ELSE Blank]
    <3>3. Scrolled(w) = [buf |-> d, pos |-> w.pos - CRT_COLS]
      BY <1>4, <3>1 DEF Scrolled
    <3>4. d = c
      BY <3>1
    <3> HIDE DEF d, c
    <3> QED  BY <1>1, <3>1, <3>2, <3>3, <3>4
  <2> HIDE DEF b
  <2>3. ASSUME NEW k \in 1 .. n + 1, k <= s.pos + 1 - CRT_COLS
        PROVE  c[s.pos + 1 - CRT_COLS - k] = u[n + 2 - k]
    <3> DEFINE p == s.pos  m == s.pos + 1 - CRT_COLS - k
    <3>1. m \in Cell /\ m < CRT_SIZE - CRT_COLS /\ m + CRT_COLS = p + 1 - k
      <4>1. p \in Nat /\ k \in Nat /\ k >= 1 /\ k <= p + 1 - CRT_COLS /\ p + 1 = CRT_SIZE
        BY <1>1, <2>1, <2>3
      <4>2. m = p + 1 - CRT_COLS - k
        OBVIOUS
      <4> HIDE DEF p, m
      <4> QED  BY <1>1, <4>1, <4>2, CellOfRowAbove
    <3>2. c[m] = b[p + 1 - k]
      <4> HIDE DEF m
      <4> QED  BY <3>1
    <3>3. k <= s.pos + 1
      BY <1>1, <2>3
    <3> QED  BY <1>2, <3>2, <3>3
  <2> HIDE DEF c
  <2> QED  BY <1>1, <2>2, <2>3 DEF Visible
<1> QED  BY <1>3, <1>4

\* Erasing takes the last character away.
LEMMA BackVisible ==
  ASSUME NEW s, OnScreen(s), NEW n \in Nat, NEW t, Visible(s, n + 1, t)
  PROVE  Visible(Back(s), n, t)
<1>1. s.pos \in Nat /\ s.pos \in Cell /\ s.buf \in [Cell -> Glyph] /\ CRT_SIZE \in Nat
  BY ArithmeticOfLines DEF OnScreen, Cell
<1>2. CASE s.pos = 0
  BY <1>2 DEF Visible, Back
<1>3. CASE s.pos # 0
  <2> DEFINE b == [s.buf EXCEPT ![s.pos - 1] = Blank]
  <2>1. Back(s) = [buf |-> b, pos |-> s.pos - 1]
    BY <1>3 DEF Back
  <2>2. ASSUME NEW k \in 1 .. n, k <= s.pos - 1
        PROVE  b[s.pos - 1 - k] = t[n + 1 - k]
    <3>1. s.pos - (k + 1) \in Cell /\ s.pos - (k + 1) # s.pos - 1
      BY <1>1, <2>2 DEF Cell
    <3>2. k + 1 \in 1 .. n + 1 /\ k + 1 <= s.pos
      BY <1>1, <2>2
    <3>3. s.buf[s.pos - (k + 1)] = t[n + 1 + 1 - (k + 1)]
      BY <3>2 DEF Visible
    <3>4. s.pos - (k + 1) = s.pos - 1 - k /\ n + 1 + 1 - (k + 1) = n + 1 - k
      BY <1>1
    <3> QED  BY <1>1, <3>1, <3>3, <3>4
  <2> HIDE DEF b
  <2> QED  BY <1>1, <2>1, <2>2 DEF Visible
<1> QED  BY <1>2, <1>3

\* A text without control characters is visible once it is printed.
LEMMA PrintedVisible ==
  ASSUME NEW s, OnScreen(s), NEW t \in Seq(Glyph)
  PROVE  Visible(Printed(s, t), Len(t), t)
<1>1. PICK f : Run(s, t, Len(t), f) /\ Printed(s, t) = f[Len(t)]
  BY PrintedRun
<1> DEFINE S == {n \in Nat : n <= Len(t) => OnScreen(f[n]) /\ Visible(f[n], n, t)}
<1>2. 0 \in S
  BY <1>1 DEF Run, Visible
<1>3. ASSUME NEW n \in Nat, n \in S PROVE n + 1 \in S
  <2> SUFFICES ASSUME n + 1 <= Len(t)
               PROVE  OnScreen(f[n + 1]) /\ Visible(f[n + 1], n + 1, t)
    OBVIOUS
  <2>1. OnScreen(f[n]) /\ Visible(f[n], n, t)
    BY <1>3
  <2>2. t[n + 1] \in Glyph
    OBVIOUS
  <2>3. f[n + 1] = Shown(f[n], t[n + 1])
    BY <1>1 DEF Run
  <2>4. f[n + 1] = Write(f[n], t[n + 1])
    BY <2>2, <2>3, ShownCases
  <2> QED  BY <2>1, <2>2, <2>4, WriteOnScreen, WriteVisible
<1>4. Nat \subseteq S
  <2> HIDE DEF S
  <2> QED  BY <1>2, <1>3, Induction
<1> QED  BY <1>1, <1>4
-----------------------------------------------------------------------------
(* The stack.                                                              *)

Early == {"i386_init", "test_backtrace"}
Functions == Early \cup {"monitor", "mon_backtrace", "mon_help", "mon_kerninfo",
                         "debuginfo_eip", "_panic"}
Frames == [fn : Functions, arg : Int, ret : Functions \cup {"entry.S"}, ebp : Nat]

\* A stack as i386_init and what it calls build it: a frame has the function
\* and the place of the frame below it.  There is no way back to
\* test_backtrace but through itself and i386_init.
Linked(cs) ==
  /\ cs \in Seq(Frames)
  /\ \A k \in 1 .. Len(cs) :
       /\ cs[k].ebp = k - 1
       /\ cs[k].ret = IF k = 1 THEN "entry.S" ELSE cs[k - 1].fn
       /\ cs[k].fn = "i386_init" <=> k = 1
       /\ cs[k].fn = "test_backtrace" => \A j \in 1 .. k : cs[j].fn \in Early

\* A call links the new frame.
LEMMA CalledLinked ==
  ASSUME NEW cs, Linked(cs), Len(cs) >= 1,
         NEW fn \in Functions \ {"i386_init"}, NEW arg \in Int,
         fn = "test_backtrace" => \A j \in 1 .. Len(cs) : cs[j].fn \in Early
  PROVE  /\ Linked(Called(cs, fn, arg))
         /\ Len(Called(cs, fn, arg)) = Len(cs) + 1
         /\ \A k \in 1 .. Len(cs) : Called(cs, fn, arg)[k] = cs[k]
         /\ Called(cs, fn, arg)[Len(cs) + 1].fn = fn
         /\ Called(cs, fn, arg)[Len(cs) + 1].arg = arg
         /\ Called(cs, fn, arg)[Len(cs) + 1].ret = cs[Len(cs)].fn
<1> DEFINE f == Frame(fn, arg, cs[Len(cs)].fn, Len(cs))
           ds == Append(cs, f)
<1>1. Called(cs, fn, arg) = ds
  BY DEF Called
<1>2. cs \in Seq(Frames) /\ Len(cs) \in Nat /\ cs[Len(cs)] \in Frames
  BY DEF Linked
<1>3. f \in Frames
  BY <1>2 DEF Frame, Frames
<1>4. f.fn = fn /\ f.arg = arg /\ f.ret = cs[Len(cs)].fn /\ f.ebp = Len(cs)
  BY DEF Frame
<1> HIDE DEF f
<1>5. /\ ds \in Seq(Frames) /\ Len(ds) = Len(cs) + 1
      /\ \A k \in 1 .. Len(cs) : ds[k] = cs[k]
      /\ ds[Len(cs) + 1] = f
  BY <1>2, <1>3
<1> HIDE DEF ds
<1>6. ASSUME NEW k \in 1 .. Len(ds)
      PROVE  /\ ds[k].ebp = k - 1
             /\ ds[k].ret = IF k = 1 THEN "entry.S" ELSE ds[k - 1].fn
             /\ ds[k].fn = "i386_init" <=> k = 1
             /\ ds[k].fn = "test_backtrace" => \A j \in 1 .. k : ds[j].fn \in Early
  <2>1. CASE k \in 1 .. Len(cs)
    <3>1. ds[k] = cs[k] /\ \A j \in 1 .. k : ds[j] = cs[j]
      BY <1>2, <1>5, <2>1
    <3>2. k # 1 => k - 1 \in 1 .. Len(cs) /\ ds[k - 1] = cs[k - 1]
      BY <1>2, <1>5, <2>1
    <3> QED  BY <2>1, <3>1, <3>2 DEF Linked
  <2>2. CASE k = Len(cs) + 1
    <3>1. ds[k] = f /\ k # 1 /\ k - 1 = Len(cs) /\ ds[k - 1] = cs[Len(cs)]
      BY <1>2, <1>5, <2>2
    <3>2. fn = "test_backtrace" => \A j \in 1 .. k : ds[j].fn \in Early
      <4>1. ASSUME fn = "test_backtrace", NEW j \in 1 .. k PROVE ds[j].fn \in Early
        <5>1. CASE j \in 1 .. Len(cs)
          BY <1>5, <4>1, <5>1
        <5>2. CASE j = k
          BY <1>4, <3>1, <4>1, <5>2 DEF Early
        <5> QED  BY <1>2, <2>2, <5>1, <5>2
      <4> QED  BY <4>1
    <3> QED  BY <1>2, <1>4, <2>2, <3>1, <3>2
  <2> QED  BY <1>2, <1>5, <2>1, <2>2
<1> QED  BY <1>1, <1>4, <1>5, <1>6 DEF Linked

\* A return leaves the frames below.
LEMMA FrontLinked ==
  ASSUME NEW cs, Linked(cs), Len(cs) >= 1
  PROVE  /\ Linked(Front(cs))
         /\ Len(Front(cs)) = Len(cs) - 1
         /\ \A k \in 1 .. Len(cs) - 1 : Front(cs)[k] = cs[k]
<1>1. cs \in Seq(Frames) /\ Len(cs) \in Nat
  BY DEF Linked
<1>2. /\ Front(cs) \in Seq(Frames) /\ Len(Front(cs)) = Len(cs) - 1
      /\ \A k \in 1 .. Len(cs) - 1 : Front(cs)[k] = cs[k]
  <2> DEFINE m == Len(cs) - 1
  <2>1. m \in Nat /\ 1 \in Int /\ m \in Int /\ \A j \in 1 .. m : cs[j] \in Frames
    BY <1>1
  <2>2. Front(cs) = SubSeq(cs, 1, m)
    BY DEF Front
  <2> HIDE DEF m
  <2>3. /\ SubSeq(cs, 1, m) \in Seq(Frames)
        /\ Len(SubSeq(cs, 1, m)) = IF 1 <= m THEN m - 1 + 1 ELSE 0
        /\ \A j \in 1 .. m - 1 + 1 : SubSeq(cs, 1, m)[j] = cs[1 + j - 1]
    BY <2>1, SubSeqProperties
  <2>4. /\ (IF 1 <= m THEN m - 1 + 1 ELSE 0) = m
        /\ 1 .. m - 1 + 1 = 1 .. m
        /\ \A j \in 1 .. m : 1 + j - 1 = j
    BY <2>1
  <2>5. \A j \in 1 .. m : SubSeq(cs, 1, m)[j] = cs[j]
    BY <2>3, <2>4
  <2> QED  BY <2>2, <2>3, <2>4, <2>5 DEF m
<1>3. ASSUME NEW k \in 1 .. Len(cs) - 1
      PROVE  /\ k \in 1 .. Len(cs) /\ Front(cs)[k] = cs[k]
             /\ \A j \in 1 .. k : Front(cs)[j] = cs[j]
             /\ k # 1 => Front(cs)[k - 1] = cs[k - 1]
  BY <1>1, <1>2
<1> QED  BY <1>2, <1>3 DEF Linked

\* Where the kernel is when the monitor runs, and when test_backtrace does.
InMonitor == {"monitor", "loop", "readline", "gobble", "scan", "lookup"}
InTest == {"test_backtrace", "leaving"}

\* The function that runs is on top of the stack.
AtTop(cs, at) ==
  /\ at \in InMonitor \cup InTest \cup {"entry", "backtrace", "command", "panic"}
  /\ at = "entry" => cs = << >>
  /\ at # "entry" => Len(cs) >= 2
  /\ at \in InMonitor => cs[Len(cs)].fn = "monitor"
  /\ at \in InTest => cs[Len(cs)].fn = "test_backtrace"
  /\ at = "backtrace" =>
       cs[Len(cs)].fn = "mon_backtrace" /\ cs[Len(cs)].ret \in {"test_backtrace", "monitor"}
  /\ at = "command" =>
       cs[Len(cs)].fn \in {"mon_help", "mon_kerninfo"} /\ cs[Len(cs)].ret = "monitor"
  /\ at = "panic" => cs[Len(cs)].fn = "_panic" /\ cs[Len(cs)].arg > 0

\* The walk of mon_backtrace is at the frame ebp, and has the ones above.
Walk(cs, at, e, t) ==
  /\ e \in 0 .. Len(cs)
  /\ t \in Seq((Functions \cup {"entry.S"}) \X Int)
  /\ at # "backtrace" => e = 0 /\ t = << >>
  /\ at = "backtrace" =>
       /\ Len(t) = Len(cs) - e
       /\ \A n \in 1 .. Len(t) :
            t[n] = <<cs[Len(cs) + 1 - n].ret, cs[Len(cs) + 1 - n].arg>>

StackInv ==
  /\ Linked(calls)
  /\ AtTop(calls, kpc)
  /\ Walk(calls, kpc, ebp, trace)
  /\ argc \in Nat

\* What PanicNeverReturns says of a step from the stack cs to ds.
Survives(cs, ds) ==
  \A k \in DOMAIN cs : cs[k].fn = "_panic" =>
    k < Len(ds) /\ SubSeq(ds, 1, k) = SubSeq(cs, 1, k)

\* The panics survive a step that leaves the lowest m frames and that they
\* are among, and puts another one above.
LEMMA LowerFramesSurvive ==
  ASSUME NEW cs \in Seq(Frames), NEW ds \in Seq(Frames), NEW m \in Nat,
         m <= Len(cs), m < Len(ds), \A k \in 1 .. m : ds[k] = cs[k],
         \A k \in 1 .. Len(cs) : cs[k].fn = "_panic" => k <= m
  PROVE  Survives(cs, ds)
<1> SUFFICES ASSUME NEW k \in 1 .. Len(cs), cs[k].fn = "_panic"
             PROVE  k < Len(ds) /\ SubSeq(ds, 1, k) = SubSeq(cs, 1, k)
  BY DEF Survives
<1>1. k \in 1 .. m /\ k < Len(ds)
  OBVIOUS
<1>2. \A j \in 1 .. k : ds[j] = cs[j]
  BY <1>1
<1>3. SubSeq(ds, 1, k) = [j \in 1 .. k |-> ds[j]]
  BY <1>1
<1>4. SubSeq(cs, 1, k) = [j \in 1 .. k |-> cs[j]]
  BY <1>1
<1> QED  BY <1>1, <1>2, <1>3, <1>4

\* A call, if the walk of mon_backtrace is over or starts with it.
LEMMA CallStep ==
  ASSUME NEW cs, Linked(cs), Len(cs) >= 1,
         NEW fn \in Functions \ {"i386_init"}, NEW arg \in Int,
         fn = "test_backtrace" => \A j \in 1 .. Len(cs) : cs[j].fn \in Early
  PROVE  /\ Linked(Called(cs, fn, arg))
         /\ Survives(cs, Called(cs, fn, arg))
         /\ \A at : at # "backtrace" => Walk(Called(cs, fn, arg), at, 0, << >>)
         /\ Walk(Called(cs, fn, arg), "backtrace", Len(cs) + 1, << >>)
<1> DEFINE ds == Called(cs, fn, arg)
<1>1. /\ Linked(ds) /\ Len(ds) = Len(cs) + 1
      /\ \A k \in 1 .. Len(cs) : ds[k] = cs[k]
  BY CalledLinked
<1>2. cs \in Seq(Frames) /\ ds \in Seq(Frames) /\ Len(cs) \in Nat
  BY <1>1 DEF Linked
<1> HIDE DEF ds
<1>3. Survives(cs, ds)
  BY <1>1, <1>2, LowerFramesSurvive
<1>4. << >> \in Seq((Functions \cup {"entry.S"}) \X Int) /\ Len(<< >>) = 0
  OBVIOUS
<1>5. \A at : at # "backtrace" => Walk(ds, at, 0, << >>)
  BY <1>1, <1>2, <1>4 DEF Walk
<1>6. Walk(ds, "backtrace", Len(cs) + 1, << >>)
  BY <1>1, <1>2, <1>4 DEF Walk
<1> QED  BY <1>1, <1>3, <1>5, <1>6 DEF ds

\* A return from a function that does not panic to one that does not.
LEMMA ReturnStep ==
  ASSUME NEW cs, Linked(cs), Len(cs) >= 2,
         cs[Len(cs)].fn # "_panic", cs[Len(cs)].ret # "_panic"
  PROVE  /\ Linked(Front(cs))
         /\ Survives(cs, Front(cs))
         /\ Len(Front(cs)) = Len(cs) - 1
         /\ Front(cs)[Len(cs) - 1].fn = cs[Len(cs)].ret
         /\ \A at : at # "backtrace" => Walk(Front(cs), at, 0, << >>)
<1> DEFINE ds == Front(cs)
<1>1. /\ Linked(ds) /\ Len(ds) = Len(cs) - 1
      /\ \A k \in 1 .. Len(cs) - 1 : ds[k] = cs[k]
  BY FrontLinked
<1>2. cs \in Seq(Frames) /\ ds \in Seq(Frames) /\ Len(cs) \in Nat
  BY <1>1 DEF Linked
<1>3. cs[Len(cs)].ret = cs[Len(cs) - 1].fn
  BY <1>2 DEF Linked
<1> HIDE DEF ds
<1>4. Survives(cs, ds)
  <2> DEFINE m == Len(cs) - 2
  <2>1. m \in Nat /\ m <= Len(cs) /\ m < Len(ds) /\ \A k \in 1 .. m : ds[k] = cs[k]
    BY <1>1, <1>2
  <2>2. ASSUME NEW k \in 1 .. Len(cs), cs[k].fn = "_panic" PROVE k <= m
    <3>1. k # Len(cs) /\ k # Len(cs) - 1
      BY <1>3, <2>2
    <3> QED  BY <1>2, <3>1
  <2> HIDE DEF m
  <2> QED  BY <1>2, <2>1, <2>2, LowerFramesSurvive
<1>5. << >> \in Seq((Functions \cup {"entry.S"}) \X Int)
  OBVIOUS
<1>6. ASSUME NEW at, at # "backtrace" PROVE Walk(ds, at, 0, << >>)
  BY <1>1, <1>2, <1>5, <1>6 DEF Walk
<1> QED  BY <1>1, <1>2, <1>3, <1>4, <1>6 DEF ds

\* The steps, by what they do to the stack.  Kept is what is shown of each.
Kept == StackInv' /\ (calls' = calls \/ Survives(calls, calls'))

LEMMA StackInit == Init => StackInv
<1> SUFFICES ASSUME Init PROVE StackInv
  OBVIOUS
<1>1. calls = << >> /\ kpc = "entry" /\ ebp = 0 /\ trace = << >> /\ argc = 0
  BY DEF Init
<1>2. Linked(<< >>)
  BY DEF Linked
<1>3. AtTop(<< >>, "entry")
  BY DEF AtTop, InMonitor, InTest
<1>4. Walk(<< >>, "entry", 0, << >>)
  BY DEF Walk
<1> QED  BY <1>1, <1>2, <1>3, <1>4 DEF StackInv

\* The state of StackInv, taken apart.
LEMMA StackFacts ==
  ASSUME StackInv, kpc # "entry"
  PROVE  /\ Linked(calls) /\ Depth \in Nat /\ Depth >= 2
         /\ calls \in Seq(Frames) /\ Top \in Frames
         /\ Top.ret = calls[Depth - 1].fn
  BY DEF StackInv, Linked, AtTop, Depth, Top

LEMMA EntryKeeps == ASSUME StackInv, i386_init PROVE Kept
<1> DEFINE f == Frame("i386_init", 0, "entry.S", 0)
           cs == <<f>>
<1>1. f \in Frames /\ f.fn = "i386_init" /\ f.ret = "entry.S" /\ f.ebp = 0
  BY DEF Frame, Frames, Functions, Early
<1> HIDE DEF f
<1>2. cs \in Seq(Frames) /\ Len(cs) = 1 /\ cs[1] = f
  BY <1>1
<1> HIDE DEF cs
<1>3. Linked(cs)
  <2> SUFFICES ASSUME NEW k \in 1 .. Len(cs)
               PROVE  /\ cs[k].ebp = k - 1
                      /\ cs[k].ret = IF k = 1 THEN "entry.S" ELSE cs[k - 1].fn
                      /\ cs[k].fn = "i386_init" <=> k = 1
                      /\ cs[k].fn = "test_backtrace" => \A j \in 1 .. k : cs[j].fn \in Early
    BY <1>2 DEF Linked
  <2>1. k = 1
    BY <1>2
  <2> QED  BY <1>1, <1>2, <2>1
<1>4. "test_backtrace" \in Functions \ {"i386_init"} /\ TestDepth \in Int
  BY MonitorAssumption DEF Functions, Early
<1>5. \A j \in 1 .. Len(cs) : cs[j].fn \in Early
  BY <1>1, <1>2 DEF Early
<1>6. calls' = Called(cs, "test_backtrace", TestDepth) /\ kpc' = "test_backtrace"
  BY DEF i386_init, cs, f
<1>7. ebp' = 0 /\ trace' = << >> /\ argc' \in Nat /\ calls = << >>
  BY DEF i386_init, StackInv, AtTop, Walk, parse
<1>8. Linked(calls') /\ Walk(calls', kpc', ebp', trace')
  BY <1>2, <1>3, <1>4, <1>5, <1>6, <1>7, CallStep
<1>9. Len(calls') = 2 /\ calls'[2].fn = "test_backtrace"
  <2>1. Len(cs) >= 1 /\ Len(cs) + 1 = 2
    BY <1>2
  <2>2. /\ Len(calls') = Len(cs) + 1
        /\ calls'[Len(cs) + 1].fn = "test_backtrace"
    BY <1>3, <1>4, <1>5, <1>6, <2>1, CalledLinked
  <2> QED  BY <2>1, <2>2
<1>10. AtTop(calls', kpc')
  BY <1>6, <1>9 DEF AtTop, InMonitor, InTest
<1>11. Survives(calls, calls')
  BY <1>7 DEF Survives
<1> QED  BY <1>7, <1>8, <1>10, <1>11 DEF Kept, StackInv

\* A call of a function that moves the kernel to the place at.
LEMMA CallKeeps ==
  ASSUME StackInv, kpc # "entry",
         NEW fn \in Functions \ {"i386_init"}, NEW arg \in Int,
         calls' = Called(calls, fn, arg),
         fn = "test_backtrace" => \A j \in 1 .. Depth : calls[j].fn \in Early,
         ebp' = (IF kpc' = "backtrace" THEN Depth + 1 ELSE 0), trace' = << >>,
         argc' \in Nat,
         \/ kpc' = "test_backtrace" /\ fn = "test_backtrace"
         \/ kpc' = "monitor" /\ fn = "monitor"
         \/ /\ kpc' = "backtrace" /\ fn = "mon_backtrace"
            /\ Top.fn \in {"test_backtrace", "monitor"}
         \/ /\ kpc' = "command" /\ fn \in {"mon_help", "mon_kerninfo"}
            /\ Top.fn = "monitor"
  PROVE  Kept
<1>1. Linked(calls) /\ Depth \in Nat /\ Depth >= 2
  BY StackFacts
<1>2. /\ Linked(calls') /\ Survives(calls, calls')
      /\ Walk(calls', kpc', ebp', trace')
  <2>1. /\ Linked(calls') /\ Survives(calls, calls')
        /\ \A at : at # "backtrace" => Walk(calls', at, 0, << >>)
        /\ Walk(calls', "backtrace", Depth + 1, << >>)
    BY <1>1, CallStep DEF Depth
  <2>2. CASE kpc' = "backtrace"
    BY <2>1, <2>2
  <2>3. CASE kpc' # "backtrace"
    BY <2>1, <2>3
  <2> QED  BY <2>2, <2>3
<1>3. /\ Len(calls') = Depth + 1 /\ calls'[Depth + 1].fn = fn
      /\ calls'[Depth + 1].ret = Top.fn
  BY <1>1, CalledLinked DEF Depth, Top
<1>4. AtTop(calls', kpc')
  BY <1>1, <1>3 DEF AtTop, InMonitor, InTest
<1> QED  BY <1>2, <1>4 DEF Kept, StackInv

\* A return to the place at.
LEMMA ReturnKeeps ==
  ASSUME StackInv, kpc # "entry",
         calls' = Front(calls), ebp' = 0, trace' = << >>, argc' \in Nat,
         \/ /\ kpc' = "leaving" /\ Top.ret = "test_backtrace"
            /\ Top.fn \in {"test_backtrace", "mon_backtrace"}
         \/ /\ kpc' = "loop" /\ Top.ret = "monitor"
            /\ Top.fn \in {"mon_backtrace", "mon_help", "mon_kerninfo"}
  PROVE  Kept
<1>1. Linked(calls) /\ Depth \in Nat /\ Depth >= 2 /\ calls \in Seq(Frames)
  BY StackFacts
<1>2. Top.fn # "_panic" /\ Top.ret # "_panic"
  OBVIOUS
<1>3. /\ Linked(calls') /\ Survives(calls, calls') /\ Len(calls') = Depth - 1
      /\ calls'[Depth - 1].fn = Top.ret
      /\ \A at : at # "backtrace" => Walk(calls', at, 0, << >>)
  BY <1>1, <1>2, ReturnStep DEF Depth, Top
<1>4. Walk(calls', kpc', ebp', trace')
  BY <1>3
<1>5. Len(calls') >= 2
  <2>1. Top.ret = calls[Depth - 1].fn
    BY StackFacts
  <2>2. calls[1].fn = "i386_init"
    BY <1>1 DEF Linked, Depth
  <2>3. Depth # 2
    BY <2>1, <2>2
  <2> QED  BY <1>1, <1>3, <2>3
<1>6. AtTop(calls', kpc')
  BY <1>3, <1>5 DEF AtTop, InMonitor, InTest
<1> QED  BY <1>3, <1>4, <1>6 DEF Kept, StackInv

\* A step within the monitor, or within the place where the kernel is.
LEMMA SameStackKeeps ==
  ASSUME StackInv, calls' = calls, ebp' = ebp, trace' = trace, argc' \in Nat,
         kpc' = kpc \/ {kpc, kpc'} \subseteq InMonitor
  PROVE  Kept
<1>1. CASE kpc' = kpc
  BY <1>1 DEF Kept, StackInv
<1>2. CASE kpc' # kpc
  <2>1. kpc \in InMonitor /\ kpc' \in InMonitor
    BY <1>2
  <2>2. AtTop(calls, kpc')
    BY <2>1 DEF StackInv, AtTop, InMonitor, InTest
  <2>3. Walk(calls, kpc', ebp, trace)
    BY <2>1 DEF StackInv, Walk, InMonitor
  <2> QED  BY <2>2, <2>3 DEF Kept, StackInv
<1> QED  BY <1>1, <1>2

\* One turn of the walk.
LEMMA TurnKeeps == ASSUME StackInv, backtrace_frame PROVE Kept
<1>1. /\ Linked(calls) /\ Depth \in Nat /\ calls \in Seq(Frames)
      /\ kpc = "backtrace" /\ kpc' = "backtrace" /\ calls' = calls /\ argc' = argc
  BY StackFacts DEF backtrace_frame, parse
<1> DEFINE X == (Functions \cup {"entry.S"}) \X Int
           x == <<calls[ebp].ret, calls[ebp].arg>>
<1>2. /\ ebp \in 0 .. Depth /\ ebp # 0 /\ trace \in Seq(X)
      /\ Len(trace) = Depth - ebp
      /\ \A n \in 1 .. Len(trace) :
           trace[n] = <<calls[Depth + 1 - n].ret, calls[Depth + 1 - n].arg>>
  BY <1>1 DEF StackInv, Walk, Depth, backtrace_frame, walk_ends
<1>3. /\ ebp \in 1 .. Depth /\ ebp' = ebp - 1
  <2>1. ebp \in 1 .. Depth
    BY <1>1, <1>2
  <2> QED  BY <1>1, <2>1 DEF Linked, Depth, backtrace_frame, next_ebp
<1>4. trace' = Append(trace, x)
  BY <1>1, <1>2, <1>3 DEF backtrace_frame
<1>5. x \in X
  <2>1. calls[ebp] \in Frames
    BY <1>1, <1>3 DEF Depth
  <2> QED  BY <2>1 DEF Frames
<1>6. Walk(calls, "backtrace", ebp', trace')
  <2> DEFINE u == Append(trace, x)
  <2>1. /\ u \in Seq(X) /\ Len(u) = Len(trace) + 1 /\ u[Len(trace) + 1] = x
        /\ \A n \in 1 .. Len(trace) : u[n] = trace[n]
    <3> HIDE DEF x, X
    <3> QED  BY <1>2, <1>5
  <2> HIDE DEF u
  <2>2. Len(u) = Depth - (ebp - 1)
    BY <1>1, <1>2, <2>1
  <2>3. ASSUME NEW n \in 1 .. Len(u)
        PROVE  u[n] = <<calls[Depth + 1 - n].ret, calls[Depth + 1 - n].arg>>
    <3>1. CASE n \in 1 .. Len(trace)
      BY <1>2, <2>1, <3>1
    <3>2. CASE n = Len(trace) + 1
      <4>1. Depth + 1 - n = ebp
        BY <1>1, <1>2, <3>2
      <4> QED  BY <2>1, <3>2, <4>1
    <3>3. Len(trace) \in Nat
      BY <1>2
    <3>4. n \in 1 .. Len(trace) \/ n = Len(trace) + 1
      BY <2>1, <3>3
    <3> QED  BY <3>1, <3>2, <3>4
  <2>4. ebp - 1 \in 0 .. Depth
    BY <1>1, <1>3
  <2> QED  BY <1>3, <1>4, <2>1, <2>2, <2>3, <2>4 DEF Walk, Depth, u
<1> QED  BY <1>1, <1>6 DEF Kept, StackInv

\* The number of a panic is none.
LEMMA PanicsCount ==
  ASSUME NEW cs \in Seq(Frames)
  PROVE  Cardinality({k \in DOMAIN cs : cs[k].fn = "_panic"}) \in Nat
<1>1. DOMAIN cs = 1 .. Len(cs) /\ Len(cs) \in Nat
  OBVIOUS
<1>2. IsFiniteSet(1 .. Len(cs))
  BY <1>1, FS_Interval
<1>3. IsFiniteSet({k \in DOMAIN cs : cs[k].fn = "_panic"})
  BY <1>1, <1>2, FS_Subset
<1> QED  BY <1>3, FS_CardinalityType

\* A panic calls debuginfo_eip and that _panic.
LEMMA PanicsKeeps == ASSUME StackInv, panics PROVE Kept
<1> DEFINE c == Cardinality({k \in DOMAIN calls : calls[k].fn = "_panic"})
           ds == Called(calls, "debuginfo_eip", ebp)
           es == Called(ds, "_panic", 1 + c)
<1>1. /\ Linked(calls) /\ Depth \in Nat /\ Depth >= 2 /\ calls \in Seq(Frames)
  BY StackFacts DEF panics
<1>2. c \in Nat /\ 1 + c \in Int /\ 1 + c > 0 /\ ebp \in Int
  <2>1. c \in Nat  BY <1>1, PanicsCount
  <2>2. ebp \in Int  BY <1>1 DEF StackInv, Walk, Depth
  <2> HIDE DEF c
  <2> QED  BY <2>1, <2>2
<1>3. calls' = es /\ kpc' = "panic" /\ ebp' = 0 /\ trace' = << >> /\ argc' \in Nat
  BY DEF panics, parse, StackInv
<1> HIDE DEF c
<1>4. "debuginfo_eip" \in Functions \ {"i386_init"} /\ "_panic" \in Functions \ {"i386_init"}
  BY DEF Functions, Early
<1>5. /\ Linked(ds) /\ Len(ds) = Depth + 1 /\ \A k \in 1 .. Depth : ds[k] = calls[k]
  <2>1. Linked(calls) /\ Len(calls) >= 1 /\ "debuginfo_eip" # "test_backtrace"
    BY <1>1 DEF Depth
  <2>2. /\ Linked(Called(calls, "debuginfo_eip", ebp))
        /\ Len(Called(calls, "debuginfo_eip", ebp)) = Len(calls) + 1
        /\ \A k \in 1 .. Len(calls) : Called(calls, "debuginfo_eip", ebp)[k] = calls[k]
    BY <1>2, <1>4, <2>1, CalledLinked
  <2> QED  BY <2>2 DEF Depth
<1> HIDE DEF ds
<1>6. /\ Linked(es) /\ Len(es) = Depth + 2 /\ \A k \in 1 .. Depth + 1 : es[k] = ds[k]
      /\ es[Depth + 2].fn = "_panic" /\ es[Depth + 2].arg = 1 + c
      /\ \A at : at # "backtrace" => Walk(es, at, 0, << >>)
  <2>1. Len(ds) >= 1 /\ Len(ds) + 1 = Depth + 2
    BY <1>1, <1>5
  <2>2. /\ Linked(es) /\ Len(es) = Len(ds) + 1 /\ \A k \in 1 .. Len(ds) : es[k] = ds[k]
        /\ es[Len(ds) + 1].fn = "_panic" /\ es[Len(ds) + 1].arg = 1 + c
    BY <1>2, <1>4, <1>5, <2>1, CalledLinked
  <2>3. \A at : at # "backtrace" => Walk(es, at, 0, << >>)
    BY <1>2, <1>4, <1>5, <2>1, CallStep
  <2> HIDE DEF es
  <2> QED  BY <1>5, <2>1, <2>2, <2>3
<1> HIDE DEF es
<1>7. AtTop(es, "panic")
  BY <1>1, <1>2, <1>6 DEF AtTop, InMonitor, InTest
<1>8. Survives(calls, es)
  <2>1. es \in Seq(Frames) /\ Depth < Len(es) /\ \A k \in 1 .. Depth : es[k] = calls[k]
    BY <1>1, <1>5, <1>6 DEF Linked
  <2>2. Depth <= Len(calls) /\ \A k \in 1 .. Len(calls) : calls[k].fn = "_panic" => k <= Depth
    BY <1>1 DEF Depth
  <2> QED  BY <1>1, <2>1, <2>2, LowerFramesSurvive
<1> QED  BY <1>3, <1>6, <1>7, <1>8 DEF Kept, StackInv

\* The last return of test_backtrace, and the call of the monitor.
LEMMA LeavingKeeps == ASSUME StackInv, leaving PROVE Kept
<1>1. /\ Linked(calls) /\ Depth \in Nat /\ Depth >= 2 /\ calls \in Seq(Frames)
      /\ Top.fn = "test_backtrace" /\ Top.ret = calls[Depth - 1].fn
      /\ ebp' = 0 /\ trace' = << >> /\ argc' \in Nat
  BY StackFacts DEF leaving, parse, StackInv, AtTop, Walk, InTest, Top, Depth
<1>2. \A k \in 1 .. Depth : calls[k].fn \in Early
  BY <1>1 DEF Linked, Top, Depth
<1>3. CASE Top.ret = "test_backtrace"
  BY <1>1, <1>3, ReturnKeeps DEF leaving
<1>4. CASE Top.ret # "test_backtrace"
  <2> DEFINE cs == Front(calls)
             ds == Called(cs, "monitor", 0)
  <2>1. /\ calls' = ds /\ kpc' = "monitor"
    BY <1>4 DEF leaving
  <2>2. /\ Linked(cs) /\ Len(cs) = Depth - 1 /\ \A k \in 1 .. Depth - 1 : cs[k] = calls[k]
    BY <1>1, FrontLinked DEF Depth
  <2> HIDE DEF cs
  <2>3. "monitor" \in Functions \ {"i386_init"} /\ Len(cs) >= 1
    BY <1>1, <2>2 DEF Functions
  <2>4. /\ Linked(ds) /\ Len(ds) = Len(cs) + 1
        /\ ds[Len(cs) + 1].fn = "monitor"
    BY <2>2, <2>3, CalledLinked
  <2>5. Walk(ds, "monitor", 0, << >>)
    BY <2>2, <2>3, CallStep
  <2> HIDE DEF ds
  <2>6. AtTop(ds, "monitor")
    BY <1>1, <2>2, <2>4 DEF AtTop, InMonitor, InTest
  <2>7. Survives(calls, ds)
    <3>1. /\ ds \in Seq(Frames) /\ 0 < Len(ds) /\ 0 <= Len(calls)
          /\ \A k \in 1 .. 0 : ds[k] = calls[k]
      BY <1>1, <2>2, <2>4 DEF Linked
    <3>2. \A k \in 1 .. Len(calls) : calls[k].fn = "_panic" => k <= 0
      BY <1>2 DEF Early, Depth
    <3> QED  BY <1>1, <3>1, <3>2, LowerFramesSurvive
  <2> QED  BY <1>1, <2>1, <2>4, <2>5, <2>6, <2>7 DEF Kept, StackInv
<1> QED  BY <1>3, <1>4

\* Outside mon_backtrace, the variables of the walk are dead.
LEMMA NoWalk ==
  ASSUME StackInv, kpc # "backtrace"
  PROVE  ebp = 0 /\ trace = << >>
  BY DEF StackInv, Walk

\* The length of the stack after a call.
LEMMA CalledLen ==
  ASSUME StackInv, kpc # "entry", NEW fn, NEW arg
  PROVE  Len(Called(calls, fn, arg)) = Depth + 1
<1>1. calls \in Seq(Frames)
  BY StackFacts
<1> QED  BY <1>1, AppendProperties DEF Called, Depth

LEMMA TestKeeps == ASSUME StackInv, test_backtrace PROVE Kept
<1>1. /\ Linked(calls) /\ Depth \in Nat /\ Depth >= 2 /\ Top \in Frames
      /\ Top.fn = "test_backtrace" /\ kpc = "test_backtrace"
  BY StackFacts DEF test_backtrace, StackInv, AtTop, InTest, Top, Depth
<1>2. /\ trace' = << >> /\ ebp = 0 /\ argc' \in Nat
  BY <1>1, NoWalk DEF test_backtrace, parse, StackInv
<1>3. \A j \in 1 .. Depth : calls[j].fn \in Early
  BY <1>1 DEF Linked, Top, Depth
<1>4. Top.arg \in Int
  BY <1>1 DEF Frames
<1>5. CASE Top.arg > 0
  <2>1. /\ calls' = Called(calls, "test_backtrace", Top.arg - 1)
        /\ kpc' = "test_backtrace" /\ ebp' = 0
    BY <1>1, <1>2, <1>5 DEF test_backtrace
  <2>2. "test_backtrace" \in Functions \ {"i386_init"} /\ Top.arg - 1 \in Int
    BY <1>4 DEF Functions, Early
  <2> QED  BY <1>1, <1>2, <1>3, <2>1, <2>2, CallKeeps
<1>6. CASE ~(Top.arg > 0)
  <2>1. /\ calls' = Called(calls, "mon_backtrace", 0)
        /\ kpc' = "backtrace" /\ ebp' = Len(calls')
    BY <1>6 DEF test_backtrace
  <2>2. "mon_backtrace" \in Functions \ {"i386_init"} /\ 0 \in Int
    BY DEF Functions
  <2>3. ebp' = Depth + 1
    BY <1>1, <2>1, CalledLen
  <2> QED  BY <1>1, <1>2, <2>1, <2>2, <2>3, CallKeeps
<1> QED  BY <1>5, <1>6

LEMMA BacktraceEndKeeps == ASSUME StackInv, backtrace_end PROVE Kept
<1>1. /\ Top.fn = "mon_backtrace" /\ Top.ret \in {"test_backtrace", "monitor"}
      /\ kpc = "backtrace" /\ calls' = Front(calls) /\ ebp' = 0 /\ trace' = << >>
      /\ argc' \in Nat
      /\ kpc' = IF Top.ret = "test_backtrace" THEN "leaving" ELSE "loop"
  BY DEF backtrace_end, StackInv, AtTop, Top, Depth, parse
<1> QED  BY <1>1, ReturnKeeps

LEMMA CommandKeeps == ASSUME StackInv, command PROVE Kept
<1>1. /\ Top.fn \in {"mon_help", "mon_kerninfo"} /\ Top.ret = "monitor"
      /\ kpc = "command" /\ kpc' = "loop"
      /\ calls' = Front(calls) /\ ebp' = 0 /\ trace' = << >> /\ argc' \in Nat
  BY NoWalk DEF command, StackInv, AtTop, Top, Depth, parse
<1> QED  BY <1>1, ReturnKeeps

LEMMA InvokeKeeps == ASSUME StackInv, NEW name, invoke(name) PROVE Kept
<1>1. /\ kpc = "lookup" /\ Top.fn = "monitor" /\ ebp = 0 /\ trace' = << >>
      /\ argc \in Int /\ argc' \in Nat
  BY NoWalk DEF invoke, StackInv, AtTop, InMonitor, Top, Depth, parse
<1>2. CASE name = Backtrace
  <2>1. /\ calls' = Called(calls, "mon_backtrace", argc) /\ kpc' = "backtrace"
        /\ ebp' = Len(calls')
    BY <1>2 DEF invoke
  <2>2. "mon_backtrace" \in Functions \ {"i386_init"}
    BY DEF Functions
  <2>3. ebp' = Depth + 1
    BY <1>1, <2>1, CalledLen
  <2> QED  BY <1>1, <2>1, <2>2, <2>3, CallKeeps
<1>3. CASE name # Backtrace
  <2> DEFINE fn == IF name = Help THEN "mon_help" ELSE "mon_kerninfo"
  <2>1. calls' = Called(calls, fn, argc) /\ kpc' = "command" /\ ebp' = 0
    BY <1>1, <1>3 DEF invoke
  <2>2. fn \in Functions \ {"i386_init"} /\ fn \in {"mon_help", "mon_kerninfo"}
    BY DEF Functions
  <2> HIDE DEF fn
  <2> QED  BY <1>1, <2>1, <2>2, CallKeeps
<1> QED  BY <1>2, <1>3

LEMMA PanicKeeps == ASSUME StackInv, panic PROVE Kept
<1>1. /\ kpc = "panic" /\ kpc' = "monitor" /\ calls' = Called(calls, "monitor", 0)
      /\ ebp' = 0 /\ trace' = << >> /\ argc' \in Nat
  BY NoWalk DEF panic, parse, StackInv
<1>2. "monitor" \in Functions \ {"i386_init"} /\ 0 \in Int
  BY DEF Functions
<1> QED  BY <1>1, <1>2, CallKeeps

\* The steps of readline and runcmd leave the stack alone.
LEMMA MonitorKeeps ==
  ASSUME StackInv,
         \/ welcome \/ prompt \/ split \/ refuse \/ unknown
         \/ \E c \in Char : type(c) \/ enter(c)
         \/ UNCHANGED vars
  PROVE  Kept
<1>1. argc \in Nat
  BY DEF StackInv
<1>2. CASE welcome
  BY <1>1, <1>2, SameStackKeeps DEF welcome, InMonitor, parse
<1>3. CASE prompt
  BY <1>1, <1>3, SameStackKeeps DEF prompt, InMonitor
<1>4. CASE split
  <2>1. CASE gobble
    BY <1>1, <1>4, <2>1, SameStackKeeps DEF split, gobble, InMonitor
  <2>2. CASE word
    BY <1>1, <1>4, <2>2, SameStackKeeps DEF split, word, InMonitor
  <2>3. CASE scan
    BY <1>1, <1>4, <2>3, SameStackKeeps DEF split, scan, InMonitor
  <2>4. CASE parsed
    BY <1>1, <1>4, <2>4, SameStackKeeps DEF split, parsed, InMonitor
  <2> QED  BY <1>4, <2>1, <2>2, <2>3, <2>4 DEF split
<1>5. CASE refuse
  BY <1>1, <1>5, SameStackKeeps DEF refuse, too_many, InMonitor, parse
<1>6. CASE unknown
  BY <1>1, <1>6, SameStackKeeps DEF unknown, InMonitor, parse
<1>7. ASSUME NEW c \in Char, type(c) PROVE Kept
  BY <1>1, <1>7, SameStackKeeps DEF type, kernel, parse
<1>8. ASSUME NEW c \in Char, enter(c) PROVE Kept
  BY <1>1, <1>8, SameStackKeeps DEF enter, runcmd, InMonitor
<1>9. CASE UNCHANGED vars
  BY <1>1, <1>9, SameStackKeeps DEF vars, kernel, parse
<1> QED  BY <1>2, <1>3, <1>4, <1>5, <1>6, <1>7, <1>8, <1>9

LEMMA StackStep == ASSUME StackInv, [KernelNext]_vars PROVE Kept
<1>1. ASSUME NEW name \in Commands, invoke(name) PROVE Kept
  BY <1>1, InvokeKeeps
<1> QED
  BY <1>1, EntryKeeps, TestKeeps, LeavingKeeps, TurnKeeps, BacktraceEndKeeps,
     CommandKeeps, PanicKeeps, PanicsKeeps, MonitorKeeps, Zenon
  DEF KernelNext, Kernel

LEMMA StackHolds == KernelSpec => []StackInv
<1>1. StackInv /\ [KernelNext]_vars => StackInv'
  BY StackStep DEF Kept
<1> QED  BY <1>1, StackInit, PTL DEF KernelSpec

\* A panic ends what it interrupts: no later step, whatever is typed and
\* however often the kernel panics again, returns to a frame below a call of
\* _panic or changes one.
THEOREM PanicsAreForEver == KernelSpec => PanicNeverReturns
<1>1. StackInv /\ [KernelNext]_vars =>
        [\A k \in DOMAIN calls : calls[k].fn = "_panic" =>
           k < Len(calls') /\ SubSeq(calls', 1, k) = SubSeq(calls, 1, k)]_calls
  BY StackStep DEF Kept, Survives
<1> QED  BY <1>1, StackHolds, PTL DEF KernelSpec, PanicNeverReturns

\* mon_backtrace prints each function on the stack with its caller and its
\* argument, for a stack of any depth and however it came about.
THEOREM BacktracesAreComplete == KernelSpec => []BacktraceListsCallers
<1>1. StackInv => BacktraceListsCallers
  <2> SUFFICES ASSUME StackInv, kpc = "backtrace", walk_ends
               PROVE  trace = [k \in 1 .. Depth |->
                                LET f == Depth + 1 - k
                                IN  <<IF f = 1 THEN "entry.S" ELSE calls[f - 1].fn,
                                      calls[f].arg>>]
    BY DEF BacktraceListsCallers
  <2>1. /\ Linked(calls) /\ Depth \in Nat /\ Depth >= 2
    BY StackFacts
  <2>2. /\ Len(trace) = Depth
        /\ trace \in Seq((Functions \cup {"entry.S"}) \X Int)
        /\ \A n \in 1 .. Len(trace) :
             trace[n] = <<calls[Depth + 1 - n].ret, calls[Depth + 1 - n].arg>>
    BY <2>1 DEF StackInv, Walk, walk_ends, Depth
  <2>3. \A n \in 1 .. Depth :
          calls[Depth + 1 - n].ret =
            IF Depth + 1 - n = 1 THEN "entry.S" ELSE calls[Depth + 1 - n - 1].fn
    BY <2>1 DEF Linked, Depth
  <2>4. \A n \in 1 .. Depth :
          trace[n] = <<IF Depth + 1 - n = 1 THEN "entry.S" ELSE calls[Depth + 1 - n - 1].fn,
                       calls[Depth + 1 - n].arg>>
    BY <2>2, <2>3
  <2> DEFINE g == [k \in 1 .. Depth |->
                    LET f == Depth + 1 - k
                    IN  <<IF f = 1 THEN "entry.S" ELSE calls[f - 1].fn, calls[f].arg>>]
  <2>5. \A k \in 1 .. Depth : g[k] = trace[k]
    BY <2>1, <2>4
  <2>6. g = [k \in 1 .. Depth |-> g[k]]
    OBVIOUS
  <2> HIDE DEF g
  <2>7. trace = [k \in 1 .. Depth |-> trace[k]]
    BY <2>1, <2>2
  <2>8. trace = g
    BY <2>5, <2>6, <2>7
  <2> QED  BY <2>8 DEF g
<1> QED  BY <1>1, StackHolds, PTL
-----------------------------------------------------------------------------
(* The message of a panic.                                                 *)

\* Panicked, for the stack cs and the kernel at the place at.
Panics(cs, at) == {k \in 1 .. Len(cs) : cs[k].fn = "_panic" /\ ~(at = "panic" /\ k = Len(cs))}

\* panicstr is set when there has been a panic, and what is reported is the
\* first.
Told(cs, at, str, rep) ==
  /\ str \in Nat
  /\ at # "entry" => (str = NoPanic <=> Panics(cs, at) = {})
  /\ rep = IF Panics(cs, at) = {} THEN << >> ELSE <<cs[Min(Panics(cs, at))].arg>>

PanicInv == Told(calls, kpc, panicstr, reported)

LEMMA PanickedIsPanics ==
  ASSUME StackInv PROVE Panicked = Panics(calls, kpc)
  BY DEF StackInv, Linked, Panicked, Panics, Depth

LEMMA FirstPanic ==
  ASSUME NEW cs, NEW at, Len(cs) \in Nat, Panics(cs, at) # {}
  PROVE  /\ Min(Panics(cs, at)) \in Panics(cs, at)
         /\ \A k \in Panics(cs, at) : Min(Panics(cs, at)) <= k
<1>1. Panics(cs, at) \subseteq Nat
  BY DEF Panics
<1> HIDE DEF Panics
<1> QED  BY <1>1, MinIsLeast

\* A step that neither panics nor takes one from the stack.
LEMMA SamePanics ==
  ASSUME NEW cs, NEW ds, NEW at, NEW bt, NEW str, NEW rep,
         Len(cs) \in Nat, at # "entry",
         Panics(ds, bt) = Panics(cs, at), \A k \in Panics(cs, at) : ds[k] = cs[k],
         Told(cs, at, str, rep)
  PROVE  Told(ds, bt, str, rep)
<1>1. CASE Panics(cs, at) = {}
  BY <1>1 DEF Told
<1>2. CASE Panics(cs, at) # {}
  <2>1. ds[Min(Panics(cs, at))] = cs[Min(Panics(cs, at))]
    BY <1>2, FirstPanic
  <2> QED  BY <1>2, <2>1 DEF Told
<1> QED  BY <1>1, <1>2

\* The call of a function.
LEMMA CallPanics ==
  ASSUME NEW cs \in Seq(Frames), NEW fn, NEW arg, NEW at, NEW bt,
         fn # "_panic", at # "panic", bt # "panic", Len(cs) >= 1
  PROVE  /\ Panics(Called(cs, fn, arg), bt) = Panics(cs, at)
         /\ \A k \in Panics(cs, at) : Called(cs, fn, arg)[k] = cs[k]
<1> DEFINE ds == Called(cs, fn, arg)
<1>1. /\ Len(ds) = Len(cs) + 1 /\ Len(cs) \in Nat
      /\ \A k \in 1 .. Len(cs) : ds[k] = cs[k]
      /\ ds[Len(cs) + 1].fn = fn
  BY AppendProperties DEF Called, Frame
<1> HIDE DEF ds
<1>2. \A k \in 1 .. Len(ds) : ds[k].fn = "_panic" => k \in 1 .. Len(cs)
  BY <1>1
<1>3. \A k : k \in Panics(ds, bt) <=> k \in Panics(cs, at)
  BY <1>1, <1>2 DEF Panics
<1> QED  BY <1>1, <1>3 DEF Panics, ds

\* A return from one that does not panic.
LEMMA ReturnPanics ==
  ASSUME NEW cs, Linked(cs), Len(cs) >= 1, NEW at, NEW bt,
         cs[Len(cs)].fn # "_panic", at # "panic", bt # "panic"
  PROVE  /\ Panics(Front(cs), bt) = Panics(cs, at)
         /\ \A k \in Panics(cs, at) : Front(cs)[k] = cs[k]
<1> DEFINE ds == Front(cs)
<1>1. /\ Len(ds) = Len(cs) - 1 /\ Len(cs) \in Nat
      /\ \A k \in 1 .. Len(cs) - 1 : ds[k] = cs[k]
  BY FrontLinked DEF Linked
<1> HIDE DEF ds
<1>2. \A k \in 1 .. Len(cs) : cs[k].fn = "_panic" => k \in 1 .. Len(ds)
  BY <1>1
<1>3. \A k : k \in Panics(ds, bt) <=> k \in Panics(cs, at)
  BY <1>1, <1>2 DEF Panics
<1> QED  BY <1>1, <1>2, <1>3 DEF Panics, ds

\* panicstr is clear, and so is the stack.
LEMMA EntryTells == ASSUME StackInv, PanicInv, i386_init PROVE PanicInv'
<1> DEFINE f == Frame("i386_init", 0, "entry.S", 0)
           cs == <<f>>
<1>1. f.fn = "i386_init" /\ f \in Frames
  BY DEF Frame, Frames, Functions, Early
<1> HIDE DEF f
<1>2. cs \in Seq(Frames) /\ Len(cs) = 1 /\ cs[1].fn = "i386_init"
  BY <1>1
<1> HIDE DEF cs
<1>3. Panics(cs, "x") = {}
  BY <1>2 DEF Panics
<1>4. calls' = Called(cs, "test_backtrace", TestDepth) /\ kpc' = "test_backtrace"
  BY DEF i386_init, cs, f
<1>5. Panics(calls', kpc') = {}
  <2>1. Panics(Called(cs, "test_backtrace", TestDepth), "test_backtrace") = Panics(cs, "x")
    BY <1>2, CallPanics
  <2> QED  BY <1>3, <1>4, <2>1, Zenon
<1>6. panicstr' = NoPanic /\ reported' = << >>
  <2>1. calls = << >>
    BY DEF StackInv, AtTop, i386_init
  <2>2. Panics(calls, kpc) = {}
    BY <2>1 DEF Panics
  <2> QED  BY <2>2 DEF i386_init, bss_cleared, PanicInv, Told
<1> QED  BY <1>4, <1>5, <1>6 DEF PanicInv, Told, NoPanic

\* The steps with a call, with a return, and with neither.
LEMMA CallTells ==
  ASSUME StackInv, PanicInv, kpc # "entry", NEW fn, NEW arg,
         calls' = Called(calls, fn, arg), fn # "_panic",
         kpc # "panic", kpc' # "panic", UNCHANGED <<panicstr, reported>>
  PROVE  PanicInv'
<1>1. calls \in Seq(Frames) /\ Len(calls) \in Nat /\ Len(calls) >= 1
  BY StackFacts DEF Depth
<1>2. /\ Panics(calls', kpc') = Panics(calls, kpc)
      /\ \A k \in Panics(calls, kpc) : calls'[k] = calls[k]
  BY <1>1, CallPanics
<1> QED  BY <1>1, <1>2, SamePanics DEF PanicInv

LEMMA ReturnTells ==
  ASSUME StackInv, PanicInv, kpc # "entry",
         calls' = Front(calls), Top.fn # "_panic",
         kpc # "panic", kpc' # "panic", UNCHANGED <<panicstr, reported>>
  PROVE  PanicInv'
<1>1. Linked(calls) /\ Len(calls) \in Nat /\ Len(calls) >= 1
  BY StackFacts DEF Depth
<1>2. /\ Panics(calls', kpc') = Panics(calls, kpc)
      /\ \A k \in Panics(calls, kpc) : calls'[k] = calls[k]
  BY <1>1, ReturnPanics DEF Top, Depth
<1> QED  BY <1>1, <1>2, SamePanics DEF PanicInv

LEMMA SameStackTells ==
  ASSUME StackInv, PanicInv, calls' = calls, UNCHANGED <<panicstr, reported>>,
         kpc' = kpc \/ (kpc # "entry" /\ kpc # "panic" /\ kpc' # "panic")
  PROVE  PanicInv'
<1>1. CASE kpc' = kpc
  BY <1>1 DEF PanicInv
<1>2. CASE kpc # "entry" /\ kpc # "panic" /\ kpc' # "panic"
  <2>1. Panics(calls', kpc') = Panics(calls, kpc) /\ Len(calls) \in Nat
    BY <1>2, StackFacts DEF Panics, Depth
  <2> QED  BY <1>2, <2>1, SamePanics DEF PanicInv
<1> QED  BY <1>1, <1>2

LEMMA LeavingTells == ASSUME StackInv, PanicInv, leaving PROVE PanicInv'
<1>1. /\ kpc = "leaving" /\ Top.fn = "test_backtrace" /\ UNCHANGED <<panicstr, reported>>
  BY DEF leaving, StackInv, AtTop, InTest, Top, Depth
<1>2. CASE Top.ret = "test_backtrace"
  BY <1>1, <1>2, ReturnTells DEF leaving
<1>3. CASE Top.ret # "test_backtrace"
  <2> DEFINE cs == Front(calls)
  <2>1. calls' = Called(cs, "monitor", 0) /\ kpc' = "monitor"
    BY <1>3 DEF leaving
  <2>2. Linked(calls) /\ Len(calls) \in Nat /\ Len(calls) >= 2
    BY <1>1, StackFacts DEF Depth
  <2>3. /\ Panics(cs, "leaving") = Panics(calls, kpc)
        /\ \A k \in Panics(calls, kpc) : cs[k] = calls[k]
    BY <1>1, <2>2, ReturnPanics DEF Top, Depth
  <2>4. cs \in Seq(Frames) /\ Len(cs) >= 1
    BY <2>2, FrontLinked DEF Linked
  <2> HIDE DEF cs
  <2>5. /\ Panics(calls', kpc') = Panics(cs, "leaving")
        /\ \A k \in Panics(cs, "leaving") : calls'[k] = cs[k]
    <3>1. Panics(Called(cs, "monitor", 0), "monitor") = Panics(cs, "leaving")
      BY <2>4, CallPanics
    <3>2. \A k \in Panics(cs, "leaving") : Called(cs, "monitor", 0)[k] = cs[k]
      BY <2>4 DEF Panics, Called
    <3> QED  BY <2>1, <3>1, <3>2, Zenon
  <2>6. Told(cs, "leaving", panicstr, reported)
    BY <1>1, <2>2, <2>3, SamePanics DEF PanicInv
  <2>7. Len(cs) \in Nat
    BY <2>4
  <2>8. Told(calls', kpc', panicstr, reported)
    BY <2>5, <2>6, <2>7, SamePanics
  <2> QED  BY <1>1, <2>8 DEF PanicInv
<1> QED  BY <1>2, <1>3

\* A panic that is being reported is not yet among those that have been.
LEMMA PanicsTells == ASSUME StackInv, PanicInv, panics PROVE PanicInv'
<1> DEFINE c == Cardinality({k \in DOMAIN calls : calls[k].fn = "_panic"})
           ds == Called(calls, "debuginfo_eip", ebp)
           es == Called(ds, "_panic", 1 + c)
<1>1. /\ calls \in Seq(Frames) /\ Len(calls) \in Nat /\ Len(calls) >= 1
      /\ kpc = "backtrace" /\ UNCHANGED <<panicstr, reported>>
      /\ kpc' = "panic" /\ calls' = es
  BY StackFacts DEF panics, Depth
<1> HIDE DEF c
<1>2. /\ ds = Append(calls, Frame("debuginfo_eip", ebp, calls[Len(calls)].fn, Len(calls)))
      /\ es = Append(ds, Frame("_panic", 1 + c, ds[Len(ds)].fn, Len(ds)))
  BY DEF Called
<1> HIDE DEF es, ds
<1>3. calls' \in Seq(Frames)
  BY PanicsKeeps DEF Kept, StackInv, Linked
<1>4. /\ Len(ds) = Len(calls) + 1
      /\ \A k \in 1 .. Len(calls) : ds[k] = calls[k]
      /\ ds[Len(calls) + 1].fn = "debuginfo_eip"
  BY <1>1, <1>2, AppendProperties DEF Frame
<1>5. /\ Len(es) = Len(ds) + 1 /\ \A k \in 1 .. Len(ds) : es[k] = ds[k]
  <2>1. \E S : ds \in Seq(S)
    <3> DEFINE f == Frame("debuginfo_eip", ebp, calls[Len(calls)].fn, Len(calls))
               S == Frames \cup {f}
    <3>1. f \in S /\ calls \in Seq(S)
      BY <1>1
    <3> HIDE DEF f, S
    <3>2. Append(calls, f) \in Seq(S)
      BY <3>1
    <3> QED  BY <1>2, <3>2 DEF f
  <2> QED  BY <1>2, <2>1, AppendProperties
<1>6. Len(es) = Len(calls) + 2 /\ Len(ds) \in Nat
  BY <1>1, <1>4, <1>5
<1>7. /\ \A k \in 1 .. Len(calls) : es[k] = calls[k]
      /\ es[Len(calls) + 1].fn = "debuginfo_eip"
  BY <1>1, <1>4, <1>5
<1>8. \A k : k \in Panics(es, "panic") <=> k \in Panics(calls, kpc)
  <2>1. ASSUME NEW k, k \in Panics(es, "panic") PROVE k \in Panics(calls, kpc)
    <3>1. k \in 1 .. Len(calls) + 2 /\ k # Len(calls) + 2 /\ es[k].fn = "_panic"
      BY <1>6, <2>1 DEF Panics
    <3>2. k # Len(calls) + 1
      BY <1>7, <3>1
    <3>3. k \in 1 .. Len(calls)
      BY <1>1, <3>1, <3>2
    <3> QED  BY <1>1, <1>7, <3>1, <3>3 DEF Panics
  <2>2. ASSUME NEW k, k \in Panics(calls, kpc) PROVE k \in Panics(es, "panic")
    BY <1>1, <1>6, <1>7, <2>2 DEF Panics
  <2> QED  BY <2>1, <2>2
<1>9. /\ Panics(calls', kpc') = Panics(calls, kpc)
      /\ \A k \in Panics(calls, kpc) : calls'[k] = calls[k]
  BY <1>1, <1>7, <1>8 DEF Panics
<1>10. Told(calls', kpc', panicstr, reported)
  BY <1>1, <1>9, SamePanics DEF PanicInv
<1> QED  BY <1>1, <1>10 DEF PanicInv

\* _panic reports what it finds unreported, and then there is one more.
LEMMA PanicTells == ASSUME StackInv, PanicInv, panic PROVE PanicInv'
<1>1. /\ calls \in Seq(Frames) /\ Len(calls) \in Nat /\ Len(calls) >= 1
      /\ kpc = "panic" /\ kpc' = "monitor" /\ calls' = Called(calls, "monitor", 0)
      /\ calls[Len(calls)].fn = "_panic" /\ calls[Len(calls)].arg > 0
      /\ calls[Len(calls)] \in Frames
  BY StackFacts DEF panic, StackInv, AtTop, Depth
<1> DEFINE n == Len(calls)
           P == Panics(calls, kpc)
<1>2. /\ Panics(calls', kpc') = Panics(calls, "x")
      /\ \A k \in Panics(calls, "x") : calls'[k] = calls[k]
  BY <1>1, CallPanics
<1>3. Panics(calls, "x") = P \cup {n} /\ n \notin P /\ \A k \in P : k \in Nat /\ k < n
  BY <1>1 DEF Panics
<1>4. Told(calls, kpc, panicstr, reported)
  BY DEF PanicInv
<1>5. calls[n].arg \in Int
  BY <1>1 DEF Frames
<1>6. CASE P = {}
  <2>1. panicstr = NoPanic /\ reported = << >>
    BY <1>1, <1>4, <1>6 DEF Told
  <2>2. panicstr' = calls[n].arg /\ reported' = <<calls[n].arg>>
    BY <2>1 DEF panic, Top, Depth
  <2>3. Panics(calls', kpc') = {n} /\ calls'[n] = calls[n]
    BY <1>2, <1>3, <1>6
  <2>4. Min({n}) = n
    <3>1. {n} \subseteq Nat /\ {n} # {}
      BY <1>1
    <3> QED  BY <3>1, MinIsLeast
  <2>5. panicstr' \in Nat /\ panicstr' # NoPanic
    BY <1>1, <1>5, <2>2 DEF NoPanic
  <2> HIDE DEF n
  <2>6. Told(calls', kpc', panicstr', reported')
    BY <2>2, <2>3, <2>4, <2>5 DEF Told
  <2> QED  BY <2>6 DEF PanicInv
<1>7. CASE P # {}
  <2>1. panicstr # NoPanic /\ UNCHANGED <<panicstr, reported>>
    BY <1>1, <1>4, <1>7 DEF Told, panic
  <2>2. P \subseteq Nat /\ P \cup {n} \subseteq Nat /\ P \cup {n} # {}
    BY <1>1, <1>3
  <2> HIDE DEF P, n
  <2>3. Min(P) = Min(P \cup {n})
    <3>1. Min(P) \in P /\ \A k \in P : Min(P) <= k
      BY <1>7, <2>2, MinIsLeast
    <3>2. Min(P \cup {n}) \in P \cup {n} /\ \A k \in P \cup {n} : Min(P \cup {n}) <= k
      BY <2>2, MinIsLeast
    <3>3. Min(P) \in Nat /\ Min(P \cup {n}) \in Nat /\ Min(P \cup {n}) <= Min(P)
      BY <2>2, <3>1, <3>2
    <3>4. Min(P \cup {n}) # n
      BY <1>3, <2>2, <3>1, <3>3
    <3> QED  BY <3>1, <3>2, <3>3, <3>4
  <2>4. Min(P) \in P
    BY <1>7, <2>2, MinIsLeast
  <2>5. calls'[Min(P)] = calls[Min(P)]
    BY <1>2, <1>3, <2>4
  <2>6. reported = <<calls[Min(P)].arg>> /\ panicstr \in Nat
    BY <1>4, <1>7 DEF Told, P
  <2>7. Told(calls', kpc', panicstr', reported')
    BY <1>2, <1>3, <2>1, <2>3, <2>5, <2>6, <1>7 DEF Told
  <2> QED  BY <2>7 DEF PanicInv
<1> QED  BY <1>6, <1>7

LEMMA PanicHolds == KernelSpec => []PanicInv
<1>1. Init => PanicInv
  <2> SUFFICES ASSUME Init PROVE PanicInv
    OBVIOUS
  <2>1. calls = << >> /\ kpc = "entry" /\ reported = << >> /\ panicstr \in {0, 1}
    BY DEF Init, NoPanic
  <2>2. Panics(<< >>, "entry") = {}
    BY DEF Panics
  <2> QED  BY <2>1, <2>2 DEF PanicInv, Told
<1>2. ASSUME StackInv, PanicInv, [KernelNext]_vars PROVE PanicInv'
  <2>1. CASE i386_init
    BY <1>2, <2>1, EntryTells
  <2>2. CASE test_backtrace
    BY <1>2, <2>2, CallTells DEF test_backtrace
  <2>3. CASE leaving
    BY <1>2, <2>3, LeavingTells
  <2>4. CASE backtrace_frame
    BY <1>2, <2>4, SameStackTells DEF backtrace_frame
  <2>5. CASE backtrace_end
    BY <1>2, <2>5, ReturnTells DEF backtrace_end, StackInv, AtTop, Top, Depth
  <2>6. CASE welcome
    BY <1>2, <2>6, SameStackTells DEF welcome
  <2>7. CASE prompt
    BY <1>2, <2>7, SameStackTells DEF prompt
  <2>8. CASE split
    BY <1>2, <2>8, SameStackTells DEF split, gobble, word, scan, parsed
  <2>9. CASE refuse
    BY <1>2, <2>9, SameStackTells DEF refuse, too_many
  <2>10. CASE unknown
    BY <1>2, <2>10, SameStackTells DEF unknown
  <2>11. ASSUME NEW name \in Commands, invoke(name) PROVE PanicInv'
    <3>1. CASE name = Backtrace
      BY <1>2, <2>11, <3>1, CallTells DEF invoke
    <3>2. CASE name # Backtrace
      <4> DEFINE fn == IF name = Help THEN "mon_help" ELSE "mon_kerninfo"
      <4>1. fn # "_panic" /\ calls' = Called(calls, fn, argc)
        BY <2>11, <3>2 DEF invoke
      <4> HIDE DEF fn
      <4> QED  BY <1>2, <2>11, <3>2, <4>1, CallTells DEF invoke
    <3> QED  BY <3>1, <3>2
  <2>12. CASE command
    BY <1>2, <2>12, ReturnTells DEF command, StackInv, AtTop, Top, Depth
  <2>13. CASE panic
    BY <1>2, <2>13, PanicTells
  <2>14. CASE panics
    BY <1>2, <2>14, PanicsTells
  <2>15. ASSUME NEW c \in Char, type(c) PROVE PanicInv'
    BY <1>2, <2>15, SameStackTells DEF type, kernel
  <2>16. ASSUME NEW c \in Char, enter(c) PROVE PanicInv'
    BY <1>2, <2>16, SameStackTells DEF enter, runcmd
  <2>17. CASE UNCHANGED vars
    BY <1>2, <2>17, SameStackTells DEF vars, kernel
  <2> QED
    BY <1>2, <2>1, <2>2, <2>3, <2>4, <2>5, <2>6, <2>7, <2>8, <2>9, <2>10, <2>11,
       <2>12, <2>13, <2>14, <2>15, <2>16, <2>17, Zenon
    DEF KernelNext, Kernel
<1> QED  BY <1>1, <1>2, StackHolds, PTL DEF KernelSpec

\* The first panic is reported and no other one, whatever the disk has left
\* in panicstr and however many panics follow.
THEOREM FirstPanicIsReported == KernelSpec => []FirstPanicReported
<1>1. StackInv /\ PanicInv => FirstPanicReported
  BY PanickedIsPanics DEF PanicInv, Told, FirstPanicReported
<1> QED  BY <1>1, StackHolds, PanicHolds, PTL
-----------------------------------------------------------------------------
(* The line editor.                                                        *)

\* The prompt, and behind it what the buffer b holds.
Text(b) ==
  [k \in 1 .. Len(Prompt) + BUFLEN |->
    IF k <= Len(Prompt) THEN Prompt[k] ELSE b[k - Len(Prompt) - 1]]

\* ShowsLine is stated of the line; that what has been typed is characters,
\* and that readline runs when the kernel is in it, is what is missing.
LineInv ==
  /\ TypeOK
  /\ buf \in [Index -> Glyph \cup {NUL}]
  /\ i \in Index
  /\ pc \in {"caller", "getchar"}
  /\ pc = "getchar" <=> kpc = "readline"
  /\ pc = "getchar" =>
       /\ \A n \in 0 .. i - 1 : buf[n] \in Glyph
       /\ Visible(Screen, Len(Prompt) + i, Text(buf))

LEMMA BufferArithmetic ==
  /\ BUFLEN \in Nat /\ BUFLEN > 1 /\ Index = 0 .. BUFLEN - 1 /\ 0 \in Index
  /\ Prompt \in Seq(Glyph) /\ Len(Prompt) \in Nat
  /\ NUL \notin Glyph
<1>1. BUFLEN \in Nat /\ BUFLEN > 1
  BY ReadlineAssumption
<1>2. Index = 0 .. BUFLEN - 1 /\ 0 \in Index
  BY <1>1 DEF Index
<1>3. Prompt \in Seq(Glyph) /\ Len(Prompt) \in Nat
  BY ReadlineAssumption
<1>4. NUL \notin Glyph
  BY ReadlineAssumption DEF Glyph, NUL, Blank
<1> QED  BY <1>1, <1>2, <1>3, <1>4

LEMMA TextBehind ==
  ASSUME NEW b, NEW n \in Index, NEW m, m = Len(Prompt) + n + 1
  PROVE  Text(b)[m] = b[n]
<1>1. m \in 1 .. Len(Prompt) + BUFLEN /\ ~(m <= Len(Prompt)) /\ m - Len(Prompt) - 1 = n
  BY BufferArithmetic
<1> QED  BY <1>1 DEF Text

LEMMA ScreenOnScreen ==
  /\ TypeOK <=> OnScreen(Screen)
  /\ TypeOK' <=> OnScreen([buf |-> crt_buf', pos |-> crt_pos'])
  BY DEF TypeOK, OnScreen, Screen

\* A record is its two parts.
LEMMA ScreenParts ==
  ASSUME NEW s, OnScreen(s)
  PROVE  s = [buf |-> s.buf, pos |-> s.pos]
  BY DEF OnScreen

\* cprintf keeps the cursor on the page.
LEMMA SaysPage == ASSUME TypeOK, NEW n \in Nat, Says(n) PROVE TypeOK'
<1>1. Lines(n) \in Seq(Char)
  <2> DEFINE m == Len(Message)
  <2>1. Message \in Seq(Char) /\ m \in Nat
    BY MonitorAssumption
  <2>2. n * m \in Nat
    BY <2>1
  <2>3. ASSUME NEW k \in 1 .. n * m PROVE Message[1 + ((k - 1) % m)] \in Char
    <3>1. m # 0
      <4>1. CASE m = 0
        <5>1. n * m = 0
          BY <4>1
        <5> QED  BY <5>1, <2>3
      <4> QED  BY <4>1
    <3>2. k - 1 \in Int /\ m \in Nat \ {0}
      BY <2>1, <2>2, <3>1
    <3> HIDE DEF m
    <3>3. (k - 1) % m \in 0 .. m - 1
      BY <3>2
    <3>4. 1 + ((k - 1) % m) \in 1 .. m
      BY <3>2, <3>3
    <3> QED  BY <2>1, <3>4 DEF m
  <2>4. Lines(n) = [k \in 1 .. n * m |-> Message[1 + ((k - 1) % m)]]
    BY DEF Lines
  <2> HIDE DEF m
  <2> QED  BY <2>2, <2>3, <2>4
<1>2. OnScreen(Printed(Screen, Lines(n)))
  BY <1>1, ScreenOnScreen, PrintedOnScreen
<1>3. crt_buf' = Printed(Screen, Lines(n)).buf /\ crt_pos' = Printed(Screen, Lines(n)).pos
  BY DEF Says
<1> QED  BY <1>2, <1>3 DEF OnScreen, TypeOK

\* Any step outside readline.
LEMMA OffLine ==
  ASSUME LineInv, TypeOK', buf' \in [Index -> Glyph \cup {NUL}], i' = i, pc' = pc,
         kpc # "readline", kpc' # "readline"
  PROVE  LineInv'
  BY DEF LineInv

\* The call of readline shows the prompt.
LEMMA PromptShows == ASSUME LineInv, prompt PROVE LineInv'
<1> DEFINE s == Printed(Screen, Prompt)
<1>1. /\ crt_buf' = s.buf /\ crt_pos' = s.pos /\ i' = 0 /\ pc' = "getchar"
      /\ buf' = buf /\ kpc' = "readline"
  BY DEF prompt, readline, Prompted
<1>2. OnScreen(Screen)
  BY ScreenOnScreen DEF LineInv
<1>3. Prompt \in Seq(Glyph) /\ Prompt \in Seq(Char)
  <2>1. Glyph \subseteq Char
    BY DEF Char
  <2> QED  BY <2>1, BufferArithmetic
<1>4. OnScreen(s) /\ Visible(s, Len(Prompt), Prompt)
  BY <1>2, <1>3, PrintedOnScreen, PrintedVisible
<1> HIDE DEF s
<1>5. Screen' = s /\ TypeOK'
  BY <1>1, <1>4, ScreenParts, ScreenOnScreen DEF Screen
<1>6. Visible(s, Len(Prompt) + 0, Text(buf'))
  <2>1. Len(Prompt) + 0 = Len(Prompt)
    BY BufferArithmetic
  <2>2. \A k \in 1 .. Len(Prompt) : Text(buf')[k] = Prompt[k]
    BY BufferArithmetic DEF Text
  <2> HIDE DEF Text
  <2>3. \A k \in 1 .. Len(Prompt) : Len(Prompt) + 1 - k \in 1 .. Len(Prompt)
    BY BufferArithmetic
  <2> QED  BY <1>4, <2>1, <2>2, <2>3 DEF Visible
<1>7. \A n \in 0 .. i' - 1 : buf'[n] \in Glyph
  BY <1>1
<1> QED  BY <1>1, <1>5, <1>6, <1>7, BufferArithmetic DEF LineInv

\* Backspace and delete.
LEMMA EraseShows ==
  ASSUME LineInv, NEW c, erase(c), kpc = "readline", kpc' = kpc
  PROVE  LineInv'
<1> DEFINE N == Len(Prompt) + (i - 1)
<1>1. /\ crt_buf' = Shown(Screen, BS).buf /\ crt_pos' = Shown(Screen, BS).pos
      /\ i \in Index /\ i > 0 /\ i' = i - 1 /\ buf' = buf /\ pc' = pc /\ pc = "getchar"
      /\ OnScreen(Screen)
  BY ScreenOnScreen DEF erase, cga_putc, LineInv
<1>2. Shown(Screen, BS) = Back(Screen) /\ OnScreen(Shown(Screen, BS))
  BY <1>1, ShownCases, ShownOnScreen DEF Char
<1>3. Screen' = Back(Screen) /\ TypeOK'
  <2>1. Screen' = [buf |-> Back(Screen).buf, pos |-> Back(Screen).pos]
    BY <1>1, <1>2 DEF Screen
  <2> QED  BY <1>2, <2>1, ScreenParts, ScreenOnScreen DEF Screen
<1>4. N \in Nat /\ N + 1 = Len(Prompt) + i
  BY <1>1, BufferArithmetic
<1>5. Visible(Screen, N + 1, Text(buf))
  BY <1>1, <1>4 DEF LineInv
<1>6. Visible(Back(Screen), N, Text(buf))
  <2> HIDE DEF N
  <2> QED  BY <1>1, <1>4, <1>5, BackVisible
<1>7. i - 1 \in Index /\ \A n \in 0 .. i - 1 - 1 : buf[n] \in Glyph
  BY <1>1, BufferArithmetic DEF LineInv
<1> QED  BY <1>1, <1>3, <1>6, <1>7 DEF LineInv

\* A character, if there is room for it.
LEMMA InsertShows ==
  ASSUME LineInv, NEW c, insert(c), kpc = "readline", kpc' = kpc
  PROVE  LineInv'
<1> DEFINE N == Len(Prompt) + i
<1>1. /\ crt_buf' = Shown(Screen, c).buf /\ crt_pos' = Shown(Screen, c).pos
      /\ i \in Index /\ i < BUFLEN - 1 /\ i' = i + 1 /\ c \in Glyph
      /\ buf' = [buf EXCEPT ![i] = c] /\ pc' = pc /\ pc = "getchar"
      /\ OnScreen(Screen) /\ buf \in [Index -> Glyph \cup {NUL}]
  BY ScreenOnScreen DEF insert, cga_putc, LineInv
<1>2. Shown(Screen, c) = Write(Screen, c) /\ OnScreen(Write(Screen, c))
  BY <1>1, ShownCases, WriteOnScreen
<1>3. Screen' = Write(Screen, c) /\ TypeOK'
  <2>1. Screen' = [buf |-> Write(Screen, c).buf, pos |-> Write(Screen, c).pos]
    BY <1>1, <1>2 DEF Screen
  <2> QED  BY <1>2, <2>1, ScreenParts, ScreenOnScreen DEF Screen
<1>4. /\ N \in Nat /\ N + 1 = Len(Prompt) + (i + 1) /\ i + 1 \in Index
  BY <1>1, BufferArithmetic
<1>5. /\ \A k \in 1 .. N : Text(buf')[k] = Text(buf)[k]
      /\ Text(buf')[N + 1] = c
  <2>1. ASSUME NEW k \in 1 .. N PROVE Text(buf')[k] = Text(buf)[k]
    <3>1. k \in 1 .. Len(Prompt) + BUFLEN
      BY <1>1, BufferArithmetic
    <3>2. CASE k <= Len(Prompt)
      BY <3>1, <3>2 DEF Text
    <3>3. CASE ~(k <= Len(Prompt))
      <4>1. k - Len(Prompt) - 1 \in Index /\ k - Len(Prompt) - 1 # i
        BY <1>1, <3>3, BufferArithmetic
      <4>2. buf'[k - Len(Prompt) - 1] = buf[k - Len(Prompt) - 1]
        BY <1>1, <4>1
      <4> QED  BY <3>1, <3>3, <4>2 DEF Text
    <3> QED  BY <3>2, <3>3
  <2>2. buf'[i] = c
    BY <1>1
  <2>3. Text(buf')[N + 1] = c
    BY <1>1, <1>4, <2>2, TextBehind
  <2> QED  BY <2>1, <2>3
<1>6. Visible(Screen, N, Text(buf))
  BY <1>1 DEF LineInv
<1>7. Visible(Write(Screen, c), N + 1, Text(buf'))
  <2> DEFINE t == Text(buf)  u == Text(buf')
  <2> HIDE DEF N, t, u
  <2>1. Visible(Screen, N, t) /\ (\A k \in 1 .. N : u[k] = t[k]) /\ u[N + 1] = c
    BY <1>5, <1>6 DEF t, u
  <2>2. Visible(Write(Screen, c), N + 1, u)
    BY <1>1, <1>4, <2>1, WriteVisible
  <2> QED  BY <2>2, Zenon DEF u
<1>8. buf' \in [Index -> Glyph \cup {NUL}]
  BY <1>1
<1>9. \A n \in 0 .. i + 1 - 1 : buf'[n] \in Glyph
  BY <1>1, BufferArithmetic DEF LineInv
<1>10. Visible(Screen', Len(Prompt) + i', Text(buf)')
  <2>1. Len(Prompt) + i' = N + 1
    BY <1>1, <1>4
  <2> QED  BY <1>3, <1>7, <2>1, Zenon
<1>11. i' \in Index /\ \A n \in 0 .. i' - 1 : buf'[n] \in Glyph
  BY <1>1, <1>4, <1>9, BufferArithmetic
<1> HIDE DEF N
<1> QED  BY <1>1, <1>3, <1>8, <1>10, <1>11 DEF LineInv

\* The end of the line.
LEMMA FinishLeaves ==
  ASSUME LineInv, NEW c, finish(c), kpc' # "readline"
  PROVE  LineInv'
<1>1. /\ crt_buf' = Shown(Screen, LF).buf /\ crt_pos' = Shown(Screen, LF).pos
      /\ buf' = [buf EXCEPT ![i] = NUL] /\ i' = i /\ pc' = "caller" /\ OnScreen(Screen)
      /\ buf \in [Index -> Glyph \cup {NUL}] /\ i \in Index
  BY ScreenOnScreen DEF finish, cga_putc, LineInv
<1>2. OnScreen(Shown(Screen, LF))
  BY <1>1, ShownOnScreen DEF Char
<1>3. TypeOK'
  BY <1>1, <1>2 DEF OnScreen, TypeOK
<1>4. buf' \in [Index -> Glyph \cup {NUL}]
  BY <1>1
<1> QED  BY <1>1, <1>3, <1>4 DEF LineInv

LEMMA LineInit == Init => LineInv
<1> SUFFICES ASSUME Init PROVE LineInv
  OBVIOUS
<1>1. TypeOK /\ i = 0 /\ pc = "caller" /\ kpc = "entry"
  BY DEF Init, cga_init, TypeOK
<1>2. buf \in [Index -> Glyph \cup {NUL}]
  BY DEF Init
<1> QED  BY <1>1, <1>2, BufferArithmetic DEF LineInv

\* The steps that print lines, and leave the buffer or clear it.
LEMMA SaysLeaves ==
  ASSUME LineInv, NEW n \in Nat, Says(n), buf' = buf, UNCHANGED <<i, pc>>,
         kpc # "readline", kpc' # "readline"
  PROVE  LineInv'
  BY SaysPage, OffLine DEF LineInv

LEMMA LineStep == ASSUME LineInv, [KernelNext]_vars PROVE LineInv'
<1>1. CASE i386_init
  <2>1. TypeOK'
    BY <1>1, SaysPage DEF LineInv, i386_init
  <2>2. buf' \in [Index -> Glyph \cup {NUL}]
    BY <1>1 DEF i386_init, bss_cleared
  <2> QED  BY <1>1, <2>1, <2>2, OffLine DEF i386_init
<1>2. CASE test_backtrace
  <2>1. Says(1) /\ UNCHANGED <<buf, i, pc>> /\ kpc # "readline" /\ kpc' # "readline"
    BY <1>2 DEF test_backtrace
  <2> QED  BY <2>1, SaysLeaves
<1>3. CASE leaving
  <2>1. Says(1) /\ UNCHANGED <<buf, i, pc>> /\ kpc # "readline" /\ kpc' # "readline"
    BY <1>3 DEF leaving
  <2> QED  BY <2>1, SaysLeaves
<1>4. CASE backtrace_frame
  BY <1>4, SaysLeaves DEF backtrace_frame
<1>5. CASE backtrace_end
  <2>1. /\ UNCHANGED <<crt_buf, crt_pos, buf, i, pc>> /\ kpc # "readline" /\ kpc' # "readline"
    BY <1>5 DEF backtrace_end, crt
  <2> QED  BY <2>1 DEF LineInv, TypeOK
<1>6. CASE welcome
  BY <1>6, SaysLeaves DEF welcome
<1>7. CASE prompt
  BY <1>7, PromptShows
<1>8. CASE split
  <2>1. /\ UNCHANGED <<crt_buf, crt_pos, i, pc>> /\ kpc # "readline" /\ kpc' # "readline"
        /\ buf' = buf \/ buf' = [buf EXCEPT ![ptr] = NUL]
    BY <1>8 DEF split, gobble, word, scan, parsed, crt
  <2>2. buf' \in [Index -> Glyph \cup {NUL}]
    BY <2>1 DEF LineInv
  <2> QED  BY <2>1, <2>2 DEF LineInv, TypeOK
<1>9. CASE refuse
  BY <1>9, SaysLeaves DEF refuse, too_many
<1>10. CASE unknown
  BY <1>10, SaysLeaves DEF unknown
<1>11. ASSUME NEW name \in Commands, invoke(name) PROVE LineInv'
  <2>1. /\ UNCHANGED <<crt_buf, crt_pos, buf, i, pc>> /\ kpc # "readline" /\ kpc' # "readline"
    BY <1>11 DEF invoke, crt
  <2> QED  BY <2>1 DEF LineInv, TypeOK
<1>12. CASE command
  <2>1. LinesOf(Top.fn) \in Nat
    BY MonitorAssumption DEF LinesOf
  <2> QED  BY <1>12, <2>1, SaysLeaves DEF command
<1>13. CASE panic
  <2>1. CASE panicstr = NoPanic
    BY <1>13, <2>1, SaysLeaves DEF panic
  <2>2. CASE panicstr # NoPanic
    <3>1. UNCHANGED <<crt_buf, crt_pos, buf, i, pc>> /\ kpc # "readline" /\ kpc' # "readline"
      BY <1>13, <2>2 DEF panic, crt
    <3> QED  BY <3>1 DEF LineInv, TypeOK
  <2> QED  BY <2>1, <2>2
<1>14. CASE panics
  BY <1>14, SaysLeaves DEF panics
<1>15. ASSUME NEW c \in Char, type(c) PROVE LineInv'
  BY <1>15, EraseShows, InsertShows DEF type, kernel
<1>16. ASSUME NEW c \in Char, enter(c) PROVE LineInv'
  BY <1>16, FinishLeaves DEF enter, runcmd
<1>17. CASE UNCHANGED vars
  BY <1>17 DEF vars, rvars, crt, kernel, LineInv, TypeOK, Screen
<1> QED
  BY <1>1, <1>2, <1>3, <1>4, <1>5, <1>6, <1>7, <1>8, <1>9, <1>10, <1>11, <1>12,
     <1>13, <1>14, <1>15, <1>16, <1>17, Zenon
  DEF KernelNext, Kernel

LEMMA LineHolds == KernelSpec => []LineInv
  BY LineInit, LineStep, PTL DEF KernelSpec

\* The line on the screen is the line in the buffer, behind the prompt and as
\* far as it has not scrolled off: for a page of any size, whatever is typed
\* and erased, when lines wrap, the page scrolls and the buffer is full.
THEOREM ScreenShowsLine == KernelSpec => []ShowsLine
<1>1. LineInv => ShowsLine
  <2> SUFFICES ASSUME LineInv, pc = "getchar"
               PROVE  \A n \in 1 .. Len(Prompt \o Line) :
                        n <= crt_pos => crt_buf[crt_pos - n] =
                                          (Prompt \o Line)[Len(Prompt \o Line) + 1 - n]
    BY DEF ShowsLine
  <2> DEFINE N == Len(Prompt) + i
             w == Prompt \o Line
  <2>1. i \in Index /\ i \in Nat /\ i <= BUFLEN - 1
    BY BufferArithmetic DEF LineInv
  <2>2. Line \in Seq(Glyph) /\ Len(Line) = i /\ \A k \in 1 .. i : Line[k] = buf[k - 1]
    <3>1. \A k \in 1 .. i : buf[k - 1] \in Glyph
      BY <2>1 DEF LineInv
    <3> QED  BY <2>1, <3>1 DEF Line
  <2>3. Len(w) = N /\ \A k \in 1 .. N : w[k] = IF k <= Len(Prompt) THEN Prompt[k]
                                             ELSE Line[k - Len(Prompt)]
    <3> HIDE DEF Line
    <3> QED  BY <2>1, <2>2, BufferArithmetic
  <2>4. \A k \in 1 .. N : w[k] = Text(buf)[k]
    <3> SUFFICES ASSUME NEW k \in 1 .. N PROVE w[k] = Text(buf)[k]
      OBVIOUS
    <3>1. k \in 1 .. Len(Prompt) + BUFLEN
      BY <2>1, BufferArithmetic
    <3>2. CASE k <= Len(Prompt)
      BY <2>3, <3>1, <3>2 DEF Text
    <3>3. CASE ~(k <= Len(Prompt))
      <4>1. k - Len(Prompt) \in 1 .. i
        BY <2>1, <3>3, BufferArithmetic
      <4>2. w[k] = buf[k - Len(Prompt) - 1]
        <5>1. w[k] = Line[k - Len(Prompt)]
          BY <2>3, <3>3
        <5> QED  BY <2>2, <4>1, <5>1
      <4> QED  BY <3>1, <3>3, <4>2 DEF Text
    <3> QED  BY <3>2, <3>3
  <2>5. Visible(Screen, N, Text(buf)) /\ N \in Nat
    BY <2>1, BufferArithmetic DEF LineInv
  <2> HIDE DEF N, w
  <2>6. ASSUME NEW n \in 1 .. N, n <= crt_pos PROVE crt_buf[crt_pos - n] = w[N + 1 - n]
    <3>1. N + 1 - n \in 1 .. N
      BY <2>5
    <3>2. crt_buf[crt_pos - n] = Text(buf)[N + 1 - n]
      BY <2>5, <2>6 DEF Visible, Screen
    <3> QED  BY <2>4, <3>1, <3>2
  <2> QED  BY <2>3, <2>6 DEF w
<1> QED  BY <1>1, LineHolds, PTL
-----------------------------------------------------------------------------
(* The words of a line.                                                    *)

\* Where words of the line l start, before place p.
StartsAt(l, q) == l[q + 1] \in Letter /\ (q > 0 => l[q] \in White)
Before(l, p) == {q \in 0 .. Len(l) - 1 : q < p /\ StartsAt(l, q)}

LEMMA BeforeFinite ==
  ASSUME NEW l \in Seq(Glyph), NEW p
  PROVE  IsFiniteSet(Before(l, p)) /\ Cardinality(Before(l, p)) \in Nat
<1>1. IsFiniteSet(0 .. Len(l) - 1)
  BY FS_Interval
<1>2. IsFiniteSet(Before(l, p))
  BY <1>1, FS_Subset DEF Before
<1> QED  BY <1>2, FS_CardinalityType

LEMMA BeforeNone ==
  ASSUME NEW l PROVE Cardinality(Before(l, 0)) = 0
<1>1. Before(l, 0) = {}
  BY DEF Before
<1> QED  BY <1>1, FS_EmptySet

\* The place where a word starts is counted when it is passed, and no other.
LEMMA BeforeNext ==
  ASSUME NEW l \in Seq(Glyph), NEW p \in Nat
  PROVE  /\ p < Len(l) /\ StartsAt(l, p) =>
              Cardinality(Before(l, p + 1)) = Cardinality(Before(l, p)) + 1
         /\ ~(p < Len(l) /\ StartsAt(l, p)) => Before(l, p + 1) = Before(l, p)
<1>1. ASSUME p < Len(l), StartsAt(l, p)
      PROVE  Cardinality(Before(l, p + 1)) = Cardinality(Before(l, p)) + 1
  <2>1. Before(l, p + 1) = Before(l, p) \cup {p} /\ p \notin Before(l, p)
    BY <1>1 DEF Before
  <2> QED  BY <2>1, BeforeFinite, FS_AddElement
<1>2. ASSUME ~(p < Len(l) /\ StartsAt(l, p)) PROVE Before(l, p + 1) = Before(l, p)
  BY <1>2 DEF Before
<1> QED  BY <1>1, <1>2

\* All the words start before the end.
LEMMA BeforeAll ==
  ASSUME NEW l \in Seq(Glyph), NEW p \in Nat
  PROVE  /\ Before(l, p) \subseteq Before(l, Len(l))
         /\ Cardinality(Before(l, p)) <= Cardinality(Before(l, Len(l)))
<1>1. Before(l, p) \subseteq Before(l, Len(l))
  BY DEF Before
<1> QED  BY <1>1, BeforeFinite, FS_Subset

LEMMA StartsIsBefore == ASSUME line \in Seq(Glyph) PROVE Starts = Before(line, Len(line))
  BY DEF Starts, Before, StartsAt

Parsing == {"gobble", "scan", "lookup", "command"}

\* While a line is parsed, the buffer holds it up to a NUL, and NUL in the
\* place of white space that has been passed; argv has the words passed.
\* After a word, the scan stops at the white space behind it.
ParseInv ==
  /\ line \in Seq(Glyph)
  /\ ptr \in Index
  /\ argv \in [0 .. MAXARGS - 1 -> Index \cup {NULL, UNSET}]
  /\ argc \in 0 .. MAXARGS - 1
  /\ kpc \in Parsing =>
       /\ Len(line) <= BUFLEN - 1 /\ ptr <= Len(line)
       /\ buf[Len(line)] = NUL
       /\ \A k \in 0 .. Len(line) - 1 :
            buf[k] = IF k < ptr /\ line[k + 1] \in White THEN NUL ELSE line[k + 1]
       /\ \A k \in 0 .. argc - 1 :
            /\ argv[k] \in Before(line, Len(line))
            /\ Cardinality(Before(line, argv[k])) = k
       /\ argc = Cardinality(Before(line, IF kpc = "scan" THEN ptr + 1 ELSE ptr))
       /\ kpc = "gobble" /\ ptr < Len(line) /\ line[ptr + 1] \in Letter => StartsAt(line, ptr)
       /\ kpc \in {"lookup", "command"} => ptr = Len(line) /\ argv[argc] = NULL

LEMMA ArgvArithmetic ==
  /\ MAXARGS \in Nat /\ MAXARGS > 1 /\ 0 \in 0 .. MAXARGS - 1
  /\ Unset \in [0 .. MAXARGS - 1 -> Index \cup {NULL, UNSET}]
  /\ White \cap Letter = {} /\ Glyph = White \cup Letter
  /\ NUL \notin White /\ NUL \notin Letter
  BY RunCmdAssumption, BufferArithmetic DEF Unset, White, Letter, Glyph

\* What the parser sees at ptr is what the line has there.
LEMMA AtPtr ==
  ASSUME ParseInv, kpc \in {"gobble", "scan"}
  PROVE  /\ Len(line) \in Nat /\ ptr \in Nat /\ ptr <= Len(line)
         /\ \/ /\ ptr < Len(line) /\ line[ptr + 1] \in Glyph
               /\ buf[ptr] = line[ptr + 1]
            \/ ptr = Len(line) /\ buf[ptr] = NUL
<1>1. Len(line) \in Nat /\ ptr \in Nat /\ ptr <= Len(line)
  BY BufferArithmetic DEF ParseInv, Parsing
<1>2. CASE ptr < Len(line)
  <2>1. line[ptr + 1] \in Glyph
    BY <1>1, <1>2 DEF ParseInv
  <2>2. ptr \in 0 .. Len(line) - 1 /\ ~(ptr < ptr)
    BY <1>1, <1>2
  <2>3. buf[ptr] = line[ptr + 1]
    BY <2>2 DEF ParseInv, Parsing
  <2> QED  BY <1>1, <1>2, <2>1, <2>3
<1>3. CASE ptr = Len(line)
  BY <1>1, <1>3 DEF ParseInv, Parsing
<1> QED  BY <1>1, <1>2, <1>3

\* White space is skipped.
LEMMA GobbleParses ==
  ASSUME ParseInv, LineInv, gobble, UNCHANGED line PROVE ParseInv'
<1>1. /\ kpc = "gobble" /\ kpc' = kpc /\ buf[ptr] \in White /\ ptr' = ptr + 1
      /\ buf' = [buf EXCEPT ![ptr] = NUL] /\ UNCHANGED <<line, argv, argc>>
  BY DEF gobble
<1>2. /\ ptr < Len(line) /\ line[ptr + 1] \in White /\ line[ptr + 1] \notin Letter
      /\ Len(line) \in Nat /\ ptr \in Nat /\ Len(line) <= BUFLEN - 1 /\ line \in Seq(Glyph)
  BY <1>1, AtPtr, ArgvArithmetic DEF ParseInv, Parsing
<1>3. Before(line, ptr + 1) = Before(line, ptr)
  BY <1>2, BeforeNext DEF StartsAt
<1>4. ptr' \in Index /\ ptr' <= Len(line)
  BY <1>1, <1>2, BufferArithmetic
<1>5. buf'[Len(line)] = NUL
  <2>1. Len(line) \in Index /\ ptr # Len(line)
    BY <1>2, BufferArithmetic
  <2> QED  BY <1>1, <2>1 DEF LineInv, ParseInv, Parsing
<1>6. ASSUME NEW k \in 0 .. Len(line) - 1
      PROVE  buf'[k] = IF k < ptr + 1 /\ line[k + 1] \in White THEN NUL ELSE line[k + 1]
  <2>1. k \in Index
    BY <1>2, BufferArithmetic
  <2>2. buf[k] = IF k < ptr /\ line[k + 1] \in White THEN NUL ELSE line[k + 1]
    BY <1>1 DEF ParseInv, Parsing
  <2>3. CASE k = ptr
    <3>1. buf'[k] = NUL
      BY <1>1, <2>1, <2>3 DEF LineInv
    <3> QED  BY <1>2, <2>3, <3>1
  <2>4. CASE k # ptr
    <3>1. buf'[k] = buf[k]
      BY <1>1, <2>1, <2>4 DEF LineInv
    <3>2. k < ptr + 1 <=> k < ptr
      BY <1>2, <2>4
    <3> QED  BY <2>2, <3>1, <3>2
  <2> QED  BY <2>3, <2>4
<1>7. StartsAt(line, ptr + 1) \/ ~(line[ptr + 1 + 1] \in Letter)
  BY <1>2 DEF StartsAt
<1> QED  BY <1>1, <1>3, <1>4, <1>5, <1>6, <1>7 DEF ParseInv, Parsing

\* A word begins.
LEMMA WordParses ==
  ASSUME ParseInv, LineInv, word, UNCHANGED line PROVE ParseInv'
<1>1. /\ kpc = "gobble" /\ kpc' = "scan" /\ buf[ptr] \in Letter /\ argc # MAXARGS - 1
      /\ argv' = [argv EXCEPT ![argc] = ptr] /\ argc' = argc + 1
      /\ UNCHANGED <<line, buf, ptr>>
  BY DEF word
<1>2. /\ ptr < Len(line) /\ line[ptr + 1] \in Letter /\ StartsAt(line, ptr)
      /\ Len(line) \in Nat /\ ptr \in Nat /\ line \in Seq(Glyph)
      /\ argc = Cardinality(Before(line, ptr))
  BY <1>1, AtPtr, ArgvArithmetic DEF ParseInv, Parsing
<1>3. Cardinality(Before(line, ptr + 1)) = argc + 1
  BY <1>2, BeforeNext
<1>4. ptr \in Before(line, Len(line))
  BY <1>2 DEF Before
<1>5. /\ argc \in Nat /\ argc + 1 \in 0 .. MAXARGS - 1 /\ argc \in 0 .. MAXARGS - 1
      /\ argv \in [0 .. MAXARGS - 1 -> Index \cup {NULL, UNSET}] /\ ptr \in Index
  BY <1>1, ArgvArithmetic DEF ParseInv
<1>6. argv' \in [0 .. MAXARGS - 1 -> Index \cup {NULL, UNSET}]
  BY <1>1, <1>5
<1>7. ASSUME NEW k \in 0 .. argc' - 1
      PROVE  /\ argv'[k] \in Before(line, Len(line))
             /\ Cardinality(Before(line, argv'[k])) = k
  <2>1. CASE k = argc
    <3>1. argv'[k] = ptr
      BY <1>1, <1>5, <2>1
    <3> QED  BY <1>2, <1>4, <2>1, <3>1
  <2>2. CASE k # argc
    <3>1. k \in 0 .. argc - 1 /\ argv'[k] = argv[k]
      BY <1>1, <1>5, <1>7, <2>2
    <3> QED  BY <1>1, <3>1 DEF ParseInv, Parsing
  <2> QED  BY <2>1, <2>2
<1> QED  BY <1>1, <1>3, <1>5, <1>6, <1>7 DEF ParseInv, Parsing

\* A word is passed, letter by letter.
LEMMA ScanParses ==
  ASSUME ParseInv, LineInv, scan, UNCHANGED line PROVE ParseInv'
<1>1. /\ kpc = "scan" /\ UNCHANGED <<line, buf, argv, argc>>
  BY DEF scan
<1>2. /\ Len(line) \in Nat /\ ptr \in Nat /\ line \in Seq(Glyph)
      /\ Len(line) <= BUFLEN - 1
      /\ argc = Cardinality(Before(line, ptr + 1))
  BY <1>1, AtPtr DEF ParseInv, Parsing
<1>3. CASE buf[ptr] \in Letter
  <2>1. /\ ptr < Len(line) /\ line[ptr + 1] \in Letter /\ line[ptr + 1] \notin White
        /\ ptr' = ptr + 1 /\ kpc' = "scan"
    BY <1>1, <1>3, AtPtr, ArgvArithmetic DEF scan
  <2>2. Before(line, ptr + 1 + 1) = Before(line, ptr + 1)
    <3>1. ~StartsAt(line, ptr + 1)
      BY <1>2, <2>1 DEF StartsAt
    <3> QED  BY <1>2, <3>1, BeforeNext
  <2>3. ptr + 1 \in Index /\ ptr + 1 <= Len(line)
    BY <1>2, <2>1, BufferArithmetic
  <2>4. ASSUME NEW k \in 0 .. Len(line) - 1
        PROVE  buf[k] = IF k < ptr + 1 /\ line[k + 1] \in White THEN NUL ELSE line[k + 1]
    <3>1. buf[k] = IF k < ptr /\ line[k + 1] \in White THEN NUL ELSE line[k + 1]
      BY <1>1 DEF ParseInv, Parsing
    <3>2. CASE k = ptr
      BY <1>2, <2>1, <3>1, <3>2
    <3>3. CASE k # ptr
      <4>1. k < ptr + 1 <=> k < ptr
        BY <1>2, <3>3
      <4> QED  BY <3>1, <4>1
    <3> QED  BY <3>2, <3>3
  <2> QED  BY <1>1, <1>2, <2>1, <2>2, <2>3, <2>4 DEF ParseInv, Parsing
<1>4. CASE buf[ptr] \notin Letter
  <2>1. /\ ~(ptr < Len(line) /\ StartsAt(line, ptr))
        /\ ~(ptr < Len(line) /\ line[ptr + 1] \in Letter)
        /\ ptr' = ptr /\ kpc' = "gobble"
    BY <1>1, <1>4, AtPtr DEF scan, StartsAt
  <2>2. Before(line, ptr + 1) = Before(line, ptr)
    BY <1>2, <2>1, BeforeNext
  <2> QED  BY <1>1, <1>2, <2>1, <2>2 DEF ParseInv, Parsing
<1> QED  BY <1>3, <1>4

\* The line is at its end.
LEMMA ParsedParses ==
  ASSUME ParseInv, LineInv, parsed, UNCHANGED line PROVE ParseInv'
<1>1. /\ kpc = "gobble" /\ buf[ptr] = NUL /\ argv' = [argv EXCEPT ![argc] = NULL]
      /\ kpc' = (IF argc = 0 THEN "loop" ELSE "lookup") /\ UNCHANGED <<line, buf, ptr, argc>>
  BY DEF parsed
<1>2. /\ ptr = Len(line) /\ Len(line) \in Nat
  <2>1. ~(buf[ptr] \in Glyph)
    BY <1>1, BufferArithmetic
  <2> QED  BY <1>1, <2>1, AtPtr
<1>3. /\ argc \in 0 .. MAXARGS - 1 /\ argv \in [0 .. MAXARGS - 1 -> Index \cup {NULL, UNSET}]
  BY DEF ParseInv
<1>4. /\ argv' \in [0 .. MAXARGS - 1 -> Index \cup {NULL, UNSET}] /\ argv'[argc] = NULL
      /\ \A k \in 0 .. argc - 1 : argv'[k] = argv[k]
  BY <1>1, <1>3, ArgvArithmetic
<1> QED  BY <1>1, <1>2, <1>3, <1>4 DEF ParseInv, Parsing

\* The call of runcmd, for the line just ended.
LEMMA EnterParses ==
  ASSUME LineInv, NEW c, finish(c), runcmd, kpc = "readline" PROVE ParseInv'
<1>1. /\ line' = Line /\ ptr' = 0 /\ argv' = [Unset EXCEPT ![0] = NULL] /\ argc' = 0
      /\ kpc' = "gobble" /\ buf' = [buf EXCEPT ![i] = NUL]
  BY DEF finish, runcmd
<1>2. /\ i \in Nat /\ i \in Index /\ i <= BUFLEN - 1
      /\ \A n \in 0 .. i - 1 : buf[n] \in Glyph
      /\ buf \in [Index -> Glyph \cup {NUL}]
  BY BufferArithmetic DEF LineInv, finish
<1>3. Line \in Seq(Glyph) /\ Len(Line) = i /\ \A k \in 1 .. i : Line[k] = buf[k - 1]
  <2>1. \A k \in 1 .. i : buf[k - 1] \in Glyph
    BY <1>2
  <2> QED  BY <1>2, <2>1 DEF Line
<1> HIDE DEF Line
<1>4. /\ argv' \in [0 .. MAXARGS - 1 -> Index \cup {NULL, UNSET}] /\ 0 \in 0 .. MAXARGS - 1
  BY <1>1, ArgvArithmetic
<1>5. buf'[i] = NUL /\ \A k \in 0 .. i - 1 : buf'[k] = Line[k + 1]
  <2>1. buf'[i] = NUL
    BY <1>1, <1>2
  <2>2. ASSUME NEW k \in 0 .. i - 1 PROVE buf'[k] = Line[k + 1]
    <3>1. k \in Index /\ k # i /\ k + 1 \in 1 .. i /\ k + 1 - 1 = k
      BY <1>2, BufferArithmetic
    <3>2. buf'[k] = buf[k]
      BY <1>1, <1>2, <3>1
    <3>3. Line[k + 1] = buf[k + 1 - 1]
      BY <1>3, <3>1
    <3> QED  BY <3>1, <3>2, <3>3
  <2> QED  BY <2>1, <2>2
<1>6. Cardinality(Before(Line, 0)) = 0 /\ (Line[0 + 1] \in Letter => StartsAt(Line, 0))
  BY BeforeNone DEF StartsAt
<1> QED  BY <1>1, <1>2, <1>3, <1>4, <1>5, <1>6, BufferArithmetic DEF ParseInv, Parsing

\* The steps outside the parser, and that of the command looked up.
LEMMA ElsewhereParses ==
  ASSUME ParseInv, LineInv, UNCHANGED <<line, parse>>,
         kpc' \notin Parsing \/ (kpc = "lookup" /\ kpc' = "command" /\ buf' = buf)
  PROVE  ParseInv'
<1>1. CASE kpc' \notin Parsing
  BY <1>1 DEF ParseInv, parse
<1>2. CASE kpc = "lookup" /\ kpc' = "command" /\ buf' = buf
  BY <1>2 DEF ParseInv, parse, Parsing
<1> QED  BY <1>1, <1>2

LEMMA ParseInit == Init => ParseInv
<1> SUFFICES ASSUME Init PROVE ParseInv
  OBVIOUS
<1>1. line = << >> /\ ptr = 0 /\ argc = 0 /\ argv = Unset /\ kpc = "entry"
  BY DEF Init
<1> QED  BY <1>1, BufferArithmetic, ArgvArithmetic DEF ParseInv, Parsing

LEMMA ParseStep == ASSUME LineInv, ParseInv, [KernelNext]_vars PROVE ParseInv'
<1>1. CASE i386_init \/ test_backtrace \/ leaving
  BY <1>1, ElsewhereParses DEF i386_init, test_backtrace, leaving, Parsing
<1>2. CASE backtrace_frame \/ backtrace_end \/ welcome
  BY <1>2, ElsewhereParses DEF backtrace_frame, backtrace_end, welcome, Parsing
<1>3. CASE prompt
  <2>1. /\ line' = << >> /\ ptr' = 0 /\ argc' = 0 /\ argv' = Unset /\ kpc' = "readline"
    BY <1>3 DEF prompt
  <2> QED  BY <2>1, BufferArithmetic, ArgvArithmetic DEF ParseInv, Parsing
<1>4. CASE split
  BY <1>4, GobbleParses, WordParses, ScanParses, ParsedParses DEF split
<1>5. CASE refuse
  BY <1>5, ElsewhereParses DEF refuse, too_many, Parsing
<1>6. CASE unknown \/ command
  BY <1>6, ElsewhereParses DEF unknown, command, Parsing
<1>7. ASSUME NEW name \in Commands, invoke(name) PROVE ParseInv'
  BY <1>7, ElsewhereParses DEF invoke, Parsing
<1>8. CASE panic \/ panics
  BY <1>8, ElsewhereParses DEF panic, panics, Parsing
<1>9. ASSUME NEW c \in Char, type(c) PROVE ParseInv'
  BY <1>9, ElsewhereParses DEF type, kernel, Parsing
<1>10. ASSUME NEW c \in Char, enter(c) PROVE ParseInv'
  BY <1>10, EnterParses DEF enter
<1>11. CASE UNCHANGED vars
  BY <1>11 DEF vars, rvars, kernel, parse, ParseInv
<1> QED
  BY <1>1, <1>2, <1>3, <1>4, <1>5, <1>6, <1>7, <1>8, <1>9, <1>10, <1>11, Zenon
  DEF KernelNext, Kernel

LEMMA ParseHolds == KernelSpec => []ParseInv
  BY ParseInit, ParseStep, LineHolds, PTL DEF KernelSpec

\* Every access to the buffer of readline and to argv is inside it, and every
\* frame has its place in the walk, for buffers, pages and stacks of any size.
THEOREM MonitorIsTyped == KernelSpec => []MonitorTypeOK
<1>1. LineInv /\ ParseInv => RunCmdTypeOK
  BY DEF LineInv, ParseInv, RunCmdTypeOK, ReadlineTypeOK
<1>2. StackInv /\ PanicInv /\ RunCmdTypeOK => MonitorTypeOK
  <2> SUFFICES ASSUME StackInv, PanicInv, RunCmdTypeOK PROVE MonitorTypeOK
    OBVIOUS
  <2>1. \A k \in DOMAIN calls : calls[k].ebp = k - 1
    BY DEF StackInv, Linked
  <2>2. ebp \in 0 .. Depth /\ panicstr \in Nat
    BY DEF StackInv, Walk, PanicInv, Told, Depth
  <2>3. kpc \in InMonitor \cup InTest \cup {"entry", "backtrace", "command", "panic"}
    BY DEF StackInv, AtTop
  <2> QED  BY <2>1, <2>2, <2>3 DEF MonitorTypeOK, InMonitor, InTest
<1> QED  BY <1>1, <1>2, StackHolds, LineHolds, ParseHolds, PanicHolds, PTL

\* A line with words is refused only when there are more of them than argv
\* holds beside the null pointer, for an argv of any size.
THEOREM RefusesOnlyTooMany == KernelSpec => RefusesTooMany
<1>1. ASSUME LineInv, ParseInv, [KernelNext]_vars,
             kpc = "gobble", kpc' = "loop", Starts # {}
      PROVE  Cardinality(Starts) >= MAXARGS
  <2> DEFINE all == Before(line, Len(line))
  <2>1. Starts = all /\ line \in Seq(Glyph) /\ argc = Cardinality(Before(line, ptr))
    BY <1>1, StartsIsBefore DEF ParseInv, Parsing
  <2>2. parsed \/ too_many
    BY <1>1 DEF KernelNext, Kernel, i386_init, test_backtrace, leaving, backtrace_frame,
                backtrace_end, welcome, prompt, split, gobble, word, scan, refuse, unknown,
                invoke, command, panic, panics, type, enter, vars, kernel
  <2>3. CASE parsed
    <3>1. argc = 0 /\ ptr = Len(line)
      <4>1. buf[ptr] = NUL /\ argc = 0
        BY <1>1, <2>3 DEF parsed
      <4> QED  BY <1>1, <4>1, AtPtr, BufferArithmetic
    <3>2. Cardinality(all) = 0
      BY <2>1, <3>1
    <3>3. all = {}
      BY <2>1, <3>2, BeforeFinite, FS_EmptySet
    <3> QED  BY <1>1, <2>1, <3>3
  <2>4. CASE too_many
    <3>1. argc = MAXARGS - 1 /\ ptr < Len(line) /\ StartsAt(line, ptr) /\ ptr \in Nat
      <4>1. buf[ptr] \in Letter /\ argc = MAXARGS - 1
        BY <2>4 DEF too_many
      <4>2. ptr < Len(line) /\ line[ptr + 1] \in Letter /\ ptr \in Nat
        BY <1>1, <4>1, AtPtr, ArgvArithmetic
      <4> QED  BY <1>1, <4>1, <4>2 DEF ParseInv, Parsing
    <3>2. Cardinality(Before(line, ptr + 1)) = argc + 1
      BY <2>1, <3>1, BeforeNext
    <3>3. Cardinality(Before(line, ptr + 1)) <= Cardinality(all)
      BY <2>1, <3>1, BeforeAll
    <3>4. Cardinality(all) \in Nat /\ argc + 1 = MAXARGS
      <4>1. Cardinality(all) \in Nat
        BY <2>1, BeforeFinite, Zenon
      <4>2. argc + 1 = MAXARGS
        BY <3>1, ArgvArithmetic
      <4> QED  BY <4>1, <4>2, Zenon
    <3> HIDE DEF all
    <3> QED  BY <2>1, <3>2, <3>3, <3>4, ArgvArithmetic
  <2> QED  BY <2>2, <2>3, <2>4
<1>2. LineInv /\ ParseInv /\ [KernelNext]_vars =>
        [kpc = "gobble" /\ kpc' = "loop" /\ Starts # {} =>
           Cardinality(Starts) >= MAXARGS]_<<kpc, parse>>
  BY <1>1
<1> QED  BY <1>2, LineHolds, ParseHolds, PTL DEF KernelSpec, RefusesTooMany

\* Max is the one that is not below any.
LEMMA MaxIsGreatest ==
  ASSUME NEW T, T \subseteq Nat, NEW m \in T, \A k \in T : k <= m
  PROVE  Max(T) = m
<1>1. \E x \in T : \A y \in T : x >= y
  OBVIOUS
<1>2. Max(T) \in T /\ \A y \in T : Max(T) >= y
  BY <1>1 DEF Max
<1>3. Max(T) >= m /\ Max(T) <= m /\ Max(T) \in Nat /\ m \in Nat
  BY <1>2
<1> QED  BY <1>3

\* A word in the buffer ends at the white space that has been overwritten
\* behind it, or at the end of the line.
LEMMA StringIsWord ==
  ASSUME ParseInv, LineInv, kpc \in {"lookup", "command"},
         NEW p \in Before(line, Len(line))
  PROVE  StringAt(buf, p) = WordAt(p)
<1> DEFINE T == {k \in p .. BUFLEN - 1 : buf[k] = NUL}
           e == Min(T)
           W == {k \in p + 1 .. Len(line) : \A j \in p + 1 .. k : line[j] \in Letter}
<1>1. /\ Len(line) \in Nat /\ Len(line) <= BUFLEN - 1 /\ line \in Seq(Glyph)
      /\ p \in Nat /\ p < Len(line) /\ line[p + 1] \in Letter
      /\ buf[Len(line)] = NUL
  BY DEF ParseInv, Parsing, Before, StartsAt
<1>2. ASSUME NEW k \in 0 .. Len(line) - 1
      PROVE  /\ line[k + 1] \in White => buf[k] = NUL
             /\ line[k + 1] \notin White => buf[k] = line[k + 1] /\ buf[k] \in Letter
  <2>1. k < ptr /\ line[k + 1] \in Glyph
    BY <1>1 DEF ParseInv, Parsing
  <2>2. buf[k] = IF k < ptr /\ line[k + 1] \in White THEN NUL ELSE line[k + 1]
    BY DEF ParseInv, Parsing
  <2> QED  BY <2>1, <2>2, ArgvArithmetic
<1>3. Len(line) \in T /\ T \subseteq Nat
  BY <1>1, BufferArithmetic
<1>4. e \in T /\ \A m \in T : e <= m
  <2> HIDE DEF T
  <2> QED  BY <1>3, MinIsLeast
<1>5. e \in Nat /\ p <= e /\ e <= Len(line) /\ e <= BUFLEN - 1 /\ buf[e] = NUL
  <2>1. e \in p .. BUFLEN - 1 /\ buf[e] = NUL /\ e <= Len(line)
    BY <1>3, <1>4
  <2> HIDE DEF e
  <2> QED  BY <1>1, <2>1, BufferArithmetic
<1>6. ASSUME NEW k \in Nat, p <= k, k < e PROVE k \in 0 .. Len(line) - 1 /\ buf[k] # NUL
  <2>1. k \notin T
    <3>1. ~(e <= k)
      <4> HIDE DEF e
      <4> QED  BY <1>5, <1>6
    <3> QED  BY <1>4, <3>1
  <2>2. k \in 0 .. Len(line) - 1 /\ k \in p .. BUFLEN - 1
    <3> HIDE DEF e
    <3> QED  BY <1>1, <1>5, <1>6, BufferArithmetic
  <2> QED  BY <2>1, <2>2
<1> HIDE DEF e, T
<1>7. p + 1 <= e
  <2>1. p \in 0 .. Len(line) - 1
    BY <1>1
  <2>2. buf[p] # NUL
    BY <1>1, <1>2, <2>1, ArgvArithmetic
  <2>3. p # e
    BY <1>5, <2>2
  <2> QED  BY <1>1, <1>5, <2>3
<1>8. ASSUME NEW j \in p + 1 .. e
      PROVE  line[j] \in Letter /\ buf[j - 1] = line[j]
  <2>1. j - 1 \in Nat /\ p <= j - 1 /\ j - 1 < e /\ j - 1 + 1 = j
    BY <1>1, <1>5
  <2>2. j - 1 \in 0 .. Len(line) - 1 /\ buf[j - 1] # NUL
    BY <1>6, <2>1
  <2>3. line[j - 1 + 1] \notin White
    BY <1>2, <2>2
  <2>4. buf[j - 1] = line[j - 1 + 1] /\ buf[j - 1] \in Letter
    BY <1>2, <2>2, <2>3
  <2> QED  BY <2>1, <2>4
<1>9. e \in W
  BY <1>1, <1>5, <1>7, <1>8
<1>10. ASSUME NEW k \in W PROVE k <= e
  <2>1. SUFFICES ASSUME e < k PROVE FALSE
    BY <1>1, <1>5, <1>10
  <2>2. e + 1 \in p + 1 .. k /\ e \in 0 .. Len(line) - 1
    BY <1>1, <1>5, <1>10, <2>1
  <2>3. line[e + 1] \in Letter
    BY <1>10, <2>2
  <2>4. line[e + 1] \notin White
    BY <2>3, ArgvArithmetic
  <2>5. buf[e] \in Letter
    BY <1>2, <2>2, <2>4
  <2> QED  BY <1>5, <2>5, ArgvArithmetic
<1>11. Max(W) = e
  <2>1. W \subseteq Nat
    BY <1>1
  <2> HIDE DEF W
  <2> QED  BY <1>9, <1>10, <2>1, MaxIsGreatest
<1>12. StringAt(buf, p) = [k \in 1 .. e - p |-> buf[p + k - 1]]
  BY DEF StringAt, e, T
<1>13. WordAt(p) = SubSeq(line, p + 1, e)
  BY <1>11 DEF WordAt, W
<1>14. SubSeq(line, p + 1, e) = [k \in 1 .. e - p |-> line[p + k]]
  <2>1. \A k \in p + 1 .. e : line[k] \in Glyph
    BY <1>1, <1>5
  <2>2. p + 1 \in Int /\ e \in Int
    BY <1>1, <1>5
  <2>3. /\ SubSeq(line, p + 1, e) \in Seq(Glyph)
        /\ Len(SubSeq(line, p + 1, e)) = e - (p + 1) + 1
        /\ \A k \in 1 .. e - (p + 1) + 1 : SubSeq(line, p + 1, e)[k] = line[p + 1 + k - 1]
    BY <1>7, <2>1, <2>2, SubSeqProperties
  <2>4. e - (p + 1) + 1 = e - p /\ \A k \in 1 .. e - p : p + 1 + k - 1 = p + k
    BY <1>1, <1>5
  <2> DEFINE s == SubSeq(line, p + 1, e)
  <2>5. s \in Seq(Glyph) /\ Len(s) = e - p /\ \A k \in 1 .. e - p : s[k] = line[p + k]
    BY <2>3, <2>4
  <2> HIDE DEF s
  <2>6. s = [k \in 1 .. Len(s) |-> s[k]]
    BY <2>5
  <2>7. s = [k \in 1 .. e - p |-> line[p + k]]
    BY <2>5, <2>6
  <2> QED  BY <2>7 DEF s
<1>15. \A k \in 1 .. e - p : buf[p + k - 1] = line[p + k]
  <2> SUFFICES ASSUME NEW k \in 1 .. e - p PROVE buf[p + k - 1] = line[p + k]
    OBVIOUS
  <2>1. p + k \in p + 1 .. e
    BY <1>1, <1>5
  <2>2. buf[p + k - 1] = line[p + k]
    <3> HIDE DEF e
    <3> DEFINE j == p + k
    <3>1. j \in p + 1 .. e /\ buf[j - 1] = line[j]
      BY <1>8, <2>1
    <3>2. p \in Nat /\ k \in Int
      BY <1>1
    <3> QED  BY <3>1, <3>2
  <2> QED  BY <2>2
<1> QED  BY <1>12, <1>13, <1>14, <1>15

\* A command runs with the words of the line, in order and each ended by a
\* NUL of its own, for a line and an argv of any size.
THEOREM CommandsGetTheirWords == KernelSpec => []ArgumentsAreWords
<1>1. LineInv /\ ParseInv => ArgumentsAreWords
  <2> SUFFICES ASSUME LineInv, ParseInv, kpc \in {"lookup", "command"}
               PROVE  /\ argc = Cardinality(Starts)
                      /\ argv[argc] = NULL
                      /\ \A k \in 0 .. argc - 1 :
                           /\ argv[k] \in Starts
                           /\ Cardinality({p \in Starts : p < argv[k]}) = k
                           /\ StringAt(buf, argv[k]) = WordAt(argv[k])
    BY DEF ArgumentsAreWords
  <2>1. Starts = Before(line, Len(line)) /\ ptr = Len(line)
    BY StartsIsBefore DEF ParseInv, Parsing
  <2>2. argc = Cardinality(Starts) /\ argv[argc] = NULL
    BY <2>1 DEF ParseInv, Parsing
  <2>3. ASSUME NEW k \in 0 .. argc - 1
        PROVE  /\ argv[k] \in Starts
               /\ Cardinality({p \in Starts : p < argv[k]}) = k
               /\ StringAt(buf, argv[k]) = WordAt(argv[k])
    <3>1. argv[k] \in Before(line, Len(line)) /\ Cardinality(Before(line, argv[k])) = k
      BY <2>3 DEF ParseInv, Parsing
    <3>2. {p \in Starts : p < argv[k]} = Before(line, argv[k])
      BY <2>1, <3>1 DEF Before
    <3> QED  BY <2>1, <3>1, <3>2, StringIsWord
  <2> QED  BY <2>2, <2>3
<1> QED  BY <1>1, LineHolds, ParseHolds, PTL
=============================================================================
