-------------------------------- MODULE Cga --------------------------------
(***************************************************************************)
(* The text-mode display of kern/console.c: cga_putc and the video memory  *)
(* it writes, a flat array of CRT_ROWS * CRT_COLS cells with one position. *)
(*                                                                         *)
(* A cell is abstracted to its character: the attribute byte is 0x07       *)
(* unless the caller sets one, and no position depends on it.              *)
(***************************************************************************)
EXTENDS Integers

CONSTANTS
  CRT_ROWS, CRT_COLS,   \* 25 and 80 in the code
  Printable             \* the characters that show as themselves, but ' '

BS == "BS"     \* '\b'
LF == "LF"     \* '\n'
CR == "CR"     \* '\r'
TAB == "TAB"   \* '\t'
Blank == " "

ASSUME CgaAssumption ==
  /\ CRT_ROWS \in Nat \ {0}
  /\ CRT_COLS \in Nat \ {0}
  /\ Printable \cap {BS, LF, CR, TAB, Blank} = {}

CRT_SIZE == CRT_ROWS * CRT_COLS
Cell == 0 .. CRT_SIZE - 1
Glyph == Printable \cup {Blank}
Char == Glyph \cup {BS, LF, CR, TAB}

VARIABLES
  crt_buf,   \* the characters on the screen
  crt_pos    \* where the next one goes

crt == <<crt_buf, crt_pos>>
-----------------------------------------------------------------------------
(* cga_putc as a function on screens [buf, pos].                           *)

\* Mutant: the line that comes in at the bottom is not cleared.
ScrolledDirty(s) ==
  IF s.pos < CRT_SIZE
    THEN s
    ELSE [buf |-> [i \in Cell |-> IF i < CRT_SIZE - CRT_COLS
                                    THEN s.buf[i + CRT_COLS] ELSE s.buf[i]],
          pos |-> s.pos - CRT_COLS]

\* The end of cga_putc: past the last cell, the lines move up by one.
Scrolled(s) ==
  IF s.pos < CRT_SIZE
    THEN s
    ELSE [buf |-> [i \in Cell |-> IF i < CRT_SIZE - CRT_COLS
                                    THEN s.buf[i + CRT_COLS] ELSE Blank],
          pos |-> s.pos - CRT_COLS]

\* case '\b'.
Back(s) ==
  IF s.pos = 0 THEN s
  ELSE [buf |-> [s.buf EXCEPT ![s.pos - 1] = Blank], pos |-> s.pos - 1]

LineStart(p) == p - (p % CRT_COLS)

\* case '\n', which falls through to case '\r'.
LineFeed(s) == Scrolled([s EXCEPT !.pos = LineStart(@ + CRT_COLS)])
Return(s) == [s EXCEPT !.pos = LineStart(@)]

\* default, the cell at the position is written and the position moves on.
Write(s, g) ==
  Scrolled([buf |-> [s.buf EXCEPT ![s.pos] = g], pos |-> s.pos + 1])

\* case '\t': cons_putc(' ') five times, each with its own scrolling.
Space(s) == Write(s, Blank)
Spaces(s) == Space(Space(Space(Space(Space(s)))))

\* The screen after cga_putc(c).
Shown(s, c) ==
  CASE c = BS  -> Back(s)
    [] c = LF  -> LineFeed(s)
    [] c = CR  -> Return(s)
    [] c = TAB -> Spaces(s)
    [] OTHER   -> Write(s, c)

Screen == [buf |-> crt_buf, pos |-> crt_pos]

cga_putc(c) ==
  /\ crt_buf' = Shown(Screen, c).buf
  /\ crt_pos' = Shown(Screen, c).pos

\* cga_init takes over whatever the BIOS left on the screen, and its cursor.
cga_init ==
  /\ crt_buf \in [Cell -> Glyph]
  /\ crt_pos \in Cell

Next == \E c \in Char : cga_putc(c)

Spec == cga_init /\ [][Next]_crt
-----------------------------------------------------------------------------
(* Properties.                                                             *)

\* Type invariant: cga_putc writes inside the video page, because the cursor
\* it leaves behind is always on the screen.
TypeOK ==
  /\ crt_buf \in [Cell -> Glyph]
  /\ crt_pos \in Cell

\* Refinement: one position in a flat array and one test at the end of
\* cga_putc give a page of lines, wrapping, scrolling and erasing included.
Page == INSTANCE Terminal WITH
  Rows <- CRT_ROWS, Cols <- CRT_COLS,
  page <- [r \in 0 .. CRT_ROWS - 1 |->
            [c \in 0 .. CRT_COLS - 1 |-> crt_buf[r * CRT_COLS + c]]],
  row <- crt_pos \div CRT_COLS,
  col <- crt_pos % CRT_COLS
ImplementsTerminal == Page!Spec
=============================================================================
