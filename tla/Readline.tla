------------------------------ MODULE Readline -----------------------------
(***************************************************************************)
(* lib/readline.c: the line editor of the monitor.  It prints a prompt,    *)
(* takes characters from getchar, echoes them on the display of Cga and    *)
(* collects them in a static buffer, until the user ends the line.         *)
(*                                                                         *)
(* getchar never returns a negative value at this commit (cons_getc gives  *)
(* a byte), so the read error branch, lines 19 to 21, is never taken.      *)
(***************************************************************************)
EXTENDS Cga, SequencesExt

CONSTANTS
  BUFLEN,   \* 1024 in the code
  DEL,      \* '\x7f', which the display shows like any other character
  Prompt    \* what is printed first

NUL == "NUL"

ASSUME ReadlineAssumption ==
  /\ BUFLEN \in Nat \ {0, 1}
  /\ DEL \in Printable /\ NUL \notin Printable
  /\ Prompt \in Seq(Glyph)

VARIABLES
  buf,    \* the static buffer; NUL is the terminator
  i,      \* how many characters of it are filled
  pc      \* "caller" while the editor is not running, or "getchar"

rvars == <<crt, buf, i, pc>>

Index == 0 .. BUFLEN - 1

\* What cprintf makes of the screen s, the characters of t one by one.
Printed(s, t) ==
  LET after[n \in 0 .. Len(t)] ==
        IF n = 0 THEN s ELSE Shown(after[n - 1], t[n])
  IN  after[Len(t)]

\* The screen after cprintf has printed the prompt.
Prompted == Printed(Screen, Prompt)

\* The call of readline: the prompt, and i = 0.
readline ==
  /\ pc = "caller"
  /\ crt_buf' = Prompted.buf
  /\ crt_pos' = Prompted.pos
  /\ i' = 0
  /\ pc' = "getchar"
  /\ UNCHANGED buf

\* Backspace or delete, when there is something to erase.
erase(c) ==
  /\ pc = "getchar"
  /\ c \in {BS, DEL}
  /\ i > 0
  /\ cga_putc(BS)
  /\ i' = i - 1
  /\ UNCHANGED <<buf, pc>>

\* Mutant: the last place of the buffer is filled too.
insert_to_end(c) ==
  /\ pc = "getchar"
  /\ c \in Glyph
  /\ ~(c = DEL /\ i > 0)
  /\ i < BUFLEN
  /\ cga_putc(c)
  /\ buf' = [buf EXCEPT ![i] = c]
  /\ i' = i + 1
  /\ UNCHANGED pc

\* Mutant: a character is echoed even when the buffer is full.
insert_echo(c) ==
  /\ pc = "getchar"
  /\ c \in Glyph
  /\ ~(c = DEL /\ i > 0)
  /\ cga_putc(c)
  /\ IF i < BUFLEN - 1
       THEN buf' = [buf EXCEPT ![i] = c] /\ i' = i + 1
       ELSE UNCHANGED <<buf, i>>
  /\ UNCHANGED pc

\* A character of code ' ' or more, while the buffer has room for it and the
\* terminator.  Delete at the start of the line comes here too.
insert(c) ==
  /\ pc = "getchar"
  /\ c \in Glyph
  /\ ~(c = DEL /\ i > 0)
  /\ i < BUFLEN - 1
  /\ cga_putc(c)
  /\ buf' = [buf EXCEPT ![i] = c]
  /\ i' = i + 1
  /\ UNCHANGED pc

\* The end of the line.
finish(c) ==
  /\ pc = "getchar"
  /\ c \in {LF, CR}
  /\ cga_putc(LF)
  /\ buf' = [buf EXCEPT ![i] = NUL]
  /\ pc' = "caller"
  /\ UNCHANGED i

-----------------------------------------------------------------------------
(* Properties.                                                             *)

\* Type invariant: i leaves a place of the buffer for the terminator.
ReadlineTypeOK ==
  /\ TypeOK
  /\ buf \in [Index -> Glyph \cup {NUL}]
  /\ i \in Index
  /\ pc \in {"caller", "getchar"}

\* The characters typed, as they stand in the buffer.
Line == [n \in 1 .. i |-> buf[n - 1]]

\* What you see is what you get: reading backwards from the cursor, the
\* screen shows the line being edited and the prompt before it, as far as
\* they have not scrolled off, whatever was typed and erased and wherever
\* lines wrapped.  So a character that the full buffer refuses is not
\* echoed, and erasing never eats the prompt.
ShowsLine ==
  pc = "getchar" =>
    LET shown == Prompt \o Line
    IN  \A n \in 1 .. Len(shown) :
          n <= crt_pos => crt_buf[crt_pos - n] = shown[Len(shown) + 1 - n]
=============================================================================
