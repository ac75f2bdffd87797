----------------------------- MODULE ConsOutput ----------------------------
(***************************************************************************)
(* The output side of the console, kern/console.c: cons_putc sends each    *)
(* character to the serial port, the printer and the display, and waits    *)
(* for the first two a bounded time only.                                  *)
(*                                                                         *)
(* The display handles a tab by calling cons_putc(' ') five times from     *)
(* inside cga_putc, so cons_putc is reentered: `todo' is the stack of the  *)
(* characters whose output has begun or is still to come.                  *)
(*                                                                         *)
(* The kernel runs one device access at a time; the serial port and the    *)
(* printer run on their own, as slowly as they like.                       *)
(***************************************************************************)
EXTENDS Cga, Sequences

CONSTANTS
  MaxWait,      \* turns of a wait for a device, 12800 in the code
  MaxPrinted,   \* bound: characters printed in a behaviour
  FirstScreens  \* bound: what cga_init finds on the display

ASSUME OutputAssumption ==
  /\ MaxWait \in Nat \ {0} /\ MaxPrinted \in Nat
  /\ FirstScreens \subseteq [buf : [Cell -> Glyph], pos : Cell]

VARIABLES
  todo,       \* characters to output, the one being output first
  opc,        \* where in cons_putc the kernel is
  turns,      \* the local i of serial_putc and lpt_putc
  thr,        \* the transmit register of COM1: << >> or one character
  sent,       \* history: what the serial line has carried
  busy,       \* is the printer busy?
  paper,      \* history: what the printer was strobed to take
  printed,    \* history: how many characters were passed to cputchar
  due,        \* history: what serial port and printer are to get for them
  shown,      \* history: the screen that cga_putc makes of them by itself
  gaveUp      \* history: has a wait for the serial port run out?

devices == <<thr, sent, busy>>
asked == <<printed, due, shown>>
ovars == <<crt, todo, opc, turns, devices, paper, asked, gaveUp>>

\* What a character is for serial port and printer: a tab is followed by the
\* blanks that the display makes of it.
Blanks(n) == [k \in 1 .. n |-> Blank]
Sent(c) == IF c = TAB THEN <<TAB>> \o Blanks(5) ELSE <<c>>

OInit ==
  /\ \E s \in FirstScreens : crt_buf = s.buf /\ crt_pos = s.pos /\ shown = s
  /\ todo = << >>
  /\ opc = "idle"
  /\ turns = 0
  /\ thr = << >>
  /\ sent = << >>
  /\ busy \in BOOLEAN
  /\ paper = << >>
  /\ printed = 0
  /\ due = << >>
  /\ gaveUp = FALSE
-----------------------------------------------------------------------------
(* The devices.                                                            *)

\* The character in the transmit register goes out on the line.
UartSends ==
  /\ thr # << >>
  /\ sent' = sent \o thr
  /\ thr' = << >>
  /\ UNCHANGED <<crt, todo, opc, turns, busy, paper, asked, gaveUp>>

\* The printer becomes busy or ready.
PrinterTurns ==
  /\ busy' = ~busy
  /\ UNCHANGED <<crt, todo, opc, turns, thr, sent, paper, asked, gaveUp>>
-----------------------------------------------------------------------------
(* The kernel.                                                             *)

\* cprintf or readline outputs a character.
cputchar(c) ==
  /\ opc = "idle"
  /\ printed < MaxPrinted
  /\ printed' = printed + 1
  /\ due' = due \o Sent(c)
  /\ shown' = Shown(shown, c)
  /\ todo' = <<c>>
  /\ opc' = "serial_putc"
  /\ UNCHANGED <<crt, turns, devices, paper, gaveUp>>

\* One turn of the wait in serial_putc, and the same in lpt_putc.
serial_wait ==
  /\ opc = "serial_putc"
  /\ thr # << >>
  /\ turns < MaxWait
  /\ turns' = turns + 1
  /\ UNCHANGED <<crt, todo, opc, devices, paper, asked, gaveUp>>

lpt_wait ==
  /\ opc = "lpt_putc"
  /\ busy
  /\ turns < MaxWait
  /\ turns' = turns + 1
  /\ UNCHANGED <<crt, todo, opc, devices, paper, asked, gaveUp>>

\* Mutant: the character is written without waiting for the register.
serial_write_now ==
  /\ opc = "serial_putc"
  /\ thr' = <<Head(todo)>>
  /\ turns' = 0
  /\ opc' = "lpt_putc"
  /\ UNCHANGED <<crt, todo, sent, busy, paper, asked, gaveUp>>

\* Mutant: serial_putc waits for ever.
serial_write_ready ==
  /\ opc = "serial_putc"
  /\ thr = << >>
  /\ thr' = <<Head(todo)>>
  /\ turns' = 0
  /\ opc' = "lpt_putc"
  /\ UNCHANGED <<crt, todo, sent, busy, paper, asked, gaveUp>>

\* serial_putc stops waiting and writes the transmit register, over what it
\* still holds when the wait has run out.
serial_write ==
  /\ opc = "serial_putc"
  /\ thr = << >> \/ turns >= MaxWait
  /\ thr' = <<Head(todo)>>
  /\ gaveUp' = (gaveUp \/ thr # << >>)
  /\ turns' = 0
  /\ opc' = "lpt_putc"
  /\ UNCHANGED <<crt, todo, sent, busy, paper, asked>>

\* lpt_putc stops waiting and strobes the printer.
lpt_strobe ==
  /\ opc = "lpt_putc"
  /\ ~busy \/ turns >= MaxWait
  /\ paper' = Append(paper, Head(todo))
  /\ turns' = 0
  /\ opc' = "cga_putc"
  /\ UNCHANGED <<crt, todo, devices, asked, gaveUp>>

\* Mutant: a tab writes its blanks on the display only.
cga_tab_local ==
  /\ opc = "cga_putc"
  /\ Head(todo) = TAB
  /\ cga_putc(TAB)
  /\ todo' = Tail(todo)
  /\ opc' = "idle"
  /\ UNCHANGED <<turns, devices, paper, asked, gaveUp>>

\* cga_putc('\t') calls cons_putc(' ') five times; what it does after them
\* (its own scrolling) finds the position already on the screen.
cga_tab ==
  /\ opc = "cga_putc"
  /\ Head(todo) = TAB
  /\ todo' = Blanks(5) \o Tail(todo)
  /\ opc' = "serial_putc"
  /\ UNCHANGED <<crt, turns, devices, paper, asked, gaveUp>>

\* cga_putc of any other character, and the return from cons_putc.
cga_write ==
  /\ opc = "cga_putc"
  /\ Head(todo) # TAB
  /\ cga_putc(Head(todo))
  /\ todo' = Tail(todo)
  /\ opc' = IF Tail(todo) = << >> THEN "idle" ELSE "serial_putc"
  /\ UNCHANGED <<turns, devices, paper, asked, gaveUp>>

cons_putc ==
  \/ serial_wait \/ serial_write
  \/ lpt_wait \/ lpt_strobe
  \/ cga_tab \/ cga_write

ONext ==
  \/ UartSends \/ PrinterTurns
  \/ cons_putc
  \/ \E c \in Char : cputchar(c)

OSpec == OInit /\ [][ONext]_ovars

(* A call of cons_putc runs to its end; the devices need not do anything.  *)
OFairSpec == OSpec /\ WF_ovars(cons_putc)
-----------------------------------------------------------------------------
(* Properties.                                                             *)

\* Unless a wait ran out, the serial port carries every character once, in
\* the order of the calls, the blanks of a tab right behind it, although the
\* calls for these are made from inside the call for the tab.
SerialCarriesAll ==
  opc = "idle" /\ ~gaveUp => sent \o thr = due

\* The printer gets the same characters whatever the serial port does, and
\* the display shows them, a tab as what cga_putc does in one go.
DevicesAgree ==
  opc = "idle" => paper = due /\ Screen = shown

\* Liveness: output always ends, even when a device is never ready again.
OutputEnds == []<>(opc = "idle")
=============================================================================
