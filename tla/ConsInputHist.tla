--------------------------- MODULE ConsInputHist ---------------------------
(***************************************************************************)
(* ConsInput seen from outside: which of the characters that cons_intr     *)
(* accepted does a caller of getchar ever receive?  History variables      *)
(* record both ends; no step of ConsInput depends on them.                 *)
(***************************************************************************)
EXTENDS ConsInput

CONSTANT MaxAccepted   \* bound: how many characters a behaviour accepts

VARIABLES
  accepted,   \* the characters cons_intr stored, in order
  returned,   \* the characters getchar returned, in order
  full        \* has the buffer ever been asked to hold CONSBUFSIZE of them?

histVars == <<vars, accepted, returned, full>>

HistInit ==
  /\ Init
  /\ accepted = << >>
  /\ returned = << >>
  /\ full = FALSE

\* cons_intr stores the byte b of a device, unless it is 0.
Accept(b) ==
  /\ accepted' = IF b = 0 THEN accepted ELSE Append(accepted, b)
  /\ full' = (full \/ (b # 0 /\ Waiting = CONSBUFSIZE - 1))
  /\ UNCHANGED returned

HistNext ==
  \/ /\ Len(accepted) + Len(kbd) + Len(uart) < MaxAccepted
     /\ Arrival
     /\ UNCHANGED <<accepted, returned, full>>
  \/ serial_proc_data /\ Accept(Head(uart))
  \/ kbd_proc_data /\ Accept(Head(kbd))
  \/ grab /\ returned' = Append(returned, got') /\ UNCHANGED <<accepted, full>>
  \/ /\ \/ cons_init \/ getchar \/ serial_intr_returns
        \/ kbd_intr_returns \/ grab_none
     /\ UNCHANGED <<accepted, returned, full>>

(* The processor never stops, and the monitor asks for the next character  *)
(* for ever; nothing is assumed of the devices.                            *)
HistSpec == HistInit /\ [][HistNext]_histVars /\ WF_histVars(Kernel /\ HistNext)
-----------------------------------------------------------------------------
(* Properties.                                                             *)

\* What callers have received or would still receive.
Given == returned \o Window

\* While fewer than CONSBUFSIZE characters have ever waited at once, nothing
\* is lost, repeated or reordered, however often the indices have wrapped.
NothingLostBelowCapacity == ~full => Given = accepted

\* The i-th element of t comes after skipped[i] blocks of CONSBUFSIZE
\* consecutive elements of s that are not in t.
Skips(t, s, skipped) ==
  /\ \A i, j \in 1 .. Len(t) : i <= j => skipped[i] <= skipped[j]
  /\ \A i \in 1 .. Len(t) : t[i] = s[i + skipped[i] * CONSBUFSIZE]

\* t is s without some such blocks.
Thins(t, s) ==
  \E lost \in 0 .. Len(s) :
    /\ Len(s) = Len(t) + lost * CONSBUFSIZE
    /\ \E skipped \in [1 .. Len(t) -> 0 .. lost] : Skips(t, s, skipped)

\* What an overrun loses is always a whole buffer of consecutive characters:
\* the rest is returned once, in order.
LostInWholeBuffers == Thins(Given, accepted)

\* kern/console.c:405: cons_getc returns `the next input character from the
\* console, or 0 if none waiting'.  So when it returns 0, every character the
\* devices delivered has been returned.  An overrun refutes it.
ZeroOnlyIfNoneWaiting ==
  [][pc = "grab" /\ pc' = "serial_intr" => Len(returned) = Len(accepted)]_histVars
=============================================================================
