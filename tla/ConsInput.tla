----------------------------- MODULE ConsInput -----------------------------
(***************************************************************************)
(* The input side of the console, kern/console.c: the circular buffer      *)
(* `cons', the serial port and the keyboard polled into it by cons_intr,   *)
(* and getchar taking characters out of it.                                *)
(*                                                                         *)
(* Three actors interleave: the kernel, which runs one step of cons_getc   *)
(* at a time, and the two devices, which receive bytes at any moment.      *)
(* The kernel at this commit never enables interrupts (boot.S executes cli *)
(* and no IDT is loaded), so serial_intr and kbd_intr run only where       *)
(* cons_getc calls them.                                                   *)
(*                                                                         *)
(* Bytes are abstracted to members of Char and 0.  For the serial port 0   *)
(* is a NUL byte; for the keyboard each element is what kbd_proc_data      *)
(* returns for the next scan code, 0 when it completes no character (what  *)
(* it returns is the subject of module Kbd).                               *)
(***************************************************************************)
EXTENDS Naturals, Sequences

CONSTANTS
  CONSBUFSIZE,   \* slots of cons.buf, 512 in the code
  Char,          \* the non-zero bytes that devices deliver
  KbdDepth       \* scan codes the keyboard controller can hold

ASSUME ConsAssumption ==
  /\ CONSBUFSIZE \in Nat \ {0, 1}
  /\ KbdDepth \in Nat \ {0}
  /\ 0 \notin Char

Byte == Char \cup {0}
Slot == 0 .. CONSBUFSIZE - 1

VARIABLES
  buf, rpos, wpos,   \* the fields of cons
  serial_exists,     \* set once, by serial_init
  uart,              \* the receive register of COM1: << >> or one byte
  kbd,               \* what the keyboard controller holds, oldest first
  pc,                \* where the kernel is
  got                \* what the last call of getchar returned

ring == <<buf, rpos, wpos>>
vars == <<buf, rpos, wpos, serial_exists, uart, kbd, pc, got>>

(* The buffer is in the BSS, which i386_init has cleared; the devices may  *)
(* hold anything from before the kernel started.                           *)
Init ==
  /\ buf = [s \in Slot |-> 0]
  /\ rpos = 0
  /\ wpos = 0
  /\ serial_exists = FALSE
  /\ uart \in {<< >>} \cup {<<b>> : b \in Byte}
  /\ kbd = << >>
  /\ pc = "cons_init"
  /\ got = 0
-----------------------------------------------------------------------------
(* The devices.                                                            *)

\* COM1 receives a byte.  The FIFO is off: a byte not yet read is overrun.
SerialArrives(b) ==
  /\ uart' = <<b>>
  /\ UNCHANGED <<buf, rpos, wpos, serial_exists, kbd, pc, got>>

\* The keyboard controller receives a scan code; a full one drops it.
KbdArrives(b) ==
  /\ Len(kbd) < KbdDepth
  /\ kbd' = Append(kbd, b)
  /\ UNCHANGED <<buf, rpos, wpos, serial_exists, uart, pc, got>>
-----------------------------------------------------------------------------
(* The kernel.                                                             *)

\* serial_init probes the port (its status reads 0xFF when there is none)
\* and discards a byte already received; kbd_init does nothing.
cons_init ==
  /\ pc = "cons_init"
  /\ serial_exists' \in BOOLEAN
  /\ uart' = << >>
  /\ pc' = "caller"
  /\ UNCHANGED <<buf, rpos, wpos, kbd, got>>

\* Mutant: the index is compared with the last slot after its use (`>').
SuccLate(pos) == IF pos = CONSBUFSIZE THEN 0 ELSE pos + 1

\* Mutant: the last slot is never used.
SuccEarly(pos) == IF pos + 1 = CONSBUFSIZE - 1 THEN 0 ELSE pos + 1

\* The next position of an index of cons, which wraps at the end.
Succ(pos) == IF pos + 1 = CONSBUFSIZE THEN 0 ELSE pos + 1

\* Mutant: cons_intr without `if (c == 0) continue'.
StoreAny(c) ==
  /\ buf' = [buf EXCEPT ![wpos] = c]
  /\ wpos' = Succ(wpos)
  /\ UNCHANGED rpos

\* The body of cons_intr's loop: store the byte c, unless it is 0.
Store(c) ==
  IF c = 0
    THEN UNCHANGED <<buf, rpos, wpos>>
    ELSE /\ buf' = [buf EXCEPT ![wpos] = c]
         /\ wpos' = Succ(wpos)
         /\ UNCHANGED rpos

\* getchar calls cons_getc.
getchar ==
  /\ pc = "caller"
  /\ pc' = "serial_intr"
  /\ UNCHANGED <<buf, rpos, wpos, serial_exists, uart, kbd, got>>

\* One turn of cons_intr(serial_proc_data): a byte is ready, it is stored.
\* A byte that overruns another between the reads of the status and of the
\* data has the effect of one that did so before the status was read.
serial_proc_data ==
  /\ pc = "serial_intr"
  /\ serial_exists
  /\ uart # << >>
  /\ Store(Head(uart))
  /\ uart' = << >>
  /\ UNCHANGED <<serial_exists, kbd, pc, got>>

\* Mutant: cons_getc polls the serial port only.
serial_intr_only ==
  /\ pc = "serial_intr"
  /\ serial_exists => uart = << >>
  /\ pc' = "grab"
  /\ UNCHANGED <<buf, rpos, wpos, serial_exists, uart, kbd, got>>

\* No port, or no byte ready: serial_intr returns and kbd_intr is called.
serial_intr_returns ==
  /\ pc = "serial_intr"
  /\ serial_exists => uart = << >>
  /\ pc' = "kbd_intr"
  /\ UNCHANGED <<buf, rpos, wpos, serial_exists, uart, kbd, got>>

\* One turn of cons_intr(kbd_proc_data).
kbd_proc_data ==
  /\ pc = "kbd_intr"
  /\ kbd # << >>
  /\ Store(Head(kbd))
  /\ kbd' = Tail(kbd)
  /\ UNCHANGED <<serial_exists, uart, pc, got>>

kbd_intr_returns ==
  /\ pc = "kbd_intr"
  /\ kbd = << >>
  /\ pc' = "grab"
  /\ UNCHANGED <<buf, rpos, wpos, serial_exists, uart, kbd, got>>

\* cons_getc finds a character, and getchar returns it.
grab ==
  /\ pc = "grab"
  /\ rpos # wpos
  /\ got' = buf[rpos]
  /\ rpos' = Succ(rpos)
  /\ pc' = "caller"
  /\ UNCHANGED <<buf, wpos, serial_exists, uart, kbd>>

\* cons_getc finds none and returns 0; getchar calls it again.
grab_none ==
  /\ pc = "grab"
  /\ rpos = wpos
  /\ pc' = "serial_intr"
  /\ UNCHANGED <<buf, rpos, wpos, serial_exists, uart, kbd, got>>

Arrival == \E b \in Byte : SerialArrives(b) \/ KbdArrives(b)

Kernel ==
  \/ cons_init \/ getchar
  \/ serial_proc_data \/ serial_intr_returns
  \/ kbd_proc_data \/ kbd_intr_returns
  \/ grab \/ grab_none

Next == Arrival \/ Kernel

Spec == Init /\ [][Next]_vars
-----------------------------------------------------------------------------
(* Properties.                                                             *)

\* Type invariant: the indices stay inside cons.buf, the devices within
\* their capacity.
TypeOK ==
  /\ buf \in [Slot -> Byte]
  /\ rpos \in Slot
  /\ wpos \in Slot
  /\ serial_exists \in BOOLEAN
  /\ uart \in {<< >>} \cup {<<b>> : b \in Byte}
  /\ kbd \in Seq(Byte)
  /\ Len(kbd) <= KbdDepth
  /\ pc \in {"cons_init", "caller", "serial_intr", "kbd_intr", "grab"}
  /\ got \in Byte

\* The number of characters between the two indices, and the slot of the
\* i-th of them.
Waiting == IF rpos <= wpos THEN wpos - rpos ELSE wpos - rpos + CONSBUFSIZE
SlotOf(i) == IF rpos + i - 1 < CONSBUFSIZE THEN rpos + i - 1
                                           ELSE rpos + i - 1 - CONSBUFSIZE

\* The characters the next calls of cons_getc would return.
Window == [i \in 1 .. Waiting |-> buf[SlotOf(i)]]

\* Refinement: whatever the devices do and wherever the indices wrap, the
\* buffer is a queue of CONSBUFSIZE - 1 characters in arrival order that
\* forgets everything when one more arrives (cons_intr has no full check).
Queue == INSTANCE CharQueue WITH
  Capacity <- CONSBUFSIZE - 1, queue <- Window, last <- got
ImplementsQueue == Queue!Spec

\* Liveness: once the devices fall silent, everything they had delivered is
\* returned to the caller: nothing waits for ever in a device or in the
\* buffer.  The condition is needed: cons_intr polls a device until it has no
\* data, so a device that always has data holds cons_getc for ever.
Silence == <>[][~Arrival]_vars
HasChar(s) == \E i \in DOMAIN s : s[i] # 0
InputPending ==
  \/ Window # << >>
  \/ HasChar(kbd)
  \/ serial_exists /\ HasChar(uart)
GetcharDrains == Silence => <>[]~InputPending
=============================================================================
