-------------------------------- MODULE Kbd --------------------------------
(***************************************************************************)
(* The keyboard driver of kern/console.c: kbd_proc_data turns the scan     *)
(* codes the keyboard sends into characters, one byte per call.            *)
(*                                                                         *)
(* A key sends one byte, its code, when it is pressed or repeats, and its  *)
(* code plus 0x80 when it is released.  The keys added to the original     *)
(* keyboard send a byte 0xE0 first and share their codes with other keys.  *)
(* The user and the driver interleave freely, so a call may come between   *)
(* the two bytes of a key.                                                 *)
(*                                                                         *)
(* The tables are cut down to the keys of the model: every kind of entry   *)
(* is there (a letter, a digit, keys that share a code, locks, modifiers   *)
(* on both sides, a navigation key, delete).                               *)
(***************************************************************************)
EXTENDS Integers, Sequences, FiniteSets

CONSTANTS
  Key,         \* the keys: [e0 |-> is a 0xE0 sent first, code |-> its code]
  KbdBufSize   \* how many bytes wait to be read

\* No key has the code 0x60: its release would send the byte 0xE0.
ASSUME KbdAssumption ==
  /\ Key \subseteq [e0 : BOOLEAN, code : 1 .. 127 \ {\h60}]
  /\ KbdBufSize \in Nat \ {0}

VARIABLES
  shift,   \* the static variable of kbd_proc_data, as a set of flags
  wire,    \* the bytes the keyboard has sent and the driver has not read
  held,    \* the modifier keys that are down
  out      \* the last character completed, and whether it rebooted

kbd_vars == <<shift, wire, held, out>>

NO == 0
KEY_HOME == \hE0
KEY_DEL == \hE9
-----------------------------------------------------------------------------
(* The tables.                                                             *)

shiftcode ==
  [d \in 0 .. 255 |->
    CASE d \in {\h1D, \h9D} -> {"CTL"}
      [] d \in {\h2A, \h36} -> {"SHIFT"}
      [] d \in {\h38, \hB8} -> {"ALT"}
      [] OTHER -> {}]

togglecode ==
  [d \in 0 .. 255 |->
    CASE d = \h3A -> {"CAPSLOCK"}
      [] d = \h45 -> {"NUMLOCK"}
      [] d = \h46 -> {"SCROLLLOCK"}
      [] OTHER -> {}]

\* 'a', '1', '/' and its keypad twin, '\n' and its keypad twin, keypad '.' and
\* delete, keypad '7' and home.
normalmap ==
  [d \in 0 .. 255 |->
    CASE d = \h1E -> 97
      [] d = \h02 -> 49
      [] d \in {\h35, \hB5} -> 47
      [] d \in {\h1C, \h9C} -> 10
      [] d = \h53 -> 46
      [] d = \hD3 -> KEY_DEL
      [] d = \h47 -> 55
      [] d = \hC7 -> KEY_HOME
      [] OTHER -> NO]

shiftmap ==
  [d \in 0 .. 255 |->
    CASE d = \h1E -> 65
      [] d = \h02 -> 33
      [] d = \h35 -> 63
      [] OTHER -> normalmap[d]]

\* C(x) of the code, kept in an unsigned byte.
C(x) == (256 + x - 64) % 256

\* Home is entered at 0x97, where the other maps have it at 0xC7.
ctlmap ==
  [d \in 0 .. 255 |->
    CASE d = \h1E -> C(65)
      [] d \in {\h35, \hB5} -> C(47)
      [] d = \h1C -> 13
      [] d = \hD3 -> KEY_DEL
      [] d = \h97 -> KEY_HOME
      [] OTHER -> NO]

\* charcode[s & (CTL | SHIFT)] for the flags s.
charcode(s) ==
  IF "CTL" \in s THEN ctlmap ELSE IF "SHIFT" \in s THEN shiftmap ELSE normalmap

LetterCase(c) ==
  IF c \in 97 .. 122 THEN c - 32 ELSE IF c \in 65 .. 90 THEN c + 32 ELSE c
-----------------------------------------------------------------------------
\* The control and alt keys, which come in pairs that differ by 0xE0, and the
\* shift keys, which do not.
CtlKeys == {k \in Key : k.code = \h1D}
AltKeys == {k \in Key : k.code = \h38}
ShiftKeys == {k \in Key : k.code \in {\h2A, \h36} /\ ~k.e0}
ModifierKeys == CtlKeys \cup AltKeys \cup ShiftKeys

KbdInit ==
  /\ shift = {}
  /\ wire = << >>
  /\ held \in SUBSET ModifierKeys   \* they may be down at the start
  /\ out = [char |-> NO, reboot |-> FALSE]

\* The bytes key k sends when it goes down (d) or up.
Bytes(k, d) ==
  (IF k.e0 THEN <<\hE0>> ELSE << >>) \o
  (IF d THEN <<k.code>> ELSE <<k.code + \h80>>)

\* A key is pressed, or repeats because it is down, or is released.  The
\* bound KbdBufSize keeps the keyboard from dropping bytes.
Strike(k, d) ==
  /\ Len(wire) + Len(Bytes(k, d)) <= KbdBufSize
  /\ wire' = wire \o Bytes(k, d)
  /\ held' = IF k \notin ModifierKeys THEN held
             ELSE IF d THEN held \cup {k} ELSE held \ {k}
  /\ UNCHANGED <<shift, out>>

\* kbd_proc_data reads the byte 0xE0.
escape ==
  /\ wire # << >>
  /\ Head(wire) = \hE0
  /\ wire' = Tail(wire)
  /\ shift' = shift \cup {"E0ESC"}
  /\ UNCHANGED <<held, out>>

\* Mutant: the release of a modifier behind 0xE0 is not recognised.
releasedE0 ==
  /\ wire # << >>
  /\ Head(wire) # \hE0
  /\ Head(wire) >= \h80
  /\ wire' = Tail(wire)
  /\ shift' = IF "E0ESC" \in shift THEN shift \ {"E0ESC"}
              ELSE shift \ shiftcode[Head(wire) - \h80]
  /\ UNCHANGED <<held, out>>

\* kbd_proc_data reads the byte of a key released.
released ==
  /\ wire # << >>
  /\ Head(wire) # \hE0
  /\ Head(wire) >= \h80
  /\ wire' = Tail(wire)
  /\ LET data == IF "E0ESC" \in shift THEN Head(wire) ELSE Head(wire) - \h80
     IN  shift' = shift \ (shiftcode[data] \cup {"E0ESC"})
  /\ UNCHANGED <<held, out>>

\* Mutant: `|=' for `^=', a toggle that cannot be switched off.
UnionOf(s, t) == s \cup t

SymDiff(s, t) == (s \ t) \cup (t \ s)

\* kbd_proc_data reads the byte of a key pressed, and returns a character
\* unless the table has none; Ctrl-Alt-Del resets the machine on the way.
pressed ==
  /\ wire # << >>
  /\ Head(wire) < \h80
  /\ wire' = Tail(wire)
  /\ LET data == IF "E0ESC" \in shift THEN Head(wire) + \h80 ELSE Head(wire)
         s == SymDiff((shift \ {"E0ESC"}) \cup shiftcode[data], togglecode[data])
         m == charcode(s)[data]
         c == IF "CAPSLOCK" \in s THEN LetterCase(m) ELSE m
     IN  /\ shift' = s
         /\ out' = IF c = NO THEN out
                   ELSE [char |-> c,
                         reboot |-> {"CTL", "ALT"} \subseteq s /\ c = KEY_DEL]
  /\ UNCHANGED held

\* kbd_proc_data reads a byte.
proc_data == escape \/ released \/ pressed

KbdNext == proc_data \/ \E k \in Key, d \in BOOLEAN : Strike(k, d)

KbdSpec == KbdInit /\ [][KbdNext]_kbd_vars
-----------------------------------------------------------------------------
(* Properties.                                                             *)

\* Once every byte is read, no modifier sticks: the driver believes one is in
\* force only if a key for it is down, and it waits for no second byte.
NoStuckModifier ==
  wire = << >> =>
    /\ "E0ESC" \notin shift
    /\ "CTL" \in shift => CtlKeys \cap held # {}
    /\ "ALT" \in shift => AltKeys \cap held # {}
    /\ "SHIFT" \in shift => ShiftKeys \cap held # {}

\* The key events in a sequence of bytes that starts at the first byte of
\* one: event i ends at the i-th byte that is not 0xE0.
Ends(w) == {i \in DOMAIN w : w[i] # \hE0}
NthEnd(w, n) == CHOOSE i \in Ends(w) : Cardinality({j \in Ends(w) : j <= i}) = n
EventAt(w, i) ==
  [key  |-> [e0 |-> i > 1 /\ w[i - 1] = \hE0, code |-> w[i] % \h80],
   down |-> w[i] < \h80]
Parse(w) == [n \in 1 .. Cardinality(Ends(w)) |-> EventAt(w, NthEnd(w, n))]

\* What is printed on the keys of the model.  Control with home gives nothing
\* (ctlmap has it for a key that no keyboard has), and so does control with the
\* keypad's enter.
KeyCap(k) ==
  CASE k = [e0 |-> FALSE, code |-> \h1E] -> <<97, 65, 1>>
    [] k = [e0 |-> FALSE, code |-> \h02] -> <<49, 33, 0>>
    [] k = [e0 |-> FALSE, code |-> \h35] -> <<47, 63, 239>>
    [] k = [e0 |-> TRUE,  code |-> \h35] -> <<47, 47, 239>>
    [] k = [e0 |-> FALSE, code |-> \h1C] -> <<10, 10, 13>>
    [] k = [e0 |-> TRUE,  code |-> \h1C] -> <<10, 10, 0>>
    [] k = [e0 |-> FALSE, code |-> \h53] -> <<46, 46, 0>>
    [] k = [e0 |-> TRUE,  code |-> \h53] -> <<KEY_DEL, KEY_DEL, KEY_DEL>>
    [] k = [e0 |-> FALSE, code |-> \h47] -> <<55, 55, 0>>
    [] k = [e0 |-> TRUE,  code |-> \h47] -> <<KEY_HOME, KEY_HOME, 0>>
    [] k = [e0 |-> TRUE,  code |-> \h17] -> <<0, 0, KEY_HOME>>
    [] OTHER -> <<0, 0, 0>>
ModifierOf ==
  [k \in ModifierKeys |->
    IF k \in CtlKeys THEN "CTL" ELSE IF k \in AltKeys THEN "ALT" ELSE "SHIFT"]
LockOf ==
  [k \in {l \in Key : l.code \in {\h3A, \h45, \h46} /\ ~l.e0} |->
    IF k.code = \h3A THEN "CAPSLOCK"
    ELSE IF k.code = \h45 THEN "NUMLOCK" ELSE "SCROLLLOCK"]
CapOf == [k \in Key |-> KeyCap(k)]
PlainCap == [k \in Key |-> CapOf[k][1]]
ShiftedCap == [k \in Key |-> CapOf[k][2]]
ControlCap == [k \in Key |-> CapOf[k][3]]
OtherCase == [c \in {97, 65} |-> IF c = 97 THEN 65 ELSE 97]

\* The events still to come, the one whose 0xE0 has been read included.
Pending == Parse((IF "E0ESC" \in shift THEN <<\hE0>> ELSE << >>) \o wire)

\* Refinement: whatever keys share codes and wherever the driver is called
\* between two bytes, the characters are those of the keys, in order.
AbstractKeyboard == INSTANCE Keyboard WITH
  Modifier <- ModifierOf, Lock <- LockOf, Letter <- OtherCase,
  Plain <- PlainCap, Shifted <- ShiftedCap, Control <- ControlCap,
  Delete <- KEY_DEL, events <- Pending, mods <- shift \ {"E0ESC"}
ImplementsKeyboard == AbstractKeyboard!Spec
=============================================================================
