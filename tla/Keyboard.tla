------------------------------ MODULE Keyboard -----------------------------
(***************************************************************************)
(* What kbd_proc_data of kern/console.c promises: every event of a key is  *)
(* taken once and in order, and a key pressed while some modifiers are in  *)
(* force gives the character printed on that key for them.                 *)
(*                                                                         *)
(* Scan codes do not appear here: an event names a key.                    *)
(***************************************************************************)
EXTENDS Naturals, Sequences

CONSTANTS
  Key,        \* the keys
  Modifier,   \* a function from some of the keys to what they modify
  Lock,       \* a function from other keys to the lock they toggle
  Plain, Shifted, Control,   \* functions from Key to characters, 0 for none
  Letter,     \* a function from the letters to their other case
  Delete      \* the character of the delete key

VARIABLES
  events,   \* key events not yet taken: [key, down]
  mods,     \* the modifiers and the locks in force
  out       \* the last character completed, and whether it rebooted

vars == <<events, mods, out>>

Init == events = << >> /\ mods = {} /\ out = [char |-> 0, reboot |-> FALSE]

ModOf(k) == IF k \in DOMAIN Modifier THEN {Modifier[k]} ELSE {}
Flip(k, m) ==
  IF k \notin DOMAIN Lock THEN m
  ELSE IF Lock[k] \in m THEN m \ {Lock[k]} ELSE m \cup {Lock[k]}

\* The character of key k under the modifiers m: control wins over shift,
\* and caps lock swaps the case of letters.
CharOf(k, m) ==
  LET c == IF "CTL" \in m THEN Control[k]
           ELSE IF "SHIFT" \in m THEN Shifted[k] ELSE Plain[k]
  IN  IF "CAPSLOCK" \in m /\ c \in DOMAIN Letter THEN Letter[c] ELSE c

\* The user presses (or holds down) or releases a key.
Strike(k, d) ==
  /\ events' = Append(events, [key |-> k, down |-> d])
  /\ UNCHANGED <<mods, out>>

TakeRelease ==
  /\ events # << >>
  /\ ~Head(events).down
  /\ events' = Tail(events)
  /\ mods' = mods \ ModOf(Head(events).key)
  /\ UNCHANGED out

TakePress ==
  /\ events # << >>
  /\ Head(events).down
  /\ events' = Tail(events)
  /\ mods' = Flip(Head(events).key, mods \cup ModOf(Head(events).key))
  /\ LET c == CharOf(Head(events).key, mods')
     IN  out' = IF c = 0 THEN out
                ELSE [char |-> c,
                      reboot |-> {"CTL", "ALT"} \subseteq mods' /\ c = Delete]

Next == TakeRelease \/ TakePress \/ \E k \in Key, d \in BOOLEAN : Strike(k, d)

Spec == Init /\ [][Next]_vars
=============================================================================
