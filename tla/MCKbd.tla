------------------------------- MODULE MCKbd -------------------------------
(* Kbd with the keys that its tables are cut down to.                      *)
EXTENDS Kbd

Old(c) == [e0 |-> FALSE, code |-> c]
New(c) == [e0 |-> TRUE, code |-> c]

\* Both control keys, a shift key, an alt key behind 0xE0, two locks, a
\* letter, and the two keys that share the code 0x53 (keypad . and delete).
MCKey ==
  {Old(\h1D), New(\h1D), Old(\h2A), New(\h38), Old(\h3A), Old(\h45),
   Old(\h1E), Old(\h53), New(\h53)}
=============================================================================
