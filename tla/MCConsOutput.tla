---------------------------- MODULE MCConsOutput ---------------------------
(* ConsOutput with a page of three lines of two cells: a tab wraps twice,  *)
(* and any character behind it can scroll.  The display is empty, or full  *)
(* with the position in the last cell.                                     *)
EXTENDS ConsOutput

MCFirstScreens == {[buf |-> [n \in Cell |-> Blank], pos |-> 0],
                   [buf |-> [n \in Cell |-> "x"], pos |-> CRT_SIZE - 1]}
=============================================================================
