----------------------------- MODULE MCListQueue ----------------------------
(* ListQueue with two lists and four elements that move between them.      *)
EXTENDS ListQueue
=============================================================================
