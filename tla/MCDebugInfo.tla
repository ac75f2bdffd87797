---------------------------- MODULE MCDebugInfo ----------------------------
(* DebugInfo for every well-formed table of six stabs behind the header.  *)
EXTENDS DebugInfo
=============================================================================
