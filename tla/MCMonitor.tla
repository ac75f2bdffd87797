------------------------------ MODULE MCMonitor -----------------------------
(* Monitor with commands of one and two letters, so that a line holds up   *)
(* to three words, of which argv takes two.  Prompt and line fill more     *)
(* than a line of the display.                                             *)
EXTENDS Monitor

MCPrompt == <<"a">>
MCMessage == <<"a", LF>>
MCHelp == <<"a">>
MCKerninfo == <<"a", "a">>
MCBacktrace == <<"DEL">>
=============================================================================
