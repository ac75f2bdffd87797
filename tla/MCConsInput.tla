---------------------------- MODULE MCConsInput ----------------------------
(* ConsInputHist over a buffer of three slots that two characters fill and *)
(* three overrun, with room for two overruns and a wrap.                   *)
EXTENDS ConsInputHist
=============================================================================
