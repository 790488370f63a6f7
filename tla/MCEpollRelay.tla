---------------------------- MODULE MCEpollRelay -----------------------------
(* Model-checking instance of EpollRelay.  The tool may be started from a  *)
(* terminal in canonical mode or from one whose echo was switched off      *)
(* (stty -echo), a mode set_canon_mode does not reproduce.                 *)
EXTENDS EpollRelay

MCMaxInput == 2
MCMaxOutput == 2
MCTermModes == {"cooked", "noecho"}
=============================================================================
