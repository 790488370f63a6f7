---------------------------- MODULE MCThreadRelay ----------------------------
(* Model-checking instance of ThreadRelay.  Two chunks in each direction   *)
(* let a chunk be in flight while the flag is raised and another still be  *)
(* pending behind it.  The commands are: none; one of exactly              *)
(* MAX_CMD_LENGTH bytes (accepted); one a byte longer; one with a NUL.     *)
EXTENDS ThreadRelay

MCMaxInput == 2
MCMaxOutput == 2
MCMaxCmdLength == 4096

Cmd(e, z, n) == [empty |-> e, nul |-> z, len |-> n]

MCCommands == {Cmd(TRUE, FALSE, 0), Cmd(FALSE, FALSE, 4096),
               Cmd(FALSE, FALSE, 4097), Cmd(FALSE, TRUE, 5)}
=============================================================================
