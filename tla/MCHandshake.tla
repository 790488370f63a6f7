----------------------------- MODULE MCHandshake -----------------------------
(* Model-checking instance of Handshake.  Three servers: one that accepts  *)
(* and starts the session at once (the shell prompt follows the reply     *)
(* line), one that refuses, and one that never answers.                    *)
EXTENDS Handshake

OkThenPrompt == <<"O", "K", "NL", "D">>
Refusal == <<"E", "NL">>
Silent == <<>>
MCScripts == {OkThenPrompt, Refusal, Silent}
=============================================================================
