---------------------------- MODULE HandshakeSpec ----------------------------
(***************************************************************************)
(* What the handshake promises to the relay (the HandshakeClient of the    *)
(* spec, section 4.2), independent of how a client reads the reply:        *)
(*   - the channel opens only after the server has written a line with OK, *)
(*     and only while the handshake's read deadline is armed;              *)
(*   - opening clears the read deadline, so it does not leak into the      *)
(*     relay;                                                              *)
(*   - the outcome, open or failed, is final (no retry of a failed         *)
(*     handshake) and is always reached.                                   *)
(* Handshake is shown to implement it by a refinement mapping.             *)
(***************************************************************************)

VARIABLES
  hs,        \* "opening", "open" or "failed"
  okSent,    \* the server has written an affirmative reply
  deadline   \* the read timeout of the socket: "none" or "set"

vars == <<hs, okSent, deadline>>

Init ==
  /\ hs = "opening"
  /\ okSent = FALSE
  /\ deadline = "none"

(* The client applies the handshake's timeout.                             *)
Arm ==
  /\ hs = "opening" /\ deadline = "none"
  /\ deadline' = "set"
  /\ UNCHANGED <<hs, okSent>>

(* The server's reply, as far as it has been written, contains OK.         *)
Reply ==
  /\ ~okSent
  /\ okSent' = TRUE
  /\ UNCHANGED <<hs, deadline>>

(* Success: the affirmative reply was written and the deadline is cleared. *)
Open ==
  /\ hs = "opening" /\ okSent /\ deadline = "set"
  /\ hs' = "open"
  /\ deadline' = "none"
  /\ UNCHANGED okSent

(* Failure, at any point of the handshake; the socket is dropped, so its   *)
(* timeouts no longer matter.                                              *)
Fail ==
  /\ hs = "opening"
  /\ hs' = "failed"
  /\ deadline' \in {"none", "set"}
  /\ UNCHANGED okSent

Next == Arm \/ Reply \/ Open \/ Fail

Spec == Init /\ [][Next]_vars /\ WF_vars(Open \/ Fail)

(* Every value a variable may take.                                        *)
TypeOK ==
  /\ hs \in {"opening", "open", "failed"}
  /\ okSent \in BOOLEAN
  /\ deadline \in {"none", "set"}
=============================================================================
