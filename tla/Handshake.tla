------------------------------ MODULE Handshake ------------------------------
(***************************************************************************)
(* The CONNECT/OK handshake on the hybrid-vsock control socket, as the two *)
(* clients of the repository perform it:                                   *)
(*   client = "kuasarctl"  : exec_command, src/kuasarctl/src/main.rs       *)
(*   client = "kuasar-ctl" : connect_hvsock, src/tools/kuasar-ctl/src/     *)
(*                           vsock.rs                                      *)
(* The server's reply is a script of tokens ("O", "K", "E" for other text, *)
(* "NL" for the newline, "D" for a byte of session output that follows     *)
(* the reply line); the server writes it token by token, and each read of  *)
(* the client returns any non-empty prefix of what has arrived, as a      *)
(* stream socket may.  Time is counted in units of 100 ms, and only where  *)
(* the client waits: a read that times out, a sleep between attempts.      *)
(***************************************************************************)
EXTENDS Naturals, Sequences
LOCAL INSTANCE SequencesExt

CONSTANTS
  Scripts   \* the replies the server may send

Clients == {"kuasarctl", "kuasar-ctl"}

Tokens == {"O", "K", "E", "NL", "D"}
ASSUME Scripts \subseteq Seq(Tokens)

(* The constants of the two clients, in 100 ms units.                      *)
CONNECT_TIMEOUT == 300          \* kuasarctl: CONNECT_TIMEOUT_SECS = 30
KATA_AGENT_VSOCK_TIMEOUT == 50  \* kuasar-ctl: 5 seconds
ReadAttempts == 10              \* kuasarctl: for _ in 0..10
Sleep == 1                      \* kuasarctl: thread::sleep(100 ms)


VARIABLES
  client,     \* which of the two clients performs the handshake
  script,     \* the reply this server sends
  written,    \* how many tokens of it the server has written
  srvClosed,  \* the server has closed the connection
  avail,      \* tokens written and not yet read by the client
  phase,      \* "connect", "send", "read", "relay" or "failed"
  tries,      \* kuasarctl: iterations of the read loop so far
  elapsed,    \* time the client spent waiting
  got,        \* all tokens the client has read from the socket
  pending,    \* kuasar-ctl: the BufReader's buffer
  readTO,     \* the socket's read timeout: "none" or "set"
  writeTO,    \* the socket's write timeout: "none" or "set"
  dropped     \* session output bytes the handshake consumed and discarded

vars == <<client, script, written, srvClosed, avail, phase, tries, elapsed, got,
          pending, readTO, writeTO, dropped>>
srvVars == <<script, written, srvClosed>>

(* The read timeout the client sets for the handshake.                     *)
ReadTimeout == IF client = "kuasarctl" THEN CONNECT_TIMEOUT
                                       ELSE KATA_AGENT_VSOCK_TIMEOUT

(* chunk.contains("OK")                                                    *)
HasOK(s) == <<"O", "K">> \in SubSeqs(s)
(* The number of session-output bytes in s.                                *)
DataIn(s) == Len(SelectSeq(s, LAMBDA t : t = "D"))
(* The tokens of s up to and including the first "NL".                     *)
UpToNL(s) == SubSeq(s, 1, CHOOSE i \in 1..Len(s) :
                            s[i] = "NL" /\ ~Contains(SubSeq(s, 1, i - 1), "NL"))

-----------------------------------------------------------------------------
(* Both clients.                                                           *)

(* UnixStream::connect(socket_path): NotFound (the pod went away after it  *)
(* was resolved) or another error ends the command.                        *)
Connect ==
  /\ phase = "connect"
  /\ phase' \in {"send", "failed"}
  /\ UNCHANGED <<client, srvVars, avail, tries, elapsed, got, pending, readTO,
                 writeTO, dropped>>

(* set_read_timeout, set_write_timeout, write_all("CONNECT <port>\n").     *)
(* The write fails once the server has closed.                             *)
SendConnect ==
  /\ phase = "send"
  /\ readTO' = "set"
  /\ writeTO' = "set"
  /\ phase' = IF srvClosed THEN "failed" ELSE "read"
  /\ UNCHANGED <<client, srvVars, avail, tries, elapsed, got, pending, dropped>>

-----------------------------------------------------------------------------
(* kuasarctl: up to ten reads; a chunk containing "OK" succeeds, and the   *)
(* rest of that chunk is dropped with the buffer.                          *)

(* Mutant: the loop bound is checked one iteration late.                   *)
EndAttemptLate ==
  /\ tries' = tries + 1
  /\ phase' = IF tries + 1 > ReadAttempts THEN "failed" ELSE "read"

(* One iteration of the loop ends; after the tenth, !read_ok is an error.  *)
EndAttempt ==
  /\ tries' = tries + 1
  /\ phase' = IF tries + 1 = ReadAttempts THEN "failed" ELSE "read"

(* Mutant: the read timeout is left in place after OK.                     *)
ReadChunkKeepsReadTimeout ==
  /\ client = "kuasarctl" /\ phase = "read" /\ avail # <<>>
  /\ \E n \in 1..Len(avail) :
       LET chunk == SubSeq(avail, 1, n) IN
       /\ avail' = SubSeq(avail, n + 1, Len(avail))
       /\ got' = got \o chunk
       /\ IF HasOK(chunk)
            THEN /\ phase' = "relay"
                 /\ dropped' = DataIn(chunk)
                 /\ UNCHANGED <<tries, readTO>>
            ELSE /\ EndAttempt
                 /\ UNCHANGED <<readTO, dropped>>
  /\ UNCHANGED <<client, srvVars, elapsed, pending, writeTO>>

(* Ok(n): the chunk is appended to the response; after OK the loop breaks  *)
(* and set_read_timeout(None) is called (main.rs:300).                     *)
ReadChunk ==
  /\ client = "kuasarctl" /\ phase = "read" /\ avail # <<>>
  /\ \E n \in 1..Len(avail) :
       LET chunk == SubSeq(avail, 1, n) IN
       /\ avail' = SubSeq(avail, n + 1, Len(avail))
       /\ got' = got \o chunk
       /\ IF HasOK(chunk)
            THEN /\ phase' = "relay"
                 /\ readTO' = "none"
                 /\ dropped' = DataIn(chunk)
                 /\ UNCHANGED tries
            ELSE /\ EndAttempt
                 /\ UNCHANGED <<readTO, dropped>>
  /\ UNCHANGED <<client, srvVars, elapsed, pending, writeTO>>

(* Mutant: Ok(0) is retried at once, without counting the attempt.          *)
ReadEofRetries ==
  /\ client = "kuasarctl" /\ phase = "read" /\ avail = <<>> /\ srvClosed
  /\ UNCHANGED vars

(* Ok(0): the server has closed; sleep 100 ms and continue.                *)
ReadEof ==
  /\ client = "kuasarctl" /\ phase = "read" /\ avail = <<>> /\ srvClosed
  /\ elapsed' = elapsed + Sleep
  /\ EndAttempt
  /\ UNCHANGED <<client, srvVars, avail, got, pending, readTO, writeTO, dropped>>

(* Err(WouldBlock): the 30 s read timeout expired; sleep and continue.     *)
ReadWouldBlock ==
  /\ client = "kuasarctl" /\ phase = "read" /\ avail = <<>> /\ ~srvClosed
  /\ elapsed' = elapsed + ReadTimeout + Sleep
  /\ EndAttempt
  /\ UNCHANGED <<client, srvVars, avail, got, pending, readTO, writeTO, dropped>>

-----------------------------------------------------------------------------
(* kuasar-ctl: BufReader::read_line, then the reply must start with "OK".  *)

DecideLine(line, rest) ==
  /\ IF line # <<>> /\ IsPrefix(<<"O", "K">>, line)
       THEN /\ phase' = "relay"
            /\ readTO' = "none"
            /\ writeTO' = "none"
            /\ dropped' = DataIn(rest)
       ELSE /\ phase' = "failed"
            /\ UNCHANGED <<readTO, writeTO, dropped>>
  /\ pending' = <<>>

(* fill_buf: a read of the socket into the buffer; the line is complete    *)
(* once the buffer holds a newline.                                        *)
FillBuf ==
  /\ client = "kuasar-ctl" /\ phase = "read" /\ avail # <<>>
  /\ \E n \in 1..Len(avail) :
       LET buf == pending \o SubSeq(avail, 1, n) IN
       /\ avail' = SubSeq(avail, n + 1, Len(avail))
       /\ got' = got \o SubSeq(avail, 1, n)
       /\ IF Contains(buf, "NL")
            THEN DecideLine(UpToNL(buf), SubSeq(buf, Len(UpToNL(buf)) + 1, Len(buf)))
            ELSE /\ pending' = buf
                 /\ UNCHANGED <<phase, readTO, writeTO, dropped>>
  /\ UNCHANGED <<client, srvVars, tries, elapsed>>

(* read returns 0: read_line returns the partial line.                     *)
LineEof ==
  /\ client = "kuasar-ctl" /\ phase = "read" /\ avail = <<>> /\ srvClosed
  /\ DecideLine(pending, <<>>)
  /\ UNCHANGED <<client, srvVars, avail, tries, elapsed, got>>

(* The 5 s read timeout expires: read_line fails, and so does the command. *)
LineTimeout ==
  /\ client = "kuasar-ctl" /\ phase = "read" /\ avail = <<>> /\ ~srvClosed
  /\ elapsed' = elapsed + ReadTimeout
  /\ phase' = "failed"
  /\ UNCHANGED <<client, srvVars, avail, tries, got, pending, readTO, writeTO, dropped>>

-----------------------------------------------------------------------------
(* The server.                                                             *)

(* The server replies only once the CONNECT line has been written.         *)
ServerWrite ==
  /\ phase \notin {"connect", "send"}
  /\ ~srvClosed /\ written < Len(script)
  /\ written' = written + 1
  /\ avail' = Append(avail, script[written + 1])
  /\ UNCHANGED <<client, script, srvClosed, phase, tries, elapsed, got, pending,
                 readTO, writeTO, dropped>>

ServerClose ==
  /\ ~srvClosed
  /\ srvClosed' = TRUE
  /\ UNCHANGED <<client, script, written, avail, phase, tries, elapsed, got, pending,
                 readTO, writeTO, dropped>>

(* The handshake is over: the socket belongs to the relay now.             *)
Finished ==
  /\ phase \in {"relay", "failed"}
  /\ UNCHANGED vars

-----------------------------------------------------------------------------

Init ==
  /\ client \in Clients
  /\ script \in Scripts
  /\ written = 0
  /\ srvClosed = FALSE
  /\ avail = <<>>
  /\ phase = "connect"
  /\ tries = 0
  /\ elapsed = 0
  /\ got = <<>>
  /\ pending = <<>>
  /\ readTO = "none"
  /\ writeTO = "none"
  /\ dropped = 0

ClientStep == Connect \/ SendConnect \/ ReadChunk \/ ReadEof \/ ReadWouldBlock
              \/ FillBuf \/ LineEof \/ LineTimeout
Server == ServerWrite \/ ServerClose

Next == ClientStep \/ Server \/ Finished

(* The client thread is scheduled; the server need not do anything (a      *)
(* silent server is what the timeouts are for).                            *)
Spec == Init /\ [][Next]_vars /\ WF_vars(ClientStep)

-----------------------------------------------------------------------------
(* Properties.                                                             *)

TypeOK ==
  /\ client \in Clients
  /\ script \in Scripts /\ written \in 0..Len(script)
  /\ srvClosed \in BOOLEAN
  /\ avail \in Seq(Tokens) /\ got \in Seq(Tokens) /\ pending \in Seq(Tokens)
  /\ phase \in {"connect", "send", "read", "relay", "failed"}
  /\ tries \in 0..ReadAttempts
  /\ elapsed \in Nat
  /\ readTO \in {"none", "set"} /\ writeTO \in {"none", "set"}
  /\ dropped \in Nat

Abstract == INSTANCE HandshakeSpec
              WITH hs <- CASE phase \in {"connect", "send", "read"} -> "opening"
                           [] phase = "relay"  -> "open"
                           [] phase = "failed" -> "failed",
                   okSent <- HasOK(SubSeq(script, 1, written)),
                   deadline <- readTO

(* Both clients implement the handshake's contract: the relay starts only *)
(* after the server wrote OK and while the read timeout was armed; the    *)
(* read timeout is cleared when the relay starts; the outcome is final and *)
(* always reached against a server that stays silent, closes, or sends   *)
(* any of the finite replies of Scripts.                                   *)
ImplementsHandshakeSpec == Abstract!Spec

(* The spec: read until a line containing OK is observed.  A failed        *)
(* handshake never follows a reply whose first complete line, as the       *)
(* client read it, contains "OK".                                          *)
OkNeverMissed ==
  phase = "failed" => ~(Contains(got, "NL") /\ HasOK(UpToNL(got)))

(* The spec: after success the connection is a raw byte pipe, and the      *)
(* relay delivers exactly the bytes the remote sent.  No byte of session   *)
(* output that followed the reply is consumed by the handshake.            *)
NoOutputDropped ==
  dropped = 0

=============================================================================
