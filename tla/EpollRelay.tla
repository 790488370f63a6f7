----------------------------- MODULE EpollRelay ------------------------------
(***************************************************************************)
(* The single-threaded relay of kuasar-ctl                                 *)
(* (src/tools/kuasar-ctl/src/interactive.rs): execute_interactive          *)
(* registers stdin and the debug-console socket with epoll, puts the       *)
(* terminal in raw mode (vmm_sys_util set_raw_mode: ICANON, ECHO and ISIG  *)
(* cleared), relays with one epoll loop, and on the way out forces the     *)
(* terminal into canonical mode (set_canon_mode: ICANON, ECHO, ISIG set).  *)
(*                                                                         *)
(* epoll is level-triggered: a descriptor that is ready stays ready until  *)
(* it is read, so a batch of events is the same as a sequence of waits     *)
(* that each return one of the ready descriptors; one step handles one.   *)
(***************************************************************************)
EXTENDS Naturals

CONSTANTS
  MaxInput,   \* bound on the chunks the user types
  MaxOutput,  \* bound on the chunks the remote side sends
  TermModes   \* line disciplines the terminal may be in when the tool starts

ASSUME MaxInput \in Nat /\ MaxOutput \in Nat
ASSUME "cooked" \in TermModes /\ "raw" \notin TermModes

VARIABLES
  pc,            \* "create", "addStdin", "addSock", "raw", "wait", "exit"
  origMode,      \* the terminal's mode when the tool started
  term,          \* the terminal's current mode
  restoreFailed, \* set_canon_mode failed (the expect panics with a message)
  stopped,       \* a SIGSTOP/SIGCONT pair hit the process in epoll_wait
  typed, inPending, stdinClosed,
  sent, outPending, remoteClosed,
  shown, stdoutBroken,
  readErr,       \* the descriptor whose reads fail: "none", "stdin", "sock"
  outcome        \* "running", "ok", "error" or "panic"

vars == <<pc, origMode, term, restoreFailed, stopped, typed, inPending,
          stdinClosed, sent, outPending, remoteClosed, shown, stdoutBroken,
          readErr, outcome>>
inVars == <<typed, inPending, stdinClosed>>
outVars == <<sent, outPending, remoteClosed, shown, stdoutBroken, readErr>>
termVars == <<origMode, term, restoreFailed>>

Running == outcome = "running"

(* A descriptor is ready with data, at EOF, or in error.                   *)
StdinReady == inPending > 0 \/ stdinClosed \/ readErr = "stdin"
SockReady == outPending > 0 \/ remoteClosed \/ readErr = "sock"
(* Mutant: the socket counts as ended once the remote has closed it.      *)
SockEndsOnClose == remoteClosed \/ readErr = "sock"

StdinEnds == inPending = 0 \/ readErr = "stdin"
SockEnds == outPending = 0 \/ readErr = "sock"

(* Propagating an Err with `?` out of execute_interactive: main prints it  *)
(* and exits with the error's code, without touching the terminal.         *)
Fail ==
  /\ pc' = "exit"
  /\ outcome' = "error"

(* do_exit: set_canon_mode().expect(..): on failure the process panics.    *)
DoExit ==
  /\ pc' = "exit"
  /\ \E ok \in BOOLEAN :
       /\ term' = IF ok THEN "cooked" ELSE term
       /\ restoreFailed' = ~ok
       /\ outcome' = IF ok THEN "ok" ELSE "panic"
  /\ UNCHANGED origMode

-----------------------------------------------------------------------------
(* Set-up.                                                                 *)

(* EpollContext::new: epoll::create.                                       *)
Create ==
  /\ Running /\ pc = "create"
  /\ \/ pc' = "addStdin" /\ UNCHANGED outcome
     \/ Fail
  /\ UNCHANGED <<termVars, stopped, inVars, outVars>>

(* enable_stdin_event: EPOLL_CTL_ADD of fd 0 (EPERM when stdin is a       *)
(* regular file).                                                          *)
EnableStdinEvent ==
  /\ Running /\ pc = "addStdin"
  /\ \/ pc' = "addSock" /\ UNCHANGED outcome
     \/ Fail
  /\ UNCHANGED <<termVars, stopped, inVars, outVars>>

(* init_debug_console_sock: EPOLL_CTL_ADD of the socket.                   *)
InitDebugConsoleSock ==
  /\ Running /\ pc = "addSock"
  /\ \/ pc' = "raw" /\ UNCHANGED outcome
     \/ Fail
  /\ UNCHANGED <<termVars, stopped, inVars, outVars>>

(* set_raw_mode().expect("set raw mode"): panics when stdin is not a tty.  *)
SetRawMode ==
  /\ Running /\ pc = "raw"
  /\ \/ /\ term' = "raw"
        /\ pc' = "wait"
        /\ UNCHANGED outcome
     \/ /\ pc' = "exit"
        /\ outcome' = "panic"
        /\ UNCHANGED term
  /\ UNCHANGED <<origMode, restoreFailed, stopped, inVars, outVars>>

-----------------------------------------------------------------------------
(* do_process_handler.                                                     *)

(* EpollDispatch::Stdin: read_raw; Ok(0) or an error (only printed)       *)
(* return Ok(()) and do_exit runs; otherwise write_all to the socket, whose failure is an    *)
(* Err that skips do_exit.                                                 *)
HandleStdin ==
  /\ Running /\ pc = "wait" /\ StdinReady
  /\ \/ /\ ~StdinEnds
        /\ inPending' = inPending - 1
        /\ IF remoteClosed THEN Fail ELSE UNCHANGED <<pc, outcome>>
        /\ UNCHANGED termVars
     \/ /\ StdinEnds
        /\ DoExit
        /\ UNCHANGED inPending
  /\ UNCHANGED <<stopped, typed, stdinClosed, outVars>>

(* Mutant: the chunk read from the socket stays in it.                     *)
HandleServerSockNoConsume ==
  /\ Running /\ pc = "wait" /\ SockReady
  /\ \/ /\ ~SockEnds
        /\ IF stdoutBroken
             THEN Fail /\ UNCHANGED shown
             ELSE shown' = shown + 1 /\ UNCHANGED <<pc, outcome>>
        /\ UNCHANGED termVars
     \/ /\ SockEnds
        /\ DoExit
        /\ UNCHANGED shown
  /\ UNCHANGED <<stopped, inVars, sent, outPending, remoteClosed, stdoutBroken,
                 readErr>>

(* Mutant: Ok(0) from the socket is taken as "nothing yet" and the loop    *)
(* goes on waiting.                                                        *)
HandleServerSockEofContinues ==
  /\ Running /\ pc = "wait" /\ SockReady
  /\ \/ /\ ~SockEnds
        /\ outPending' = outPending - 1
        /\ IF stdoutBroken
             THEN Fail /\ UNCHANGED shown
             ELSE shown' = shown + 1 /\ UNCHANGED <<pc, outcome>>
        /\ UNCHANGED termVars
     \/ /\ SockEnds
        /\ UNCHANGED <<pc, outcome, termVars, outPending, shown>>
  /\ UNCHANGED <<stopped, inVars, sent, remoteClosed, stdoutBroken, readErr>>

(* EpollDispatch::ServerSock: read; Ok(0) or an error (only printed)      *)
(* return Ok(()), so the tool exits 0;                                     *)
(* otherwise write_all and flush to stdout, whose failure is an Err.       *)
HandleServerSock ==
  /\ Running /\ pc = "wait" /\ SockReady
  /\ \/ /\ ~SockEnds
        /\ outPending' = outPending - 1
        /\ IF stdoutBroken
             THEN Fail /\ UNCHANGED shown
             ELSE shown' = shown + 1 /\ UNCHANGED <<pc, outcome>>
        /\ UNCHANGED termVars
     \/ /\ SockEnds
        /\ DoExit
        /\ UNCHANGED <<outPending, shown>>
  /\ UNCHANGED <<stopped, inVars, sent, remoteClosed, stdoutBroken, readErr>>

(* epoll::wait(.., -1, ..) fails with EINTR when the process was stopped   *)
(* and continued while blocked in it; the error is returned with `?`.      *)
WaitInterrupted ==
  /\ Running /\ pc = "wait" /\ stopped
  /\ ~StdinReady /\ ~SockReady
  /\ Fail
  /\ UNCHANGED <<termVars, stopped, inVars, outVars>>

-----------------------------------------------------------------------------
(* The environment.                                                        *)

Type ==
  /\ Running /\ ~stdinClosed /\ typed < MaxInput
  /\ typed' = typed + 1
  /\ inPending' = inPending + 1
  /\ UNCHANGED <<pc, termVars, stopped, stdinClosed, outVars, outcome>>

CloseStdin ==
  /\ Running /\ ~stdinClosed
  /\ stdinClosed' = TRUE
  /\ UNCHANGED <<pc, termVars, stopped, typed, inPending, outVars, outcome>>

RemoteSend ==
  /\ Running /\ ~remoteClosed /\ sent < MaxOutput
  /\ sent' = sent + 1
  /\ outPending' = outPending + 1
  /\ UNCHANGED <<pc, termVars, stopped, inVars, remoteClosed, shown,
                 stdoutBroken, readErr, outcome>>

RemoteClose ==
  /\ Running /\ ~remoteClosed
  /\ remoteClosed' = TRUE
  /\ UNCHANGED <<pc, termVars, stopped, inVars, sent, outPending, shown,
                 stdoutBroken, readErr, outcome>>

BreakStdout ==
  /\ Running /\ ~stdoutBroken
  /\ stdoutBroken' = TRUE
  /\ UNCHANGED <<pc, termVars, stopped, inVars, sent, outPending,
                 remoteClosed, shown, readErr, outcome>>

(* Reads of one descriptor start failing (EIO on a hung-up terminal,       *)
(* ECONNRESET on the socket).                                              *)
ReadFail ==
  /\ Running /\ readErr = "none"
  /\ readErr' \in {"stdin", "sock"}
  /\ UNCHANGED <<pc, termVars, stopped, inVars, sent, outPending,
                 remoteClosed, shown, stdoutBroken, outcome>>

(* kill -STOP then kill -CONT (e.g. a debugger attaching), once.           *)
StopCont ==
  /\ Running /\ ~stopped
  /\ stopped' = TRUE
  /\ UNCHANGED <<pc, termVars, inVars, outVars, outcome>>

Terminated ==
  /\ ~Running
  /\ UNCHANGED vars

-----------------------------------------------------------------------------

Init ==
  /\ pc = "create"
  /\ origMode \in TermModes
  /\ term = origMode
  /\ restoreFailed = FALSE
  /\ stopped = FALSE
  /\ typed = 0 /\ inPending = 0 /\ stdinClosed = FALSE
  /\ sent = 0 /\ outPending = 0 /\ remoteClosed = FALSE
  /\ shown = 0 /\ stdoutBroken = FALSE
  /\ readErr = "none"
  /\ outcome = "running"

Process == Create \/ EnableStdinEvent \/ InitDebugConsoleSock \/ SetRawMode
           \/ HandleStdin \/ HandleServerSock \/ WaitInterrupted
Environment == Type \/ CloseStdin \/ RemoteSend \/ RemoteClose
               \/ BreakStdout \/ ReadFail \/ StopCont

Next == Process \/ Environment \/ Terminated

(* The one thread of the tool is scheduled; the user and the remote side   *)
(* are not obliged to do anything.                                         *)
Spec == Init /\ [][Next]_vars /\ WF_vars(Process)

-----------------------------------------------------------------------------
(* Properties.                                                             *)

TypeOK ==
  /\ pc \in {"create", "addStdin", "addSock", "raw", "wait", "exit"}
  /\ origMode \in TermModes
  /\ term \in TermModes \cup {"raw"}
  /\ {restoreFailed, stopped, stdinClosed, remoteClosed, stdoutBroken}
       \subseteq BOOLEAN
  /\ typed \in 0..MaxInput /\ inPending \in 0..typed
  /\ sent \in 0..MaxOutput /\ outPending \in 0..sent /\ shown \in 0..sent
  /\ readErr \in {"none", "stdin", "sock"}
  /\ outcome \in {"running", "ok", "error", "panic"}

(* Either side closing or failing ends the session: the epoll loop returns *)
(* on EOF or a read error of stdin or of the socket, and the process       *)
(* exits, whatever data is still queued in the other direction.            *)
EndsWhenEitherSideCloses ==
  (stdinClosed \/ remoteClosed \/ readErr # "none") ~> ~Running

(* The spec: once raw mode has been entered, every exit path (success,     *)
(* I/O failure, signal) routes through terminal restoration.  The process  *)
(* never exits leaving the terminal raw without reporting it.              *)
TerminalRestoredAtExit ==
  ~Running => (term # "raw" \/ restoreFailed)

(* The spec: when the remote channel closes (zero-length read), the relay  *)
(* terminates and local output has received exactly the bytes sent before *)
(* closure.  When the loop ended with success at the socket's EOF (stdin   *)
(* still open, no read error), every chunk the remote sent has been        *)
(* shown: level-triggered epoll keeps reporting the socket until its data  *)
(* is read, and Ok(0) comes only after it.                                 *)
OutputExactAtRemoteClose ==
  (outcome = "ok" /\ remoteClosed /\ ~stdinClosed /\ readErr = "none")
    => shown = sent

=============================================================================
