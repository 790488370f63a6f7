----------------------------- MODULE ThreadRelay -----------------------------
(***************************************************************************)
(* The thread-based relay of kuasarctl (src/kuasarctl/src/main.rs):        *)
(* the dispatch of exec_command and the three modes it selects:          *)
(* run_interactive_mode, run_basic_mode and run_non_interactive_mode.      *)
(*                                                                         *)
(* Four threads: the main thread, which sets up the terminal, the signal   *)
(* handler and the two copy threads and then joins them; the stdin thread  *)
(* (stdin -> socket); the stdout thread (socket -> stdout); the signal     *)
(* thread, which waits for SIGINT and raises the shared stop flag.  In    *)
(* the non-interactive mode the main thread alone sends the command line  *)
(* and copies the socket to stdout.  The                                  *)
(* user, the remote end of the socket and the reader of stdout form the    *)
(* environment.  Data is abstracted to counts of chunks: which bytes flow  *)
(* does not change any decision the code takes.                            *)
(***************************************************************************)
EXTENDS Naturals

CONSTANTS
  MaxInput,   \* bound on the chunks the user types
  MaxOutput,  \* bound on the chunks the remote side sends
  MaxCmdLength, \* MAX_CMD_LENGTH
  Commands    \* the commands given on the command line (see below)

(* A command is [empty |-> b, nul |-> b, len |-> n]: the trailing          *)
(* arguments are absent, their join contains a NUL byte, and its length.   *)
ASSUME MaxInput \in Nat /\ MaxOutput \in Nat /\ MaxCmdLength \in Nat
ASSUME \A c \in Commands : c.empty \in BOOLEAN /\ c.nul \in BOOLEAN
                          /\ c.len \in Nat

VARIABLES
  mode,          \* "interactive", "basic" or "command" (non-interactive)
  cmd,           \* the command of the command line
  mainPc,        \* where the main thread is
  term,          \* the terminal's line discipline: "cooked" or "raw"
  restores,      \* number of tcsetattr calls that restore original_termios
  restoreFailed, \* the restoring tcsetattr failed (reported on stderr)
  sigReg,        \* Signals::new has installed the SIGINT handler
  sigint,        \* "none", "pending" (delivered, unread) or "handled"
  stop,          \* the shared stop flag (Arc<Mutex<bool>>)
  sentAtStop,    \* chunks the remote had sent when main raised the flag
  inPc,          \* stdin thread
  outPc,         \* stdout thread
  sigPc,         \* signal thread
  typed,         \* chunks the user has typed (history, bounded)
  inPending,     \* typed chunks not yet read by the stdin thread
  stdinClosed,   \* stdin is at EOF or broken (hang-up)
  sent,          \* chunks the remote has sent (history, bounded)
  outPending,    \* sent chunks not yet read by the stdout thread
  remoteClosed,  \* the remote end has closed the socket
  shown,         \* chunks written to stdout
  forwarded,     \* typed chunks the stdin thread has written to the socket
  stdoutBroken,  \* writes to stdout fail
  sockError,     \* the socket fails (a reset): reads and writes return Err
  outcome        \* "running", "ok", "error" or "killed"

vars == <<mode, cmd, mainPc, term, restores, restoreFailed, sigReg, sigint,
          stop, sentAtStop, inPc, outPc, sigPc, typed, inPending, stdinClosed,
          sent, outPending, remoteClosed, shown, forwarded, stdoutBroken, sockError,
          outcome>>

envVars == <<typed, inPending, stdinClosed, sent, outPending, remoteClosed,
             stdoutBroken, sockError>>
threadVars == <<inPc, outPc, sigPc>>

MainPcs == {"getattr", "setraw", "signals", "clone", "joinIn", "stop",
            "joinOut", "joinSig", "validate", "send", "cmdRead", "cmdWrite",
            "exit"}
Interactive == mode = "interactive"
Running == outcome = "running"

(* The copy threads are not started, or have finished.                     *)
Stopped(pc) == pc \in {"idle", "done"}

-----------------------------------------------------------------------------
(* Helpers for the main thread.                                            *)

(* Returning from the function: process::exit(1) on Err, normal exit on Ok.*)
Return(result) ==
  /\ mainPc' = "exit"
  /\ outcome' = result

(* Dropping the scopeguard: tcsetattr(original_termios); on failure the    *)
(* code only prints recovery advice, and the terminal stays as it is.      *)
RestoreTerminal ==
  /\ restores' = restores + 1
  /\ \E ok \in BOOLEAN :
       /\ term' = IF ok THEN "cooked" ELSE term
       /\ restoreFailed' = ~ok

NoRestore == UNCHANGED <<term, restores, restoreFailed>>

(* thread::spawn of the two copy threads, which start at their flag check. *)
SpawnCopyThreads ==
  /\ inPc' = "check"
  /\ outPc' = "check"
  /\ mainPc' = "joinIn"

-----------------------------------------------------------------------------
(* Main thread.                                                            *)

(* tcgetattr(stdin): fails when stdin is not a terminal.                   *)
GetAttr ==
  /\ Running /\ mainPc = "getattr"
  /\ \/ mainPc' = "setraw" /\ UNCHANGED outcome
     \/ Return("error")
  /\ UNCHANGED <<mode, cmd, term, restores, restoreFailed, sigReg, sigint, stop, sentAtStop,
                 threadVars, envVars, shown, forwarded>>

(* tcsetattr(raw_termios): ECHO and ICANON cleared, ISIG kept.             *)
SetRaw ==
  /\ Running /\ mainPc = "setraw"
  /\ \/ /\ term' = "raw"
        /\ mainPc' = "signals"
        /\ UNCHANGED outcome
     \/ /\ Return("error")
        /\ UNCHANGED term
  /\ UNCHANGED <<mode, cmd, restores, restoreFailed, sigReg, sigint, stop, sentAtStop,
                 threadVars, envVars, shown, forwarded>>

(* Signals::new([SIGINT]) and the spawn of the signal thread; in the       *)
(* interactive mode the scopeguard is created right after.  A failure of   *)
(* Signals::new returns with `?` before the guard exists.  In basic mode   *)
(* the copy threads are spawned next.                                      *)
RegisterSignals ==
  /\ Running /\ mainPc = "signals"
  /\ \/ /\ sigReg' = TRUE
        /\ sigPc' = "wait"
        /\ IF Interactive THEN /\ mainPc' = "clone"
                       /\ UNCHANGED <<inPc, outPc>>
                  ELSE SpawnCopyThreads
        /\ UNCHANGED outcome
     \/ /\ Return("error")
        /\ UNCHANGED <<sigReg, threadVars>>
  /\ UNCHANGED <<mode, cmd, term, restores, restoreFailed, sigint, stop, sentAtStop,
                 envVars, shown, forwarded>>

(* stream.try_clone(): on failure the function returns, and in the         *)
(* interactive mode the guard is dropped on the way out.                   *)
CloneStream ==
  /\ Running /\ mainPc = "clone"
  /\ \/ /\ IF Interactive THEN SpawnCopyThreads
                  ELSE /\ mainPc' = "signals"
                       /\ UNCHANGED <<inPc, outPc>>
        /\ UNCHANGED outcome
        /\ NoRestore
     \/ /\ Return("error")
        /\ IF Interactive THEN RestoreTerminal ELSE NoRestore
        /\ UNCHANGED <<inPc, outPc>>
  /\ UNCHANGED <<mode, cmd, sigReg, sigint, stop, sentAtStop, sigPc, envVars,
                 shown, forwarded>>

(* Mutant: the guard dropped right after the stdin thread is joined.      *)
JoinStdinRestoring ==
  /\ Running /\ mainPc = "joinIn" /\ inPc = "done"
  /\ mainPc' = "stop"
  /\ IF Interactive THEN RestoreTerminal ELSE NoRestore
  /\ UNCHANGED <<mode, cmd, sigReg, sigint, stop, sentAtStop, threadVars,
                 envVars, shown, forwarded, outcome>>

(* stdin_handle.join()                                                     *)
JoinStdin ==
  /\ Running /\ mainPc = "joinIn" /\ inPc = "done"
  /\ mainPc' = "stop"
  /\ UNCHANGED <<mode, cmd, term, restores, restoreFailed, sigReg, sigint, stop, sentAtStop,
                 threadVars, envVars, shown, forwarded, outcome>>

(* *stop_flag_outer.lock().unwrap() = true                                 *)
RaiseStop ==
  /\ Running /\ mainPc = "stop"
  /\ stop' = TRUE
  /\ sentAtStop' = sent
  /\ mainPc' = "joinOut"
  /\ UNCHANGED <<mode, cmd, term, restores, restoreFailed, sigReg, sigint,
                 threadVars, envVars, shown, forwarded, outcome>>

(* stdout_handle.join()                                                    *)
JoinStdout ==
  /\ Running /\ mainPc = "joinOut" /\ outPc = "done"
  /\ mainPc' = "joinSig"
  /\ UNCHANGED <<mode, cmd, term, restores, restoreFailed, sigReg, sigint, stop, sentAtStop,
                 threadVars, envVars, shown, forwarded, outcome>>

(* signal_handle.join(), then drop(_restore) in the interactive mode, and  *)
(* Ok(()).                                                                 *)
JoinSignal ==
  /\ Running /\ mainPc = "joinSig" /\ sigPc = "done"
  /\ IF Interactive THEN RestoreTerminal ELSE NoRestore
  /\ Return("ok")
  /\ UNCHANGED <<mode, cmd, sigReg, sigint, stop, sentAtStop, threadVars,
                 envVars, shown, forwarded>>

-----------------------------------------------------------------------------
(* run_non_interactive_mode, on the main thread.                           *)

(* Which function exec_command calls: is_interactive = tty && interactive  *)
(* && command.is_empty(); otherwise a command selects the non-interactive  *)
(* mode, and no command the basic mode.                                    *)
Dispatch(tty, interactive, c) ==
  IF tty /\ interactive /\ c.empty THEN "interactive"
  ELSE IF ~c.empty THEN "command" ELSE "basic"

(* The first step of each mode's function.                                 *)
EntryPc(m) ==
  CASE m = "interactive" -> "getattr"
    [] m = "basic"       -> "clone"
    [] m = "command"     -> "validate"

(* The command line is rejected when it contains a NUL byte or is longer   *)
(* than MAX_CMD_LENGTH; the escape-sequence check only logs.               *)
CmdValidate ==
  /\ Running /\ mainPc = "validate"
  /\ IF cmd.nul \/ cmd.len > MaxCmdLength
       THEN Return("error")
       ELSE /\ mainPc' = "send"
            /\ UNCHANGED outcome
  /\ UNCHANGED <<mode, cmd, term, restores, restoreFailed, sigReg, sigint,
                 stop, sentAtStop, threadVars, envVars, shown, forwarded>>

(* writeln!(stream, cmd_line)?: fails once the remote end has closed or    *)
(* the socket has failed.                                                  *)
CmdSend ==
  /\ Running /\ mainPc = "send"
  /\ IF remoteClosed \/ sockError
       THEN Return("error")
       ELSE /\ mainPc' = "cmdRead"
            /\ UNCHANGED outcome
  /\ UNCHANGED <<mode, cmd, term, restores, restoreFailed, sigReg, sigint,
                 stop, sentAtStop, threadVars, envVars, shown, forwarded>>

(* Mutant: the loop leaves once the remote end has closed, unread data or  *)
(* not.                                                                    *)
CmdReadStopsOnClose ==
  /\ Running /\ mainPc = "cmdRead"
  /\ \/ /\ ~sockError /\ ~remoteClosed /\ outPending > 0
        /\ outPending' = outPending - 1
        /\ mainPc' = "cmdWrite"
        /\ UNCHANGED outcome
     \/ /\ sockError \/ remoteClosed
        /\ Return("ok")
        /\ UNCHANGED outPending
  /\ UNCHANGED <<mode, cmd, term, restores, restoreFailed, sigReg, sigint,
                 stop, sentAtStop, threadVars, typed, inPending, stdinClosed,
                 sent, remoteClosed, stdoutBroken, sockError, shown, forwarded>>

(* Mutant: end-of-channel does not leave the read loop.                    *)
CmdReadEofContinues ==
  /\ Running /\ mainPc = "cmdRead"
  /\ \/ /\ ~sockError /\ outPending > 0
        /\ outPending' = outPending - 1
        /\ mainPc' = "cmdWrite"
        /\ UNCHANGED outcome
     \/ /\ sockError
        /\ Return("ok")
        /\ UNCHANGED outPending
  /\ UNCHANGED <<mode, cmd, term, restores, restoreFailed, sigReg, sigint,
                 stop, sentAtStop, threadVars, typed, inPending, stdinClosed,
                 sent, remoteClosed, stdoutBroken, sockError, shown, forwarded>>

(* stream.read(&mut buf), blocking (the read timeout was removed): a chunk *)
(* goes to stdout; Ok(0) breaks; an error other than WouldBlock also       *)
(* breaks, and the function returns Ok(()).  WouldBlock cannot occur on    *)
(* this blocking socket without a timeout.                                 *)
CmdRead ==
  /\ Running /\ mainPc = "cmdRead"
  /\ \/ /\ ~sockError /\ outPending > 0
        /\ outPending' = outPending - 1
        /\ mainPc' = "cmdWrite"
        /\ UNCHANGED outcome
     \/ /\ sockError \/ (outPending = 0 /\ remoteClosed)
        /\ Return("ok")
        /\ UNCHANGED outPending
  /\ UNCHANGED <<mode, cmd, term, restores, restoreFailed, sigReg, sigint,
                 stop, sentAtStop, threadVars, typed, inPending, stdinClosed,
                 sent, remoteClosed, stdoutBroken, sockError, shown, forwarded>>

(* stdout.write_all(&buf[..n])? and stdout.flush()?                        *)
CmdWrite ==
  /\ Running /\ mainPc = "cmdWrite"
  /\ IF stdoutBroken
       THEN /\ Return("error")
            /\ UNCHANGED shown
       ELSE /\ shown' = shown + 1
            /\ mainPc' = "cmdRead"
            /\ UNCHANGED outcome
  /\ UNCHANGED <<mode, cmd, term, restores, restoreFailed, sigReg, sigint,
                 stop, sentAtStop, threadVars, envVars, forwarded>>

-----------------------------------------------------------------------------
(* The stdin thread.                                                       *)

(* if *stop_flag.lock().unwrap() { break }                                 *)
InCheck ==
  /\ Running /\ inPc = "check"
  /\ inPc' = IF stop THEN "done" ELSE "read"
  /\ UNCHANGED <<mode, cmd, mainPc, term, restores, restoreFailed, sigReg, sigint,
                 stop, sentAtStop, outPc, sigPc, envVars, shown, forwarded,
                 outcome>>

(* Mutant: end of input is taken as soon as stdin is closed, before the    *)
(* chunks still buffered in it are read.                                   *)
InReadEofFirst ==
  /\ Running /\ inPc = "read"
  /\ \/ /\ inPending > 0 /\ ~stdinClosed
        /\ inPending' = inPending - 1
        /\ inPc' = "write"
     \/ /\ stdinClosed
        /\ inPc' = "done"
        /\ UNCHANGED inPending
  /\ UNCHANGED <<mode, cmd, mainPc, term, restores, restoreFailed, sigReg, sigint,
                 stop, sentAtStop, outPc, sigPc, typed, stdinClosed,
                 sent, outPending, remoteClosed, stdoutBroken, sockError, shown,
                 forwarded, outcome>>

(* stdin.read(&mut buf): blocks until a chunk is typed or stdin ends;      *)
(* Ok(0) and any error other than Interrupted end the loop.                *)
InRead ==
  /\ Running /\ inPc = "read"
  /\ \/ /\ inPending > 0
        /\ inPending' = inPending - 1
        /\ inPc' = "write"
     \/ /\ inPending = 0 /\ stdinClosed
        /\ inPc' = "done"
        /\ UNCHANGED inPending
  /\ UNCHANGED <<mode, cmd, mainPc, term, restores, restoreFailed, sigReg, sigint,
                 stop, sentAtStop, outPc, sigPc, typed, stdinClosed,
                 sent, outPending, remoteClosed, stdoutBroken, sockError, shown, forwarded,
                 outcome>>

(* stream_clone.write_all: fails (EPIPE) once the remote end has closed,  *)
(* or once the socket has failed.                                         *)
InWrite ==
  /\ Running /\ inPc = "write"
  /\ IF remoteClosed \/ sockError
       THEN inPc' = "done" /\ UNCHANGED forwarded
       ELSE inPc' = "check" /\ forwarded' = forwarded + 1
  /\ UNCHANGED <<mode, cmd, mainPc, term, restores, restoreFailed, sigReg, sigint,
                 stop, sentAtStop, outPc, sigPc, envVars, shown,
                 outcome>>

-----------------------------------------------------------------------------
(* The stdout thread.                                                      *)

(* if *stop_flag_clone.lock().unwrap() { break }                           *)
OutCheck ==
  /\ Running /\ outPc = "check"
  /\ outPc' = IF stop THEN "done" ELSE "read"
  /\ UNCHANGED <<mode, cmd, mainPc, term, restores, restoreFailed, sigReg, sigint,
                 stop, sentAtStop, inPc, sigPc, envVars, shown, forwarded,
                 outcome>>

(* Mutant: the chunk is not taken off the socket.                          *)
OutReadNoConsume ==
  /\ Running /\ outPc = "read"
  /\ \/ /\ ~sockError /\ outPending > 0
        /\ outPc' = "write"
     \/ /\ sockError \/ (outPending = 0 /\ remoteClosed)
        /\ outPc' = "done"
  /\ UNCHANGED <<mode, cmd, mainPc, term, restores, restoreFailed, sigReg, sigint,
                 stop, sentAtStop, inPc, sigPc, envVars, shown, forwarded,
                 outcome>>

(* stream.read(&mut buf): the read timeout was removed after the           *)
(* handshake, so it blocks until data arrives or the socket ends; Ok(0)    *)
(* and any error other than Interrupted/WouldBlock end the loop.  A failed *)
(* socket returns the error, whatever data was still unread.              *)
OutRead ==
  /\ Running /\ outPc = "read"
  /\ \/ /\ ~sockError /\ outPending > 0
        /\ outPending' = outPending - 1
        /\ outPc' = "write"
     \/ /\ sockError \/ (outPending = 0 /\ remoteClosed)
        /\ outPc' = "done"
        /\ UNCHANGED outPending
  /\ UNCHANGED <<mode, cmd, mainPc, term, restores, restoreFailed, sigReg, sigint,
                 stop, sentAtStop, inPc, sigPc, typed, inPending,
                 stdinClosed, sent, remoteClosed, stdoutBroken, sockError, shown, forwarded,
                 outcome>>

(* stdout.write_all and flush; a failed write ends the loop.               *)
OutWrite ==
  /\ Running /\ outPc = "write"
  /\ \/ /\ ~stdoutBroken
        /\ shown' = shown + 1
        /\ outPc' = "check"
     \/ /\ stdoutBroken
        /\ outPc' = "done"
        /\ UNCHANGED shown
  /\ UNCHANGED <<mode, cmd, mainPc, term, restores, restoreFailed, sigReg, sigint,
                 stop, sentAtStop, inPc, sigPc, envVars, forwarded,
                 outcome>>

-----------------------------------------------------------------------------
(* The signal thread: `for sig in &mut signals`, set the flag, break.      *)

(* Mutant: the flag is set but the loop does not break.                    *)
SigHandleNoBreak ==
  /\ Running /\ sigPc = "wait" /\ sigint = "pending"
  /\ stop' = TRUE
  /\ sigint' = "handled"
  /\ UNCHANGED sentAtStop
  /\ UNCHANGED <<mode, cmd, mainPc, term, restores, restoreFailed, sigReg,
                 threadVars, envVars, shown, forwarded, outcome>>

SigHandle ==
  /\ Running /\ sigPc = "wait" /\ sigint = "pending"
  /\ stop' = TRUE
  /\ sigint' = "handled"
  /\ UNCHANGED sentAtStop
  /\ sigPc' = "done"
  /\ UNCHANGED <<mode, cmd, mainPc, term, restores, restoreFailed, sigReg,
                 inPc, outPc, envVars, shown, forwarded, outcome>>

-----------------------------------------------------------------------------
(* The environment.                                                        *)

Type ==
  /\ Running /\ ~stdinClosed /\ typed < MaxInput
  /\ typed' = typed + 1
  /\ inPending' = inPending + 1
  /\ UNCHANGED <<mode, cmd, mainPc, term, restores, restoreFailed, sigReg, sigint,
                 stop, sentAtStop, threadVars, stdinClosed, sent,
                 outPending, remoteClosed, stdoutBroken, sockError,
                 shown, forwarded, outcome>>

(* End of input, or a hang-up of the terminal.                             *)
CloseStdin ==
  /\ Running /\ ~stdinClosed
  /\ stdinClosed' = TRUE
  /\ UNCHANGED <<mode, cmd, mainPc, term, restores, restoreFailed, sigReg, sigint,
                 stop, sentAtStop, threadVars, typed, inPending,
                 sent, outPending, remoteClosed, stdoutBroken, sockError,
                 shown, forwarded, outcome>>

RemoteSend ==
  /\ Running /\ ~remoteClosed /\ sent < MaxOutput
  /\ sent' = sent + 1
  /\ outPending' = outPending + 1
  /\ UNCHANGED <<mode, cmd, mainPc, term, restores, restoreFailed, sigReg, sigint,
                 stop, sentAtStop, threadVars, typed, inPending,
                 stdinClosed, remoteClosed, stdoutBroken, sockError,
                 shown, forwarded, outcome>>

RemoteClose ==
  /\ Running /\ ~remoteClosed
  /\ remoteClosed' = TRUE
  /\ UNCHANGED <<mode, cmd, mainPc, term, restores, restoreFailed, sigReg, sigint,
                 stop, sentAtStop, threadVars, typed, inPending,
                 stdinClosed, sent, outPending, stdoutBroken, sockError,
                 shown, forwarded, outcome>>

BreakStdout ==
  /\ Running /\ ~stdoutBroken
  /\ stdoutBroken' = TRUE
  /\ UNCHANGED <<mode, cmd, mainPc, term, restores, restoreFailed, sigReg, sigint,
                 stop, sentAtStop, threadVars, typed, inPending,
                 stdinClosed, sent, outPending, remoteClosed, sockError,
                 shown, forwarded, outcome>>

(* The connection fails (ECONNRESET): the data not yet read is lost.       *)
SockFail ==
  /\ Running /\ ~sockError
  /\ sockError' = TRUE
  /\ UNCHANGED <<mode, cmd, mainPc, term, restores, restoreFailed, sigReg, sigint,
                 stop, sentAtStop, threadVars, typed, inPending, stdinClosed,
                 sent, outPending, remoteClosed, stdoutBroken, shown, forwarded, outcome>>

(* Ctrl+C (the terminal keeps ISIG) or kill -INT, once.  Before the        *)
(* handler is installed, SIGINT's default action ends the process.         *)
CtrlC ==
  /\ Running /\ sigint = "none"
  /\ IF sigReg THEN /\ sigint' = "pending"
                    /\ UNCHANGED outcome
               ELSE /\ outcome' = "killed"
                    /\ UNCHANGED sigint
  /\ UNCHANGED <<mode, cmd, mainPc, term, restores, restoreFailed, sigReg, stop, sentAtStop,
                 threadVars, envVars, shown, forwarded>>

(* The process has ended: nothing changes any more.                        *)
Terminated ==
  /\ ~Running
  /\ UNCHANGED vars

-----------------------------------------------------------------------------

Init ==
  /\ cmd \in Commands
  /\ mode \in {Dispatch(tty, interactive, cmd) : tty, interactive \in BOOLEAN}
  /\ mainPc = EntryPc(mode)
  /\ term = "cooked"
  /\ restores = 0
  /\ restoreFailed = FALSE
  /\ sigReg = FALSE
  /\ sigint = "none"
  /\ stop = FALSE
  /\ sentAtStop = 0
  /\ inPc = "idle"
  /\ outPc = "idle"
  /\ sigPc = "idle"
  /\ typed = 0
  /\ inPending = 0
  /\ stdinClosed = FALSE
  /\ sent = 0
  /\ outPending = 0
  /\ remoteClosed = FALSE
  /\ shown = 0
  /\ forwarded = 0
  /\ stdoutBroken = FALSE
  /\ sockError = FALSE
  /\ outcome = "running"

MainThread == GetAttr \/ SetRaw \/ RegisterSignals \/ CloneStream
              \/ JoinStdin \/ RaiseStop \/ JoinStdout \/ JoinSignal
              \/ CmdValidate \/ CmdSend \/ CmdRead \/ CmdWrite
StdinThread == InCheck \/ InRead \/ InWrite
StdoutThread == OutCheck \/ OutRead \/ OutWrite
Environment == Type \/ CloseStdin \/ RemoteSend \/ RemoteClose
               \/ BreakStdout \/ SockFail \/ CtrlC

Next == MainThread \/ StdinThread \/ StdoutThread \/ SigHandle
        \/ Environment \/ Terminated

(* Every thread the code starts is scheduled: weak fairness on each.  The  *)
(* user, the remote end and signal delivery get none.                      *)
Fairness ==
  /\ WF_vars(MainThread)
  /\ WF_vars(StdinThread)
  /\ WF_vars(StdoutThread)
  /\ WF_vars(SigHandle)

Spec == Init /\ [][Next]_vars /\ Fairness

-----------------------------------------------------------------------------
(* Properties.                                                             *)

TypeOK ==
  /\ mode \in {"interactive", "basic", "command"} /\ cmd \in Commands
  /\ mainPc \in MainPcs
  /\ term \in {"cooked", "raw"}
  /\ restores \in Nat /\ restoreFailed \in BOOLEAN
  /\ sigReg \in BOOLEAN /\ stop \in BOOLEAN
  /\ sigint \in {"none", "pending", "handled"}
  /\ inPc \in {"idle", "check", "read", "write", "done"}
  /\ outPc \in {"idle", "check", "read", "write", "done"}
  /\ sigPc \in {"idle", "wait", "done"}
  /\ typed \in 0..MaxInput /\ inPending \in 0..typed
  /\ sent \in 0..MaxOutput /\ outPending \in 0..sent
  /\ shown \in 0..sent /\ sentAtStop \in 0..sent /\ forwarded \in 0..typed
  /\ {stdinClosed, remoteClosed, stdoutBroken, sockError} \subseteq BOOLEAN
  /\ outcome \in {"running", "ok", "error", "killed"}

(* The scopeguard of run_interactive_mode reprograms the terminal back at  *)
(* most once, and only when neither copy thread can still write to the    *)
(* terminal or read from it: restoration happens after both joins.        *)
RestoreDiscipline ==
  [][restores' # restores =>
        /\ restores = 0 /\ restores' = 1
        /\ Stopped(inPc) /\ Stopped(outPc)]_vars

(* Once stdin has ended, the remote end has closed and a SIGINT has been   *)
(* received, every thread of the relay finishes and the process exits:    *)
(* the three blocking waits (stdin read, socket read, signal iterator)     *)
(* are each released by one of these events.                              *)
EndsWhenEveryWaitReleased ==
  (stdinClosed /\ remoteClosed /\ sigint # "none") ~> ~Running

(* The spec: "the watcher exits only after the relay signals its own       *)
(* completion, so the process does not hang".  Once both copy threads have *)
(* finished, the process exits.  The signal thread of run_interactive_mode *)
(* loops over `signals` until a SIGINT arrives, and main joins it.         *)
ExitsAfterCopyThreadsEnd ==
  (inPc = "done" /\ outPc = "done") ~> ~Running

(* Every exit of run_interactive_mode after raw mode was entered restores  *)
(* the terminal, or reports that restoring failed.                         *)
TerminalRestoredAtExit ==
  (~Running /\ Interactive) => (term = "cooked" \/ restoreFailed)

(* The non-interactive mode ends once the remote end closes the socket or *)
(* the socket fails, whatever the user does: its only blocking wait is the *)
(* socket read, and the end of the channel leaves the read loop.           *)
CommandEnds ==
  (mode = "command" /\ (remoteClosed \/ sockError)) ~> ~Running

(* The spec: the relay waits for the downstream loop after raising the    *)
(* cancellation flag "so that any final remote output in flight is still  *)
(* drained before the terminal is restored".  When the stdout thread ends  *)
(* after main raised the flag (JoinStdin, RaiseStop, JoinStdout), all that *)
(* the remote had sent by then has been written to stdout, unless stdout   *)
(* or the socket failed.                                                   *)
RemoteOutputDrained ==
  (outPc = "done" /\ mainPc \in {"joinOut", "joinSig", "exit"}
   /\ ~stdoutBroken /\ ~sockError) => shown >= sentAtStop

(* The spec: when the remote channel closes, local output has received     *)
(* exactly the bytes sent before closure, no truncation and no            *)
(* duplication.  A non-interactive session that ends with success and no   *)
(* socket failure has written every chunk the remote sent: the read loop   *)
(* of run_non_interactive_mode leaves only at Ok(0), after the data.       *)
CommandOutputExact ==
  (~Running /\ mode = "command" /\ outcome = "ok" /\ ~sockError)
    => shown = sent

(* The spec: bytes written to local input before EOF are observed, in     *)
(* order, on the channel.  When the stdin thread of the basic or the       *)
(* interactive mode leaves its loop at the end of input (no stop flag, the *)
(* socket still open and sound), it has written every typed chunk to the   *)
(* socket.                                                                 *)
InputForwardedAtEof ==
  (inPc = "done" /\ stdinClosed /\ ~stop /\ ~remoteClosed /\ ~sockError)
    => forwarded = typed

=============================================================================
