------------------------------ MODULE MCWatchdog ------------------------------
(***************************************************************************)
(* Instance of Watchdog for TLC.  WATCHDOG_USEC is unset, not a number, or *)
(* 2000, 3999 and 5000 us (periods of 1, 1 and 2 ms); the runtime may be   *)
(* 1 ms late; one sd_notify call may fail; 8 ms are observed.              *)
(***************************************************************************)
EXTENDS Watchdog

Env(p, ok, u) == [present |-> p, parses |-> ok, usec |-> u]

MCEnvs == {Env(FALSE, FALSE, 0), Env(TRUE, FALSE, 0),
           Env(TRUE, TRUE, 2000), Env(TRUE, TRUE, 3999), Env(TRUE, TRUE, 5000)}

(* A sandboxer started with a watchdog of less than 2 ms.                  *)
MCShortEnvs == {Env(TRUE, TRUE, 1999), Env(TRUE, TRUE, 1000)}
=============================================================================
