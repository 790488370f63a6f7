------------------------------- MODULE Watchdog -------------------------------
(***************************************************************************)
(* The systemd watchdog task of the sandboxer: run_watchdog in             *)
(* src/vmm/sandbox/src/watchdog.rs.                                        *)
(*                                                                         *)
(* The task reads WATCHDOG_USEC, derives a tick period of half the timeout *)
(* in whole milliseconds, sends READY=1 and then sends WATCHDOG=1 on every *)
(* tick of a tokio interval.  systemd kills the service when WATCHDOG_USEC *)
(* microseconds pass without a WATCHDOG=1.                                 *)
(*                                                                         *)
(* Time is counted in milliseconds.  The task has no await before its      *)
(* loop, so the start-up runs in the task's first poll; the runtime may    *)
(* poll the task up to MaxLag ms after it became ready (after its spawn or *)
(* after a tick deadline).  The interval uses tokio's default              *)
(* MissedTickBehavior::Burst: the first tick completes at once, and late   *)
(* ticks keep their schedule (deadline k * period) and fire back to back.  *)
(***************************************************************************)
EXTENDS Naturals

CONSTANTS
  Envs,        \* values WATCHDOG_USEC may have, as records (see below)
  MaxLag,      \* how late, in ms, the runtime may poll a ready task
  MaxFailures, \* bound on sd_notify calls that fail
  MaxTime      \* bound on the clock, in ms

(* An environment is [present |-> b, parses |-> b, usec |-> n]: the        *)
(* variable is set, its text parses as a u64, and that number.             *)
ASSUME \A e \in Envs : e.present \in BOOLEAN /\ e.parses \in BOOLEAN
                      /\ e.usec \in Nat

VARIABLES
  env,        \* the environment of the process (fixed at start)
  pc,         \* "start", "loop", "skipped" (returned) or "panicked"
  intervalMs, \* the tick period interval_ms
  now,        \* the clock, in ms
  nextTick,   \* the deadline of the interval's next tick
  lastPing,   \* when systemd last received WATCHDOG=1 (0: service start)
  failures    \* sd_notify calls that returned Err (only logged)

vars == <<env, pc, intervalMs, now, nextTick, lastPing, failures>>

(* Mutant: the period is the whole timeout (the halving forgotten).       *)
IntervalNoHalf(usec) == usec \div 1000

(* let interval_ms = usec / 1000 / 2; (u64 division truncates)            *)
Interval(usec) == (usec \div 1000) \div 2

(* sd_notify::notify: either delivered or an Err that the code only logs. *)
Notify(delivered) ==
  \/ /\ delivered' = now
     /\ UNCHANGED failures
  \/ /\ failures < MaxFailures
     /\ failures' = failures + 1
     /\ UNCHANGED delivered

Init ==
  /\ env \in Envs
  /\ pc = "start"
  /\ intervalMs = 0
  /\ now = 0
  /\ nextTick = 0
  /\ lastPing = 0
  /\ failures = 0

-----------------------------------------------------------------------------
(* The first poll of the task: every step before the loop.  An unset or   *)
(* unparsable WATCHDOG_USEC returns; time::interval panics on a zero      *)
(* period; otherwise READY=1 is sent (an Err is only logged) and the first *)
(* tick is due at once.                                                    *)
Start ==
  /\ pc = "start"
  /\ \/ /\ ~env.present \/ ~env.parses
        /\ pc' = "skipped"
        /\ UNCHANGED <<intervalMs, nextTick, failures>>
     \/ /\ env.present /\ env.parses
        /\ intervalMs' = Interval(env.usec)
        /\ IF intervalMs' = 0
             THEN /\ pc' = "panicked"
                  /\ UNCHANGED <<nextTick, failures>>
             ELSE /\ pc' = "loop"
                  /\ nextTick' = now
                  /\ UNCHANGED failures
  /\ UNCHANGED <<env, now, lastPing>>

(* Mutant: the ping is sent without awaiting the tick.                    *)
TickNotifyNoWait ==
  /\ pc = "loop"
  /\ nextTick' = nextTick + intervalMs
  /\ Notify(lastPing)
  /\ UNCHANGED <<env, pc, intervalMs, now>>

(* Mutant: a failed notification ends the task (an early return on Err).  *)
TickNotifyStopsOnError ==
  /\ pc = "loop"
  /\ now >= nextTick
  /\ nextTick' = nextTick + intervalMs
  /\ \/ lastPing' = now /\ UNCHANGED <<failures, pc>>
     \/ /\ failures < MaxFailures
        /\ failures' = failures + 1
        /\ pc' = "skipped"
        /\ UNCHANGED lastPing
  /\ UNCHANGED <<env, intervalMs, now>>

(* One iteration of the loop: interval.tick().await completes (the clock  *)
(* has reached the deadline), and WATCHDOG=1 is sent.                     *)
TickNotify ==
  /\ pc = "loop"
  /\ now >= nextTick
  /\ nextTick' = nextTick + intervalMs
  /\ Notify(lastPing)
  /\ UNCHANGED <<env, pc, intervalMs, now>>

(* The clock advances while the task is not overdue: a ready task is      *)
(* polled within MaxLag ms.                                               *)
AdvanceTime ==
  /\ now < MaxTime
  /\ pc = "start" => now < MaxLag
  /\ pc = "loop" => now < nextTick + MaxLag
  /\ now' = now + 1
  /\ UNCHANGED <<env, pc, intervalMs, nextTick, lastPing, failures>>

(* The end of the observed time span.                                      *)
TimeUp ==
  /\ now = MaxTime
  /\ UNCHANGED vars

Next == Start \/ TickNotify \/ AdvanceTime \/ TimeUp

Spec == Init /\ [][Next]_vars

-----------------------------------------------------------------------------
(* Every value a variable may take.                                        *)
TypeOK ==
  /\ env \in Envs
  /\ pc \in {"start", "loop", "skipped", "panicked"}
  /\ intervalMs \in Nat
  /\ now \in 0..MaxTime
  /\ nextTick \in 0..(now + intervalMs)
  /\ lastPing \in 0..now
  /\ failures \in 0..MaxFailures

(* A watchdog is requested: WATCHDOG_USEC is set to a number.              *)
Requested == env.present /\ env.parses

(* The promise of the code's comment "interval ... half of the timeout":   *)
(* when systemd asks for a watchdog and every sd_notify call succeeds,     *)
(* WATCHDOG=1 arrives at least once every WATCHDOG_USEC microseconds, even *)
(* when the runtime polls the task late, so systemd never kills the        *)
(* service.  A zero period (usec < 2000) panics at time::interval before   *)
(* any ping; a period of the whole timeout is too long once a tick is late.*)
WatchdogDeadlineMet ==
  (Requested /\ failures = 0) => (now - lastPing) * 1000 <= env.usec

(* A failed sd_notify is only logged and the loop goes on: each failed     *)
(* WATCHDOG=1 lengthens the silence by one period at most, so once the     *)
(* task runs, systemd hears from it within (failures + 1) periods plus the *)
(* polling lag, and the watchdog never stops for good.                     *)
LostPingCostsOnePeriod ==
  (Requested /\ intervalMs > 0) =>
    now - lastPing <= (failures + 1) * intervalMs + MaxLag
=============================================================================
