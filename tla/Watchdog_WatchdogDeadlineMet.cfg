CONSTANTS
  Envs <- MCShortEnvs
  MaxLag = 1
  MaxFailures = 1
  MaxTime = 8
INIT Init
NEXT Next
INVARIANT WatchdogDeadlineMet
