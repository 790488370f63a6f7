CONSTANTS
  Envs <- MCEnvs
  MaxLag = 1
  MaxFailures = 1
  MaxTime = 8
INIT Init
NEXT Next
INVARIANTS
  TypeOK
  WatchdogDeadlineMet
INVARIANT LostPingCostsOnePeriod
