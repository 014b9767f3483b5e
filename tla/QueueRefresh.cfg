SPECIFICATION FairSpec
CONSTANTS
  Task = {t1}
  Worker = {w1}
  Nobody = Nobody
  MaxAttempts = 2
  LeaseTicks = 2
  BeatTicks = 1
  Priority <- OnePriority
  RetryPriority = 1
  Sweeps = TRUE
  BeatsMayFail = FALSE
  TimelyBeats = TRUE
  Outside <- Recalculations
  MaxCrashes = 0
  MaxFaults = 0
  MaxClaims = 3

PROPERTY RefreshHonoured
