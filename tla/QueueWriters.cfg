SPECIFICATION FairSpec
CONSTANTS
  Task = {t1}
  Worker = {w1, w2}
  Nobody = Nobody
  MaxAttempts = 2
  LeaseTicks = 2
  BeatTicks = 1
  Priority <- OnePriority
  RetryPriority = 1
  Sweeps = TRUE
  BeatsMayFail = FALSE
  TimelyBeats = FALSE
  Outside <- Operators
  MaxCrashes = 1
  MaxFaults = 0
  MaxClaims = 2

PROPERTIES OrphanRecovered
