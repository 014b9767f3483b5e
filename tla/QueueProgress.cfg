SPECIFICATION FairSpec
CONSTANTS
  Task = {t1}
  Worker = {w1, w2}
  Nobody = Nobody
  MaxAttempts = 3
  LeaseTicks = 2
  BeatTicks = 1
  Priority <- OnePriority
  RetryPriority = 1
  Sweeps = TRUE
  BeatsMayFail = TRUE
  TimelyBeats = TRUE
  Outside <- Recalculations
  MaxCrashes = 1
  MaxFaults = 1
  MaxClaims = 8

PROPERTIES EverySettles FollowsLifecycle
