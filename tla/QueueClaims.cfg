SPECIFICATION Spec
CONSTANTS
  Task = {t1, t2}
  Worker = {w1, w2}
  Nobody = Nobody
  MaxAttempts = 2
  LeaseTicks = 2
  BeatTicks = 1
  Priority <- TwoPriorities
  RetryPriority = 1
  Sweeps = TRUE
  BeatsMayFail = FALSE
  TimelyBeats = TRUE
  Outside <- Quiet
  MaxCrashes = 1
  MaxFaults = 1
  MaxClaims = 9
SYMMETRY SlotSymmetry
INVARIANTS TypeOK ClaimIsFenced RunsBounded
