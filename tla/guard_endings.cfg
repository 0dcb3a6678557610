SPECIFICATION FairSpec
CONSTANTS
  Backends = {b1, b2}
  Guards = {g1}
  Nobody = nobody
  KillableAt = {"started", "validated", "locked", "ready", "leaving", "unlocked"}
  Slow = FALSE
INVARIANTS CanLaunch
PROPERTIES LossIsDealtWith ClosedIsClean
