SPECIFICATION FairSpec
CONSTANTS
  Starts = {}
  Stops = {}
  Restarts = {}
  Branches = {k1}
  Changes = {c1}
  Switches = {}
  Worker = w
  NoOp = none
  MayFail = TRUE
  AutoRestart = TRUE
  MayCancel = FALSE
  SlowGuard = FALSE
  Outcomes = {"none", "unconfirmed"}
  MayShutDown = TRUE
  Boot = a
  MaxPID = 3
  Profiles = {a}
  NoProfile = noProfile
INVARIANTS PendingIsServed
PROPERTIES RestartEnds
