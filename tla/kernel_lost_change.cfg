SPECIFICATION Spec
CONSTANTS
  Starts = {}
  Stops = {}
  Restarts = {}
  Branches = {}
  Changes = {c1}
  Switches = {w1}
  Worker = w
  NoOp = none
  MayFail = FALSE
  AutoRestart = TRUE
  MayCancel = FALSE
  SlowGuard = FALSE
  Outcomes = {"none"}
  MayShutDown = FALSE
  Boot = a
  MaxPID = 3
  Profiles = {a, b}
  NoProfile = noProfile
INVARIANTS FreshAtRest

