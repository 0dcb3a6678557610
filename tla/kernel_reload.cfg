SPECIFICATION Spec
CONSTANTS
  Starts = {}
  Stops = {}
  Restarts = {}
  Branches = {}
  Changes = {c1, c2}
  Switches = {w1, w2}
  Worker = w
  NoOp = none
  MayFail = FALSE
  AutoRestart = TRUE
  MayCancel = FALSE
  SlowGuard = FALSE
  Outcomes = {"none"}
  MayShutDown = FALSE
  Boot = a
  MaxPID = 5
  Profiles = {a, b}
  NoProfile = noProfile
INVARIANTS ReloadsAreCurrent

