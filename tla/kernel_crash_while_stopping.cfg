SPECIFICATION Spec
CONSTANTS
  Starts = {}
  Stops = {x1}
  Restarts = {}
  Branches = {}
  Changes = {}
  Switches = {}
  Worker = w
  NoOp = none
  MayFail = FALSE
  AutoRestart = TRUE
  MayCancel = FALSE
  SlowGuard = FALSE
  Outcomes = {"none", "error"}
  MayShutDown = FALSE
  Boot = a
  MaxPID = 2
  Profiles = {a}
  NoProfile = noProfile
INVARIANTS CanStartAgain

