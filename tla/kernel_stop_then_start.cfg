SPECIFICATION Spec
CONSTANTS
  Starts = {s1}
  Stops = {x1}
  Restarts = {}
  Branches = {}
  Changes = {}
  Switches = {}
  Worker = w
  NoOp = none
  MayFail = FALSE
  AutoRestart = TRUE
  MayCancel = FALSE
  SlowGuard = FALSE
  Outcomes = {"none"}
  MayShutDown = FALSE
  Boot = a
  MaxPID = 3
  Profiles = {a}
  NoProfile = noProfile
INVARIANTS NoCoreBehind

