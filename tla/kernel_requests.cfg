SPECIFICATION FairSpec
CONSTANTS
  Starts = {s1}
  Stops = {x1}
  Restarts = {r1}
  Branches = {}
  Changes = {}
  Switches = {}
  Worker = w
  NoOp = none
  MayFail = TRUE
  AutoRestart = FALSE
  MayCancel = TRUE
  SlowGuard = FALSE
  Outcomes = {"none"}
  MayShutDown = TRUE
  Boot = noProfile
  MaxPID = 1
  Profiles = {a}
  NoProfile = noProfile
INVARIANTS TypeOK StatusIsTrue
PROPERTIES CallsReturn
