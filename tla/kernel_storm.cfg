SPECIFICATION KernelFilesSpec
CONSTANTS
  Starts = {s1}
  Stops = {x1}
  Restarts = {r1}
  Branches = {}
  Changes = {}
  Switches = {}
  Worker = w
  NoOp = none
  MayFail = TRUE
  AutoRestart = TRUE
  MayCancel = TRUE
  SlowGuard = TRUE
  Outcomes = {"none", "unconfirmed"}
  MayShutDown = TRUE
  Boot = a
  MaxPID = 2
  Profiles = {a}
  NoProfile = noProfile
  CoreDownloads = {3, 4}
  Rollbacks = {11, 12}
  MaxCoreCalls = 3
  Releases = {1, 2}
  MinimumCoreVersion = 2
  MaxKills = 1
INVARIANTS ClosingRevokes ClosedIsFinal CoreFilesTypeOK
PROPERTIES ImplementsInstallation
