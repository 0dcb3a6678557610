SPECIFICATION Spec
CONSTANTS
  Backends = {b1, b2}
  Guards = {g1, g2}
  Nobody = nobody
  KillableAt = {"started", "validated", "locked", "ready", "watching", "stopping", "leaving", "unlocked"}
  Slow = TRUE
SYMMETRY Permutable
INVARIANTS TypeOK LiveIsRecorded
PROPERTIES ImplementsCoreSlot
