SPECIFICATION Spec
CONSTANTS
  Backends = {b1}
  Guards = {g1}
  Nobody = nobody
  KillableAt = {"watching"}
  Slow = FALSE
INVARIANTS CleanedUp
