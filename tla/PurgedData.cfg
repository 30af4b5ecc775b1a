\* One OpenClaw instance, deleted, restored in vain and purged.
SPECIFICATION System
CONSTANTS
  Request = {r1, r2, r3}
  Instance = {i1}
  i1 = i1
  i2 = i2
  Port = {p1}
  Product <- AllOpenClaw
  Action = {"delete", "restore", "purge_deleted"}
  MaxBatch = 1
  MaxAttempts = 2
  MaxLost = 0
  MaxCrashes = 0
  NoInst = NoInst
  NoPort = NoPort
  NoRequest = NoRequest
SYMMETRY RequestSymmetry
INVARIANTS PurgedHasNoDirectory
