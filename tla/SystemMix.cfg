\* One EvoScientist and one OpenClaw instance: life cycle and bindings; operations fail, one call is lost.
SPECIFICATION System
CONSTANTS
  Request = {r1, r2, r3}
  Instance = {i1, i2}
  i1 = i1
  i2 = i2
  Port = {p1, p2}
  Product <- EvoAndClaw
  Action = {"create", "restart", "delete", "restore", "purge_deleted", "cleanup_failed", "update_version", "wechat_bind"}
  MaxBatch = 1
  MaxAttempts = 2
  MaxLost = 1
  MaxCrashes = 0
  NoInst = NoInst
  NoPort = NoPort
  NoRequest = NoRequest
SYMMETRY RequestSymmetry
INVARIANTS MetadataAgrees OneBinding
