\* One Hermes instance through its life, two calls lost, one crash.
SPECIFICATION System
CONSTANTS
  Request = {r1, r2, r3}
  Instance = {i1}
  i1 = i1
  i2 = i2
  Port = {p1}
  Product <- AllHermes
  Action = {"create", "start", "stop", "restart", "delete", "restore", "purge_deleted", "refresh_ingress", "set_model_provider"}
  MaxBatch = 1
  MaxAttempts = 2
  MaxLost = 2
  MaxCrashes = 1
  NoInst = NoInst
  NoPort = NoPort
  NoRequest = NoRequest
SYMMETRY RequestSymmetry
INVARIANTS SystemTypeOK ManualOnce WorksOnRunningJob
PROPERTY Spec
