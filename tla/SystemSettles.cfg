\* Two jobs on one OpenClaw instance, one call lost, one crash, fair scheduling.
SPECIFICATION FairSystem
CONSTANTS
  Request = {r1, r2}
  Instance = {i1}
  i1 = i1
  i2 = i2
  Port = {p1}
  Product <- AllOpenClaw
  Action = {"create", "wechat_bind", "stop"}
  MaxBatch = 1
  MaxAttempts = 2
  MaxLost = 1
  MaxCrashes = 1
  NoInst = NoInst
  NoPort = NoPort
  NoRequest = NoRequest
PROPERTY JobsSettle CancelStopsBinding
