\* An EvoScientist and an OpenClaw instance, batches of two: life cycle, pairing and settings.
SPECIFICATION Spec
CONSTANTS
  Request = {r1, r2, r3, r4}
  Instance = {i1, i2}
  i1 = i1
  i2 = i2
  Port = {p1}
  Product <- EvoAndClaw
  Action = {"create", "start", "set_model_provider", "wechat_bind", "approve_latest_device", "set_basic_auth", "delete", "restore", "purge_deleted", "cleanup_failed"}
  MaxBatch = 2
  NoInst = NoInst
  NoPort = NoPort
  NoRequest = NoRequest
SYMMETRY RequestSymmetry
INVARIANTS ControlInv RetentionAlone ProvisioningBacked RunningHasInstance BookingsBacked AuditAgrees PairingAlone SettingsFollowOrder
PROPERTY JobTransitions QueueSpec
