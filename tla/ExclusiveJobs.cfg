\* One EvoScientist instance whose creation failed.
SPECIFICATION Spec
CONSTANTS
  Request = {r1, r2, r3}
  Instance = {i1}
  i1 = i1
  i2 = i2
  Port = {p1}
  Product <- AllEvo
  Action = {"create", "start", "cleanup_failed"}
  MaxBatch = 1
  NoInst = NoInst
  NoPort = NoPort
  NoRequest = NoRequest
SYMMETRY RequestSymmetry
INVARIANTS ExclusiveAlone
