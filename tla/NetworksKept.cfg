\* Two networks, two runs at once over a pool of four subnets, the first excluded.
SPECIFICATION NetworksSpec
CONSTANTS
  Network = {n1, n2}
  Process = {p1, p2}
  PoolSize = 4
  Excluded = {1}
  Foreign = {f1}
  f1 = f1
  Covers <- OneForeign
  NoProcess = NoProcess
SYMMETRY Symmetry
INVARIANTS NetworksInv PlansHold Prepared
PROPERTY FailureUndone
