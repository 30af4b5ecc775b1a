\* One instance of each product, PostgreSQL, four ports: the range runs out,
\* and ports.txt may be lost at any time.
SPECIFICATION Spec
CONSTANTS
  i1 = i1
  i2 = i2
  i3 = i3
  Instance = {i1, i2, i3}
  NoInst = NoInst
  Product <- OneEach
  PortStart = 1
  PortEnd = 4
  NoPort = NoPort
  Backend = "postgres"
CHECK_DEADLOCK FALSE
INVARIANTS
  PoolInv
  ActiveReached
  RestorablePortKept
  ActivePortsBooked
  SitesKept
