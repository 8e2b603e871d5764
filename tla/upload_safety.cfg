SPECIFICATION Spec
CONSTANTS
  Producers = {p1, p2}
  Flushers = {}
  Telemetry = {t1}
  Status = {s1}
  Signals = {g1, g2}
  g1 = g1
  Size <- MCSize
  Unencodable = {g2}
  BadRequests = {s1}
  QueueDepth = 2
  NoMsg = none
SYMMETRY Symmetry
INVARIANTS
  TypeOK
  BlocksHaveAnOwner
  PoolStatisticsExact
  KeySharedOnlyAfterDrop
  AckedRowKept
PROPERTIES
  ImplementsFifoUplink
