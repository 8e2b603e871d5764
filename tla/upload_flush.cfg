SPECIFICATION BoundedLiveSpec
CONSTANTS
  Producers = {}
  Flushers = {f1, f2}
  Telemetry = {t1}
  Status = {s1, s2}
  Signals = {}
  g1 = g1
  Size <- MCSize
  Unencodable = {}
  BadRequests = {}
  QueueDepth = 2
  NoMsg = none
INVARIANTS
  TwoFlushesCoverADrain
PROPERTIES
  FlushReturns
  QueuedIsResolved
