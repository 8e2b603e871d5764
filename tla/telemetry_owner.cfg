SPECIFICATION Spec
CONSTANTS
  Structs = {a}
  Values = {v, w}
  Inline = 1
  MaxMetrics = 2
  QueueDepth = 1
  MallocFails = {"blob", "copyBlob"}
  IsrSafeEnqueue = TRUE
  NULL = NULL
  Garbage = Garbage
VIEW Shape
INVARIANTS
  BlocksHaveOneOwner
  QueuedIsSnapshot
CHECK_DEADLOCK FALSE
