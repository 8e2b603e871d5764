SPECIFICATION Spec
CONSTANTS
  Structs = {a}
  Values = {v}
  Inline = 1
  MaxMetrics = 2
  QueueDepth = 1
  MallocFails = {"copyBlob"}
  IsrSafeEnqueue = FALSE
  NULL = NULL
  Garbage = Garbage
INVARIANTS
  StructsStayValid
CHECK_DEADLOCK FALSE
VIEW Shape
