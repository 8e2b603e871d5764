SPECIFICATION Spec
CONSTANTS
    metrics = metrics frame = frame
    Clients = {c1}
    Events <- MCEvents
    MetricCount <- MCMetricCount
    Frames = {frame}
    Timed = {frame}
    MaxRequests = 2
    MaxRestarts = 0
    NoCall = NoCall
INVARIANT OnePointPerEvent
CHECK_DEADLOCK FALSE
