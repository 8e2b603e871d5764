SPECIFICATION LiveSpec
CONSTANTS
    metrics = metrics frame = frame
    Clients = {c1}
    Events <- MCEvents
    MetricCount <- MCMetricCount
    Frames = {frame}
    Timed = {frame}
    MaxRequests = 2
    MaxRestarts = 1
    NoCall = NoCall
INVARIANTS TypeOK AcceptedIsPublished PointsHaveRaw RedeliveryIsIdempotent RawIsLastPublished
PROPERTY AcceptedIsStored
CHECK_DEADLOCK FALSE
