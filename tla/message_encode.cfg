SPECIFICATION Spec
CONSTANTS
    NULL = NULL
    ProtoMetrics = 32
    MaxMetrics = 2
    InlineMetrics = 1
    SamplesMax = 2400
    ChannelsMax = 4
    EncodeBuffer = 2912
    SizeMax = 65535
    Names <- MCNames
    Int64s <- MCInt64s
    Doubles <- MCDoubles
    Strings <- MCStrings
    Timestamps <- MCTimestamps
    StreamKeys <- MCStreamKeys
    Intervals <- MCIntervals
    SampleCounts <- MCSampleCounts
    Encodings = {"uint16_le"}
    Samples <- MCSamples
    Channels <- MCChannels
    Rssis <- MCRssis
    Heaps <- MCHeaps
    Reasons <- MCReasons
    Contexts <- MCContexts
CHECK_DEADLOCK FALSE
INVARIANTS
    ArrivesAsAsked
    FrameIsWhole
    StaysInBuffer
    DroppedOnlyBy
    ServerTakesIt
