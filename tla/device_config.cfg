SPECIFICATION BoundedSpec
CONSTANTS
    Texts <- MCTexts
    IngestUrls <- MCIngestUrls
    BootConfigs <- MCBootConfigs
    AppConfigs <- MCAppConfigs
    Answers <- MCAnswers
    TextWrites <- MCTextWrites
    NumberWrites <- MCNumberWrites
    AuthWrites = {"peap"}
    BoolWrites = {"off"}
    NotANumber = NotANumber
    Limit <- MCLimit
    DefaultInterval = 600
    DefaultDepth = 16
    Gpios = {1, 2}
    MaxEvents = 1
    Total = 2
    BodyCapacity = 8
    RtcValidAfter = 20
CHECK_DEADLOCK FALSE
INVARIANTS
    TypeOK
    OfflineIsExplained
    LinkIsShown
    DriverHasRunningConfig
    ProvisioningReachable
PROPERTIES
    RtcFromWholeAnswer
    SessionEnds
    Reconnects
