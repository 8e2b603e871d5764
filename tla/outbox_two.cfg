SPECIFICATION Spec
CONSTANTS
    w1 = w1 w2 = w2 d1 = d1 d2 = d2 e1 = e1 e2 = e2 v1 = v1 v2 = v2
    Workers <- TwoWorkers
    Dispatchers <- TwoDispatchers
    Events <- OneEvent
    Endpoints <- OneEndpoint
    MaxChoices = {1, 2}
    Limit = 1
    MaxFaults = 1
    NoEvent = NoEvent
    NoRow = NoRow
SYMMETRY Symmetry
INVARIANTS TypeOK DeliveredWasReceived AttemptsAreLogged RecordedWasAnnounced MaxAttemptsDeadLetters
PROPERTIES SettledIsFinal
