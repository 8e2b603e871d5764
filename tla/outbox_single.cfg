SPECIFICATION LiveSpec
CONSTANTS
    w1 = w1 w2 = w2 d1 = d1 d2 = d2 e1 = e1 e2 = e2 v1 = v1 v2 = v2
    Workers <- OneWorker
    Dispatchers <- OneDispatcher
    Events <- TwoEvents
    Endpoints <- OneEndpoint
    MaxChoices = {2}
    Limit = 2
    MaxFaults = 1
    NoEvent = NoEvent
    NoRow = NoRow
PROPERTIES OpenRowSettles
