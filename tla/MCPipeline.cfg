SPECIFICATION FairSpec
CONSTANTS
    Keys = {k1}
    EchoWindow = 1
    N = 2
    Breakers = {2}
    QueueCap = 1
    MaxPerWindow = 1
    Window = 2
    Pause = 1
    MinInterval = 1
    Backoffs = {1}
    MaxAttempts = 2
    MaxAlerts = 3
    Graces = {0, 1}
    Prompt = FALSE
INVARIANTS
    TypeOK
    RateBound
    SuppressionAccounted
    NothingLost
    DeliveredInOrder
PROPERTIES
    DispatchReturns
CHECK_DEADLOCK FALSE
