SPECIFICATION Spec
CONSTANTS
    Keys = {k1, k2}
    EchoWindow = 5
    N = 1
    Breakers = {1}
    QueueCap = 2
    MaxPerWindow = 5
    Window = 6
    Pause = 4
    MinInterval = 2
    Backoffs = {4}
    MaxAttempts = 3
    MaxAlerts = 2
    Graces = {3}
    Prompt = TRUE
INVARIANTS
    FlushedAtExit
CHECK_DEADLOCK FALSE
