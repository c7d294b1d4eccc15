SPECIFICATION FairSpec
CONSTANTS
    Images <- ThreeImages
    ProtectedServices <- Services
    ForbiddenChildren <- Children
    AllowedPatterns <- Allowing
    Base <- MCBase
    Begins <- MCBegins
    Contains <- MCContains
    Texts <- SomeTexts
    MaxLines = 3
    MaxFiles = 2
    MaxPid = 3
    MaxLives = 3
    RceEnabled = TRUE
    AuthEnabled = TRUE
    IgnoreCron = TRUE
    MonitorSuccess = TRUE
    MonitorFailures = TRUE
    FimCap = 1
    Budgets <- SomeBudgets
INVARIANTS
    TypeOK
    LoginsOnRecord
    LoginsInOrder
    SpawnsOnce
PROPERTIES
    LoginsNoticed
    SpawnsCaught
CHECK_DEADLOCK FALSE
