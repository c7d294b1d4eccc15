SPECIFICATION Spec
CONSTANTS
    NumProcs = 2
    Origins = {"10.0.0.7"}
    Connections <- SomeConnections
    Ttl = 2
    MaxTime = 4
    NumFiles = 3
    NumManagers = 4
    Style <- SomeStyles
    Uses <- SomeUses
    Installers <- SomeInstallers
    LocksReadable = {TRUE, FALSE}
    FilesThere = {{}}
    Enabled = TRUE
    Budgets <- SomeBudgets
INVARIANTS
    TypeOK
    ContextRecent
    ContextComplete
    QuietWhenIdle
    ActiveWhenSeen
CHECK_DEADLOCK FALSE
