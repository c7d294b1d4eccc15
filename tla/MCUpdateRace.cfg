SPECIFICATION Spec
CONSTANTS
    p1 = p1
    p2 = p2
    p3 = p3
    f1 = f1
    f2 = f2
    c1 = c1
    c2 = c2
    w1 = w1
    Gone = Gone
    NoAdmin = NoAdmin
    NoPath = NoPath
    Procs <- TwoProcs
    Paths <- OnePath
    Contents <- TwoContents
    Passwords <- OnePassword
    Noticed <- Always
    MaxTime = 0
    MaxChanges = 1
    MaxOutside = 1
INVARIANTS
    UpdatedBaselineIsCurrent
SYMMETRY AnyTwoProcs
CHECK_DEADLOCK FALSE
