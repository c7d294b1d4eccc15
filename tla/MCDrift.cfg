SPECIFICATION FairSpec
CONSTANTS
    f1 = f1
    f2 = f2
    d1 = d1
    d2 = d2
    h1 = h1
    h2 = h2
    v1 = v1
    v2 = v2
    Absent = Absent
    IsDir = IsDir
    Files <- BothFiles
    Dirs <- TwoDirs
    Excluded <- NoPaths
    DbFiles <- NoPaths
    Hashes <- TwoHashes
    Vals <- OneVal
    Vital <- NoPaths
    OpKinds <- ContentOps
    PkgSamples <- MaybeLocked
    WriteOutcomes <- WritesSucceed
    NotifyLegit = FALSE
    MaxOps = 2
    ChanCap = 1
    MaxStops = 0
PROPERTIES
    DriftRepaired
CHECK_DEADLOCK FALSE
