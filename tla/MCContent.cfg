SPECIFICATION Spec
CONSTANTS
    f1 = f1
    f2 = f2
    d1 = d1
    d2 = d2
    h1 = h1
    h2 = h2
    v1 = v1
    v2 = v2
    Absent = Absent
    IsDir = IsDir
    Files <- BothFiles
    Dirs <- NoPaths
    Excluded <- NoPaths
    DbFiles <- NoPaths
    Hashes <- TwoHashes
    Vals <- OneVal
    Vital <- NoPaths
    OpKinds <- ContentOps
    PkgSamples <- MaybeLocked
    WriteOutcomes <- WritesSucceed
    NotifyLegit = FALSE
    MaxOps = 3
    ChanCap = 2
    MaxStops = 1
INVARIANTS
    TypeOK
    BaselineCurrent
PROPERTIES
    RebaselineAudited
    RefinesBaseline
SYMMETRY HashSymmetry
CHECK_DEADLOCK FALSE
