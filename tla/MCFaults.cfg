SPECIFICATION Spec
CONSTANTS
    f1 = f1
    f2 = f2
    d1 = d1
    d2 = d2
    h1 = h1
    h2 = h2
    v1 = v1
    v2 = v2
    Absent = Absent
    IsDir = IsDir
    Files <- BothFiles
    Dirs <- NoPaths
    Excluded <- SecondFile
    DbFiles <- NoPaths
    Hashes <- TwoHashes
    Vals <- OneVal
    Vital <- OneFile
    OpKinds <- ContentOps
    PkgSamples <- MaybeLocked
    WriteOutcomes <- WritesMayFail
    NotifyLegit = TRUE
    MaxOps = 3
    ChanCap = 2
    MaxStops = 0
PROPERTIES
    RebaselineAlerted
SYMMETRY HashSymmetry
CHECK_DEADLOCK FALSE
