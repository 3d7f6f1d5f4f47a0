CONSTANTS
    Parts = 2
    MaxExports = 2
    MaxLoads = 2
    None = None
    CommandLines <- SomeCommandLines
    Unsigned <- SomeNumbers
    Decimals <- SomeDecimals
    Defaults <- NetDefaults
    MaxByte = 3
    MaxWord = 7
    MaxEmbedDim = 4
    Trained <- SomeTrained
    Inf = Inf
    NaN = NaN
    Amax = 2
    Qmax = 2
    MaxBias = 4
    MaxOutputBias = 8
SPECIFICATION CommandSpec
INVARIANTS
    TargetIsWhole
    FailureLeavesTarget
    LoadIsConsistent
    ExitTellsTheTruth
PROPERTIES
    TargetStays
CHECK_DEADLOCK FALSE
