CONSTANTS
    Bits = 5
    AccShift = 2
    NeonLanes = 4
    Avx2Lanes = 4
    Utf8 <- Encoding
    Normal <- Normalization
    Bad <- Undecodable
    Buckets = 2
    WordBits = 8
    IdBits = 8
    UnicodeVersion = 1800
    MaxCodepoint = 5
    MaxEmbedDim = 2
    BmpSize = 5
    Amax = 24
    Percentile <- TopPercentile
    PropsOf <- Breaks
    Texts <- SomeTexts
    Files <- SomeFiles
    MaxRounds = 2
SPECIFICATION Spec
INVARIANTS
    LoadIsFaithful
    IndicesInBounds
    FeaturesExact
    AgreesWithTrainer
    FusedIsSequential
    PrecisionsAgree
    WordsPartition
CHECK_DEADLOCK FALSE
