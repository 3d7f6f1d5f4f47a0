CONSTANTS
    Headers <- SomeHeaders
    Maps <- SomeMaps
    Graphs <- SomeGraphs
    IdBits = 4
    MaxDicts = 8
    IntMax = 3
    Files <- SomeFiles
    Texts <- SomeTexts
    MaxCalls = 2
SPECIFICATION Spec
INVARIANTS
    LoadIsExact
    IdsByFirstAppearance
    IndicesInBounds
    ScoresExact
    WordsPartition
CHECK_DEADLOCK FALSE
