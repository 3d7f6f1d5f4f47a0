CONSTANTS
    Block = 2
    MaxLines = 5
    MaxThreads = 4
    Counts <- SomeCounts
    ArgumentLists <- SomeArgumentLists
SPECIFICATION CommandFairSpec
INVARIANTS
    OutputInOrder
    ReportsTheFirstInvalid
    SuccessMeansComplete
PROPERTIES
    EndsAsTold
CHECK_DEADLOCK FALSE
