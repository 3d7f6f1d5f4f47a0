CONSTANTS
    Hidden = 2
    Deltas <- StepDeltas
    Draws = {1}
    Scores = {0, 1, 2}
    MaxEpochs = 4
    MaxPatience = 2
    BatchCounts = {0, 1}
    KeepNum = 1
    KeepDen = 2
SPECIFICATION Spec
INVARIANTS
    ReturnsTheBest
    StopsOnPatience
    DalesLaw
PROPERTIES
    FeedbackConverges
CHECK_DEADLOCK FALSE
