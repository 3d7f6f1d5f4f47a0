CONSTANTS
    Files <- SomeFiles
    Predictions <- SomePredictions
    OtherSentences <- SomeOthers
SPECIFICATION Spec
INVARIANTS
    TagPerGap
    ReadsBackPredictions
    ExamplesCarryTheMarks
    OffsetsFindTheirOwn
CHECK_DEADLOCK FALSE
