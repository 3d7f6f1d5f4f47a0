CONSTANTS
    Dictionaries <- AllDictionaries
    Texts <- AllTexts
    FreeListCap = 2
    MaxCharId = 5
SPECIFICATION FairSpec
INVARIANTS
    AcceptsTheWellFormed
    StepIsGoto
    MatchIsExact
PROPERTIES
    Terminates
CHECK_DEADLOCK FALSE
