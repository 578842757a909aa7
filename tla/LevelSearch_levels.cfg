SPECIFICATION Spec
CONSTANTS
    High <- MCHigh
    Needed <- MCNeeded
    Scores <- MCScores
    NoResult = none
INVARIANTS
    Narrowed
    LevelCorrect
PROPERTIES
    SearchEnds
