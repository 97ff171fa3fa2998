CONSTANTS
    StartLevels <- NearTheEnds
    MaxPresses = 4
SPECIFICATION Spec
INVARIANTS
    ShownIsTrue
    PressesCount
CHECK_DEADLOCK FALSE
