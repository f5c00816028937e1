SPECIFICATION Spec
CONSTANTS
    Devices = {d1}
    Books = {b1}
    Positions <- MCPositions
    Start <- MCStart
    OnePercent = 2
    NoBook = NoBook
    NoPosition = NoPosition
    NoSnapshot = NoSnapshot
    NoCall = NoCall
    MaxCalls = 3
    MaxEvents = 6
    MaxFaults = 2
PROPERTIES
    StagedUntilAnswered
CHECK_DEADLOCK FALSE
