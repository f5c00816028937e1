SPECIFICATION HooksSpec
CONSTANTS
    OldBooks = {1, 2}
    NewBooks = {3}
    Categories = {"novel"}
    Sorts = {"title", "recent"}
    Words = {"odd"}
    PageSize = 1
    MaxUploads = 1
    Devices = {d1}
    Books = {b1}
    Positions <- MCNearPages
    Start <- MCStart
    OnePercent = 2
    NoBook = NoBook
    NoPosition = NoPosition
    NoSnapshot = NoSnapshot
    NoCall = NoCall
    MaxCalls = 2
    MaxFaults = 1
    MaxEvents = 3
INVARIANTS
    ShelfSafe
PROPERTIES
    ShelfAtRest
    PositionsSafe
    PendingSettles
CHECK_DEADLOCK FALSE
