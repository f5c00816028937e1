SPECIFICATION Spec
CONSTANTS
    MaxEvents = 6
    Panels = {p1, p2}
    SleepMinutes = {15, 30}
    Books = {b1, b2}
    MaxMark = 2
    MaxLocks = 2
    Shelved = {b1, b2}
    MaxPages = 2
    Cards = {c1, c2}
    MaxActive = 1
    MaxCached = 1
    Bases = 2
    Callers = {reader, saver}
    FileSize = 3
    Batch = 2
    MaxThemes = 3
    MaxEntries = 2
    Users = {1, 2}
    MaxReleases = 3
INVARIANTS
    PendingIsLatest
    SessionSafe
    ShelfPageSafe
PROPERTIES
    DownloadSafe
    OfflineSafe
    RequestsSafe
    OpeningSafe
    EveryWaitEnds
CHECK_DEADLOCK FALSE
