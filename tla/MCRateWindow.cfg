SPECIFICATION ServiceSpec
CONSTANTS
    Callers = {p1, p2}
    NoCall = NoCall
    Keys = {k1, k2}
    MaxConcurrent = 1
    MaxQueued = 1
    Clients = {c1, c2}
    MaxReqs = 2
    Window = 2
    CleanupInterval = 1
    MaxVisitors = 1
    LastTime = 6
    Requests = {r1, r2, r3}
    Nobody = Nobody
    UserNames <- NamesTyped
    Passwords <- PasswordsTyped
    LegacyBooks = {b1}
    SessionDuration = 0
    LastHour = 1
    BookIds = {b1, b2}
    MaxBackups = 2
    RetentionDays = 1
    LastDay = 2
    MaxEvents = 7
INVARIANT WindowBounded
CHECK_DEADLOCK FALSE
