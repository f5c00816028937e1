SPECIFICATION FairSpec
CONSTANTS
    Users = {u1}
    NoUser = NoUser
    Books = {1, 2, 3}
    NoBook = NoBook
    Infos <- MCInfos
    Hashes = {h1, h2}
    NoHash = NoHash
    Categories = {c1}
    NoCategory = NoCategory
    RawCategories = {c1, NoCategory}
    Trim <- MCTrim
    Times = {1}
    NoTime = 0
    Marks = {}
    Requests = {r1, r2}
    Workers = {w1}
    QueueSize = 1
    Workloads <- MCWorkloads
INVARIANTS
    FilesMatchRecords
    UploadsUnique
PROPERTIES
    BackfillKeepsEdits
    RequestsAnswered
    BackgroundWorkEnds
CHECK_DEADLOCK FALSE
