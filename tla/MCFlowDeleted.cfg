SPECIFICATION FairSpec
CONSTANTS
    Users = {u1}
    NoUser = NoUser
    Books = {1}
    NoBook = NoBook
    Infos <- MCInfos
    Hashes = {h1}
    NoHash = NoHash
    Categories = {}
    NoCategory = NoCategory
    RawCategories = {NoCategory}
    Trim <- MCTrim
    Times = {}
    NoTime = 0
    Marks = {}
    Requests = {r1}
    Workers = {w1}
    QueueSize = 1
    Workloads <- MCEpubLoad
    
PROPERTY DeletedStaysDeleted
CHECK_DEADLOCK FALSE
