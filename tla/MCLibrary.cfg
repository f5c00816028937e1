SPECIFICATION Spec
CONSTANTS
    Users = {u1, u2}
    NoUser = NoUser
    Books = {1, 2}
    NoBook = NoBook
    Infos = {"dune"}
    Hashes = {h1}
    NoHash = NoHash
    Categories = {"fiction"}
    NoCategory = "none"
    RawCategories = {"fiction", "none", "padded"}
    Trim <- MCTrim
    Times = {1, 2}
    NoTime = 0
    Marks = {m1}
    Grams = {"w1", "w2"}
    InfoGrams <- MCInfoGrams
    CategoryGrams <- MCCategoryGrams
INVARIANTS
    IndexesExact
    DuplicateLookupExact
    NoOrphans
    SyncExact
PROPERTY StoreSpec
SYMMETRY UserSymmetry
