SPECIFICATION Spec
CONSTANTS
    MaxEvents = 6
    Books <- BookSet
    MaxSlice = 3
    Targets = {4, 7}
    Window = 1
    Keep = 3
    SmallBytes = 4
    MaxBytes = 12
    Envelope = 2
    Volumes <- VolumeSet
    Scripts <- ScriptSet
    Documents <- DocumentSet
    Contents <- ContentsSet
    PagesEach = 3
    Layouts <- LayoutSet
    Texts <- TextSeq
    NonLinear = {2}
    Missing = {4}
    PageSizes = {2, 3}
    Spine = {"one", "two", "three"}
    Items = {"one", "two", "three", "style", "image"}
    Uses <- UsesOf
    Chapters = {"a", "b"}
    Places = {"p", "q"}
    MaxMarks = 4
    Fingers = {"l", "m", "r"}
    Points = {0, 3}
    Tabs = {"a", "b"}
    Presets = {"light", "sepia", "dark"}
    SizeMin = 1
    SizeMax = 3
    SizeDefault = 2
    Known <- KnownItems
    Voices = {"xiaoxiao", "yunxi", "custom"}
    Fallback = {"xiaoxiao"}
    MaxSamples = 2
    Attempts = 3
    Kindles <- KindleSet
    OldBooks <- LeafSet
    Askers = {"page", "speech"}
    MaxPacked = 8
    ChunkCount = 3
    BufferChunks = 1
    MaxRetries = 1
    CacheSize = 1
    MaxPreload = 1
    MaxConcurrency = 1
INVARIANTS
    SpokenTextSafe
    BookSafe
    BookmarksSafe
    PreviewSafe
    PlayerSafe
    PoolBalanced
PROPERTIES
    PagesSafe
    ThemesSafe
    ControlsSafe
    ReadsInOrder
CHECK_DEADLOCK FALSE
