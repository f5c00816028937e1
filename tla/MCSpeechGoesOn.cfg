SPECIFICATION FairSpeech
CONSTANTS
    ChunkCount = 3
    BufferChunks = 1
    MaxRetries = 1
    MaxEvents = 2
    CacheSize = 1
    MaxPreload = 1
    MaxConcurrency = 1
PROPERTY EndGoesOn
CHECK_DEADLOCK FALSE
