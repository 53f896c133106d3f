CONSTANTS
    Configs <- MCConfigs
    Scores <- MCScores
    MaxSeqLen = 5
    MaxBatch = 2
    MaxSessions = 2
    Tile = 2
    WideFrom = 5
SPECIFICATION Spec
INVARIANTS
    TypeOK
    CacheHoldsSession
    ChunksShareContext
    AttendsToContext
