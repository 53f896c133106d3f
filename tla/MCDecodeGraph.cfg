SPECIFICATION Spec
CONSTANTS
    Configs <- MCConfigs
    NumLayers = 2
    MaxPos = 5
    MaxSeqLen = 3
INVARIANTS
    TypeOK
    LogitsOfContext
    CacheMatchesPosition
    GraphBuffersLive
    ReplayEqualsEager
PROPERTIES
    ContextKept
