SPECIFICATION Spec
CONSTANTS
    Configs <- MCCold
    NumLayers = 2
    MaxPos = 3
    MaxSeqLen = 2
INVARIANTS
    GraphBuffersLive
