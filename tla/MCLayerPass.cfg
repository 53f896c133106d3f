SPECIFICATION Spec
CONSTANTS
  Configs <- MCConfigs
  NumLayers = 2
  MaxPos = 3
  MaxBatch = 2
INVARIANTS TypeOK LayerComputed CacheHoldsKeys StateAdvancedOnce LogitsOfLastToken
