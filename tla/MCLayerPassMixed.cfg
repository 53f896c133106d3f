SPECIFICATION Spec
CONSTANTS
  Configs <- MixedConfigs
  NumLayers = 2
  MaxPos = 3
  MaxBatch = 2
INVARIANT LayerComputed
