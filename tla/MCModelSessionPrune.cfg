SPECIFICATION Spec
CONSTANTS
    NumLayers = 2
    Configs <- MCCpuOnly
    MaxPrompt = 2
    MaxTokens = 2
    MaxFed = 5
    Prompts = 2
INVARIANTS
    PruneRequestConsumed
