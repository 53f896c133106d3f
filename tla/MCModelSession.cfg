SPECIFICATION Spec
CONSTANTS
    NumLayers = 2
    Configs <- MCConfigs
    MaxPrompt = 2
    MaxTokens = 2
    MaxFed = 4
    Prompts = 2
INVARIANTS
    TypeOK
    LogitsMatchContext
    PositionsAgree
    AdapterNotReentered
    FirstTokenFromLogits
