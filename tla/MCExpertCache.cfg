SPECIFICATION FairSpec
CONSTANTS
    e1 = e1
    e2 = e2
    e3 = e3
    Experts <- MCThree
    NoExpert = none
    NumLayers = 1
    Fast <- MCFast
    NumSets = 1
    SetOf <- MCOneSet
    StageBufs = 2
    Ranks = 2
    MaxSeqLen = 2
INVARIANTS
    TypeOK
    SlotsFinal
PROPERTIES
    DrainBeforeRefill
    ImplementsMoEBlock
    BlockCompletes
