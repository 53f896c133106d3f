SPECIFICATION FairSpec
CONSTANTS
    NumThreads = 3
    IndexModulus = 13
    MaxTasks = 2
    Calls <- MCMixedCalls
INVARIANTS
    TypeOK
    CompletionCount
    NoLostWakeup
    NestedCallsRunInline
    PhaseSeparation
    ReturnsComplete
PROPERTIES
    CallReturns
    ShutdownCompletes
    NoTaskDataRace
    ImplementsForkJoin
