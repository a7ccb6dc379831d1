SPECIFICATION FairSpec
CONSTANTS
    Configs <- MCConfigs
    Costs = {1, 3}
    Delays = {0, 5, 90}
    Quantum = 4
    TargetFloor = 4
    MaxIters = 6
    U32 = 8
    MaxCapacity = 9
INVARIANTS
    EnoughSamples
    BatchLongEnough
    MiddleKept
    StatisticsAgree
PROPERTIES
    Finishes
