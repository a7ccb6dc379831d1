CONSTANTS
    Bits = 1
    CorpusCap = 3
    KeepEvery = 1
    Messages = {"a", "b"}
    MaxRuns = 2
    MaxLen = 3
    Targets <- MCTargets
    Configs <- MCConfigs
SPECIFICATION Spec
INVARIANTS
    CrashKept
    ReportAccounts
    InputsBounded
    DescribedCrashReplays
PROPERTIES
    RemovalMinimal
    CorpusGrowsBySurvivors
