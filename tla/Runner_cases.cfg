CONSTANTS
    NoValue = NoValue
    Values <- MCValues
    Shrinkers <- MCShrinkers
    DebugLen <- MCLen
    Verdicts <- MCVerdicts
    Labels = {a}
    Configs <- MCConfigs
    Regressions <- MCRegressions
SPECIFICATION MCSpec
INVARIANTS
    VerdictJustified
    ClassesCountCases
    CounterexampleFails
    LocallyMinimal
    BudgetHeld
PROPERTIES
    SizeGrows
    ShortestAdopted
    Termination
