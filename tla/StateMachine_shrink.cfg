CONSTANTS
    a = a
    b = b
    c = c
    Err = Err
    States <- MCStates
    Operations <- MCOperations
    Machines <- MCMachines
    Configs <- MCConfigs
    Regressions <- MCRegressions
SPECIFICATION Spec
INVARIANTS
    ReportedFails
    OneMinimal
    EffortBounded
