CONSTANTS
    NoValue = NoValue
    Values <- MCValues
    Shrinkers <- MCShrinkers
    DebugLen <- MCDebugLen
    Verdicts <- MCVerdicts
    Labels = {}
    Configs <- MCConfigs
    Regressions <- MCRegressions
    Draw <- MCDraw
    MaxSeeds = 2
SPECIFICATION RunSpec
INVARIANT RerunReproduces
