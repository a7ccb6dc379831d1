CONSTANTS
    s1 = s1
    s2 = s2
    s3 = s3
    s4 = s4
    Torn = Torn
    MaxSeeds = 2
    Runs = {r1, r2}
    Seeds <- FourSeeds
    InitialFiles <- MCFiles
    Interrupts = TRUE
SPECIFICATION FileSpec
INVARIANTS
    CapHeld
PROPERTY ImplementsLog
