CONSTANTS
    t1 = t1
    n1 = n1
    m1 = m1
    NoRun = NoRun
    Runs = {t1, t2, t3, t4, t5, n1, m1}
    Outer <- MCOuter
SPECIFICATION Spec
INVARIANTS
    TypeOK
    OneInstaller
    SettledSilence
    LeftAtRest
PROPERTY ImplementsPromise
