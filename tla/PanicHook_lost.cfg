CONSTANTS
    t1 = t1
    n1 = n1
    m1 = m1
    NoRun = NoRun
    Runs = {t1, t2}
    Outer <- MCOuter
SPECIFICATION Spec
INVARIANT RestoredAtRest
