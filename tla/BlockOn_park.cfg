CONSTANTS
    timer = timer
    channel = channel
    yield = yield
    Executor = Executor
    Nobody = Nobody
    Sources <- MCSources
    Inline = {yield}
    Work <- MCWork
    Enough = 2
SPECIFICATION FairSpec
INVARIANTS
    NoSleepOnToken
    ReadyIsNoticed
PROPERTIES
    ReadyReturns
    ImplementsToken
