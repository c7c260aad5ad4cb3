SPECIFICATION FairSpec
CONSTANTS
    Modes = {"simple", "threadedSync", "threadedAsync", "spawned"}
    Cancelled = {"simple", "threadedSync", "threadedAsync"}
    MaxInput = 2
    MaxOutput = 2
INVARIANTS TypeOK NothingLeftOver
PROPERTIES PromiseKept SuccessIsReal
CHECK_DEADLOCK FALSE
