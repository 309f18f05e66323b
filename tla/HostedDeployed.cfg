CONSTANTS
    w1 = w1
    w2 = w2
    p1 = p1
    p2 = p2
    Nil = Nil
    WorkItems = {w1, w2}
    Processes = {p1}
    Chain <- ContinueChain
    RepositoryOf <- OneRepository
    LeaseTicks = 2
    WaitTicks = 1
    MaxChecks = 1
    PassesStall = FALSE
    MaxLag = 0
    MaxFaults = 0
SPECIFICATION Spec
VIEW OneProcessView
INVARIANTS
    OneCodingRun
PROPERTIES
    NothingStartsWhileStopped
    EveryItemIsServed
