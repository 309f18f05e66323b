CONSTANTS
    w1 = w1
    w2 = w2
    p1 = p1
    p2 = p2
    Nil = Nil
    WorkItems = {w1}
    Processes = {p1}
    Chain <- ThreeStages
    RepositoryOf <- OneRepository
    LeaseTicks = 2
    WaitTicks = 1
    MaxChecks = 1
    PassesStall = FALSE
    MaxLag = 1
    MaxFaults = 1
SPECIFICATION Spec
VIEW OneProcessView
PROPERTIES
    TerminalRunIsReconciled
    CancelledFreesPendingLocks
