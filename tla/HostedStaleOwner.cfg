CONSTANTS
    w1 = w1
    w2 = w2
    p1 = p1
    p2 = p2
    Nil = Nil
    WorkItems = {w1}
    Processes = {p1, p2}
    Chain <- PlannerChain
    RepositoryOf <- OneRepository
    LeaseTicks = 1
    WaitTicks = 1
    MaxChecks = 1
    PassesStall = TRUE
    MaxLag = 0
    MaxFaults = 0
SPECIFICATION Spec
VIEW RelativeView
SYMMETRY Symmetric
INVARIANTS
    AtMostOneRun
    LiveRunsHoldTheirLocks
PROPERTIES
    ImplementsOperationLocks
    CancellationIsFinal
