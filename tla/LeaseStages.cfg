SPECIFICATION FairSpec
CONSTANTS
    Hosts = {h1, h2}
    Workspaces = {w1}
    LastStage = 2
    Prepared = {}
    Nil = Nil
    MaxFaults = 1
    MaxActions = 2
VIEW LeaseView
INVARIANTS
    StagesDoNotOverlap
    RetiredOwnsNothing
PROPERTIES
    ImplementsHostSlots
    TerminalRunIsFinal
    PausedIsNeverResumed
    LostLeasePausesItsRun
CHECK_DEADLOCK FALSE
