SPECIFICATION Spec
CONSTANTS
    Sessions = {s1, s2, s3}
    Slots = {x, y}
    Nil = Nil
    Grace = 2
    MaxFaults = 3
    MaxConfigs = 2
INVARIANTS
    SparesTheLiving
PROPERTIES
    NothingIsPlacedNextToAnOrphan
    LeftoversGo
    QuarantineIsLifted
CHECK_DEADLOCK FALSE
