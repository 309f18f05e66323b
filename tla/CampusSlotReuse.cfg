CONSTANTS
    s1 = s1
    s2 = s2
    u1 = u1
    u2 = u2
    Nil = Nil
    Sessions = {s1, s2}
    Slots = {1}
    Workers = {u1, u2}
    LeaseTicks = 1
    LifeTicks = 1
    BackoffTicks = 1
    MaxLag = 1
    MaxFaults = 1
SPECIFICATION Spec
VIEW RelativeView
SYMMETRY Symmetric
INVARIANTS
    ResourcesHoldASlot
    OneWorkloadPerSlot
PROPERTIES
    ImplementsLabSlots
    StoppedNeverLaunches
    LeasesAreRespected
    SupersededWritesNothing
