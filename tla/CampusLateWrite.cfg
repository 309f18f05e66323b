CONSTANTS
    s1 = s1
    s2 = s2
    u1 = u1
    u2 = u2
    Nil = Nil
    Sessions = {s1}
    Slots = {1}
    Workers = {u1}
    LeaseTicks = 1
    LifeTicks = 1
    BackoffTicks = 1
    MaxLag = 1
    MaxFaults = 0
SPECIFICATION Spec
VIEW RelativeView
PROPERTIES
    ExpiredLeaseWritesNothing
