CONSTANTS
    MaxJobs = 3
    MaxHead = 3
SPECIFICATION FairSpec
VIEW ProductionView
CHECK_DEADLOCK FALSE
INVARIANTS
    UnjudgedReleaseStaysOpen
    WritesAreLocked
    ProductionMatchesTheRecord
PROPERTIES
    KeepsTheReleaseContract
    RegressionIsAnswered
    AdmittedReleaseIsFollowedUp
