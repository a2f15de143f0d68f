\* Handlers may hang or outlive the janitor's deadline.  No symmetry: liveness.
CONSTANTS
    Jobs = {j1}
    Workers = {w1}
    Slots = {t1, t2}
    Concurrency = 1
    HandlersInTime = FALSE
    MaxStarts = 3
    MaxFaults = 2
SPECIFICATION FairSpec
CHECK_DEADLOCK FALSE
PROPERTIES
    RunningEnds
    PendingIsTaken
    RecoveryTakesUp
