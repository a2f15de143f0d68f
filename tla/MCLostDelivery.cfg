\* A worker crashes with a job it has popped; another worker stays up.
CONSTANTS
    Jobs = {j1}
    Workers = {w1, w2}
    Slots = {t1}
    Concurrency = 1
    HandlersInTime = TRUE
    MaxStarts = 2
    MaxFaults = 1
SPECIFICATION FairSpec
CHECK_DEADLOCK FALSE
PROPERTY CrashedDeliveryIsRepeated
