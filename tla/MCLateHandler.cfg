\* One worker whose handler may take longer than timeout_seconds + 60 s.
CONSTANTS
    Jobs = {j1}
    Workers = {w1}
    Slots = {t1}
    Concurrency = 1
    HandlersInTime = FALSE
    MaxStarts = 1
    MaxFaults = 0
SPECIFICATION Spec
CHECK_DEADLOCK FALSE
INVARIANT SucceededIsPaid
