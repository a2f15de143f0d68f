\* Two workers, whose janitors may both find the job that a crash left running.
CONSTANTS
    Jobs = {j1}
    Workers = {w1, w2}
    Slots = {t1}
    Concurrency = 1
    HandlersInTime = TRUE
    MaxStarts = 3
    MaxFaults = 1
SPECIFICATION Spec
SYMMETRY Symmetry
CHECK_DEADLOCK FALSE
INVARIANT RefundMatchesOutcome
