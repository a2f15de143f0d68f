\* Two workers with a task and a janitor each, and one job: three starts, two
\* faults, and handlers that may outlive the janitors' deadline.  The job costs
\* two credits; its user has one free one, and may get a paid one.
CONSTANTS
    j1 = j1
    u1 = u1
    x1 = x1
    Jobs = {j1}
    Workers = {w1, w2}
    Slots = {t1}
    Concurrency = 1
    HandlersInTime = FALSE
    MaxStarts = 3
    MaxFaults = 2
    Users = {u1}
    Txns = {x1}
    Owner <- MCOwner
    Cost <- MCCost
    Grants = {1}
    Amounts = {1}
    MaxCredits = 1
SPECIFICATION PaidSpec
SYMMETRY Symmetry
\* Without a request, and with its starts used up, the system is at rest.
CHECK_DEADLOCK FALSE
PROPERTIES
    OneWalk
    FollowsTheStates
INVARIANTS
    TypeOK
    PendingIsSomewhere
    RefundedOnce
    ToldTheOutcome
    PriceIsKept
