\* One delivery, its task and two retry loops, the three backoffs of RETRY_BACKOFFS, two faults.
\* No symmetry: liveness.
CONSTANTS
    Deliveries = {d1}
    Senders = {t1}
    Loops = {l1, l2}
    Backoffs = 3
    MaxFaults = 2
SPECIFICATION FairSpec
\* Everything is delivered or given up.
CHECK_DEADLOCK FALSE
INVARIANTS
    TypeOK
    GivenUpAfterBudget
    DeliveredWasHeard
    PendingIsScheduled
PROPERTIES
    DeliveriesEnd
