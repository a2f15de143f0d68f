\* Two sessions, two jobs of one user, one top-up id; at most MaxClock transactions,
\* and the reconciliation script at any time.
CONSTANTS
    u1 = u1
    j1 = j1
    j2 = j2
    x1 = x1
    s1 = s1
    s2 = s2
    Users <- MCUsers
    Jobs <- MCJobs
    Txns <- MCTxns
    Sessions <- MCSessions
    Owner <- MCOwner
    Cost <- MCCost
    Grants <- MCGrants
    Amounts <- MCAmounts
    MaxClock = 4
SPECIFICATION ReconcileSpec
SYMMETRY Symmetry
PROPERTIES
    ChargedInOrderAlone
    OperationsAreAtomic
\* Every request has been served once the transactions are used up.
CHECK_DEADLOCK FALSE
INVARIANTS
    ReconcileTypeOK
    NonNegative
    OthersStayExplained
    RewritesFollowOverlaps
    ChargedInFull
    FailedAreRefunded
    TopupCountsOnce
