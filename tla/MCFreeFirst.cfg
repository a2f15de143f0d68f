\* A refund or a grant commits between a reservation's read and its UPDATE.
CONSTANTS
    u1 = u1
    j1 = j1
    j2 = j2
    x1 = x1
    s1 = s1
    s2 = s2
    Users <- MCUsers
    Jobs <- MCJobs
    Txns <- MCTxns
    Sessions <- MCSessions
    Owner <- MCOwner
    Cost <- MCCost
    Grants <- MCGrants
    Amounts <- MCAmounts
    MaxClock = 5
SPECIFICATION Spec
CHECK_DEADLOCK FALSE
PROPERTY FreeSpentFirst
