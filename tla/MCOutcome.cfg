\* One job, two tasks, one janitor, replicate and mock, two uploads of one name
\* by one integration or by two; one fault, one edit, and of pops and runs of the
\* seed script two together.
CONSTANTS
    j1 = j1
    t1 = t1
    t2 = t2
    w1 = w1
    u1 = u1
    u2 = u2
    home = home
    away = away
    photo = photo
    Uploads <- MCUploads
    Name <- MCName
    Senders <- MCSenders
    NoFile = NoFile
    Jobs = {j1}
    Home <- MCHome
    Tasks = {t1, t2}
    Janitors = {w1}
    Providers = {replicate, mock}
    Replicate = replicate
    Mock = mock
    Priorities = {0, 1}
    Budgets <- MCBudgets
    Webhooks = {FALSE}
SYMMETRY MCSymmetry
SPECIFICATION Spec
\* Every job has ended.
CHECK_DEADLOCK FALSE
INVARIANTS
    TypeOK
    RowsHaveObjects
    FailuresAreComplete
    SuccessHasOutput
    SeedConverges
