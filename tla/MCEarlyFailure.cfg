\* One job, one task, one upload, a URL for webhooks that is set and stays so, no
\* janitor, no fault, no edit: the failures before the handler is called remain.
CONSTANTS
    j1 = j1
    t1 = t1
    t2 = t2
    w1 = w1
    u1 = u1
    u2 = u2
    home = home
    away = away
    photo = photo
    Uploads <- MCUploads
    Name <- MCName
    Senders <- MCSenders
    NoFile = NoFile
    Jobs = {j1}
    Home <- MCHome
    Tasks = {t1}
    Janitors = {}
    Providers = {replicate, mock}
    Replicate = replicate
    Mock = mock
    Priorities = {0, 1}
    Budgets <- MCQuiet
    Webhooks = {TRUE}
SPECIFICATION Spec
\* Every job has ended.
CHECK_DEADLOCK FALSE
INVARIANT
    FailuresAreTold
