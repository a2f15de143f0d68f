\* Two requests at a time, one key, up to three jobs in pages of one.
CONSTANTS
    c1 = c1
    c2 = c2
    k1 = k1
    Callers <- MCCallers
    Keys <- MCKeys
    JobIds <- MCJobIds
    NoKey = NoKey
    NoJob = NoJob
    Limit = 1
    Span = 4
    MaxClock = 6
    PageSize = 1
SPECIFICATION Spec
SYMMETRY Symmetry
\* The clock ends.
CHECK_DEADLOCK FALSE
INVARIANTS
    TypeOK
    RateBound
    AnsweredRetryIsRecognised
    RedisNamesCommitted
    PagesComplete
PROPERTIES
    OncePerKey
