\* One request of a partner with either of two keys, one panel request and one
\* session, all of them again and again; a window of one request.
CONSTANTS
    c1 = c1
    k1 = k1
    k2 = k2
    p1 = p1
    s1 = s1
    home = home
    Callers <- MCCallers
    Limit = 1
    Span = 2
    MaxClock = 4
    ApiKeyIds <- MCKeys
    IntegrationId = home
    Tabs <- MCTabs
    SessionIds <- MCSessions
    Operations <- MCOperations
    Roles <- MCRoles
    Permitted <- MCPermitted
    Blind <- MCBlind
    MaxLost = 1
SPECIFICATION Spec
\* The clock ends.
CHECK_DEADLOCK FALSE
INVARIANTS
    TypeOK
    RefusedStayOut
    SiblingsStayValid
    LoggedOutIsOut
    ChangesAreLogged
