SPECIFICATION Spec
CONSTANTS
    c1 = c1
    c2 = c2
    Clients = {c1, c2}
    Workers = {w1, w2}
    MaxConns = 2
    Nobody = Nobody
    MaxFiles = 1
    MaxDirs = 1
    MaxCalls = 2
    MaxFailures = 1
    Opened <- MCOpened
    Makes <- MCMakes
    LongPaths = {"RENAME"}
INVARIANTS
    ToldTheTruth
    DamageHasCause
PROPERTIES
    ProxyGoesOn
CHECK_DEADLOCK FALSE
