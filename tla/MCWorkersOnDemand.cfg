\* One launcher: the client, whose calls hold the API lock, and worker1 of the server.
SPECIFICATION FairSpec
CONSTANTS
    Launchers = {l1}
    MaxLaunches = 3
    MaxFailures = 1
INVARIANTS
    LaunchHandsOver
PROPERTIES
    OnDemandGoesOn
CHECK_DEADLOCK FALSE
