SPECIFICATION FairSpec
CONSTANTS
    Launchers = {l1, l2}
    Workers = {w1, w2}
    Destroyer = d
    MAX_OPERATIONS = 3
    MaxLaunches = 2
    NoOp = NoOp
INVARIANTS
    WorkersNotStranded
    LaunchersNotStranded
PROPERTIES
    WaitersServed
    ImplementsTaskQueue
    PoolGoesOn
CHECK_DEADLOCK FALSE
