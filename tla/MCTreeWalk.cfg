SPECIFICATION WalkSpec
CONSTANTS
    Jobs <- MCJobs
    HashOf <- MCHash
    LineNames <- MCLineNames
    MaxRanks = 3
    MaxFailures = 1
INVARIANTS
    WalksMeet
    TreeCopied
    RolesSplit
PROPERTIES
    WalkEnds
CHECK_DEADLOCK FALSE
