\* With and without threads.
SPECIFICATION FairSpec
CONSTANTS
    NServ = 3
    ReplicationLevel = 1
    ThreadModes = {TRUE, FALSE}
    MaxCalls = 2
    MaxUpdates = 1
    MaxMarks = 1
    MaxFailures = 1
INVARIANTS
    CallGetsItsResults
PROPERTIES
    CallReturns
CHECK_DEADLOCK FALSE
