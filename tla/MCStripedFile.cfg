\* Replicated and shared files, with and without threads.
SPECIFICATION Spec
CONSTANTS
    Instances <- Files
    MaxWrites = 2
    MaxFailures = 1
CONSTRAINT Undisturbed
INVARIANTS
    ServersStoreTheFile
    ReadReturnsContent
CHECK_DEADLOCK FALSE
