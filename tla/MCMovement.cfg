SPECIFICATION Spec
CONSTANTS
    MaxReconstructions = 6
    Hosts = {0, 1, 2, 3, 4}
    BlockSize = 2
    Files <- MCFiles
    ExpandLists <- MCExpandLists
    ShrinkLists <- MCShrinkLists
    RebuildLists <- MCRebuildLists
    MaxSize = 10
    MaxChanges = 2
CONSTRAINT Handled
INVARIANTS
    BytesWhereComputed
    MasterHasMetadata
    NobodyLeftWaiting
    NoByteLost
    CopyIsTheFile
