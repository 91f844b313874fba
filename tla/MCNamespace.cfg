SPECIFICATION Spec
CONSTANTS
    Clients = {c1, c2}
    Modes <- MCModes
    Root = "/"
    Dirs = {"d", "e"}
    Files = {"f", "g"}
    Hash <- MCHash
    MaxIds = 2
    MaxSize = 1
    MaxFailures = 1
    MaxCalls = 3
CONSTRAINTS SomethingPromised SameNames CreatedInD OneFileOnSeven
SYMMETRY Symmetry
INVARIANTS
    FoundAgain
    NothingLeft
    DirEverywhere
    StatFromReplica
CHECK_DEADLOCK FALSE
