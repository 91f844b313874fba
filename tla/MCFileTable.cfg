\* Three entries, three opens and two duplicates: the table fills up.
SPECIFICATION Spec
CONSTANTS
    XPN_MAX_FILE = 3
    Servers = {s1, s2}
    XPN_SESSION_FILE = TRUE
    XPN_SESSION_DIR = TRUE
    MaxOpens = 3
    MaxDups = 2
    MaxMarks = 1
SYMMETRY Symmetry
INVARIANTS
    DescriptorsOwnTheirFiles
    NoUseAfterFree
CHECK_DEADLOCK FALSE
