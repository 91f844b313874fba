\* The tables of the bypass begin smaller than that of the API and grow; four files fill it.
SPECIFICATION Spec
CONSTANTS
    Threads = {t1, t2}
    XPN_MAX_FILE = 3
    MAX_FDS = 2
    MAX_DIRS = 1
    PLUSXPN = 2
    Inherited = {0}
    MaxIds = 4
    MaxSize = 1
    MaxSys = 3
CONSTRAINTS KeepsToTheRules OnePositionedCall SystemBesideOne
SYMMETRY Symmetry
INVARIANTS
    RoutesToOwnFile
    NothingLeftOpen
    PositionedAtOffset
    ApiStartedBeforeUse
CHECK_DEADLOCK FALSE
