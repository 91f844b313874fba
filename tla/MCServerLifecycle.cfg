CONSTANTS
  c1 = c1
  c2 = c2
  Clients = {c1, c2}
  Root = c1
  NServers = 2
  Replication = 1
  MaxOps = 1
  Modes <- MCModes
SPECIFICATION Spec
INVARIANTS
    AwaitedStop
    NoClientLeftBehind
PROPERTIES
    ClientsGetThrough
    StopEnds
CHECK_DEADLOCK FALSE
