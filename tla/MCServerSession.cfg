SPECIFICATION SessionSpec
CONSTANTS
  PathMax = 2
  MaxBuffer = 2
  MaxSize = 3
  MaxRequests = 2
  Keeps = {0, 1}
  Deaths = {"client", "server"}
INVARIANTS
    InStep
    CallsDoWhatTheySay
PROPERTIES
    SessionGoesOn
