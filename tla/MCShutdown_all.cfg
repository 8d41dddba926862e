CONSTANTS
    Clients = {c1, c2, c3}
    Streams = {c3}
    Jobs = {j1, j2, j3}
SPECIFICATION ServeSpec
INVARIANTS NothingLeftBehind
PROPERTIES ShutdownEnds
CHECK_DEADLOCK FALSE
