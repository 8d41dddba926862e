CONSTANTS
    None = None
    Boards = {b1}
    Connections = {c1, c2, c3}
    Publishers = {p1, p2}
    MaxConnections = 2
    Debounce = 2
    BroadcastBuffer = 2
    VersionBound = 1
    TimeBound = 2
SPECIFICATION Spec
INVARIANTS NoVersionMissed ScoresSpaced SlotsAccounted ConnectionLimit
SYMMETRY Symmetry
