SPECIFICATION Spec
CONSTANTS
    k1 = k1
    k2 = k2
    r1 = r1
    None = None
    Keys <- MCKeys
    Requests <- MCRequests
    Configs <- MCConfigs
    Period = 1
    MaxStale = 2
    WsTimeout = 1
    MaxFlight = 1
    MaxRotations = 2
    MaxOwed = 1
INVARIANTS
    RevokedIsRefused
    FailsClosed
    WritesHaveAuthority
PROPERTIES
    CacheRecovers
    ConnectionsEnd
