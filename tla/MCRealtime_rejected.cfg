CONSTANTS
    None = None
    Handlers = {p1, p2}
    BoardIds = {b1}
    Slugs = {s1, s2}
    Settings <- OnlyClearing
    MaxVersions = 1
    MaxEntries = 2
    RevBound = 2
SPECIFICATION SteadySpec
INVARIANTS NoScoreLost
