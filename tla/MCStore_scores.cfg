CONSTANTS
    None = None
    NotFinite = NotFinite
    Absent = Absent
    s1 = s1
    s2 = s2
    t1 = t1
    t2 = t2
    b1 = b1
    b2 = b2
    Handlers = {p1, p2}
    BoardIds = {b1}
    EntryIds = {1, 2}
    Slugs = {s1}
    Tiers <- MCTiers
    TierConfigs <- MCTierConfigs
    Configs <- AccumConfigs
    Patches <- NoPatches
    Lists <- NoLists
    Scores = {1}
    Limits = {TRUE, FALSE}
    MaxVersions = 1
    MaxEntries = 2
    PollLimit = 1
    VersionBound = 2
    RevBound = 2
SPECIFICATION FairSpec
INVARIANTS SnapshotsAdvance
PROPERTIES EveryRequestFinishes
