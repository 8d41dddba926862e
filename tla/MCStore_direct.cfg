CONSTANTS
    None = None
    NotFinite = NotFinite
    Absent = Absent
    s1 = s1
    s2 = s2
    t1 = t1
    t2 = t2
    b1 = b1
    b2 = b2
    Handlers = {p1, p2}
    BoardIds <- MCBoardIds
    EntryIds = {1, 2}
    Slugs <- MCSlugs
    Tiers <- MCTiers
    TierConfigs <- MCTierConfigs
    Configs <- DirectConfigs
    Patches <- DirectPatches
    Lists <- DirectLists
    Scores <- NoScores
    Limits = {TRUE, FALSE}
    MaxVersions = 1
    MaxEntries = 2
    PollLimit = 1
    VersionBound = 2
    RevBound = 1
SPECIFICATION Spec
INVARIANTS NumbersContiguous VersionLimitHolds PlacementsKeepTheirEntries
PROPERTIES RankedUnderCurrentConfig PatchesDoNotOverwrite ImplementsVersionLog
SYMMETRY Symmetry
