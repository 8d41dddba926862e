CONSTANTS
    None = None
    NotFinite = NotFinite
    s1 = s1
    s2 = s2
    t1 = t1
    t2 = t2
    Syncers = {p1, p2}
    EntryIds = {1, 2}
    Slugs = {s1, s2}
    Tiers = {t1, t2}
    TierConfigs <- AllTierConfigs
    Files <- AllFiles
    VersionBound = 2
SPECIFICATION Spec
INVARIANTS ContentIsSynced RankingIsSynced
PROPERTIES NoRepeatedVersion
SYMMETRY Symmetry
