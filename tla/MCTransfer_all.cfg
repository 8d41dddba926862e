CONSTANTS
    None = None
    NotFinite = NotFinite
    s1 = s1
    s2 = s2
    s3 = s3
    t1 = t1
    t2 = t2
    Slugs <- MCSlugs
    Tiers <- MCTiers
    TierConfigs <- AllTierConfigs
    Configs <- AllConfigs
    Patches <- AllPatches
    Lists <- AllLists
    VersionBound = 2
SPECIFICATION Spec
INVARIANTS DiffApplies PositionsAreRanks SyncAgreesWithDiff ImportKeepsVersions ExportIsWhole
