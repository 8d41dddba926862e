CONSTANTS
    None = None
    Handlers = {p1, p2, p3}
    BoardIds = {b1, b2}
    Slugs = {s1}
    Settings <- AllSettings
    MaxVersions = 2
    MaxEntries = 1
    RevBound = 2
SPECIFICATION Spec
INVARIANTS NoSilentLoss SnapshotsDoNotGoBack SnapshottedOnce
SYMMETRY Symmetry
