SPECIFICATION CatalogSpec
CONSTANTS
    b1 = b1
    b2 = b2
    c1 = c1
    c2 = c2
    i1 = i1
    x = x
    y = y
    s = s
    v1 = v1
    v2 = v2
    r1 = r1
    r2 = r2
    None = None
    Absent = Absent
    Gone = Gone
    BoardIds <- MCBoardIds
    CollIds <- MCCollIds
    RefIds <- MCRefIds
    BoardSlugs <- MCBoardSlugs
    CollSlugs <- MCCollSlugs
    Values <- MCValues
    Requests <- MCRequests
    MaxVersions = 1
SYMMETRY MCSymmetry
INVARIANTS
    PinsOwnVersion
    MembershipsAreLive
PROPERTIES
    CollectionPatchesKept
