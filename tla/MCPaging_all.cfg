SPECIFICATION ListSpec
CONSTANTS
    w1 = w1
    w2 = w2
    Nothing = Nothing
    Ids <- MCIds
    Writers <- MCWriters
    Params <- MCParams
    MaxTime = 1
    DefaultLimit = 1
    MaxLimit = 2
INVARIANTS
    NothingSkipped
    PagesInOrder
PROPERTIES
    ListingEnds
