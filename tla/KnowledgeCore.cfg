\* Two requests at a time: savers of all kinds, recalls, deletions.
SPECIFICATION SeedSpec
CONSTANTS
    Request = {r1, r2}
    a = a
    b = b
    t = t
    u = u
    Query = {a, b}
    Example <- MCSeeded
    SEEDS <- MCSeeds
    NoRequest = NoRequest
    LowValue = {}
    Distance <- MCDistance
    DedupDistance = 0
    RecallDistance = 1
    TopK = 1
    MaxId = 3
    MaxHits = 1
    NoId = NoId
    NoExample = NoExample
SYMMETRY Symmetry
INVARIANTS
    TypeOK
    OneRowPerQuery
    SeededIsStored
PROPERTIES
    RowKeepsIdentity
    ImplementsStore
