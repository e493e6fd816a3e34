\* Two requests at a time against the filters of save_example.
SPECIFICATION Spec
CONSTANTS
    Request = {r1, r2}
    a = a
    b = b
    t = t
    u = u
    Query = {a, b}
    Example <- MCExample
    LowValue = {}
    Distance <- MCDistance
    DedupDistance = 1
    RecallDistance = 1
    TopK = 1
    MaxId = 3
    MaxHits = 1
    NoId = NoId
    NoExample = NoExample
PROPERTIES
    NearDuplicateOnlyCounted
