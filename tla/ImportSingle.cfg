\* One request at a time: imports come to an end, the filters of save_example.
SPECIFICATION FairImportSpec
CONSTANTS
    Request = {r1}
    a = a
    b = b
    t = t
    u = u
    Query = {a, b}
    SQLStatement = {t}
    Fence = Fence
    Remark = Remark
    Untranslatable = Untranslatable
    Semicolon = Semicolon
    ModelText <- MCExpected
    Mode = {"strict", "lenient"}
    Batch <- Pair
    Example <- MCManyExamples
    LowValue <- MCLowValue
    Distance <- MCDistance
    DedupDistance = 1
    RecallDistance = 0
    TopK = 1
    MaxId = 2
    MaxHits = 0
    Value <- MCValue
    Text <- MCText
    Equal <- MCEqual
    Result <- MCResult
    NoId = NoId
    NoExample = NoExample
    NoRequest = NoRequest
    Nothing = Nothing
INVARIANTS
    LoopInStep
    BareStatementRuns
PROPERTIES
    NearDuplicateOnlyCounted
    ImportEnds
