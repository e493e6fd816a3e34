\* What a forced save stores against what the user has looked at.
SPECIFICATION ImportSpec
CONSTANTS
    Request = {r1}
    a = a
    b = b
    t = t
    u = u
    Query = {a}
    SQLStatement = {t, u}
    Fence = Fence
    Remark = Remark
    Untranslatable = Untranslatable
    Semicolon = Semicolon
    ModelText <- MCPlain
    Mode = {"strict", "lenient"}
    Batch <- OneByOne
    Example <- MCExample
    LowValue = {}
    Distance <- MCDistance
    DedupDistance = 0
    RecallDistance = 0
    TopK = 0
    MaxId = 2
    MaxHits = 0
    Value <- MCValue
    Text <- MCText
    Equal <- MCEqual
    Result <- MCResult
    NoId = NoId
    NoExample = NoExample
    NoRequest = NoRequest
    Nothing = Nothing
PROPERTIES
    ForcedSaveStoresReviewed
