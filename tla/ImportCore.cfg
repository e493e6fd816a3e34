\* Imports, forced saves, and the proxy's own saves.
SPECIFICATION ImportSpec
CONSTANTS
    Request = {r1, r2}
    a = a
    b = b
    t = t
    u = u
    Query = {a}
    SQLStatement = {t}
    Fence = Fence
    Remark = Remark
    Untranslatable = Untranslatable
    Semicolon = Semicolon
    ModelText <- MCAnswers
    Mode = {"strict", "lenient"}
    Batch <- OneByOne
    Example <- MCExample
    LowValue = {}
    Distance <- MCDistance
    DedupDistance = 0
    RecallDistance = 0
    TopK = 0
    MaxId = 2
    MaxHits = 0
    Value <- MCValue
    Text <- MCText
    Equal <- MCEqual
    Result <- MCResult
    NoId = NoId
    NoExample = NoExample
    NoRequest = NoRequest
    Nothing = Nothing
SYMMETRY Symmetry
INVARIANTS
    ImportTypeOK
    LoopInStep
PROPERTIES
    ImportedVerified
    MismatchIsReal
