\* A browser tab and other clients share one session of a proxy with a whitelist.
SPECIFICATION PageSpec
CONSTANTS
    Session = {s1}
    m1 = m1
    m2 = m2
    m3 = m3
    m4 = m4
    good = good
    bad = bad
    patched = patched
    worse = worse
    orders = orders
    staging = staging
    Shape = {m1, m2, m3}
    Literal = {1}
    Version = {good, bad}
    Drafts = {good, bad}
    Repairs = {good, bad}
    Noops = {}
    Table = {orders, staging}
    Whitelist = {orders}
    Parsable = {m1, m2, m3}
    MaxAttempts = 2
    MySQLConfigured = TRUE
    NoSQL = NoSQL
    NoExample = NoExample
    CacheSize = 1
    ChanCap = 2
    TablesOf <- MCTablesOf
    Accepted <- MCAccepted
    Tab = {w1}
    MAX_ROWS = 1
    RowCounts = {3}
    PageRequest <- MCRequests
    NoSession = NoSession
    LongSQL <- MCNoLongSQL
INVARIANTS
    CacheWellFormed
    PageTypeOK
    RowsAreOfThisQuery
PROPERTIES
    ReplyCached
    ProvenNotOverwritten
    EveryQueryAnswered
    ImplementsService
    PageAnswers
    ExamplesGetTheirTurn
