\* Two sessions miss the same key.
SPECIFICATION Spec
CONSTANTS
    Session = {s1, s2}
    m1 = m1
    m2 = m2
    m3 = m3
    m4 = m4
    good = good
    bad = bad
    patched = patched
    worse = worse
    orders = orders
    staging = staging
    Shape = {m1}
    Literal = {1}
    Version = {good, bad, patched}
    Drafts = {good, bad}
    Repairs = {bad, patched}
    Noops = {}
    Table = {orders, staging}
    Whitelist = {}
    Parsable = {m1}
    MaxAttempts = 2
    MySQLConfigured = TRUE
    NoSQL = NoSQL
    NoExample = NoExample
    CacheSize = 2
    ChanCap = 1
    TablesOf <- MCTablesOf
    Accepted <- MCAccepted
    LongSQL <- MCNoLongSQL
INVARIANTS
    SuccessIsCached
