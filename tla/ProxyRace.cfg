\* Two sessions parse at the same time.
SPECIFICATION Spec
CONSTANTS
    Session = {s1, s2}
    m1 = m1
    m2 = m2
    m3 = m3
    m4 = m4
    good = good
    bad = bad
    patched = patched
    worse = worse
    orders = orders
    staging = staging
    Shape = {m1, m2}
    Literal = {1}
    Version = {good}
    Drafts = {good}
    Repairs = {good}
    Noops = {}
    Table = {orders, staging}
    Whitelist = {orders}
    Parsable = {m1, m2}
    MaxAttempts = 2
    MySQLConfigured = TRUE
    NoSQL = NoSQL
    NoExample = NoExample
    CacheSize = 1
    ChanCap = 1
    TablesOf <- MCTablesOf
    Accepted <- MCAccepted
    LongSQL <- MCNoLongSQL
INVARIANTS
    RoutedByWhitelist
