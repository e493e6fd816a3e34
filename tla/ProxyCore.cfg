\* Two sessions, a whitelist: the cache, the retry loop and the channel.
SPECIFICATION Spec
CONSTANTS
    Session = {s1, s2}
    m1 = m1
    m2 = m2
    m3 = m3
    m4 = m4
    good = good
    bad = bad
    patched = patched
    worse = worse
    orders = orders
    staging = staging
    Shape = {m1, m2, m4}
    Literal = {1}
    Version = {good, bad, patched, worse}
    Drafts = {good, bad}
    Repairs = {worse, patched}
    Noops = {m4}
    Table = {orders, staging}
    Whitelist = {orders}
    Parsable = {m1, m2, m4}
    MaxAttempts = 2
    MySQLConfigured = TRUE
    NoSQL = NoSQL
    NoExample = NoExample
    CacheSize = 2
    ChanCap = 1
    TablesOf <- MCTablesOf
    Accepted <- MCAccepted
    LongSQL <- MCLongGood
SYMMETRY Symmetry
INVARIANTS
    TypeOK
    CacheWellFormed
    ShapesNeverMix
    RepairsProven
    ExamplesProven
    AgentCallsBounded
PROPERTIES
    QueriesGetOn
    EvictsLeastRecent
