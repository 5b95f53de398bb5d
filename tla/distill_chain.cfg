\* First and second consolidations of a session, with retention and crashes.
SPECIFICATION ChainSpec
CONSTANTS
    s1 = s1
    s2 = s2
    m1 = m1
    m2 = m2
    m3 = m3
    m4 = m4
    m5 = m5
    c1 = c1
    c2 = c2
    Sessions = {s1}
    Messages = {m1, m2, m3, m4, m5}
    CallIds = {c1}
    Weight <- AllHeavy
    MinMessages = 2
    MinSegmentTokens = 2
    MetaThreshold = 3
    LoweredThreshold = 2
    RecentToKeep = 0
    MaxRounds = 1
    MaxStores = 4
    MaxEdits = 0
SYMMETRY AllSymmetry
INVARIANTS PrefixReachesAll
PROPERTIES CoverageNeverShrinks
CHECK_DEADLOCK FALSE
