\* Two sessions that may store the same ids, two calls, a deletion, crashes.
SPECIFICATION FairSpec
CONSTANTS
    s1 = s1
    s2 = s2
    m1 = m1
    m2 = m2
    m3 = m3
    m4 = m4
    m5 = m5
    c1 = c1
    c2 = c2
    Sessions = {s1, s2}
    Messages = {m1, m2}
    CallIds = {c1, c2}
    Weight <- WeightOf
    MinMessages = 3
    MinSegmentTokens = 2
    MetaThreshold = 2
    LoweredThreshold = 2
    RecentToKeep = 0
    MaxRounds = 2
    MaxStores = 2
    MaxEdits = 1
INVARIANTS NoDuplicateDistillation NoCoveredPending
PROPERTIES EventuallyDistilled
CHECK_DEADLOCK FALSE
