\* Three calls, two sessions, two credentials, overlapping flushes and polls, a restart.
SPECIFICATION FairSpec
CONSTANTS
    p1 = p1
    p2 = p2
    p3 = p3
    s1 = s1
    s2 = s2
    g1 = g1
    g2 = g2
    b1 = b1
    b2 = b2
    b3 = b3
    f1 = f1
    f2 = f2
    k1 = k1
    k2 = k2
    Drain = Drain
    NoBatch = NoBatch
    Prompts = {p1, p2, p3}
    Sessions = {s1, s2}
    Groups = {g1, g2}
    SessionOf <- TwoSessions
    GroupOf <- TwoGroups
    MaxQueueSize = 2
    Concurrency = 1
    Flushes = {f1, f2}
    Polls = {k1, k2}
    Batches = {b1}
    MaxRestarts = 1
INVARIANTS NothingLost OnePlace
PROPERTIES ImplementsService
CHECK_DEADLOCK FALSE
