\* Three limited tasks for two slots, a call outside the limiter, an urgent one.
SPECIFICATION FairLimiterSpec
CONSTANTS
    t1 = t1
    t2 = t2
    t3 = t3
    x1 = x1
    u1 = u1
    Limited = {t1, t2, t3}
    Loose = {x1}
    Urgent = {u1}
    Concurrency = 2
    Schedule <- ShortSchedule
    Hints = {0, 3}
    MaxRetries = 1
    UrgentRetries = 1
    HintCap = 1
    MaxCalls = 2
INVARIANTS PauseBounded
PROPERTIES NoStartInPause TasksReturn
CHECK_DEADLOCK FALSE
