SPECIFICATION HistorySpec
CONSTANTS
    NoState = NoState
    NoOverhead = NoOverhead
    NoSnapshot = NoSnapshot
    NoPrefix = NoPrefix
    NoPin = NoPin
    NoModel = NoModel
    NoRead = NoRead
    s1 = s1
    r1 = r1
    small = small
    large = large
    file = file
    Messages <- Turns
    Replies <- Answers
    NoteSize = 1
    TailLeast = 1
    TailMost = 3
    Sessions = {s1}
    Requests = {r1}
    Models = {small}
    Pricing <- OneModel
    CapFixed = FALSE
    FirstTurnOverhead = 4
    PrefixBase = 0
    RowSize = 4
    DistLimit = 1
    EmergencyRows = 1
    BustLimit = 1
    RecentKept = 2
    FirstMerge = 1
    LtmSizes = {0}
    Extras = {1}
    Calls = {1}
    HostForces = TRUE
    MaxMessages = 9
    Openings <- Beginnings
    MaxTurns = 3
    MaxRows = 2
INVARIANTS WindowFits PrefixMatchesRows
PROPERTIES ForcedIsHonoured GrowingTurnIntact NoBounce
CHECK_DEADLOCK FALSE
