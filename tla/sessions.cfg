\* Three clients, two requests at a time, a restart or a day.
SPECIFICATION Spec
CONSTANTS
    Convs <- MCConvs
    Requests = {r1, r2}
    KnownHeaders <- MCKnownHeaders
    Sends <- MCSends
    Adds <- MCAdds
    Volatile = {"x-session-affinity"}
    FirstMessage <- MCFirst
    ClientId <- MCClientId
    ParentOf <- MCParent
    LEARNING_THRESHOLD = 2
    MESSAGE_COUNT_PROXIMITY_THRESHOLD = 1
    MaxSent <- MCSent
    MaxGeneration = 2
    MaxChanges = 1
    MaxPeriods = 2
SYMMETRY Interchangeable
CHECK_DEADLOCK FALSE
INVARIANTS OneSession Apart StoredKeysLead
