\* Two processes of two releases, two directories of one repository.
SPECIFICATION MCSpec
CONSTANTS
    p1 = p1
    p2 = p2
    a = a
    b = b
    c = c
    i1 = i1
    i2 = i2
    i3 = i3
    r = r
    Procs = {p1, p2}
    Release <- Releases
    Found = {20, 26}
    Holes <- HolesFound
    Paths = {a, b, c}
    Ids = {i1, i2, i3}
    RemoteOf <- RemotesOf
    NoRemote = NoRemote
    NoId = NoId
    MaxCalls = 2
    Source = a
    MaxMessages = 2
SYMMETRY IdSymmetry
INVARIANTS OpenIsComplete OneProjectPerRemote RowsReachable NothingSkipped
CHECK_DEADLOCK FALSE
