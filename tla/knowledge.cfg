\* Two sessions of two projects, three entries, one edit of a file.
SPECIFICATION FairFileSpec
CONSTANTS
    app = app
    lib = lib
    s1 = s1
    s2 = s2
    lock = lock
    locks = locks
    build = build
    test = test
    old = old
    mid = mid
    new = new
    Keep = Keep
    NoProject = NoProject
    Projects = {app, lib}
    Dirs = {app}
    Curators = {s1, s2}
    ProjectOf <- MCProjectOf
    Titles = {lock, locks, build, test}
    NearTitles <- MCNearTitles
    NearTexts <- MCNearTexts
    Contents <- MCContents
    Answers <- MCAnswers
    Patterns <- MCPatterns
    HandWritten <- MCHandWritten
    MaxEntries = 1
    MaxLength = 2
    NoticeLength = 1
    MaxIds = 3
    MaxMade = 2
    MaxEdits = 1
CHECK_DEADLOCK FALSE
INVARIANTS SweepKeepsOne
PROPERTIES ForeignNotDeleted Settles
