\* One session, three turns, a pause, a crash or an error, and a command.
SPECIFICATION FairSpec
CONSTANTS
    s1 = s1
    Sessions = {s1}
    AfterTurns = 1
    EffectiveAfterTurns = 2
    MinRecent = 1
    MaxTurns = 3
    MaxFaults = 1
    MaxCommands = 1
CHECK_DEADLOCK FALSE
INVARIANTS NotReadTwice
PROPERTIES QuietSessionCurated
