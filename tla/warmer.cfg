\* A session: warm-ups that answer late, commands, failing turns and a restart.
SPECIFICATION Spec
CONSTANTS
    Sessions = {s1}
    TTL = 3
    Margin = 1
    MaxCycles = 2
    TOOL_CALL_MAX_CYCLES = 1
    MAX_TOOL_CALL_WARMING = 6
    CIRCUIT_BREAKER_MAX_FAILURES = 2
    MIN_WARMUPS_FOR_ROI_CHECK = 3
    HitShare = 2
    MaxTime = 12
    MaxTurns = 3
    MaxCommands = 1
    MaxRestarts = 1
CHECK_DEADLOCK FALSE
INVARIANTS HitsBacked CyclesBounded
PROPERTIES BreakerStays StopHolds
