\* Two requests; the model may recall beside a thought, a text or a call of the client's tools.
SPECIFICATION FairTurnSpec
CONSTANTS
    Queries = {"lock", "port"}
    Client = "anthropic"
    MAX_RECALL_DEPTH = 2
    Replies <- MCReplies
    RequestKinds <- MCRequestKinds
    MaxTurns = 2
CHECK_DEADLOCK FALSE
INVARIANTS CallsAnswered NothingLost Contiguous
PROPERTY TurnEnds
