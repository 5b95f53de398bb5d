\* Two entries and a distillation, a failing local worker with a remote fallback, and two restarts.
SPECIFICATION Spec
CONSTANTS
    Rows = {"port", "lock", "segment"}
    Table <- MCTable
    Tokens <- MCTokens
    Configs = {"nomic", "voyage"}
    ProviderOf <- MCProviderOf
    RemoteKey = TRUE
    MAX_BACKFILL_CHUNK = 8
    MAX_BATCH_TOKEN_AREA = 5
    MaxText <- MCMaxText
    Backlog = {"lock", "segment"}
    MaxAsked = 1
    MaxProcesses = 3
CHECK_DEADLOCK FALSE
INVARIANTS NobodyStranded OneSpace BackfillCovers
PROPERTY NewestWins
