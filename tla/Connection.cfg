SPECIFICATION FairCliSpec
CONSTANTS
    Sizes = {1, 2, 3, 5}
    MAX_REQUEST_BYTES = 3
    MayFail = TRUE
    Capacity = 2
    MaxCalls = 3
    Commands <- AllCommands
    MaxRuns = 2
    None = None
INVARIANTS RepliesInOrder ExecutedInOrder OneInDoubt HangsUpWithReason ExitTellsTrade
PROPERTY CallsReturn
CHECK_DEADLOCK FALSE
