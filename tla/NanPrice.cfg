SPECIFICATION CliSpec
CONSTANTS
    Sizes = {1}
    MAX_REQUEST_BYTES = 3
    MayFail = FALSE
    Capacity = 2
    MaxCalls = 1
    Commands <- NanCommands
    MaxRuns = 1
    None = None
INVARIANT FilledAsAsked
CHECK_DEADLOCK FALSE
