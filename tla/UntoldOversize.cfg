SPECIFICATION CliSpec
CONSTANTS
    Sizes = {1, 3}
    MAX_REQUEST_BYTES = 2
    MayFail = FALSE
    Capacity = 2
    MaxCalls = 1
    Commands <- NoCommands
    MaxRuns = 1
    None = None
INVARIANT OversizedIsTold
CHECK_DEADLOCK FALSE
