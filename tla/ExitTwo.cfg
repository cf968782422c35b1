SPECIFICATION CliSpec
CONSTANTS
    Sizes = {1}
    MAX_REQUEST_BYTES = 3
    MayFail = TRUE
    Capacity = 2
    MaxCalls = 1
    Commands <- AllCommands
    MaxRuns = 1
    None = None
INVARIANT TwoMeansNeverReached
CHECK_DEADLOCK FALSE
