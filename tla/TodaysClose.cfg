SPECIFICATION AVSpec
CONSTANTS
    Callers = {a}
    Minute = 600
    FreeTierRpm = 60
    Setting = "unset"
    Delay = 1
    Responses <- AllResponses
    Today = 3
    Window = 2
    MaxRestarts = 0
    Garbled = Garbled
    None = None
INVARIANT StampedHasTodaysClose
