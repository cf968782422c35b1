SPECIFICATION AVSpec
CONSTANTS
    Callers = {a, b, c}
    Minute = 600
    FreeTierRpm = 60
    Setting = "unset"
    Delay = 3
    Responses <- TwoResponses
    Today = 3
    Window = 2
    MaxRestarts = 0
    Garbled = Garbled
    None = None
PROPERTY NeverFaster
