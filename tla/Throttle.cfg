SPECIFICATION FairAVSpec
CONSTANTS
    Callers = {a, b, c}
    Minute = 600
    FreeTierRpm = 60
    Setting = "typo"
    Delay = 1
    Responses <- AllResponses
    Today = 3
    Window = 2
    MaxRestarts = 2
    Garbled = Garbled
    None = None
INVARIANTS TypeOK OneEarlyPerRestart ChartSound
PROPERTIES ReleasesSpaced ArrivalsSpaced Served
