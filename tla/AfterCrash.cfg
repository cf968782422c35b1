SPECIFICATION AfterCrashSpec
CONSTANTS
    None = None
    Places = {runtime}
    Daemons = {d1, d2, d3, d4}
    MaxStops = 1
PROPERTY SomebodyServes
CHECK_DEADLOCK FALSE
