SPECIFICATION OnceSpec
CONSTANTS
    None = None
    Places = {runtime}
    Daemons = {d1, d2}
    MaxStops = 1
PROPERTY ReplacementServes
CHECK_DEADLOCK FALSE
