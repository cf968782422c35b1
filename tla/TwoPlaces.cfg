SPECIFICATION Spec
CONSTANTS
    None = None
    Places = {runtime, tmp}
    Daemons = {d1, d2}
    MaxStops = 0
INVARIANT OnePerUser
CHECK_DEADLOCK FALSE
