SPECIFICATION Spec
CONSTANTS
    None = None
    Places = {runtime}
    Daemons = {d1, d2}
    MaxStops = 1
INVARIANT StopRemovesSocket
