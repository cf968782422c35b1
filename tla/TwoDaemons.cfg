SPECIFICATION Spec
CONSTANTS
    None = None
    Places = {runtime}
    Daemons = {d1, d2, d3}
    MaxStops = 1
INVARIANT OneInstance
