SPECIFICATION FairSpec
CONSTANTS
    None = None
    Places = {runtime, tmp}
    Daemons = {d1, d2, d3}
    MaxStops = 1
INVARIANTS OneDaemon TidyEndsLeaveNoDebris DaemonIsReachable
PROPERTY KeepsServing
\* Several processes may all end up serving, with nothing left to do.
CHECK_DEADLOCK FALSE
