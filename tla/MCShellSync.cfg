CONSTANTS
    Procs = {"p1", "p2", "p3"}
    N = 3
    MaxRuns = 2
    MaxObjects = 6
    MaxMishaps = 1
SPECIFICATION Spec
INVARIANT NobodyAhead
PROPERTY AllPass
CHECK_DEADLOCK FALSE
