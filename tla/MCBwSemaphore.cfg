CONSTANTS
    Procs = {p1, p2, p3}
    SigProcs = {p1, p2}
    KillProcs = {p2, p3}
    MaxTries = 2
SPECIFICATION SemFairSpec
INVARIANTS
    MutualExclusion
    FreeMeansUnowned
PROPERTIES
    LockReturns
