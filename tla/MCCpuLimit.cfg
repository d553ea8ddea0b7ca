CONSTANTS
    N = 3
    Target = 2
    MaxForks = 2
    MaxTime = 1
SPECIFICATION FairSpec
INVARIANTS
    OnlyStraysLeft
    AssertionHolds
PROPERTIES
    StoppedResumes
CHECK_DEADLOCK FALSE
