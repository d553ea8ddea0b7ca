CONSTANTS
    Hosts = {"h1", "h2"}
    Router = "router"
    Wan = "wan"
    Ids = {"a", "b"}
    MaxUsed = 2
    MaxBuilds = 2
    Configs <- MCConfigs
SPECIFICATION Spec
INVARIANTS
    CountedOnce
    CutOffAtLimit
    NeverCutOffWrongly
    SlowedAtLimit
    MarksLeave
    RedirectedWhenCutOff
    OthersForgetNamed
