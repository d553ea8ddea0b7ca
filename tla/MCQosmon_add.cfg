CONSTANTS
    DBW_UL = 14
    MeasureRate = 1
    Period = 4
    PingLimitCL = 1000
    AddEntitlement = TRUE
    FilterStart = 0
    FilterEnd = 3
    PingMin = 1500
    PingMax = 2500
    UpGain = 1
    DownGain = 1
    GainScale = 1
    Trips = {1}
    Loads = {0, 6, 14}
    CountMod = 3
    MaxOlder = 0
    MaxLists = 2
    BigLists = {}
    TalkMayFail = TRUE
SPECIFICATION Spec
INVARIANTS
    LimitInRange
    LimitInForce
    MeasuresUnloaded
    RestoredOnExit
