CONSTANTS
    DBW_UL = 14
    MeasureRate = 1
    Period = 4
    PingLimitCL = 0
    AddEntitlement = FALSE
    FilterStart = 4
    FilterEnd = 8
    PingMin = 1500
    PingMax = 2500
    UpGain = 1
    DownGain = 1
    GainScale = 1
    Trips = {1}
    Loads = {0, 6, 14}
    CountMod = 6
    MaxOlder = 1
    MaxLists = 2
    BigLists = {}
    TalkMayFail = TRUE
SPECIFICATION ResponsiveSpec
INVARIANTS
    PingLimitKnown
PROPERTIES
    
    SignalEndsDaemon
