CONSTANTS
    Cases <- MCCases
    Hosts = {h1, h2}
    h1 = h1
    h2 = h2
    Volumes = {2, 9}
    Word = 8
    Nodes = 2
    MonthStarts <- MCMonthStarts
    MaxPackets = 2
    MaxStops = 2
    None = None
    Unknown = Unknown
SPECIFICATION Spec
INVARIANTS
    HistoryTrue
    FileTrue
CHECK_DEADLOCK FALSE
SYMMETRY MCHosts
