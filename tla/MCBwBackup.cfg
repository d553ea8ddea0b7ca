CONSTANTS
    Hosts = {1, 2, 3}
    Grouped = {3}
    Chunk = 12
    MaxTraffic = 3
    MaxRestarts = 3
    NumberLimit = 0
    Rule = "rule"
    Byte = 256
    PerReply = 2
    Capacity = 3
    Lengths = {2}
    MaxIps = 4
    BlockLength = 2
SPECIFICATION FairSpec
INVARIANTS
    NeverOvercounted
    QueryComplete
    
    AllSent
PROPERTIES
    CallsReturn
CHECK_DEADLOCK FALSE
VIEW MCView
