CONSTANTS
    Cpus = {"p1", "p2"}
    Writers = {"w1","w2"}
    MaxText = 2
    Seq32 = 4
    None = None
    Hash <- MCHash
    Extending <- MCExtending
    Starred <- MCStarred
    Cases <- MCCases
SPECIFICATION Spec
INVARIANT AloneRight
INVARIANT TableSafe
INVARIANT TextInForce
CHECK_DEADLOCK FALSE
