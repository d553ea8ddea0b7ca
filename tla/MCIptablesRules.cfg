CONSTANTS
    Cases <- MCAll
    Truncated <- MCTruncated
    Quote = Quote
    None = None
SPECIFICATION IptSpec
INVARIANT RightFate
INVARIANT LeavesClean
CHECK_DEADLOCK FALSE
