\* Two segments end, and the merge of a third call fails and is tried again.
SPECIFICATION MergeSpec
CONSTANTS
    Segment = {x1, x2}
    Tick = tick
    MergeRetries = 1
INVARIANT MergesAlone
CHECK_DEADLOCK FALSE
