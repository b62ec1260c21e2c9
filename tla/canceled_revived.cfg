\* A cancel between the dispatcher's read of the queue and its read of the segments.
SPECIFICATION Spec
CONSTANTS
    long = long  short = short  x1 = x1  x2 = x2  s1 = s1  s2 = s2
    None = None
    Tasks <- OnlyLong
    Segs <- MCSegs
    Servers <- OneServer
    Parent <- MCParent
    Cap <- OneCap
    MaxRetry = 1
    SegMaxRetry = 0
    SegParallel = 2
    QueuedRetries = {0}
    Groups <- MCGroups
    MaxRestarts = 0
    Lingering = FALSE
    ApiDuringDispatch = TRUE
\* The runner has nothing to do once every task is settled.
CHECK_DEADLOCK FALSE
PROPERTIES
    CanceledStaysCanceled
