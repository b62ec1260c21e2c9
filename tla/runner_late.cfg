\* A short task, two restarts that overlap with coroutines of the old processes.
SPECIFICATION FairSpec
CONSTANTS
    long = long  short = short  x1 = x1  x2 = x2  s1 = s1  s2 = s2
    None = None
    Tasks <- OnlyShort
    Segs = {}
    Servers <- OneServer
    Parent <- NoParent
    Cap <- OneCap
    MaxRetry = 1
    SegMaxRetry = 0
    SegParallel = 2
    QueuedRetries = {0, 1}
    Groups <- MCGroups
    MaxRestarts = 2
    Lingering = TRUE
    ApiDuringDispatch = TRUE
\* The runner has nothing to do once every task is settled.
CHECK_DEADLOCK FALSE
PROPERTIES
    LateResultKept
